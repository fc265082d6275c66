----------------------- MODULE ReceiptContent_proofs -----------------------
(***************************************************************************)
(* The theorem that a receipt survives its encoding: for all sections, page*)
(* profiles and bounds, what the interpreter of escpos::parse reads from   *)
(* the stream of escpos::render_layout has the contents of the document.   *)
(*                                                                         *)
(* First come the words that wrap_text and the two columns of a row keep,  *)
(* then what a stream carries: its words, the lines that it feeds and its  *)
(* marks, token by token.  The encoder writes for each element a stream    *)
(* that carries its contents, and the interpreter has, after each token,   *)
(* made elements of what the stream carried so far.  Last comes the        *)
(* invariant of both, with a lemma for each action.                        *)
(***************************************************************************)
EXTENDS Receipt_proofs

-----------------------------------------------------------------------------
(* Words: what survives wrapping.                                          *)

\* The identities of words.
WordIds == Nat \X Nat \X Nat

\* The columns that each word of a line takes, if it has this identity.
Shares(words, id) == [i \in 1 .. Len(words) |-> IF words[i].id = id THEN words[i].width ELSE 0]

\* The same words with the same columns in all.
SameInk(a, b) == Ids(a) = Ids(b) /\ \A id \in WordIds : InkOf(a, id) = InkOf(b, id)

\* What a line of words is made of.
LEMMA WordFacts ==
  ASSUME NEW a \in Seq(NamedWords)
  PROVE  /\ Len(a) \in Nat /\ Ids(a) \subseteq WordIds
         /\ \A i \in 1 .. Len(a) : a[i] \in NamedWords /\ a[i].id \in WordIds /\ a[i].width \in Nat
                                   /\ a[i].id \in Ids(a)
<1>1. Len(a) \in Nat /\ \A i \in 1 .. Len(a) : a[i] \in NamedWords
  BY LenProperties, ElementOfSeq
<1>2. \A i \in 1 .. Len(a) : a[i].id \in WordIds /\ a[i].width \in Nat
  BY <1>1 DEF NamedWords, WordIds
<1>. QED
  BY <1>1, <1>2 DEF Ids

\* No words.
LEMMA NoWords == Ids(<< >>) = {} /\ \A id : InkOf(<< >>, id) = 0
<1>1. Len(<< >>) = 0
  OBVIOUS
<1>2. \A id : Shares(<< >>, id) = << >>
  BY <1>1 DEF Shares
<1>. QED
  BY <1>1, <1>2, SumOfFacts DEF Ids, InkOf, Shares

\* The columns of a word in a line are a number.
LEMMA SharesType ==
  ASSUME NEW a \in Seq(NamedWords), NEW id
  PROVE  Shares(a, id) \in Seq(Int) /\ Len(Shares(a, id)) = Len(a) /\ InkOf(a, id) = SumOf(Shares(a, id))
         /\ InkOf(a, id) \in Int
<1>1. \A i \in 1 .. Len(a) : (IF a[i].id = id THEN a[i].width ELSE 0) \in Int
  BY WordFacts
<1>2. Len(a) \in Nat
  BY WordFacts
<1>3. Shares(a, id) \in Seq(Int) /\ Len(Shares(a, id)) = Len(a)
  BY <1>1, <1>2 DEF Shares
<1>4. InkOf(a, id) = SumOf(Shares(a, id))
  BY DEF InkOf, Shares
<1>. QED
  BY <1>3, <1>4, SumOfFacts

\* Two lines put together have the words of both.
LEMMA WordsJoined ==
  ASSUME NEW a \in Seq(NamedWords), NEW b \in Seq(NamedWords)
  PROVE  /\ a \o b \in Seq(NamedWords) /\ Ids(a \o b) = Ids(a) \cup Ids(b)
         /\ \A id : InkOf(a \o b, id) = InkOf(a, id) + InkOf(b, id)
<1>1. /\ Len(a) \in Nat /\ Len(b) \in Nat /\ a \o b \in Seq(NamedWords)
      /\ Len(a \o b) = Len(a) + Len(b)
      /\ \A i \in 1 .. Len(a) : (a \o b)[i] = a[i]
      /\ \A i \in 1 .. Len(b) : (a \o b)[Len(a) + i] = b[i]
  <2>1. /\ Len(a) \in Nat /\ Len(b) \in Nat /\ a \o b \in Seq(NamedWords)
        /\ Len(a \o b) = Len(a) + Len(b)
        /\ \A i \in 1 .. Len(a) + Len(b) : (a \o b)[i] = IF i <= Len(a) THEN a[i] ELSE b[i - Len(a)]
    BY ConcatProperties, LenProperties
  <2>. DEFINE c == a \o b
              m == Len(a)
              n == Len(b)
  <2>2. /\ m \in Nat /\ n \in Nat
        /\ \A i \in 1 .. m + n : c[i] = IF i <= m THEN a[i] ELSE b[i - m]
    BY <2>1
  <2>. HIDE DEF c, m, n
  <2>3. \A i \in 1 .. m : c[i] = a[i]
    BY <2>2
  <2>4. ASSUME NEW i \in 1 .. n PROVE c[m + i] = b[i]
    <3>1. m + i \in 1 .. m + n /\ ~(m + i <= m) /\ (m + i) - m = i
      BY <2>2
    <3>. QED
      BY <2>2, <3>1
  <2>. QED
    BY <2>1, <2>3, <2>4 DEF c, m, n
<1>. DEFINE c == a \o b
<1>. HIDE DEF c
<1>2. Ids(c) = Ids(a) \cup Ids(b)
  <2>1. ASSUME NEW i \in 1 .. Len(c) PROVE c[i].id \in Ids(a) \cup Ids(b)
    <3>1. CASE i <= Len(a)
      BY <1>1, <3>1 DEF c, Ids
    <3>2. CASE ~(i <= Len(a))
      <4>1. i - Len(a) \in 1 .. Len(b) /\ Len(a) + (i - Len(a)) = i
        BY <1>1, <3>2 DEF c
      <4>2. c[i] = b[i - Len(a)]
        BY <1>1, <4>1 DEF c
      <4>. QED
        BY <4>1, <4>2 DEF Ids
    <3>. QED
      BY <3>1, <3>2
  <2>2. \A i \in 1 .. Len(a) : a[i].id \in Ids(c)
    <3>. SUFFICES ASSUME NEW i \in 1 .. Len(a) PROVE a[i].id \in Ids(c)
      OBVIOUS
    <3>1. i \in 1 .. Len(c) /\ c[i] = a[i]
      BY <1>1 DEF c
    <3>. QED
      BY <3>1 DEF Ids
  <2>3. \A i \in 1 .. Len(b) : b[i].id \in Ids(c)
    <3>. SUFFICES ASSUME NEW i \in 1 .. Len(b) PROVE b[i].id \in Ids(c)
      OBVIOUS
    <3>1. Len(a) + i \in 1 .. Len(c) /\ c[Len(a) + i] = b[i]
      BY <1>1 DEF c
    <3>. QED
      BY <3>1 DEF Ids
  <2>. QED
    BY <2>1, <2>2, <2>3 DEF Ids
<1>3. ASSUME NEW id PROVE InkOf(c, id) = InkOf(a, id) + InkOf(b, id)
  <2>. DEFINE u == Shares(a, id)
              v == Shares(b, id)
              w == Shares(c, id)
  <2>0. c \in Seq(NamedWords) /\ Len(c) = Len(a) + Len(b)
    BY <1>1 DEF c
  <2>1. /\ u \in Seq(Int) /\ v \in Seq(Int) /\ w \in Seq(Int)
        /\ Len(u) = Len(a) /\ Len(v) = Len(b) /\ Len(w) = Len(a) + Len(b)
        /\ InkOf(a, id) = SumOf(u) /\ InkOf(b, id) = SumOf(v) /\ InkOf(c, id) = SumOf(w)
    BY <2>0, SharesType
  <2>2. \A i \in 1 .. Len(a) : w[i] = u[i]
    BY <1>1, <2>0 DEF Shares, c
  <2>3. ASSUME NEW i \in 1 .. Len(b) PROVE w[Len(a) + i] = v[i]
    <3>1. Len(a) + i \in 1 .. Len(c) /\ c[Len(a) + i] = b[i]
      BY <1>1, <2>0 DEF c
    <3>. QED
      BY <3>1 DEF Shares
  <2>. HIDE DEF u, v, w
  <2>5. /\ Len(w) = Len(u) + Len(v) /\ \A i \in 1 .. Len(u) : w[i] = u[i]
        /\ \A i \in 1 .. Len(v) : w[Len(u) + i] = v[i]
    BY <2>1, <2>2, <2>3
  <2>4. w = u \o v
    BY <2>1, <2>5, IsConcat
  <2>. QED
    BY <2>1, <2>4, SumOfConcat
<1>. QED
  BY <1>1, <1>2, <1>3 DEF c

\* Joining keeps the same ink on both sides, and so does putting something in between.
LEMMA SameInkJoined ==
  ASSUME NEW a \in Seq(NamedWords), NEW b \in Seq(NamedWords),
         NEW c \in Seq(NamedWords), NEW d \in Seq(NamedWords), SameInk(a, b), SameInk(c, d)
  PROVE  SameInk(a \o c, b \o d)
<1>1. /\ Ids(a \o c) = Ids(a) \cup Ids(c) /\ Ids(b \o d) = Ids(b) \cup Ids(d)
      /\ \A id : InkOf(a \o c, id) = InkOf(a, id) + InkOf(c, id)
      /\ \A id : InkOf(b \o d, id) = InkOf(b, id) + InkOf(d, id)
  BY WordsJoined
<1>2. /\ Ids(a) = Ids(b) /\ Ids(c) = Ids(d)
      /\ \A id \in WordIds : InkOf(a, id) = InkOf(b, id) /\ InkOf(c, id) = InkOf(d, id)
  BY DEF SameInk
<1>3. Ids(a \o c) = Ids(b \o d)
  BY <1>1, <1>2
<1>4. \A id \in WordIds : InkOf(a \o c, id) = InkOf(b \o d, id)
  BY <1>1, <1>2
<1>. QED
  BY <1>3, <1>4 DEF SameInk

\* The columns of one word.
LEMMA OneWord ==
  ASSUME NEW w \in NamedWords
  PROVE  /\ <<w>> \in Seq(NamedWords) /\ Ids(<<w>>) = {w.id}
         /\ \A id : InkOf(<<w>>, id) = IF id = w.id THEN w.width ELSE 0
<1>1. <<w>> \in Seq(NamedWords) /\ Len(<<w>>) = 1 /\ <<w>>[1] = w
  OBVIOUS
<1>2. Ids(<<w>>) = {w.id}
  BY <1>1 DEF Ids
<1>3. w.width \in Int
  BY DEF NamedWords
<1>4. ASSUME NEW id PROVE InkOf(<<w>>, id) = IF id = w.id THEN w.width ELSE 0
  <2>. DEFINE x == IF id = w.id THEN w.width ELSE 0
  <2>1. Shares(<<w>>, id) = <<x>>
    BY <1>1 DEF Shares
  <2>2. x \in Int /\ <<x>> = Append(<< >>, x) /\ << >> \in Seq(Int)
    BY <1>3, EmptySeq
  <2>. HIDE DEF x
  <2>3. SumOf(<<x>>) = 0 + x
    BY <2>2, SumOfFacts
  <2>4. InkOf(<<w>>, id) = SumOf(Shares(<<w>>, id))
    BY <1>1, SharesType
  <2>. QED
    BY <2>1, <2>2, <2>3, <2>4 DEF x
<1>. QED
  BY <1>1, <1>2, <1>4

\* The order of joined lines.
LEMMA OrderJoined ==
  ASSUME NEW a \in Seq(NamedWords), NEW b \in Seq(NamedWords)
  PROVE  Ordered(a \o b) <=> /\ Ordered(a) /\ Ordered(b)
                             /\ \A x \in Ids(a), y \in Ids(b) : Before(x, y)
<1>. DEFINE c == a \o b
            m == Len(a)
            n == Len(b)
<1>1. /\ m \in Nat /\ n \in Nat /\ Len(c) = m + n
      /\ \A i \in 1 .. m + n : c[i] = IF i <= m THEN a[i] ELSE b[i - m]
  BY ConcatProperties, LenProperties
<1>. HIDE DEF c, m, n
<1>2. \A i \in 1 .. m : c[i] = a[i]
  BY <1>1
<1>3. ASSUME NEW i \in 1 .. n PROVE c[m + i] = b[i] /\ m + i \in 1 .. m + n
  <2>1. m + i \in 1 .. m + n /\ ~(m + i <= m) /\ (m + i) - m = i
    BY <1>1
  <2>. QED
    BY <1>1, <2>1
<1>4. ASSUME Ordered(c)
      PROVE  Ordered(a) /\ Ordered(b) /\ \A x \in Ids(a), y \in Ids(b) : Before(x, y)
  <2>1. \A i, j \in 1 .. m + n : i < j => Before(c[i].id, c[j].id)
    BY <1>1, <1>4 DEF Ordered
  <2>2. Ordered(a)
    <3>. SUFFICES ASSUME NEW i \in 1 .. m, NEW j \in 1 .. m, i < j PROVE Before(a[i].id, a[j].id)
      BY DEF Ordered, m
    <3>1. i \in 1 .. m + n /\ j \in 1 .. m + n
      BY <1>1
    <3>. QED
      BY <1>2, <2>1, <3>1
  <2>3. Ordered(b)
    <3>. SUFFICES ASSUME NEW i \in 1 .. n, NEW j \in 1 .. n, i < j PROVE Before(b[i].id, b[j].id)
      BY DEF Ordered, n
    <3>1. m + i < m + j
      BY <1>1
    <3>. QED
      BY <1>3, <2>1, <3>1
  <2>4. ASSUME NEW x \in Ids(a), NEW y \in Ids(b) PROVE Before(x, y)
    <3>1. PICK i \in 1 .. m : x = a[i].id
      BY DEF Ids, m
    <3>2. PICK j \in 1 .. n : y = b[j].id
      BY DEF Ids, n
    <3>3. i < m + j /\ i \in 1 .. m + n
      BY <1>1
    <3>. QED
      BY <1>2, <1>3, <2>1, <3>1, <3>2, <3>3
  <2>. QED
    BY <2>2, <2>3, <2>4
<1>5. ASSUME Ordered(a), Ordered(b), \A x \in Ids(a), y \in Ids(b) : Before(x, y)
      PROVE  Ordered(c)
  <2>. SUFFICES ASSUME NEW i \in 1 .. m + n, NEW j \in 1 .. m + n, i < j PROVE Before(c[i].id, c[j].id)
    BY <1>1 DEF Ordered
  <2>0. \A k \in 1 .. m + n : ~(k <= m) => k - m \in 1 .. n /\ c[k] = b[k - m]
    BY <1>1
  <2>1. CASE j <= m
    <3>1. i \in 1 .. m /\ j \in 1 .. m
      BY <1>1, <2>1
    <3>. QED
      BY <1>2, <1>5, <3>1 DEF Ordered, m
  <2>2. CASE ~(j <= m) /\ i <= m
    <3>1. i \in 1 .. m /\ c[i] = a[i] /\ j - m \in 1 .. n /\ c[j] = b[j - m]
      BY <1>1, <1>2, <2>0, <2>2
    <3>2. a[i].id \in Ids(a) /\ b[j - m].id \in Ids(b)
      BY <3>1 DEF Ids, m, n
    <3>. QED
      BY <1>5, <3>1, <3>2
  <2>3. CASE ~(i <= m)
    <3>1. ~(j <= m)
      BY <1>1, <2>3
    <3>2. /\ i - m \in 1 .. n /\ c[i] = b[i - m] /\ j - m \in 1 .. n /\ c[j] = b[j - m]
          /\ i - m < j - m
      BY <1>1, <2>0, <2>3, <3>1
    <3>. QED
      BY <1>5, <3>2 DEF Ordered, n
  <2>. QED
    BY <2>1, <2>2, <2>3
<1>. QED
  BY <1>4, <1>5 DEF c

\* The words of a wrapping in progress.
Held(acc) == FlattenSeq(acc.lines) \o acc.open

\* Lines that fit are lines.
LEMMA FittingSeqs ==
  ASSUME NEW width, NEW lines \in Seq(Fitting(NamedWords, width))
  PROVE  lines \in Seq(Seq(NamedWords))
<1>1. Fitting(NamedWords, width) \subseteq Seq(NamedWords)
  BY DEF Fitting
<1>. QED
  BY <1>1, SeqWithin

\* The pieces of a word that is cut add up to it.
LEMMA CutWordKeeps ==
  ASSUME NEW word \in NamedWords, NEW width \in Nat, width > 0, word.width > width
  PROVE  \E p \in Seq(NamedWords) :
           /\ FlattenSeq(Front(CutWord(word, width))) \o Last(CutWord(word, width)) = p
           /\ SameInk(p, <<word>>) /\ Ordered(p)
           /\ Front(CutWord(word, width)) \in Seq(Seq(NamedWords))
           /\ Last(CutWord(word, width)) \in Seq(NamedWords)
           /\ Last(CutWord(word, width)) # << >>
           /\ \A i \in 1 .. Len(Front(CutWord(word, width))) : Front(CutWord(word, width))[i] # << >>
<1>. DEFINE full == (word.width - 1) \div width
            rest == word.width - full * width
            part(i) == IF i <= full THEN width ELSE rest
            piece(i) == [word EXCEPT !.width = part(i)]
            cut == CutWord(word, width)
            p == [i \in 1 .. full + 1 |-> piece(i)]
<1>1. word.width \in Nat /\ word.id \in WordIds
  BY DEF NamedWords, WordIds
<1>2. full \in Nat /\ full > 0 /\ rest \in 1 .. width
  BY <1>1, CutFits
<1>3. cut = [i \in 1 .. full + 1 |-> <<piece(i)>>]
  BY DEF CutWord
<1>4. rest + full * width = word.width /\ full * width \in Nat
  <2>. HIDE DEF full
  <2>1. full * width \in Nat
    BY <1>2, ProductFacts
  <2>. QED
    BY <1>1, <2>1
<1>. HIDE DEF full, rest
<1>5. \A i \in 1 .. full + 1 : part(i) \in Nat /\ piece(i) \in NamedWords /\ piece(i).id = word.id
                               /\ piece(i).width = part(i)
  <2>1. \A i \in 1 .. full + 1 : part(i) \in Nat
    BY <1>2
  <2>. HIDE DEF part
  <2>. QED
    BY <2>1 DEF NamedWords
<1>6. p \in Seq(NamedWords) /\ Len(p) = full + 1
  <2>. HIDE DEF piece
  <2>. QED
    BY <1>2, <1>5
<1>7. FlattenSeq(cut) = p
  <2>1. cut = [i \in 1 .. Len(p) |-> <<p[i]>>]
    <3>. HIDE DEF piece
    <3>. QED
      BY <1>2, <1>3, <1>6
  <2>. QED
    BY <1>6, <2>1, FlattenSingles
<1>8. /\ cut \in Seq(Seq(NamedWords)) /\ Len(cut) = full + 1
      /\ \A i \in 1 .. full + 1 : cut[i] # << >>
  <2>. HIDE DEF piece
  <2>1. \A i \in 1 .. full + 1 : <<piece(i)>> \in Seq(NamedWords) /\ <<piece(i)>> # << >>
    BY <1>5
  <2>. QED
    BY <1>2, <1>3, <2>1
<1>9. \A i \in 1 .. Len(p) : p[i].id = word.id /\ p[i].width = part(i)
  <2>. HIDE DEF piece, part
  <2>. QED
    BY <1>5, <1>6
<1>10. Ids(p) = {word.id}
  <2>1. 1 \in 1 .. Len(p)
    BY <1>2, <1>6
  <2>. QED
    BY <1>9, <2>1 DEF Ids
<1>11. InkOf(p, word.id) = word.width
  <2>. DEFINE u == [i \in 1 .. full |-> width]
              v == Shares(p, word.id)
  <2>1. /\ v \in Seq(Int) /\ Len(v) = full + 1 /\ InkOf(p, word.id) = SumOf(v)
    BY <1>6, SharesType
  <2>2. u \in Seq(Int) /\ Len(u) = full /\ SumOf(u) = full * width
    BY <1>2, SumOfEqual
  <2>3. \A i \in 1 .. full + 1 : v[i] = part(i)
    <3>. HIDE DEF part
    <3>. QED
      BY <1>6, <1>9 DEF Shares
  <2>4. \A i \in 1 .. full : v[i] = u[i]
    BY <1>2, <2>3
  <2>5. v[full + 1] = rest
    BY <1>2, <2>3
  <2>. HIDE DEF u, v
  <2>6. v = Append(u, rest)
    BY <2>1, <2>2, <2>4, <2>5, IsAppend
  <2>7. rest \in Int
    BY <1>2
  <2>8. SumOf(v) = full * width + rest
    BY <2>2, <2>6, <2>7, SumOfFacts
  <2>. QED
    BY <1>2, <1>4, <2>1, <2>8
<1>12. ASSUME NEW id, id # word.id PROVE InkOf(p, id) = 0
  <2>1. Shares(p, id) = [i \in 1 .. full + 1 |-> 0]
    BY <1>6, <1>9, <1>12 DEF Shares
  <2>2. SumOf([i \in 1 .. full + 1 |-> 0]) = (full + 1) * 0
    BY <1>2, SumOfEqual
  <2>3. (full + 1) * 0 = 0
    BY <1>2
  <2>. QED
    BY <1>6, <2>1, <2>2, <2>3, SharesType
<1>13. SameInk(p, <<word>>)
  BY <1>10, <1>11, <1>12, OneWord DEF SameInk
<1>14. Ordered(p)
  <2>1. Before(word.id, word.id)
    BY <1>1 DEF Before, WordIds
  <2>. QED
    BY <1>9, <2>1 DEF Ordered
<1>. HIDE DEF cut, p
<1>15. /\ Front(cut) \in Seq(Seq(NamedWords)) /\ Len(Front(cut)) = full
       /\ \A i \in 1 .. full : Front(cut)[i] = cut[i]
  <2>1. Front(cut) = SubSeq(cut, 1, Len(cut) - 1)
    BY DEF Front
  <2>2. \A i \in 1 .. full : cut[i] \in Seq(NamedWords)
    BY <1>2, <1>8, ElementOfSeq
  <2>3. Len(cut) - 1 = full /\ 1 <= full /\ full - 1 + 1 = full
    BY <1>2, <1>8
  <2>4. /\ SubSeq(cut, 1, full) \in Seq(Seq(NamedWords)) /\ Len(SubSeq(cut, 1, full)) = full
        /\ \A i \in 1 .. full : SubSeq(cut, 1, full)[i] = cut[1 + i - 1]
    BY <1>2, <2>2, <2>3, SubSeqProperties
  <2>5. \A i \in 1 .. full : 1 + i - 1 = i
    OBVIOUS
  <2>. QED
    BY <2>1, <2>3, <2>4, <2>5
<1>16. Last(cut) = cut[full + 1] /\ Last(cut) \in Seq(NamedWords) /\ Last(cut) # << >>
  BY <1>2, <1>8, ElementOfSeq DEF Last
<1>17. cut = Append(Front(cut), Last(cut))
  BY <1>8, <1>15, <1>16, IsAppend
<1>18. FlattenSeq(cut) = FlattenSeq(Front(cut)) \o Last(cut)
  BY <1>15, <1>16, <1>17, FlattenFacts
<1>19. \A i \in 1 .. Len(Front(cut)) : Front(cut)[i] # << >>
  BY <1>2, <1>8, <1>15
<1>20. FlattenSeq(Front(cut)) \o Last(cut) = p
  BY <1>7, <1>18
<1>21. cut = CutWord(word, width)
  BY DEF cut
<1>. QED
  BY <1>6, <1>13, <1>14, <1>15, <1>16, <1>19, <1>20, <1>21

\* Three lines joined.
LEMMA RegroupWords ==
  ASSUME NEW a \in Seq(NamedWords), NEW b \in Seq(NamedWords), NEW c \in Seq(NamedWords)
  PROVE  (a \o b) \o c = a \o (b \o c)
  BY Regroup

\* No line is empty.
NoBlank(lines) == \A i \in 1 .. Len(lines) : lines[i] # << >>

\* Lines joined have no empty one if neither part has.
LEMMA NoBlankJoined ==
  ASSUME NEW a \in Seq(Seq(NamedWords)), NEW b \in Seq(Seq(NamedWords)), NoBlank(a), NoBlank(b)
  PROVE  a \o b \in Seq(Seq(NamedWords)) /\ NoBlank(a \o b)
<1>1. /\ Len(a) \in Nat /\ Len(b) \in Nat /\ a \o b \in Seq(Seq(NamedWords))
      /\ Len(a \o b) = Len(a) + Len(b)
      /\ \A i \in 1 .. Len(a) + Len(b) : (a \o b)[i] = IF i <= Len(a) THEN a[i] ELSE b[i - Len(a)]
  BY ConcatProperties, LenProperties
<1>2. ASSUME NEW i \in 1 .. Len(a) + Len(b) PROVE (a \o b)[i] # << >>
  <2>1. CASE i <= Len(a)
    <3>1. i \in 1 .. Len(a)
      BY <1>1, <2>1
    <3>. QED
      BY <1>1, <2>1, <3>1 DEF NoBlank
  <2>2. CASE ~(i <= Len(a))
    <3>1. i - Len(a) \in 1 .. Len(b)
      BY <1>1, <2>2
    <3>. QED
      BY <1>1, <2>2, <3>1 DEF NoBlank
  <2>. QED
    BY <2>1, <2>2
<1>. QED
  BY <1>1, <1>2 DEF NoBlank

\* So has a list of lines that gets another one.
LEMMA NoBlankAppend ==
  ASSUME NEW a \in Seq(Seq(NamedWords)), NEW l \in Seq(NamedWords), NoBlank(a), l # << >>
  PROVE  Append(a, l) \in Seq(Seq(NamedWords)) /\ NoBlank(Append(a, l))
<1>1. /\ Len(a) \in Nat /\ Append(a, l) \in Seq(Seq(NamedWords)) /\ Len(Append(a, l)) = Len(a) + 1
      /\ Append(a, l)[Len(a) + 1] = l /\ \A i \in 1 .. Len(a) : Append(a, l)[i] = a[i]
  BY AppendProperties, LenProperties
<1>2. \A i \in 1 .. Len(a) + 1 : i = Len(a) + 1 \/ i \in 1 .. Len(a)
  BY <1>1
<1>. QED
  BY <1>1, <1>2 DEF NoBlank

\* One word more: it is kept, in pieces if it is longer than the line.
LEMMA WrapWordKeeps ==
  ASSUME NEW width \in Nat, width > 0, NEW acc \in [lines : Seq(Seq(NamedWords)), open : Seq(NamedWords)],
         NoBlank(acc.lines), NEW word \in NamedWords
  PROVE  LET after == WrapWord(acc, word, width)
         IN  /\ after \in [lines : Seq(Seq(NamedWords)), open : Seq(NamedWords)]
             /\ NoBlank(after.lines) /\ after.open # << >>
             /\ \E p \in Seq(NamedWords) :
                  Held(after) = Held(acc) \o p /\ SameInk(p, <<word>>) /\ Ordered(p)
<1>. DEFINE ends  == acc.open # << >> /\ LineWidth(acc.open) + 1 + word.width > width
            lines == IF ends THEN Append(acc.lines, acc.open) ELSE acc.lines
            open  == IF ends THEN << >> ELSE acc.open
            cut   == CutWord(word, width)
            after == WrapWord(acc, word, width)
<1>1. acc.lines \in Seq(Seq(NamedWords)) /\ acc.open \in Seq(NamedWords) /\ word.width \in Nat
  BY DEF NamedWords
<1>2. LineWidth(acc.open) \in Nat
  BY <1>1, LineWidthFacts
<1>3. << >> \in Seq(NamedWords)
  BY EmptySeq
<1>4. lines \in Seq(Seq(NamedWords)) /\ open \in Seq(NamedWords) /\ NoBlank(lines)
  <2>1. CASE ends
    <3>1. Append(acc.lines, acc.open) \in Seq(Seq(NamedWords)) /\ NoBlank(Append(acc.lines, acc.open))
      BY <1>1, <2>1, NoBlankAppend
    <3>. QED
      BY <1>3, <2>1, <3>1
  <2>2. CASE ~ends
    BY <1>1, <2>2
  <2>. QED
    BY <2>1, <2>2
<1>5. FlattenSeq(lines) \o open = Held(acc)
  <2>1. CASE ends
    <3>1. FlattenSeq(Append(acc.lines, acc.open)) = FlattenSeq(acc.lines) \o acc.open
          /\ FlattenSeq(acc.lines) \in Seq(NamedWords)
      BY <1>1, FlattenFacts
    <3>2. FlattenSeq(acc.lines) \o acc.open \in Seq(NamedWords)
      BY <1>1, <3>1, ConcatProperties
    <3>3. (FlattenSeq(acc.lines) \o acc.open) \o << >> = FlattenSeq(acc.lines) \o acc.open
      BY <3>2, ConcatEmptySeq
    <3>. QED
      BY <2>1, <3>1, <3>3 DEF Held
  <2>2. CASE ~ends
    BY <2>2 DEF Held
  <2>. QED
    BY <2>1, <2>2
<1>6. after = IF word.width > width
              THEN [lines |-> lines \o Front(cut), open |-> Last(cut)]
              ELSE [lines |-> lines, open |-> Append(open, word)]
  BY DEF WrapWord
<1>7. word.width > width => open = << >>
  <2>1. word.width > width => LineWidth(acc.open) + 1 + word.width > width
    BY <1>1, <1>2
  <2>. QED
    BY <2>1
<1>8. FlattenSeq(lines) \in Seq(NamedWords)
  BY <1>4, FlattenFacts
<1>. HIDE DEF lines, open, after
<1>9. CASE word.width > width
  <2>1. PICK p \in Seq(NamedWords) :
           /\ FlattenSeq(Front(cut)) \o Last(cut) = p
           /\ SameInk(p, <<word>>) /\ Ordered(p)
           /\ Front(cut) \in Seq(Seq(NamedWords))
           /\ Last(cut) \in Seq(NamedWords)
           /\ Last(cut) # << >>
           /\ \A i \in 1 .. Len(Front(cut)) : Front(cut)[i] # << >>
    BY <1>9, CutWordKeeps
  <2>. DEFINE f == Front(cut)
              l == Last(cut)
  <2>. HIDE DEF f, l, cut
  <2>2. f \in Seq(Seq(NamedWords)) /\ l \in Seq(NamedWords) /\ NoBlank(f) /\ l # << >>
        /\ FlattenSeq(f) \o l = p
    BY <2>1 DEF f, l, NoBlank
  <2>3. lines \o f \in Seq(Seq(NamedWords)) /\ NoBlank(lines \o f)
    BY <1>4, <2>2, NoBlankJoined
  <2>4. after = [lines |-> lines \o f, open |-> l]
    BY <1>6, <1>9 DEF f, l
  <2>5. FlattenSeq(lines \o f) = FlattenSeq(lines) \o FlattenSeq(f) /\ FlattenSeq(f) \in Seq(NamedWords)
    BY <1>4, <2>2, FlattenConcat, FlattenFacts
  <2>6. (FlattenSeq(lines) \o FlattenSeq(f)) \o l = FlattenSeq(lines) \o (FlattenSeq(f) \o l)
    <3>. DEFINE x == FlattenSeq(lines)
                y == FlattenSeq(f)
    <3>1. x \in Seq(NamedWords) /\ y \in Seq(NamedWords) /\ l \in Seq(NamedWords)
      BY <1>8, <2>2, <2>5
    <3>. HIDE DEF x, y
    <3>2. (x \o y) \o l = x \o (y \o l)
      BY <3>1, RegroupWords
    <3>. QED
      BY <3>2 DEF x, y
  <2>7. FlattenSeq(lines) \o << >> = FlattenSeq(lines)
    BY <1>8, ConcatEmptySeq
  <2>8. Held(acc) = FlattenSeq(lines)
    BY <1>5, <1>7, <1>9, <2>7
  <2>9. Held(after) = Held(acc) \o p
    BY <2>2, <2>4, <2>5, <2>6, <2>8 DEF Held
  <2>10. after \in [lines : Seq(Seq(NamedWords)), open : Seq(NamedWords)] /\ NoBlank(after.lines)
         /\ after.open # << >>
    BY <2>2, <2>3, <2>4
  <2>. QED
    BY <2>1, <2>9, <2>10 DEF after
<1>10. CASE ~(word.width > width)
  <2>1. after = [lines |-> lines, open |-> Append(open, word)]
    BY <1>6, <1>10
  <2>2. Append(open, word) \in Seq(NamedWords) /\ Append(open, word) # << >>
    BY <1>4, AppendProperties
  <2>3. <<word>> \in Seq(NamedWords) /\ Append(open, word) = open \o <<word>>
    BY <1>4, AppendIsConcat
  <2>4. (FlattenSeq(lines) \o open) \o <<word>> = FlattenSeq(lines) \o (open \o <<word>>)
    <3>. DEFINE x == FlattenSeq(lines)
                z == <<word>>
    <3>1. x \in Seq(NamedWords) /\ z \in Seq(NamedWords)
      BY <1>8, <2>3
    <3>. HIDE DEF x, z
    <3>2. (x \o open) \o z = x \o (open \o z)
      BY <1>4, <3>1, RegroupWords
    <3>. QED
      BY <3>2 DEF x, z
  <2>5. Held(after) = Held(acc) \o <<word>>
    BY <1>5, <2>1, <2>3, <2>4 DEF Held
  <2>6. SameInk(<<word>>, <<word>>)
    BY DEF SameInk
  <2>7. Ordered(<<word>>)
    <3>1. \A i, j \in 1 .. 1 : ~(i < j)
      OBVIOUS
    <3>2. Len(<<word>>) = 1
      OBVIOUS
    <3>. QED
      BY <3>1, <3>2 DEF Ordered
  <2>8. after \in [lines : Seq(Seq(NamedWords)), open : Seq(NamedWords)] /\ NoBlank(after.lines)
        /\ after.open # << >>
    BY <1>4, <2>1, <2>2
  <2>. QED
    BY <2>3, <2>5, <2>6, <2>7, <2>8 DEF after
<1>. QED
  BY <1>9, <1>10

\* The first words of a line.
FirstWords(words, k) == [i \in 1 .. k |-> words[i]]

\* One word more.
LEMMA FirstWordsFacts ==
  ASSUME NEW words \in Seq(NamedWords)
  PROVE  /\ FirstWords(words, 0) = << >> /\ FirstWords(words, Len(words)) = words
         /\ \A k \in 0 .. Len(words) : FirstWords(words, k) \in Seq(NamedWords) /\ Len(FirstWords(words, k)) = k
         /\ \A k \in 0 .. Len(words) - 1 :
              FirstWords(words, k + 1) = FirstWords(words, k) \o <<words[k + 1]>> /\ words[k + 1] \in NamedWords
         /\ Ordered(words) => \A k \in 0 .. Len(words) : Ordered(FirstWords(words, k))
<1>1. Len(words) \in Nat /\ words = [i \in 1 .. Len(words) |-> words[i]]
      /\ \A i \in 1 .. Len(words) : words[i] \in NamedWords
  BY LenProperties, ElementOfSeq
<1>2. FirstWords(words, 0) = << >>
  BY DEF FirstWords
<1>3. FirstWords(words, Len(words)) = words
  BY <1>1 DEF FirstWords
<1>4. ASSUME NEW k \in 0 .. Len(words)
      PROVE  /\ FirstWords(words, k) \in Seq(NamedWords) /\ Len(FirstWords(words, k)) = k
             /\ \A i \in 1 .. k : FirstWords(words, k)[i] = words[i]
  BY <1>1 DEF FirstWords
<1>5. ASSUME NEW k \in 0 .. Len(words) - 1
      PROVE  FirstWords(words, k + 1) = FirstWords(words, k) \o <<words[k + 1]>> /\ words[k + 1] \in NamedWords
  <2>. DEFINE a == FirstWords(words, k)
              v == FirstWords(words, k + 1)
  <2>1. k \in 0 .. Len(words) /\ k + 1 \in 0 .. Len(words) /\ k + 1 \in 1 .. Len(words) /\ k \in Nat
    BY <1>1
  <2>2. /\ a \in Seq(NamedWords) /\ Len(a) = k /\ \A i \in 1 .. k : a[i] = words[i]
        /\ v \in Seq(NamedWords) /\ Len(v) = k + 1 /\ \A i \in 1 .. k + 1 : v[i] = words[i]
    BY <1>4, <2>1
  <2>. HIDE DEF a, v
  <2>3. Len(v) = Len(a) + 1 /\ \A i \in 1 .. Len(a) : v[i] = a[i]
    BY <2>1, <2>2
  <2>4. v = Append(a, v[Len(v)])
    BY <2>2, <2>3, IsAppend
  <2>5. v[Len(v)] = words[k + 1] /\ words[k + 1] \in NamedWords
    BY <1>1, <2>1, <2>2
  <2>6. Append(a, words[k + 1]) = a \o <<words[k + 1]>>
    BY <2>2, <2>5, AppendIsConcat
  <2>. QED
    BY <2>4, <2>5, <2>6 DEF a, v
<1>6. ASSUME Ordered(words), NEW k \in 0 .. Len(words) PROVE Ordered(FirstWords(words, k))
  <2>. DEFINE a == FirstWords(words, k)
  <2>1. Len(a) = k /\ \A i \in 1 .. k : a[i] = words[i]
    BY <1>4
  <2>. HIDE DEF a
  <2>2. \A i \in 1 .. k : i \in 1 .. Len(words)
    BY <1>1
  <2>3. Ordered(a)
    BY <1>6, <2>1, <2>2 DEF Ordered
  <2>. QED
    BY <2>3 DEF a
<1>. QED
  BY <1>2, <1>3, <1>4, <1>5, <1>6

\* A wrapped line has the words of the line in their order, and an empty line
\* only for an empty line.
WellWrapped(lines, words) ==
  /\ lines \in Seq(Seq(NamedWords))
  /\ SameInk(FlattenSeq(lines), words) /\ Ordered(FlattenSeq(lines))
  /\ words = << >> => lines = << << >> >>
  /\ words # << >> => NoBlank(lines)

\* What was wrapped of a line.
WrappedSoFar(acc, words) ==
  /\ acc \in [lines : Seq(Seq(NamedWords)), open : Seq(NamedWords)]
  /\ NoBlank(acc.lines) /\ (words # << >> => acc.open # << >>)
  /\ SameInk(Held(acc), words) /\ Ordered(Held(acc))

\* The next word of a line.
LEMMA WrapStepKeeps ==
  ASSUME NEW width \in Nat, width > 0, NEW words \in Seq(NamedWords), NEW word \in NamedWords,
         NEW acc, WrappedSoFar(acc, words), Ordered(words \o <<word>>)
  PROVE  WrappedSoFar(WrapWord(acc, word, width), words \o <<word>>)
<1>. DEFINE after == WrapWord(acc, word, width)
            held == Held(acc)
<1>1. /\ acc \in [lines : Seq(Seq(NamedWords)), open : Seq(NamedWords)]
      /\ NoBlank(acc.lines) /\ SameInk(held, words) /\ Ordered(held)
  BY DEF WrappedSoFar
<1>2. /\ after \in [lines : Seq(Seq(NamedWords)), open : Seq(NamedWords)]
      /\ NoBlank(after.lines) /\ after.open # << >>
      /\ \E p \in Seq(NamedWords) : Held(after) = held \o p /\ SameInk(p, <<word>>) /\ Ordered(p)
  BY <1>1, WrapWordKeeps
<1>3. PICK p \in Seq(NamedWords) : Held(after) = held \o p /\ SameInk(p, <<word>>) /\ Ordered(p)
  BY <1>2
<1>4. held \in Seq(NamedWords)
  <2>1. FlattenSeq(acc.lines) \in Seq(NamedWords) /\ acc.open \in Seq(NamedWords)
    BY <1>1, FlattenFacts
  <2>. QED
    BY <2>1, ConcatProperties DEF Held
<1>. HIDE DEF after, held
<1>5. <<word>> \in Seq(NamedWords)
  BY OneWord
<1>6. SameInk(held \o p, words \o <<word>>)
  BY <1>1, <1>3, <1>4, <1>5, SameInkJoined
<1>7. \A x \in Ids(words), y \in Ids(<<word>>) : Before(x, y)
  BY <1>5, OrderJoined
<1>8. Ids(held) = Ids(words) /\ Ids(p) = Ids(<<word>>)
  BY <1>1, <1>3 DEF SameInk
<1>9. Ordered(held \o p)
  BY <1>1, <1>3, <1>4, <1>7, <1>8, OrderJoined
<1>. QED
  BY <1>2, <1>3, <1>6, <1>9 DEF WrappedSoFar, after

\* A wrapped line keeps its words.
LEMMA WrapLineKeeps ==
  ASSUME NEW width \in Nat, width > 0, NEW words \in Seq(NamedWords), Ordered(words)
  PROVE  WellWrapped(WrapLine(words, width), words)
<1>. DEFINE n == Len(words)
            u == CHOOSE f : f = [i \in 0 .. n |->
                   IF i = 0 THEN [lines |-> << >>, open |-> << >>] ELSE WrapWord(f[i - 1], words[i], width)]
<1>1. n \in Nat /\ << >> \in Seq(NamedWords) /\ << >> \in Seq(Seq(NamedWords))
  BY LenProperties, EmptySeq
<1>2. WrapLine(words, width) = IF words = << >> THEN << << >> >>
                               ELSE IF u[n].open = << >> THEN u[n].lines ELSE Append(u[n].lines, u[n].open)
  BY DEF WrapLine
<1>3. WrapRun(u, words, width, n)
  <2>. DEFINE P(f) == f = [i \in 0 .. n |->
                   IF i = 0 THEN [lines |-> << >>, open |-> << >>] ELSE WrapWord(f[i - 1], words[i], width)]
  <2>1. \A f : P(f) <=> WrapRun(f, words, width, n)
    BY DEF WrapRun, NothingWrapped
  <2>2. \E f : P(f)
    BY <1>1, <2>1, WrapRunExists
  <2>3. P(u)
    BY <2>2
  <2>. HIDE DEF u, P
  <2>. QED
    BY <2>1, <2>3
<1>. HIDE DEF u, n
<1>4. \A i \in 0 .. n : u[i] = IF i = 0 THEN NothingWrapped ELSE WrapWord(u[i - 1], words[i], width)
  BY <1>3 DEF WrapRun
<1>5. WrappedSoFar(NothingWrapped, << >>)
  <2>1. Held(NothingWrapped) = << >>
    <3>1. FlattenSeq(<< >>) = << >> /\ << >> \o << >> = << >>
      BY <1>1, FlattenFacts, ConcatEmptySeq
    <3>. QED
      BY <3>1 DEF Held, NothingWrapped
  <2>2. NothingWrapped \in [lines : Seq(Seq(NamedWords)), open : Seq(NamedWords)]
        /\ NothingWrapped.lines = << >>
    BY <1>1 DEF NothingWrapped
  <2>. QED
    BY <2>1, <2>2 DEF WrappedSoFar, NoBlank, SameInk, Ordered
<1>. DEFINE T == {k \in Nat : k <= n => WrappedSoFar(u[k], FirstWords(words, k))}
<1>6. 0 \in T
  <2>1. u[0] = NothingWrapped /\ FirstWords(words, 0) = << >>
    BY <1>1, <1>4, FirstWordsFacts
  <2>. QED
    BY <1>5, <2>1
<1>7. ASSUME NEW k \in T PROVE k + 1 \in T
  <2>. SUFFICES ASSUME k + 1 <= n PROVE WrappedSoFar(u[k + 1], FirstWords(words, k + 1))
    OBVIOUS
  <2>1. k \in Nat /\ k \in 0 .. n /\ k \in 0 .. n - 1 /\ k + 1 \in 0 .. n /\ (k + 1) - 1 = k /\ k + 1 # 0
    BY <1>1
  <2>2. u[k + 1] = WrapWord(u[k], words[k + 1], width) /\ WrappedSoFar(u[k], FirstWords(words, k))
    BY <1>4, <2>1
  <2>. DEFINE a == FirstWords(words, k)
              b == FirstWords(words, k + 1)
              w == words[k + 1]
  <2>3. /\ a \in Seq(NamedWords) /\ b = a \o <<w>> /\ w \in NamedWords /\ Ordered(b)
    BY <2>1, FirstWordsFacts DEF n
  <2>. HIDE DEF a, b, w
  <2>4. WrappedSoFar(u[k], a) /\ Ordered(a \o <<w>>)
    BY <2>2, <2>3 DEF a
  <2>5. WrappedSoFar(WrapWord(u[k], w, width), a \o <<w>>)
    BY <2>3, <2>4, WrapStepKeeps
  <2>6. WrappedSoFar(u[k + 1], b)
    BY <2>2, <2>3, <2>5 DEF w
  <2>. QED
    BY <2>6 DEF b
<1>8. T \in SUBSET Nat
  OBVIOUS
<1>. HIDE DEF T
<1>9. T = Nat
  BY <1>6, <1>7, <1>8, EveryNatural
<1>10. WrappedSoFar(u[n], words)
  <2>1. FirstWords(words, n) = words
    BY FirstWordsFacts DEF n
  <2>. QED
    BY <1>1, <1>9, <2>1 DEF T
<1>. DEFINE acc == u[n]
<1>. HIDE DEF acc
<1>11. CASE words = << >>
  <2>1. WrapLine(words, width) = << << >> >>
    BY <1>2, <1>11
  <2>2. FlattenSeq(<< << >> >>) = << >>
    BY <1>1, FlattenOne
  <2>3. << << >> >> \in Seq(Seq(NamedWords))
    BY <1>1
  <2>. QED
    BY <1>11, <2>1, <2>2, <2>3 DEF WellWrapped, SameInk, Ordered
<1>12. CASE words # << >>
  <2>1. WrappedSoFar(acc, words)
    BY <1>10 DEF acc
  <2>2. acc.open # << >> /\ acc.lines \in Seq(Seq(NamedWords)) /\ acc.open \in Seq(NamedWords)
        /\ NoBlank(acc.lines) /\ SameInk(Held(acc), words) /\ Ordered(Held(acc))
    BY <1>12, <2>1 DEF WrappedSoFar
  <2>3. WrapLine(words, width) = Append(acc.lines, acc.open)
    BY <1>2, <1>12, <2>2 DEF acc
  <2>4. FlattenSeq(Append(acc.lines, acc.open)) = Held(acc)
    BY <2>2, FlattenFacts DEF Held
  <2>5. Append(acc.lines, acc.open) \in Seq(Seq(NamedWords)) /\ NoBlank(Append(acc.lines, acc.open))
    BY <2>2, NoBlankAppend
  <2>. QED
    BY <1>12, <2>2, <2>3, <2>4, <2>5 DEF WellWrapped
<1>. QED
  BY <1>11, <1>12

\* The empty lines of a text.
Blanks(lines) == [l \in 1 .. Len(lines) |-> IF lines[l] = << >> THEN 1 ELSE 0]

\* They are counted line by line.
LEMMA BlankFacts ==
  /\ BlankLines(<< >>) = 0
  /\ \A l \in Seq(NamedWords) : BlankLines(<<l>>) = IF l = << >> THEN 1 ELSE 0
  /\ \A a \in Seq(Seq(NamedWords)) : BlankLines(a) \in Int /\ (NoBlank(a) => BlankLines(a) = 0)
  /\ \A a, b \in Seq(Seq(NamedWords)) : BlankLines(a \o b) = BlankLines(a) + BlankLines(b)
<1>1. \A a : BlankLines(a) = SumOf(Blanks(a))
  BY DEF BlankLines, Blanks
<1>2. BlankLines(<< >>) = 0
  <2>1. Blanks(<< >>) = << >>
    BY DEF Blanks
  <2>. QED
    BY <1>1, <2>1, SumOfFacts
<1>3. ASSUME NEW l \in Seq(NamedWords) PROVE BlankLines(<<l>>) = IF l = << >> THEN 1 ELSE 0
  <2>. DEFINE x == IF l = << >> THEN 1 ELSE 0
  <2>1. Blanks(<<l>>) = <<x>>
    BY DEF Blanks
  <2>2. x \in Int
    OBVIOUS
  <2>. HIDE DEF x
  <2>3. <<x>> = Append(<< >>, x) /\ << >> \in Seq(Int) /\ SumOf(<< >>) = 0
    BY <2>2, EmptySeq, SumOfFacts
  <2>4. SumOf(Append(<< >>, x)) = 0 + x
    BY <2>2, <2>3, SumOfFacts
  <2>5. BlankLines(<<l>>) = x
    BY <1>1, <2>1, <2>2, <2>3, <2>4
  <2>. QED
    BY <2>5 DEF x
<1>4. ASSUME NEW a \in Seq(Seq(NamedWords))
      PROVE  /\ Blanks(a) \in Seq(Int) /\ Len(Blanks(a)) = Len(a) /\ Len(a) \in Nat
             /\ \A i \in 1 .. Len(a) : Blanks(a)[i] = IF a[i] = << >> THEN 1 ELSE 0
  <2>1. Len(a) \in Nat
    BY LenProperties
  <2>. QED
    BY <2>1 DEF Blanks
<1>5. ASSUME NEW a \in Seq(Seq(NamedWords))
      PROVE  BlankLines(a) \in Int /\ (NoBlank(a) => BlankLines(a) = 0)
  <2>1. BlankLines(a) \in Int
    BY <1>1, <1>4, SumOfFacts
  <2>2. ASSUME NoBlank(a) PROVE BlankLines(a) = 0
    <3>1. Blanks(a) = [i \in 1 .. Len(a) |-> 0]
      BY <2>2 DEF Blanks, NoBlank
    <3>2. SumOf([i \in 1 .. Len(a) |-> 0]) = Len(a) * 0
      BY <1>4, SumOfEqual
    <3>3. Len(a) * 0 = 0
      BY <1>4
    <3>. QED
      BY <1>1, <3>1, <3>2, <3>3
  <2>. QED
    BY <2>1, <2>2
<1>6. ASSUME NEW a \in Seq(Seq(NamedWords)), NEW b \in Seq(Seq(NamedWords))
      PROVE  BlankLines(a \o b) = BlankLines(a) + BlankLines(b)
  <2>. DEFINE c == a \o b
              u == Blanks(a)
              v == Blanks(b)
              w == Blanks(c)
  <2>1. /\ c \in Seq(Seq(NamedWords)) /\ Len(c) = Len(a) + Len(b) /\ Len(a) \in Nat /\ Len(b) \in Nat
        /\ \A i \in 1 .. Len(a) + Len(b) : c[i] = IF i <= Len(a) THEN a[i] ELSE b[i - Len(a)]
    BY ConcatProperties, LenProperties
  <2>. HIDE DEF c
  <2>2. \A i \in 1 .. Len(a) : c[i] = a[i] /\ i \in 1 .. Len(c)
    BY <2>1
  <2>3. \A i \in 1 .. Len(b) : c[Len(a) + i] = b[i] /\ Len(a) + i \in 1 .. Len(c)
    <3>. SUFFICES ASSUME NEW i \in 1 .. Len(b) PROVE c[Len(a) + i] = b[i] /\ Len(a) + i \in 1 .. Len(c)
      OBVIOUS
    <3>1. Len(a) + i \in 1 .. Len(a) + Len(b) /\ ~(Len(a) + i <= Len(a)) /\ Len(a) + i - Len(a) = i
      BY <2>1
    <3>. QED
      BY <2>1, <3>1
  <2>4. /\ u \in Seq(Int) /\ v \in Seq(Int) /\ w \in Seq(Int)
        /\ Len(u) = Len(a) /\ Len(v) = Len(b) /\ Len(w) = Len(a) + Len(b)
    BY <1>4, <2>1
  <2>5. \A i \in 1 .. Len(a) : w[i] = u[i]
    BY <1>4, <2>1, <2>2
  <2>6. \A i \in 1 .. Len(b) : w[Len(a) + i] = v[i]
    BY <1>4, <2>1, <2>3
  <2>. HIDE DEF u, v, w
  <2>7. Len(w) = Len(u) + Len(v) /\ (\A i \in 1 .. Len(u) : w[i] = u[i])
        /\ (\A i \in 1 .. Len(v) : w[Len(u) + i] = v[i])
    BY <2>4, <2>5, <2>6
  <2>8. w = u \o v
    BY <2>4, <2>7, IsConcat
  <2>9. SumOf(w) = SumOf(u) + SumOf(v)
    BY <2>4, <2>8, SumOfConcat
  <2>. QED
    BY <1>1, <2>9 DEF u, v, w, c
<1>. QED
  BY <1>2, <1>3, <1>5, <1>6

\* An empty line stays one empty line, and no other becomes empty.
LEMMA BlanksWrapped ==
  ASSUME NEW lines, NEW words \in Seq(NamedWords), WellWrapped(lines, words)
  PROVE  BlankLines(lines) = BlankLines(<<words>>)
<1>1. CASE words = << >>
  BY <1>1 DEF WellWrapped
<1>2. CASE words # << >>
  BY <1>2, BlankFacts DEF WellWrapped
<1>. QED
  BY <1>1, <1>2

\* The lines that a text is wrapped into.
LEMMA WrapTextAppend ==
  ASSUME NEW width \in Nat, width > 0, NEW lines \in Seq(Seq(NamedWords)), NEW words \in Seq(NamedWords)
  PROVE  /\ WrapText(<< >>, width) = << >>
         /\ WrapText(lines, width) \in Seq(Seq(NamedWords))
         /\ WrapText(Append(lines, words), width) = WrapText(lines, width) \o WrapLine(words, width)
<1>. DEFINE of(t) == [i \in 1 .. Len(t) |-> WrapLine(t[i], width)]
            a == Append(lines, words)
            u == of(lines)
            v == of(a)
<1>1. /\ a \in Seq(Seq(NamedWords)) /\ Len(a) = Len(lines) + 1 /\ a[Len(lines) + 1] = words
      /\ Len(lines) \in Nat /\ \A i \in 1 .. Len(lines) : a[i] = lines[i]
  BY AppendProperties, LenProperties
<1>2. \A t \in Seq(NamedWords) : WrapLine(t, width) \in Seq(Seq(NamedWords))
  BY WrapLineFits, FittingSeqs, ClosedWords
<1>3. \A t \in Seq(Seq(NamedWords)) :
        /\ of(t) \in Seq(Seq(Seq(NamedWords))) /\ Len(of(t)) = Len(t)
        /\ \A i \in 1 .. Len(t) : of(t)[i] = WrapLine(t[i], width)
  <2>. SUFFICES ASSUME NEW t \in Seq(Seq(NamedWords))
                PROVE  /\ of(t) \in Seq(Seq(Seq(NamedWords))) /\ Len(of(t)) = Len(t)
                       /\ \A i \in 1 .. Len(t) : of(t)[i] = WrapLine(t[i], width)
    OBVIOUS
  <2>1. Len(t) \in Nat /\ \A i \in 1 .. Len(t) : t[i] \in Seq(NamedWords)
    BY LenProperties, ElementOfSeq
  <2>2. \A i \in 1 .. Len(t) : WrapLine(t[i], width) \in Seq(Seq(NamedWords))
    BY <1>2, <2>1
  <2>. QED
    BY <2>1, <2>2
<1>4. \A t : WrapText(t, width) = FlattenSeq(of(t))
  BY DEF WrapText
<1>5. of(<< >>) = << >>
  OBVIOUS
<1>6. WrapText(<< >>, width) = << >>
  BY <1>4, <1>5, FlattenFacts
<1>7. u \in Seq(Seq(Seq(NamedWords))) /\ Len(u) = Len(lines)
      /\ \A i \in 1 .. Len(lines) : u[i] = WrapLine(lines[i], width)
  BY <1>3
<1>8. v \in Seq(Seq(Seq(NamedWords))) /\ Len(v) = Len(lines) + 1
      /\ v[Len(lines) + 1] = WrapLine(words, width)
      /\ \A i \in 1 .. Len(lines) : v[i] = WrapLine(lines[i], width)
  <2>. HIDE DEF a, of
  <2>1. a \in Seq(Seq(NamedWords))
    BY <1>1
  <2>2. v \in Seq(Seq(Seq(NamedWords))) /\ Len(v) = Len(a)
        /\ \A i \in 1 .. Len(a) : v[i] = WrapLine(a[i], width)
    BY <1>3, <2>1
  <2>3. \A i \in 1 .. Len(lines) : i \in 1 .. Len(a)
    BY <1>1
  <2>4. Len(lines) + 1 \in 1 .. Len(a)
    BY <1>1
  <2>. HIDE DEF v
  <2>. QED
    BY <1>1, <2>2, <2>3, <2>4
<1>. HIDE DEF u, v
<1>9. v = Append(u, WrapLine(words, width))
  <2>1. Len(v) = Len(u) + 1 /\ \A i \in 1 .. Len(u) : v[i] = u[i]
    BY <1>1, <1>7, <1>8
  <2>2. v = Append(u, v[Len(v)])
    BY <1>7, <1>8, <2>1, IsAppend
  <2>. QED
    BY <1>8, <2>2
<1>10. FlattenSeq(v) = FlattenSeq(u) \o WrapLine(words, width) /\ FlattenSeq(u) \in Seq(Seq(NamedWords))
  <2>. DEFINE S == Seq(NamedWords)
              last == WrapLine(words, width)
  <2>1. u \in Seq(Seq(S)) /\ last \in Seq(S) /\ v = Append(u, last)
    BY <1>2, <1>7, <1>9
  <2>. HIDE DEF S, last
  <2>2. FlattenSeq(v) = FlattenSeq(u) \o last /\ FlattenSeq(u) \in Seq(S)
    BY <2>1, FlattenFacts
  <2>. QED
    BY <2>2 DEF S, last
<1>11. WrapText(lines, width) = FlattenSeq(u) /\ WrapText(a, width) = FlattenSeq(v)
  BY <1>4 DEF u, v
<1>. QED
  BY <1>6, <1>10, <1>11 DEF a

\* The words of a text: those of one line after another.
LEMMA WrapTextKeeps ==
  ASSUME NEW width \in Nat, width > 0, NEW lines \in Seq(Seq(NamedWords)), Ordered(FlattenSeq(lines))
  PROVE  /\ WrapText(lines, width) \in Seq(Seq(NamedWords))
         /\ SameInk(FlattenSeq(WrapText(lines, width)), FlattenSeq(lines))
         /\ Ordered(FlattenSeq(WrapText(lines, width)))
         /\ BlankLines(WrapText(lines, width)) = BlankLines(lines)
<1>. DEFINE KeptAll(t) ==
              /\ SameInk(FlattenSeq(WrapText(t, width)), FlattenSeq(t))
              /\ Ordered(FlattenSeq(WrapText(t, width)))
              /\ BlankLines(WrapText(t, width)) = BlankLines(t)
            T == {t \in Seq(Seq(NamedWords)) : Ordered(FlattenSeq(t)) => KeptAll(t)}
<1>1. << >> \in T
  <2>1. WrapText(<< >>, width) = << >> /\ FlattenSeq(<< >>) = << >> /\ << >> \in Seq(Seq(NamedWords))
    <3>1. << >> \in Seq(Seq(NamedWords)) /\ << >> \in Seq(NamedWords)
      BY EmptySeq
    <3>. QED
      BY <3>1, WrapTextAppend, FlattenFacts
  <2>. QED
    BY <2>1, NoWords DEF SameInk, Ordered
<1>2. ASSUME NEW t \in T, NEW l \in Seq(NamedWords) PROVE Append(t, l) \in T
  <2>. DEFINE a == Append(t, l)
              w == WrapText(t, width)
              k == WrapLine(l, width)
              fw == FlattenSeq(w)
              fk == FlattenSeq(k)
              ft == FlattenSeq(t)
  <2>1. a \in Seq(Seq(NamedWords)) /\ t \in Seq(Seq(NamedWords))
    BY AppendProperties
  <2>2. FlattenSeq(a) = ft \o l /\ ft \in Seq(NamedWords)
    BY <2>1, FlattenFacts
  <2>. SUFFICES ASSUME Ordered(ft \o l) PROVE KeptAll(a)
    BY <2>1, <2>2
  <2>3. Ordered(ft) /\ Ordered(l) /\ \A x \in Ids(ft), y \in Ids(l) : Before(x, y)
    BY <2>2, OrderJoined
  <2>4. SameInk(fw, ft) /\ Ordered(fw) /\ BlankLines(w) = BlankLines(t)
    BY <2>3
  <2>5. WellWrapped(k, l)
    BY <2>3, WrapLineKeeps
  <2>6. w \in Seq(Seq(NamedWords)) /\ WrapText(a, width) = w \o k
    BY <2>1, WrapTextAppend
  <2>7. /\ k \in Seq(Seq(NamedWords)) /\ SameInk(fk, l) /\ Ordered(fk)
        /\ BlankLines(k) = BlankLines(<<l>>)
    BY <2>5, BlanksWrapped DEF WellWrapped
  <2>. HIDE DEF w, k
  <2>8. FlattenSeq(w \o k) = fw \o fk /\ fw \in Seq(NamedWords) /\ fk \in Seq(NamedWords)
    BY <2>6, <2>7, FlattenConcat, FlattenFacts
  <2>. HIDE DEF fw, fk, ft
  <2>9. SameInk(fw \o fk, ft \o l)
    BY <2>2, <2>4, <2>7, <2>8, SameInkJoined
  <2>10. Ordered(fw \o fk)
    <3>1. Ids(fw) = Ids(ft) /\ Ids(fk) = Ids(l)
      BY <2>4, <2>7 DEF SameInk
    <3>. QED
      BY <2>3, <2>4, <2>7, <2>8, <3>1, OrderJoined
  <2>11. BlankLines(w \o k) = BlankLines(a)
    <3>1. BlankLines(w \o k) = BlankLines(w) + BlankLines(k)
      BY <2>6, <2>7, BlankFacts
    <3>2. <<l>> \in Seq(Seq(NamedWords)) /\ a = t \o <<l>>
      <4>. DEFINE S == Seq(NamedWords)
      <4>1. l \in S /\ t \in Seq(S)
        BY <2>1
      <4>. HIDE DEF S
      <4>2. <<l>> \in Seq(S) /\ Append(t, l) = t \o <<l>>
        BY <4>1, AppendIsConcat
      <4>. QED
        BY <4>2 DEF a, S
    <3>3. BlankLines(t \o <<l>>) = BlankLines(t) + BlankLines(<<l>>)
      BY <2>1, <3>2, BlankFacts
    <3>. QED
      BY <2>4, <2>7, <3>1, <3>2, <3>3
  <2>. QED
    BY <2>2, <2>6, <2>8, <2>9, <2>10, <2>11
<1>3. T \in SUBSET Seq(Seq(NamedWords))
  OBVIOUS
<1>4. lines \in T => KeptAll(lines)
  OBVIOUS
<1>. HIDE DEF T, KeptAll
<1>5. T = Seq(Seq(NamedWords))
  BY <1>1, <1>2, <1>3, EverySequence
<1>6. KeptAll(lines)
  BY <1>4, <1>5
<1>7. << >> \in Seq(NamedWords) /\ WrapText(lines, width) \in Seq(Seq(NamedWords))
  BY EmptySeq, WrapTextAppend
<1>. QED
  BY <1>6, <1>7 DEF KeptAll

-----------------------------------------------------------------------------
(* The words of tokens.                                                    *)

\* What cells and lines are made of are tokens of the stream.
LEMMA PiecesAreTokens == TextTokens \subseteq CellTokens /\ CellTokens \subseteq Tokens /\ NewLine \in Tokens
  BY DEF CellTokens, LineTokens, Tokens, NewLine

\* A word and a run of spaces.
LEMMA PieceFacts ==
  /\ \A w \in NamedWords : Word(w) \in TextTokens /\ Word(w).op = "word" /\ Word(w).word = w
  /\ \A n \in Nat \ {0} : Spaces(n) \in TextTokens /\ Spaces(n).op = "spaces"
  BY DEF TextTokens, CellPieces, SpaceTokens, Word, Spaces

\* The word of a token.
WordAt(t) == IF t.op = "word" THEN <<t.word>> ELSE << >>

\* It is a word of the layout.
LEMMA WordAtType == \A t \in Tokens : WordAt(t) \in Seq(NamedWords)
<1>. SUFFICES ASSUME NEW t \in Tokens PROVE WordAt(t) \in Seq(NamedWords)
  OBVIOUS
<1>1. CASE t.op = "word"
  <2>. DEFINE w == t.word
  <2>1. w \in NamedWords
    BY <1>1, TokenFacts
  <2>2. WordAt(t) = <<w>>
    BY <1>1 DEF WordAt
  <2>. HIDE DEF w
  <2>. QED
    BY <2>1, <2>2
<1>2. CASE t.op # "word"
  BY <1>2, EmptySeq DEF WordAt
<1>. QED
  BY <1>1, <1>2

\* The words of tokens joined, and of one token.
LEMMA WordsOfJoined ==
  /\ WordsOf(<< >>) = << >>
  /\ \A t \in Tokens : WordsOf(<<t>>) = WordAt(t)
  /\ \A s \in Seq(Tokens) : WordsOf(s) \in Seq(NamedWords)
  /\ \A a, b \in Seq(Tokens) : WordsOf(a \o b) = WordsOf(a) \o WordsOf(b)
<1>. DEFINE map(s) == [i \in 1 .. Len(s) |-> WordAt(s[i])]
<1>0. \A s : WordsOf(s) = FlattenSeq(map(s))
  BY DEF WordsOf, WordAt
<1>2. WordsOf(<< >>) = << >>
  <2>1. map(<< >>) = << >>
    OBVIOUS
  <2>. QED
    BY <1>0, <2>1, FlattenFacts
<1>3. ASSUME NEW t \in Tokens PROVE WordsOf(<<t>>) = WordAt(t)
  <2>1. map(<<t>>) = <<WordAt(t)>>
    OBVIOUS
  <2>. HIDE DEF map
  <2>2. FlattenSeq(<<WordAt(t)>>) = WordAt(t)
    BY WordAtType, FlattenOne
  <2>. QED
    BY <1>0, <2>1, <2>2
<1>4. ASSUME NEW s \in Seq(Tokens)
      PROVE  map(s) \in Seq(Seq(NamedWords)) /\ Len(map(s)) = Len(s)
             /\ \A i \in 1 .. Len(s) : map(s)[i] = WordAt(s[i])
  <2>1. Len(s) \in Nat /\ \A i \in 1 .. Len(s) : s[i] \in Tokens
    BY LenProperties, ElementOfSeq
  <2>2. \A i \in 1 .. Len(s) : WordAt(s[i]) \in Seq(NamedWords)
    BY WordAtType, <2>1
  <2>. QED
    BY <2>1, <2>2
<1>6. ASSUME NEW s \in Seq(Tokens) PROVE WordsOf(s) \in Seq(NamedWords)
  <2>1. map(s) \in Seq(Seq(NamedWords))
    BY <1>4
  <2>. HIDE DEF map
  <2>. QED
    BY <1>0, <2>1, FlattenSeqType
<1>5. ASSUME NEW a \in Seq(Tokens), NEW b \in Seq(Tokens)
      PROVE  WordsOf(a \o b) = WordsOf(a) \o WordsOf(b)
  <2>. DEFINE c == a \o b
              x == map(a)
              y == map(b)
              z == map(c)
  <2>1. /\ c \in Seq(Tokens) /\ Len(a) \in Nat /\ Len(b) \in Nat /\ Len(c) = Len(a) + Len(b)
        /\ \A i \in 1 .. Len(a) + Len(b) : c[i] = IF i <= Len(a) THEN a[i] ELSE b[i - Len(a)]
    BY ConcatProperties, LenProperties
  <2>. HIDE DEF c
  <2>2. /\ x \in Seq(Seq(NamedWords)) /\ Len(x) = Len(a) /\ \A i \in 1 .. Len(a) : x[i] = WordAt(a[i])
        /\ y \in Seq(Seq(NamedWords)) /\ Len(y) = Len(b) /\ \A i \in 1 .. Len(b) : y[i] = WordAt(b[i])
        /\ z \in Seq(Seq(NamedWords)) /\ Len(z) = Len(c) /\ \A i \in 1 .. Len(c) : z[i] = WordAt(c[i])
    BY <1>4, <2>1
  <2>. HIDE DEF map, x, y, z
  <2>3. \A i \in 1 .. Len(x) : z[i] = x[i]
    <3>1. \A i \in 1 .. Len(a) : i \in 1 .. Len(c) /\ c[i] = a[i]
      BY <2>1
    <3>. QED
      BY <2>2, <3>1
  <2>4. \A i \in 1 .. Len(y) : z[Len(x) + i] = y[i]
    <3>. SUFFICES ASSUME NEW i \in 1 .. Len(b) PROVE z[Len(x) + i] = y[i]
      BY <2>2
    <3>. DEFINE j == Len(a) + i
    <3>1. j \in 1 .. Len(a) + Len(b) /\ ~(j <= Len(a)) /\ j - Len(a) = i
      BY <2>1
    <3>2. c[j] = b[i] /\ j \in 1 .. Len(c)
      BY <2>1, <3>1
    <3>. QED
      BY <2>2, <3>2
  <2>5. Len(z) = Len(x) + Len(y)
    BY <2>1, <2>2
  <2>6. z = x \o y
    BY <2>2, <2>3, <2>4, <2>5, IsConcat
  <2>7. FlattenSeq(x \o y) = FlattenSeq(x) \o FlattenSeq(y)
    BY <2>2, FlattenConcat
  <2>8. WordsOf(a) = FlattenSeq(x) /\ WordsOf(b) = FlattenSeq(y) /\ WordsOf(c) = FlattenSeq(z)
    BY <1>0 DEF x, y, z
  <2>. QED
    BY <2>6, <2>7, <2>8 DEF c
<1>. QED
  BY <1>2, <1>3, <1>5, <1>6

\* One token more.
LEMMA WordsOfAppend ==
  ASSUME NEW s \in Seq(Tokens), NEW t \in Tokens
  PROVE  Append(s, t) \in Seq(Tokens) /\ WordsOf(Append(s, t)) = WordsOf(s) \o WordAt(t)
<1>1. <<t>> \in Seq(Tokens) /\ Append(s, t) = s \o <<t>> /\ Append(s, t) \in Seq(Tokens)
  BY AppendIsConcat, AppendProperties
<1>. QED
  BY <1>1, WordsOfJoined

\* One word more in an encoded line.
LEMMA WordTokensAppend ==
  ASSUME NEW words \in Seq(NamedWords), NEW w \in NamedWords
  PROVE  WordTokens(Append(words, w))
           = WordTokens(words) \o (IF words = << >> THEN <<Word(w)>> ELSE <<Spaces(1), Word(w)>>)
<1>. DEFINE g(s, i) == IF i = 1 THEN <<Word(s[1])>> ELSE <<Spaces(1), Word(s[i])>>
            map(s) == [i \in 1 .. Len(s) |-> g(s, i)]
            a == Append(words, w)
            n == Len(words)
            x == map(words)
            z == map(a)
            last == IF words = << >> THEN <<Word(w)>> ELSE <<Spaces(1), Word(w)>>
<1>1. \A s : WordTokens(s) = FlattenSeq(map(s))
  BY DEF WordTokens
<1>2. ASSUME NEW s \in Seq(NamedWords)
      PROVE  map(s) \in Seq(Seq(TextTokens)) /\ Len(map(s)) = Len(s)
             /\ \A i \in 1 .. Len(s) : map(s)[i] = g(s, i)
  <2>1. Len(s) \in Nat /\ \A i \in 1 .. Len(s) : s[i] \in NamedWords
    BY LenProperties, ElementOfSeq
  <2>2. ASSUME NEW i \in 1 .. Len(s) PROVE g(s, i) \in Seq(TextTokens)
    <3>. DEFINE v == Word(s[i])
                u == Spaces(1)
    <3>1. v \in TextTokens /\ u \in TextTokens
      BY <2>1, PieceFacts
    <3>2. g(s, i) = IF i = 1 THEN <<v>> ELSE <<u, v>>
      OBVIOUS
    <3>. HIDE DEF v, u, g
    <3>3. <<v>> \in Seq(TextTokens) /\ <<u, v>> \in Seq(TextTokens)
      BY <3>1
    <3>. QED
      BY <3>2, <3>3
  <2>. HIDE DEF g
  <2>. QED
    BY <2>1, <2>2
<1>3. /\ a \in Seq(NamedWords) /\ n \in Nat /\ Len(a) = n + 1 /\ a[n + 1] = w
      /\ \A i \in 1 .. n : a[i] = words[i]
      /\ (words = << >> <=> n = 0)
  BY AppendProperties, LenProperties, EmptySeq
<1>. HIDE DEF a
<1>4. \A i \in 1 .. n : g(a, i) = g(words, i)
  BY <1>3
<1>5. g(a, n + 1) = last
  <2>1. CASE n = 0
    <3>1. n + 1 = 1 /\ words = << >>
      BY <1>3, <2>1
    <3>. QED
      BY <1>3, <3>1
  <2>2. CASE n # 0
    <3>1. n + 1 # 1 /\ words # << >>
      BY <1>3, <2>2
    <3>. QED
      BY <1>3, <3>1
  <2>. QED
    BY <2>1, <2>2
<1>. HIDE DEF g
<1>6. /\ x \in Seq(Seq(TextTokens)) /\ Len(x) = n /\ \A i \in 1 .. n : x[i] = g(words, i)
      /\ z \in Seq(Seq(TextTokens)) /\ Len(z) = n + 1 /\ \A i \in 1 .. n + 1 : z[i] = g(a, i)
  BY <1>2, <1>3
<1>7. WordTokens(words) = FlattenSeq(x) /\ WordTokens(a) = FlattenSeq(z)
  BY <1>1
<1>. HIDE DEF x, z, map, last
<1>8. n + 1 \in 1 .. n + 1 /\ \A i \in 1 .. n : i \in 1 .. n + 1
  BY <1>3
<1>9. Len(z) = Len(x) + 1 /\ (\A i \in 1 .. Len(x) : z[i] = x[i]) /\ z[n + 1] = last
  BY <1>4, <1>5, <1>6, <1>8
<1>10. z = Append(x, last) /\ last \in Seq(TextTokens)
  BY <1>6, <1>9, IsAppend
<1>11. FlattenSeq(z) = FlattenSeq(x) \o last
  BY <1>6, <1>10, FlattenFacts
<1>. QED
  BY <1>7, <1>11 DEF a, last

\* An encoded line has the words of the line.
LEMMA WordTokensFacts ==
  ASSUME NEW words \in Seq(NamedWords)
  PROVE  /\ WordTokens(words) \in Seq(TextTokens) /\ WordTokens(words) \in Seq(Tokens)
         /\ WordsOf(WordTokens(words)) = words
         /\ WordTokens(words) = << >> <=> words = << >>
<1>. DEFINE Good(ws) == WordsOf(WordTokens(ws)) = ws
            T == {ws \in Seq(NamedWords) : Good(ws)}
<1>0. WordTokens(<< >>) = << >>
  <2>1. [i \in 1 .. Len(<< >>) |-> IF i = 1 THEN <<Word(<< >>[1])>> ELSE <<Spaces(1), Word(<< >>[i])>>] = << >>
    OBVIOUS
  <2>. QED
    BY <2>1, FlattenFacts DEF WordTokens
<1>9. ASSUME NEW ws \in Seq(NamedWords)
      PROVE  WordTokens(ws) \in Seq(TextTokens) /\ WordTokens(ws) \in Seq(Tokens)
  <2>1. WordTokens(ws) \in Seq(TextTokens)
    BY WordTokensType DEF TextTokens
  <2>2. TextTokens \subseteq Tokens
    BY PiecesAreTokens
  <2>. QED
    BY <2>1, <2>2, SeqWithin
<1>1. << >> \in T
  BY <1>0, EmptySeq, WordsOfJoined
<1>2. ASSUME NEW ws \in T, NEW w \in NamedWords PROVE Append(ws, w) \in T
  <2>. DEFINE last == IF ws = << >> THEN <<Word(w)>> ELSE <<Spaces(1), Word(w)>>
              x == WordTokens(ws)
              t == Word(w)
              u == Spaces(1)
  <2>1. ws \in Seq(NamedWords) /\ Append(ws, w) \in Seq(NamedWords)
        /\ x \in Seq(Tokens) /\ WordsOf(x) = ws
    BY <1>9, AppendProperties
  <2>2. WordTokens(Append(ws, w)) = x \o last
    BY <2>1, WordTokensAppend
  <2>3. t \in Tokens /\ u \in Tokens /\ WordAt(t) = <<w>> /\ WordAt(u) = << >>
    BY PieceFacts, PiecesAreTokens DEF WordAt
  <2>4. last = <<t>> \/ last = Append(<<u>>, t)
    OBVIOUS
  <2>. HIDE DEF t, u, last, x
  <2>5. <<u>> \in Seq(Tokens) /\ <<t>> \in Seq(Tokens) /\ WordsOf(<<t>>) = <<w>>
        /\ WordsOf(<<u>>) = << >>
    BY <2>3, WordsOfJoined
  <2>6. Append(<<u>>, t) \in Seq(Tokens) /\ WordsOf(Append(<<u>>, t)) = << >> \o <<w>>
    BY <2>3, <2>5, WordsOfAppend
  <2>7. << >> \o <<w>> = <<w>>
    OBVIOUS
  <2>8. last \in Seq(Tokens) /\ WordsOf(last) = <<w>>
    BY <2>4, <2>5, <2>6, <2>7
  <2>9. WordsOf(x \o last) = WordsOf(x) \o WordsOf(last)
    BY <2>1, <2>8, WordsOfJoined
  <2>10. ws \o <<w>> = Append(ws, w)
    BY <2>1, AppendIsConcat
  <2>. QED
    BY <2>1, <2>2, <2>8, <2>9, <2>10
<1>3. T \in SUBSET Seq(NamedWords)
  OBVIOUS
<1>4. \A ws \in T : Good(ws)
  OBVIOUS
<1>. HIDE DEF T, Good
<1>5. T = Seq(NamedWords)
  BY <1>1, <1>2, <1>3, EverySequence
<1>6. WordsOf(WordTokens(words)) = words
  BY <1>4, <1>5 DEF Good
<1>7. WordTokens(words) = << >> => words = << >>
  BY <1>6, WordsOfJoined
<1>. QED
  BY <1>0, <1>6, <1>7, <1>9

-----------------------------------------------------------------------------
(* The columns of a row.                                                   *)

\* The words of the lines of a row.
RowLineSet == [left : Seq(NamedWords), right : Seq(NamedWords)]

\* The words of each column, and of the lines from left to right.
Lefts(rows)    == FlattenSeq([i \in 1 .. Len(rows) |-> rows[i].left])
Rights(rows)   == FlattenSeq([i \in 1 .. Len(rows) |-> rows[i].right])
RowWords(rows) == FlattenSeq([i \in 1 .. Len(rows) |-> rows[i].left \o rows[i].right])

\* Empty lines below a column add no words.
LEMMA PaddedColumn ==
  ASSUME NEW lines \in Seq(Seq(NamedWords)), NEW n \in Nat, n >= Len(lines)
  PROVE  FlattenSeq([i \in 1 .. n |-> LineAt(lines, i)]) = FlattenSeq(lines)
<1>. DEFINE padded(k) == [i \in 1 .. k |-> LineAt(lines, i)]
            T == {k \in Nat : k >= Len(lines) => FlattenSeq(padded(k)) = FlattenSeq(lines)}
<1>1. Len(lines) \in Nat /\ lines = [i \in 1 .. Len(lines) |-> lines[i]]
      /\ \A i \in 1 .. Len(lines) : lines[i] \in Seq(NamedWords)
  BY LenProperties, ElementOfSeq
<1>2. padded(Len(lines)) = lines
  <2>1. \A i \in 1 .. Len(lines) : LineAt(lines, i) = lines[i]
    BY <1>1 DEF LineAt
  <2>. QED
    BY <1>1, <2>1
<1>3. \A k \in Nat : padded(k) \in Seq(Seq(NamedWords)) /\ Len(padded(k)) = k
                     /\ \A i \in 1 .. k : padded(k)[i] = LineAt(lines, i)
  <2>. SUFFICES ASSUME NEW k \in Nat
                PROVE  padded(k) \in Seq(Seq(NamedWords)) /\ Len(padded(k)) = k
                       /\ \A i \in 1 .. k : padded(k)[i] = LineAt(lines, i)
    OBVIOUS
  <2>1. \A i \in 1 .. k : LineAt(lines, i) \in Seq(NamedWords)
    BY <1>1, EmptySeq DEF LineAt
  <2>. QED
    BY <2>1
<1>4. 0 \in T
  <2>1. 0 >= Len(lines) => Len(lines) = 0
    BY <1>1
  <2>. QED
    BY <1>2, <2>1
<1>5. ASSUME NEW k \in T PROVE k + 1 \in T
  <2>. SUFFICES ASSUME k + 1 >= Len(lines) PROVE FlattenSeq(padded(k + 1)) = FlattenSeq(lines)
    OBVIOUS
  <2>1. CASE k + 1 = Len(lines)
    BY <1>2, <2>1
  <2>2. CASE k + 1 # Len(lines)
    <3>. DEFINE u == padded(k)
                v == padded(k + 1)
    <3>1. k \in Nat /\ k + 1 \in Nat /\ k >= Len(lines) /\ FlattenSeq(u) = FlattenSeq(lines)
      BY <1>1, <2>2
    <3>2. /\ u \in Seq(Seq(NamedWords)) /\ Len(u) = k /\ (\A i \in 1 .. k : u[i] = LineAt(lines, i))
          /\ v \in Seq(Seq(NamedWords)) /\ Len(v) = k + 1
          /\ (\A i \in 1 .. k + 1 : v[i] = LineAt(lines, i))
      BY <1>3, <3>1
    <3>. HIDE DEF u, v
    <3>3. Len(v) = Len(u) + 1 /\ \A i \in 1 .. Len(u) : v[i] = u[i]
      BY <3>1, <3>2
    <3>4. v = Append(u, v[Len(v)])
      BY <3>2, <3>3, IsAppend
    <3>5. v[Len(v)] = << >>
      <4>1. k + 1 \in 1 .. k + 1 /\ ~(k + 1 <= Len(lines))
        BY <1>1, <3>1
      <4>. QED
        BY <3>2, <4>1 DEF LineAt
    <3>6. << >> \in Seq(NamedWords) /\ FlattenSeq(u) \in Seq(NamedWords)
      BY <3>2, EmptySeq, FlattenFacts
    <3>7. FlattenSeq(Append(u, << >>)) = FlattenSeq(u) \o << >>
      BY <3>2, <3>6, FlattenFacts
    <3>8. FlattenSeq(u) \o << >> = FlattenSeq(u)
      BY <3>6, ConcatEmptySeq
    <3>. QED
      BY <3>1, <3>4, <3>5, <3>7, <3>8 DEF v
  <2>. QED
    BY <2>1, <2>2
<1>6. T \in SUBSET Nat
  OBVIOUS
<1>. HIDE DEF T
<1>7. T = Nat
  BY <1>4, <1>5, <1>6, EveryNatural
<1>. QED
  BY <1>7 DEF T

\* The columns of a line more.
LEMMA RowsAppend ==
  ASSUME NEW rows \in Seq(RowLineSet), NEW r \in RowLineSet
  PROVE  /\ Lefts(rows) \in Seq(NamedWords) /\ Rights(rows) \in Seq(NamedWords)
         /\ RowWords(rows) \in Seq(NamedWords)
         /\ r.left \in Seq(NamedWords) /\ r.right \in Seq(NamedWords)
         /\ Lefts(Append(rows, r)) = Lefts(rows) \o r.left
         /\ Rights(Append(rows, r)) = Rights(rows) \o r.right
         /\ RowWords(Append(rows, r)) = RowWords(rows) \o (r.left \o r.right)
<1>. DEFINE a == Append(rows, r)
            ls(t) == [i \in 1 .. Len(t) |-> t[i].left]
            rs(t) == [i \in 1 .. Len(t) |-> t[i].right]
            ws(t) == [i \in 1 .. Len(t) |-> t[i].left \o t[i].right]
<1>1. /\ a \in Seq(RowLineSet) /\ Len(a) = Len(rows) + 1 /\ a[Len(rows) + 1] = r
      /\ Len(rows) \in Nat /\ \A i \in 1 .. Len(rows) : a[i] = rows[i]
  BY AppendProperties, LenProperties
<1>2. \A t \in RowLineSet : t.left \in Seq(NamedWords) /\ t.right \in Seq(NamedWords)
                            /\ t.left \o t.right \in Seq(NamedWords)
  BY ConcatProperties DEF RowLineSet
<1>3. ASSUME NEW t \in Seq(RowLineSet)
      PROVE  /\ ls(t) \in Seq(Seq(NamedWords)) /\ Len(ls(t)) = Len(t)
             /\ rs(t) \in Seq(Seq(NamedWords)) /\ Len(rs(t)) = Len(t)
             /\ ws(t) \in Seq(Seq(NamedWords)) /\ Len(ws(t)) = Len(t)
             /\ \A i \in 1 .. Len(t) : ls(t)[i] = t[i].left /\ rs(t)[i] = t[i].right
                                       /\ ws(t)[i] = t[i].left \o t[i].right
  <2>1. Len(t) \in Nat /\ \A i \in 1 .. Len(t) : t[i] \in RowLineSet
    BY LenProperties, ElementOfSeq
  <2>2. \A i \in 1 .. Len(t) : t[i].left \in Seq(NamedWords) /\ t[i].right \in Seq(NamedWords)
                               /\ t[i].left \o t[i].right \in Seq(NamedWords)
    BY <1>2, <2>1
  <2>3. ls(t) \in Seq(Seq(NamedWords)) /\ Len(ls(t)) = Len(t)
    BY <2>1, <2>2
  <2>4. rs(t) \in Seq(Seq(NamedWords)) /\ Len(rs(t)) = Len(t)
    BY <2>1, <2>2
  <2>5. ws(t) \in Seq(Seq(NamedWords)) /\ Len(ws(t)) = Len(t)
    BY <2>1, <2>2
  <2>6. \A i \in 1 .. Len(t) : ls(t)[i] = t[i].left /\ rs(t)[i] = t[i].right
                               /\ ws(t)[i] = t[i].left \o t[i].right
    OBVIOUS
  <2>. QED
    BY <2>3, <2>4, <2>5, <2>6
<1>. DEFINE n == Len(rows)
            ls1 == ls(rows)
            rs1 == rs(rows)
            ws1 == ws(rows)
            ls2 == ls(a)
            rs2 == rs(a)
            ws2 == ws(a)
<1>. HIDE DEF a, ls, rs, ws
<1>4. /\ ls1 \in Seq(Seq(NamedWords)) /\ Len(ls1) = n /\ rs1 \in Seq(Seq(NamedWords)) /\ Len(rs1) = n
      /\ ws1 \in Seq(Seq(NamedWords)) /\ Len(ws1) = n
      /\ \A i \in 1 .. n : ls1[i] = rows[i].left /\ rs1[i] = rows[i].right
                           /\ ws1[i] = rows[i].left \o rows[i].right
  BY <1>3
<1>5. /\ ls2 \in Seq(Seq(NamedWords)) /\ Len(ls2) = n + 1 /\ rs2 \in Seq(Seq(NamedWords))
      /\ Len(rs2) = n + 1 /\ ws2 \in Seq(Seq(NamedWords)) /\ Len(ws2) = n + 1
      /\ \A i \in 1 .. n + 1 : ls2[i] = a[i].left /\ rs2[i] = a[i].right
                               /\ ws2[i] = a[i].left \o a[i].right
  BY <1>1, <1>3
<1>. HIDE DEF n, ls1, rs1, ws1, ls2, rs2, ws2
<1>6. n \in Nat /\ a[n + 1] = r /\ n + 1 \in 1 .. n + 1
      /\ \A i \in 1 .. n : a[i] = rows[i] /\ i \in 1 .. n + 1
  BY <1>1 DEF n
<1>7. /\ \A i \in 1 .. n : ls2[i] = ls1[i] /\ rs2[i] = rs1[i] /\ ws2[i] = ws1[i]
      /\ ls2[n + 1] = r.left /\ rs2[n + 1] = r.right /\ ws2[n + 1] = r.left \o r.right
  BY <1>4, <1>5, <1>6
<1>8. /\ ls(a) = Append(ls(rows), r.left) /\ rs(a) = Append(rs(rows), r.right)
      /\ ws(a) = Append(ws(rows), r.left \o r.right)
  <2>1. Len(ls2) = Len(ls1) + 1 /\ Len(rs2) = Len(rs1) + 1 /\ Len(ws2) = Len(ws1) + 1
    BY <1>4, <1>5
  <2>2. ls2 = Append(ls1, ls2[Len(ls2)])
    <3>1. ls1 \in Seq(Seq(NamedWords)) /\ ls2 \in Seq(Seq(NamedWords)) /\ Len(ls2) = Len(ls1) + 1
          /\ \A i \in 1 .. Len(ls1) : ls2[i] = ls1[i]
      BY <1>4, <1>5, <1>7, <2>1
    <3>. QED
      BY <3>1, IsAppend
  <2>3. rs2 = Append(rs1, rs2[Len(rs2)])
    <3>1. rs1 \in Seq(Seq(NamedWords)) /\ rs2 \in Seq(Seq(NamedWords)) /\ Len(rs2) = Len(rs1) + 1
          /\ \A i \in 1 .. Len(rs1) : rs2[i] = rs1[i]
      BY <1>4, <1>5, <1>7, <2>1
    <3>. QED
      BY <3>1, IsAppend
  <2>4. ws2 = Append(ws1, ws2[Len(ws2)])
    <3>1. ws1 \in Seq(Seq(NamedWords)) /\ ws2 \in Seq(Seq(NamedWords)) /\ Len(ws2) = Len(ws1) + 1
          /\ \A i \in 1 .. Len(ws1) : ws2[i] = ws1[i]
      BY <1>4, <1>5, <1>7, <2>1
    <3>. QED
      BY <3>1, IsAppend
  <2>. QED
    BY <1>5, <1>7, <2>2, <2>3, <2>4 DEF ls1, rs1, ws1, ls2, rs2, ws2
<1>9. \A t : Lefts(t) = FlattenSeq(ls(t)) /\ Rights(t) = FlattenSeq(rs(t)) /\ RowWords(t) = FlattenSeq(ws(t))
  BY DEF Lefts, Rights, RowWords, ls, rs, ws
<1>10. /\ ls(rows) \in Seq(Seq(NamedWords)) /\ rs(rows) \in Seq(Seq(NamedWords))
       /\ ws(rows) \in Seq(Seq(NamedWords))
       /\ r.left \in Seq(NamedWords) /\ r.right \in Seq(NamedWords) /\ r.left \o r.right \in Seq(NamedWords)
  BY <1>2, <1>4 DEF ls1, rs1, ws1
<1>11. /\ FlattenSeq(ls(a)) = FlattenSeq(ls(rows)) \o r.left /\ FlattenSeq(ls(rows)) \in Seq(NamedWords)
       /\ FlattenSeq(rs(a)) = FlattenSeq(rs(rows)) \o r.right /\ FlattenSeq(rs(rows)) \in Seq(NamedWords)
       /\ FlattenSeq(ws(a)) = FlattenSeq(ws(rows)) \o (r.left \o r.right)
       /\ FlattenSeq(ws(rows)) \in Seq(NamedWords)
  BY <1>8, <1>10, FlattenFacts
<1>. QED
  BY <1>9, <1>10, <1>11 DEF a

\* The words of two columns, line by line.
LEMMA RowsMixed ==
  ASSUME NEW all \in Seq(RowLineSet), Ordered(Lefts(all)), Ordered(Rights(all)),
         \A x \in Ids(Lefts(all)), y \in Ids(Rights(all)) : x[1] = y[1] /\ x[2] # y[2]
  PROVE  SameInk(RowWords(all), Lefts(all) \o Rights(all)) /\ Ordered(RowWords(all))
<1>. DEFINE Given(rows) ==
              /\ Ordered(Lefts(rows)) /\ Ordered(Rights(rows))
              /\ \A x \in Ids(Lefts(rows)), y \in Ids(Rights(rows)) : x[1] = y[1] /\ x[2] # y[2]
            Mixed(rows) ==
              SameInk(RowWords(rows), Lefts(rows) \o Rights(rows)) /\ Ordered(RowWords(rows))
            T == {rows \in Seq(RowLineSet) : Given(rows) => Mixed(rows)}
<1>1. << >> \in T
  <2>1. << >> \in Seq(RowLineSet) /\ << >> \in Seq(NamedWords)
    BY EmptySeq
  <2>2. Lefts(<< >>) = << >> /\ Rights(<< >>) = << >> /\ RowWords(<< >>) = << >>
    <3>1. FlattenSeq(<< >>) = << >>
      BY FlattenFacts
    <3>. QED
      BY <3>1 DEF Lefts, Rights, RowWords
  <2>3. << >> \o << >> = << >>
    BY <2>1, ConcatEmptySeq
  <2>4. SameInk(<< >>, << >>) /\ Ordered(<< >>)
    BY DEF SameInk, Ordered
  <2>5. Mixed(<< >>)
    <3>1. Lefts(<< >>) \o Rights(<< >>) = << >>
      BY <2>2, <2>3
    <3>2. SameInk(RowWords(<< >>), Lefts(<< >>) \o Rights(<< >>)) /\ Ordered(RowWords(<< >>))
      BY <2>2, <2>4, <3>1
    <3>. QED
      BY <3>2
  <2>. QED
    BY <2>1, <2>5
<1>2. ASSUME NEW rows \in T, NEW r \in RowLineSet PROVE Append(rows, r) \in T
  <2>. DEFINE more == Append(rows, r)
              L == Lefts(rows)
              R == Rights(rows)
              W == RowWords(rows)
              l == r.left
              s == r.right
  <2>1. /\ more \in Seq(RowLineSet) /\ rows \in Seq(RowLineSet) /\ Len(rows) \in Nat
        /\ Len(more) = Len(rows) + 1 /\ more[Len(rows) + 1] = r
        /\ \A i \in 1 .. Len(rows) : more[i] = rows[i]
    BY AppendProperties, LenProperties
  <2>. SUFFICES ASSUME Given(more) PROVE Mixed(more)
    BY <2>1
  <2>2. /\ L \in Seq(NamedWords) /\ R \in Seq(NamedWords) /\ W \in Seq(NamedWords)
        /\ l \in Seq(NamedWords) /\ s \in Seq(NamedWords)
        /\ Lefts(more) = L \o l /\ Rights(more) = R \o s /\ RowWords(more) = W \o (l \o s)
    BY <2>1, RowsAppend
  <2>3. /\ Ordered(Lefts(more)) /\ Ordered(Rights(more))
        /\ \A x \in Ids(Lefts(more)), y \in Ids(Rights(more)) : x[1] = y[1] /\ x[2] # y[2]
    OBVIOUS
  <2>4. (Given(rows) => Mixed(rows)) /\ (Given(rows) <=>
          /\ Ordered(L) /\ Ordered(R)
          /\ \A x \in Ids(L), y \in Ids(R) : x[1] = y[1] /\ x[2] # y[2])
    OBVIOUS
  <2>. HIDE DEF more, L, R, W, l, s, Given
  <2>5. /\ Ordered(L) /\ Ordered(l) /\ (\A x \in Ids(L), y \in Ids(l) : Before(x, y))
        /\ Ordered(R) /\ Ordered(s) /\ (\A x \in Ids(R), y \in Ids(s) : Before(x, y))
    BY <2>2, <2>3, OrderJoined
  <2>6. Ids(L \o l) = Ids(L) \cup Ids(l) /\ Ids(R \o s) = Ids(R) \cup Ids(s)
    BY <2>2, WordsJoined
  <2>7. \A x \in Ids(L) \cup Ids(l), y \in Ids(R) \cup Ids(s) :
          x[1] = y[1] /\ x[2] # y[2] /\ Before(x, y) /\ Before(y, x)
    BY <2>2, <2>3, <2>6 DEF Before
  <2>8. Mixed(rows)
    BY <2>4, <2>5, <2>7
  <2>9. SameInk(W, L \o R) /\ Ordered(W)
    BY <2>8 DEF L, R, W
  <2>. HIDE DEF Mixed
  <2>10. /\ l \o s \in Seq(NamedWords) /\ L \o R \in Seq(NamedWords)
         /\ Ids(l \o s) = Ids(l) \cup Ids(s) /\ Ids(L \o R) = Ids(L) \cup Ids(R)
         /\ (\A id : InkOf(l \o s, id) = InkOf(l, id) + InkOf(s, id))
         /\ (\A id : InkOf(L \o R, id) = InkOf(L, id) + InkOf(R, id))
    BY <2>2, WordsJoined
  <2>11. SameInk(W \o (l \o s), (L \o l) \o (R \o s))
    <3>1. /\ L \o l \in Seq(NamedWords) /\ R \o s \in Seq(NamedWords)
          /\ (\A id : InkOf(L \o l, id) = InkOf(L, id) + InkOf(l, id))
          /\ (\A id : InkOf(R \o s, id) = InkOf(R, id) + InkOf(s, id))
      BY <2>2, WordsJoined
    <3>2. /\ Ids((L \o l) \o (R \o s)) = Ids(L \o l) \cup Ids(R \o s)
          /\ (\A id : InkOf((L \o l) \o (R \o s), id) = InkOf(L \o l, id) + InkOf(R \o s, id))
      BY <3>1, WordsJoined
    <3>3. /\ Ids(W \o (l \o s)) = Ids(W) \cup Ids(l \o s)
          /\ (\A id : InkOf(W \o (l \o s), id) = InkOf(W, id) + InkOf(l \o s, id))
      BY <2>2, <2>10, WordsJoined
    <3>4. Ids(W) = Ids(L \o R) /\ \A id \in WordIds : InkOf(W, id) = InkOf(L \o R, id)
      BY <2>9 DEF SameInk
    <3>5. Ids(W \o (l \o s)) = Ids((L \o l) \o (R \o s))
      BY <2>6, <2>10, <3>2, <3>3, <3>4
    <3>6. \A id : InkOf(L, id) \in Int /\ InkOf(R, id) \in Int /\ InkOf(l, id) \in Int /\ InkOf(s, id) \in Int
      BY <2>2, SharesType
    <3>7. ASSUME NEW id \in WordIds
          PROVE InkOf(W \o (l \o s), id) = InkOf((L \o l) \o (R \o s), id)
      BY <2>10, <3>1, <3>2, <3>3, <3>4, <3>6
    <3>. QED
      BY <3>5, <3>7 DEF SameInk
  <2>12. Ordered(W \o (l \o s))
    <3>1. \A x \in Ids(l), y \in Ids(s) : Before(x, y)
      BY <2>7
    <3>2. Ordered(l \o s)
      BY <2>2, <2>5, <3>1, OrderJoined
    <3>3. Ids(W) = Ids(L) \cup Ids(R)
      BY <2>9, <2>10 DEF SameInk
    <3>4. \A x \in Ids(W), y \in Ids(l \o s) : Before(x, y)
      BY <2>5, <2>7, <2>10, <3>3
    <3>. QED
      BY <2>2, <2>9, <2>10, <3>2, <3>4, OrderJoined
  <2>. QED
    BY <2>2, <2>11, <2>12 DEF Mixed
<1>3. T \in SUBSET Seq(RowLineSet)
  OBVIOUS
<1>4. Given(all) /\ (all \in T => Mixed(all))
  OBVIOUS
<1>. HIDE DEF T, Given, Mixed
<1>5. T = Seq(RowLineSet)
  BY <1>1, <1>2, <1>3, EverySequence
<1>. QED
  BY <1>4, <1>5 DEF Mixed

\* The words of the lines of a row.
ColumnWords(lines) ==
  [i \in 1 .. Len(lines) |-> [left |-> WordsOf(lines[i].left), right |-> WordsOf(lines[i].right)]]

\* A wrapped cell has its words; one of spaces only has no line.
LEMMA WrapCellKeeps ==
  ASSUME NEW cell \in Seq(CellTokens), NEW width \in Nat, width > 0, Ordered(WordsOf(cell))
  PROVE  LET lines == WrapCell(cell, width)
         IN  /\ lines \in Seq(Seq(NamedWords)) /\ SameInk(FlattenSeq(lines), WordsOf(cell))
             /\ Ordered(FlattenSeq(lines))
<1>. DEFINE words == WordsOf(cell)
<1>1. words \in Seq(NamedWords)
  BY PiecesAreTokens, SeqWithin, WordsOfJoined
<1>2. WellWrapped(WrapLine(words, width), words)
  BY <1>1, WrapLineKeeps
<1>3. CASE cell # << >> /\ words = << >>
  <2>1. WrapCell(cell, width) = << >>
    BY <1>3 DEF WrapCell
  <2>2. FlattenSeq(<< >>) = << >> /\ << >> \in Seq(Seq(NamedWords))
    BY FlattenFacts, EmptySeq
  <2>3. SameInk(<< >>, << >>) /\ Ordered(<< >>)
    BY DEF SameInk, Ordered
  <2>. QED
    BY <1>3, <2>1, <2>2, <2>3
<1>4. CASE ~(cell # << >> /\ words = << >>)
  <2>1. WrapCell(cell, width) = WrapLine(words, width)
    BY <1>4 DEF WrapCell
  <2>. QED
    BY <1>2, <2>1 DEF WellWrapped
<1>. QED
  BY <1>3, <1>4

\* The lines of a row keep the words of both columns, in their order.
LEMMA LayoutRowKeeps ==
  ASSUME NEW width \in Widths, NEW left \in Seq(CellTokens), NEW right \in Seq(CellTokens),
         Ordered(WordsOf(left)), Ordered(WordsOf(right))
  PROVE  LET rows == ColumnWords(LayoutRow(left, right, Columns(width)))
         IN  /\ rows \in Seq(RowLineSet)
             /\ SameInk(Lefts(rows), WordsOf(left)) /\ Ordered(Lefts(rows))
             /\ SameInk(Rights(rows), WordsOf(right)) /\ Ordered(Rights(rows))
<1>. DEFINE columns == Columns(width)
            leftWidth == (columns * 3) \div 5
            mostL == Larger(leftWidth, 1)
            mostR == Larger(columns - leftWidth - 1, 1)
            lefts == WrapCell(left, mostL)
            rights == WrapCell(right, mostR)
            one == [left |-> left, right |-> right,
                    spaces |-> columns - CellWidth(left) - CellWidth(right)]
            many == [i \in 1 .. Larger(Len(lefts), Len(rights)) |->
                      [left |-> WordTokens(LineAt(lefts, i)), right |-> WordTokens(LineAt(rights, i)),
                       spaces |-> Larger(columns - LineWidth(LineAt(lefts, i))
                                              - LineWidth(LineAt(rights, i)), 1)]]
            lines == LayoutRow(left, right, columns)
            rows == ColumnWords(lines)
<1>0. WordsOf(left) \in Seq(NamedWords) /\ WordsOf(right) \in Seq(NamedWords)
  BY PiecesAreTokens, SeqWithin, WordsOfJoined
<1>1. columns \in {32, 48}
  BY DEF Columns
<1>2. lines = IF CellWidth(left) + CellWidth(right) < columns THEN <<one>> ELSE many
  BY DEF LayoutRow
<1>. HIDE DEF columns, lines
<1>3. mostL \in Nat /\ mostL > 0 /\ mostR \in Nat /\ mostR > 0
  BY <1>1 DEF Larger
<1>. HIDE DEF mostL, mostR
<1>5. /\ lefts \in Seq(Seq(NamedWords)) /\ SameInk(FlattenSeq(lefts), WordsOf(left))
      /\ Ordered(FlattenSeq(lefts))
      /\ rights \in Seq(Seq(NamedWords)) /\ SameInk(FlattenSeq(rights), WordsOf(right))
      /\ Ordered(FlattenSeq(rights))
  BY <1>3, WrapCellKeeps
<1>. HIDE DEF lefts, rights
<1>7. CASE CellWidth(left) + CellWidth(right) < columns
  <2>. DEFINE row == [left |-> WordsOf(left), right |-> WordsOf(right)]
  <2>1. lines = <<one>>
    BY <1>2, <1>7
  <2>2. Len(lines) = 1 /\ lines[1].left = left /\ lines[1].right = right
    BY <2>1
  <2>3. rows = [i \in 1 .. 1 |-> [left |-> WordsOf(lines[i].left), right |-> WordsOf(lines[i].right)]]
    BY <2>2 DEF ColumnWords
  <2>4. rows = <<row>>
    BY <2>2, <2>3
  <2>5. row \in RowLineSet /\ row.left = WordsOf(left) /\ row.right = WordsOf(right)
    BY <1>0 DEF RowLineSet
  <2>. HIDE DEF row, rows
  <2>6. rows \in Seq(RowLineSet)
    BY <2>4, <2>5
  <2>7. Lefts(rows) = FlattenSeq(<<WordsOf(left)>>) /\ Rights(rows) = FlattenSeq(<<WordsOf(right)>>)
    BY <2>4, <2>5 DEF Lefts, Rights
  <2>8. Lefts(rows) = WordsOf(left) /\ Rights(rows) = WordsOf(right)
    BY <1>0, <2>7, FlattenOne
  <2>9. SameInk(WordsOf(left), WordsOf(left)) /\ SameInk(WordsOf(right), WordsOf(right))
    BY DEF SameInk
  <2>. QED
    BY <2>6, <2>8, <2>9 DEF rows, lines, columns
<1>8. CASE ~(CellWidth(left) + CellWidth(right) < columns)
  <2>1. lines = many
    BY <1>2, <1>8
  <2>2. Len(lefts) \in Nat /\ Len(rights) \in Nat
        /\ (\A i \in 1 .. Len(lefts) : lefts[i] \in Seq(NamedWords))
        /\ (\A i \in 1 .. Len(rights) : rights[i] \in Seq(NamedWords))
    BY <1>5, LenProperties, ElementOfSeq
  <2>. DEFINE n == Larger(Len(lefts), Len(rights))
              row(i) == [left |-> LineAt(lefts, i), right |-> LineAt(rights, i)]
  <2>3. n \in Nat /\ n >= Len(lefts) /\ n >= Len(rights)
    BY <2>2 DEF Larger
  <2>4. \A i \in 1 .. n : LineAt(lefts, i) \in Seq(NamedWords) /\ LineAt(rights, i) \in Seq(NamedWords)
    BY <2>2, <2>3, EmptySeq DEF LineAt
  <2>5. Len(lines) = n /\ \A i \in 1 .. n : lines[i].left = WordTokens(LineAt(lefts, i))
                                             /\ lines[i].right = WordTokens(LineAt(rights, i))
    BY <2>1, <2>3
  <2>. HIDE DEF n, many
  <2>6. \A i \in 1 .. n : WordsOf(lines[i].left) = LineAt(lefts, i)
                          /\ WordsOf(lines[i].right) = LineAt(rights, i)
    BY <2>4, <2>5, WordTokensFacts
  <2>7. rows = [i \in 1 .. n |-> row(i)]
    BY <2>5, <2>6 DEF ColumnWords
  <2>8. \A i \in 1 .. n : row(i) \in RowLineSet /\ row(i).left = LineAt(lefts, i)
                          /\ row(i).right = LineAt(rights, i)
    BY <2>4 DEF RowLineSet
  <2>. HIDE DEF row, rows
  <2>9. rows \in Seq(RowLineSet) /\ Len(rows) = n /\ \A i \in 1 .. n : rows[i] = row(i)
    BY <2>3, <2>7, <2>8
  <2>10. /\ Lefts(rows) = FlattenSeq([i \in 1 .. n |-> LineAt(lefts, i)])
         /\ Rights(rows) = FlattenSeq([i \in 1 .. n |-> LineAt(rights, i)])
    BY <2>8, <2>9 DEF Lefts, Rights
  <2>11. Lefts(rows) = FlattenSeq(lefts) /\ Rights(rows) = FlattenSeq(rights)
    BY <1>5, <2>3, <2>10, PaddedColumn
  <2>. QED
    BY <1>5, <2>9, <2>11 DEF rows, lines, columns
<1>. QED
  BY <1>7, <1>8

-----------------------------------------------------------------------------
(* The contents of a layout.                                               *)

\* What a layout draws besides text.
MarkSet ==
  ({"image"} \X Nat \X Nat) \cup ({"qr", "barcode"} \X LayoutElements) \cup {<<"cut">>}

\* What an element contains.
LEMMA ContentType ==
  ASSUME NEW e \in LayoutElements
  PROVE  Words(e) \in Seq(NamedWords) /\ Fed(e) \in Int /\ Mark(e) \in Seq(MarkSet)
<1>1. << >> \in Seq(NamedWords) /\ << >> \in Seq(MarkSet)
  BY EmptySeq
<1>2. Words(e) \in Seq(NamedWords)
  <2>1. CASE e.kind = "text"
    <3>1. e.lines \in Seq(Seq(NamedWords))
      BY <2>1, ElementFacts DEF TextElements
    <3>2. FlattenSeq(e.lines) \in Seq(NamedWords)
      BY <3>1, FlattenFacts
    <3>. QED
      BY <2>1, <3>2 DEF Words
  <2>2. CASE e.kind = "row"
    <3>1. e.left \in Seq(CellTokens) /\ e.right \in Seq(CellTokens)
      BY <2>2, ElementFacts DEF RowElements
    <3>2. WordsOf(e.left) \in Seq(NamedWords) /\ WordsOf(e.right) \in Seq(NamedWords)
      BY <3>1, PiecesAreTokens, SeqWithin, WordsOfJoined
    <3>3. WordsOf(e.left) \o WordsOf(e.right) \in Seq(NamedWords)
      BY <3>2, WordsJoined
    <3>. QED
      BY <2>2, <3>3 DEF Words
  <2>3. CASE e.kind = "divider"
    <3>. DEFINE w == e.word
    <3>1. w \in NamedWords
      BY <2>3, ElementFacts DEF DividerElements
    <3>2. Words(e) = <<w>>
      BY <2>3 DEF Words
    <3>. HIDE DEF w
    <3>. QED
      BY <3>1, <3>2
  <2>4. CASE e.kind \notin {"text", "row", "divider"}
    BY <1>1, <2>4 DEF Words
  <2>. QED
    BY <2>1, <2>2, <2>3, <2>4
<1>3. Fed(e) \in Int
  <2>1. CASE e.kind = "text"
    <3>1. e.lines \in Seq(Seq(NamedWords))
      BY <2>1, ElementFacts DEF TextElements
    <3>2. BlankLines(e.lines) \in Int
      BY <3>1, BlankFacts
    <3>. QED
      BY <2>1, <3>2 DEF Fed
  <2>2. CASE e.kind = "feed"
    BY <2>2, ElementFacts DEF FeedSections, Fed
  <2>3. CASE e.kind \notin {"text", "feed"}
    BY <2>3 DEF Fed
  <2>. QED
    BY <2>1, <2>2, <2>3
<1>4. Mark(e) \in Seq(MarkSet)
  <2>1. CASE e.kind = "image"
    <3>. DEFINE m == <<e.kind, e.stride, e.height>>
    <3>1. e.stride \in Nat /\ e.height \in Nat
      BY <2>1, ElementFacts DEF ImageElements
    <3>2. m \in MarkSet
      BY <2>1, <3>1 DEF MarkSet
    <3>3. Mark(e) = <<m>>
      BY <2>1 DEF Mark
    <3>. HIDE DEF m
    <3>. QED
      BY <3>2, <3>3
  <2>2. CASE e.kind \in {"qr", "barcode"}
    <3>. DEFINE m == <<e.kind, e>>
    <3>1. m \in MarkSet
      BY <2>2 DEF MarkSet
    <3>2. Mark(e) = <<m>>
      BY <2>2 DEF Mark
    <3>. HIDE DEF m
    <3>. QED
      BY <3>1, <3>2
  <2>3. CASE e.kind = "cut"
    <3>. DEFINE m == <<e.kind>>
    <3>1. m \in MarkSet
      BY <2>3 DEF MarkSet
    <3>2. Mark(e) = <<m>>
      BY <2>3 DEF Mark
    <3>. HIDE DEF m
    <3>. QED
      BY <3>1, <3>2
  <2>4. CASE e.kind \notin {"image", "qr", "barcode", "cut"}
    BY <1>1, <2>4 DEF Mark
  <2>. QED
    BY <2>1, <2>2, <2>3, <2>4
<1>. QED
  BY <1>2, <1>3, <1>4

\* What no element, and what one element contains.
LEMMA ContentOfOne ==
  /\ AllWords(<< >>) = << >> /\ Feeds(<< >>) = 0 /\ Marks(<< >>) = << >>
  /\ \A e \in LayoutElements :
       AllWords(<<e>>) = Words(e) /\ Feeds(<<e>>) = Fed(e) /\ Marks(<<e>>) = Mark(e)
<1>1. AllWords(<< >>) = << >> /\ Feeds(<< >>) = 0 /\ Marks(<< >>) = << >>
  <2>1. /\ [i \in 1 .. Len(<< >>) |-> Words(<< >>[i])] = << >>
        /\ [i \in 1 .. Len(<< >>) |-> Fed(<< >>[i])] = << >>
        /\ [i \in 1 .. Len(<< >>) |-> Mark(<< >>[i])] = << >>
    OBVIOUS
  <2>. QED
    BY <2>1, FlattenFacts, SumOfFacts DEF AllWords, Feeds, Marks
<1>2. ASSUME NEW e \in LayoutElements
      PROVE  AllWords(<<e>>) = Words(e) /\ Feeds(<<e>>) = Fed(e) /\ Marks(<<e>>) = Mark(e)
  <2>. DEFINE w == Words(e)
              f == Fed(e)
              m == Mark(e)
  <2>1. w \in Seq(NamedWords) /\ f \in Int /\ m \in Seq(MarkSet)
    BY ContentType
  <2>2. /\ [i \in 1 .. Len(<<e>>) |-> Words(<<e>>[i])] = <<w>>
        /\ [i \in 1 .. Len(<<e>>) |-> Fed(<<e>>[i])] = <<f>>
        /\ [i \in 1 .. Len(<<e>>) |-> Mark(<<e>>[i])] = <<m>>
    OBVIOUS
  <2>3. AllWords(<<e>>) = FlattenSeq(<<w>>) /\ Feeds(<<e>>) = SumOf(<<f>>) /\ Marks(<<e>>) = FlattenSeq(<<m>>)
    BY <2>2 DEF AllWords, Feeds, Marks
  <2>. HIDE DEF w, f, m
  <2>4. FlattenSeq(<<w>>) = w
    BY <2>1, FlattenOne
  <2>5. FlattenSeq(<<m>>) = m
    BY <2>1, FlattenOne
  <2>6. SumOf(<<f>>) = f
    <3>1. << >> \in Seq(Int) /\ Append(<< >>, f) = <<f>>
      BY EmptySeq
    <3>2. SumOf(Append(<< >>, f)) = SumOf(<< >>) + f
      BY <2>1, <3>1, SumOfFacts
    <3>. QED
      BY <2>1, <3>1, <3>2, SumOfFacts
  <2>. QED
    BY <2>3, <2>4, <2>5, <2>6 DEF w, f, m
<1>. QED
  BY <1>1, <1>2

\* One element more.
LEMMA ContentAppend ==
  ASSUME NEW a \in Seq(LayoutElements), NEW e \in LayoutElements
  PROVE  /\ Append(a, e) \in Seq(LayoutElements)
         /\ AllWords(a) \in Seq(NamedWords) /\ Feeds(a) \in Int /\ Marks(a) \in Seq(MarkSet)
         /\ AllWords(Append(a, e)) = AllWords(a) \o Words(e)
         /\ Feeds(Append(a, e)) = Feeds(a) + Fed(e)
         /\ Marks(Append(a, e)) = Marks(a) \o Mark(e)
<1>. DEFINE n == Len(a)
            b == Append(a, e)
<1>1. /\ n \in Nat /\ b \in Seq(LayoutElements) /\ Len(b) = n + 1 /\ b[n + 1] = e
      /\ \A i \in 1 .. n : b[i] = a[i] /\ a[i] \in LayoutElements
      /\ \A i \in 1 .. n + 1 : b[i] \in LayoutElements
  <2>1. /\ n \in Nat /\ b \in Seq(LayoutElements) /\ Len(b) = n + 1 /\ b[n + 1] = e
        /\ \A i \in 1 .. n : b[i] = a[i]
    BY AppendProperties, LenProperties
  <2>. HIDE DEF b
  <2>. QED
    BY <2>1, ElementOfSeq
<1>. HIDE DEF b
<1>2. \A x \in LayoutElements : Words(x) \in Seq(NamedWords) /\ Fed(x) \in Int /\ Mark(x) \in Seq(MarkSet)
  BY ContentType
<1>3. n + 1 \in 1 .. n + 1 /\ \A i \in 1 .. n : i \in 1 .. n + 1
  BY <1>1
<1>4. AllWords(a) \in Seq(NamedWords) /\ AllWords(b) = AllWords(a) \o Words(e)
  <2>. DEFINE u == [i \in 1 .. n |-> Words(a[i])]
              v == [i \in 1 .. n + 1 |-> Words(b[i])]
  <2>1. AllWords(a) = FlattenSeq(u) /\ AllWords(b) = FlattenSeq(v)
    BY <1>1 DEF AllWords
  <2>2. u \in Seq(Seq(NamedWords)) /\ Len(u) = n /\ \A i \in 1 .. n : u[i] = Words(a[i])
    BY <1>1, <1>2
  <2>3. v \in Seq(Seq(NamedWords)) /\ Len(v) = n + 1 /\ \A i \in 1 .. n + 1 : v[i] = Words(b[i])
    BY <1>1, <1>2
  <2>. HIDE DEF u, v, n
  <2>4. Len(v) = Len(u) + 1 /\ (\A i \in 1 .. Len(u) : v[i] = u[i]) /\ v[Len(v)] = Words(e)
    BY <1>1, <1>3, <2>2, <2>3
  <2>5. v = Append(u, Words(e)) /\ Words(e) \in Seq(NamedWords)
    BY <2>2, <2>3, <2>4, IsAppend
  <2>6. FlattenSeq(u) \in Seq(NamedWords) /\ FlattenSeq(v) = FlattenSeq(u) \o Words(e)
    BY <2>2, <2>5, FlattenFacts
  <2>. QED
    BY <2>1, <2>6
<1>5. Marks(a) \in Seq(MarkSet) /\ Marks(b) = Marks(a) \o Mark(e)
  <2>. DEFINE u == [i \in 1 .. n |-> Mark(a[i])]
              v == [i \in 1 .. n + 1 |-> Mark(b[i])]
  <2>1. Marks(a) = FlattenSeq(u) /\ Marks(b) = FlattenSeq(v)
    BY <1>1 DEF Marks
  <2>2. u \in Seq(Seq(MarkSet)) /\ Len(u) = n /\ \A i \in 1 .. n : u[i] = Mark(a[i])
    BY <1>1, <1>2
  <2>3. v \in Seq(Seq(MarkSet)) /\ Len(v) = n + 1 /\ \A i \in 1 .. n + 1 : v[i] = Mark(b[i])
    BY <1>1, <1>2
  <2>. HIDE DEF u, v, n
  <2>4. Len(v) = Len(u) + 1 /\ (\A i \in 1 .. Len(u) : v[i] = u[i]) /\ v[Len(v)] = Mark(e)
    BY <1>1, <1>3, <2>2, <2>3
  <2>5. v = Append(u, Mark(e)) /\ Mark(e) \in Seq(MarkSet)
    BY <2>2, <2>3, <2>4, IsAppend
  <2>6. FlattenSeq(u) \in Seq(MarkSet) /\ FlattenSeq(v) = FlattenSeq(u) \o Mark(e)
    BY <2>2, <2>5, FlattenFacts
  <2>. QED
    BY <2>1, <2>6
<1>6. Feeds(a) \in Int /\ Feeds(b) = Feeds(a) + Fed(e)
  <2>. DEFINE u == [i \in 1 .. n |-> Fed(a[i])]
              v == [i \in 1 .. n + 1 |-> Fed(b[i])]
  <2>1. Feeds(a) = SumOf(u) /\ Feeds(b) = SumOf(v)
    BY <1>1 DEF Feeds
  <2>2. u \in Seq(Int) /\ Len(u) = n /\ \A i \in 1 .. n : u[i] = Fed(a[i])
    BY <1>1, <1>2
  <2>3. v \in Seq(Int) /\ Len(v) = n + 1 /\ \A i \in 1 .. n + 1 : v[i] = Fed(b[i])
    BY <1>1, <1>2
  <2>. HIDE DEF u, v, n
  <2>4. Len(v) = Len(u) + 1 /\ (\A i \in 1 .. Len(u) : v[i] = u[i]) /\ v[Len(v)] = Fed(e)
    BY <1>1, <1>3, <2>2, <2>3
  <2>5. v = Append(u, Fed(e)) /\ Fed(e) \in Int
    BY <2>2, <2>3, <2>4, IsAppend
  <2>6. SumOf(u) \in Int /\ SumOf(v) = SumOf(u) + Fed(e)
    BY <2>2, <2>5, SumOfFacts
  <2>. QED
    BY <2>1, <2>6
<1>. QED
  BY <1>1, <1>4, <1>5, <1>6 DEF b

\* Marks joined.
LEMMA RegroupMarks ==
  ASSUME NEW a \in Seq(MarkSet), NEW b \in Seq(MarkSet), NEW c \in Seq(MarkSet)
  PROVE  (a \o b) \o c = a \o (b \o c)
  BY ConcatAssociative

\* What two layouts contain together.
LEMMA ContentJoined ==
  ASSUME NEW a \in Seq(LayoutElements), NEW b \in Seq(LayoutElements)
  PROVE  /\ AllWords(a \o b) = AllWords(a) \o AllWords(b)
         /\ Feeds(a \o b) = Feeds(a) + Feeds(b)
         /\ Marks(a \o b) = Marks(a) \o Marks(b)
<1>. DEFINE Good(s) == /\ AllWords(a \o s) = AllWords(a) \o AllWords(s)
                       /\ Feeds(a \o s) = Feeds(a) + Feeds(s)
                       /\ Marks(a \o s) = Marks(a) \o Marks(s)
            T == {s \in Seq(LayoutElements) : Good(s)}
<1>0. \A s \in Seq(LayoutElements) :
        AllWords(s) \in Seq(NamedWords) /\ Feeds(s) \in Int /\ Marks(s) \in Seq(MarkSet)
  <2>. SUFFICES ASSUME NEW s \in Seq(LayoutElements)
                PROVE  AllWords(s) \in Seq(NamedWords) /\ Feeds(s) \in Int /\ Marks(s) \in Seq(MarkSet)
    OBVIOUS
  <2>1. [kind |-> "cut", at |-> 0] \in LayoutElements
    BY DEF LayoutElements, CutElements
  <2>. QED
    BY <2>1, ContentAppend
<1>1. << >> \in T
  <2>1. << >> \in Seq(LayoutElements) /\ a \o << >> = a
    BY ConcatEmptySeq, EmptySeq
  <2>2. /\ AllWords(<< >>) = << >> /\ Feeds(<< >>) = 0 /\ Marks(<< >>) = << >>
    BY ContentOfOne
  <2>. DEFINE w == AllWords(a)
              m == Marks(a)
              f == Feeds(a)
  <2>3. w \in Seq(NamedWords) /\ f \in Int /\ m \in Seq(MarkSet)
    BY <1>0
  <2>. HIDE DEF w, m, f
  <2>4. w \o << >> = w /\ m \o << >> = m /\ f + 0 = f
    BY <2>3, ConcatEmptySeq
  <2>5. Good(<< >>)
    BY <2>1, <2>2, <2>4 DEF w, m, f
  <2>. QED
    BY <2>1, <2>5
<1>2. ASSUME NEW s \in T, NEW e \in LayoutElements PROVE Append(s, e) \in T
  <2>. DEFINE c == a \o s
              d == Append(s, e)
  <2>1. s \in Seq(LayoutElements) /\ d \in Seq(LayoutElements) /\ c \in Seq(LayoutElements)
    BY AppendProperties, ConcatProperties
  <2>2. /\ AllWords(c) = AllWords(a) \o AllWords(s)
        /\ Feeds(c) = Feeds(a) + Feeds(s)
        /\ Marks(c) = Marks(a) \o Marks(s)
    OBVIOUS
  <2>3. a \o d = Append(c, e)
    BY <2>1, ConcatAppend
  <2>4. /\ AllWords(d) = AllWords(s) \o Words(e)
        /\ Feeds(d) = Feeds(s) + Fed(e)
        /\ Marks(d) = Marks(s) \o Mark(e)
    BY <2>1, ContentAppend
  <2>. HIDE DEF c
  <2>5. /\ AllWords(Append(c, e)) = AllWords(c) \o Words(e)
        /\ Feeds(Append(c, e)) = Feeds(c) + Fed(e)
        /\ Marks(Append(c, e)) = Marks(c) \o Mark(e)
    BY <2>1, ContentAppend
  <2>. DEFINE w == AllWords(a)
              x == AllWords(s)
              y == Words(e)
              m == Marks(a)
              n == Marks(s)
              o == Mark(e)
  <2>6. /\ w \in Seq(NamedWords) /\ x \in Seq(NamedWords) /\ y \in Seq(NamedWords)
        /\ m \in Seq(MarkSet) /\ n \in Seq(MarkSet) /\ o \in Seq(MarkSet)
        /\ Feeds(a) \in Int /\ Feeds(s) \in Int /\ Fed(e) \in Int
    BY <1>0, <2>1, ContentType
  <2>. HIDE DEF w, x, y, m, n, o, d
  <2>7. (w \o x) \o y = w \o (x \o y)
    BY <2>6, RegroupWords
  <2>8. (m \o n) \o o = m \o (n \o o)
    BY <2>6, RegroupMarks
  <2>9. AllWords(a \o d) = AllWords(a) \o AllWords(d)
    BY <2>2, <2>3, <2>4, <2>5, <2>7 DEF w, x, y
  <2>10. Marks(a \o d) = Marks(a) \o Marks(d)
    BY <2>2, <2>3, <2>4, <2>5, <2>8 DEF m, n, o
  <2>11. Feeds(a \o d) = Feeds(a) + Feeds(d)
    BY <2>2, <2>3, <2>4, <2>5, <2>6
  <2>. QED
    BY <2>1, <2>9, <2>10, <2>11 DEF d
<1>3. T \in SUBSET Seq(LayoutElements)
  OBVIOUS
<1>4. \A s \in T : Good(s)
  OBVIOUS
<1>. HIDE DEF T, Good
<1>5. T = Seq(LayoutElements)
  BY <1>1, <1>2, <1>3, EverySequence
<1>. QED
  BY <1>4, <1>5 DEF Good

-----------------------------------------------------------------------------
(* The contents of a stream, token by token.                               *)

\* A token of a line, and one after which nothing is left open.
Inline(t) == t.op \in {"word", "spaces", "tab"}
Rests(t)  == ~Inline(t) /\ ~Stores(t)

\* The lines that a token feeds, and what it draws besides words, after p.
FedAt(p, t) ==
  IF t.op = "feed" THEN t.value ELSE IF t.op = "nl" /\ ~Inline(p) THEN 1 ELSE 0
MarkAt(p, t) ==
  CASE t.op = "raster"  -> << <<"image", t.low + 256 * t.high, t.heightLow + 256 * t.heightHigh>> >>
    [] t.op = "barcode" -> << <<"barcode", t.value>> >>
    [] t.op = "cut"     -> << <<"cut">> >>
    [] Prints(t) /\ Stores(p) /\ p.stored # << >> -> << <<"qr", p.stored[1]>> >>
    [] OTHER            -> << >>

\* The same of a part of a stream that comes after p.
Prev(p, s, i) == IF i = 1 THEN p ELSE s[i - 1]
LastOf(p, s) == IF s = << >> THEN p ELSE s[Len(s)]
FeedsIn(p, s) == SumOf([i \in 1 .. Len(s) |-> FedAt(Prev(p, s, i), s[i])])
MarksIn(p, s) == FlattenSeq([i \in 1 .. Len(s) |-> MarkAt(Prev(p, s, i), s[i])])

\* What a token carries.
LEMMA CarriedType ==
  ASSUME NEW p \in Tokens, NEW t \in Tokens
  PROVE  FedAt(p, t) \in Int /\ MarkAt(p, t) \in Seq(MarkSet)
<1>1. FedAt(p, t) \in Int
  BY TokenFacts DEF FedAt
<1>2. << >> \in Seq(MarkSet)
  BY EmptySeq
<1>3. CASE t.op = "raster"
  <2>. DEFINE m == <<"image", t.low + 256 * t.high, t.heightLow + 256 * t.heightHigh>>
  <2>1. t.low \in Nat /\ t.high \in Nat /\ t.heightLow \in Nat /\ t.heightHigh \in Nat
    BY <1>3, TokenFacts DEF RasterTokens
  <2>2. m \in MarkSet
    BY <2>1 DEF MarkSet
  <2>3. MarkAt(p, t) = <<m>>
    BY <1>3 DEF MarkAt, Prints
  <2>. HIDE DEF m
  <2>. QED
    BY <1>1, <2>2, <2>3
<1>4. CASE t.op = "barcode"
  <2>. DEFINE m == <<"barcode", t.value>>
  <2>1. t.value \in LayoutElements
    BY <1>4, TokenFacts DEF BarcodeTokens, LayoutElements
  <2>2. m \in MarkSet
    BY <2>1 DEF MarkSet
  <2>3. MarkAt(p, t) = <<m>>
    BY <1>4 DEF MarkAt, Prints
  <2>. HIDE DEF m
  <2>. QED
    BY <1>1, <2>2, <2>3
<1>5. CASE t.op = "cut"
  <2>. DEFINE m == <<"cut">>
  <2>2. m \in MarkSet
    BY DEF MarkSet
  <2>3. MarkAt(p, t) = <<m>>
    BY <1>5 DEF MarkAt, Prints
  <2>. HIDE DEF m
  <2>. QED
    BY <1>1, <2>2, <2>3
<1>6. CASE Prints(t) /\ Stores(p) /\ p.stored # << >>
  <2>. DEFINE m == <<"qr", p.stored[1]>>
  <2>1. p.stored \in Seq(QrSections)
    BY <1>6, TokenFacts DEF QrTokens, Stores
  <2>2. p.stored[1] \in LayoutElements
    <3>1. 1 \in 1 .. Len(p.stored)
      BY <1>6, <2>1, LenProperties, EmptySeq
    <3>2. p.stored[1] \in QrSections
      BY <2>1, <3>1, ElementOfSeq
    <3>. QED
      BY <3>2 DEF LayoutElements
  <2>3. m \in MarkSet
    BY <2>2 DEF MarkSet
  <2>4. MarkAt(p, t) = <<m>>
    BY <1>6 DEF MarkAt, Prints
  <2>. HIDE DEF m
  <2>. QED
    BY <1>1, <2>3, <2>4
<1>7. CASE t.op \notin {"raster", "barcode", "cut"} /\ ~(Prints(t) /\ Stores(p) /\ p.stored # << >>)
  BY <1>1, <1>2, <1>7 DEF MarkAt
<1>. QED
  BY <1>3, <1>4, <1>5, <1>6, <1>7

\* What comes before each token of a part of a stream.
LEMMA PrevType ==
  ASSUME NEW p \in Tokens, NEW s \in Seq(Tokens)
  PROVE  /\ Len(s) \in Nat /\ LastOf(p, s) \in Tokens
         /\ \A i \in 1 .. Len(s) : s[i] \in Tokens /\ Prev(p, s, i) \in Tokens
<1>1. Len(s) \in Nat /\ (\A i \in 1 .. Len(s) : s[i] \in Tokens) /\ (s # << >> => Len(s) > 0)
  BY LenProperties, ElementOfSeq, EmptySeq
<1>2. \A i \in 1 .. Len(s) : i # 1 => i - 1 \in 1 .. Len(s)
  BY <1>1
<1>3. \A i \in 1 .. Len(s) : Prev(p, s, i) \in Tokens
  BY <1>1, <1>2 DEF Prev
<1>4. s # << >> => Len(s) \in 1 .. Len(s)
  BY <1>1
<1>. QED
  BY <1>1, <1>3, <1>4 DEF LastOf

\* The feeds and the marks of a part, one by one.
FedBy(p, s)    == [i \in 1 .. Len(s) |-> FedAt(Prev(p, s, i), s[i])]
MarkedBy(p, s) == [i \in 1 .. Len(s) |-> MarkAt(Prev(p, s, i), s[i])]

\* They are numbers and marks.
LEMMA CarriedTypes ==
  ASSUME NEW p \in Tokens, NEW s \in Seq(Tokens)
  PROVE  /\ FedBy(p, s) \in Seq(Int) /\ Len(FedBy(p, s)) = Len(s)
         /\ MarkedBy(p, s) \in Seq(Seq(MarkSet)) /\ Len(MarkedBy(p, s)) = Len(s)
         /\ \A i \in 1 .. Len(s) : FedBy(p, s)[i] = FedAt(Prev(p, s, i), s[i])
                                   /\ MarkedBy(p, s)[i] = MarkAt(Prev(p, s, i), s[i])
         /\ FeedsIn(p, s) = SumOf(FedBy(p, s)) /\ FeedsIn(p, s) \in Int
         /\ MarksIn(p, s) = FlattenSeq(MarkedBy(p, s)) /\ MarksIn(p, s) \in Seq(MarkSet)
<1>1. Len(s) \in Nat
  BY LenProperties
<1>2. \A i \in 1 .. Len(s) : FedAt(Prev(p, s, i), s[i]) \in Int
                             /\ MarkAt(Prev(p, s, i), s[i]) \in Seq(MarkSet)
  BY PrevType, CarriedType
<1>3. FedBy(p, s) \in Seq(Int) /\ Len(FedBy(p, s)) = Len(s)
  BY <1>1, <1>2 DEF FedBy
<1>4. MarkedBy(p, s) \in Seq(Seq(MarkSet)) /\ Len(MarkedBy(p, s)) = Len(s)
  BY <1>1, <1>2 DEF MarkedBy
<1>5. \A i \in 1 .. Len(s) : FedBy(p, s)[i] = FedAt(Prev(p, s, i), s[i])
                             /\ MarkedBy(p, s)[i] = MarkAt(Prev(p, s, i), s[i])
  BY DEF FedBy, MarkedBy
<1>6. FeedsIn(p, s) = SumOf(FedBy(p, s)) /\ MarksIn(p, s) = FlattenSeq(MarkedBy(p, s))
  BY DEF FeedsIn, MarksIn, FedBy, MarkedBy
<1>7. SumOf(FedBy(p, s)) \in Int
  BY <1>3, SumOfFacts
<1>8. FlattenSeq(MarkedBy(p, s)) \in Seq(MarkSet)
  BY <1>4, FlattenFacts
<1>. QED
  BY <1>3, <1>4, <1>5, <1>6, <1>7, <1>8

\* Nothing, and one token.
LEMMA CarriedByOne ==
  ASSUME NEW p \in Tokens
  PROVE  /\ FeedsIn(p, << >>) = 0 /\ MarksIn(p, << >>) = << >> /\ LastOf(p, << >>) = p
         /\ \A t \in Tokens : FeedsIn(p, <<t>>) = FedAt(p, t) /\ MarksIn(p, <<t>>) = MarkAt(p, t)
                              /\ LastOf(p, <<t>>) = t
<1>1. FedBy(p, << >>) = << >> /\ MarkedBy(p, << >>) = << >>
  BY DEF FedBy, MarkedBy
<1>2. FeedsIn(p, << >>) = 0 /\ MarksIn(p, << >>) = << >> /\ LastOf(p, << >>) = p
  BY <1>1, SumOfFacts, FlattenFacts DEF FeedsIn, MarksIn, FedBy, MarkedBy, LastOf
<1>3. ASSUME NEW t \in Tokens
      PROVE  FeedsIn(p, <<t>>) = FedAt(p, t) /\ MarksIn(p, <<t>>) = MarkAt(p, t) /\ LastOf(p, <<t>>) = t
  <2>. DEFINE f == FedAt(p, t)
              m == MarkAt(p, t)
  <2>1. f \in Int /\ m \in Seq(MarkSet)
    BY CarriedType
  <2>2. Len(<<t>>) = 1 /\ <<t>>[1] = t /\ Prev(p, <<t>>, 1) = p /\ <<t>> # << >>
    BY DEF Prev
  <2>3. FedBy(p, <<t>>) = <<f>> /\ MarkedBy(p, <<t>>) = <<m>>
    BY <2>2 DEF FedBy, MarkedBy
  <2>. HIDE DEF f, m
  <2>4. FlattenSeq(<<m>>) = m
    BY <2>1, FlattenOne
  <2>5. SumOf(<<f>>) = f
    <3>1. << >> \in Seq(Int) /\ Append(<< >>, f) = <<f>>
      BY EmptySeq
    <3>2. SumOf(Append(<< >>, f)) = SumOf(<< >>) + f
      BY <2>1, <3>1, SumOfFacts
    <3>. QED
      BY <2>1, <3>1, <3>2, SumOfFacts
  <2>6. FeedsIn(p, <<t>>) = SumOf(<<f>>) /\ MarksIn(p, <<t>>) = FlattenSeq(<<m>>)
    BY <2>3 DEF FeedsIn, MarksIn, FedBy, MarkedBy
  <2>. QED
    BY <2>2, <2>4, <2>5, <2>6 DEF f, m, LastOf
<1>. QED
  BY <1>2, <1>3

\* Two parts of a stream.
LEMMA CarriedJoined ==
  ASSUME NEW p \in Tokens, NEW a \in Seq(Tokens), NEW b \in Seq(Tokens)
  PROVE  /\ a \o b \in Seq(Tokens)
         /\ FeedsIn(p, a \o b) = FeedsIn(p, a) + FeedsIn(LastOf(p, a), b)
         /\ MarksIn(p, a \o b) = MarksIn(p, a) \o MarksIn(LastOf(p, a), b)
         /\ LastOf(p, a \o b) = LastOf(LastOf(p, a), b)
<1>. DEFINE c == a \o b
            q == LastOf(p, a)
            m == Len(a)
            n == Len(b)
<1>1. /\ c \in Seq(Tokens) /\ m \in Nat /\ n \in Nat /\ Len(c) = m + n
      /\ \A i \in 1 .. m + n : c[i] = IF i <= m THEN a[i] ELSE b[i - m]
  BY ConcatProperties, LenProperties
<1>2. (a = << >> <=> m = 0) /\ (b = << >> <=> n = 0) /\ (c = << >> <=> m + n = 0) /\ q \in Tokens
  BY <1>1, EmptySeq, LenProperties, PrevType
<1>3. q = IF m = 0 THEN p ELSE a[m]
  BY <1>2 DEF LastOf
<1>. HIDE DEF c, q, m, n
<1>4. ASSUME NEW i \in 1 .. m PROVE i \in 1 .. m + n /\ c[i] = a[i] /\ Prev(p, c, i) = Prev(p, a, i)
  <2>1. i \in 1 .. m + n /\ c[i] = a[i]
    BY <1>1
  <2>2. i # 1 => c[i - 1] = a[i - 1]
    BY <1>1
  <2>. QED
    BY <2>1, <2>2 DEF Prev
<1>5. ASSUME NEW i \in 1 .. n
      PROVE  m + i \in 1 .. m + n /\ c[m + i] = b[i] /\ Prev(p, c, m + i) = Prev(q, b, i)
  <2>1. m + i \in 1 .. m + n /\ ~(m + i <= m) /\ (m + i) - m = i
    BY <1>1
  <2>2. c[m + i] = b[i]
    BY <1>1, <2>1
  <2>3. CASE i = 1
    <3>1. CASE m = 0
      <4>1. m + i = 1
        BY <2>3, <3>1
      <4>. QED
        BY <1>3, <2>1, <2>2, <2>3, <3>1, <4>1 DEF Prev
    <3>2. CASE m # 0
      <4>1. m + i # 1 /\ (m + i) - 1 = m /\ m \in 1 .. m + n /\ m <= m
        BY <1>1, <2>3, <3>2
      <4>2. c[m] = a[m]
        BY <1>1, <4>1
      <4>3. Prev(p, c, m + i) = c[(m + i) - 1] /\ Prev(q, b, i) = q
        BY <2>3, <4>1 DEF Prev
      <4>. QED
        BY <1>3, <2>1, <2>2, <3>2, <4>1, <4>2, <4>3
    <3>. QED
      BY <2>1, <2>2, <3>1, <3>2
  <2>4. CASE i # 1
    <3>1. m + i # 1 /\ (m + i) - 1 \in 1 .. m + n /\ ~((m + i) - 1 <= m) /\ ((m + i) - 1) - m = i - 1
      BY <1>1, <2>4
    <3>2. c[(m + i) - 1] = b[i - 1]
      BY <1>1, <3>1
    <3>. QED
      BY <2>1, <2>2, <2>4, <3>1, <3>2 DEF Prev
  <2>. QED
    BY <2>3, <2>4
<1>6. /\ FedBy(p, a) \in Seq(Int) /\ Len(FedBy(p, a)) = m
      /\ FedBy(q, b) \in Seq(Int) /\ Len(FedBy(q, b)) = n
      /\ FedBy(p, c) \in Seq(Int) /\ Len(FedBy(p, c)) = m + n
      /\ MarkedBy(p, a) \in Seq(Seq(MarkSet)) /\ Len(MarkedBy(p, a)) = m
      /\ MarkedBy(q, b) \in Seq(Seq(MarkSet)) /\ Len(MarkedBy(q, b)) = n
      /\ MarkedBy(p, c) \in Seq(Seq(MarkSet)) /\ Len(MarkedBy(p, c)) = m + n
  BY <1>1, <1>2, CarriedTypes DEF m, n
<1>7. /\ \A i \in 1 .. m : FedBy(p, c)[i] = FedBy(p, a)[i] /\ MarkedBy(p, c)[i] = MarkedBy(p, a)[i]
      /\ \A i \in 1 .. n : FedBy(p, c)[m + i] = FedBy(q, b)[i] /\ MarkedBy(p, c)[m + i] = MarkedBy(q, b)[i]
  <2>1. ASSUME NEW i \in 1 .. m
        PROVE  FedBy(p, c)[i] = FedBy(p, a)[i] /\ MarkedBy(p, c)[i] = MarkedBy(p, a)[i]
    BY <1>1, <1>4 DEF FedBy, MarkedBy, m
  <2>2. ASSUME NEW i \in 1 .. n
        PROVE  FedBy(p, c)[m + i] = FedBy(q, b)[i] /\ MarkedBy(p, c)[m + i] = MarkedBy(q, b)[i]
    BY <1>1, <1>5 DEF FedBy, MarkedBy, n
  <2>. QED
    BY <2>1, <2>2
<1>8. FedBy(p, c) = FedBy(p, a) \o FedBy(q, b)
  <2>. DEFINE x == FedBy(p, a)
              y == FedBy(q, b)
              z == FedBy(p, c)
  <2>1. /\ x \in Seq(Int) /\ y \in Seq(Int) /\ z \in Seq(Int) /\ Len(z) = Len(x) + Len(y)
        /\ (\A i \in 1 .. Len(x) : z[i] = x[i]) /\ \A i \in 1 .. Len(y) : z[Len(x) + i] = y[i]
    BY <1>6, <1>7
  <2>. HIDE DEF x, y, z
  <2>2. z = x \o y
    BY <2>1, IsConcat
  <2>. QED
    BY <2>2 DEF x, y, z
<1>9. MarkedBy(p, c) = MarkedBy(p, a) \o MarkedBy(q, b)
  <2>. DEFINE x == MarkedBy(p, a)
              y == MarkedBy(q, b)
              z == MarkedBy(p, c)
  <2>1. /\ x \in Seq(Seq(MarkSet)) /\ y \in Seq(Seq(MarkSet)) /\ z \in Seq(Seq(MarkSet))
        /\ Len(z) = Len(x) + Len(y)
        /\ (\A i \in 1 .. Len(x) : z[i] = x[i]) /\ \A i \in 1 .. Len(y) : z[Len(x) + i] = y[i]
    BY <1>6, <1>7
  <2>. HIDE DEF x, y, z
  <2>2. z = x \o y
    BY <2>1, IsConcat
  <2>. QED
    BY <2>2 DEF x, y, z
<1>10. SumOf(FedBy(p, c)) = SumOf(FedBy(p, a)) + SumOf(FedBy(q, b))
  BY <1>6, <1>8, SumOfConcat
<1>11. FlattenSeq(MarkedBy(p, c)) = FlattenSeq(MarkedBy(p, a)) \o FlattenSeq(MarkedBy(q, b))
  BY <1>6, <1>9, FlattenConcat
<1>12. LastOf(p, c) = LastOf(q, b)
  <2>1. CASE n = 0
    <3>1. m + n = m
      BY <1>1, <2>1
    <3>2. m # 0 => c[m] = a[m]
      <4>1. m # 0 => m \in 1 .. m
        BY <1>1
      <4>. QED
        BY <1>4, <4>1
    <3>. QED
      BY <1>1, <1>2, <1>3, <2>1, <3>1, <3>2 DEF LastOf
  <2>2. CASE n # 0
    <3>1. n \in 1 .. n /\ m + n # 0
      BY <1>1, <2>2
    <3>2. c[m + n] = b[n]
      BY <1>5, <3>1
    <3>. QED
      BY <1>1, <1>2, <2>2, <3>1, <3>2 DEF LastOf, n
  <2>. QED
    BY <2>1, <2>2
<1>13. \A x, s : FeedsIn(x, s) = SumOf(FedBy(x, s)) /\ MarksIn(x, s) = FlattenSeq(MarkedBy(x, s))
  BY DEF FeedsIn, MarksIn, FedBy, MarkedBy
<1>. QED
  BY <1>1, <1>10, <1>11, <1>12, <1>13 DEF c, q

\* It does not matter which of the tokens that leave nothing open came before.
LEMMA CarriedAlike ==
  ASSUME NEW p \in Tokens, NEW q \in Tokens, Rests(p), Rests(q), NEW s
  PROVE  FeedsIn(p, s) = FeedsIn(q, s) /\ MarksIn(p, s) = MarksIn(q, s)
<1>1. \A t : FedAt(p, t) = FedAt(q, t) /\ MarkAt(p, t) = MarkAt(q, t)
  BY DEF FedAt, MarkAt, Rests
<1>2. \A i \in 1 .. Len(s) : FedAt(Prev(p, s, i), s[i]) = FedAt(Prev(q, s, i), s[i])
                             /\ MarkAt(Prev(p, s, i), s[i]) = MarkAt(Prev(q, s, i), s[i])
  BY <1>1 DEF Prev
<1>. QED
  BY <1>2 DEF FeedsIn, MarksIn

-----------------------------------------------------------------------------
(* Lines of a stream.                                                      *)

\* A function of every element of a longer sequence.
LEMMA MappedAppend ==
  ASSUME NEW S, NEW T, NEW f \in [S -> T], NEW s \in Seq(S), NEW x \in S
  PROVE  LET map(r) == [i \in 1 .. Len(r) |-> f[r[i]]]
         IN  map(s) \in Seq(T) /\ map(Append(s, x)) = Append(map(s), f[x])
<1>. DEFINE a == Append(s, x)
            n == Len(s)
            u == [i \in 1 .. Len(s) |-> f[s[i]]]
            v == [i \in 1 .. Len(a) |-> f[a[i]]]
<1>1. /\ n \in Nat /\ a \in Seq(S) /\ Len(a) = n + 1 /\ a[n + 1] = x
      /\ (\A i \in 1 .. n : a[i] = s[i]) /\ \A i \in 1 .. n : s[i] \in S
  BY AppendProperties, LenProperties, ElementOfSeq
<1>. HIDE DEF a
<1>2. \A i \in 1 .. n + 1 : a[i] \in S
  BY <1>1, ElementOfSeq
<1>3. u \in Seq(T) /\ Len(u) = n /\ \A i \in 1 .. n : u[i] = f[s[i]]
  BY <1>1
<1>4. v \in Seq(T) /\ Len(v) = n + 1 /\ \A i \in 1 .. n + 1 : v[i] = f[a[i]]
  BY <1>1, <1>2
<1>. HIDE DEF u, v, n
<1>5. (\A i \in 1 .. n : i \in 1 .. n + 1) /\ n + 1 \in 1 .. n + 1
  BY <1>1
<1>6. Len(v) = Len(u) + 1 /\ (\A i \in 1 .. Len(u) : v[i] = u[i]) /\ v[Len(v)] = f[x]
  BY <1>1, <1>3, <1>4, <1>5
<1>7. v = Append(u, f[x])
  BY <1>3, <1>4, <1>6, IsAppend
<1>. QED
  BY <1>3, <1>7 DEF u, v, a

\* Words, spaces and tabs feed nothing.
LEMMA CellCarries ==
  ASSUME NEW q \in Tokens, NEW cell \in Seq(CellTokens)
  PROVE  /\ cell \in Seq(Tokens) /\ FeedsIn(q, cell) = 0 /\ MarksIn(q, cell) = << >>
         /\ cell # << >> => Inline(LastOf(q, cell))
<1>. DEFINE Good(x) == FeedsIn(q, x) = 0 /\ MarksIn(q, x) = << >>
                       /\ (x # << >> => Inline(LastOf(q, x)))
            T == {x \in Seq(CellTokens) : Good(x)}
<1>0. CellTokens \subseteq Tokens /\ \A x \in Seq(CellTokens) : x \in Seq(Tokens)
  <2>1. CellTokens \subseteq Tokens
    BY PiecesAreTokens
  <2>. QED
    BY <2>1, SeqWithin
<1>1. << >> \in T
  BY EmptySeq, CarriedByOne
<1>2. ASSUME NEW x \in T, NEW t \in CellTokens PROVE Append(x, t) \in T
  <2>. DEFINE p == LastOf(q, x)
  <2>1. x \in Seq(Tokens) /\ t \in Tokens /\ Append(x, t) \in Seq(CellTokens) /\ <<t>> \in Seq(Tokens)
        /\ Append(x, t) = x \o <<t>>
    BY <1>0, AppendProperties, AppendIsConcat
  <2>2. p \in Tokens
    BY <2>1, PrevType
  <2>. HIDE DEF p
  <2>3. Inline(t)
    BY DEF Inline, CellTokens, TextTokens, CellPieces, SpaceTokens, Tab
  <2>4. FedAt(p, t) = 0 /\ MarkAt(p, t) = << >>
    BY <2>3 DEF Inline, FedAt, MarkAt, Prints
  <2>5. FeedsIn(p, <<t>>) = 0 /\ MarksIn(p, <<t>>) = << >> /\ LastOf(p, <<t>>) = t
    BY <2>1, <2>2, <2>4, CarriedByOne
  <2>6. /\ FeedsIn(q, x \o <<t>>) = FeedsIn(q, x) + FeedsIn(p, <<t>>)
        /\ MarksIn(q, x \o <<t>>) = MarksIn(q, x) \o MarksIn(p, <<t>>)
        /\ LastOf(q, x \o <<t>>) = LastOf(p, <<t>>)
    BY <2>1, CarriedJoined DEF p
  <2>7. FeedsIn(q, x) = 0 /\ MarksIn(q, x) = << >>
    OBVIOUS
  <2>8. << >> \o << >> = << >>
    OBVIOUS
  <2>9. Good(Append(x, t))
    BY <2>1, <2>3, <2>5, <2>6, <2>7, <2>8
  <2>. HIDE DEF Good
  <2>. QED
    BY <2>1, <2>9
<1>3. T \in SUBSET Seq(CellTokens)
  OBVIOUS
<1>4. \A x \in T : Good(x)
  OBVIOUS
<1>. HIDE DEF T, Good
<1>5. T = Seq(CellTokens)
  BY <1>1, <1>2, <1>3, EverySequence
<1>. QED
  BY <1>0, <1>4, <1>5 DEF Good

\* A line feeds a line if it is empty.
LEMMA LineCarries ==
  ASSUME NEW q \in Tokens, Rests(q), NEW cell \in Seq(CellTokens)
  PROVE  LET line == Append(cell, NewLine)
         IN  /\ line \in Seq(Tokens) /\ WordsOf(line) = WordsOf(cell)
             /\ FeedsIn(q, line) = (IF cell = << >> THEN 1 ELSE 0) /\ MarksIn(q, line) = << >>
             /\ LastOf(q, line) = NewLine
<1>. DEFINE p == LastOf(q, cell)
            t == NewLine
<1>1. t \in Tokens /\ t.op = "nl" /\ cell \in Seq(Tokens)
  BY PiecesAreTokens, CellCarries DEF NewLine
<1>2. p \in Tokens
  BY <1>1, PrevType
<1>. HIDE DEF t
<1>3. Append(cell, t) = cell \o <<t>> /\ <<t>> \in Seq(Tokens) /\ Append(cell, t) \in Seq(Tokens)
  BY <1>1, AppendIsConcat, AppendProperties
<1>4. FeedsIn(q, cell) = 0 /\ MarksIn(q, cell) = << >>
  BY CellCarries
<1>5. Inline(p) <=> cell # << >>
  BY CellCarries, CarriedByOne DEF Rests
<1>. HIDE DEF p
<1>6. FedAt(p, t) = (IF cell = << >> THEN 1 ELSE 0) /\ MarkAt(p, t) = << >>
  BY <1>1, <1>5 DEF FedAt, MarkAt, Prints
<1>7. /\ FeedsIn(p, <<t>>) = (IF cell = << >> THEN 1 ELSE 0) /\ MarksIn(p, <<t>>) = << >>
      /\ LastOf(p, <<t>>) = t
  BY <1>1, <1>2, <1>6, CarriedByOne
<1>8. /\ FeedsIn(q, cell \o <<t>>) = FeedsIn(q, cell) + FeedsIn(p, <<t>>)
      /\ MarksIn(q, cell \o <<t>>) = MarksIn(q, cell) \o MarksIn(p, <<t>>)
      /\ LastOf(q, cell \o <<t>>) = LastOf(p, <<t>>)
  <2>1. cell \in Seq(Tokens) /\ <<t>> \in Seq(Tokens)
    BY <1>1, <1>3
  <2>. QED
    BY <2>1, CarriedJoined DEF p
<1>9. << >> \o << >> = << >>
  OBVIOUS
<1>10. WordsOf(Append(cell, t)) = WordsOf(cell)
  <2>1. WordsOf(Append(cell, t)) = WordsOf(cell) \o WordAt(t)
    BY <1>1, WordsOfAppend
  <2>2. WordAt(t) = << >> /\ WordsOf(cell) \in Seq(NamedWords)
    BY <1>1, WordsOfJoined DEF WordAt
  <2>. QED
    BY <2>1, <2>2, ConcatEmptySeq
<1>. QED
  BY <1>3, <1>4, <1>7, <1>8, <1>9, <1>10 DEF t

\* The lines that are written of a text or a row.
Block(cells) == FlattenSeq([i \in 1 .. Len(cells) |-> Append(cells[i], NewLine)])
CellWords(cells) == FlattenSeq([i \in 1 .. Len(cells) |-> WordsOf(cells[i])])

\* One line more.
LEMMA BlockAppend ==
  ASSUME NEW cells \in Seq(Seq(CellTokens)), NEW cell \in Seq(CellTokens)
  PROVE  /\ Append(cells, cell) \in Seq(Seq(CellTokens))
         /\ Block(cells) \in Seq(Tokens)
         /\ Block(Append(cells, cell)) = Block(cells) \o Append(cell, NewLine)
         /\ CellWords(cells) \in Seq(NamedWords)
         /\ CellWords(Append(cells, cell)) = CellWords(cells) \o WordsOf(cell)
         /\ BlankLines(cells) \in Int
         /\ BlankLines(Append(cells, cell)) = BlankLines(cells) + (IF cell = << >> THEN 1 ELSE 0)
<1>. DEFINE C == Seq(CellTokens)
            more == Append(cells, cell)
<1>1. /\ cells \in Seq(C) /\ cell \in C /\ more \in Seq(C)
      /\ (\A i \in 1 .. Len(cells) : cells[i] \in C) /\ \A i \in 1 .. Len(more) : more[i] \in C
  BY AppendProperties, ElementOfSeq
<1>2. \A x \in C : /\ x \in Seq(Tokens) /\ Append(x, NewLine) \in Seq(Tokens)
                   /\ WordsOf(x) \in Seq(NamedWords)
  <2>. SUFFICES ASSUME NEW x \in C
                PROVE  /\ x \in Seq(Tokens) /\ Append(x, NewLine) \in Seq(Tokens)
                       /\ WordsOf(x) \in Seq(NamedWords)
    OBVIOUS
  <2>1. x \in Seq(Tokens)
    BY PiecesAreTokens, SeqWithin
  <2>. QED
    BY <2>1, PiecesAreTokens, AppendProperties, WordsOfJoined
<1>. HIDE DEF more, C
<1>3. Block(cells) \in Seq(Tokens) /\ Block(more) = Block(cells) \o Append(cell, NewLine)
  <2>. DEFINE f == [x \in C |-> Append(x, NewLine)]
              u == [i \in 1 .. Len(cells) |-> f[cells[i]]]
              v == [i \in 1 .. Len(more) |-> f[more[i]]]
  <2>1. f \in [C -> Seq(Tokens)] /\ f[cell] = Append(cell, NewLine)
    BY <1>1, <1>2
  <2>2. Block(cells) = FlattenSeq(u) /\ Block(more) = FlattenSeq(v)
    BY <1>1 DEF Block
  <2>. HIDE DEF f
  <2>3. u \in Seq(Seq(Tokens)) /\ v = Append(u, f[cell])
    BY <1>1, <2>1, MappedAppend DEF more
  <2>. HIDE DEF u, v
  <2>4. f[cell] \in Seq(Tokens)
    BY <1>1, <1>2, <2>1
  <2>5. FlattenSeq(u) \in Seq(Tokens) /\ FlattenSeq(Append(u, f[cell])) = FlattenSeq(u) \o f[cell]
    BY <2>3, <2>4, FlattenFacts
  <2>. QED
    BY <2>1, <2>2, <2>3, <2>5
<1>4. CellWords(cells) \in Seq(NamedWords) /\ CellWords(more) = CellWords(cells) \o WordsOf(cell)
  <2>. DEFINE f == [x \in C |-> WordsOf(x)]
              u == [i \in 1 .. Len(cells) |-> f[cells[i]]]
              v == [i \in 1 .. Len(more) |-> f[more[i]]]
  <2>1. f \in [C -> Seq(NamedWords)] /\ f[cell] = WordsOf(cell)
    BY <1>1, <1>2
  <2>2. CellWords(cells) = FlattenSeq(u) /\ CellWords(more) = FlattenSeq(v)
    BY <1>1 DEF CellWords
  <2>. HIDE DEF f
  <2>3. u \in Seq(Seq(NamedWords)) /\ v = Append(u, f[cell])
    BY <1>1, <2>1, MappedAppend DEF more
  <2>. HIDE DEF u, v
  <2>4. f[cell] \in Seq(NamedWords)
    BY <1>1, <1>2, <2>1
  <2>5. FlattenSeq(u) \in Seq(NamedWords) /\ FlattenSeq(Append(u, f[cell])) = FlattenSeq(u) \o f[cell]
    BY <2>3, <2>4, FlattenFacts
  <2>. QED
    BY <2>1, <2>2, <2>3, <2>5
<1>5. /\ BlankLines(cells) \in Int
      /\ BlankLines(more) = BlankLines(cells) + (IF cell = << >> THEN 1 ELSE 0)
  <2>. DEFINE one(x) == IF x = << >> THEN 1 ELSE 0
              f == [x \in C |-> one(x)]
              u == [i \in 1 .. Len(cells) |-> f[cells[i]]]
              v == [i \in 1 .. Len(more) |-> f[more[i]]]
  <2>0. \A x : one(x) \in Int
    OBVIOUS
  <2>2. BlankLines(cells) = SumOf(u) /\ BlankLines(more) = SumOf(v)
    BY <1>1 DEF BlankLines
  <2>. HIDE DEF one
  <2>1. f \in [C -> Int] /\ f[cell] = one(cell)
    BY <1>1, <2>0
  <2>. HIDE DEF f
  <2>3. u \in Seq(Int) /\ v = Append(u, f[cell])
    BY <1>1, <2>1, MappedAppend DEF more
  <2>. HIDE DEF u, v
  <2>4. f[cell] \in Int
    BY <1>1, <2>1
  <2>5. SumOf(u) \in Int /\ SumOf(Append(u, f[cell])) = SumOf(u) + f[cell]
    BY <2>3, <2>4, SumOfFacts
  <2>. QED
    BY <2>1, <2>2, <2>3, <2>5 DEF one
<1>. QED
  BY <1>1, <1>3, <1>4, <1>5 DEF more, C

\* Lines carry their words and feed their empty lines.
LEMMA BlockCarries ==
  ASSUME NEW q \in Tokens, Rests(q), NEW cells \in Seq(Seq(CellTokens))
  PROVE  /\ Block(cells) \in Seq(Tokens) /\ WordsOf(Block(cells)) = CellWords(cells)
         /\ FeedsIn(q, Block(cells)) = BlankLines(cells) /\ MarksIn(q, Block(cells)) = << >>
         /\ Rests(LastOf(q, Block(cells)))
<1>. DEFINE Good(xs) ==
              /\ Block(xs) \in Seq(Tokens) /\ WordsOf(Block(xs)) = CellWords(xs)
              /\ FeedsIn(q, Block(xs)) = BlankLines(xs) /\ MarksIn(q, Block(xs)) = << >>
              /\ Rests(LastOf(q, Block(xs)))
            T == {xs \in Seq(Seq(CellTokens)) : Good(xs)}
<1>1. << >> \in T
  <2>1. << >> \in Seq(Seq(CellTokens)) /\ << >> \in Seq(Tokens)
    BY EmptySeq
  <2>2. Block(<< >>) = << >> /\ CellWords(<< >>) = << >>
    <3>1. /\ [i \in 1 .. Len(<< >>) |-> Append(<< >>[i], NewLine)] = << >>
          /\ [i \in 1 .. Len(<< >>) |-> WordsOf(<< >>[i])] = << >>
      OBVIOUS
    <3>. QED
      BY <3>1, FlattenFacts DEF Block, CellWords
  <2>3. BlankLines(<< >>) = 0 /\ WordsOf(<< >>) = << >>
    BY BlankFacts, WordsOfJoined
  <2>4. FeedsIn(q, << >>) = 0 /\ MarksIn(q, << >>) = << >> /\ LastOf(q, << >>) = q
    BY CarriedByOne
  <2>5. Good(<< >>)
    BY <2>1, <2>2, <2>3, <2>4
  <2>. HIDE DEF Good
  <2>. QED
    BY <2>1, <2>5
<1>2. ASSUME NEW xs \in T, NEW x \in Seq(CellTokens) PROVE Append(xs, x) \in T
  <2>. DEFINE a == Block(xs)
              line == Append(x, NewLine)
              p == LastOf(q, a)
  <2>1. /\ a \in Seq(Tokens) /\ WordsOf(a) = CellWords(xs) /\ FeedsIn(q, a) = BlankLines(xs)
        /\ MarksIn(q, a) = << >> /\ Rests(p) /\ xs \in Seq(Seq(CellTokens))
    OBVIOUS
  <2>2. p \in Tokens
    BY <2>1, PrevType
  <2>. HIDE DEF p
  <2>3. /\ line \in Seq(Tokens) /\ WordsOf(line) = WordsOf(x)
        /\ FeedsIn(p, line) = (IF x = << >> THEN 1 ELSE 0) /\ MarksIn(p, line) = << >>
        /\ LastOf(p, line) = NewLine
    BY <2>1, <2>2, LineCarries
  <2>4. /\ Append(xs, x) \in Seq(Seq(CellTokens)) /\ Block(Append(xs, x)) = a \o line
        /\ CellWords(Append(xs, x)) = CellWords(xs) \o WordsOf(x)
        /\ BlankLines(Append(xs, x)) = BlankLines(xs) + (IF x = << >> THEN 1 ELSE 0)
    BY <2>1, BlockAppend
  <2>. HIDE DEF a, line
  <2>5. /\ a \o line \in Seq(Tokens)
        /\ FeedsIn(q, a \o line) = FeedsIn(q, a) + FeedsIn(p, line)
        /\ MarksIn(q, a \o line) = MarksIn(q, a) \o MarksIn(p, line)
        /\ LastOf(q, a \o line) = LastOf(p, line)
    BY <2>1, <2>3, CarriedJoined DEF p
  <2>6. WordsOf(a \o line) = WordsOf(a) \o WordsOf(line)
    BY <2>1, <2>3, WordsOfJoined
  <2>7. << >> \o << >> = << >> /\ Rests(NewLine)
    BY DEF Rests, Inline, Stores, NewLine
  <2>8. Good(Append(xs, x))
    BY <2>1, <2>3, <2>4, <2>5, <2>6, <2>7
  <2>. HIDE DEF Good
  <2>. QED
    BY <2>4, <2>8
<1>3. T \in SUBSET Seq(Seq(CellTokens))
  OBVIOUS
<1>4. \A xs \in T : Good(xs)
  OBVIOUS
<1>. HIDE DEF T, Good
<1>5. T = Seq(Seq(CellTokens))
  BY <1>1, <1>2, <1>3, EverySequence
<1>. QED
  BY <1>4, <1>5 DEF Good

-----------------------------------------------------------------------------
(* What the encoder writes of an element.                                  *)

\* Tokens that carry nothing.
SilentTokens ==
  {t \in Tokens : t.op \in {"init", "align", "bold", "hri", "height"} \/ (t.op = "qr" /\ ~Prints(t))}

\* So does a sequence of them.
LEMMA SilentCarries ==
  ASSUME NEW q \in Tokens, NEW s \in Seq(SilentTokens)
  PROVE  /\ s \in Seq(Tokens) /\ WordsOf(s) = << >>
         /\ FeedsIn(q, s) = 0 /\ MarksIn(q, s) = << >>
<1>. DEFINE Good(x) == FeedsIn(q, x) = 0 /\ MarksIn(q, x) = << >> /\ WordsOf(x) = << >>
            T == {x \in Seq(SilentTokens) : Good(x)}
<1>0. SilentTokens \subseteq Tokens /\ \A x \in Seq(SilentTokens) : x \in Seq(Tokens)
  <2>1. SilentTokens \subseteq Tokens
    BY DEF SilentTokens
  <2>. QED
    BY <2>1, SeqWithin
<1>1. << >> \in T
  BY EmptySeq, CarriedByOne, WordsOfJoined
<1>2. ASSUME NEW x \in T, NEW t \in SilentTokens PROVE Append(x, t) \in T
  <2>. DEFINE p == LastOf(q, x)
  <2>1. x \in Seq(Tokens) /\ t \in Tokens /\ Append(x, t) \in Seq(SilentTokens)
        /\ <<t>> \in Seq(Tokens) /\ Append(x, t) = x \o <<t>>
    BY <1>0, AppendProperties, AppendIsConcat
  <2>2. p \in Tokens
    BY <2>1, PrevType
  <2>. HIDE DEF p
  <2>3. FedAt(p, t) = 0 /\ MarkAt(p, t) = << >> /\ WordAt(t) = << >>
    <3>1. t.op \notin {"word", "feed", "nl", "raster", "barcode", "cut"} /\ ~Prints(t)
      BY DEF SilentTokens, Prints
    <3>. QED
      BY <3>1 DEF FedAt, MarkAt, WordAt
  <2>4. FeedsIn(p, <<t>>) = 0 /\ MarksIn(p, <<t>>) = << >> /\ WordsOf(<<t>>) = << >>
    BY <2>1, <2>2, <2>3, CarriedByOne, WordsOfJoined
  <2>5. /\ FeedsIn(q, x \o <<t>>) = FeedsIn(q, x) + FeedsIn(p, <<t>>)
        /\ MarksIn(q, x \o <<t>>) = MarksIn(q, x) \o MarksIn(p, <<t>>)
    BY <2>1, CarriedJoined DEF p
  <2>6. WordsOf(x \o <<t>>) = WordsOf(x) \o WordsOf(<<t>>)
    BY <2>1, WordsOfJoined
  <2>7. FeedsIn(q, x) = 0 /\ MarksIn(q, x) = << >> /\ WordsOf(x) = << >>
    OBVIOUS
  <2>8. << >> \o << >> = << >>
    OBVIOUS
  <2>9. Good(Append(x, t))
    BY <2>1, <2>4, <2>5, <2>6, <2>7, <2>8
  <2>. HIDE DEF Good
  <2>. QED
    BY <2>1, <2>9
<1>3. T \in SUBSET Seq(SilentTokens)
  OBVIOUS
<1>4. \A x \in T : Good(x)
  OBVIOUS
<1>. HIDE DEF T, Good
<1>5. T = Seq(SilentTokens)
  BY <1>1, <1>2, <1>3, EverySequence
<1>. QED
  BY <1>0, <1>4, <1>5 DEF Good

\* A stream that carries words, feeds and marks and leaves nothing open,
\* wherever it comes after such a one.
Carries(s, words, fed, marks) ==
  /\ s \in Seq(Tokens) /\ WordsOf(s) = words
  /\ \A q \in Tokens : Rests(q) => /\ FeedsIn(q, s) = fed /\ MarksIn(q, s) = marks
                                   /\ Rests(LastOf(q, s))

\* Silent tokens around it add nothing.
LEMMA SilentBefore ==
  ASSUME NEW a \in Seq(SilentTokens), NEW s, NEW words \in Seq(NamedWords), NEW fed \in Int,
         NEW marks \in Seq(MarkSet), Carries(s, words, fed, marks),
         \A i \in 1 .. Len(a) : ~Stores(a[i])
  PROVE  Carries(a \o s, words, fed, marks) /\ Carries(s \o a, words, fed, marks)
<1>1. /\ s \in Seq(Tokens) /\ WordsOf(s) = words
      /\ \A q \in Tokens : Rests(q) => /\ FeedsIn(q, s) = fed /\ MarksIn(q, s) = marks
                                       /\ Rests(LastOf(q, s))
  BY DEF Carries
<1>2. a \in Seq(Tokens) /\ WordsOf(a) = << >>
  <2>1. Command("init") \in Tokens
    BY DEF Command, Tokens, SettingTokens
  <2>. QED
    BY <2>1, SilentCarries
<1>3. \A q \in Tokens : Rests(q) => Rests(LastOf(q, a))
  <2>. SUFFICES ASSUME NEW q \in Tokens, Rests(q) PROVE Rests(LastOf(q, a))
    OBVIOUS
  <2>1. CASE a = << >>
    BY <2>1 DEF LastOf
  <2>2. CASE a # << >>
    <3>1. Len(a) \in 1 .. Len(a)
      BY <2>2, LenProperties, EmptySeq
    <3>2. a[Len(a)] \in SilentTokens /\ ~Stores(a[Len(a)])
      BY <3>1, ElementOfSeq
    <3>3. \A t \in SilentTokens : ~Inline(t)
      BY DEF SilentTokens, Inline
    <3>. QED
      BY <2>2, <3>2, <3>3 DEF LastOf, Rests
  <2>. QED
    BY <2>1, <2>2
<1>4. a \o s \in Seq(Tokens) /\ s \o a \in Seq(Tokens)
  BY <1>1, <1>2, ConcatProperties
<1>5. WordsOf(a \o s) = words /\ WordsOf(s \o a) = words
  <2>1. WordsOf(a \o s) = << >> \o words /\ WordsOf(s \o a) = words \o << >>
    BY <1>1, <1>2, WordsOfJoined
  <2>. QED
    BY <2>1, ConcatEmptySeq
<1>6. ASSUME NEW q \in Tokens, Rests(q)
      PROVE  /\ FeedsIn(q, a \o s) = fed /\ MarksIn(q, a \o s) = marks /\ Rests(LastOf(q, a \o s))
             /\ FeedsIn(q, s \o a) = fed /\ MarksIn(q, s \o a) = marks /\ Rests(LastOf(q, s \o a))
  <2>. DEFINE p == LastOf(q, a)
              r == LastOf(q, s)
  <2>1. p \in Tokens /\ r \in Tokens
    BY <1>1, <1>2, PrevType
  <2>2. Rests(p) /\ Rests(r)
    BY <1>1, <1>3, <1>6
  <2>3. /\ FeedsIn(q, a) = 0 /\ MarksIn(q, a) = << >>
        /\ FeedsIn(r, a) = 0 /\ MarksIn(r, a) = << >>
    BY <2>1, SilentCarries
  <2>4. /\ FeedsIn(q, a \o s) = FeedsIn(q, a) + FeedsIn(p, s)
        /\ MarksIn(q, a \o s) = MarksIn(q, a) \o MarksIn(p, s)
        /\ LastOf(q, a \o s) = LastOf(p, s)
    BY <1>1, <1>2, CarriedJoined
  <2>5. /\ FeedsIn(q, s \o a) = FeedsIn(q, s) + FeedsIn(r, a)
        /\ MarksIn(q, s \o a) = MarksIn(q, s) \o MarksIn(r, a)
        /\ LastOf(q, s \o a) = LastOf(r, a)
    BY <1>1, <1>2, CarriedJoined
  <2>. HIDE DEF p, r
  <2>6. FeedsIn(p, s) = fed /\ MarksIn(p, s) = marks /\ Rests(LastOf(p, s))
        /\ FeedsIn(q, s) = fed /\ MarksIn(q, s) = marks /\ Rests(LastOf(r, a))
    BY <1>1, <1>3, <1>6, <2>1, <2>2
  <2>7. << >> \o marks = marks /\ marks \o << >> = marks /\ 0 + fed = fed /\ fed + 0 = fed
    BY ConcatEmptySeq
  <2>. QED
    BY <2>3, <2>4, <2>5, <2>6, <2>7
<1>. QED
  BY <1>4, <1>5, <1>6 DEF Carries

\* One token.
LEMMA OneCarries ==
  ASSUME NEW t \in Tokens, Rests(t)
  PROVE  Carries(<<t>>, WordAt(t), FedAt(Command("init"), t), MarkAt(Command("init"), t))
<1>. DEFINE start == Command("init")
<1>1. Rests(start)
  BY DEF Rests, Inline, Stores, Command
<1>. HIDE DEF start
<1>2. <<t>> \in Seq(Tokens) /\ WordsOf(<<t>>) = WordAt(t)
  BY WordsOfJoined
<1>3. ASSUME NEW q \in Tokens, Rests(q)
      PROVE  /\ FeedsIn(q, <<t>>) = FedAt(start, t) /\ MarksIn(q, <<t>>) = MarkAt(start, t)
             /\ Rests(LastOf(q, <<t>>))
  <2>1. FedAt(q, t) = FedAt(start, t) /\ MarkAt(q, t) = MarkAt(start, t)
    BY <1>1, <1>3 DEF FedAt, MarkAt, Rests
  <2>. QED
    BY <2>1, CarriedByOne
<1>. QED
  BY <1>2, <1>3 DEF Carries, start

\* The lines of a text or a row.
LEMMA LinesCarry ==
  ASSUME NEW cells \in Seq(Seq(CellTokens))
  PROVE  Carries(Block(cells), CellWords(cells), BlankLines(cells), << >>)
<1>1. Command("init") \in Tokens /\ Rests(Command("init"))
  BY DEF Command, Tokens, SettingTokens, Rests, Inline, Stores
<1>2. Block(cells) \in Seq(Tokens) /\ WordsOf(Block(cells)) = CellWords(cells)
  BY <1>1, BlockCarries
<1>3. ASSUME NEW q \in Tokens, Rests(q)
      PROVE  /\ FeedsIn(q, Block(cells)) = BlankLines(cells) /\ MarksIn(q, Block(cells)) = << >>
             /\ Rests(LastOf(q, Block(cells)))
  BY <1>3, BlockCarries
<1>. QED
  BY <1>2, <1>3 DEF Carries

\* Their contents are words, a number and marks.
LEMMA LinesType ==
  ASSUME NEW cells \in Seq(Seq(CellTokens))
  PROVE  CellWords(cells) \in Seq(NamedWords) /\ BlankLines(cells) \in Int
<1>1. << >> \in Seq(CellTokens)
  BY EmptySeq
<1>. QED
  BY <1>1, BlockAppend

\* A text is written with its words and its empty lines.
LEMMA TextWritten ==
  ASSUME NEW width \in Widths, NEW e \in TextElements, Ordered(FlattenSeq(e.lines))
  PROVE  \E words \in Seq(NamedWords) :
           /\ SameInk(words, FlattenSeq(e.lines)) /\ Ordered(words)
           /\ Carries(EncodeText(e, width), words, BlankLines(e.lines), << >>)
<1>. DEFINE lines == WrapText(e.lines, Columns(width))
            cells == [i \in 1 .. Len(lines) |-> WordTokens(lines[i])]
            s == [i \in 1 .. Len(lines) |-> Append(WordTokens(lines[i]), NewLine)]
            t == Setting("align", AlignmentCode(e.align))
            u == Setting("bold", IF e.bold THEN 1 ELSE 0)
            v == Setting("bold", 0)
<1>0. e.lines \in Seq(Seq(NamedWords)) /\ e.align \in Alignments /\ e.bold \in BOOLEAN
  BY DEF TextElements
<1>1. Columns(width) \in Nat /\ Columns(width) > 0
  BY DEF Columns
<1>2. /\ lines \in Seq(Seq(NamedWords)) /\ SameInk(FlattenSeq(lines), FlattenSeq(e.lines))
      /\ Ordered(FlattenSeq(lines)) /\ BlankLines(lines) = BlankLines(e.lines)
  BY <1>0, <1>1, WrapTextKeeps
<1>3. EncodeText(e, width) = <<t, u>> \o FlattenSeq(s) \o <<v>>
  BY DEF EncodeText
<1>4. t \in SilentTokens /\ u \in SilentTokens /\ v \in SilentTokens
      /\ ~Stores(t) /\ ~Stores(u) /\ ~Stores(v)
  <2>1. AlignmentCode(e.align) \in 0 .. 2
    BY <1>0 DEF AlignmentCode, Alignments
  <2>2. t \in Tokens /\ t.op = "align"
    BY <2>1 DEF Setting, Tokens, SettingTokens
  <2>3. u \in Tokens /\ u.op = "bold" /\ v \in Tokens /\ v.op = "bold"
    BY DEF Setting, Tokens, SettingTokens
  <2>. HIDE DEF t, u, v
  <2>. QED
    BY <2>2, <2>3 DEF SilentTokens, Stores
<1>. HIDE DEF lines, t, u, v
<1>5. Len(lines) \in Nat /\ \A i \in 1 .. Len(lines) : lines[i] \in Seq(NamedWords)
  BY <1>2, LenProperties, ElementOfSeq
<1>6. \A i \in 1 .. Len(lines) : /\ WordTokens(lines[i]) \in Seq(CellTokens)
                                 /\ WordsOf(WordTokens(lines[i])) = lines[i]
                                 /\ (WordTokens(lines[i]) = << >> <=> lines[i] = << >>)
  <2>. SUFFICES ASSUME NEW i \in 1 .. Len(lines)
                PROVE  /\ WordTokens(lines[i]) \in Seq(CellTokens)
                       /\ WordsOf(WordTokens(lines[i])) = lines[i]
                       /\ (WordTokens(lines[i]) = << >> <=> lines[i] = << >>)
    OBVIOUS
  <2>1. lines[i] \in Seq(NamedWords)
    BY <1>5
  <2>2. WordTokens(lines[i]) \in Seq(CellTokens)
    BY <2>1, WordTokensFacts, PiecesAreTokens, SeqWithin
  <2>. QED
    BY <2>1, <2>2, WordTokensFacts
<1>7. cells \in Seq(Seq(CellTokens)) /\ Len(cells) = Len(lines)
      /\ \A i \in 1 .. Len(lines) : cells[i] = WordTokens(lines[i])
  BY <1>5, <1>6
<1>8. s = [i \in 1 .. Len(cells) |-> Append(cells[i], NewLine)]
  BY <1>7
<1>9. CellWords(cells) = FlattenSeq(lines)
  <2>1. [i \in 1 .. Len(cells) |-> WordsOf(cells[i])] = [i \in 1 .. Len(lines) |-> lines[i]]
    BY <1>6, <1>7
  <2>2. lines = [i \in 1 .. Len(lines) |-> lines[i]]
    BY <1>2
  <2>. QED
    BY <2>1, <2>2 DEF CellWords
<1>10. BlankLines(cells) = BlankLines(lines)
  <2>1. [i \in 1 .. Len(cells) |-> IF cells[i] = << >> THEN 1 ELSE 0]
          = [i \in 1 .. Len(lines) |-> IF lines[i] = << >> THEN 1 ELSE 0]
    BY <1>6, <1>7
  <2>. QED
    BY <2>1 DEF BlankLines
<1>11. FlattenSeq(s) = Block(cells)
  BY <1>8 DEF Block
<1>. HIDE DEF cells, s
<1>12. CellWords(cells) \in Seq(NamedWords) /\ BlankLines(cells) \in Int /\ << >> \in Seq(MarkSet)
  BY <1>7, LinesType, EmptySeq
<1>13. Carries(Block(cells), CellWords(cells), BlankLines(cells), << >>)
  BY <1>7, LinesCarry
<1>14. <<t, u>> \in Seq(SilentTokens) /\ <<v>> \in Seq(SilentTokens)
       /\ (\A i \in 1 .. Len(<<t, u>>) : ~Stores(<<t, u>>[i]))
       /\ \A i \in 1 .. Len(<<v>>) : ~Stores(<<v>>[i])
  BY <1>4
<1>15. Carries(<<t, u>> \o Block(cells), CellWords(cells), BlankLines(cells), << >>)
  BY <1>12, <1>13, <1>14, SilentBefore
<1>16. Carries((<<t, u>> \o Block(cells)) \o <<v>>, CellWords(cells), BlankLines(cells), << >>)
  BY <1>12, <1>14, <1>15, SilentBefore
<1>17. Carries(EncodeText(e, width), CellWords(cells), BlankLines(e.lines), << >>)
  BY <1>2, <1>3, <1>10, <1>11, <1>16
<1>. QED
  BY <1>2, <1>9, <1>12, <1>17

\* The identities of the two columns of a row.
Beside(a, b) == \A x \in Ids(a), y \in Ids(b) : x[1] = y[1] /\ x[2] # y[2]

\* A row is written with its words.
LEMMA RowWritten ==
  ASSUME NEW width \in Widths, NEW e \in RowElements,
         Ordered(WordsOf(e.left)), Ordered(WordsOf(e.right)), Beside(WordsOf(e.left), WordsOf(e.right))
  PROVE  \E words \in Seq(NamedWords) :
           /\ SameInk(words, WordsOf(e.left) \o WordsOf(e.right)) /\ Ordered(words)
           /\ Carries(EncodeRow(e, width), words, 0, << >>)
<1>. DEFINE lines == LayoutRow(e.left, e.right, Columns(width))
            rows == ColumnWords(lines)
            cell(i) == lines[i].left \o <<Spaces(lines[i].spaces)>> \o lines[i].right
            cells == [i \in 1 .. Len(lines) |-> cell(i)]
            s == [i \in 1 .. Len(lines) |->
                   lines[i].left \o <<Spaces(lines[i].spaces)>> \o lines[i].right \o <<NewLine>>]
            t == Setting("align", 0)
            a == WordsOf(e.left)
            b == WordsOf(e.right)
<1>0. e.left \in Seq(CellTokens) /\ e.right \in Seq(CellTokens)
  BY DEF RowElements
<1>1. a \in Seq(NamedWords) /\ b \in Seq(NamedWords)
  BY <1>0, PiecesAreTokens, SeqWithin, WordsOfJoined
<1>2. /\ rows \in Seq(RowLineSet)
      /\ SameInk(Lefts(rows), a) /\ Ordered(Lefts(rows))
      /\ SameInk(Rights(rows), b) /\ Ordered(Rights(rows))
  BY <1>0, LayoutRowKeeps
<1>3. EncodeRow(e, width) = <<t>> \o FlattenSeq(s)
  BY DEF EncodeRow
<1>4. t \in SilentTokens /\ ~Stores(t)
  <2>1. t \in Tokens /\ t.op = "align"
    BY DEF Setting, Tokens, SettingTokens
  <2>. HIDE DEF t
  <2>. QED
    BY <2>1 DEF SilentTokens, Stores
<1>5. /\ Len(lines) \in Nat
      /\ \A i \in 1 .. Len(lines) : lines[i].left \in Seq(CellTokens)
           /\ lines[i].right \in Seq(CellTokens) /\ lines[i].spaces \in Nat \ {0}
  BY <1>0, KeptPieces, LayoutRowLines
<1>. HIDE DEF lines, t, a, b
<1>6. ASSUME NEW i \in 1 .. Len(lines)
      PROVE  /\ cell(i) \in Seq(CellTokens) /\ cell(i) # << >>
             /\ Append(cell(i), NewLine) = cell(i) \o <<NewLine>>
             /\ WordsOf(cell(i)) = WordsOf(lines[i].left) \o WordsOf(lines[i].right)
  <2>. DEFINE l == lines[i].left
              g == Spaces(lines[i].spaces)
              r == lines[i].right
  <2>1. l \in Seq(CellTokens) /\ r \in Seq(CellTokens) /\ g \in CellTokens /\ g.op = "spaces"
    BY <1>5, PieceFacts, PiecesAreTokens
  <2>. HIDE DEF l, g, r
  <2>2. <<g>> \in Seq(CellTokens) /\ l \o <<g>> \in Seq(CellTokens)
        /\ (l \o <<g>>) \o r \in Seq(CellTokens)
    BY <2>1, ConcatProperties
  <2>3. l \in Seq(Tokens) /\ r \in Seq(Tokens) /\ <<g>> \in Seq(Tokens) /\ l \o <<g>> \in Seq(Tokens)
        /\ (l \o <<g>>) \o r \in Seq(Tokens) /\ g \in Tokens
    BY <2>1, <2>2, PiecesAreTokens, SeqWithin
  <2>4. (l \o <<g>>) \o r # << >>
    <3>1. Len(l) \in Nat /\ Len(r) \in Nat /\ Len(l \o <<g>>) = Len(l) + 1
          /\ Len((l \o <<g>>) \o r) = Len(l) + 1 + Len(r)
      BY <2>1, <2>2, LenProperties, ConcatProperties
    <3>. QED
      BY <3>1
  <2>5. WordsOf((l \o <<g>>) \o r) = (WordsOf(l) \o WordsOf(<<g>>)) \o WordsOf(r)
    BY <2>3, WordsOfJoined
  <2>6. WordsOf(<<g>>) = << >> /\ WordsOf(l) \in Seq(NamedWords)
    <3>1. WordAt(g) = << >>
      BY <2>1 DEF WordAt
    <3>. QED
      BY <2>3, <3>1, WordsOfJoined
  <2>7. WordsOf(l) \o << >> = WordsOf(l)
    BY <2>6, ConcatEmptySeq
  <2>8. Append((l \o <<g>>) \o r, NewLine) = ((l \o <<g>>) \o r) \o <<NewLine>>
    BY <2>3, PiecesAreTokens, AppendIsConcat
  <2>. QED
    BY <2>2, <2>4, <2>5, <2>6, <2>7, <2>8 DEF l, g, r
<1>. HIDE DEF cell
<1>7. cells \in Seq(Seq(CellTokens)) /\ Len(cells) = Len(lines)
      /\ \A i \in 1 .. Len(lines) : cells[i] = cell(i)
  BY <1>5, <1>6
<1>8. s = [i \in 1 .. Len(cells) |-> Append(cells[i], NewLine)]
  <2>1. \A i \in 1 .. Len(lines) :
          lines[i].left \o <<Spaces(lines[i].spaces)>> \o lines[i].right \o <<NewLine>>
            = Append(cell(i), NewLine)
    BY <1>6 DEF cell
  <2>. QED
    BY <1>7, <2>1
<1>9. CellWords(cells) = RowWords(rows)
  <2>1. Len(rows) = Len(lines)
        /\ \A i \in 1 .. Len(lines) : rows[i].left = WordsOf(lines[i].left)
                                      /\ rows[i].right = WordsOf(lines[i].right)
    BY <1>5 DEF ColumnWords
  <2>. HIDE DEF rows, cells
  <2>2. [i \in 1 .. Len(cells) |-> WordsOf(cells[i])]
          = [i \in 1 .. Len(rows) |-> rows[i].left \o rows[i].right]
    BY <1>6, <1>7, <2>1
  <2>. QED
    BY <2>2 DEF CellWords, RowWords
<1>10. BlankLines(cells) = 0
  <2>1. [i \in 1 .. Len(cells) |-> IF cells[i] = << >> THEN 1 ELSE 0] = [i \in 1 .. Len(lines) |-> 0]
    BY <1>6, <1>7
  <2>2. SumOf([i \in 1 .. Len(lines) |-> 0]) = Len(lines) * 0
    BY <1>5, SumOfEqual
  <2>3. Len(lines) * 0 = 0
    BY <1>5
  <2>. QED
    BY <2>1, <2>2, <2>3 DEF BlankLines
<1>11. FlattenSeq(s) = Block(cells)
  BY <1>8 DEF Block
<1>. HIDE DEF cells, s, rows
<1>12. CellWords(cells) \in Seq(NamedWords) /\ << >> \in Seq(MarkSet) /\ 0 \in Int
  BY <1>7, LinesType, EmptySeq
<1>13. Carries(Block(cells), CellWords(cells), 0, << >>)
  BY <1>7, <1>10, LinesCarry
<1>14. <<t>> \in Seq(SilentTokens) /\ \A i \in 1 .. Len(<<t>>) : ~Stores(<<t>>[i])
  BY <1>4
<1>15. Carries(<<t>> \o Block(cells), CellWords(cells), 0, << >>)
  BY <1>12, <1>13, <1>14, SilentBefore
<1>16. Ids(Lefts(rows)) = Ids(a) /\ Ids(Rights(rows)) = Ids(b)
  BY <1>2 DEF SameInk
<1>17. \A x \in Ids(Lefts(rows)), y \in Ids(Rights(rows)) : x[1] = y[1] /\ x[2] # y[2]
  BY <1>16 DEF Beside, a, b
<1>18. SameInk(RowWords(rows), Lefts(rows) \o Rights(rows)) /\ Ordered(RowWords(rows))
  BY <1>2, <1>17, RowsMixed
<1>19. Lefts(rows) \in Seq(NamedWords) /\ Rights(rows) \in Seq(NamedWords)
  <2>1. [left |-> << >>, right |-> << >>] \in RowLineSet
    BY EmptySeq DEF RowLineSet
  <2>. QED
    BY <1>2, <2>1, RowsAppend
<1>20. SameInk(Lefts(rows) \o Rights(rows), a \o b)
  BY <1>1, <1>2, <1>19, SameInkJoined
<1>21. SameInk(RowWords(rows), a \o b)
  BY <1>18, <1>20 DEF SameInk
<1>. QED
  BY <1>3, <1>9, <1>11, <1>12, <1>15, <1>18, <1>21 DEF a, b

\* A divider is written with its dashes.
LEMMA DividerWritten ==
  ASSUME NEW w \in NamedWords
  PROVE  Carries(<<Word(w), NewLine>>, <<w>>, 0, << >>)
<1>. DEFINE t == Word(w)
            cell == <<t>>
<1>1. t \in CellTokens /\ WordAt(t) = <<w>> /\ t \in Tokens
  BY PieceFacts, PiecesAreTokens DEF WordAt
<1>2. <<t, NewLine>> = Append(cell, NewLine)
  OBVIOUS
<1>. HIDE DEF t
<1>3. cell \in Seq(CellTokens) /\ cell # << >> /\ WordsOf(cell) = <<w>>
  BY <1>1, WordsOfJoined
<1>. HIDE DEF cell
<1>4. Rests(NewLine)
  BY DEF Rests, Inline, Stores, NewLine
<1>5. ASSUME NEW q \in Tokens, Rests(q)
      PROVE  LET line == Append(cell, NewLine)
             IN  /\ line \in Seq(Tokens) /\ WordsOf(line) = <<w>> /\ FeedsIn(q, line) = 0
                 /\ MarksIn(q, line) = << >> /\ Rests(LastOf(q, line))
  BY <1>3, <1>4, <1>5, LineCarries
<1>6. Command("init") \in Tokens /\ Rests(Command("init"))
  BY DEF Command, Tokens, SettingTokens, Rests, Inline, Stores
<1>7. Carries(Append(cell, NewLine), <<w>>, 0, << >>)
  BY <1>5, <1>6 DEF Carries
<1>. QED
  BY <1>2, <1>7 DEF t

\* An image is written as it is.
LEMMA ImageWritten ==
  ASSUME NEW e \in ImageElements, SmallImage(e)
  PROVE  Carries(EncodeImage(e), << >>, 0, << <<"image", e.stride, e.height>> >>)
<1>. DEFINE row == e.stride
            height == e.height
            t == [op |-> "raster", low |-> LowByte(row), high |-> HighByte(row),
                  heightLow |-> LowByte(height), heightHigh |-> HighByte(height),
                  payload |-> row * height, at |-> e.at]
<1>1. row \in Nat /\ row <= 65535 /\ height \in Nat /\ height <= 65535
  BY DEF SmallImage
<1>2. EncodeImage(e) = <<t>>
  BY DEF EncodeImage
<1>3. t \in Tokens
  <2>1. EncodeImage(e) \in Seq(Tokens)
    BY ImageEncoded
  <2>2. <<t>> \in Seq(Tokens) /\ Len(<<t>>) = 1 /\ <<t>>[1] = t
    BY <1>2, <2>1
  <2>. QED
    BY <2>2, ElementOfSeq
<1>. HIDE DEF row, height
<1>4. /\ t.op = "raster" /\ t.low = LowByte(row) /\ t.high = HighByte(row)
      /\ t.heightLow = LowByte(height) /\ t.heightHigh = HighByte(height)
  OBVIOUS
<1>. HIDE DEF t
<1>5. t.low + 256 * t.high = row /\ t.heightLow + 256 * t.heightHigh = height
  BY <1>1, <1>4, BytesRead
<1>6. Rests(t) /\ WordAt(t) = << >> /\ FedAt(Command("init"), t) = 0
      /\ MarkAt(Command("init"), t) = << <<"image", row, height>> >>
  BY <1>4, <1>5 DEF Rests, Inline, Stores, WordAt, FedAt, MarkAt, Prints
<1>. QED
  BY <1>2, <1>3, <1>6, OneCarries DEF row, height

\* So is a QR code.
LEMMA QrWritten ==
  ASSUME NEW e \in QrSections
  PROVE  Carries(EncodeQr(e), << >>, 0, << <<"qr", e>> >>)
<1>. DEFINE n == e.bytes + 3
            bare == QrFunction("store", n, n)
            store == [bare EXCEPT !.stored = <<e>>]
            model == QrFunction("model", 4, 4)
            size == QrFunction("size", 3, 3)
            level == QrFunction("level", 3, 3)
            print == QrFunction("print", 3, 3)
            a == <<model, size, level, store>>
            b == <<print>>
            mark == << <<"qr", e>> >>
<1>1. EncodeQr(e) = a \o b
  BY DEF EncodeQr
<1>2. /\ model.op = "qr" /\ size.op = "qr" /\ level.op = "qr" /\ store.op = "qr" /\ print.op = "qr"
      /\ model.function = "model" /\ size.function = "size" /\ level.function = "level"
      /\ store.function = "store" /\ print.function = "print" /\ store.stored = <<e>>
  BY DEF QrFunction
<1>3. model \in Tokens /\ size \in Tokens /\ level \in Tokens /\ store \in Tokens /\ print \in Tokens
  <2>1. EncodeQr(e) \in Seq(Tokens)
    BY QrEncoded
  <2>2. EncodeQr(e) = <<model, size, level, store, print>>
    BY DEF EncodeQr
  <2>. DEFINE s == <<model, size, level, store, print>>
  <2>3. Len(s) = 5 /\ s[1] = model /\ s[2] = size /\ s[3] = level /\ s[4] = store /\ s[5] = print
    OBVIOUS
  <2>4. s \in Seq(Tokens)
    BY <2>1, <2>2
  <2>. HIDE DEF s, model, size, level, store, print
  <2>5. \A i \in 1 .. 5 : s[i] \in Tokens
    BY <2>3, <2>4, ElementOfSeq
  <2>6. 1 \in 1 .. 5 /\ 2 \in 1 .. 5 /\ 3 \in 1 .. 5 /\ 4 \in 1 .. 5 /\ 5 \in 1 .. 5
    OBVIOUS
  <2>. QED
    BY <2>3, <2>5, <2>6
<1>. HIDE DEF n, bare, model, size, level, store, print
<1>4. a \in Seq(SilentTokens)
  <2>1. model \in SilentTokens /\ size \in SilentTokens /\ level \in SilentTokens /\ store \in SilentTokens
    BY <1>2, <1>3 DEF SilentTokens, Prints
  <2>. QED
    BY <2>1
<1>5. a # << >> /\ Len(a) = 4 /\ a[4] = store
  OBVIOUS
<1>6. Stores(store) /\ Prints(print) /\ Rests(print)
  BY <1>2 DEF Stores, Prints, Rests, Inline
<1>7. FedAt(store, print) = 0 /\ MarkAt(store, print) = mark /\ WordAt(print) = << >>
  <2>1. store.stored # << >> /\ store.stored[1] = e
    BY <1>2
  <2>2. print.op \notin {"raster", "barcode", "cut", "feed", "nl", "word"}
    BY <1>2
  <2>3. MarkAt(store, print) = << <<"qr", store.stored[1]>> >>
    BY <1>6, <2>1, <2>2 DEF MarkAt
  <2>. QED
    BY <2>1, <2>2, <2>3 DEF FedAt, WordAt
<1>. HIDE DEF a
<1>8. a \in Seq(Tokens) /\ WordsOf(a) = << >>
  <2>1. Command("init") \in Tokens
    BY DEF Command, Tokens, SettingTokens
  <2>. QED
    BY <1>4, <2>1, SilentCarries
<1>9. b \in Seq(Tokens) /\ WordsOf(b) = << >>
  BY <1>3, <1>7, WordsOfJoined
<1>10. a \o b \in Seq(Tokens) /\ WordsOf(a \o b) = << >>
  <2>1. << >> \o << >> = << >>
    OBVIOUS
  <2>. QED
    BY <1>8, <1>9, <2>1, WordsOfJoined, ConcatProperties
<1>11. mark \in Seq(MarkSet)
  BY <1>3, <1>7, CarriedType
<1>12. FeedsIn(store, b) = 0 /\ MarksIn(store, b) = mark /\ LastOf(store, b) = print
  BY <1>3, <1>7, CarriedByOne
<1>. HIDE DEF mark, b
<1>13. ASSUME NEW q \in Tokens, Rests(q)
       PROVE  /\ FeedsIn(q, a \o b) = 0 /\ MarksIn(q, a \o b) = mark /\ Rests(LastOf(q, a \o b))
  <2>1. FeedsIn(q, a) = 0 /\ MarksIn(q, a) = << >>
    BY <1>4, SilentCarries
  <2>2. LastOf(q, a) = store
    BY <1>5 DEF LastOf
  <2>3. /\ FeedsIn(q, a \o b) = FeedsIn(q, a) + FeedsIn(store, b)
        /\ MarksIn(q, a \o b) = MarksIn(q, a) \o MarksIn(store, b)
        /\ LastOf(q, a \o b) = LastOf(store, b)
    BY <1>8, <1>9, <2>2, CarriedJoined
  <2>4. << >> \o mark = mark
    BY <1>11, ConcatEmptySeq
  <2>. QED
    BY <1>6, <1>12, <2>1, <2>3, <2>4
<1>14. Carries(a \o b, << >>, 0, mark)
  BY <1>10, <1>13 DEF Carries
<1>. QED
  BY <1>1, <1>14 DEF mark

\* So is a bar code.
LEMMA BarcodeWritten ==
  ASSUME NEW e \in BarcodeElements
  PROVE  Carries(EncodeBarcode(e), << >>, 0, << <<"barcode", e>> >>)
<1>. DEFINE hri == Setting("hri", IF e.readable THEN 2 ELSE 0)
            height == Setting("height", e.height)
            code == [op |-> "barcode", length |-> BarcodePayload(e), payload |-> BarcodePayload(e),
                     value |-> e]
            mark == << <<"barcode", e>> >>
<1>1. EncodeBarcode(e) = <<hri, height>> \o <<code>>
  BY DEF EncodeBarcode
<1>2. hri.op = "hri" /\ height.op = "height" /\ code.op = "barcode" /\ code.value = e
  BY DEF Setting
<1>3. hri \in Tokens /\ height \in Tokens /\ code \in Tokens
  <2>1. EncodeBarcode(e) \in Seq(Tokens)
    BY BarcodeEncoded
  <2>2. EncodeBarcode(e) = <<hri, height, code>>
    BY DEF EncodeBarcode
  <2>. DEFINE s == <<hri, height, code>>
  <2>3. Len(s) = 3 /\ s[1] = hri /\ s[2] = height /\ s[3] = code
    OBVIOUS
  <2>4. s \in Seq(Tokens)
    BY <2>1, <2>2
  <2>. HIDE DEF s, hri, height, code
  <2>5. \A i \in 1 .. 3 : s[i] \in Tokens
    BY <2>3, <2>4, ElementOfSeq
  <2>6. 1 \in 1 .. 3 /\ 2 \in 1 .. 3 /\ 3 \in 1 .. 3
    OBVIOUS
  <2>. QED
    BY <2>3, <2>5, <2>6
<1>. HIDE DEF hri, height, code
<1>4. hri \in SilentTokens /\ height \in SilentTokens /\ ~Stores(hri) /\ ~Stores(height)
  BY <1>2, <1>3 DEF SilentTokens, Stores
<1>5. <<hri, height>> \in Seq(SilentTokens) /\ \A i \in 1 .. Len(<<hri, height>>) : ~Stores(<<hri, height>>[i])
  BY <1>4
<1>6. Rests(code) /\ WordAt(code) = << >> /\ FedAt(Command("init"), code) = 0
      /\ MarkAt(Command("init"), code) = mark
  BY <1>2 DEF Rests, Inline, Stores, WordAt, FedAt, MarkAt, Prints
<1>. HIDE DEF mark
<1>7. Carries(<<code>>, << >>, 0, mark)
  BY <1>3, <1>6, OneCarries
<1>8. mark \in Seq(MarkSet) /\ << >> \in Seq(NamedWords)
  <2>1. Command("init") \in Tokens
    BY DEF Command, Tokens, SettingTokens
  <2>. QED
    BY <1>3, <1>6, <2>1, CarriedType, EmptySeq
<1>. DEFINE a == <<hri, height>>
            b == <<code>>
<1>9. a \in Seq(SilentTokens) /\ (\A i \in 1 .. Len(a) : ~Stores(a[i])) /\ Carries(b, << >>, 0, mark)
      /\ 0 \in Int
  BY <1>5, <1>7
<1>. HIDE DEF a, b
<1>10. Carries(a \o b, << >>, 0, mark)
  BY <1>8, <1>9, SilentBefore
<1>. QED
  BY <1>1, <1>10 DEF mark, a, b

\* So are feeds and cuts.
LEMMA SettingWritten ==
  ASSUME NEW n \in Nat
  PROVE  /\ Carries(<<Setting("feed", n)>>, << >>, n, << >>)
         /\ Carries(<<Setting("cut", n)>>, << >>, 0, << <<"cut">> >>)
<1>. DEFINE t == Setting("feed", n)
            u == Setting("cut", n)
<1>1. t \in Tokens /\ u \in Tokens /\ t.op = "feed" /\ t.value = n /\ u.op = "cut"
  BY DEF Setting, Tokens, SettingTokens
<1>. HIDE DEF t, u
<1>2. /\ Rests(t) /\ WordAt(t) = << >> /\ FedAt(Command("init"), t) = n /\ MarkAt(Command("init"), t) = << >>
      /\ Rests(u) /\ WordAt(u) = << >> /\ FedAt(Command("init"), u) = 0
      /\ MarkAt(Command("init"), u) = << <<"cut">> >>
  BY <1>1 DEF Rests, Inline, Stores, WordAt, FedAt, MarkAt, Prints
<1>3. Carries(<<t>>, << >>, n, << >>)
  BY <1>1, <1>2, OneCarries
<1>4. Carries(<<u>>, << >>, 0, << <<"cut">> >>)
  BY <1>1, <1>2, OneCarries
<1>. QED
  BY <1>3, <1>4 DEF t, u

\* An element as a document has them: its words in order, those of the two
\* columns of a row beside each other, a bar code of the default height with
\* its human-readable line.
Tidy(e) ==
  /\ Ordered(Words(e))
  /\ e.kind = "row" => Beside(WordsOf(e.left), WordsOf(e.right))
  /\ e.kind = "barcode" => e.height = 80 /\ e.readable = TRUE

\* The encoder writes the contents of an element, whatever it is.
LEMMA ElementWritten ==
  ASSUME NEW width \in Widths, NEW e, Encodable(e), Tidy(e)
  PROVE  \E words \in Seq(NamedWords) :
           /\ SameInk(words, Words(e)) /\ Ordered(words)
           /\ Carries(EncodeElement(e, width), words, Fed(e), Mark(e))
<1>0. e \in LayoutElements
  BY DEF Encodable
<1>. DEFINE Goal == \E words \in Seq(NamedWords) :
                      /\ SameInk(words, Words(e)) /\ Ordered(words)
                      /\ Carries(EncodeElement(e, width), words, Fed(e), Mark(e))
<1>9. ASSUME e.kind \notin {"text", "row", "divider"},
             Carries(EncodeElement(e, width), << >>, Fed(e), Mark(e))
      PROVE  Goal
  <2>1. Words(e) = << >>
    BY <1>9 DEF Words
  <2>2. << >> \in Seq(NamedWords) /\ SameInk(<< >>, << >>) /\ Ordered(<< >>)
    BY EmptySeq DEF SameInk, Ordered
  <2>. QED
    BY <1>9, <2>1, <2>2
<1>1. CASE e.kind = "text"
  <2>1. EncodeElement(e, width) = EncodeText(e, width) /\ e \in TextElements
    BY <1>0, <1>1, ElementFacts DEF EncodeElement
  <2>2. Words(e) = FlattenSeq(e.lines) /\ Fed(e) = BlankLines(e.lines) /\ Mark(e) = << >>
    BY <1>1 DEF Words, Fed, Mark
  <2>3. Ordered(FlattenSeq(e.lines))
    BY <2>2 DEF Tidy
  <2>. QED
    BY <2>1, <2>2, <2>3, TextWritten
<1>2. CASE e.kind = "row"
  <2>1. EncodeElement(e, width) = EncodeRow(e, width) /\ e \in RowElements
    BY <1>0, <1>2, ElementFacts DEF EncodeElement
  <2>2. Words(e) = WordsOf(e.left) \o WordsOf(e.right) /\ Fed(e) = 0 /\ Mark(e) = << >>
    BY <1>2 DEF Words, Fed, Mark
  <2>3. e.left \in Seq(CellTokens) /\ e.right \in Seq(CellTokens)
    BY <2>1 DEF RowElements
  <2>4. WordsOf(e.left) \in Seq(NamedWords) /\ WordsOf(e.right) \in Seq(NamedWords)
    BY <2>3, PiecesAreTokens, SeqWithin, WordsOfJoined
  <2>5. Ordered(WordsOf(e.left)) /\ Ordered(WordsOf(e.right))
    BY <2>2, <2>4, OrderJoined DEF Tidy
  <2>6. Beside(WordsOf(e.left), WordsOf(e.right))
    BY <1>2 DEF Tidy
  <2>. QED
    BY <2>1, <2>2, <2>5, <2>6, RowWritten
<1>3. CASE e.kind = "divider"
  <2>. DEFINE w == e.word
  <2>1. EncodeElement(e, width) = <<Word(w), NewLine>>
    BY <1>3 DEF EncodeElement
  <2>2. w \in NamedWords
    BY <1>0, <1>3, ElementFacts DEF DividerElements
  <2>3. Words(e) = <<w>> /\ Fed(e) = 0 /\ Mark(e) = << >>
    BY <1>3 DEF Words, Fed, Mark
  <2>. HIDE DEF w
  <2>4. <<w>> \in Seq(NamedWords) /\ SameInk(<<w>>, <<w>>)
    BY <2>2 DEF SameInk
  <2>5. Ordered(<<w>>)
    BY <2>3 DEF Tidy
  <2>6. Carries(<<Word(w), NewLine>>, <<w>>, 0, << >>)
    BY <2>2, DividerWritten
  <2>. QED
    BY <2>1, <2>3, <2>4, <2>5, <2>6
<1>4. CASE e.kind = "image"
  <2>1. EncodeElement(e, width) = EncodeImage(e) /\ e \in ImageElements /\ SmallImage(e)
    BY <1>0, <1>4, ElementFacts DEF EncodeElement, Encodable
  <2>2. Fed(e) = 0 /\ Mark(e) = << <<"image", e.stride, e.height>> >>
    BY <1>4 DEF Fed, Mark
  <2>3. Carries(EncodeElement(e, width), << >>, Fed(e), Mark(e))
    BY <2>1, <2>2, ImageWritten
  <2>. QED
    BY <1>4, <1>9, <2>3
<1>5. CASE e.kind = "qr"
  <2>1. EncodeElement(e, width) = EncodeQr(e) /\ e \in QrSections
    BY <1>0, <1>5, ElementFacts DEF EncodeElement
  <2>2. Fed(e) = 0 /\ Mark(e) = << <<"qr", e>> >>
    BY <1>5 DEF Fed, Mark
  <2>3. Carries(EncodeElement(e, width), << >>, Fed(e), Mark(e))
    BY <2>1, <2>2, QrWritten
  <2>. QED
    BY <1>5, <1>9, <2>3
<1>6. CASE e.kind = "barcode"
  <2>1. EncodeElement(e, width) = EncodeBarcode(e) /\ e \in BarcodeElements
    BY <1>0, <1>6, ElementFacts DEF EncodeElement
  <2>2. Fed(e) = 0 /\ Mark(e) = << <<"barcode", e>> >>
    BY <1>6 DEF Fed, Mark
  <2>3. Carries(EncodeElement(e, width), << >>, Fed(e), Mark(e))
    BY <2>1, <2>2, BarcodeWritten
  <2>. QED
    BY <1>6, <1>9, <2>3
<1>7. CASE e.kind = "feed"
  <2>1. EncodeElement(e, width) = <<Setting("feed", e.lines)>> /\ e.lines \in Nat
    BY <1>0, <1>7, ElementFacts DEF EncodeElement, FeedSections
  <2>2. Fed(e) = e.lines /\ Mark(e) = << >>
    BY <1>7 DEF Fed, Mark
  <2>. DEFINE n == e.lines
  <2>4. n \in Nat
    BY <2>1
  <2>. HIDE DEF n
  <2>5. Carries(<<Setting("feed", n)>>, << >>, n, << >>)
    BY <2>4, SettingWritten
  <2>3. Carries(EncodeElement(e, width), << >>, Fed(e), Mark(e))
    BY <2>1, <2>2, <2>5 DEF n
  <2>. QED
    BY <1>7, <1>9, <2>3
<1>8. CASE e.kind = "cut"
  <2>1. EncodeElement(e, width) = <<Setting("cut", 0)>>
    BY <1>8 DEF EncodeElement
  <2>2. Fed(e) = 0 /\ Mark(e) = << <<"cut">> >>
    BY <1>8 DEF Fed, Mark
  <2>4. Carries(<<Setting("cut", 0)>>, << >>, 0, << <<"cut">> >>)
    BY SettingWritten
  <2>3. Carries(EncodeElement(e, width), << >>, Fed(e), Mark(e))
    BY <2>1, <2>2, <2>4
  <2>. QED
    BY <1>8, <1>9, <2>3
<1>. QED
  BY <1>0, <1>1, <1>2, <1>3, <1>4, <1>5, <1>6, <1>7, <1>8, ElementFacts

\* The bar codes of a stream have the interpreter's defaults.
BarTokens ==
  {t \in Tokens : /\ t.op = "height" => t.value = 80
                  /\ t.op = "hri" => t.value # 0
                  /\ t.op = "barcode" => t.value.height = 80 /\ t.value.readable = TRUE}

\* So do those of every element of a document.
LEMMA BarsWritten ==
  ASSUME NEW width \in Widths, NEW e, Encodable(e), Tidy(e)
  PROVE  EncodeElement(e, width) \in Seq(BarTokens)
<1>0. e \in LayoutElements
  BY DEF Encodable
<1>. DEFINE s == EncodeElement(e, width)
<1>1. s \in Seq(Tokens)
  BY ElementEncoded
<1>2. CASE e.kind \in {"text", "row"}
  <2>1. s \in Seq(Known(CellTokens))
    <3>1. CASE e.kind = "text"
      <4>1. s = EncodeText(e, width) /\ e \in TextElements
        BY <1>0, <3>1, ElementFacts DEF EncodeElement
      <4>2. e.lines \in Seq(Seq(NamedWords))
        BY <4>1 DEF TextElements
      <4>. QED
        BY <4>1, <4>2, KeptPieces, TextEncoded
    <3>2. CASE e.kind = "row"
      <4>1. s = EncodeRow(e, width) /\ e \in RowElements
        BY <1>0, <3>2, ElementFacts DEF EncodeElement
      <4>2. e.left \in Seq(CellTokens) /\ e.right \in Seq(CellTokens)
        BY <4>1 DEF RowElements
      <4>. QED
        BY <4>1, <4>2, KeptPieces, RowEncoded
    <3>. QED
      BY <1>2, <3>1, <3>2
  <2>2. Known(CellTokens) \subseteq BarTokens
    <3>1. \A t \in Known(CellTokens) : t.op \notin {"height", "hri", "barcode"}
      BY DEF Known, CellTokens, TextTokens, CellPieces, SpaceTokens, Tab
    <3>. QED
      BY <3>1, KnownFacts DEF BarTokens
  <2>. HIDE DEF s
  <2>3. s \in Seq(BarTokens)
    BY <2>1, <2>2, SeqWithin
  <2>. QED
    BY <2>3 DEF s
<1>3. ASSUME \A i \in 1 .. Len(s) : s[i].op \notin {"height", "hri", "barcode"}
      PROVE  s \in Seq(BarTokens)
  <2>. HIDE DEF s
  <2>1. \A i \in 1 .. Len(s) : s[i] \in Tokens /\ s[i].op \notin {"height", "hri", "barcode"}
    BY <1>1, <1>3, ElementOfSeq
  <2>2. \A i \in 1 .. Len(s) : s[i] \in BarTokens
    BY <2>1 DEF BarTokens
  <2>3. Len(s) \in Nat /\ s = [i \in 1 .. Len(s) |-> s[i]]
    BY <1>1, LenProperties
  <2>. QED
    BY <2>2, <2>3
<1>4. CASE e.kind \in {"divider", "image", "feed", "cut"}
  <2>1. CASE e.kind = "divider"
    <3>1. s = <<Word(e.word), NewLine>>
      BY <2>1 DEF EncodeElement
    <3>2. Len(s) = 2 /\ s[1].op = "word" /\ s[2].op = "nl" /\ \A i \in 1 .. 2 : i = 1 \/ i = 2
      BY <3>1 DEF Word, NewLine
    <3>. HIDE DEF s
    <3>3. \A i \in 1 .. Len(s) : s[i].op \notin {"height", "hri", "barcode"}
      BY <3>2
    <3>. QED
      BY <1>3, <3>3 DEF s
  <2>2. CASE e.kind # "divider"
    <3>1. Len(s) = 1 /\ s[1].op \in {"raster", "feed", "cut"} /\ \A i \in 1 .. 1 : i = 1
      BY <1>4, <2>2 DEF EncodeElement, EncodeImage, Setting
    <3>. HIDE DEF s
    <3>3. \A i \in 1 .. Len(s) : s[i].op \notin {"height", "hri", "barcode"}
      BY <3>1
    <3>. QED
      BY <1>3, <3>3 DEF s
  <2>. QED
    BY <2>1, <2>2
<1>5. CASE e.kind = "qr"
  <2>1. s = EncodeQr(e)
    BY <1>5 DEF EncodeElement
  <2>2. Len(s) = 5 /\ s[1].op = "qr" /\ s[2].op = "qr" /\ s[3].op = "qr" /\ s[4].op = "qr" /\ s[5].op = "qr"
    BY <2>1 DEF EncodeQr, QrFunction
  <2>. HIDE DEF s
  <2>3. \A i \in 1 .. 5 : i = 1 \/ i = 2 \/ i = 3 \/ i = 4 \/ i = 5
    OBVIOUS
  <2>4. \A i \in 1 .. Len(s) : s[i].op \notin {"height", "hri", "barcode"}
    BY <2>2, <2>3
  <2>. QED
    BY <1>3, <2>4 DEF s
<1>6. CASE e.kind = "barcode"
  <2>. DEFINE hri == Setting("hri", 2)
              height == Setting("height", 80)
              code == [op |-> "barcode", length |-> BarcodePayload(e), payload |-> BarcodePayload(e),
                       value |-> e]
  <2>1. e.height = 80 /\ e.readable = TRUE
    BY <1>6 DEF Tidy
  <2>2. s = <<hri, height, code>>
    BY <1>6, <2>1 DEF EncodeElement, EncodeBarcode
  <2>3. hri.op = "hri" /\ hri.value = 2 /\ height.op = "height" /\ height.value = 80
        /\ code.op = "barcode" /\ code.value = e
    BY DEF Setting
  <2>4. Len(s) = 3 /\ s[1] = hri /\ s[2] = height /\ s[3] = code /\ \A i \in 1 .. 3 : i = 1 \/ i = 2 \/ i = 3
    BY <2>2
  <2>. HIDE DEF s, hri, height, code
  <2>5. \A i \in 1 .. 3 : s[i] \in Tokens
    BY <1>1, <2>4, ElementOfSeq
  <2>6. 1 \in 1 .. 3 /\ 2 \in 1 .. 3 /\ 3 \in 1 .. 3
    OBVIOUS
  <2>7. hri \in Tokens /\ height \in Tokens /\ code \in Tokens
    BY <2>4, <2>5, <2>6
  <2>8. hri \in BarTokens /\ height \in BarTokens /\ code \in BarTokens
    BY <2>1, <2>3, <2>7 DEF BarTokens
  <2>9. <<hri, height, code>> \in Seq(BarTokens)
    BY <2>8
  <2>. QED
    BY <2>2, <2>9 DEF s
<1>. QED
  BY <1>0, <1>2, <1>4, <1>5, <1>6, ElementFacts

-----------------------------------------------------------------------------
(* What the interpreter makes of it.                                       *)

\* The interpreter holds more: words, lines to feed and marks.
Adds(p, q, words, fed, marks) ==
  /\ AllWords(q.elements) \o WordsOf(q.text) = (AllWords(p.elements) \o WordsOf(p.text)) \o words
  /\ Feeds(q.elements) = Feeds(p.elements) + fed
  /\ Marks(q.elements) = Marks(p.elements) \o marks

\* What it holds.
LEMMA HeldType ==
  ASSUME NEW p \in Parsers
  PROVE  /\ p.elements \in Seq(LayoutElements) /\ p.text \in Seq(Tokens)
         /\ AllWords(p.elements) \in Seq(NamedWords) /\ WordsOf(p.text) \in Seq(NamedWords)
         /\ AllWords(p.elements) \o WordsOf(p.text) \in Seq(NamedWords)
         /\ Feeds(p.elements) \in Int /\ Marks(p.elements) \in Seq(MarkSet)
<1>1. p.elements \in Seq(LayoutElements) /\ p.text \in Seq(TextTokens)
  BY DEF Parsers
<1>2. TextTokens \subseteq Tokens
  BY PiecesAreTokens
<1>3. p.text \in Seq(Tokens)
  BY <1>1, <1>2, SeqWithin
<1>4. WordsOf(p.text) \in Seq(NamedWords)
  BY <1>3, WordsOfJoined
<1>5. [kind |-> "cut", at |-> 0] \in LayoutElements
  BY MadeElements
<1>6. AllWords(p.elements) \in Seq(NamedWords) /\ Feeds(p.elements) \in Int
      /\ Marks(p.elements) \in Seq(MarkSet)
  BY <1>1, <1>5, ContentAppend
<1>7. AllWords(p.elements) \o WordsOf(p.text) \in Seq(NamedWords)
  BY <1>4, <1>6, ConcatProperties
<1>. QED
  BY <1>1, <1>3, <1>4, <1>6, <1>7

\* Nothing more.
LEMMA AddsNothing ==
  ASSUME NEW p \in Parsers, NEW q, q.elements = p.elements, q.text = p.text
  PROVE  Adds(p, q, << >>, 0, << >>)
<1>. DEFINE w == AllWords(p.elements) \o WordsOf(p.text)
            m == Marks(p.elements)
<1>1. w \in Seq(NamedWords) /\ m \in Seq(MarkSet) /\ Feeds(p.elements) \in Int
  BY HeldType
<1>. HIDE DEF w, m
<1>2. w \o << >> = w /\ m \o << >> = m /\ Feeds(p.elements) + 0 = Feeds(p.elements)
  BY <1>1, ConcatEmptySeq
<1>. QED
  BY <1>2 DEF Adds, w, m

\* First nothing, then something.
LEMMA AddsThen ==
  ASSUME NEW p \in Parsers, NEW q, NEW r, NEW words, NEW fed, NEW marks,
         Adds(p, q, << >>, 0, << >>), Adds(q, r, words, fed, marks)
  PROVE  Adds(p, r, words, fed, marks)
<1>. DEFINE w == AllWords(p.elements) \o WordsOf(p.text)
            m == Marks(p.elements)
<1>1. w \in Seq(NamedWords) /\ m \in Seq(MarkSet) /\ Feeds(p.elements) \in Int
  BY HeldType
<1>2. /\ AllWords(q.elements) \o WordsOf(q.text) = w \o << >>
      /\ Feeds(q.elements) = Feeds(p.elements) + 0
      /\ Marks(q.elements) = m \o << >>
  BY DEF Adds
<1>3. /\ AllWords(r.elements) \o WordsOf(r.text) = (AllWords(q.elements) \o WordsOf(q.text)) \o words
      /\ Feeds(r.elements) = Feeds(q.elements) + fed
      /\ Marks(r.elements) = Marks(q.elements) \o marks
  BY DEF Adds
<1>. HIDE DEF w, m
<1>4. w \o << >> = w /\ m \o << >> = m /\ Feeds(p.elements) + 0 = Feeds(p.elements)
  BY <1>1, ConcatEmptySeq
<1>. QED
  BY <1>2, <1>3, <1>4 DEF Adds, w, m

\* The element that the open text becomes takes its words along.
LEMMA PushAdds ==
  ASSUME NEW p \in Parsers, NEW e \in LayoutElements, Words(e) = WordsOf(p.text)
  PROVE  LET q == Push(p, e)
         IN  /\ q \in Parsers /\ Adds(p, q, << >>, Fed(e), Mark(e)) /\ q.text = << >>
             /\ q.qr = p.qr /\ q.height = p.height /\ q.readable = p.readable /\ q.error = p.error
<1>. DEFINE q == Push(p, e)
            a == p.elements
            w == AllWords(a)
            x == WordsOf(p.text)
<1>1. q \in Parsers /\ q.qr = p.qr /\ q.error = p.error
  BY PushType
<1>2. q.elements = Append(a, e) /\ q.text = << >> /\ q.height = p.height /\ q.readable = p.readable
  BY DEF Push, Parsers
<1>3. a \in Seq(LayoutElements) /\ w \in Seq(NamedWords) /\ x \in Seq(NamedWords)
      /\ w \o x \in Seq(NamedWords)
  BY HeldType
<1>. HIDE DEF q, a
<1>4. /\ AllWords(Append(a, e)) = w \o Words(e)
      /\ Feeds(Append(a, e)) = Feeds(a) + Fed(e)
      /\ Marks(Append(a, e)) = Marks(a) \o Mark(e)
  BY <1>3, ContentAppend
<1>5. WordsOf(<< >>) = << >>
  BY WordsOfJoined
<1>6. AllWords(q.elements) \o WordsOf(q.text) = (w \o x) \o << >>
  BY <1>2, <1>4, <1>5
<1>. HIDE DEF w, x
<1>7. Adds(p, q, << >>, Fed(e), Mark(e))
  BY <1>2, <1>4, <1>6 DEF Adds, a, w, x
<1>. QED
  BY <1>1, <1>2, <1>7 DEF q

\* The open text as an element.
LEMMA TextElementContent ==
  ASSUME NEW p \in Parsers
  PROVE  LET e == TextElement(p)
         IN  e \in LayoutElements /\ Words(e) = WordsOf(p.text) /\ Fed(e) = 0 /\ Mark(e) = << >>
<1>. DEFINE e == TextElement(p)
            w == WordsOf(p.text)
<1>1. e \in LayoutElements
  BY TextElementType
<1>2. w \in Seq(NamedWords)
  BY HeldType
<1>3. e.kind = "text" /\ e.lines = IF w = << >> THEN << >> ELSE <<w>>
  BY DEF TextElement
<1>. HIDE DEF e, w
<1>4. Words(e) = FlattenSeq(e.lines) /\ Fed(e) = BlankLines(e.lines) /\ Mark(e) = << >>
  BY <1>3 DEF Words, Fed, Mark
<1>5. FlattenSeq(e.lines) = w
  BY <1>2, <1>3, FlattenOne, FlattenFacts
<1>6. BlankLines(e.lines) = 0
  <2>1. CASE w = << >>
    <3>1. [l \in 1 .. Len(<< >>) |-> IF << >>[l] = << >> THEN 1 ELSE 0] = << >>
      OBVIOUS
    <3>. QED
      BY <1>3, <2>1, <3>1, SumOfFacts DEF BlankLines
  <2>2. CASE w # << >>
    <3>1. [l \in 1 .. Len(<<w>>) |-> IF <<w>>[l] = << >> THEN 1 ELSE 0] = Append(<< >>, 0)
      BY <2>2
    <3>2. << >> \in Seq(Int) /\ 0 \in Int
      BY EmptySeq
    <3>3. SumOf(Append(<< >>, 0)) = 0 + 0
      BY <3>2, SumOfFacts
    <3>. QED
      BY <1>3, <2>2, <3>1, <3>3 DEF BlankLines
  <2>. QED
    BY <2>1, <2>2
<1>. QED
  BY <1>1, <1>4, <1>5, <1>6 DEF e, w

\* Flushing the open text.
LEMMA FlushTextAdds ==
  ASSUME NEW p \in Parsers
  PROVE  LET q == FlushText(p)
         IN  /\ q \in Parsers /\ Adds(p, q, << >>, 0, << >>) /\ q.text = << >>
             /\ q.qr = p.qr /\ q.height = p.height /\ q.readable = p.readable /\ q.error = p.error
<1>1. CASE p.text = << >>
  <2>1. FlushText(p) = p
    BY <1>1 DEF FlushText
  <2>. QED
    BY <1>1, <2>1, AddsNothing
<1>2. CASE p.text # << >>
  <2>. DEFINE e == TextElement(p)
  <2>1. FlushText(p) = Push(p, e)
    BY <1>2 DEF FlushText
  <2>2. e \in LayoutElements /\ Words(e) = WordsOf(p.text) /\ Fed(e) = 0 /\ Mark(e) = << >>
    BY TextElementContent
  <2>. HIDE DEF e
  <2>. QED
    BY <2>1, <2>2, PushAdds
<1>. QED
  BY <1>1, <1>2

\* A row that was split has the words of the line.
LEMMA SplitRowContent ==
  ASSUME NEW tokens \in Seq(TextTokens), SplitEmittedRow(tokens) # << >>
  PROVE  LET e == SplitEmittedRow(tokens)[1]
         IN  e \in LayoutElements /\ Words(e) = WordsOf(tokens) /\ Fed(e) = 0 /\ Mark(e) = << >>
<1>. DEFINE n == Len(tokens)
            gaps == {i \in 1 .. n : Wide(tokens, i)}
            gap == Max(gaps)
            before == SubSeq(tokens, 1, gap - 1)
            after == SubSeq(tokens, gap + 1, n)
            left == WordsOf(before)
            right == WordsOf(after)
            row == [kind |-> "row", left |-> WordTokens(left), right |-> WordTokens(right),
                    ascii |-> TRUE, at |-> 0]
<1>1. n \in Nat /\ \A i \in 1 .. n : tokens[i] \in TextTokens
  BY LenProperties, ElementOfSeq
<1>2. SplitEmittedRow(tokens) = IF gaps = {} \/ left = << >> THEN << >> ELSE <<row>>
  BY DEF SplitEmittedRow
<1>3. gaps # {} /\ left # << >> /\ SplitEmittedRow(tokens)[1] = row
  <2>. HIDE DEF gaps, left, row
  <2>. QED
    BY <1>2
<1>4. gap \in 1 .. n /\ Wide(tokens, gap)
  <2>1. gaps \in SUBSET (1 .. n)
    OBVIOUS
  <2>. HIDE DEF gaps
  <2>2. gap \in gaps
    BY <1>1, <1>3, <2>1, MaxOfPlaces
  <2>. HIDE DEF gap
  <2>. QED
    BY <2>1, <2>2 DEF gaps
<1>. HIDE DEF gap, gaps
<1>5. tokens[gap].op = "spaces"
  BY <1>4 DEF Wide
<1>. DEFINE g == tokens[gap]
<1>6. /\ before \in Seq(TextTokens) /\ after \in Seq(TextTokens)
      /\ Len(before) = gap - 1 /\ Len(after) = n - gap
      /\ \A i \in 1 .. gap - 1 : before[i] = tokens[i]
      /\ \A i \in 1 .. n - gap : after[i] = tokens[gap + i]
  <2>1. \A i \in 1 .. gap - 1 : tokens[i] \in TextTokens
    BY <1>1, <1>4
  <2>2. \A i \in gap + 1 .. n : tokens[i] \in TextTokens
    BY <1>1, <1>4
  <2>3. gap - 1 \in Int /\ gap + 1 \in Int /\ n \in Int /\ 1 \in Int /\ gap \in Int
    BY <1>1, <1>4
  <2>. HIDE DEF n
  <2>4. /\ before \in Seq(TextTokens)
        /\ Len(before) = IF 1 <= gap - 1 THEN (gap - 1) - 1 + 1 ELSE 0
        /\ \A i \in 1 .. (gap - 1) - 1 + 1 : before[i] = tokens[1 + i - 1]
    BY <2>1, <2>3, SubSeqProperties
  <2>5. /\ after \in Seq(TextTokens)
        /\ Len(after) = IF gap + 1 <= n THEN n - (gap + 1) + 1 ELSE 0
        /\ \A i \in 1 .. n - (gap + 1) + 1 : after[i] = tokens[(gap + 1) + i - 1]
    BY <2>2, <2>3, SubSeqProperties
  <2>. HIDE DEF before, after
  <2>6. Len(before) = gap - 1 /\ \A i \in 1 .. gap - 1 : before[i] = tokens[i]
    BY <1>4, <2>3, <2>4
  <2>7. Len(after) = n - gap /\ \A i \in 1 .. n - gap : after[i] = tokens[gap + i]
    <3>1. n - (gap + 1) + 1 = n - gap /\ \A i \in 1 .. n - gap : (gap + 1) + i - 1 = gap + i
      BY <2>3
    <3>2. Len(after) = n - gap
      BY <1>4, <2>3, <2>5
    <3>. QED
      BY <2>5, <3>1, <3>2
  <2>. QED
    BY <2>4, <2>5, <2>6, <2>7
<1>. HIDE DEF before, after, n
<1>7. g \in TextTokens /\ <<g>> \in Seq(TextTokens)
  <2>1. g \in TextTokens
    BY <1>1, <1>4
  <2>. HIDE DEF g
  <2>. QED
    BY <2>1
<1>. HIDE DEF g
<1>8. before \o <<g>> \in Seq(TextTokens) /\ Len(before \o <<g>>) = gap
      /\ \A i \in 1 .. gap : (before \o <<g>>)[i] = tokens[i]
  <2>. DEFINE b == <<g>>
  <2>1. b \in Seq(TextTokens) /\ Len(b) = 1 /\ b[1] = g
    BY <1>7
  <2>. HIDE DEF b
  <2>2. /\ before \o b \in Seq(TextTokens) /\ Len(before \o b) = Len(before) + Len(b)
        /\ \A i \in 1 .. Len(before) + Len(b) :
             (before \o b)[i] = IF i <= Len(before) THEN before[i] ELSE b[i - Len(before)]
    BY <1>6, <2>1, ConcatProperties
  <2>3. Len(before) + Len(b) = gap /\ gap \in Int
    BY <1>1, <1>4, <1>6, <2>1
  <2>4. ASSUME NEW i \in 1 .. gap PROVE (before \o b)[i] = tokens[i]
    <3>1. CASE i <= gap - 1
      <4>1. i \in 1 .. gap - 1
        BY <2>3, <3>1
      <4>. QED
        BY <1>6, <2>2, <2>3, <3>1, <4>1
    <3>2. CASE ~(i <= gap - 1)
      <4>1. i = gap /\ i - (gap - 1) = 1
        BY <2>3, <3>2
      <4>. QED
        BY <1>6, <2>1, <2>2, <2>3, <3>2, <4>1 DEF g
    <3>. QED
      BY <3>1, <3>2
  <2>. QED
    BY <2>2, <2>3, <2>4 DEF b
<1>9. tokens = (before \o <<g>>) \o after
  <2>. DEFINE a == before \o <<g>>
  <2>1. a \in Seq(TextTokens) /\ Len(a) = gap /\ \A i \in 1 .. gap : a[i] = tokens[i]
    BY <1>8
  <2>. HIDE DEF a
  <2>2. Len(tokens) = Len(a) + Len(after)
    BY <1>1, <1>4, <1>6, <2>1 DEF n
  <2>4. /\ \A i \in 1 .. Len(a) : tokens[i] = a[i]
        /\ \A i \in 1 .. Len(after) : tokens[Len(a) + i] = after[i]
    BY <1>6, <2>1
  <2>5. after \in Seq(TextTokens)
    BY <1>6
  <2>3. tokens = a \o after
    BY <2>1, <2>2, <2>4, <2>5, IsConcat
  <2>. QED
    BY <2>3 DEF a
<1>10. /\ before \in Seq(Tokens) /\ after \in Seq(Tokens) /\ <<g>> \in Seq(Tokens) /\ g \in Tokens
       /\ before \o <<g>> \in Seq(Tokens)
  <2>. DEFINE b == <<g>>
  <2>1. b \in Seq(TextTokens) /\ before \o b \in Seq(TextTokens)
    BY <1>7, <1>8
  <2>. HIDE DEF b
  <2>2. TextTokens \subseteq Tokens
    BY PiecesAreTokens
  <2>3. \A s \in Seq(TextTokens) : s \in Seq(Tokens)
    BY <2>2, SeqWithin
  <2>. QED
    BY <1>6, <1>7, <2>1, <2>2, <2>3 DEF b
<1>11. WordsOf(tokens) = (left \o WordsOf(<<g>>)) \o right
  BY <1>9, <1>10, WordsOfJoined
<1>12. WordsOf(<<g>>) = << >>
  <2>1. WordAt(g) = << >>
    BY <1>5 DEF WordAt, g
  <2>. QED
    BY <1>10, <2>1, WordsOfJoined
<1>13. left \in Seq(NamedWords) /\ right \in Seq(NamedWords)
  BY <1>6, WordsOfNamed
<1>. HIDE DEF left, right
<1>14. left \o << >> = left /\ WordsOf(WordTokens(left)) = left /\ WordsOf(WordTokens(right)) = right
  BY <1>13, ConcatEmptySeq, WordTokensFacts
<1>15. Words(row) = left \o right /\ Fed(row) = 0 /\ Mark(row) = << >>
  <2>1. row.kind = "row" /\ row.left = WordTokens(left) /\ row.right = WordTokens(right)
    OBVIOUS
  <2>. HIDE DEF row
  <2>. QED
    BY <1>14, <2>1 DEF Words, Fed, Mark
<1>16. row \in LayoutElements
  BY <1>3, SplitRowType DEF LayoutElements
<1>. HIDE DEF row
<1>. QED
  BY <1>3, <1>11, <1>12, <1>14, <1>15, <1>16

\* The end of a line feeds one if the line is empty.
LEMMA FinishLineAdds ==
  ASSUME NEW p \in Parsers
  PROVE  LET q == FinishTextLine(p)
         IN  /\ q \in Parsers /\ Adds(p, q, << >>, IF p.text = << >> THEN 1 ELSE 0, << >>)
             /\ q.text = << >> /\ q.height = p.height /\ q.readable = p.readable /\ q.error = p.error
<1>. DEFINE q == FinishTextLine(p)
<1>0. p.text \in Seq(TextTokens) /\ WordsOf(<< >>) = << >>
  BY WordsOfJoined DEF Parsers
<1>9. ASSUME NEW e \in LayoutElements, q = Push(p, e), Words(e) = WordsOf(p.text),
             Fed(e) = (IF p.text = << >> THEN 1 ELSE 0), Mark(e) = << >>
      PROVE  /\ q \in Parsers /\ Adds(p, q, << >>, IF p.text = << >> THEN 1 ELSE 0, << >>)
             /\ q.text = << >> /\ q.height = p.height /\ q.readable = p.readable /\ q.error = p.error
  <2>. HIDE DEF q
  <2>. QED
    BY <1>9, PushAdds
<1>1. CASE p.text = << >>
  <2>. DEFINE e == [kind |-> "feed", lines |-> 1, at |-> 0]
  <2>8. ~IsRule(p)
    BY <1>1 DEF IsRule
  <2>1. q = Push(p, e)
    BY <1>1, <2>8 DEF FinishTextLine
  <2>2. e \in LayoutElements
    BY MadeElements
  <2>3. e.kind = "feed" /\ e.lines = 1
    OBVIOUS
  <2>. HIDE DEF e, q
  <2>4. Words(e) = << >> /\ Fed(e) = 1 /\ Mark(e) = << >>
    BY <2>3 DEF Words, Fed, Mark
  <2>. QED
    BY <1>0, <1>1, <1>9, <2>1, <2>2, <2>4 DEF q
<1>2. CASE p.text # << >> /\ IsRule(p)
  <2>. DEFINE t == p.text[1]
              w == t.word
              e == [kind |-> "divider", word |-> w, at |-> 0]
  <2>1. q = Push(p, e)
    BY <1>2 DEF FinishTextLine
  <2>2. Len(p.text) = 1 /\ t.op = "word"
    BY <1>2 DEF IsRule
  <2>3. t \in TextTokens
    <3>1. 1 \in 1 .. Len(p.text)
      BY <2>2
    <3>. QED
      BY <1>0, <3>1, ElementOfSeq
  <2>4. w \in NamedWords
    BY <2>2, <2>3 DEF TextTokens, CellPieces, SpaceTokens
  <2>5. e \in LayoutElements
    BY <2>4, MadeElements
  <2>6. p.text = <<t>> /\ t \in Tokens
    BY <1>0, <2>2, <2>3, PiecesAreTokens
  <2>7. e.kind = "divider" /\ e.word = w
    OBVIOUS
  <2>8. WordAt(t) = <<w>>
    BY <2>2 DEF WordAt
  <2>. HIDE DEF t, w, e, q
  <2>9. Words(e) = <<w>> /\ Fed(e) = 0 /\ Mark(e) = << >>
    BY <2>7 DEF Words, Fed, Mark
  <2>10. WordsOf(<<t>>) = <<w>>
    BY <2>6, <2>8, WordsOfJoined
  <2>. QED
    BY <1>2, <1>9, <2>1, <2>5, <2>6, <2>9, <2>10 DEF q
<1>3. CASE p.text # << >> /\ ~IsRule(p)
  <2>. DEFINE row == SplitEmittedRow(p.text)
              e == IF row = << >> THEN TextElement(p) ELSE row[1]
  <2>1. q = Push(p, e)
    BY <1>3 DEF FinishTextLine
  <2>2. e \in LayoutElements /\ Words(e) = WordsOf(p.text) /\ Fed(e) = 0 /\ Mark(e) = << >>
    <3>1. CASE row = << >>
      <4>1. e = TextElement(p)
        BY <3>1
      <4>. QED
        BY <4>1, TextElementContent
    <3>2. CASE row # << >>
      <4>1. e = row[1]
        BY <3>2
      <4>. QED
        BY <1>0, <3>2, <4>1, SplitRowContent
    <3>. QED
      BY <3>1, <3>2
  <2>. HIDE DEF e, q
  <2>. QED
    BY <1>3, <1>9, <2>1, <2>2 DEF q
<1>. QED
  BY <1>1, <1>2, <1>3

\* What a command says of the interpreter that reads it between two lines.
CommandRead(p, q, last, t) ==
  /\ q \in Parsers /\ Adds(p, q, << >>, FedAt(last, t), MarkAt(last, t)) /\ q.text = << >>
  /\ Stores(t) => q.qr = t.stored
  /\ q.height = 80 /\ q.readable = TRUE

\* An element without words is pushed.
LEMMA PushedRead ==
  ASSUME NEW p \in Parsers, p.text = << >>, p.height = 80, p.readable = TRUE,
         NEW last \in Tokens, NEW t \in Tokens, ~Stores(t),
         NEW e \in LayoutElements, Words(e) = << >>, Fed(e) = FedAt(last, t), Mark(e) = MarkAt(last, t)
  PROVE  CommandRead(p, Push(p, e), last, t)
<1>1. Words(e) = WordsOf(p.text)
  BY WordsOfJoined
<1>2. LET q == Push(p, e)
      IN  /\ q \in Parsers /\ Adds(p, q, << >>, Fed(e), Mark(e)) /\ q.text = << >>
          /\ q.qr = p.qr /\ q.height = p.height /\ q.readable = p.readable /\ q.error = p.error
  BY <1>1, PushAdds
<1>. QED
  BY <1>2 DEF CommandRead

\* Settings.
LEMMA SettingRead ==
  ASSUME NEW p \in Parsers, p.text = << >>, p.height = 80, p.readable = TRUE, p.error = "none",
         NEW last \in Tokens, NEW t \in BarTokens, t.op \in SettingOps,
         ParseCommand(p, t).error = "none"
  PROVE  CommandRead(p, ParseCommand(p, t), last, t)
<1>. DEFINE q == ParseCommand(p, t)
<1>0. t \in Tokens /\ (t.op = "height" => t.value = 80) /\ (t.op = "hri" => t.value # 0)
  BY DEF BarTokens
<1>1. q \in Parsers
  BY <1>0, SettingParsed DEF ReadWell
<1>2. ~Stores(t) /\ ~Prints(t) /\ ~Inline(t) /\ t.op # "nl"
  BY DEF Stores, Prints, Inline, SettingOps
<1>3. CASE t.op \in {"init", "align", "bold", "hri", "height"}
  <2>1. FedAt(last, t) = 0 /\ MarkAt(last, t) = << >>
    BY <1>2, <1>3 DEF FedAt, MarkAt
  <2>2. q.elements = p.elements /\ q.text = p.text /\ q.height = 80 /\ q.readable = TRUE
    <3>1. CASE t.op = "init"
      <4>1. q = [p EXCEPT !.align = "left", !.bold = FALSE, !.qr = << >>]
        BY <3>1 DEF ParseCommand
      <4>. QED
        BY <4>1 DEF Parsers
    <3>2. CASE t.op = "align"
      <4>1. q = [p EXCEPT !.align = AlignmentOf[t.value]]
        BY <3>2 DEF ParseCommand
      <4>. QED
        BY <4>1 DEF Parsers
    <3>3. CASE t.op = "bold"
      <4>1. q = [p EXCEPT !.bold = (t.value = 1)]
        BY <3>3 DEF ParseCommand
      <4>. QED
        BY <4>1 DEF Parsers
    <3>4. CASE t.op = "hri"
      <4>1. q = [p EXCEPT !.readable = (t.value # 0)] /\ (t.value # 0) = TRUE
        BY <1>0, <3>4 DEF ParseCommand
      <4>. QED
        BY <4>1 DEF Parsers
    <3>5. CASE t.op = "height"
      <4>1. q = [p EXCEPT !.height = t.value] /\ t.value = 80
        BY <1>0, <3>5 DEF ParseCommand
      <4>. QED
        BY <4>1 DEF Parsers
    <3>. QED
      BY <1>3, <3>1, <3>2, <3>3, <3>4, <3>5
  <2>. HIDE DEF q
  <2>3. Adds(p, q, << >>, 0, << >>)
    BY <2>2, AddsNothing
  <2>. QED
    BY <1>1, <1>2, <2>1, <2>2, <2>3 DEF CommandRead, q
<1>4. CASE t.op = "feed"
  <2>. DEFINE n == t.value
              e == [kind |-> "feed", lines |-> n, at |-> 0]
  <2>1. q = IF n = 0 THEN Stop(p, "unsupported") ELSE Push(p, e)
    BY <1>4 DEF ParseCommand
  <2>2. n \in Nat
    BY <1>0, <1>4, TokenFacts
  <2>3. e \in LayoutElements
    BY <2>2, MadeElements
  <2>4. FedAt(last, t) = n /\ MarkAt(last, t) = << >>
    BY <1>2, <1>4 DEF FedAt, MarkAt
  <2>5. e.kind = "feed" /\ e.lines = n
    OBVIOUS
  <2>6. q = Push(p, e)
    BY <2>1, StopType
  <2>. HIDE DEF e, n
  <2>7. Words(e) = << >> /\ Fed(e) = n /\ Mark(e) = << >>
    BY <2>5 DEF Words, Fed, Mark
  <2>8. Fed(e) = FedAt(last, t) /\ Mark(e) = MarkAt(last, t)
    BY <2>4, <2>7
  <2>9. CommandRead(p, Push(p, e), last, t)
    BY <1>0, <1>2, <2>3, <2>7, <2>8, PushedRead
  <2>. QED
    BY <2>6, <2>9
<1>5. CASE t.op = "cut"
  <2>. DEFINE e == [kind |-> "cut", at |-> 0]
  <2>1. q = Push(p, e)
    BY <1>5 DEF ParseCommand
  <2>3. e \in LayoutElements
    BY MadeElements
  <2>4. FedAt(last, t) = 0 /\ MarkAt(last, t) = << <<"cut">> >>
    BY <1>2, <1>5 DEF FedAt, MarkAt
  <2>5. e.kind = "cut"
    OBVIOUS
  <2>. HIDE DEF e
  <2>7. Words(e) = << >> /\ Fed(e) = 0 /\ Mark(e) = << <<"cut">> >>
    BY <2>5 DEF Words, Fed, Mark
  <2>8. Fed(e) = FedAt(last, t) /\ Mark(e) = MarkAt(last, t)
    BY <2>4, <2>7
  <2>9. CommandRead(p, Push(p, e), last, t)
    BY <1>0, <1>2, <2>3, <2>7, <2>8, PushedRead
  <2>. QED
    BY <2>1, <2>9
<1>. QED
  BY <1>3, <1>4, <1>5 DEF SettingOps

\* Rasters.
LEMMA RasterRead ==
  ASSUME NEW p \in Parsers, p.text = << >>, p.height = 80, p.readable = TRUE, p.error = "none",
         NEW last \in Tokens, NEW t \in Tokens, t.op = "raster", ParseCommand(p, t).error = "none"
  PROVE  CommandRead(p, ParseCommand(p, t), last, t)
<1>. DEFINE q == ParseCommand(p, t)
            row    == t.low + 256 * t.high
            height == t.heightLow + 256 * t.heightHigh
            e == [kind |-> "image", width |-> row * 8, height |-> height,
                  stride |-> row, decodes |-> TRUE, at |-> t.at]
            refused == row = 0 \/ height = 0 \/ row * height > MaxRasterBytes \/ row * height # t.payload
<1>1. q = IF refused THEN Stop(p, "invalid") ELSE Push(p, e)
  BY DEF ParseCommand, ParseRaster
<1>2. row \in Nat /\ height \in Nat /\ t.at \in Nat
  BY TokenFacts DEF RasterTokens
<1>3. ~refused
  <2>1. Stop(p, "invalid").error = "invalid" /\ q.error = "none"
    BY StopType
  <2>. HIDE DEF refused, q, e
  <2>. QED
    BY <1>1, <2>1
<1>4. q = Push(p, e)
  BY <1>1, <1>3
<1>5. e \in LayoutElements
  <2>1. row # 0 /\ height # 0
    BY <1>3
  <2>. HIDE DEF row, height
  <2>2. row * 8 \in Nat \ {0}
    BY <1>2, <2>1
  <2>3. e \in ImageElements
    BY <1>2, <2>1, <2>2 DEF ImageElements
  <2>. QED
    BY <2>3 DEF LayoutElements
<1>6. FedAt(last, t) = 0 /\ MarkAt(last, t) = << <<"image", row, height>> >>
  BY DEF FedAt, MarkAt, Prints
<1>7. e.kind = "image" /\ e.stride = row /\ e.height = height
  OBVIOUS
<1>. HIDE DEF e, row, height, refused, q
<1>8. Words(e) = << >> /\ Fed(e) = 0 /\ Mark(e) = << <<"image", row, height>> >>
  BY <1>7 DEF Words, Fed, Mark
<1>9. Fed(e) = FedAt(last, t) /\ Mark(e) = MarkAt(last, t)
  BY <1>6, <1>8
<1>10. ~Stores(t)
  BY DEF Stores
<1>11. CommandRead(p, Push(p, e), last, t)
  BY <1>5, <1>8, <1>9, <1>10, PushedRead
<1>. QED
  BY <1>4, <1>11 DEF q

\* QR functions: a print takes the code that was stored before it.
LEMMA QrRead ==
  ASSUME NEW p \in Parsers, p.text = << >>, p.height = 80, p.readable = TRUE, p.error = "none",
         NEW last \in Tokens, NEW t \in Tokens, t.op = "qr", ParseCommand(p, t).error = "none",
         Stores(last) => p.qr = last.stored, Prints(t) => Stores(last)
  PROVE  CommandRead(p, ParseCommand(p, t), last, t)
<1>. DEFINE q == ParseCommand(p, t)
            length == t.low + 256 * t.high
            refused == length = 0 \/ length > MaxQrBytes + 3 \/ length # t.payload
<1>1. q = IF refused THEN Stop(p, "invalid")
          ELSE CASE t.function = "store" -> [p EXCEPT !.qr = t.stored]
                 [] t.function = "print" ->
                      IF p.qr = << >> THEN Stop(p, "unsupported")
                      ELSE [Push(p, p.qr[1]) EXCEPT !.qr = << >>]
                 [] OTHER                -> p
  BY DEF ParseCommand, ParseQr
<1>2. t.function \in QrFunctions /\ t.stored \in Seq(QrSections)
  BY TokenFacts DEF QrTokens
<1>3. ~refused
  <2>1. Stop(p, "invalid").error = "invalid" /\ q.error = "none"
    BY StopType
  <2>. HIDE DEF refused, q
  <2>. QED
    BY <1>1, <2>1
<1>. HIDE DEF refused
<1>4. FedAt(last, t) = 0
  BY DEF FedAt
<1>5. CASE t.function = "store"
  <2>1. q = [p EXCEPT !.qr = t.stored]
    BY <1>1, <1>3, <1>5
  <2>. HIDE DEF q
  <2>2. q \in Parsers /\ q.qr = t.stored /\ q.elements = p.elements /\ q.text = p.text
        /\ q.height = p.height /\ q.readable = p.readable
    BY <1>2, <2>1 DEF Parsers
  <2>3. MarkAt(last, t) = << >>
    BY <1>5 DEF MarkAt, Prints
  <2>4. Adds(p, q, << >>, 0, << >>)
    BY <2>2, AddsNothing
  <2>. QED
    BY <1>4, <2>2, <2>3, <2>4 DEF CommandRead, q
<1>6. CASE t.function = "print"
  <2>. DEFINE e == p.qr[1]
              r == Push(p, e)
  <2>1. Prints(t) /\ ~Stores(t)
    BY <1>6 DEF Prints, Stores
  <2>2. Stores(last) /\ p.qr = last.stored
    BY <2>1
  <2>3. p.qr # << >>
    <3>1. p.qr = << >> => q = Stop(p, "unsupported")
      BY <1>1, <1>3, <1>6
    <3>2. Stop(p, "unsupported").error = "unsupported" /\ q.error = "none"
      BY StopType
    <3>. QED
      BY <3>1, <3>2
  <2>4. q = [r EXCEPT !.qr = << >>]
    BY <1>1, <1>3, <1>6, <2>3
  <2>5. e \in QrSections
    <3>1. p.qr \in Seq(QrSections)
      BY DEF Parsers
    <3>2. 1 \in 1 .. Len(p.qr)
      BY <2>3, <3>1, EmptySeq
    <3>. QED
      BY <3>1, <3>2, ElementOfSeq
  <2>6. e \in LayoutElements /\ e.kind = "qr"
    BY <2>5 DEF LayoutElements, QrSections
  <2>7. MarkAt(last, t) = << <<"qr", e>> >>
    BY <2>1, <2>2, <2>3 DEF MarkAt, Prints
  <2>. HIDE DEF e, q
  <2>8. Words(e) = << >> /\ Fed(e) = 0 /\ Mark(e) = << <<"qr", e>> >>
    BY <2>6 DEF Words, Fed, Mark
  <2>9. Fed(e) = FedAt(last, t) /\ Mark(e) = MarkAt(last, t)
    BY <1>4, <2>7, <2>8
  <2>10. CommandRead(p, r, last, t)
    BY <2>1, <2>6, <2>8, <2>9, PushedRead
  <2>. HIDE DEF r
  <2>11. /\ r \in Parsers /\ Adds(p, r, << >>, FedAt(last, t), MarkAt(last, t)) /\ r.text = << >>
         /\ r.height = 80 /\ r.readable = TRUE
    BY <2>10 DEF CommandRead
  <2>12. << >> \in Seq(QrSections)
    BY EmptySeq
  <2>13. q \in Parsers /\ q.elements = r.elements /\ q.text = r.text /\ q.height = r.height
         /\ q.readable = r.readable
    BY <2>4, <2>11, <2>12 DEF Parsers
  <2>14. Adds(p, q, << >>, FedAt(last, t), MarkAt(last, t))
    BY <2>11, <2>13 DEF Adds
  <2>. QED
    BY <2>1, <2>11, <2>13, <2>14 DEF CommandRead, q
<1>7. CASE t.function \notin {"store", "print"}
  <2>1. q = p /\ ~Stores(t)
    BY <1>1, <1>3, <1>7 DEF Stores
  <2>2. MarkAt(last, t) = << >>
    BY <1>7 DEF MarkAt, Prints
  <2>3. Adds(p, p, << >>, 0, << >>)
    BY AddsNothing
  <2>. QED
    BY <1>4, <2>1, <2>2, <2>3 DEF CommandRead
<1>. QED
  BY <1>5, <1>6, <1>7

\* Bar codes.
LEMMA BarcodeRead ==
  ASSUME NEW p \in Parsers, p.text = << >>, p.height = 80, p.readable = TRUE, p.error = "none",
         NEW last \in Tokens, NEW t \in BarTokens, t.op = "barcode",
         ParseCommand(p, t).error = "none"
  PROVE  CommandRead(p, ParseCommand(p, t), last, t)
<1>. DEFINE q == ParseCommand(p, t)
            v == t.value
            e == [v EXCEPT !.height = p.height, !.readable = p.readable]
<1>1. t \in Tokens /\ v.height = 80 /\ v.readable = TRUE
  BY DEF BarTokens
<1>2. v \in BarcodeElements
  BY <1>1, TokenFacts DEF BarcodeTokens
<1>3. q = IF t.length # t.payload THEN Stop(p, "invalid") ELSE Push(p, e)
  BY DEF ParseCommand, ParseBarcode
<1>4. q = Push(p, e)
  <2>1. Stop(p, "invalid").error = "invalid" /\ q.error = "none"
    BY StopType
  <2>. HIDE DEF q, e
  <2>. QED
    BY <1>3, <2>1
<1>5. e = v
  <2>. HIDE DEF v
  <2>1. p.height = v.height /\ p.readable = v.readable
    BY <1>1
  <2>2. e = [v EXCEPT !.height = v.height, !.readable = v.readable]
    BY <2>1
  <2>3. [v EXCEPT !.height = v.height, !.readable = v.readable] = v
    BY <1>2 DEF BarcodeElements
  <2>. QED
    BY <2>2, <2>3
<1>6. v \in LayoutElements /\ v.kind = "barcode"
  BY <1>2 DEF LayoutElements, BarcodeElements
<1>7. FedAt(last, t) = 0 /\ MarkAt(last, t) = << <<"barcode", v>> >> /\ ~Stores(t)
  BY DEF FedAt, MarkAt, Prints, Stores
<1>. HIDE DEF e, v, q
<1>8. Words(v) = << >> /\ Fed(v) = 0 /\ Mark(v) = << <<"barcode", v>> >>
  BY <1>6 DEF Words, Fed, Mark
<1>9. Fed(v) = FedAt(last, t) /\ Mark(v) = MarkAt(last, t)
  BY <1>7, <1>8
<1>10. CommandRead(p, Push(p, v), last, t)
  BY <1>1, <1>6, <1>7, <1>8, <1>9, PushedRead
<1>. QED
  BY <1>4, <1>5, <1>10 DEF q

\* The interpreter has read s: what s carried it has made elements of, except
\* for the words of the line that is open.
HasRead(p, s) ==
  /\ AllWords(p.elements) \o WordsOf(p.text) = WordsOf(s)
  /\ Feeds(p.elements) = FeedsIn(Command("init"), s)
  /\ Marks(p.elements) = MarksIn(Command("init"), s)
  /\ p.text # << >> <=> Inline(LastOf(Command("init"), s))
  /\ Stores(LastOf(Command("init"), s)) => p.qr = LastOf(Command("init"), s).stored
  /\ p.height = 80 /\ p.readable = TRUE

\* What reading a token adds.
TokenRead(p, q, last, t) ==
  /\ q \in Parsers /\ Adds(p, q, WordAt(t), FedAt(last, t), MarkAt(last, t))
  /\ q.text # << >> <=> Inline(t)
  /\ Stores(t) => q.qr = t.stored
  /\ q.height = 80 /\ q.readable = TRUE

\* It is what the token carries.
LEMMA TokenAdds ==
  ASSUME NEW p \in Parsers, p.height = 80, p.readable = TRUE, p.error = "none",
         NEW last \in Tokens, NEW t \in BarTokens, ParseToken(p, t).error = "none",
         p.text # << >> <=> Inline(last),
         Stores(last) => p.qr = last.stored, Prints(t) => Stores(last)
  PROVE  TokenRead(p, ParseToken(p, t), last, t)
<1>. DEFINE next == [p EXCEPT !.offset = @ + 1]
            q == ParseToken(p, t)
<1>0. t \in Tokens
  BY DEF BarTokens
<1>1. next \in Parsers /\ next.error = p.error /\ next.qr = p.qr /\ next.text = p.text
      /\ next.elements = p.elements /\ next.height = p.height /\ next.readable = p.readable
  <2>. DEFINE n == p.offset + 1
              T == Seq(TextTokens)
              Q == Seq(QrSections)
              E == Seq(LayoutElements)
              Z == Nat \ {0}
  <2>1. Parsers = [columns : Nat, offset : Z, align : Alignments, bold : BOOLEAN, text : T,
                   qr : Q, height : Z, readable : BOOLEAN, elements : E,
                   error : {"none", "invalid", "unsupported"}]
    BY DEF Parsers
  <2>. HIDE DEF T, Q, E
  <2>2. n \in Z
    BY <2>1
  <2>. HIDE DEF n, Z
  <2>3. next = [p EXCEPT !.offset = n]
    BY DEF n
  <2>. HIDE DEF next
  <2>. QED
    BY <2>1, <2>2, <2>3 DEF n
<1>2. q = CASE Control(t)                -> Stop(next, "unsupported")
            [] t.op \in {"word", "spaces"} /\ ~Control(t) -> [next EXCEPT !.text = Append(@, t)]
            [] t.op = "nl"               -> FinishTextLine(next)
            [] OTHER                     -> ParseCommand(FlushText(next), t)
  BY DEF ParseToken
<1>3. Adds(p, next, << >>, 0, << >>)
  BY <1>1, AddsNothing
<1>. HIDE DEF next
<1>4. ~Control(t)
  <2>1. Control(t) => t.op \in {"tab", "word"} /\ (t.op = "tab" => Control(t))
    BY DEF Control
  <2>2. Control(t) => q = Stop(next, "unsupported")
    BY <1>2, <2>1
  <2>3. Stop(next, "unsupported").error = "unsupported" /\ q.error = "none"
    BY <1>1, StopType
  <2>. QED
    BY <2>2, <2>3
<1>5. CASE t.op \in {"word", "spaces"}
  <2>1. t \in TextTokens /\ next.text \in Seq(TextTokens)
    BY <1>0, <1>1, <1>5, TokenFacts DEF Parsers
  <2>2. Append(next.text, t) \in Seq(TextTokens) /\ Append(next.text, t) # << >>
    <3>. DEFINE a == next.text
    <3>1. a \in Seq(TextTokens)
      BY <2>1
    <3>. HIDE DEF a
    <3>2. Append(a, t) \in Seq(TextTokens) /\ Len(Append(a, t)) = Len(a) + 1 /\ Len(a) \in Nat
      BY <2>1, <3>1, AppendProperties, LenProperties
    <3>3. Append(a, t) # << >>
      BY <3>2
    <3>. QED
      BY <3>2, <3>3 DEF a
  <2>3. q = [next EXCEPT !.text = Append(next.text, t)]
    BY <1>2, <1>4, <1>5
  <2>. HIDE DEF q
  <2>4. q \in Parsers /\ q.text = Append(next.text, t) /\ q.elements = next.elements
        /\ q.height = next.height /\ q.readable = next.readable
    BY <1>1, <2>2, <2>3 DEF Parsers
  <2>5. FedAt(last, t) = 0 /\ MarkAt(last, t) = << >> /\ Inline(t) /\ ~Stores(t)
    BY <1>5 DEF FedAt, MarkAt, Prints, Inline, Stores
  <2>6. Adds(p, q, WordAt(t), 0, << >>)
    <3>. DEFINE a == p.text
                w == AllWords(p.elements)
                x == WordsOf(p.text)
                y == WordAt(t)
                m == Marks(p.elements)
    <3>1. a \in Seq(Tokens) /\ w \in Seq(NamedWords) /\ x \in Seq(NamedWords) /\ m \in Seq(MarkSet)
          /\ Feeds(p.elements) \in Int /\ y \in Seq(NamedWords)
      BY <1>0, HeldType, WordAtType
    <3>. HIDE DEF a, w, y, m
    <3>2. WordsOf(Append(a, t)) = x \o y
      BY <1>0, <3>1, WordsOfAppend DEF a, y
    <3>. HIDE DEF x
    <3>3. (w \o x) \o y = w \o (x \o y)
      BY <3>1, RegroupWords
    <3>4. m \o << >> = m /\ Feeds(p.elements) + 0 = Feeds(p.elements)
      BY <3>1, ConcatEmptySeq
    <3>5. q.elements = p.elements /\ q.text = Append(a, t)
      BY <1>1, <2>4 DEF a
    <3>. QED
      BY <3>2, <3>3, <3>4, <3>5 DEF Adds, w, x, y, m
  <2>. QED
    BY <1>1, <2>2, <2>4, <2>5, <2>6 DEF TokenRead, q
<1>6. CASE t.op = "nl"
  <2>1. q = FinishTextLine(next)
    BY <1>2, <1>4, <1>6
  <2>2. /\ q \in Parsers /\ Adds(next, q, << >>, IF next.text = << >> THEN 1 ELSE 0, << >>)
        /\ q.text = << >> /\ q.height = next.height /\ q.readable = next.readable
    BY <1>1, <2>1, FinishLineAdds
  <2>. HIDE DEF q
  <2>3. FedAt(last, t) = (IF next.text = << >> THEN 1 ELSE 0) /\ MarkAt(last, t) = << >>
        /\ ~Inline(t) /\ ~Stores(t) /\ WordAt(t) = << >>
    BY <1>1, <1>6 DEF FedAt, MarkAt, Prints, Inline, Stores, WordAt
  <2>4. Adds(next, q, WordAt(t), FedAt(last, t), MarkAt(last, t))
    BY <2>2, <2>3
  <2>5. Adds(p, q, WordAt(t), FedAt(last, t), MarkAt(last, t))
    BY <1>3, <2>4, AddsThen
  <2>. QED
    BY <1>1, <2>2, <2>3, <2>5 DEF TokenRead, q
<1>7. CASE t.op \notin LineOps
  <2>. DEFINE r == FlushText(next)
  <2>1. q = ParseCommand(r, t)
    BY <1>2, <1>4, <1>7 DEF LineOps, Control
  <2>2. /\ r \in Parsers /\ Adds(next, r, << >>, 0, << >>) /\ r.text = << >>
        /\ r.qr = p.qr /\ r.height = 80 /\ r.readable = TRUE /\ r.error = "none"
    BY <1>1, FlushTextAdds
  <2>. HIDE DEF r
  <2>3. CommandRead(r, q, last, t)
    <3>1. CASE t.op \in SettingOps
      BY <1>0, <2>1, <2>2, <3>1, SettingRead
    <3>2. CASE t.op = "raster"
      BY <1>0, <2>1, <2>2, <3>2, RasterRead
    <3>3. CASE t.op = "qr"
      <4>1. (Stores(last) => r.qr = last.stored) /\ (Prints(t) => Stores(last))
        BY <2>2
      <4>2. ParseCommand(r, t).error = "none"
        BY <2>1
      <4>. HIDE DEF q
      <4>3. CommandRead(r, ParseCommand(r, t), last, t)
        BY <1>0, <2>2, <3>3, <4>1, <4>2, QrRead
      <4>. QED
        BY <2>1, <4>3
    <3>4. CASE t.op = "barcode"
      BY <1>0, <2>1, <2>2, <3>4, BarcodeRead
    <3>. QED
      BY <1>0, <1>7, <3>1, <3>2, <3>3, <3>4, TokenFacts
  <2>. HIDE DEF q
  <2>4. Adds(p, r, << >>, 0, << >>)
    BY <1>3, <2>2, AddsThen
  <2>5. /\ q \in Parsers /\ Adds(r, q, << >>, FedAt(last, t), MarkAt(last, t)) /\ q.text = << >>
        /\ (Stores(t) => q.qr = t.stored) /\ q.height = 80 /\ q.readable = TRUE
    BY <2>3 DEF CommandRead
  <2>6. Adds(p, q, << >>, FedAt(last, t), MarkAt(last, t))
    BY <2>4, <2>5, AddsThen
  <2>7. WordAt(t) = << >> /\ ~Inline(t)
    BY <1>7 DEF WordAt, Inline, LineOps
  <2>. QED
    BY <2>5, <2>6, <2>7 DEF TokenRead, q
<1>. QED
  BY <1>4, <1>5, <1>6, <1>7 DEF LineOps, Control

\* After one more token it still has read what came before.
LEMMA StillRead ==
  ASSUME NEW s \in Seq(Tokens), NEW p \in Parsers, HasRead(p, s), p.error = "none",
         NEW t \in BarTokens, ParseToken(p, t).error = "none",
         Prints(t) => Stores(LastOf(Command("init"), s))
  PROVE  HasRead(ParseToken(p, t), Append(s, t))
<1>. DEFINE start == Command("init")
            last == LastOf(start, s)
            q == ParseToken(p, t)
<1>0. start \in Tokens /\ t \in Tokens
  BY DEF BarTokens, Command, Tokens, SettingTokens
<1>. HIDE DEF start
<1>1. /\ AllWords(p.elements) \o WordsOf(p.text) = WordsOf(s)
      /\ Feeds(p.elements) = FeedsIn(start, s) /\ Marks(p.elements) = MarksIn(start, s)
      /\ (p.text # << >> <=> Inline(last)) /\ (Stores(last) => p.qr = last.stored)
      /\ p.height = 80 /\ p.readable = TRUE
  BY DEF HasRead, start
<1>2. last \in Tokens
  BY <1>0, PrevType
<1>3. Prints(t) => Stores(last)
  BY DEF start
<1>. HIDE DEF last
<1>4. TokenRead(p, q, last, t)
  BY <1>1, <1>2, <1>3, TokenAdds
<1>. HIDE DEF q
<1>5. /\ AllWords(q.elements) \o WordsOf(q.text) = WordsOf(s) \o WordAt(t)
      /\ Feeds(q.elements) = FeedsIn(start, s) + FedAt(last, t)
      /\ Marks(q.elements) = MarksIn(start, s) \o MarkAt(last, t)
      /\ (q.text # << >> <=> Inline(t)) /\ (Stores(t) => q.qr = t.stored)
      /\ q.height = 80 /\ q.readable = TRUE
  BY <1>1, <1>4 DEF TokenRead, Adds
<1>. DEFINE u == <<t>>
<1>6. u \in Seq(Tokens) /\ Append(s, t) = s \o u /\ WordsOf(Append(s, t)) = WordsOf(s) \o WordAt(t)
  BY <1>0, AppendIsConcat, WordsOfAppend
<1>7. FeedsIn(last, u) = FedAt(last, t) /\ MarksIn(last, u) = MarkAt(last, t) /\ LastOf(last, u) = t
  BY <1>0, <1>2, CarriedByOne
<1>. HIDE DEF u
<1>8. /\ FeedsIn(start, s \o u) = FeedsIn(start, s) + FeedsIn(last, u)
      /\ MarksIn(start, s \o u) = MarksIn(start, s) \o MarksIn(last, u)
      /\ LastOf(start, s \o u) = LastOf(last, u)
  BY <1>0, <1>6, CarriedJoined DEF last
<1>9. /\ AllWords(q.elements) \o WordsOf(q.text) = WordsOf(s \o u)
      /\ Feeds(q.elements) = FeedsIn(start, s \o u) /\ Marks(q.elements) = MarksIn(start, s \o u)
      /\ LastOf(start, s \o u) = t
  BY <1>5, <1>6, <1>7, <1>8
<1>10. HasRead(q, s \o u)
  BY <1>5, <1>9 DEF HasRead, start
<1>. QED
  BY <1>6, <1>10 DEF q

-----------------------------------------------------------------------------
(* The elements of a document have their words in order.                   *)

\* The identities of the words of some lines, and lines that are in order.
IdsOf(lines) == UNION {Ids(lines[l]) : l \in 1 .. Len(lines)}
LinesInOrder(lines) ==
  /\ \A l \in 1 .. Len(lines) : Ordered(lines[l])
  /\ \A l, m \in 1 .. Len(lines) : l < m => \A x \in Ids(lines[l]), y \in Ids(lines[m]) : Before(x, y)

\* Lines in order, joined, are words in order.
LEMMA LinesOrdered ==
  ASSUME NEW lines \in Seq(Seq(NamedWords))
  PROVE  /\ Ids(FlattenSeq(lines)) = IdsOf(lines)
         /\ LinesInOrder(lines) => Ordered(FlattenSeq(lines))
<1>. DEFINE Good(s) == /\ Ids(FlattenSeq(s)) = IdsOf(s)
                       /\ LinesInOrder(s) => Ordered(FlattenSeq(s))
            T == {s \in Seq(Seq(NamedWords)) : Good(s)}
<1>1. << >> \in T
  <2>1. << >> \in Seq(Seq(NamedWords)) /\ FlattenSeq(<< >>) = << >> /\ Len(<< >>) = 0
    BY EmptySeq, FlattenFacts
  <2>2. IdsOf(<< >>) = {} /\ Ordered(<< >>) /\ Ids(<< >>) = {}
    BY <2>1, NoWords DEF IdsOf, Ordered
  <2>. QED
    BY <2>1, <2>2
<1>2. ASSUME NEW s \in T, NEW w \in Seq(NamedWords) PROVE Append(s, w) \in T
  <2>. DEFINE a == Append(s, w)
              f == FlattenSeq(s)
  <2>1. s \in Seq(Seq(NamedWords)) /\ Good(s)
    OBVIOUS
  <2>2. /\ a \in Seq(Seq(NamedWords)) /\ Len(a) = Len(s) + 1 /\ Len(s) \in Nat
        /\ (\A l \in 1 .. Len(s) : a[l] = s[l]) /\ a[Len(s) + 1] = w
    BY <2>1, AppendProperties, LenProperties
  <2>3. FlattenSeq(a) = f \o w /\ f \in Seq(NamedWords)
    BY <2>1, FlattenFacts
  <2>. HIDE DEF a, f, Good, T
  <2>4. Ids(f \o w) = Ids(f) \cup Ids(w)
    BY <2>3, WordsJoined
  <2>5. Ordered(f \o w) <=> /\ Ordered(f) /\ Ordered(w)
                            /\ \A x \in Ids(f), y \in Ids(w) : Before(x, y)
    BY <2>3, OrderJoined
  <2>6. Ids(f) = IdsOf(s) /\ (LinesInOrder(s) => Ordered(f))
    BY <2>1 DEF Good, f
  <2>7. IdsOf(a) = IdsOf(s) \cup Ids(w)
    <3>1. \A x : x \in IdsOf(s) <=> \E l \in 1 .. Len(s) : x \in Ids(s[l])
      BY DEF IdsOf
    <3>2. \A x : x \in IdsOf(a) <=> \E l \in 1 .. Len(a) : x \in Ids(a[l])
      BY DEF IdsOf
    <3>3. \A l \in 1 .. Len(a) : l \in 1 .. Len(s) \/ l = Len(s) + 1
      BY <2>2
    <3>4. Len(s) + 1 \in 1 .. Len(a) /\ \A l \in 1 .. Len(s) : l \in 1 .. Len(a)
      BY <2>2
    <3>5. \A x \in IdsOf(a) : x \in IdsOf(s) \/ x \in Ids(w)
      BY <2>2, <3>1, <3>2, <3>3
    <3>6. \A x : x \in IdsOf(s) \/ x \in Ids(w) => x \in IdsOf(a)
      BY <2>2, <3>1, <3>2, <3>4
    <3>. QED
      BY <3>5, <3>6
  <2>8. ASSUME LinesInOrder(a) PROVE Ordered(f \o w)
    <3>1. Ordered(w) /\ LinesInOrder(s)
      BY <2>2, <2>8 DEF LinesInOrder
    <3>2. ASSUME NEW x \in IdsOf(s), NEW y \in Ids(w) PROVE Before(x, y)
      <4>1. PICK l \in 1 .. Len(s) : x \in Ids(s[l])
        BY DEF IdsOf
      <4>2. l \in 1 .. Len(a) /\ Len(s) + 1 \in 1 .. Len(a) /\ l < Len(s) + 1
        BY <2>2
      <4>3. x \in Ids(a[l]) /\ y \in Ids(a[Len(s) + 1])
        BY <2>2, <4>1
      <4>. QED
        BY <2>8, <4>2, <4>3 DEF LinesInOrder
    <3>. QED
      BY <2>5, <2>6, <3>1, <3>2
  <2>9. Good(a)
    BY <2>3, <2>4, <2>6, <2>7, <2>8 DEF Good
  <2>. QED
    BY <2>2, <2>9 DEF T, a
<1>3. T \in SUBSET Seq(Seq(NamedWords))
  OBVIOUS
<1>4. \A s \in T : Good(s)
  OBVIOUS
<1>. HIDE DEF T, Good
<1>5. T = Seq(Seq(NamedWords))
  BY <1>1, <1>2, <1>3, EverySequence
<1>. QED
  BY <1>4, <1>5 DEF Good

\* The words of a named line are in order and have its column.
LEMMA NamedLineOrder ==
  ASSUME NEW words \in Seq(Glyphs), NEW at \in Nat, NEW column \in Nat
  PROVE  LET line == NamedLine(words, at, column)
         IN  Ordered(line) /\ \A x \in Ids(line) : x[1] = at /\ x[2] = column
<1>. DEFINE line == NamedLine(words, at, column)
<1>1. Len(words) \in Nat
  BY LenProperties
<1>2. Len(line) = Len(words) /\ \A i \in 1 .. Len(words) : line[i].id = <<at, column, i>>
  BY <1>1 DEF NamedLine, NamedWord
<1>. HIDE DEF line
<1>3. Ordered(line)
  <2>. SUFFICES ASSUME NEW i \in 1 .. Len(words), NEW j \in 1 .. Len(words), i < j
                PROVE  Before(line[i].id, line[j].id)
    BY <1>2 DEF Ordered
  <2>1. i <= j
    BY <1>1
  <2>. QED
    BY <1>2, <2>1 DEF Before
<1>4. ASSUME NEW x \in Ids(line) PROVE x[1] = at /\ x[2] = column
  <2>1. PICK i \in 1 .. Len(words) : x = line[i].id
    BY <1>2 DEF Ids
  <2>. QED
    BY <1>2, <2>1
<1>. QED
  BY <1>3, <1>4 DEF line

\* So are those of a named cell.
LEMMA NamedCellOrder ==
  ASSUME NEW cell \in Seq(Pieces), NEW at \in Nat, NEW column \in Nat
  PROVE  LET words == WordsOf(NamedCell(cell, at, column))
         IN  Ordered(words) /\ \A x \in Ids(words) : x[1] = at /\ x[2] = column
<1>. DEFINE n == Len(cell)
            named == NamedCell(cell, at, column)
            one(i) == WordAt(named[i])
            lines == [i \in 1 .. n |-> one(i)]
            words == WordsOf(named)
<1>1. n \in Nat
  BY LenProperties
<1>2. named \in Seq(CellTokens) /\ Len(named) = n
  BY <1>1, NamedCellType DEF NamedCell
<1>3. ASSUME NEW i \in 1 .. n
      PROVE  one(i) \in Seq(NamedWords) /\ Ids(one(i)) \subseteq {<<at, column, i>>} /\ Ordered(one(i))
  <2>. DEFINE t == named[i]
              id == <<at, column, i>>
  <2>1. t \in CellTokens
    BY <1>2, ElementOfSeq
  <2>2. t \in Tokens
    BY <2>1, PiecesAreTokens
  <2>3. WordAt(t) \in Seq(NamedWords)
    BY <2>2, WordAtType
  <2>4. t.op = "word" => t.word.id = id
    BY <1>1 DEF NamedCell, Word, NamedWord
  <2>. HIDE DEF t, id
  <2>5. CASE t.op = "word"
    <3>1. WordAt(t) = <<t.word>>
      BY <2>5 DEF WordAt
    <3>. DEFINE w == t.word
                l == WordAt(t)
    <3>2. Len(l) = 1 /\ l[1] = w /\ w.id = id
      BY <2>4, <2>5, <3>1
    <3>. HIDE DEF w, l
    <3>3. Ids(l) \subseteq {id} /\ Ordered(l)
      BY <3>2 DEF Ids, Ordered
    <3>. QED
      BY <2>3, <3>3 DEF l, t, id
  <2>6. CASE t.op # "word"
    <3>1. WordAt(t) = << >>
      BY <2>6 DEF WordAt
    <3>2. Len(<< >>) = 0
      OBVIOUS
    <3>3. Ids(WordAt(t)) = {} /\ Ordered(WordAt(t))
      BY <3>1, <3>2, NoWords DEF Ordered
    <3>. QED
      BY <2>3, <3>3 DEF t
  <2>. QED
    BY <2>5, <2>6
<1>4. words = FlattenSeq(lines)
  BY <1>2 DEF WordsOf, WordAt
<1>. HIDE DEF one, words, named, n
<1>5. lines \in Seq(Seq(NamedWords))
  BY <1>1, <1>3
<1>6. Len(lines) = n /\ \A i \in 1 .. n : lines[i] = one(i)
  BY <1>1
<1>. HIDE DEF lines
<1>7. ASSUME NEW x \in IdsOf(lines) PROVE x[1] = at /\ x[2] = column
  <2>1. PICK i \in 1 .. n : x \in Ids(lines[i])
    BY <1>6 DEF IdsOf
  <2>2. x = <<at, column, i>>
    BY <1>3, <1>6, <2>1
  <2>. QED
    BY <2>2
<1>8. LinesInOrder(lines)
  <2>1. \A i \in 1 .. n : Ordered(lines[i])
    BY <1>3, <1>6
  <2>2. ASSUME NEW i \in 1 .. n, NEW j \in 1 .. n, i < j, NEW x \in Ids(lines[i]), NEW y \in Ids(lines[j])
        PROVE  Before(x, y)
    <3>1. x = <<at, column, i>> /\ y = <<at, column, j>> /\ i <= j
      BY <1>1, <1>3, <1>6, <2>2
    <3>. QED
      BY <3>1 DEF Before
  <2>. QED
    BY <1>6, <2>1, <2>2 DEF LinesInOrder
<1>9. Ids(words) = IdsOf(lines) /\ Ordered(words)
  BY <1>4, <1>5, <1>8, LinesOrdered
<1>. QED
  BY <1>7, <1>9 DEF words, named

\* The words of an element are those of its section, and tidy.
OfSection(e, at) == Tidy(e) /\ \A x \in Ids(Words(e)) : x[1] = at

\* The element of a section is.
LEMMA TidyMade ==
  ASSUME NEW width \in Widths, NEW s \in Sections, NEW at \in Nat
  PROVE  OfSection(Named(Element(s, width), at), at)
<1>. DEFINE e == Named(Element(s, width), at)
<1>1. CASE s.kind = "text"
  <2>1. s \in TextSections
    BY <1>1, SectionFacts
  <2>. DEFINE n == Len(s.lines)
              name(l) == NamedLine(s.lines[l], at, l)
              named == [l \in 1 .. n |-> name(l)]
  <2>2. e = [s EXCEPT !.lines = named]
    BY <1>1 DEF Element, Named
  <2>3. n \in Nat /\ \A l \in 1 .. n : s.lines[l] \in Seq(Glyphs)
    <3>1. s.lines \in Seq(Seq(Glyphs))
      BY <2>1 DEF TextSections
    <3>. QED
      BY <3>1, LenProperties, ElementOfSeq
  <2>4. \A l \in 1 .. n : name(l) \in Seq(NamedWords)
    BY <2>3, NamedLineType
  <2>5. \A l \in 1 .. n : Ordered(name(l)) /\ \A x \in Ids(name(l)) : x[1] = at /\ x[2] = l
    <3>. SUFFICES ASSUME NEW l \in 1 .. n
                  PROVE  Ordered(name(l)) /\ \A x \in Ids(name(l)) : x[1] = at /\ x[2] = l
      OBVIOUS
    <3>. DEFINE words == s.lines[l]
    <3>1. words \in Seq(Glyphs) /\ l \in Nat /\ name(l) = NamedLine(words, at, l)
      BY <2>3
    <3>. HIDE DEF words, name
    <3>. QED
      BY <3>1, NamedLineOrder
  <2>. HIDE DEF name, n
  <2>6. named \in Seq(Seq(NamedWords)) /\ Len(named) = n /\ \A l \in 1 .. n : named[l] = name(l)
    BY <2>3, <2>4
  <2>. HIDE DEF named, e
  <2>7. e.kind = "text" /\ e.lines = named
    BY <1>1, <2>1, <2>2 DEF TextSections
  <2>8. LinesInOrder(named)
    <3>1. ASSUME NEW l \in 1 .. n, NEW m \in 1 .. n, l < m, NEW x \in Ids(named[l]), NEW y \in Ids(named[m])
          PROVE  Before(x, y)
      <4>1. x[1] = at /\ y[1] = at /\ x[2] = l /\ y[2] = m /\ l # m
        BY <2>3, <2>5, <2>6, <3>1
      <4>. QED
        BY <4>1 DEF Before
    <3>. QED
      BY <2>5, <2>6, <3>1 DEF LinesInOrder
  <2>9. Words(e) = FlattenSeq(named)
    BY <2>7 DEF Words
  <2>10. Ordered(Words(e)) /\ Ids(Words(e)) = IdsOf(named)
    BY <2>6, <2>8, <2>9, LinesOrdered
  <2>11. \A x \in IdsOf(named) : x[1] = at
    BY <2>5, <2>6 DEF IdsOf
  <2>. QED
    BY <2>7, <2>10, <2>11 DEF OfSection, Tidy, e
<1>2. CASE s.kind = "row"
  <2>1. s \in RowSections
    BY <1>2, SectionFacts
  <2>. DEFINE left == NamedCell(s.left, at, 1)
              right == NamedCell(s.right, at, 2)
              a == WordsOf(left)
              b == WordsOf(right)
  <2>2. e = [s EXCEPT !.left = left, !.right = right]
    BY <1>2 DEF Element, Named
  <2>3. s.left \in Seq(Pieces) /\ s.right \in Seq(Pieces)
    BY <2>1 DEF RowSections
  <2>4. left \in Seq(CellTokens) /\ right \in Seq(CellTokens)
    BY <2>3, NamedCellType
  <2>5. Ordered(a) /\ \A x \in Ids(a) : x[1] = at /\ x[2] = 1
    BY <2>3, NamedCellOrder
  <2>6. Ordered(b) /\ \A x \in Ids(b) : x[1] = at /\ x[2] = 2
    BY <2>3, NamedCellOrder
  <2>. HIDE DEF left, right, e
  <2>7. e.kind = "row" /\ e.left = left /\ e.right = right
    BY <1>2, <2>1, <2>2 DEF RowSections
  <2>8. left \in Seq(Tokens) /\ right \in Seq(Tokens)
    BY <2>4, PiecesAreTokens, SeqWithin
  <2>9. a \in Seq(NamedWords) /\ b \in Seq(NamedWords)
    BY <2>8, WordsOfJoined
  <2>10. Words(e) = a \o b
    BY <2>7 DEF Words
  <2>. HIDE DEF a, b
  <2>11. \A x \in Ids(a), y \in Ids(b) : x[1] = y[1] /\ x[2] # y[2]
    BY <2>5, <2>6
  <2>12. \A x \in Ids(a), y \in Ids(b) : Before(x, y)
    BY <2>11 DEF Before
  <2>13. Ordered(a \o b)
    BY <2>5, <2>6, <2>9, <2>12, OrderJoined
  <2>14. \A x \in Ids(a \o b) : x[1] = at
    BY <2>5, <2>6, <2>9, WordsJoined
  <2>15. Beside(WordsOf(e.left), WordsOf(e.right))
    BY <2>7, <2>11 DEF Beside, a, b
  <2>. QED
    BY <2>7, <2>10, <2>13, <2>14, <2>15 DEF OfSection, Tidy, e
<1>3. CASE s.kind = "divider"
  <2>. DEFINE w == NamedWord(Rule(width), <<at, 1, 1>>)
              words == <<w>>
  <2>1. e = [kind |-> "divider", word |-> w, at |-> 0]
    BY <1>3 DEF Element, Named
  <2>2. w.id = <<at, 1, 1>>
    BY DEF NamedWord
  <2>3. w.id[1] = at
    BY <2>2
  <2>. HIDE DEF w, e
  <2>4. e.kind = "divider" /\ Words(e) = words
    BY <2>1 DEF Words
  <2>5. Len(words) = 1 /\ words[1] = w
    OBVIOUS
  <2>. HIDE DEF words
  <2>6. Ordered(words) /\ \A x \in Ids(words) : x[1] = at
    BY <2>3, <2>5 DEF Ordered, Ids
  <2>. QED
    BY <2>4, <2>6 DEF OfSection, Tidy, e
<1>4. ASSUME e.kind \notin {"text", "row", "divider"},
             e.kind = "barcode" => e.height = 80 /\ e.readable = TRUE
      PROVE  OfSection(e, at)
  <2>. HIDE DEF e
  <2>1. Words(e) = << >> /\ Len(<< >>) = 0
    BY <1>4 DEF Words
  <2>2. Ids(Words(e)) = {} /\ Ordered(Words(e))
    BY <2>1, NoWords DEF Ordered
  <2>. QED
    BY <1>4, <2>2 DEF OfSection, Tidy
<1>5. CASE s.kind = "barcode"
  <2>1. s \in BarcodeSections
    BY <1>5, SectionFacts
  <2>. DEFINE g == [s EXCEPT !.height = 80, !.readable = TRUE]
  <2>2. Element(s, width) = g
    BY <1>5 DEF Element
  <2>3. g.kind = "barcode" /\ g.height = 80 /\ g.readable = TRUE
    BY <1>5, <2>1 DEF BarcodeSections
  <2>. HIDE DEF g
  <2>4. e = g
    BY <2>2, <2>3 DEF Named
  <2>. QED
    BY <1>4, <2>3, <2>4
<1>6. CASE s.kind = "image"
  <2>. DEFINE g == FromGray(Shrunk(s, width))
  <2>1. s \in ImageSections
    BY <1>6, SectionFacts
  <2>2. Element(s, width) = g
    BY <1>6 DEF Element
  <2>3. g \in ImageElements
    BY <2>1, ImageShrunk
  <2>. HIDE DEF g
  <2>4. g.kind = "image"
    BY <2>3 DEF ImageElements
  <2>5. e = g
    BY <2>2, <2>4 DEF Named
  <2>. QED
    BY <1>4, <2>4, <2>5
<1>7. CASE s.kind \notin {"text", "row", "divider", "image", "barcode"}
  <2>1. e = s
    BY <1>7 DEF Element, Named
  <2>. QED
    BY <1>4, <1>7, <2>1
<1>. QED
  BY <1>1, <1>2, <1>3, <1>5, <1>6, <1>7

\* The elements of a valid document have all their words in order.
LEMMA ElementsTidy ==
  ASSUME DocumentOK
  PROVE  /\ \A i \in 1 .. Len(Elements) : Tidy(Elements[i])
         /\ Elements \in Seq(LayoutElements) => Ordered(AllWords(Elements))
<1>. DEFINE n == Len(doc.sections)
            made(i) == Named(Element(doc.sections[i], doc.width), i)
            line(i) == Words(made(i))
            lines == [i \in 1 .. n |-> line(i)]
<1>1. n \in Nat /\ \A i \in 1 .. n : doc.sections[i] \in Sections
  BY LenProperties, ElementOfSeq DEF DocumentOK
<1>2. doc.width \in Widths
  BY DEF DocumentOK
<1>3. Len(Elements) = n /\ \A i \in 1 .. n : Elements[i] = made(i)
  BY <1>1 DEF Elements
<1>4. \A i \in 1 .. n : OfSection(made(i), i)
  BY <1>1, <1>2, TidyMade
<1>5. \A i \in 1 .. Len(Elements) : Tidy(Elements[i])
  BY <1>3, <1>4 DEF OfSection
<1>. HIDE DEF made, n
<1>6. \A i \in 1 .. n : Ordered(line(i)) /\ \A x \in Ids(line(i)) : x[1] = i
  BY <1>4 DEF OfSection, Tidy
<1>7. ASSUME Elements \in Seq(LayoutElements) PROVE Ordered(AllWords(Elements))
  <2>1. \A i \in 1 .. n : made(i) \in LayoutElements
    BY <1>3, <1>7, ElementOfSeq
  <2>2. \A i \in 1 .. n : line(i) \in Seq(NamedWords)
    BY <2>1, ContentType
  <2>3. AllWords(Elements) = FlattenSeq(lines)
    BY <1>3 DEF AllWords
  <2>. HIDE DEF line
  <2>4. lines \in Seq(Seq(NamedWords)) /\ Len(lines) = n /\ \A i \in 1 .. n : lines[i] = line(i)
    BY <1>1, <2>2
  <2>. HIDE DEF lines
  <2>5. ASSUME NEW l \in 1 .. n, NEW m \in 1 .. n, l < m, NEW x \in Ids(lines[l]), NEW y \in Ids(lines[m])
        PROVE  Before(x, y)
    <3>1. x[1] = l /\ y[1] = m /\ l < m
      BY <1>6, <2>4, <2>5
    <3>. QED
      BY <3>1 DEF Before
  <2>6. LinesInOrder(lines)
    BY <1>6, <2>4, <2>5 DEF LinesInOrder
  <2>. QED
    BY <2>3, <2>4, <2>6, LinesOrdered
<1>. QED
  BY <1>5, <1>7

-----------------------------------------------------------------------------
(* The invariant: what a document has, the stream and the layout that is   *)
(* left have, and then the stream, and then the interpreter's elements.    *)

\* Words, fed lines and marks are those of a layout.
Same(elements, words, fed, marks) ==
  /\ SameInk(words, AllWords(elements)) /\ Ordered(words)
  /\ fed = Feeds(elements) /\ marks = Marks(elements)

Start == Command("init")

WrittenInv ==
  pc = "encode" =>
    /\ stream \in Seq(BarTokens) /\ Rests(LastOf(Start, stream))
    /\ \A i \in 1 .. Len(layout) : Tidy(layout[i])
    /\ Same(Elements, WordsOf(stream) \o AllWords(layout), FeedsIn(Start, stream) + Feeds(layout),
            MarksIn(Start, stream) \o Marks(layout))

ReadInv ==
  pc = "interpret" =>
    /\ stream \in Seq(BarTokens)
    /\ Same(Elements, WordsOf(stream), FeedsIn(Start, stream), MarksIn(Start, stream))
    /\ parser.error = "none" => HasRead(parser, SubSeq(stream, 1, parser.offset - 1))

KeptInv ==
  DrawsStream =>
    Same(Elements, AllWords(parser.elements), Feeds(parser.elements), Marks(parser.elements))

ContentInv == WrittenInv /\ ReadInv /\ KeptInv

\* The first part of a stream.
LEMMA FirstTokens ==
  ASSUME NEW S, NEW s \in Seq(S)
  PROVE  /\ Len(s) \in Nat /\ SubSeq(s, 1, 0) = << >> /\ SubSeq(s, 1, Len(s)) = s
         /\ \A k \in 1 .. Len(s) :
              /\ s[k] \in S /\ SubSeq(s, 1, k - 1) \in Seq(S)
              /\ SubSeq(s, 1, k) = Append(SubSeq(s, 1, k - 1), s[k])
              /\ k > 1 => SubSeq(s, 1, k - 1) # << >> /\ Len(SubSeq(s, 1, k - 1)) = k - 1
                          /\ SubSeq(s, 1, k - 1)[k - 1] = s[k - 1]
<1>1. Len(s) \in Nat /\ (\A k \in 1 .. Len(s) : s[k] \in S) /\ s = [i \in 1 .. Len(s) |-> s[i]]
  BY LenProperties, ElementOfSeq
<1>2. \A k \in 0 .. Len(s) :
        /\ SubSeq(s, 1, k) = [i \in 1 .. k |-> s[i]] /\ SubSeq(s, 1, k) \in Seq(S)
        /\ Len(SubSeq(s, 1, k)) = k /\ \A i \in 1 .. k : SubSeq(s, 1, k)[i] = s[i]
  <2>. SUFFICES ASSUME NEW k \in 0 .. Len(s)
                PROVE  /\ SubSeq(s, 1, k) = [i \in 1 .. k |-> s[i]] /\ SubSeq(s, 1, k) \in Seq(S)
                       /\ Len(SubSeq(s, 1, k)) = k /\ \A i \in 1 .. k : SubSeq(s, 1, k)[i] = s[i]
    OBVIOUS
  <2>. DEFINE u == [i \in 1 .. k |-> s[i]]
  <2>1. u \in Seq(S) /\ Len(u) = k /\ \A i \in 1 .. k : u[i] = s[i]
    BY <1>1
  <2>2. SubSeq(s, 1, k) = u
    BY <1>1
  <2>. QED
    BY <2>1, <2>2
<1>3. ASSUME NEW k \in 1 .. Len(s)
      PROVE  SubSeq(s, 1, k) = Append(SubSeq(s, 1, k - 1), s[k])
  <2>. DEFINE u == SubSeq(s, 1, k - 1)
              v == SubSeq(s, 1, k)
  <2>1. k - 1 \in 0 .. Len(s) /\ k \in 0 .. Len(s)
    BY <1>1
  <2>2. /\ u \in Seq(S) /\ Len(u) = k - 1 /\ \A i \in 1 .. k - 1 : u[i] = s[i]
    BY <1>2, <2>1
  <2>3. /\ v \in Seq(S) /\ Len(v) = k /\ \A i \in 1 .. k : v[i] = s[i]
    BY <1>2, <2>1
  <2>. HIDE DEF u, v
  <2>4. Len(v) = Len(u) + 1 /\ (\A i \in 1 .. Len(u) : v[i] = u[i]) /\ v[Len(v)] = s[k]
    BY <1>1, <2>2, <2>3
  <2>5. v = Append(u, v[Len(v)])
    BY <2>2, <2>3, <2>4, IsAppend
  <2>. QED
    BY <2>4, <2>5 DEF u, v
<1>4. SubSeq(s, 1, 0) = << >> /\ SubSeq(s, 1, Len(s)) = s
  <2>1. 0 \in 0 .. Len(s) /\ Len(s) \in 0 .. Len(s)
    BY <1>1
  <2>2. SubSeq(s, 1, 0) \in Seq(S) /\ Len(SubSeq(s, 1, 0)) = 0
    BY <1>2, <2>1
  <2>3. SubSeq(s, 1, 0) = << >>
    BY <2>2, EmptySeq
  <2>. QED
    BY <1>1, <1>2, <2>1, <2>3
<1>5. ASSUME NEW k \in 1 .. Len(s), k > 1
      PROVE  SubSeq(s, 1, k - 1) # << >> /\ Len(SubSeq(s, 1, k - 1)) = k - 1
             /\ SubSeq(s, 1, k - 1)[k - 1] = s[k - 1]
  <2>. DEFINE u == SubSeq(s, 1, k - 1)
  <2>1. k - 1 \in 0 .. Len(s) /\ k - 1 \in 1 .. k - 1
    BY <1>1, <1>5
  <2>2. Len(u) = k - 1 /\ u[k - 1] = s[k - 1]
    BY <1>2, <2>1
  <2>3. Len(<< >>) = 0
    OBVIOUS
  <2>. HIDE DEF u
  <2>4. u # << >>
    BY <1>1, <1>5, <2>2, <2>3
  <2>. QED
    BY <2>2, <2>4 DEF u
<1>6. \A k \in 1 .. Len(s) : SubSeq(s, 1, k - 1) \in Seq(S)
  <2>1. \A k \in 1 .. Len(s) : k - 1 \in 0 .. Len(s)
    BY <1>1
  <2>. QED
    BY <1>2, <2>1
<1>. QED
  BY <1>1, <1>3, <1>4, <1>5, <1>6

\* The command that the stream starts with.
LEMMA StartFacts ==
  /\ Start \in BarTokens /\ Start \in Tokens /\ Rests(Start)
  /\ <<Start>> \in Seq(BarTokens) /\ WordsOf(<<Start>>) = << >>
  /\ FeedsIn(Start, <<Start>>) = 0 /\ MarksIn(Start, <<Start>>) = << >>
  /\ LastOf(Start, <<Start>>) = Start
<1>1. Start.op = "init" /\ Start \in Tokens
  BY DEF Start, Command, Tokens, SettingTokens
<1>. DEFINE t == Start
<1>. HIDE DEF t
<1>2. t.op = "init" /\ t \in Tokens
  BY <1>1 DEF t
<1>3. t \in BarTokens /\ <<t>> \in Seq(BarTokens)
  BY <1>2 DEF BarTokens
<1>4. ~Prints(t) /\ ~Stores(t) /\ Rests(t) /\ WordAt(t) = << >>
  BY <1>2 DEF Prints, Stores, Rests, Inline, WordAt
<1>5. FedAt(t, t) = 0 /\ MarkAt(t, t) = << >>
  BY <1>2, <1>4 DEF FedAt, MarkAt
<1>6. /\ FeedsIn(t, <<t>>) = FedAt(t, t) /\ MarksIn(t, <<t>>) = MarkAt(t, t) /\ LastOf(t, <<t>>) = t
  BY <1>2, CarriedByOne
<1>7. WordsOf(<<t>>) = WordAt(t)
  BY <1>2, WordsOfJoined
<1>. QED
  BY <1>2, <1>3, <1>4, <1>5, <1>6, <1>7 DEF t

\* The interpreter before it starts has read nothing.
LEMMA FreshRead == ASSUME NEW width PROVE HasRead(FreshParser(width), << >>)
<1>. DEFINE p == FreshParser(width)
<1>1. p.elements = << >> /\ p.text = << >> /\ p.height = 80 /\ p.readable = TRUE
  BY DEF FreshParser
<1>. HIDE DEF p
<1>2. AllWords(<< >>) = << >> /\ Feeds(<< >>) = 0 /\ Marks(<< >>) = << >>
  BY ContentOfOne
<1>3. WordsOf(<< >>) = << >> /\ << >> \o << >> = << >>
  BY WordsOfJoined
<1>4. FeedsIn(Start, << >>) = 0 /\ MarksIn(Start, << >>) = << >> /\ LastOf(Start, << >>) = Start
  BY StartFacts, CarriedByOne
<1>5. ~Inline(Start) /\ ~Stores(Start)
  BY StartFacts DEF Rests
<1>. QED
  BY <1>1, <1>2, <1>3, <1>4, <1>5 DEF HasRead, Start, p

\* Some words of a document are replaced by what was written of them.
LEMMA WordsReplaced ==
  ASSUME NEW a \in Seq(NamedWords), NEW b \in Seq(NamedWords), NEW c \in Seq(NamedWords),
         NEW d \in Seq(NamedWords), SameInk(d, b), Ordered(d), Ordered(a \o (b \o c))
  PROVE  Ordered((a \o d) \o c) /\ SameInk((a \o d) \o c, a \o (b \o c))
<1>. DEFINE bc == b \o c
            dc == d \o c
<1>1. /\ bc \in Seq(NamedWords) /\ Ids(bc) = Ids(b) \cup Ids(c)
      /\ dc \in Seq(NamedWords) /\ Ids(dc) = Ids(d) \cup Ids(c)
  BY WordsJoined
<1>2. Ids(b) = Ids(d)
  BY DEF SameInk
<1>3. Ordered(bc) <=> /\ Ordered(b) /\ Ordered(c) /\ \A x \in Ids(b), y \in Ids(c) : Before(x, y)
  BY OrderJoined
<1>4. Ordered(dc) <=> /\ Ordered(d) /\ Ordered(c) /\ \A x \in Ids(d), y \in Ids(c) : Before(x, y)
  BY OrderJoined
<1>5. SameInk(c, c) /\ SameInk(a, a)
  BY DEF SameInk
<1>6. SameInk(dc, bc)
  BY <1>5, SameInkJoined
<1>. HIDE DEF bc, dc
<1>7. Ordered(a \o bc)
  BY DEF bc
<1>8. Ordered(a \o bc) <=> /\ Ordered(a) /\ Ordered(bc) /\ \A x \in Ids(a), y \in Ids(bc) : Before(x, y)
  BY <1>1, OrderJoined
<1>9. Ordered(a \o dc) <=> /\ Ordered(a) /\ Ordered(dc) /\ \A x \in Ids(a), y \in Ids(dc) : Before(x, y)
  BY <1>1, OrderJoined
<1>10. Ordered(a \o dc)
  BY <1>1, <1>2, <1>3, <1>4, <1>7, <1>8, <1>9
<1>11. SameInk(a \o dc, a \o bc)
  BY <1>1, <1>5, <1>6, SameInkJoined
<1>12. (a \o d) \o c = a \o dc
  BY RegroupWords DEF dc
<1>. QED
  BY <1>10, <1>11, <1>12 DEF bc

\* A step into a state that none of the three parts speaks of.
LEMMA NothingToKeep ==
  ASSUME pc' \notin {"encode", "interpret", "canvas", "draw", "done"} PROVE ContentInv'
BY DEF ContentInv, WrittenInv, ReadInv, KeptInv, DrawsStream

\* A refusal is such a step.
LEMMA FailKeepsContent == ASSUME NEW error \in Errors, Fail(error) PROVE ContentInv'
BY NothingToKeep DEF Fail, Errors

\* While the page is drawn the elements stay.
LEMMA DrawingKeepsContent ==
  ASSUME ContentInv, doc' = doc, target' = target, parser' = parser,
         pc \in {"canvas", "draw", "done"}, pc' \in {"canvas", "draw", "done"}
  PROVE  ContentInv'
<1>1. Elements' = Elements
  BY DEF Elements
<1>2. DrawsStream' => DrawsStream
  BY DEF DrawsStream
<1>3. KeptInv'
  <2>. SUFFICES ASSUME DrawsStream'
                PROVE  Same(Elements, AllWords(parser.elements), Feeds(parser.elements), Marks(parser.elements))'
    BY DEF KeptInv
  <2>1. Same(Elements, AllWords(parser.elements), Feeds(parser.elements), Marks(parser.elements))
    BY <1>2 DEF ContentInv, KeptInv
  <2>. DEFINE made == Elements
  <2>2. made' = made
    BY <1>1
  <2>3. Same(made, AllWords(parser.elements), Feeds(parser.elements), Marks(parser.elements))
    BY <2>1
  <2>. HIDE DEF made
  <2>4. Same(made', AllWords(parser'.elements), Feeds(parser'.elements), Marks(parser'.elements))
    BY <2>2, <2>3
  <2>. QED
    BY <2>4 DEF made
<1>4. WrittenInv' /\ ReadInv'
  BY DEF WrittenInv, ReadInv
<1>. QED
  BY <1>3, <1>4 DEF ContentInv

\* Each action keeps the invariant.
LEMMA ValidateKeepsContent == ASSUME Validate PROVE ContentInv'
BY NothingToKeep DEF Validate, Fail

\* The stream of a receipt starts with its first command, all of the layout
\* is left; a page is drawn from the layout itself.
LEMMA FromDocumentKeepsContent == ASSUME IInv, FromDocument PROVE ContentInv'
<1>1. CASE Fail("InvalidImage")
  BY <1>1, FailKeepsContent DEF Errors
<1>2. CASE ~Fail("InvalidImage") /\ target.kind = "page"
  <2>1. pc' = "canvas" /\ target' = target
    BY <1>2 DEF FromDocument
  <2>. QED
    BY <1>2, <2>1 DEF ContentInv, WrittenInv, ReadInv, KeptInv, DrawsStream
<1>3. CASE ~Fail("InvalidImage") /\ target.kind # "page"
  <2>1. /\ pc = "layout" /\ pc' = "encode" /\ doc' = doc /\ layout' = Elements
        /\ stream' = <<Start>>
    BY <1>3 DEF FromDocument, Start
  <2>. DEFINE made == Elements
              words == AllWords(made)
              marks == Marks(made)
  <2>2. made' = made
    BY <2>1 DEF Elements
  <2>3. made \in Seq(LayoutElements) /\ (\A i \in 1 .. Len(made) : Tidy(made[i])) /\ Ordered(words)
    <3>1. DocumentOK
      BY DEF IInv
    <3>2. Elements \in Seq(LayoutElements)
      BY <2>1, <3>1, ElementsMade
    <3>. QED
      BY <3>1, <3>2, ElementsTidy
  <2>4. layout' = made
    BY <2>1
  <2>. HIDE DEF made
  <2>5. words \in Seq(NamedWords) /\ Feeds(made) \in Int /\ marks \in Seq(MarkSet)
    <3>1. [kind |-> "cut", at |-> 0] \in LayoutElements
      BY DEF LayoutElements, CutElements
    <3>. QED
      BY <2>3, <3>1, ContentAppend
  <2>. HIDE DEF words, marks
  <2>6. << >> \o words = words /\ << >> \o marks = marks /\ 0 + Feeds(made) = Feeds(made)
    BY <2>5, ConcatEmptySeq
  <2>7. SameInk(words, words)
    BY DEF SameInk
  <2>8. Same(made, words, Feeds(made), marks)
    BY <2>3, <2>7 DEF Same, words, marks
  <2>9. /\ WordsOf(stream') \o AllWords(layout') = words
        /\ FeedsIn(Start, stream') + Feeds(layout') = Feeds(made)
        /\ MarksIn(Start, stream') \o Marks(layout') = marks
    BY <2>1, <2>4, <2>6, StartFacts DEF words, marks
  <2>10. /\ stream' \in Seq(BarTokens) /\ Rests(LastOf(Start, stream'))
         /\ \A i \in 1 .. Len(layout') : Tidy(layout'[i])
    BY <2>1, <2>3, <2>4, StartFacts
  <2>11. Same(made', WordsOf(stream') \o AllWords(layout'), FeedsIn(Start, stream') + Feeds(layout'),
              MarksIn(Start, stream') \o Marks(layout'))
    BY <2>2, <2>8, <2>9
  <2>12. WrittenInv'
    BY <2>10, <2>11 DEF WrittenInv, made
  <2>. QED
    BY <2>1, <2>12 DEF ContentInv, ReadInv, KeptInv, DrawsStream
<1>. QED
  BY <1>1, <1>2, <1>3

\* What is written of an element has its contents.
LEMMA EncodeKeepsContent == ASSUME IInv, ContentInv, Encode PROVE ContentInv'
<1>. DEFINE e == Head(layout)
            why == EncodeError(e)
<1>1. why \in {"none", "UnicodeRequiresRasterization", "InvalidBarcode"}
  BY DEF EncodeError
<1>2. CASE why # "none"
  <2>1. Fail(why)
    BY <1>2 DEF Encode
  <2>2. why \in Errors
    BY <1>1, <1>2 DEF Errors
  <2>. HIDE DEF why
  <2>. QED
    BY <2>1, <2>2, FailKeepsContent
<1>3. CASE why = "none"
  <2>. DEFINE more == EncodeElement(e, doc.width)
              rest == Tail(layout)
              made == Elements
              last == LastOf(Start, stream)
  <2>1. /\ pc = "encode" /\ pc' = pc /\ doc' = doc /\ layout # << >>
        /\ layout' = rest /\ stream' = stream \o more
    BY <1>3 DEF Encode
  <2>2. made' = made
    BY <2>1 DEF Elements
  <2>3. /\ stream \in Seq(BarTokens) /\ Rests(last)
        /\ \A i \in 1 .. Len(layout) : Tidy(layout[i])
        /\ Same(made, WordsOf(stream) \o AllWords(layout), FeedsIn(Start, stream) + Feeds(layout),
                MarksIn(Start, stream) \o Marks(layout))
    BY <2>1 DEF ContentInv, WrittenInv
  <2>4. layout \in Seq(LayoutElements) /\ \A i \in 1 .. Len(layout) : Encodable(layout[i])
    BY <2>1 DEF IInv, LayoutOK
  <2>5. /\ rest \in Seq(LayoutElements) /\ Len(rest) = Len(layout) - 1
        /\ (\A i \in 1 .. Len(rest) : rest[i] = layout[i + 1])
        /\ Len(layout) \in Nat /\ 1 \in 1 .. Len(layout) /\ e = layout[1]
    BY <2>1, <2>4, HeadTailProperties, LenProperties, EmptySeq
  <2>6. Encodable(e) /\ Tidy(e) /\ e \in LayoutElements
    BY <2>3, <2>4, <2>5 DEF Encodable
  <2>7. doc.width \in Widths
    BY DEF IInv, DocumentOK
  <2>8. more \in Seq(BarTokens)
    BY <2>6, <2>7, BarsWritten
  <2>9. PICK words \in Seq(NamedWords) :
          /\ SameInk(words, Words(e)) /\ Ordered(words) /\ Carries(more, words, Fed(e), Mark(e))
    BY <2>6, <2>7, ElementWritten
  <2>. HIDE DEF more, rest, made, e
  <2>10. layout = <<e>> \o rest
    <3>. DEFINE u == <<e>>
    <3>1. u \in Seq(LayoutElements) /\ Len(u) = 1 /\ u[1] = e
      BY <2>6
    <3>. HIDE DEF u
    <3>2. Len(layout) = Len(u) + Len(rest)
      BY <2>5, <3>1
    <3>3. \A i \in 1 .. Len(u) : layout[i] = u[i]
      BY <2>5, <3>1
    <3>4. \A i \in 1 .. Len(rest) : layout[Len(u) + i] = rest[i]
      BY <2>5, <3>1
    <3>5. layout = u \o rest
      BY <2>4, <2>5, <3>1, <3>2, <3>3, <3>4, IsConcat
    <3>. QED
      BY <3>5 DEF u
  <2>. DEFINE one == <<e>>
              a == WordsOf(stream)
              b == Words(e)
              c == AllWords(rest)
              k == MarksIn(Start, stream)
              l == Mark(e)
              m == Marks(rest)
              f == FeedsIn(Start, stream)
  <2>11. one \in Seq(LayoutElements)
    BY <2>6
  <2>12. AllWords(one) = b /\ Feeds(one) = Fed(e) /\ Marks(one) = l
    BY <2>6, ContentOfOne
  <2>. HIDE DEF one
  <2>13. /\ AllWords(layout) = b \o c /\ Feeds(layout) = Fed(e) + Feeds(rest) /\ Marks(layout) = l \o m
    BY <2>5, <2>10, <2>11, <2>12, ContentJoined DEF one
  <2>14. stream \in Seq(Tokens) /\ more \in Seq(Tokens) /\ stream \o more \in Seq(BarTokens)
    <3>1. BarTokens \subseteq Tokens
      BY DEF BarTokens
    <3>. QED
      BY <2>3, <2>8, <3>1, SeqWithin, ConcatProperties
  <2>15. last \in Tokens /\ k \in Seq(MarkSet) /\ f \in Int
    BY <2>14, StartFacts, PrevType, CarriedTypes
  <2>16. a \in Seq(NamedWords)
    BY <2>14, WordsOfJoined
  <2>17. b \in Seq(NamedWords) /\ Fed(e) \in Int /\ l \in Seq(MarkSet)
    BY <2>6, ContentType
  <2>18. c \in Seq(NamedWords) /\ Feeds(rest) \in Int /\ m \in Seq(MarkSet)
    BY <2>5, <2>6, ContentAppend
  <2>. HIDE DEF last
  <2>19. /\ WordsOf(more) = words /\ FeedsIn(last, more) = Fed(e) /\ MarksIn(last, more) = l
         /\ Rests(LastOf(last, more))
    BY <2>3, <2>9, <2>15 DEF Carries
  <2>20. WordsOf(stream \o more) = a \o words
    BY <2>14, <2>19, WordsOfJoined
  <2>21. /\ FeedsIn(Start, stream \o more) = f + FeedsIn(last, more)
         /\ MarksIn(Start, stream \o more) = k \o MarksIn(last, more)
         /\ LastOf(Start, stream \o more) = LastOf(last, more)
    BY <2>14, StartFacts, CarriedJoined DEF last
  <2>. HIDE DEF a, b, c, k, l, m, f
  <2>22. Same(made, a \o (b \o c), f + (Fed(e) + Feeds(rest)), k \o (l \o m))
    BY <2>3, <2>13 DEF a, f, k
  <2>23. Ordered((a \o words) \o c) /\ SameInk((a \o words) \o c, a \o (b \o c))
    <3>1. SameInk(words, b) /\ Ordered(words) /\ Ordered(a \o (b \o c))
      BY <2>9, <2>22 DEF Same, b
    <3>. QED
      BY <2>16, <2>17, <2>18, <3>1, WordsReplaced
  <2>24. (k \o l) \o m = k \o (l \o m)
    BY <2>15, <2>17, <2>18, RegroupMarks
  <2>25. (f + Fed(e)) + Feeds(rest) = f + (Fed(e) + Feeds(rest))
    BY <2>15, <2>17, <2>18
  <2>26. Same(made, (a \o words) \o c, (f + Fed(e)) + Feeds(rest), (k \o l) \o m)
    BY <2>22, <2>23, <2>24, <2>25 DEF Same, SameInk
  <2>27. /\ WordsOf(stream') \o AllWords(layout') = (a \o words) \o c
         /\ FeedsIn(Start, stream') + Feeds(layout') = (f + Fed(e)) + Feeds(rest)
         /\ MarksIn(Start, stream') \o Marks(layout') = (k \o l) \o m
    BY <2>1, <2>19, <2>20, <2>21 DEF c, m
  <2>28. Same(made', WordsOf(stream') \o AllWords(layout'), FeedsIn(Start, stream') + Feeds(layout'),
              MarksIn(Start, stream') \o Marks(layout'))
    BY <2>2, <2>26, <2>27
  <2>29. stream' \in Seq(BarTokens) /\ Rests(LastOf(Start, stream'))
    BY <2>1, <2>14, <2>19, <2>21
  <2>30. \A i \in 1 .. Len(layout') : Tidy(layout'[i])
    <3>1. \A i \in 1 .. Len(rest) : i + 1 \in 1 .. Len(layout)
      BY <2>5
    <3>2. \A i \in 1 .. Len(rest) : Tidy(rest[i])
      BY <2>3, <2>5, <3>1
    <3>. QED
      BY <2>1, <3>2
  <2>31. WrittenInv'
    BY <2>28, <2>29, <2>30 DEF WrittenInv, made
  <2>. QED
    BY <2>1, <2>31 DEF ContentInv, ReadInv, KeptInv, DrawsStream
<1>. QED
  BY <1>2, <1>3

\* The complete stream has what the document has.
LEMMA FinishEncodeKeepsContent == ASSUME IInv, ContentInv, FinishEncode PROVE ContentInv'
<1>1. CASE Fail("OutputTooLarge")
  BY <1>1, FailKeepsContent DEF Errors
<1>2. CASE ~Fail("OutputTooLarge")
  <2>. DEFINE made == Elements
              a == WordsOf(stream)
              f == FeedsIn(Start, stream)
              k == MarksIn(Start, stream)
  <2>1. /\ pc = "encode" /\ pc' = "interpret" /\ doc' = doc /\ stream' = stream /\ parser' = parser
        /\ layout = << >>
    BY <1>2 DEF FinishEncode
  <2>2. made' = made
    BY <2>1 DEF Elements
  <2>3. /\ stream \in Seq(BarTokens)
        /\ Same(made, a \o AllWords(layout), f + Feeds(layout), k \o Marks(layout))
    BY <2>1 DEF ContentInv, WrittenInv
  <2>4. stream \in Seq(Tokens)
    <3>1. BarTokens \subseteq Tokens
      BY DEF BarTokens
    <3>. QED
      BY <2>3, <3>1, SeqWithin
  <2>5. a \in Seq(NamedWords) /\ f \in Int /\ k \in Seq(MarkSet)
    BY <2>4, StartFacts, WordsOfJoined, CarriedTypes
  <2>6. AllWords(layout) = << >> /\ Feeds(layout) = 0 /\ Marks(layout) = << >>
    BY <2>1, ContentOfOne
  <2>. HIDE DEF made, a, f, k
  <2>7. a \o << >> = a /\ f + 0 = f /\ k \o << >> = k
    BY <2>5, ConcatEmptySeq
  <2>8. Same(made, a, f, k)
    BY <2>3, <2>6, <2>7
  <2>9. Same(made', WordsOf(stream'), FeedsIn(Start, stream'), MarksIn(Start, stream'))
    BY <2>1, <2>2, <2>8 DEF a, f, k
  <2>10. parser = FreshParser(doc.width) /\ parser.offset = 1
    <3>1. parser = FreshParser(doc.width)
      BY <2>1 DEF IInv, ParserInv
    <3>. QED
      BY <3>1 DEF FreshParser
  <2>11. SubSeq(stream, 1, parser.offset - 1) = << >>
    BY <2>4, <2>10, FirstTokens
  <2>12. HasRead(parser, SubSeq(stream, 1, parser.offset - 1))
    BY <2>10, <2>11, FreshRead
  <2>13. HasRead(parser', SubSeq(stream', 1, parser'.offset - 1))
    BY <2>1, <2>12
  <2>14. stream' \in Seq(BarTokens)
    BY <2>1, <2>3
  <2>15. ReadInv'
    BY <2>9, <2>13, <2>14 DEF ReadInv, made
  <2>. QED
    BY <2>1, <2>15 DEF ContentInv, WrittenInv, KeptInv, DrawsStream
<1>. QED
  BY <1>1, <1>2

\* The interpreter has what the part of the stream before it has.
LEMMA InterpretKeepsContent == ASSUME IInv, ContentInv, Interpret PROVE ContentInv'
<1>. DEFINE k == parser.offset
            t == stream[k]
            s == SubSeq(stream, 1, k - 1)
            q == ParseToken(parser, t)
            made == Elements
<1>1. /\ pc = "interpret" /\ pc' = pc /\ doc' = doc /\ stream' = stream /\ parser' = q
      /\ k <= Len(stream) /\ parser.error = "none"
  BY DEF Interpret
<1>2. made' = made
  BY <1>1 DEF Elements
<1>3. /\ stream \in Seq(BarTokens)
      /\ Same(made, WordsOf(stream), FeedsIn(Start, stream), MarksIn(Start, stream))
      /\ HasRead(parser, s)
  BY <1>1 DEF ContentInv, ReadInv
<1>4. parser \in Parsers /\ k \in Nat \ {0} /\ StreamOK(stream)
  BY DEF IInv, ParserInv, Parsers, StreamInv
<1>5. /\ Len(stream) \in Nat
      /\ \A i \in 1 .. Len(stream) :
           /\ stream[i] \in BarTokens /\ SubSeq(stream, 1, i - 1) \in Seq(BarTokens)
           /\ SubSeq(stream, 1, i) = Append(SubSeq(stream, 1, i - 1), stream[i])
           /\ i > 1 => SubSeq(stream, 1, i - 1) # << >> /\ Len(SubSeq(stream, 1, i - 1)) = i - 1
                       /\ SubSeq(stream, 1, i - 1)[i - 1] = stream[i - 1]
  BY <1>3, FirstTokens
<1>6. k \in 1 .. Len(stream)
  BY <1>1, <1>4, <1>5
<1>7. /\ t \in BarTokens /\ s \in Seq(BarTokens) /\ SubSeq(stream, 1, k) = Append(s, t)
      /\ k > 1 => s # << >> /\ Len(s) = k - 1 /\ s[k - 1] = stream[k - 1]
  BY <1>5, <1>6
<1>8. s \in Seq(Tokens) /\ t \in Tokens
  <2>1. BarTokens \subseteq Tokens
    BY DEF BarTokens
  <2>. QED
    BY <1>7, <2>1, SeqWithin
<1>9. Prints(t) => Stores(LastOf(Start, s))
  <2>. SUFFICES ASSUME Prints(t) PROVE Stores(LastOf(Start, s))
    OBVIOUS
  <2>1. k > 1 /\ Stores(stream[k - 1])
    BY <1>4, <1>6 DEF StreamOK
  <2>. HIDE DEF s
  <2>2. LastOf(Start, s) = stream[k - 1]
    BY <1>7, <2>1 DEF LastOf
  <2>. QED
    BY <2>1, <2>2
<1>10. q.offset = k + 1
  <2>1. ParseToken(parser, t).offset = parser.offset + 1
    BY <1>4, <1>8, TokenParsed
  <2>. QED
    BY <2>1
<1>. HIDE DEF t, s, q, made, k
<1>11. q.error = "none" => HasRead(q, Append(s, t))
  <2>. SUFFICES ASSUME q.error = "none" PROVE HasRead(q, Append(s, t))
    OBVIOUS
  <2>1. ParseToken(parser, t).error = "none" /\ (Prints(t) => Stores(LastOf(Command("init"), s)))
    BY <1>9 DEF q, Start
  <2>2. HasRead(ParseToken(parser, t), Append(s, t))
    BY <1>1, <1>3, <1>4, <1>7, <1>8, <2>1, StillRead
  <2>. QED
    BY <2>2 DEF q
<1>12. q.offset - 1 = k
  BY <1>4, <1>10
<1>13. q.error = "none" => HasRead(q, SubSeq(stream, 1, q.offset - 1))
  BY <1>7, <1>11, <1>12
<1>14. /\ stream' \in Seq(BarTokens)
       /\ Same(made', WordsOf(stream'), FeedsIn(Start, stream'), MarksIn(Start, stream'))
       /\ parser'.error = "none" => HasRead(parser', SubSeq(stream', 1, parser'.offset - 1))
  BY <1>1, <1>2, <1>3, <1>13
<1>15. ReadInv'
  BY <1>14 DEF ReadInv, made
<1>. QED
  BY <1>1, <1>15 DEF ContentInv, WrittenInv, KeptInv, DrawsStream

\* At the end of the stream it has what the document has.
LEMMA FinishInterpretKeepsContent == ASSUME IInv, ContentInv, FinishInterpret PROVE ContentInv'
<1>1. CASE Fail("InvalidEscPos")
  BY <1>1, FailKeepsContent DEF Errors
<1>2. CASE ~Fail("InvalidEscPos")
  <2>. DEFINE q == IF parser.error = "none" THEN FlushText(parser) ELSE parser
              made == Elements
  <2>1. /\ pc = "interpret" /\ pc' = "canvas" /\ doc' = doc /\ parser' = q
        /\ parser.offset > Len(stream) \/ parser.error # "none"
    BY <1>2 DEF FinishInterpret
  <2>2. made' = made
    BY <2>1 DEF Elements
  <2>3. CASE parser.error # "none"
    <3>1. parser' = parser
      BY <2>1, <2>3
    <3>. QED
      BY <2>1, <2>3, <3>1 DEF ContentInv, WrittenInv, ReadInv, KeptInv, DrawsStream
  <2>4. CASE parser.error = "none"
    <3>1. q = FlushText(parser)
      BY <2>4
    <3>2. parser \in Parsers /\ parser.offset \in Nat /\ parser.offset <= Len(stream) + 1
      BY DEF IInv, ParserInv, Parsers
    <3>3. /\ stream \in Seq(BarTokens)
          /\ Same(made, WordsOf(stream), FeedsIn(Start, stream), MarksIn(Start, stream))
          /\ HasRead(parser, SubSeq(stream, 1, parser.offset - 1))
      BY <2>1, <2>4 DEF ContentInv, ReadInv
    <3>4. Len(stream) \in Nat /\ SubSeq(stream, 1, Len(stream)) = stream
      BY <3>3, FirstTokens
    <3>5. parser.offset - 1 = Len(stream)
      BY <2>1, <2>4, <3>2, <3>4
    <3>6. HasRead(parser, stream)
      BY <3>3, <3>4, <3>5
    <3>. HIDE DEF q, made
    <3>7. Adds(parser, q, << >>, 0, << >>) /\ q.text = << >> /\ q \in Parsers
      BY <3>1, <3>2, FlushTextAdds
    <3>8. /\ AllWords(parser.elements) \o WordsOf(parser.text) = WordsOf(stream)
          /\ Feeds(parser.elements) = FeedsIn(Start, stream)
          /\ Marks(parser.elements) = MarksIn(Start, stream)
      BY <3>6 DEF HasRead, Start
    <3>9. /\ AllWords(q.elements) \o WordsOf(q.text) = WordsOf(stream) \o << >>
          /\ Feeds(q.elements) = FeedsIn(Start, stream) + 0
          /\ Marks(q.elements) = MarksIn(Start, stream) \o << >>
      BY <3>7, <3>8 DEF Adds
    <3>10. stream \in Seq(Tokens)
      <4>1. BarTokens \subseteq Tokens
        BY DEF BarTokens
      <4>. QED
        BY <3>3, <4>1, SeqWithin
    <3>. DEFINE a == WordsOf(stream)
                f == FeedsIn(Start, stream)
                m == MarksIn(Start, stream)
                w == AllWords(q.elements)
    <3>11. a \in Seq(NamedWords) /\ f \in Int /\ m \in Seq(MarkSet)
      BY <3>10, StartFacts, WordsOfJoined, CarriedTypes
    <3>12. w \in Seq(NamedWords)
      BY <3>7, HeldType
    <3>. HIDE DEF a, f, m, w
    <3>13. a \o << >> = a /\ f + 0 = f /\ m \o << >> = m /\ w \o << >> = w
      BY <3>11, <3>12, ConcatEmptySeq
    <3>14. WordsOf(q.text) = << >>
      BY <3>7, WordsOfJoined
    <3>15. w = a /\ Feeds(q.elements) = f /\ Marks(q.elements) = m
      BY <3>9, <3>13, <3>14 DEF a, f, m, w
    <3>16. Same(made', AllWords(parser'.elements), Feeds(parser'.elements), Marks(parser'.elements))
      BY <2>1, <2>2, <3>3, <3>15 DEF a, f, m, w
    <3>17. KeptInv'
      BY <3>16 DEF KeptInv, made
    <3>. QED
      BY <2>1, <3>17 DEF ContentInv, WrittenInv, ReadInv
  <2>. QED
    BY <2>3, <2>4
<1>. QED
  BY <1>1, <1>2

\* The page is drawn from what was read.
LEMMA NewCanvasKeepsContent == ASSUME ContentInv, NewCanvas PROVE ContentInv'
<1>1. CASE \E error \in Errors : Fail(error)
  BY <1>1, FailKeepsContent
<1>2. CASE ~\E error \in Errors : Fail(error)
  <2>1. \A e, strip : DrawError(e, strip) = "none" \/ DrawError(e, strip) \in Errors
    BY DEF DrawError, Errors
  <2>2. pc = "canvas" /\ (pc' = "draw" \/ pc' = "none") /\ doc' = doc /\ target' = target /\ parser' = parser
    BY <1>2, <2>1 DEF NewCanvas, Errors, Fail
  <2>3. CASE pc' = "none"
    BY <2>3, NothingToKeep
  <2>. QED
    BY <2>2, <2>3, DrawingKeepsContent
<1>. QED
  BY <1>1, <1>2

LEMMA DrawKeepsContent == ASSUME ContentInv, Draw PROVE ContentInv'
<1>1. CASE \E error \in Errors : Fail(error)
  BY <1>1, FailKeepsContent
<1>2. CASE ~\E error \in Errors : Fail(error)
  <2>1. \A e, strip : DrawError(e, strip) = "none" \/ DrawError(e, strip) \in Errors
    BY DEF DrawError, Errors
  <2>2. pc = "draw" /\ pc' = pc /\ doc' = doc /\ target' = target /\ parser' = parser
    BY <1>2, <2>1 DEF Draw, Errors
  <2>. QED
    BY <2>2, DrawingKeepsContent
<1>. QED
  BY <1>1, <1>2

LEMMA FinishDrawKeepsContent == ASSUME ContentInv, FinishDraw PROVE ContentInv'
<1>1. CASE Fail("OutputTooLarge")
  BY <1>1, FailKeepsContent DEF Errors
<1>2. CASE ~Fail("OutputTooLarge")
  <2>1. pc = "draw" /\ pc' = "done" /\ doc' = doc /\ target' = target /\ parser' = parser
    BY <1>2 DEF FinishDraw
  <2>. QED
    BY <2>1, DrawingKeepsContent
<1>. QED
  BY <1>1, <1>2

\* A step that changes nothing keeps it.
LEMMA StutterKeepsContent == ASSUME ContentInv, UNCHANGED vars PROVE ContentInv'
<1>1. /\ doc' = doc /\ target' = target /\ pc' = pc /\ layout' = layout
      /\ stream' = stream /\ parser' = parser
  BY DEF vars
<1>2. Elements' = Elements
  BY <1>1 DEF Elements
<1>3. DrawsStream' <=> DrawsStream
  BY <1>1 DEF DrawsStream
<1>. DEFINE made == Elements
<1>4. made' = made
  BY <1>2
<1>5. ContentInv <=>
        /\ pc = "encode" =>
             /\ stream \in Seq(BarTokens) /\ Rests(LastOf(Start, stream))
             /\ \A i \in 1 .. Len(layout) : Tidy(layout[i])
             /\ Same(made, WordsOf(stream) \o AllWords(layout), FeedsIn(Start, stream) + Feeds(layout),
                     MarksIn(Start, stream) \o Marks(layout))
        /\ pc = "interpret" =>
             /\ stream \in Seq(BarTokens)
             /\ Same(made, WordsOf(stream), FeedsIn(Start, stream), MarksIn(Start, stream))
             /\ parser.error = "none" => HasRead(parser, SubSeq(stream, 1, parser.offset - 1))
        /\ DrawsStream =>
             Same(made, AllWords(parser.elements), Feeds(parser.elements), Marks(parser.elements))
  BY DEF ContentInv, WrittenInv, ReadInv, KeptInv
<1>6. ContentInv' <=>
        /\ pc' = "encode" =>
             /\ stream' \in Seq(BarTokens) /\ Rests(LastOf(Start, stream'))
             /\ \A i \in 1 .. Len(layout') : Tidy(layout'[i])
             /\ Same(made', WordsOf(stream') \o AllWords(layout'), FeedsIn(Start, stream') + Feeds(layout'),
                     MarksIn(Start, stream') \o Marks(layout'))
        /\ pc' = "interpret" =>
             /\ stream' \in Seq(BarTokens)
             /\ Same(made', WordsOf(stream'), FeedsIn(Start, stream'), MarksIn(Start, stream'))
             /\ parser'.error = "none" => HasRead(parser', SubSeq(stream', 1, parser'.offset - 1))
        /\ DrawsStream' =>
             Same(made', AllWords(parser'.elements), Feeds(parser'.elements), Marks(parser'.elements))
  BY DEF ContentInv, WrittenInv, ReadInv, KeptInv
<1>. HIDE DEF made
<1>. QED
  BY <1>1, <1>3, <1>4, <1>5, <1>6

\* A layout that has what the document has keeps its contents.
LEMMA SameIsKept ==
  ASSUME NEW words \in Seq(NamedWords), SameInk(words, AllWords(Elements))
  PROVE  [id \in Ids(words) |-> InkOf(words, id)] = Ink(Elements)
<1>. DEFINE b == AllWords(Elements)
<1>1. Ids(words) \subseteq WordIds
  BY WordFacts
<1>2. Ink(Elements) = [id \in Ids(b) |-> InkOf(b, id)]
  BY DEF Ink
<1>3. SameInk(words, b)
  OBVIOUS
<1>. HIDE DEF b
<1>4. Ids(words) = Ids(b) /\ \A id \in WordIds : InkOf(words, id) = InkOf(b, id)
  BY <1>3 DEF SameInk
<1>. QED
  BY <1>1, <1>2, <1>4

(* A receipt survives its encoding, for all sections, page profiles and    *)
(* bounds.  Whenever escpos::parse comes to the end of the stream that     *)
(* escpos::render_layout wrote, its elements have every word of the        *)
(* document with all its columns, the words of one column of one section   *)
(* and the sections themselves in their order, as many fed lines, and the  *)
(* same codes, images and cuts: however lines were wrapped, cells were     *)
(* padded and rows were split again.                                       *)
THEOREM ContentRoundTrip == Spec => []ContentKept
<1>1. Init => ContentInv
  BY DEF Init, ContentInv, WrittenInv, ReadInv, KeptInv, DrawsStream
<1>2. ASSUME IInv, ContentInv, [Next]_vars PROVE ContentInv'
  BY <1>2, ValidateKeepsContent, FromDocumentKeepsContent, EncodeKeepsContent,
     FinishEncodeKeepsContent, InterpretKeepsContent, FinishInterpretKeepsContent,
     NewCanvasKeepsContent, DrawKeepsContent, FinishDrawKeepsContent, StutterKeepsContent DEF Next
<1>3. ASSUME IInv, ContentInv PROVE ContentKept
  <2>. SUFFICES ASSUME DrawsStream
                PROVE  /\ Ink(parser.elements) = Ink(Elements) /\ InOrder(parser.elements)
                       /\ Feeds(parser.elements) = Feeds(Elements)
                       /\ Marks(parser.elements) = Marks(Elements)
    BY DEF ContentKept
  <2>. DEFINE words == AllWords(parser.elements)
  <2>1. Same(Elements, words, Feeds(parser.elements), Marks(parser.elements))
    BY <1>3 DEF ContentInv, KeptInv
  <2>2. words \in Seq(NamedWords)
    BY <1>3, HeldType DEF IInv, ParserInv
  <2>3. Ink(parser.elements) = [id \in Ids(words) |-> InkOf(words, id)]
    BY DEF Ink
  <2>4. InOrder(parser.elements) <=> Ordered(words)
    BY DEF InOrder
  <2>. HIDE DEF words
  <2>5. SameInk(words, AllWords(Elements)) /\ Ordered(words)
    BY <2>1 DEF Same
  <2>6. Ink(parser.elements) = Ink(Elements)
    BY <2>2, <2>3, <2>5, SameIsKept
  <2>. QED
    BY <2>1, <2>4, <2>5, <2>6 DEF Same
<1>. QED
  BY <1>1, <1>2, <1>3, ReceiptInvariant, PTL DEF Spec

=============================================================================
