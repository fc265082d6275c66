--------------------------- MODULE Receipt_proofs ---------------------------
(***************************************************************************)
(* Theorems about the receipt renderer, for all sections, page profiles    *)
(* and bounds.                                                             *)
(*                                                                         *)
(* The first parts are about the operators: a wrapped line fits its width, *)
(* fit_dimensions keeps its limits, the strip of a receipt holds the       *)
(* characters that max_chars counts, and every element is drawn within the *)
(* strip and within its estimate.  Then come the tokens that the encoder   *)
(* writes and the interpreter reads, and the inductive invariant, with a   *)
(* lemma for each action.                                                  *)
(***************************************************************************)
EXTENDS Receipt, Lists_proofs

-----------------------------------------------------------------------------
(* Lines.                                                                  *)

\* The words of a layout, those of one character in each column, and those
\* without a control character.
NamedWords ==
  [id : Nat \X Nat \X Nat, width : Nat, stack : Nat, plain : BOOLEAN, dashes : BOOLEAN]
SingleWords == {w \in NamedWords : w.stack = 1}
PlainWords  == {w \in NamedWords : w.plain}

\* Words with all the pieces that they can be cut into.
Closed(W) == W \subseteq NamedWords /\ \A w \in W, n \in Nat : [w EXCEPT !.width = n] \in W

\* They are such words.
LEMMA ClosedWords == Closed(NamedWords) /\ Closed(SingleWords) /\ Closed(PlainWords)
<1>1. \A w \in NamedWords, n \in Nat :
        /\ [w EXCEPT !.width = n] \in NamedWords
        /\ [w EXCEPT !.width = n].stack = w.stack /\ [w EXCEPT !.width = n].plain = w.plain
  BY DEF NamedWords
<1>. QED
  BY <1>1 DEF Closed, SingleWords, PlainWords

\* A sequence of some of the elements.
LEMMA SeqWithin ==
  ASSUME NEW S, NEW T, S \subseteq T, NEW s \in Seq(S)
  PROVE  s \in Seq(T)
<1>1. Len(s) \in Nat /\ s = [i \in 1 .. Len(s) |-> s[i]] /\ \A i \in 1 .. Len(s) : s[i] \in T
  BY LenProperties, ElementOfSeq
<1>. QED
  BY <1>1

\* The lines of words that fit a width.
Fitting(W, width) == {l \in Seq(W) : LineWidth(l) \in 0 .. width}

\* The larger of two numbers.
LEMMA LargerType == \A a \in Int, b \in Int : Larger(a, b) \in Int /\ Larger(a, b) >= a /\ Larger(a, b) >= b
  BY DEF Larger

\* The widths of the words of a line.
WidthsOf(l) == [i \in 1 .. Len(l) |-> l[i].width]

\* What the width of a line is made of.
LEMMA WidthsOfType ==
  ASSUME NEW l \in Seq(NamedWords)
  PROVE  /\ Len(l) \in Nat /\ WidthsOf(l) \in Seq(Nat) /\ WidthsOf(l) \in Seq(Int)
         /\ Len(WidthsOf(l)) = Len(l) /\ \A i \in 1 .. Len(l) : WidthsOf(l)[i] = l[i].width
         /\ SumOf(WidthsOf(l)) \in Nat
         /\ LineWidth(l) = SumOf(WidthsOf(l)) + Larger(Len(l) - 1, 0)
<1>1. Len(l) \in Nat /\ \A i \in 1 .. Len(l) : l[i] \in NamedWords
  BY LenProperties, ElementOfSeq
<1>2. \A i \in 1 .. Len(l) : l[i].width \in Nat
  BY <1>1 DEF NamedWords
<1>3. WidthsOf(l) \in Seq(Nat) /\ WidthsOf(l) \in Seq(Int)
  BY <1>1, <1>2 DEF WidthsOf
<1>4. Len(WidthsOf(l)) = Len(l) /\ \A i \in 1 .. Len(l) : WidthsOf(l)[i] = l[i].width
  BY <1>1 DEF WidthsOf
<1>5. LineWidth(l) = SumOf(WidthsOf(l)) + Larger(Len(l) - 1, 0)
  BY DEF LineWidth, WidthsOf
<1>. QED
  BY <1>1, <1>3, <1>4, <1>5, SumOfNat

\* The widths of a line that gets another word.
LEMMA WidthsOfAppend ==
  ASSUME NEW l \in Seq(NamedWords), NEW w \in NamedWords
  PROVE  /\ Append(l, w) \in Seq(NamedWords) /\ Len(Append(l, w)) = Len(l) + 1
         /\ WidthsOf(Append(l, w)) = Append(WidthsOf(l), w.width)
<1>. DEFINE a == Append(l, w)
            b == WidthsOf(l)
            c == Append(b, w.width)
<1>1. /\ a \in Seq(NamedWords) /\ Len(a) = Len(l) + 1
      /\ \A i \in 1 .. Len(l) : a[i] = l[i]
      /\ a[Len(l) + 1] = w /\ Len(l) \in Nat
  BY AppendProperties, LenProperties
<1>2. /\ b \in Seq(Int) /\ Len(b) = Len(l) /\ \A i \in 1 .. Len(l) : b[i] = l[i].width
  BY WidthsOfType
<1>3. w.width \in Int
  BY DEF NamedWords
<1>. HIDE DEF b, a
<1>4. /\ c \in Seq(Int) /\ Len(c) = Len(l) + 1
      /\ \A i \in 1 .. Len(l) : c[i] = b[i]
      /\ c[Len(l) + 1] = w.width
  BY <1>2, <1>3, AppendProperties
<1>. HIDE DEF c
<1>5. c = [i \in 1 .. Len(l) + 1 |-> c[i]]
  BY <1>4
<1>6. \A i \in 1 .. Len(l) + 1 : a[i].width = c[i]
  <2>. SUFFICES ASSUME NEW i \in 1 .. Len(l) + 1 PROVE a[i].width = c[i]
    OBVIOUS
  <2>1. CASE i = Len(l) + 1
    BY <1>1, <1>4, <2>1
  <2>2. CASE i # Len(l) + 1
    <3>1. i \in 1 .. Len(l)
      BY <1>1, <2>2
    <3>. QED
      BY <1>1, <1>2, <1>4, <3>1
  <2>. QED
    BY <2>1, <2>2
<1>7. WidthsOf(a) = [i \in 1 .. Len(l) + 1 |-> a[i].width]
  BY <1>1 DEF WidthsOf
<1>8. WidthsOf(a) = c
  BY <1>5, <1>6, <1>7
<1>. QED
  BY <1>1, <1>8 DEF a, b, c

\* The columns of a line that gets another word.
LEMMA LineWidthAppend ==
  ASSUME NEW l \in Seq(NamedWords), NEW w \in NamedWords
  PROVE  LineWidth(Append(l, w)) = SumOf(WidthsOf(l)) + w.width + Len(l)
<1>1. w.width \in Nat
  BY DEF NamedWords
<1>2. /\ Append(l, w) \in Seq(NamedWords) /\ Len(Append(l, w)) = Len(l) + 1
      /\ WidthsOf(Append(l, w)) = Append(WidthsOf(l), w.width)
  BY WidthsOfAppend
<1>3. WidthsOf(l) \in Seq(Int) /\ Len(l) \in Nat /\ SumOf(WidthsOf(l)) \in Nat
  BY WidthsOfType
<1>4. SumOf(Append(WidthsOf(l), w.width)) = SumOf(WidthsOf(l)) + w.width
  BY <1>1, <1>3, SumOfFacts
<1>5. LineWidth(Append(l, w)) = SumOf(WidthsOf(l)) + w.width + Larger(Len(l) + 1 - 1, 0)
  <2>. DEFINE a == Append(l, w)
  <2>1. a \in Seq(NamedWords) /\ Len(a) = Len(l) + 1
        /\ SumOf(WidthsOf(a)) = SumOf(WidthsOf(l)) + w.width
    BY <1>2, <1>4
  <2>. HIDE DEF a
  <2>2. LineWidth(a) = SumOf(WidthsOf(a)) + Larger(Len(a) - 1, 0)
    BY <2>1, WidthsOfType
  <2>. QED
    BY <2>1, <2>2 DEF a
<1>6. Larger(Len(l) + 1 - 1, 0) = Len(l)
  BY <1>3 DEF Larger
<1>. QED
  BY <1>5, <1>6

\* The columns of a line grow by the word and the space before it.
LEMMA LineWidthFacts ==
  /\ LineWidth(<< >>) = 0
  /\ \A l \in Seq(NamedWords) : LineWidth(l) \in Nat
  /\ \A w \in NamedWords : LineWidth(<<w>>) = w.width
  /\ \A l \in Seq(NamedWords), w \in NamedWords :
       l # << >> => LineWidth(Append(l, w)) = LineWidth(l) + 1 + w.width
<1>1. << >> \in Seq(NamedWords) /\ Len(<< >>) = 0 /\ WidthsOf(<< >>) = << >>
  BY EmptySeq DEF WidthsOf
<1>2. SumOf(WidthsOf(<< >>)) = 0
  BY <1>1, SumOfFacts
<1>3. LineWidth(<< >>) = 0
  <2>1. LineWidth(<< >>) = 0 + Larger(0 - 1, 0)
    BY <1>1, <1>2, WidthsOfType
  <2>. QED
    BY <2>1 DEF Larger
<1>4. ASSUME NEW l \in Seq(NamedWords) PROVE LineWidth(l) \in Nat
  <2>1. Larger(Len(l) - 1, 0) \in Nat
    BY WidthsOfType DEF Larger
  <2>. QED
    BY <2>1, WidthsOfType
<1>5. ASSUME NEW w \in NamedWords PROVE LineWidth(<<w>>) = w.width
  <2>1. <<w>> = Append(<< >>, w) /\ w.width \in Nat
    BY DEF NamedWords
  <2>2. LineWidth(Append(<< >>, w)) = 0 + w.width + 0
    BY <1>1, <1>2, LineWidthAppend
  <2>. QED
    BY <2>1, <2>2
<1>6. ASSUME NEW l \in Seq(NamedWords), NEW w \in NamedWords, l # << >>
      PROVE  LineWidth(Append(l, w)) = LineWidth(l) + 1 + w.width
  <2>1. w.width \in Nat /\ Len(l) > 0 /\ Len(l) \in Nat
    BY <1>6, LenProperties, EmptySeq DEF NamedWords
  <2>2. Larger(Len(l) - 1, 0) = Len(l) - 1
    <3>1. \A n \in Nat : n > 0 => Larger(n - 1, 0) = n - 1
      BY DEF Larger
    <3>. QED
      BY <2>1, <3>1
  <2>3. LineWidth(l) = SumOf(WidthsOf(l)) + (Len(l) - 1) /\ SumOf(WidthsOf(l)) \in Nat
    BY <2>2, WidthsOfType
  <2>. QED
    BY <2>1, <2>3, LineWidthAppend
<1>. QED
  BY <1>3, <1>4, <1>5, <1>6

\* Whole division.
LEMMA DivFacts ==
  \A a \in Int, b \in Int : b > 0 => /\ a \div b \in Int /\ b * (a \div b) <= a
                                     /\ a < b * (a \div b) + b
  OBVIOUS

\* A quotient of naturals.
LEMMA DivNat == \A a \in Nat, b \in Int : b > 0 => a \div b \in Nat
  OBVIOUS

\* What is left of a word that was cut into full lines.
LEMMA CutFits ==
  ASSUME NEW w \in Nat, NEW width \in Nat, width > 0, w > width
  PROVE  LET full == (w - 1) \div width
         IN  full \in Nat /\ full > 0 /\ w - full * width \in 1 .. width
<1>. DEFINE full == (w - 1) \div width
<1>1. full \in Int /\ width * full <= w - 1 /\ w - 1 < width * full + width
  BY DivFacts
<1>2. full \in Nat
  BY DivNat
<1>. HIDE DEF full
<1>3. full > 0
  <2>. SUFFICES ASSUME full = 0 PROVE FALSE
    BY <1>2
  <2>1. width * full = 0
    OBVIOUS
  <2>. QED
    BY <1>1, <2>1
<1>4. width * full = full * width /\ width * full \in Nat
  BY <1>2
<1>5. w - full * width \in 1 .. width
  BY <1>1, <1>4
<1>. QED
  BY <1>2, <1>3, <1>5 DEF full

\* The pieces of a word that is wider than the line fit.
LEMMA CutWordFits ==
  ASSUME NEW W, Closed(W), NEW word \in W, NEW width \in Nat, width > 0, word.width > width
  PROVE  /\ Front(CutWord(word, width)) \in Seq(Fitting(W, width))
         /\ Last(CutWord(word, width)) \in Fitting(W, width)
<1>. DEFINE full == (word.width - 1) \div width
            piece(i) == [word EXCEPT !.width = IF i <= full THEN width ELSE word.width - full * width]
            cut == CutWord(word, width)
<1>1. word.width \in Nat /\ word \in NamedWords
  BY DEF NamedWords, Closed
<1>2. full \in Nat /\ full > 0 /\ word.width - full * width \in 1 .. width
  BY <1>1, CutFits
<1>3. cut = [i \in 1 .. full + 1 |-> <<piece(i)>>]
  BY DEF CutWord
<1>4. ASSUME NEW i \in 1 .. full + 1 PROVE <<piece(i)>> \in Fitting(W, width)
  <2>1. (IF i <= full THEN width ELSE word.width - full * width) \in 1 .. width
    BY <1>2
  <2>2. piece(i) \in W /\ piece(i) \in NamedWords /\ piece(i).width \in 1 .. width
    BY <1>1, <2>1 DEF NamedWords, Closed
  <2>. HIDE DEF piece
  <2>3. LineWidth(<<piece(i)>>) = piece(i).width /\ <<piece(i)>> \in Seq(W)
    BY <2>2, LineWidthFacts
  <2>. QED
    BY <2>2, <2>3 DEF Fitting
<1>. HIDE DEF piece, full
<1>5. cut \in Seq(Fitting(W, width)) /\ Len(cut) = full + 1 /\ \A i \in 1 .. full + 1 : cut[i] \in Fitting(W, width)
  BY <1>2, <1>3, <1>4
<1>. HIDE DEF cut
<1>6. Last(cut) \in Fitting(W, width)
  BY <1>2, <1>5 DEF Last
<1>7. Front(cut) \in Seq(Fitting(W, width))
  <2>1. 1 \in Int /\ Len(cut) - 1 \in Int /\ \A i \in 1 .. Len(cut) - 1 : cut[i] \in Fitting(W, width)
    BY <1>2, <1>5
  <2>2. SubSeq(cut, 1, Len(cut) - 1) \in Seq(Fitting(W, width))
    BY <2>1, SubSeqProperties
  <2>. QED
    BY <2>2 DEF Front
<1>. QED
  BY <1>6, <1>7 DEF cut

\* A wrapping in progress: the lines, and the line that is open.
Wrapping(W, width) == [lines : Seq(Fitting(W, width)), open : Fitting(W, width)]

\* One word more.
LEMMA WrapWordFits ==
  ASSUME NEW W, Closed(W), NEW width \in Nat, width > 0, NEW acc \in Wrapping(W, width),
         NEW word \in W
  PROVE  WrapWord(acc, word, width) \in Wrapping(W, width)
<1>. DEFINE ends  == acc.open # << >> /\ LineWidth(acc.open) + 1 + word.width > width
            lines == IF ends THEN Append(acc.lines, acc.open) ELSE acc.lines
            open  == IF ends THEN << >> ELSE acc.open
            cut   == CutWord(word, width)
<1>1. acc.lines \in Seq(Fitting(W, width)) /\ acc.open \in Fitting(W, width) /\ word.width \in Nat
      /\ word \in NamedWords
  BY DEF Wrapping, NamedWords, Closed
<1>2. Append(acc.lines, acc.open) \in Seq(Fitting(W, width))
  BY <1>1, AppendProperties
<1>3. lines \in Seq(Fitting(W, width))
  BY <1>1, <1>2
<1>4. WrapWord(acc, word, width) = IF word.width > width
                                   THEN [lines |-> lines \o Front(cut), open |-> Last(cut)]
                                   ELSE [lines |-> lines, open |-> Append(open, word)]
  BY DEF WrapWord
<1>5. CASE word.width > width
  <2>1. Front(cut) \in Seq(Fitting(W, width)) /\ Last(cut) \in Fitting(W, width)
    BY <1>1, <1>5, CutWordFits
  <2>. HIDE DEF cut, lines
  <2>2. lines \o Front(cut) \in Seq(Fitting(W, width))
    BY <1>3, <2>1, ConcatProperties
  <2>. QED
    BY <1>4, <1>5, <2>1, <2>2 DEF Wrapping
<1>6. CASE ~(word.width > width)
  <2>1. open = << >> \/ (open \in Seq(W) /\ open # << >> /\ LineWidth(open) \in Nat
                         /\ LineWidth(open) + 1 + word.width <= width)
    BY <1>1 DEF Fitting
  <2>. HIDE DEF open
  <2>2. Append(open, word) \in Fitting(W, width)
    <3>1. CASE open = << >>
      <4>1. Append(open, word) = <<word>> /\ <<word>> \in Seq(W)
        BY <3>1
      <4>2. LineWidth(<<word>>) = word.width
        BY <1>1, LineWidthFacts
      <4>. QED
        BY <1>1, <1>6, <4>1, <4>2 DEF Fitting
    <3>2. CASE open # << >>
      <4>1. /\ open \in Seq(W) /\ LineWidth(open) \in Nat
            /\ LineWidth(open) + 1 + word.width <= width
        BY <2>1, <3>2
      <4>4. open \in Seq(NamedWords)
        BY <4>1, SeqWithin DEF Closed
      <4>2. LineWidth(Append(open, word)) = LineWidth(open) + 1 + word.width
        BY <1>1, <3>2, <4>4, LineWidthFacts
      <4>3. Append(open, word) \in Seq(W)
        BY <4>1, AppendProperties
      <4>. QED
        BY <1>1, <4>1, <4>2, <4>3 DEF Fitting
    <3>. QED
      BY <3>1, <3>2
  <2>. HIDE DEF lines
  <2>. QED
    BY <1>3, <1>4, <1>6, <2>2 DEF Wrapping
<1>. QED
  BY <1>5, <1>6

NothingWrapped == [lines |-> << >>, open |-> << >>]

\* The recursion of WrapLine, up to the n-th word.
WrapRun(u, words, width, n) ==
  u = [i \in 0 .. n |-> IF i = 0 THEN NothingWrapped ELSE WrapWord(u[i - 1], words[i], width)]

\* It has a solution.
LEMMA WrapRunExists ==
  ASSUME NEW words, NEW width, NEW n \in Nat PROVE \E u : WrapRun(u, words, width, n)
<1>. DEFINE T == {k \in Nat : \E u : WrapRun(u, words, width, k)}
<1>1. 0 \in T
  <2>. DEFINE u == [i \in 0 .. 0 |-> NothingWrapped]
  <2>1. WrapRun(u, words, width, 0)
    BY DEF WrapRun
  <2>. QED
    BY <2>1
<1>2. ASSUME NEW k \in T PROVE k + 1 \in T
  <2>1. PICK u : WrapRun(u, words, width, k)
    OBVIOUS
  <2>2. \A i \in 0 .. k : u[i] = IF i = 0 THEN NothingWrapped ELSE WrapWord(u[i - 1], words[i], width)
    BY <2>1 DEF WrapRun
  <2>. DEFINE v == [i \in 0 .. k + 1 |-> IF i = k + 1 THEN WrapWord(u[k], words[i], width) ELSE u[i]]
  <2>3. \A i \in 0 .. k + 1 : v[i] = IF i = 0 THEN NothingWrapped ELSE WrapWord(v[i - 1], words[i], width)
    BY <2>2
  <2>4. WrapRun(v, words, width, k + 1)
    BY <2>3 DEF WrapRun
  <2>. QED
    BY <2>4
<1>3. T \in SUBSET Nat
  OBVIOUS
<1>. HIDE DEF T
<1>4. T = Nat
  BY <1>1, <1>2, <1>3, EveryNatural
<1>. QED
  BY <1>4 DEF T

\* Every line of a wrapped line fits.
LEMMA WrapLineFits ==
  ASSUME NEW W, Closed(W), NEW width \in Nat, width > 0, NEW words \in Seq(W)
  PROVE  WrapLine(words, width) \in Seq(Fitting(W, width))
<1>. DEFINE n == Len(words)
            u == CHOOSE f : f = [i \in 0 .. n |->
                   IF i = 0 THEN [lines |-> << >>, open |-> << >>] ELSE WrapWord(f[i - 1], words[i], width)]
<1>1. n \in Nat /\ \A i \in 1 .. n : words[i] \in W
  BY LenProperties, ElementOfSeq
<1>2. WrapLine(words, width) = IF words = << >> THEN << << >> >>
                               ELSE IF u[n].open = << >> THEN u[n].lines ELSE Append(u[n].lines, u[n].open)
  BY DEF WrapLine
<1>3. WrapRun(u, words, width, n)
  <2>. DEFINE P(f) == f = [i \in 0 .. n |->
                   IF i = 0 THEN [lines |-> << >>, open |-> << >>] ELSE WrapWord(f[i - 1], words[i], width)]
  <2>1. \A f : P(f) <=> WrapRun(f, words, width, n)
    BY DEF WrapRun, NothingWrapped
  <2>2. \E f : P(f)
    BY <1>1, <2>1, WrapRunExists
  <2>3. P(u)
    BY <2>2
  <2>. HIDE DEF u, P
  <2>. QED
    BY <2>1, <2>3
<1>. HIDE DEF u, n
<1>4. \A i \in 0 .. n : u[i] = IF i = 0 THEN NothingWrapped ELSE WrapWord(u[i - 1], words[i], width)
  BY <1>3 DEF WrapRun
<1>5. << >> \in Fitting(W, width) /\ NothingWrapped \in Wrapping(W, width)
  BY LineWidthFacts DEF Fitting, Wrapping, NothingWrapped
<1>. DEFINE T == {k \in Nat : k <= n => u[k] \in Wrapping(W, width)}
<1>6. 0 \in T
  BY <1>1, <1>4, <1>5
<1>7. ASSUME NEW k \in T PROVE k + 1 \in T
  <2>. SUFFICES ASSUME k + 1 <= n PROVE u[k + 1] \in Wrapping(W, width)
    OBVIOUS
  <2>1. /\ k \in Nat /\ u[k] \in Wrapping(W, width) /\ words[k + 1] \in W
        /\ k + 1 \in 0 .. n /\ (k + 1) - 1 = k /\ k + 1 # 0
    BY <1>1
  <2>2. u[k + 1] = WrapWord(u[k], words[k + 1], width)
    BY <1>4, <2>1
  <2>. QED
    BY <2>1, <2>2, WrapWordFits
<1>8. T \in SUBSET Nat
  OBVIOUS
<1>. HIDE DEF T
<1>9. T = Nat
  BY <1>6, <1>7, <1>8, EveryNatural
<1>10. u[n] \in Wrapping(W, width)
  BY <1>1, <1>9 DEF T
<1>11. u[n].lines \in Seq(Fitting(W, width)) /\ u[n].open \in Fitting(W, width)
  BY <1>10 DEF Wrapping
<1>12. Append(u[n].lines, u[n].open) \in Seq(Fitting(W, width))
  BY <1>11, AppendProperties
<1>13. << << >> >> \in Seq(Fitting(W, width))
  BY <1>5
<1>. QED
  BY <1>2, <1>11, <1>12, <1>13

\* So does every line of a wrapped text.
LEMMA WrapTextFits ==
  ASSUME NEW W, Closed(W), NEW width \in Nat, width > 0, NEW lines \in Seq(Seq(W))
  PROVE  WrapText(lines, width) \in Seq(Fitting(W, width))
<1>. DEFINE s == [i \in 1 .. Len(lines) |-> WrapLine(lines[i], width)]
<1>1. Len(lines) \in Nat /\ \A i \in 1 .. Len(lines) : lines[i] \in Seq(W)
  BY LenProperties, ElementOfSeq
<1>2. \A i \in 1 .. Len(lines) : WrapLine(lines[i], width) \in Seq(Fitting(W, width))
  BY <1>1, WrapLineFits
<1>3. s \in Seq(Seq(Fitting(W, width)))
  BY <1>1, <1>2
<1>4. WrapText(lines, width) = FlattenSeq(s)
  BY DEF WrapText
<1>. HIDE DEF s
<1>. QED
  BY <1>3, <1>4, FlattenSeqType

\* And every line of a wrapped cell.
LEMMA WrapCellFits ==
  ASSUME NEW W, Closed(W), NEW width \in Nat, width > 0, NEW cell, WordsOf(cell) \in Seq(W)
  PROVE  WrapCell(cell, width) \in Seq(Fitting(W, width))
<1>1. WrapLine(WordsOf(cell), width) \in Seq(Fitting(W, width))
  BY WrapLineFits
<1>2. << >> \in Seq(Fitting(W, width))
  BY EmptySeq
<1>. QED
  BY <1>1, <1>2 DEF WrapCell

\* Fitting lines are lines.
LEMMA FittingLines ==
  ASSUME NEW W, Closed(W), NEW width, NEW s \in Seq(Fitting(W, width))
  PROVE  s \in Seq(Seq(W)) /\ Len(s) \in Nat
         /\ \A i \in 1 .. Len(s) : /\ s[i] \in Seq(W) /\ s[i] \in Seq(NamedWords)
                                  /\ LineWidth(s[i]) \in 0 .. width
<1>1. Len(s) \in Nat /\ s = [i \in 1 .. Len(s) |-> s[i]]
      /\ \A i \in 1 .. Len(s) : s[i] \in Fitting(W, width)
  BY LenProperties, ElementOfSeq
<1>2. \A i \in 1 .. Len(s) : s[i] \in Seq(W) /\ LineWidth(s[i]) \in 0 .. width
  BY <1>1 DEF Fitting
<1>3. \A i \in 1 .. Len(s) : s[i] \in Seq(NamedWords)
  BY <1>2, SeqWithin DEF Closed
<1>. QED
  BY <1>1, <1>2, <1>3

\* A line has as many characters as columns where each column has one.
LEMMA GlyphsCounted ==
  ASSUME NEW l \in Seq(NamedWords)
  PROVE  GlyphCount(l) \in Nat /\ (l \in Seq(SingleWords) => GlyphCount(l) = LineWidth(l))
<1>. DEFINE g == [i \in 1 .. Len(l) |-> l[i].width * l[i].stack]
<1>0. Len(l) \in Nat /\ \A i \in 1 .. Len(l) : l[i] \in NamedWords
  BY LenProperties, ElementOfSeq
<1>1. Len(l) \in Nat /\ \A i \in 1 .. Len(l) : l[i].width \in Nat /\ l[i].stack \in Nat
  BY <1>0 DEF NamedWords
<1>2. \A i \in 1 .. Len(l) : l[i].width * l[i].stack \in Nat
  <2>1. \A a \in Nat, b \in Nat : a * b \in Nat
    OBVIOUS
  <2>. QED
    BY <1>1, <2>1
<1>3. g \in Seq(Nat)
  BY <1>1, <1>2
<1>4. GlyphCount(l) = SumOf(g) + Larger(Len(l) - 1, 0)
  BY DEF GlyphCount
<1>5. Larger(Len(l) - 1, 0) \in Nat
  BY <1>1 DEF Larger
<1>6. ASSUME l \in Seq(SingleWords) PROVE GlyphCount(l) = LineWidth(l)
  <2>1. \A i \in 1 .. Len(l) : l[i].stack = 1
    BY <1>6, ElementOfSeq DEF SingleWords
  <2>2. g = WidthsOf(l)
    BY <1>1, <2>1 DEF WidthsOf
  <2>. QED
    BY <1>4, <2>2, WidthsOfType
<1>. HIDE DEF g
<1>7. SumOf(g) \in Nat
  BY <1>3, SumOfNat
<1>. QED
  BY <1>4, <1>5, <1>6, <1>7

-----------------------------------------------------------------------------
(* Geometry.                                                               *)

\* A rounded quotient is at most what bounds the quotient.
LEMMA RoundDivBelow ==
  ASSUME NEW a \in Nat, NEW b \in Nat, b > 0, NEW c \in Nat, a <= c * b
  PROVE  RoundDiv(a, b) \in Nat /\ RoundDiv(a, b) <= c
<1>. DEFINE q == RoundDiv(a, b)
            p == c * b
<1>1. q = (2 * a + b) \div (2 * b)
  BY DEF RoundDiv
<1>2. 2 * b > 0 /\ 2 * a + b \in Nat /\ 2 * b \in Int
  OBVIOUS
<1>3. q \in Nat /\ (2 * b) * q <= 2 * a + b
  BY <1>1, <1>2, DivFacts, DivNat
<1>. HIDE DEF q
<1>4. p \in Nat
  OBVIOUS
<1>5. (2 * b) * q <= 2 * p + b
  BY <1>3, <1>4
<1>6. CASE q > c
  <2>1. q >= c + 1
    BY <1>3, <1>6
  <2>2. (2 * b) * q >= (2 * b) * (c + 1)
    <3>1. \A x \in Nat, y \in Nat, z \in Nat : y <= z => x * y <= x * z
      OBVIOUS
    <3>. QED
      BY <1>3, <2>1, <3>1
  <2>3. (2 * b) * (c + 1) = 2 * p + 2 * b
    OBVIOUS
  <2>4. (2 * b) * q \in Nat /\ (2 * b) * (c + 1) \in Nat
    BY <1>3
  <2>. HIDE DEF p
  <2>5. 2 * p + 2 * b <= 2 * p + b
    BY <1>4, <1>5, <2>2, <2>3, <2>4
  <2>. QED
    BY <1>4, <2>5
<1>. QED
  BY <1>3, <1>6 DEF q

\* Products.
LEMMA ProductFacts ==
  /\ \A x \in Nat, y \in Nat : x * y \in Nat /\ x * y = y * x
  /\ \A x \in Nat, y \in Nat, z \in Nat : y <= z => x * y <= x * z
  /\ \A x \in Nat, y \in Nat, z \in Nat : y < z /\ x > 0 => x * y < x * z
  OBVIOUS

\* What fit_dimensions returns is within the limits and not taller than the
\* image; and when it is lower than the limit, a higher limit changes nothing.
FitsWell(w, h, maxW, maxH) ==
  LET r == FitDimensions(w, h, maxW, maxH)
  IN  /\ r[1] \in 0 .. maxW /\ r[2] \in 0 .. maxH /\ r[2] <= h
      /\ \A more \in Nat :
           maxH <= more /\ r[2] < maxH => FitDimensions(w, h, maxW, more)[2] = r[2]

\* fit_dimensions keeps both limits.
LEMMA FitsDimensions ==
  ASSUME NEW w \in Nat, w > 0, NEW h \in Nat, h > 0, NEW maxW \in Nat, maxW > 0, NEW maxH \in Nat
  PROVE  FitsWell(w, h, maxW, maxH)
<1>. DEFINE r == FitDimensions(w, h, maxW, maxH)
<1>0. \A a \in Int, b \in Int : a <= b /\ b > 0 => Larger(a, 1) <= b
  BY DEF Larger
<1>1. CASE maxH = 0
  <2>1. r = <<0, 0>>
    BY <1>1 DEF FitDimensions
  <2>. QED
    BY <1>1, <2>1 DEF FitsWell
<1>2. CASE maxH # 0 /\ w <= maxW /\ h <= maxH
  <2>1. r = <<w, h>>
    BY <1>2 DEF FitDimensions
  <2>2. \A more \in Nat : maxH <= more => FitDimensions(w, h, maxW, more) = <<w, h>>
    BY <1>2 DEF FitDimensions
  <2>. QED
    BY <1>2, <2>1, <2>2 DEF FitsWell
<1>3. CASE maxH # 0 /\ ~(w <= maxW /\ h <= maxH) /\ maxW * h <= maxH * w
  <2>1. r = <<maxW, Larger(RoundDiv(h * maxW, w), 1)>>
    BY <1>3 DEF FitDimensions
  <2>2. w > maxW
    <3>. SUFFICES ASSUME w <= maxW PROVE FALSE
      OBVIOUS
    <3>1. h > maxH
      BY <1>3
    <3>2. w * maxH < w * h /\ h * w <= h * maxW
      BY <3>1, ProductFacts
    <3>3. w * h = h * w /\ maxW * h = h * maxW /\ maxH * w = w * maxH
      BY ProductFacts
    <3>4. w * h \in Nat /\ h * maxW \in Nat /\ w * maxH \in Nat
      BY ProductFacts
    <3>. QED
      BY <1>3, <3>2, <3>3, <3>4
  <2>3. /\ h * maxW \in Nat /\ h * maxW <= h * w /\ h * maxW <= maxH * w
    BY <1>3, <2>2, ProductFacts
  <2>4. RoundDiv(h * maxW, w) \in Nat /\ RoundDiv(h * maxW, w) <= h /\ RoundDiv(h * maxW, w) <= maxH
    BY <2>3, RoundDivBelow
  <2>5. Larger(RoundDiv(h * maxW, w), 1) \in Nat /\ Larger(RoundDiv(h * maxW, w), 1) <= h
        /\ Larger(RoundDiv(h * maxW, w), 1) <= maxH
    BY <1>0, <1>3, <2>4 DEF Larger
  <2>6. \A more \in Nat : maxH <= more => FitDimensions(w, h, maxW, more) = r
    <3>. SUFFICES ASSUME NEW more \in Nat, maxH <= more PROVE FitDimensions(w, h, maxW, more) = r
      OBVIOUS
    <3>1. more # 0 /\ ~(w <= maxW)
      BY <1>3, <2>2
    <3>2. maxW * h <= more * w
      <4>1. w * maxH <= w * more /\ maxH * w = w * maxH /\ more * w = w * more
        BY ProductFacts
      <4>2. maxW * h \in Nat /\ w * maxH \in Nat /\ w * more \in Nat
        BY ProductFacts
      <4>. QED
        BY <1>3, <4>1, <4>2
    <3>. QED
      BY <2>1, <3>1, <3>2 DEF FitDimensions
  <2>. HIDE DEF r
  <2>. QED
    BY <2>1, <2>5, <2>6 DEF r, FitsWell
<1>4. CASE maxH # 0 /\ ~(w <= maxW /\ h <= maxH) /\ ~(maxW * h <= maxH * w)
  <2>1. r = <<Larger(RoundDiv(w * maxH, h), 1), maxH>>
    BY <1>4 DEF FitDimensions
  <2>2. maxW * h \in Nat /\ maxH * w \in Nat /\ w * maxH = maxH * w
    BY ProductFacts
  <2>3. w * maxH <= maxW * h /\ w * maxH \in Nat
    BY <1>4, <2>2
  <2>4. RoundDiv(w * maxH, h) \in Nat /\ RoundDiv(w * maxH, h) <= maxW
    BY <2>3, RoundDivBelow
  <2>5. Larger(RoundDiv(w * maxH, h), 1) \in Nat /\ Larger(RoundDiv(w * maxH, h), 1) <= maxW
    BY <1>0, <2>4 DEF Larger
  <2>6. maxH < h
    <3>. SUFFICES ASSUME h <= maxH PROVE FALSE
      OBVIOUS
    <3>1. maxW < w
      BY <1>4
    <3>2. h * maxW <= h * w /\ w * h <= w * maxH
      BY <3>1, ProductFacts
    <3>3. h * maxW = maxW * h /\ h * w = w * h /\ w * h \in Nat
      BY ProductFacts
    <3>. QED
      BY <1>4, <2>2, <3>2, <3>3
  <2>. HIDE DEF r
  <2>. QED
    BY <2>1, <2>5, <2>6 DEF r, FitsWell
<1>. QED
  BY <1>1, <1>2, <1>3, <1>4

\* A length in pixels is the length in dots, rounded.
LEMMA PixelsFacts ==
  ASSUME NEW mm \in Nat, NEW dpi \in Nat
  PROVE  /\ MmToPixels(mm, dpi) \in Nat
         /\ 254 * MmToPixels(mm, dpi) <= 10 * (mm * dpi) + 127
         /\ 10 * (mm * dpi) < 254 * MmToPixels(mm, dpi) + 127
<1>. DEFINE a == mm * dpi
<1>1. a \in Nat /\ mm * dpi * 10 = 10 * a
  BY ProductFacts
<1>2. MmToPixels(mm, dpi) = (10 * a + 127) \div 254
  BY <1>1 DEF MmToPixels
<1>. HIDE DEF a
<1>3. /\ (10 * a + 127) \div 254 \in Nat
      /\ 254 * ((10 * a + 127) \div 254) <= 10 * a + 127
      /\ 10 * a + 127 < 254 * ((10 * a + 127) \div 254) + 254
  BY <1>1
<1>. QED
  BY <1>1, <1>2, <1>3 DEF a

\* More millimetres are not fewer pixels.
LEMMA PixelsOrdered ==
  ASSUME NEW mm \in Nat, NEW more \in Nat, mm <= more, NEW dpi \in Nat
  PROVE  MmToPixels(mm, dpi) <= MmToPixels(more, dpi)
<1>. DEFINE a == mm * dpi
            b == more * dpi
<1>1. a \in Nat /\ b \in Nat /\ a <= b
  <2>1. dpi * mm <= dpi * more /\ a = dpi * mm /\ b = dpi * more
    BY ProductFacts
  <2>. QED
    BY <2>1, ProductFacts
<1>2. mm * dpi * 10 + 127 = 10 * a + 127 /\ more * dpi * 10 + 127 = 10 * b + 127
  BY <1>1
<1>. HIDE DEF a, b
<1>3. (10 * a + 127) \div 254 <= (10 * b + 127) \div 254
  BY <1>1
<1>. QED
  BY <1>2, <1>3 DEF MmToPixels

\* A strip of at least 164 pixels that holds a glyph, a line of as many glyphs
\* as max_chars says, and the caption of 13 digits.
StripOK(strip, dpi) ==
  /\ strip \in Nat /\ strip >= 164
  /\ Scale(dpi) \in 1 .. 6 /\ LineHeight(dpi) \in Nat
  /\ MaxChars(strip, dpi) \in Nat /\ MaxChars(strip, dpi) > 0
  /\ MaxChars(strip, dpi) * (8 * Scale(dpi)) <= strip
  /\ 13 * 8 * Smaller(HriGlyphScale, Scale(dpi)) <= strip

\* The strip of every receipt on every page and preview is one.
LEMMA StripFacts ==
  ASSUME NEW width \in Widths, NEW dpi \in 72 .. 600
  PROVE  StripOK(MmToPixels(width, dpi), dpi)
<1>. DEFINE strip == MmToPixels(width, dpi)
            chars == MaxChars(strip, dpi)
            scale == Scale(dpi)
            quotient == strip \div (8 * scale)
<1>1. strip \in Nat /\ 10 * (width * dpi) < 254 * strip + 127
  <2>1. width \in Nat /\ dpi \in Nat
    BY DEF Widths
  <2>. QED
    BY <2>1, PixelsFacts
<1>2. scale \in 1 .. 6 /\ (100 * scale <= dpi \/ scale = 1)
  <2>1. (dpi * 3) \div 300 \in 0 .. 6 /\ 300 * ((dpi * 3) \div 300) <= dpi * 3
    OBVIOUS
  <2>. QED
    BY <2>1 DEF Scale, Larger
<1>. HIDE DEF scale, strip
<1>3. 580 * dpi < 254 * strip + 127
  <2>1. CASE width = 58
    BY <1>1, <2>1
  <2>2. CASE width = 80
    BY <1>1, <2>2
  <2>. QED
    BY <2>1, <2>2 DEF Widths
<1>4. strip >= 164 /\ 8 * scale <= strip
  BY <1>1, <1>2, <1>3
<1>5. 13 * 8 * Smaller(HriGlyphScale, scale) <= strip
  BY <1>1, <1>2, <1>3 DEF Smaller, HriGlyphScale
<1>6. quotient \in Nat /\ (8 * scale) * quotient <= strip /\ strip < (8 * scale) * quotient + 8 * scale
  <2>1. 8 * scale \in Int /\ 8 * scale > 0
    BY <1>2
  <2>. QED
    BY <1>1, <2>1, DivFacts, DivNat
<1>7. chars = Larger(quotient, 1)
  BY DEF MaxChars, scale
<1>. HIDE DEF chars, quotient
<1>8. quotient > 0
  <2>. SUFFICES ASSUME quotient = 0 PROVE FALSE
    BY <1>6
  <2>1. (8 * scale) * quotient = 0
    BY <1>2
  <2>. QED
    BY <1>1, <1>2, <1>4, <1>6, <2>1
<1>9. chars = quotient
  BY <1>6, <1>7, <1>8 DEF Larger
<1>10. chars * (8 * scale) = (8 * scale) * quotient
  <2>1. 8 * scale \in Nat
    BY <1>2
  <2>. QED
    BY <1>6, <1>9, <2>1, ProductFacts
<1>11. LineHeight(dpi) = 9 * scale
  BY DEF LineHeight, scale
<1>. QED
  BY <1>1, <1>2, <1>4, <1>5, <1>6, <1>8, <1>9, <1>10, <1>11 DEF chars, scale, strip, StripOK

-----------------------------------------------------------------------------
(* The elements of a layout, and what drawing one takes and shows.         *)

\* The parts of a cell, from a set of words.
SpaceTokens   == [op : {"spaces"}, n : Nat \ {0}]
CellPieces(W) == [op : {"word"}, word : W] \cup SpaceTokens
TextTokens    == CellPieces(NamedWords)
CellTokens    == TextTokens \cup {Tab}

\* The words of a cell.
LEMMA WordsOfType ==
  ASSUME NEW W, NEW tokens \in Seq(CellPieces(W) \cup {Tab})
  PROVE  WordsOf(tokens) \in Seq(W)
<1>. DEFINE s == [i \in 1 .. Len(tokens) |->
                   IF tokens[i].op = "word" THEN <<tokens[i].word>> ELSE << >>]
<1>0. Len(tokens) \in Nat /\ \A i \in 1 .. Len(tokens) : tokens[i] \in CellPieces(W) \cup {Tab}
  BY LenProperties, ElementOfSeq
<1>1. \A i \in 1 .. Len(tokens) : tokens[i].op = "word" => tokens[i].word \in W
  BY <1>0 DEF CellPieces, SpaceTokens, Tab
<1>2. \A w \in W : <<w>> \in Seq(W)
  OBVIOUS
<1>3. << >> \in Seq(W)
  BY EmptySeq
<1>4. \A i \in 1 .. Len(tokens) : s[i] \in Seq(W)
  BY <1>1, <1>2, <1>3
<1>5. s \in Seq(Seq(W))
  BY <1>0, <1>4
<1>6. FlattenSeq(s) \in Seq(W)
  BY <1>5, FlattenSeqType
<1>. QED
  BY <1>6 DEF WordsOf

\* They are words of the layout.
LEMMA WordsOfNamed ==
  ASSUME NEW tokens, tokens \in Seq(CellTokens) \/ tokens \in Seq(TextTokens)
  PROVE  WordsOf(tokens) \in Seq(NamedWords)
<1>1. tokens \in Seq(CellTokens)
  BY SeqWithin DEF CellTokens
<1>. QED
  BY <1>1, WordsOfType DEF CellTokens, TextTokens

\* The words of a line and the spaces between them.
LEMMA WordTokensType ==
  ASSUME NEW W, NEW words \in Seq(W) PROVE WordTokens(words) \in Seq(CellPieces(W))
<1>. DEFINE C == CellPieces(W)
            s == [i \in 1 .. Len(words) |->
                   IF i = 1 THEN <<Word(words[1])>> ELSE <<Spaces(1), Word(words[i])>>]
<1>1. Len(words) \in Nat /\ \A i \in 1 .. Len(words) : words[i] \in W
  BY LenProperties, ElementOfSeq
<1>2. \A w \in W : Word(w) \in C
  BY DEF Word, CellPieces
<1>3. Spaces(1) \in C
  BY DEF Spaces, CellPieces, SpaceTokens
<1>. HIDE DEF C
<1>4. \A i \in 1 .. Len(words) : s[i] \in Seq(C)
  <2>. SUFFICES ASSUME NEW i \in 1 .. Len(words) PROVE s[i] \in Seq(C)
    OBVIOUS
  <2>1. Word(words[i]) \in C
    BY <1>1, <1>2
  <2>2. s[i] = IF i = 1 THEN <<Word(words[i])>> ELSE <<Spaces(1), Word(words[i])>>
    OBVIOUS
  <2>. HIDE DEF s
  <2>. QED
    BY <1>3, <2>1, <2>2
<1>5. s \in Seq(Seq(C))
  BY <1>1, <1>4
<1>6. FlattenSeq(s) \in Seq(C)
  BY <1>5, FlattenSeqType
<1>. QED
  BY <1>6 DEF WordTokens, C

TextElements ==
  [kind : {"text"}, lines : Seq(Seq(NamedWords)), align : Alignments, bold : BOOLEAN,
   ascii : BOOLEAN, at : Nat]
RowElements ==
  [kind : {"row"}, left : Seq(CellTokens), right : Seq(CellTokens), ascii : BOOLEAN, at : Nat]
DividerElements == [kind : {"divider"}, word : NamedWords, at : Nat]
CutElements == [kind : {"cut"}, at : Nat]
ImageElements ==
  [kind : {"image"}, width : Nat \ {0}, height : Nat \ {0}, stride : Nat, decodes : BOOLEAN,
   at : Nat]
BarcodeElements ==
  {e \in [kind : {"barcode"}, format : Formats, length : Nat, modules : Nat, plain : BOOLEAN,
          digits : BOOLEAN, height : Nat \ {0}, readable : BOOLEAN, at : Nat] : DigitsEncoded(e)}

LayoutElements ==
  TextElements \cup RowElements \cup DividerElements \cup CutElements \cup ImageElements
    \cup QrSections \cup BarcodeElements \cup FeedSections

\* What the kind of an element says of it.
LEMMA ElementFacts ==
  ASSUME NEW e \in LayoutElements
  PROVE  /\ e.kind \in {"text", "row", "divider", "cut", "image", "qr", "barcode", "feed"}
         /\ e.kind = "text"    => e \in TextElements
         /\ e.kind = "row"     => e \in RowElements
         /\ e.kind = "divider" => e \in DividerElements
         /\ e.kind = "cut"     => e \in CutElements
         /\ e.kind = "image"   => e \in ImageElements
         /\ e.kind = "qr"      => e \in QrSections
         /\ e.kind = "barcode" => e \in BarcodeElements
         /\ e.kind = "feed"    => e \in FeedSections
<1>1. CASE e \in TextElements
  BY <1>1 DEF TextElements
<1>2. CASE e \in RowElements
  BY <1>2 DEF RowElements
<1>3. CASE e \in DividerElements
  BY <1>3 DEF DividerElements
<1>4. CASE e \in CutElements
  BY <1>4 DEF CutElements
<1>5. CASE e \in ImageElements
  BY <1>5 DEF ImageElements
<1>6. CASE e \in QrSections
  BY <1>6 DEF QrSections
<1>7. CASE e \in BarcodeElements
  BY <1>7 DEF BarcodeElements
<1>8. CASE e \in FeedSections
  BY <1>8 DEF FeedSections
<1>. QED
  BY <1>1, <1>2, <1>3, <1>4, <1>5, <1>6, <1>7, <1>8 DEF LayoutElements

\* A canvas with room for a receipt.
Canvases == [width : Nat, height : Nat, dpi : 72 .. 600, strip : Nat, y : Nat,
             drawn : Seq([widths : SUBSET Nat, caption : Nat, height : Nat, element : LayoutElements])]
ReceiptOn(c, width) == c.strip = MmToPixels(width, c.dpi) /\ c.y <= c.height

\* What DrawnWhole says of one drawing.
Whole(c, d) ==
  LET most == IF d.element.kind = "qr" THEN Larger(c.strip, d.element.modules + 8) ELSE c.strip
  IN  /\ Unmarked(d.element) => \A w \in d.widths : w <= most
      /\ (d.element.kind = "barcode" /\ d.element.format \in {"ean13", "upca"}) => d.caption <= c.strip
      /\ d.element.kind = "image" =>
           d.height - 2 * Scale(c.dpi)
             = FitDimensions(ImageAt(d.element, c.dpi)[1], ImageAt(d.element, c.dpi)[2],
                             c.strip, MaxReceiptImageHeight)[2]

\* The widths of lines, and that they are within the strip where each column
\* has one character.
LEMMA LinesWithin ==
  ASSUME NEW chars \in Nat, NEW glyph \in Nat, NEW strip \in Nat, chars * glyph <= strip,
         NEW most \in Nat, most <= chars, NEW lines \in Seq(Fitting(NamedWords, most))
  PROVE  /\ \A i \in 1 .. Len(lines) : GlyphCount(lines[i]) * glyph \in Nat
         /\ lines \in Seq(Fitting(SingleWords, most)) =>
              \A i \in 1 .. Len(lines) : GlyphCount(lines[i]) * glyph <= strip
<1>0. Closed(NamedWords) /\ Closed(SingleWords)
  BY ClosedWords
<1>1. \A i \in 1 .. Len(lines) : lines[i] \in Seq(NamedWords)
  BY <1>0, FittingLines
<1>2. \A i \in 1 .. Len(lines) : GlyphCount(lines[i]) \in Nat
  BY <1>1, GlyphsCounted
<1>3. \A i \in 1 .. Len(lines) : GlyphCount(lines[i]) * glyph \in Nat
  BY <1>2, ProductFacts
<1>4. ASSUME lines \in Seq(Fitting(SingleWords, most)), NEW i \in 1 .. Len(lines)
      PROVE  GlyphCount(lines[i]) * glyph <= strip
  <2>. DEFINE n == GlyphCount(lines[i])
  <2>1. lines[i] \in Seq(SingleWords) /\ LineWidth(lines[i]) \in 0 .. most
    BY <1>0, <1>4, FittingLines
  <2>2. n = LineWidth(lines[i])
    BY <1>1, <2>1, GlyphsCounted
  <2>3. n \in Nat /\ n <= chars
    BY <2>1, <2>2
  <2>. HIDE DEF n
  <2>4. glyph * n <= glyph * chars /\ glyph * n = n * glyph /\ glyph * chars = chars * glyph
        /\ n * glyph \in Nat /\ chars * glyph \in Nat
    BY <2>3, ProductFacts
  <2>5. n * glyph <= strip
    BY <2>4
  <2>. QED
    BY <2>5 DEF n
<1>. QED
  BY <1>3, <1>4

\* The receipt on a canvas.
LEMMA CanvasFacts ==
  ASSUME NEW width \in Widths, NEW c \in Canvases, ReceiptOn(c, width)
  PROVE  /\ c.dpi \in 72 .. 600 /\ c.dpi \in Nat
         /\ c.strip \in Nat /\ c.strip >= 164 /\ c.strip = MmToPixels(width, c.dpi)
         /\ c.height \in Nat /\ c.y \in Nat /\ c.y <= c.height
         /\ Scale(c.dpi) \in 1 .. 6 /\ LineHeight(c.dpi) \in Nat
         /\ MaxChars(c.strip, c.dpi) \in Nat /\ MaxChars(c.strip, c.dpi) > 0
         /\ 8 * Scale(c.dpi) \in Nat
         /\ MaxChars(c.strip, c.dpi) * (8 * Scale(c.dpi)) <= c.strip
         /\ 13 * 8 * Smaller(HriGlyphScale, Scale(c.dpi)) <= c.strip
<1>1. /\ c.dpi \in 72 .. 600 /\ c.strip \in Nat /\ c.strip = MmToPixels(width, c.dpi)
      /\ c.height \in Nat /\ c.y \in Nat /\ c.y <= c.height
  BY DEF Canvases, ReceiptOn
<1>2. StripOK(MmToPixels(width, c.dpi), c.dpi)
  BY <1>1, StripFacts
<1>3. StripOK(c.strip, c.dpi)
  BY <1>1, <1>2
<1>4. c.dpi \in Nat
  BY <1>1
<1>. QED
  BY <1>1, <1>3, <1>4 DEF StripOK

\* A text.
LEMMA TextDrawn ==
  ASSUME NEW width \in Widths, NEW c \in Canvases, ReceiptOn(c, width), NEW e \in TextElements
  PROVE  /\ Advance(c, e) \in Nat
         /\ Drawn(c, e) \subseteq Nat
         /\ Unmarked(e) => \A w \in Drawn(c, e) : w <= c.strip
         /\ Estimate(e, c.strip, c.dpi) \in Nat /\ Advance(c, e) <= Estimate(e, c.strip, c.dpi)
<1>. DEFINE chars == MaxChars(c.strip, c.dpi)
            glyph == 8 * Scale(c.dpi)
            line  == LineHeight(c.dpi)
            lines == WrapText(e.lines, chars)
            most  == Larger(Len(lines), 1)
<1>1. c.dpi \in 72 .. 600 /\ c.strip \in Nat /\ c.strip = MmToPixels(width, c.dpi)
  BY CanvasFacts
<1>2. /\ chars \in Nat /\ chars > 0 /\ glyph \in Nat /\ chars * glyph <= c.strip /\ line \in Nat
      /\ chars <= chars
  BY CanvasFacts
<1>3. e.kind = "text" /\ e.lines \in Seq(Seq(NamedWords))
  BY DEF TextElements
<1>4. Advance(c, e) = line * Len(lines)
  BY <1>3 DEF Advance
<1>5. Drawn(c, e) = {GlyphCount(lines[i]) * glyph : i \in 1 .. Len(lines)}
  BY <1>3 DEF Drawn
<1>6. Estimate(e, c.strip, c.dpi) = line * most
  BY <1>3 DEF Estimate, EstimateLines
<1>. HIDE DEF chars, glyph, line
<1>7. lines \in Seq(Fitting(NamedWords, chars))
  BY <1>2, <1>3, ClosedWords, WrapTextFits
<1>12. ASSUME Unmarked(e)
       PROVE  lines \in Seq(Fitting(SingleWords, chars))
  <2>1. Words(e) = FlattenSeq(e.lines)
    BY <1>3 DEF Words
  <2>2. \A k \in 1 .. Len(FlattenSeq(e.lines)) : FlattenSeq(e.lines)[k] \in NamedWords
    BY <1>3, FlattenSeqType, ElementOfSeq
  <2>3. \A k \in 1 .. Len(FlattenSeq(e.lines)) : FlattenSeq(e.lines)[k] \in SingleWords
    BY <1>12, <2>1, <2>2 DEF SingleWords, Unmarked
  <2>4. SingleWords \subseteq NamedWords
    BY DEF SingleWords
  <2>5. e.lines \in Seq(Seq(SingleWords))
    BY <1>3, <2>3, <2>4, FlattenParts
  <2>. QED
    BY <1>2, <2>5, ClosedWords, WrapTextFits
<1>. HIDE DEF lines
<1>8. Len(lines) \in Nat
  BY <1>7, LenProperties
<1>9. most \in Nat /\ Len(lines) <= most
  BY <1>8 DEF Larger
<1>. HIDE DEF most
<1>10. line * Len(lines) \in Nat /\ line * most \in Nat /\ line * Len(lines) <= line * most
  BY <1>2, <1>8, <1>9, ProductFacts
<1>11. /\ \A i \in 1 .. Len(lines) : GlyphCount(lines[i]) * glyph \in Nat
       /\ lines \in Seq(Fitting(SingleWords, chars)) =>
            \A i \in 1 .. Len(lines) : GlyphCount(lines[i]) * glyph <= c.strip
  BY <1>1, <1>2, <1>7, LinesWithin
<1>. QED
  BY <1>4, <1>5, <1>6, <1>10, <1>11, <1>12

\* The parts of a line of such words.
LEMMA SinglesJoined ==
  ASSUME NEW a \in Seq(NamedWords), NEW b \in Seq(NamedWords),
         \A k \in 1 .. Len(a \o b) : (a \o b)[k].stack = 1
  PROVE  a \in Seq(SingleWords) /\ b \in Seq(SingleWords)
<1>. DEFINE c == a \o b
            m == Len(a)
            n == Len(b)
<1>1. /\ m \in Nat /\ n \in Nat /\ Len(c) = m + n
      /\ \A i \in 1 .. m + n : c[i] = IF i <= m THEN a[i] ELSE b[i - m]
      /\ \A k \in 1 .. Len(c) : c[k].stack = 1
  BY ConcatProperties, LenProperties
<1>2. /\ a = [i \in 1 .. m |-> a[i]] /\ b = [i \in 1 .. n |-> b[i]]
      /\ (\A i \in 1 .. m : a[i] \in NamedWords) /\ \A i \in 1 .. n : b[i] \in NamedWords
  BY LenProperties, ElementOfSeq
<1>6. /\ m \in Nat /\ n \in Nat
      /\ a = [i \in 1 .. m |-> a[i]] /\ b = [i \in 1 .. n |-> b[i]]
  BY <1>1, <1>2
<1>. HIDE DEF c, m, n
<1>3. \A i \in 1 .. m : a[i].stack = 1
  BY <1>1
<1>4. ASSUME NEW i \in 1 .. n PROVE b[i].stack = 1
  <2>1. m + i \in 1 .. m + n /\ ~(m + i <= m) /\ (m + i) - m = i
    BY <1>1
  <2>2. c[m + i] = b[i]
    BY <1>1, <2>1
  <2>3. c[m + i].stack = 1
    BY <1>1, <2>1
  <2>. QED
    BY <2>2, <2>3
<1>5. (\A i \in 1 .. m : a[i] \in SingleWords) /\ \A i \in 1 .. n : b[i] \in SingleWords
  BY <1>2, <1>3, <1>4 DEF SingleWords
<1>7. a \in Seq(SingleWords)
  BY <1>5, <1>6
<1>8. b \in Seq(SingleWords)
  BY <1>5, <1>6
<1>. QED
  BY <1>7, <1>8

\* A row.  The estimate counts the lines of the right column at two fifths of
\* the line, the drawing at what the left column and a space leave.
LEMMA RowDrawn ==
  ASSUME NEW width \in Widths, NEW c \in Canvases, ReceiptOn(c, width), NEW e \in RowElements
  PROVE  /\ Advance(c, e) \in Nat
         /\ Drawn(c, e) \subseteq Nat
         /\ Unmarked(e) => \A w \in Drawn(c, e) : w <= c.strip
         /\ c.dpi = 203 => /\ Estimate(e, c.strip, c.dpi) \in Nat
                           /\ Advance(c, e) <= Estimate(e, c.strip, c.dpi)
<1>. DEFINE chars  == MaxChars(c.strip, c.dpi)
            glyph  == 8 * Scale(c.dpi)
            line   == LineHeight(c.dpi)
            three  == (chars * 3) \div 5
            mostL  == Larger(three, 1)
            mostR  == Larger(chars - three - 1, 1)
            lefts  == WrapCell(e.left, mostL)
            rights == WrapCell(e.right, mostR)
            count  == Larger(Len(lefts), Len(rights))
            most   == Larger(count, 1)
<1>1. c.dpi \in 72 .. 600 /\ c.strip \in Nat /\ c.strip = MmToPixels(width, c.dpi)
  BY CanvasFacts
<1>2. /\ chars \in Nat /\ chars > 0 /\ glyph \in Nat /\ chars * glyph <= c.strip /\ line \in Nat
      /\ chars <= chars
  BY CanvasFacts
<1>3. e.kind = "row" /\ e.left \in Seq(CellTokens) /\ e.right \in Seq(CellTokens)
  BY DEF RowElements
<1>4. Advance(c, e) = line * count
  BY <1>3 DEF Advance, RowLines
<1>5. Drawn(c, e) = {GlyphCount(lefts[i]) * glyph : i \in 1 .. Len(lefts)}
                    \cup {GlyphCount(rights[i]) * glyph : i \in 1 .. Len(rights)}
  BY <1>3 DEF Drawn, RowLines
<1>6. Estimate(e, c.strip, c.dpi)
        = line * Larger(Larger(Len(lefts), Len(WrapCell(e.right, Larger((chars * 2) \div 5, 1)))), 1)
  BY <1>3 DEF Estimate, EstimateLines
<1>7. c.dpi = 203 => Larger((chars * 2) \div 5, 1) = mostR
  <2>. SUFFICES ASSUME c.dpi = 203 PROVE Larger((chars * 2) \div 5, 1) = mostR
    OBVIOUS
  <2>1. Scale(203) = 2
    BY DEF Scale, Larger
  <2>2. chars = 29 \/ chars = 39
    <3>1. MmToPixels(58, 203) = 464 /\ MmToPixels(80, 203) = 639
      BY DEF MmToPixels
    <3>2. c.strip = 464 \/ c.strip = 639
      BY <1>1, <3>1 DEF Widths
    <3>. QED
      BY <2>1, <3>2 DEF MaxChars, Larger
  <2>. HIDE DEF chars
  <2>. QED
    BY <2>2 DEF Larger
<1>. HIDE DEF chars, glyph, line
<1>8. mostL \in Nat /\ mostL > 0 /\ mostL <= chars /\ mostR \in Nat /\ mostR > 0 /\ mostR <= chars
  <2>1. three \in Nat /\ three <= chars
    BY <1>2
  <2>. HIDE DEF three
  <2>. QED
    BY <1>2, <2>1 DEF Larger
<1>. HIDE DEF mostL, mostR, three
<1>14. WordsOf(e.left) \in Seq(NamedWords) /\ WordsOf(e.right) \in Seq(NamedWords)
  BY <1>3, WordsOfNamed
<1>9. lefts \in Seq(Fitting(NamedWords, mostL)) /\ rights \in Seq(Fitting(NamedWords, mostR))
  BY <1>8, <1>14, ClosedWords, WrapCellFits
<1>15. ASSUME Unmarked(e)
       PROVE  lefts \in Seq(Fitting(SingleWords, mostL)) /\ rights \in Seq(Fitting(SingleWords, mostR))
  <2>. DEFINE a == WordsOf(e.left)
              b == WordsOf(e.right)
  <2>1. Words(e) = a \o b
    BY <1>3 DEF Words
  <2>2. a \in Seq(NamedWords) /\ b \in Seq(NamedWords)
    BY <1>14
  <2>. HIDE DEF a, b
  <2>5. \A k \in 1 .. Len(a \o b) : (a \o b)[k].stack = 1
    BY <1>15, <2>1 DEF Unmarked
  <2>3. a \in Seq(SingleWords) /\ b \in Seq(SingleWords)
    BY <2>2, <2>5, SinglesJoined
  <2>4. WordsOf(e.left) \in Seq(SingleWords) /\ WordsOf(e.right) \in Seq(SingleWords)
    BY <2>3 DEF a, b
  <2>. QED
    BY <1>8, <2>4, ClosedWords, WrapCellFits
<1>10. c.dpi = 203 => Estimate(e, c.strip, c.dpi) = line * most
  BY <1>6, <1>7
<1>. HIDE DEF lefts, rights
<1>11. count \in Nat
  BY <1>9, LenProperties DEF Larger
<1>. HIDE DEF count
<1>16. most \in Nat /\ count <= most
  BY <1>11 DEF Larger
<1>. HIDE DEF most
<1>12. line * count \in Nat /\ line * most \in Nat /\ line * count <= line * most
  BY <1>2, <1>11, <1>16, ProductFacts
<1>13. /\ \A i \in 1 .. Len(lefts) : GlyphCount(lefts[i]) * glyph \in Nat
       /\ \A i \in 1 .. Len(rights) : GlyphCount(rights[i]) * glyph \in Nat
       /\ lefts \in Seq(Fitting(SingleWords, mostL)) =>
            \A i \in 1 .. Len(lefts) : GlyphCount(lefts[i]) * glyph <= c.strip
       /\ rights \in Seq(Fitting(SingleWords, mostR)) =>
            \A i \in 1 .. Len(rights) : GlyphCount(rights[i]) * glyph <= c.strip
  BY <1>1, <1>2, <1>8, <1>9, LinesWithin
<1>. QED
  BY <1>4, <1>5, <1>10, <1>12, <1>13, <1>15

\* What drawing an element shows.
Drawing(c, e) ==
  [widths |-> Drawn(c, e), caption |-> CaptionWidth(c, e), height |-> Advance(c, e), element |-> e]

\* An element is drawn as it should be: it takes no more than its estimate on a
\* preview, and when it is on the page then it is whole.
DrawnWell(c, e) ==
  /\ Advance(c, e) \in Nat /\ Drawn(c, e) \in SUBSET Nat /\ CaptionWidth(c, e) \in Nat
  /\ c.y + Advance(c, e) <= c.height => Whole(c, Drawing(c, e))
  /\ c.dpi = 203 => /\ Estimate(e, c.strip, c.dpi) \in Nat
                    /\ Advance(c, e) <= Estimate(e, c.strip, c.dpi)

\* Texts, rows, dividers, feeds and cuts.
LEMMA LinesDrawnWell ==
  ASSUME NEW width \in Widths, NEW c \in Canvases, ReceiptOn(c, width), NEW e \in LayoutElements,
         e.kind \in {"text", "row", "divider", "feed", "cut"}
  PROVE  DrawnWell(c, e)
<1>1. CaptionWidth(c, e) = 0
  BY DEF CaptionWidth
<1>2. /\ Drawing(c, e).widths = Drawn(c, e) /\ Drawing(c, e).element = e
  BY DEF Drawing
<1>3. (Unmarked(e) => \A w \in Drawn(c, e) : w <= c.strip) => Whole(c, Drawing(c, e))
  BY <1>2 DEF Whole
<1>4. CASE e.kind = "text"
  <2>1. e \in TextElements
    BY <1>4, ElementFacts
  <2>. QED
    BY <1>1, <1>3, <2>1, TextDrawn DEF DrawnWell
<1>5. CASE e.kind = "row"
  <2>1. e \in RowElements
    BY <1>5, ElementFacts
  <2>. QED
    BY <1>1, <1>3, <2>1, RowDrawn DEF DrawnWell
<1>6. CASE e.kind = "divider"
  <2>1. /\ Advance(c, e) = LineHeight(c.dpi) /\ Drawn(c, e) = {c.strip}
        /\ Estimate(e, c.strip, c.dpi) = LineHeight(c.dpi)
    BY <1>6 DEF Advance, Drawn, Estimate
  <2>. QED
    BY <1>1, <1>3, <2>1, CanvasFacts DEF DrawnWell
<1>7. CASE e.kind = "feed"
  <2>1. /\ Advance(c, e) = e.lines * LineHeight(c.dpi) /\ Drawn(c, e) = {}
        /\ Estimate(e, c.strip, c.dpi) = e.lines * LineHeight(c.dpi)
    BY <1>7 DEF Advance, Drawn, Estimate
  <2>2. e.lines \in Nat
    BY <1>7, ElementFacts DEF FeedSections
  <2>3. LineHeight(c.dpi) \in Nat
    BY CanvasFacts
  <2>4. e.lines * LineHeight(c.dpi) \in Nat
    BY <2>2, <2>3, ProductFacts
  <2>. QED
    BY <1>1, <1>3, <2>1, <2>4 DEF DrawnWell
<1>8. CASE e.kind = "cut"
  <2>1. Advance(c, e) = 0 /\ Drawn(c, e) = {} /\ Estimate(e, c.strip, c.dpi) = 0
    BY <1>8 DEF Advance, Drawn, Estimate
  <2>. QED
    BY <1>1, <1>3, <2>1 DEF DrawnWell
<1>. QED
  BY <1>4, <1>5, <1>6, <1>7, <1>8

\* Images.
LEMMA ImageDrawnWell ==
  ASSUME NEW width \in Widths, NEW c \in Canvases, ReceiptOn(c, width), NEW e \in ImageElements
  PROVE  DrawnWell(c, e)
<1>. DEFINE w    == Larger((e.width * c.dpi) \div 203, 1)
            h    == Larger((e.height * c.dpi) \div 203, 1)
            rest == Smaller(MaxReceiptImageHeight, c.height - c.y)
            fit  == FitDimensions(w, h, c.strip, rest)
            gap  == 2 * Scale(c.dpi)
            free == FitDimensions(w, h, c.strip, MaxReceiptImageHeight)
<1>1. /\ c.dpi \in Nat /\ c.strip \in Nat /\ c.strip > 0 /\ c.height \in Nat /\ c.y \in Nat
      /\ c.y <= c.height /\ gap \in Nat /\ gap > 0
  BY CanvasFacts
<1>2. e.kind = "image" /\ e.width \in Nat /\ e.height \in Nat /\ e.height > 0
  BY DEF ImageElements
<1>3. ImageAt(e, c.dpi)[1] = w /\ ImageAt(e, c.dpi)[2] = h
  BY DEF ImageAt
<1>4. Advance(c, e) = fit[2] + gap /\ Drawn(c, e) = {fit[1]} /\ CaptionWidth(c, e) = 0
  BY <1>2, <1>3 DEF Advance, Drawn, PlacedImage, CaptionWidth
<1>5. Estimate(e, c.strip, c.dpi)
        = Smaller((e.height * c.dpi) \div 203, MaxReceiptImageHeight) + gap
  BY <1>2 DEF Estimate
<1>6. w \in Nat /\ w > 0 /\ h \in Nat /\ h > 0
  <2>1. e.width * c.dpi \in Nat /\ e.height * c.dpi \in Nat
    BY <1>1, <1>2, ProductFacts
  <2>2. (e.width * c.dpi) \div 203 \in Nat /\ (e.height * c.dpi) \div 203 \in Nat
    BY <2>1, DivNat
  <2>. QED
    BY <2>2 DEF Larger
<1>7. c.dpi = 203 => (e.height * c.dpi) \div 203 = e.height /\ h = e.height
  BY <1>2 DEF Larger
<1>8. rest \in Nat /\ rest <= MaxReceiptImageHeight /\ rest <= c.height - c.y
      /\ (rest = MaxReceiptImageHeight \/ rest = c.height - c.y) /\ MaxReceiptImageHeight \in Nat
  BY <1>1 DEF Smaller, MaxReceiptImageHeight
<1>9. (/\ \A v \in Drawn(c, e) : v <= c.strip
       /\ Advance(c, e) - gap = free[2]) => Whole(c, Drawing(c, e))
  BY <1>2, <1>3 DEF Whole, Drawing
<1>. HIDE DEF w, h, rest, gap
<1>10. /\ fit[1] \in 0 .. c.strip /\ fit[2] \in 0 .. rest /\ fit[2] <= h
       /\ fit[2] < rest => free[2] = fit[2]
  <2>1. FitsWell(w, h, c.strip, rest)
    BY <1>1, <1>6, <1>8, FitsDimensions
  <2>. QED
    BY <1>8, <2>1 DEF FitsWell
<1>11. rest = MaxReceiptImageHeight => free = fit
  OBVIOUS
<1>. HIDE DEF fit, free
<1>12. Advance(c, e) \in Nat /\ Drawn(c, e) \in SUBSET Nat
  BY <1>1, <1>4, <1>8, <1>10
<1>13. ASSUME c.y + Advance(c, e) <= c.height PROVE Whole(c, Drawing(c, e))
  <2>1. free[2] = fit[2]
    BY <1>1, <1>4, <1>8, <1>10, <1>11, <1>13
  <2>2. Advance(c, e) - gap = fit[2]
    BY <1>1, <1>4, <1>8, <1>10
  <2>3. \A v \in Drawn(c, e) : v <= c.strip
    BY <1>1, <1>4, <1>10
  <2>. QED
    BY <1>9, <2>1, <2>2, <2>3
<1>14. ASSUME c.dpi = 203
       PROVE  Estimate(e, c.strip, c.dpi) \in Nat /\ Advance(c, e) <= Estimate(e, c.strip, c.dpi)
  <2>1. Estimate(e, c.strip, c.dpi) = Smaller(e.height, MaxReceiptImageHeight) + gap
    BY <1>5, <1>7, <1>14
  <2>2. fit[2] <= e.height /\ fit[2] <= MaxReceiptImageHeight /\ fit[2] \in Nat
    BY <1>7, <1>8, <1>10, <1>14
  <2>. QED
    BY <1>1, <1>2, <1>4, <1>8, <2>1, <2>2 DEF Smaller
<1>15. CaptionWidth(c, e) \in Nat
  BY <1>4
<1>. QED
  BY <1>12, <1>13, <1>14, <1>15 DEF DrawnWell

\* QR codes.
LEMMA QrDrawnWell ==
  ASSUME NEW width \in Widths, NEW c \in Canvases, ReceiptOn(c, width), NEW e \in QrSections
  PROVE  DrawnWell(c, e)
<1>. DEFINE n == e.modules + 8
            nominal == Larger((c.dpi * 6) \div 203, 1)
            fits == c.strip \div n
            k == QrModule(e, c.strip, c.dpi)
            gap == 2 * Scale(c.dpi)
<1>1. c.dpi \in Nat /\ c.strip \in Nat /\ gap \in Nat
  BY CanvasFacts
<1>2. e.kind = "qr" /\ e.modules \in Nat /\ n \in Nat /\ n > 0
  BY DEF QrSections, MaxQrModules
<1>3. Advance(c, e) = n * k + gap /\ Drawn(c, e) = {n * k} /\ CaptionWidth(c, e) = 0
  BY <1>2 DEF Advance, Drawn, CaptionWidth
<1>4. Estimate(e, c.strip, c.dpi) = n * nominal + gap
  BY <1>2 DEF Estimate
<1>5. (\A v \in Drawn(c, e) : v <= Larger(c.strip, n)) => Whole(c, Drawing(c, e))
  BY <1>2 DEF Whole, Drawing
<1>6. nominal \in Nat /\ nominal > 0
  BY <1>1 DEF Larger
<1>7. fits \in Nat /\ n * fits <= c.strip
  BY <1>1, <1>2, DivFacts, DivNat
<1>8. k = Larger(Smaller(nominal, fits), 1)
  BY DEF QrModule
<1>. HIDE DEF n, nominal, fits, k, gap
<1>9. k \in Nat /\ k <= nominal /\ (k = 1 \/ k <= fits)
  BY <1>6, <1>7, <1>8 DEF Larger, Smaller
<1>10. n * k \in Nat /\ n * nominal \in Nat /\ n * k <= n * nominal
  BY <1>2, <1>6, <1>9, ProductFacts
<1>11. n * k <= Larger(c.strip, n)
  <2>1. Larger(c.strip, n) \in Int /\ c.strip <= Larger(c.strip, n) /\ n <= Larger(c.strip, n)
    BY <1>1, <1>2 DEF Larger
  <2>2. CASE k = 1
    <3>1. n * k = n
      BY <1>2, <2>2
    <3>. QED
      BY <2>1, <3>1
  <2>3. CASE k <= fits
    <3>1. n * k <= n * fits /\ n * fits \in Nat
      BY <1>2, <1>7, <1>9, <2>3, ProductFacts
    <3>. DEFINE a == n * k
                b == n * fits
                m == Larger(c.strip, n)
    <3>2. a \in Nat /\ b \in Nat /\ m \in Int /\ c.strip \in Nat /\ a <= b /\ b <= c.strip /\ c.strip <= m
      BY <1>1, <1>7, <1>10, <2>1, <3>1
    <3>. HIDE DEF a, b, m
    <3>3. a <= m
      BY <3>2
    <3>. QED
      BY <3>3 DEF a, m
  <2>. QED
    BY <1>9, <2>2, <2>3
<1>. QED
  BY <1>1, <1>3, <1>4, <1>5, <1>10, <1>11 DEF DrawnWell

\* Bar codes.
LEMMA BarcodeDrawnWell ==
  ASSUME NEW width \in Widths, NEW c \in Canvases, ReceiptOn(c, width), NEW e \in BarcodeElements,
         DrawError(e, c.strip) = "none"
  PROVE  DrawnWell(c, e)
<1>. DEFINE n == e.modules
            most == Larger(c.strip - 20, 1)
            fits == most \div n
            k == BarcodeModule(e, c.strip, c.dpi)
            gap == 2 * Scale(c.dpi)
            digit == 8 * Smaller(HriGlyphScale, Scale(c.dpi))
            tall == BarcodeHeight(e, c.dpi)
            text == IF e.readable THEN LineHeight(c.dpi) ELSE 0
<1>1. /\ c.dpi \in Nat /\ c.strip \in Nat /\ c.strip >= 164 /\ gap \in Nat /\ LineHeight(c.dpi) \in Nat
      /\ Scale(c.dpi) \in 1 .. 6 /\ 13 * 8 * Smaller(HriGlyphScale, Scale(c.dpi)) <= c.strip
  BY CanvasFacts
<1>2. /\ e.kind = "barcode" /\ n \in Nat /\ e.length \in Nat /\ e.height \in Nat /\ e.height > 0
      /\ e.readable \in BOOLEAN /\ (e.format \in {"ean13", "upca"} /\ n # 0 => e.length <= 13)
  BY DEF BarcodeElements, DigitsEncoded
<1>3. n > 0 /\ n <= most
  <2>1. most \in Int
    BY <1>1 DEF Larger
  <2>2. n # 0
    BY <1>2 DEF DrawError
  <2>3. ~(n > most)
    <3>. SUFFICES ASSUME n > most PROVE FALSE
      OBVIOUS
    <3>1. DrawError(e, c.strip) = "BarcodeRender"
      BY <1>2, <2>2 DEF DrawError
    <3>. QED
      BY <3>1
  <2>. HIDE DEF most
  <2>. QED
    BY <1>2, <2>1, <2>2, <2>3
<1>4. most \in Nat /\ most <= c.strip
  BY <1>1 DEF Larger
<1>5. Advance(c, e) = tall + gap + text /\ Drawn(c, e) = {n * k}
  BY <1>2 DEF Advance, Drawn
<1>6. Estimate(e, c.strip, c.dpi) = (c.dpi * e.height) \div 203 + text + gap
  BY <1>2 DEF Estimate
<1>7. CaptionWidth(c, e) = IF e.readable THEN e.length * 8 * Smaller(HriGlyphScale, Scale(c.dpi)) ELSE 0
  BY <1>2 DEF CaptionWidth
<1>8. (/\ \A v \in Drawn(c, e) : v <= c.strip
       /\ e.format \in {"ean13", "upca"} => CaptionWidth(c, e) <= c.strip)
      => Whole(c, Drawing(c, e))
  BY <1>2 DEF Whole, Drawing
<1>9. text \in Nat
  BY <1>1
<1>10. tall \in Nat /\ (c.dpi = 203 => tall = (c.dpi * e.height) \div 203 /\ tall = e.height)
  <2>1. tall = Larger((c.dpi * e.height) \div 203, 1)
    BY DEF BarcodeHeight
  <2>2. c.dpi * e.height \in Nat
    BY <1>1, <1>2, ProductFacts
  <2>3. (c.dpi * e.height) \div 203 \in Nat
    BY <2>2, DivNat
  <2>4. c.dpi = 203 => (c.dpi * e.height) \div 203 = e.height
    BY <1>2
  <2>. HIDE DEF tall
  <2>. QED
    BY <1>2, <2>1, <2>3, <2>4 DEF Larger
<1>11. digit \in Nat /\ 13 * digit <= c.strip
  BY <1>1 DEF Smaller, HriGlyphScale
<1>12. e.length * 8 * Smaller(HriGlyphScale, Scale(c.dpi)) = e.length * digit
  <2>1. Smaller(HriGlyphScale, Scale(c.dpi)) \in Nat
    BY <1>1 DEF Smaller, HriGlyphScale
  <2>. QED
    BY <1>2, <2>1
<1>13. fits \in Nat /\ n * fits <= most
  BY <1>2, <1>3, <1>4, DivFacts, DivNat
<1>14. k = Larger(Smaller(fits, Larger(c.dpi \div 100, 1)), 1)
  BY DEF BarcodeModule
<1>. HIDE DEF n, most, fits, k, gap, digit, tall, text
<1>15. fits > 0
  <2>. SUFFICES ASSUME fits = 0 PROVE FALSE
    BY <1>13
  <2>1. most < n * fits + n
    <3>1. \A a \in Int, b \in Int : b > 0 => a < b * (a \div b) + b
      OBVIOUS
    <3>. QED
      BY <1>2, <1>3, <1>4, <3>1 DEF fits
  <2>2. n * fits = 0
    BY <1>2
  <2>. QED
    BY <1>2, <1>3, <1>4, <2>1, <2>2
<1>16. k \in Nat /\ k <= fits
  <2>1. Larger(c.dpi \div 100, 1) \in Nat
    BY <1>1 DEF Larger
  <2>. QED
    BY <1>13, <1>14, <1>15, <2>1 DEF Larger, Smaller
<1>17. n * k \in Nat /\ n * k <= c.strip
  <2>1. n * k \in Nat /\ n * fits \in Nat /\ n * k <= n * fits
    BY <1>2, <1>13, <1>16, ProductFacts
  <2>. QED
    BY <1>1, <1>4, <1>13, <2>1
<1>18. /\ CaptionWidth(c, e) \in Nat
       /\ e.format \in {"ean13", "upca"} => CaptionWidth(c, e) <= c.strip
  <2>1. e.length * digit \in Nat
    BY <1>2, <1>11, ProductFacts
  <2>2. e.length <= 13 => e.length * digit <= 13 * digit
    <3>1. e.length <= 13 => digit * e.length <= digit * 13
      BY <1>2, <1>11, ProductFacts
    <3>2. digit * e.length = e.length * digit /\ digit * 13 = 13 * digit
      BY <1>2, <1>11, ProductFacts
    <3>. QED
      BY <3>1, <3>2
  <2>3. 13 * digit \in Nat
    BY <1>11
  <2>4. e.format \in {"ean13", "upca"} => e.length * digit <= c.strip
    BY <1>1, <1>2, <1>3, <1>11, <2>1, <2>2, <2>3
  <2>5. CaptionWidth(c, e) = IF e.readable THEN e.length * digit ELSE 0
    BY <1>7, <1>12
  <2>. QED
    BY <1>1, <2>1, <2>4, <2>5
<1>. QED
  BY <1>1, <1>2, <1>5, <1>6, <1>8, <1>9, <1>10, <1>17, <1>18 DEF DrawnWell

\* Every element.
LEMMA ElementDrawnWell ==
  ASSUME NEW width \in Widths, NEW c \in Canvases, ReceiptOn(c, width), NEW e \in LayoutElements,
         DrawError(e, c.strip) = "none"
  PROVE  DrawnWell(c, e)
<1>1. CASE e.kind = "image"
  BY <1>1, ElementFacts, ImageDrawnWell
<1>2. CASE e.kind = "qr"
  BY <1>2, ElementFacts, QrDrawnWell
<1>3. CASE e.kind = "barcode"
  BY <1>3, ElementFacts, BarcodeDrawnWell
<1>. QED
  BY <1>1, <1>2, <1>3, ElementFacts, LinesDrawnWell

-----------------------------------------------------------------------------
(* The stream and the interpreter.                                         *)

LineTokens == CellTokens \cup [op : {"nl"}]
SettingTokens ==
  [op : {"init"}] \cup [op : {"align"}, value : 0 .. 2] \cup [op : {"bold"}, value : 0 .. 1]
    \cup [op : {"hri", "feed", "cut"}, value : Nat] \cup [op : {"height"}, value : Nat \ {0}]
RasterTokens ==
  [op : {"raster"}, low : Nat, high : Nat, heightLow : Nat, heightHigh : Nat, payload : Nat, at : Nat]
QrFunctions == {"model", "size", "level", "store", "print"}
QrTokens ==
  [op : {"qr"}, function : QrFunctions, low : Nat, high : Nat, payload : Nat, stored : Seq(QrSections)]
BarcodeTokens == [op : {"barcode"}, length : Nat, payload : Nat, value : BarcodeElements]

Tokens == LineTokens \cup SettingTokens \cup RasterTokens \cup QrTokens \cup BarcodeTokens

Parsers ==
  [columns : Nat, offset : Nat \ {0}, align : Alignments, bold : BOOLEAN, text : Seq(TextTokens),
   qr : Seq(QrSections), height : Nat \ {0}, readable : BOOLEAN, elements : Seq(LayoutElements),
   error : {"none", "invalid", "unsupported"}]

LineOps == {"word", "spaces", "tab", "nl"}
SettingOps == {"init", "align", "bold", "hri", "feed", "cut", "height"}

\* What the command of a token says of it.
LEMMA TokenFacts ==
  ASSUME NEW t \in Tokens
  PROVE  /\ t.op \in LineOps \cup SettingOps \cup {"raster", "qr", "barcode"}
         /\ t.op = "word" => t.word \in NamedWords
         /\ t.op \in {"word", "spaces"} => t \in TextTokens
         /\ t.op = "align" => t.value \in 0 .. 2
         /\ t.op \in {"hri", "feed", "cut", "bold"} => t.value \in Nat
         /\ t.op = "height" => t.value \in Nat \ {0}
         /\ t.op = "raster" => t \in RasterTokens
         /\ t.op = "qr" => t \in QrTokens
         /\ t.op = "barcode" => t \in BarcodeTokens
<1>. USE DEF LineOps, SettingOps
<1>1. CASE t \in CellTokens
  BY <1>1 DEF CellTokens, TextTokens, CellPieces, SpaceTokens, Tab
<1>2. CASE t \in [op : {"nl"}]
  BY <1>2
<1>3. CASE t \in SettingTokens
  BY <1>3 DEF SettingTokens
<1>4. CASE t \in RasterTokens
  BY <1>4 DEF RasterTokens
<1>5. CASE t \in QrTokens
  BY <1>5 DEF QrTokens
<1>6. CASE t \in BarcodeTokens
  BY <1>6 DEF BarcodeTokens
<1>. QED
  BY <1>1, <1>2, <1>3, <1>4, <1>5, <1>6 DEF Tokens, LineTokens

\* The largest of a set of places in a list.
LEMMA MaxOfPlaces ==
  ASSUME NEW n \in Nat, NEW S \in SUBSET (1 .. n), S # {}
  PROVE  Max(S) \in S
<1>. DEFINE T == {n - x : x \in S}
<1>1. T \in SUBSET Nat /\ T # {}
  <2>1. \A x \in S : n - x \in Nat
    OBVIOUS
  <2>2. PICK x \in S : TRUE
    OBVIOUS
  <2>3. n - x \in T
    BY <2>2
  <2>. QED
    BY <2>1, <2>3
<1>2. PICK least \in T : \A y \in T : least <= y
  BY <1>1, LeastNatural
<1>3. PICK x \in S : least = n - x
  BY <1>2
<1>4. \A y \in S : x >= y
  <2>. SUFFICES ASSUME NEW y \in S PROVE x >= y
    OBVIOUS
  <2>1. n - y \in T /\ n - x <= n - y
    BY <1>2, <1>3
  <2>. QED
    BY <2>1
<1>. QED
  BY <1>3, <1>4 DEF Max

\* What split_emitted_row returns is a row of the layout.
LEMMA SplitRowType ==
  ASSUME NEW tokens \in Seq(TextTokens), SplitEmittedRow(tokens) # << >>
  PROVE  SplitEmittedRow(tokens)[1] \in RowElements
<1>. DEFINE n == Len(tokens)
            gaps == {i \in 1 .. n : Wide(tokens, i)}
            gap == Max(gaps)
            before == SubSeq(tokens, 1, gap - 1)
            after == SubSeq(tokens, gap + 1, n)
            left == WordsOf(before)
            right == WordsOf(after)
            row == [kind |-> "row", left |-> WordTokens(left), right |-> WordTokens(right),
                    ascii |-> TRUE, at |-> 0]
<1>1. n \in Nat /\ \A i \in 1 .. n : tokens[i] \in TextTokens
  BY LenProperties, ElementOfSeq
<1>2. SplitEmittedRow(tokens) = IF gaps = {} \/ left = << >> THEN << >> ELSE <<row>>
  BY DEF SplitEmittedRow
<1>3. gaps # {} /\ left # << >> /\ SplitEmittedRow(tokens)[1] = row
  <2>. HIDE DEF gaps, left, row
  <2>. QED
    BY <1>2
<1>4. gap \in 1 .. n
  <2>1. gaps \in SUBSET (1 .. n)
    OBVIOUS
  <2>. HIDE DEF gaps
  <2>2. gap \in gaps
    BY <1>1, <1>3, <2>1, MaxOfPlaces
  <2>. QED
    BY <2>1, <2>2
<1>. HIDE DEF gap, gaps
<1>5. before \in Seq(TextTokens) /\ after \in Seq(TextTokens)
  <2>1. \A i \in 1 .. gap - 1 : tokens[i] \in TextTokens
    BY <1>1, <1>4
  <2>2. \A i \in gap + 1 .. n : tokens[i] \in TextTokens
    BY <1>1, <1>4
  <2>3. gap - 1 \in Int /\ gap + 1 \in Int /\ n \in Int
    BY <1>1, <1>4
  <2>. HIDE DEF n
  <2>. QED
    BY <2>1, <2>2, <2>3, SubSeqProperties
<1>6. left \in Seq(NamedWords) /\ right \in Seq(NamedWords)
  BY <1>5, WordsOfNamed
<1>. HIDE DEF left, right
<1>8. WordTokens(left) \in Seq(CellTokens) /\ WordTokens(right) \in Seq(CellTokens)
  <2>1. WordTokens(left) \in Seq(TextTokens) /\ WordTokens(right) \in Seq(TextTokens)
    BY <1>6, WordTokensType DEF TextTokens
  <2>2. TextTokens \subseteq CellTokens
    BY DEF CellTokens
  <2>. QED
    BY <2>1, <2>2, SeqWithin
<1>7. row \in RowElements
  BY <1>8 DEF RowElements
<1>. QED
  BY <1>3, <1>7

\* An element is pushed.
LEMMA PushType ==
  ASSUME NEW p \in Parsers, NEW e \in LayoutElements
  PROVE  Push(p, e) \in Parsers /\ Push(p, e).error = p.error /\ Push(p, e).offset = p.offset
         /\ Push(p, e).qr = p.qr
<1>1. Append(p.elements, e) \in Seq(LayoutElements)
  BY AppendProperties DEF Parsers
<1>2. << >> \in Seq(TextTokens)
  BY EmptySeq
<1>. QED
  BY <1>1, <1>2 DEF Push, Parsers

\* The text that is flushed is an element of the layout.
LEMMA TextElementType ==
  ASSUME NEW p \in Parsers PROVE TextElement(p) \in LayoutElements
<1>1. p.text \in Seq(TextTokens) /\ p.align \in Alignments /\ p.bold \in BOOLEAN
  BY DEF Parsers
<1>2. WordsOf(p.text) \in Seq(NamedWords)
  BY <1>1, WordsOfNamed
<1>3. << >> \in Seq(Seq(NamedWords))
  BY EmptySeq
<1>4. \A l \in Seq(NamedWords) : <<l>> \in Seq(Seq(NamedWords))
  OBVIOUS
<1>. DEFINE lines == IF WordsOf(p.text) = << >> THEN << >> ELSE <<WordsOf(p.text)>>
<1>5. lines \in Seq(Seq(NamedWords))
  BY <1>2, <1>3, <1>4
<1>6. TextElement(p) = [kind |-> "text", align |-> p.align, bold |-> p.bold, ascii |-> TRUE,
                        at |-> 0, lines |-> lines]
  BY DEF TextElement
<1>. HIDE DEF lines
<1>7. TextElement(p) \in TextElements
  BY <1>1, <1>5, <1>6 DEF TextElements
<1>. QED
  BY <1>7 DEF LayoutElements

\* Flushing the text.
LEMMA FlushTextType ==
  ASSUME NEW p \in Parsers
  PROVE  FlushText(p) \in Parsers /\ FlushText(p).error = p.error /\ FlushText(p).offset = p.offset
         /\ FlushText(p).qr = p.qr
  BY TextElementType, PushType DEF FlushText

\* The plain elements the interpreter makes itself.
LEMMA MadeElements ==
  /\ \A n \in Nat : [kind |-> "feed", lines |-> n, at |-> 0] \in LayoutElements
  /\ \A w \in NamedWords : [kind |-> "divider", word |-> w, at |-> 0] \in LayoutElements
  /\ [kind |-> "cut", at |-> 0] \in LayoutElements
<1>1. \A n \in Nat : [kind |-> "feed", lines |-> n, at |-> 0] \in FeedSections
  BY DEF FeedSections
<1>2. \A w \in NamedWords : [kind |-> "divider", word |-> w, at |-> 0] \in DividerElements
  BY DEF DividerElements
<1>3. [kind |-> "cut", at |-> 0] \in CutElements
  BY DEF CutElements
<1>. QED
  BY <1>1, <1>2, <1>3 DEF LayoutElements

\* The end of a line.
LEMMA FinishTextLineType ==
  ASSUME NEW p \in Parsers
  PROVE  FinishTextLine(p) \in Parsers /\ FinishTextLine(p).error = p.error
         /\ FinishTextLine(p).offset = p.offset /\ FinishTextLine(p).qr = p.qr
<1>. DEFINE row == SplitEmittedRow(p.text)
            e == IF row = << >> THEN TextElement(p) ELSE row[1]
            rule == [kind |-> "divider", word |-> p.text[1].word, at |-> 0]
<1>1. p.text \in Seq(TextTokens)
  BY DEF Parsers
<1>2. row # << >> => row[1] \in LayoutElements
  BY <1>1, SplitRowType DEF LayoutElements
<1>3. e \in LayoutElements
  BY <1>2, TextElementType
<1>7. IsRule(p) => rule \in LayoutElements
  <2>. SUFFICES ASSUME IsRule(p) PROVE rule \in LayoutElements
    OBVIOUS
  <2>1. 1 \in 1 .. Len(p.text) /\ p.text[1].op = "word"
    BY DEF IsRule
  <2>2. p.text[1] \in TextTokens
    BY <1>1, <2>1, ElementOfSeq
  <2>3. p.text[1].word \in NamedWords
    BY <2>1, <2>2 DEF TextTokens, CellPieces, SpaceTokens
  <2>. QED
    BY <2>3, MadeElements
<1>. HIDE DEF e, rule
<1>4. \/ FinishTextLine(p) = Push(p, [kind |-> "feed", lines |-> 1, at |-> 0])
      \/ IsRule(p) /\ FinishTextLine(p) = Push(p, rule)
      \/ FinishTextLine(p) = Push(p, e)
  BY DEF FinishTextLine, e, rule
<1>5. \A x \in LayoutElements :
        FinishTextLine(p) = Push(p, x) =>
          /\ FinishTextLine(p) \in Parsers /\ FinishTextLine(p).error = p.error
          /\ FinishTextLine(p).offset = p.offset /\ FinishTextLine(p).qr = p.qr
  <2>. SUFFICES ASSUME NEW x \in LayoutElements, FinishTextLine(p) = Push(p, x)
                PROVE  /\ FinishTextLine(p) \in Parsers /\ FinishTextLine(p).error = p.error
                       /\ FinishTextLine(p).offset = p.offset /\ FinishTextLine(p).qr = p.qr
    OBVIOUS
  <2>. QED
    BY PushType
<1>6. [kind |-> "feed", lines |-> 1, at |-> 0] \in LayoutElements
  BY MadeElements
<1>. QED
  BY <1>3, <1>4, <1>5, <1>6, <1>7

Prints(t) == t.op = "qr" /\ t.function = "print"
Stores(t) == t.op = "qr" /\ t.function = "store"

RasterReadable(t) ==
  LET row    == t.low + 256 * t.high
      height == t.heightLow + 256 * t.heightHigh
  IN  row # 0 /\ height # 0 /\ row * height <= MaxRasterBytes /\ row * height = t.payload
QrReadable(t) ==
  LET length == t.low + 256 * t.high
  IN  length # 0 /\ length <= MaxQrBytes + 3 /\ length = t.payload

\* A token whose declared lengths are those of its payload and within the
\* interpreter's limits.
Readable(t) ==
  /\ t.op = "raster" => RasterReadable(t)
  /\ t.op = "qr" => QrReadable(t)
  /\ t.op = "barcode" => t.length = t.payload

\* A token that the interpreter knows; the print of a QR code needs a stored
\* one.
Supported(t) ==
  /\ t.op = "feed" => t.value # 0
  /\ Stores(t) => t.stored # << >>

\* What reading a token leaves.
ReadWell(p, t, q) ==
  /\ q \in Parsers /\ q.offset = p.offset
  /\ (p.error = "none" /\ Supported(t) /\ (Prints(t) => p.qr # << >>)) =>
       /\ q.error # "unsupported"
       /\ Readable(t) => q.error = "none"
       /\ q.error = "none" /\ Stores(t) => q.qr # << >>

\* The interpreter stops.
LEMMA StopType ==
  ASSUME NEW p \in Parsers, NEW e \in {"invalid", "unsupported"}
  PROVE  Stop(p, e) \in Parsers /\ Stop(p, e).offset = p.offset /\ Stop(p, e).error = e
  BY DEF Stop, Parsers

\* Settings, feeds and cuts.
LEMMA SettingParsed ==
  ASSUME NEW p \in Parsers, NEW t \in Tokens, t.op \in SettingOps
  PROVE  ReadWell(p, t, ParseCommand(p, t))
<1>. DEFINE q == ParseCommand(p, t)
<1>1. ~Stores(t)
  BY DEF Stores, SettingOps
<1>2. CASE t.op = "init"
  <2>1. q = [p EXCEPT !.align = "left", !.bold = FALSE, !.qr = << >>]
    BY <1>2 DEF ParseCommand
  <2>2. << >> \in Seq(QrSections)
    BY EmptySeq
  <2>3. q \in Parsers /\ q.offset = p.offset /\ q.error = p.error
    BY <2>1, <2>2 DEF Parsers, Alignments
  <2>. QED
    BY <1>1, <2>3 DEF ReadWell
<1>3. CASE t.op = "align"
  <2>1. q = [p EXCEPT !.align = AlignmentOf[t.value]]
    BY <1>3 DEF ParseCommand
  <2>2. t.value \in 0 .. 2
    BY <1>3, TokenFacts
  <2>3. AlignmentOf[t.value] \in Alignments
    <3>1. AlignmentOf[t.value] = <<"left", "center", "right">>[t.value + 1]
      BY <2>2 DEF AlignmentOf
    <3>2. t.value = 0 \/ t.value = 1 \/ t.value = 2
      BY <2>2
    <3>. QED
      BY <3>1, <3>2 DEF Alignments
  <2>4. q \in Parsers /\ q.offset = p.offset /\ q.error = p.error
    BY <2>1, <2>3 DEF Parsers
  <2>. QED
    BY <1>1, <2>4 DEF ReadWell
<1>4. CASE t.op = "bold"
  <2>1. q = [p EXCEPT !.bold = (t.value = 1)]
    BY <1>4 DEF ParseCommand
  <2>2. q \in Parsers /\ q.offset = p.offset /\ q.error = p.error
    BY <2>1 DEF Parsers
  <2>. QED
    BY <1>1, <2>2 DEF ReadWell
<1>5. CASE t.op = "feed"
  <2>1. q = IF t.value = 0 THEN Stop(p, "unsupported")
            ELSE Push(p, [kind |-> "feed", lines |-> t.value, at |-> 0])
    BY <1>5 DEF ParseCommand
  <2>2. t.value \in Nat
    BY <1>5, TokenFacts
  <2>3. [kind |-> "feed", lines |-> t.value, at |-> 0] \in LayoutElements
    BY <2>2, MadeElements
  <2>4. CASE t.value = 0
    <3>1. ~Supported(t)
      BY <1>5, <2>4 DEF Supported
    <3>. QED
      BY <2>1, <2>4, <3>1, StopType DEF ReadWell
  <2>5. CASE t.value # 0
    BY <1>1, <2>1, <2>3, <2>5, PushType DEF ReadWell
  <2>. QED
    BY <2>4, <2>5
<1>6. CASE t.op = "hri"
  <2>1. q = [p EXCEPT !.readable = (t.value # 0)]
    BY <1>6 DEF ParseCommand
  <2>2. q \in Parsers /\ q.offset = p.offset /\ q.error = p.error
    BY <2>1 DEF Parsers
  <2>. QED
    BY <1>1, <2>2 DEF ReadWell
<1>7. CASE t.op = "height"
  <2>1. q = [p EXCEPT !.height = t.value]
    BY <1>7 DEF ParseCommand
  <2>2. t.value \in Nat \ {0}
    BY <1>7, TokenFacts
  <2>3. q \in Parsers /\ q.offset = p.offset /\ q.error = p.error
    BY <2>1, <2>2 DEF Parsers
  <2>. QED
    BY <1>1, <2>3 DEF ReadWell
<1>8. CASE t.op = "cut"
  <2>1. q = Push(p, [kind |-> "cut", at |-> 0])
    BY <1>8 DEF ParseCommand
  <2>2. [kind |-> "cut", at |-> 0] \in LayoutElements
    BY MadeElements
  <2>. QED
    BY <1>1, <2>1, <2>2, PushType DEF ReadWell
<1>. QED
  BY <1>2, <1>3, <1>4, <1>5, <1>6, <1>7, <1>8 DEF SettingOps

\* Rasters.
LEMMA RasterParsed ==
  ASSUME NEW p \in Parsers, NEW t \in RasterTokens
  PROVE  ReadWell(p, t, ParseRaster(p, t))
<1>. DEFINE row    == t.low + 256 * t.high
            height == t.heightLow + 256 * t.heightHigh
            e == [kind |-> "image", width |-> row * 8, height |-> height,
                  stride |-> row, decodes |-> TRUE, at |-> t.at]
            refused == row = 0 \/ height = 0 \/ row * height > MaxRasterBytes \/ row * height # t.payload
<1>1. t.op = "raster" /\ row \in Nat /\ height \in Nat /\ t.at \in Nat
  BY DEF RasterTokens
<1>2. ParseRaster(p, t) = IF refused THEN Stop(p, "invalid") ELSE Push(p, e)
  BY DEF ParseRaster
<1>3. ~Stores(t)
  BY <1>1 DEF Stores
<1>4. CASE refused
  <2>1. ~RasterReadable(t)
    BY <1>1, <1>4, ProductFacts DEF RasterReadable, MaxRasterBytes
  <2>2. ~Readable(t)
    BY <1>1, <2>1 DEF Readable
  <2>. QED
    BY <1>2, <1>4, <2>2, StopType DEF ReadWell
<1>5. CASE ~refused
  <2>1. row # 0 /\ height # 0
    BY <1>5
  <2>. HIDE DEF row, height
  <2>2. e \in ImageElements
    BY <1>1, <2>1 DEF ImageElements
  <2>. HIDE DEF e
  <2>3. e \in LayoutElements
    BY <2>2 DEF LayoutElements
  <2>. QED
    BY <1>2, <1>3, <1>5, <2>3, PushType DEF ReadWell
<1>. QED
  BY <1>4, <1>5

\* QR functions.  A print takes the stored code, so it is only read after a
\* store.
LEMMA QrParsed ==
  ASSUME NEW p \in Parsers, NEW t \in QrTokens
  PROVE  ReadWell(p, t, ParseQr(p, t))
<1>. DEFINE length == t.low + 256 * t.high
            q == ParseQr(p, t)
            refused == length = 0 \/ length > MaxQrBytes + 3 \/ length # t.payload
<1>1. t.op = "qr" /\ length \in Nat /\ t.function \in QrFunctions /\ t.stored \in Seq(QrSections)
  BY DEF QrTokens
<1>2. q = IF refused THEN Stop(p, "invalid")
          ELSE CASE t.function = "store" -> [p EXCEPT !.qr = t.stored]
                 [] t.function = "print" ->
                      IF p.qr = << >> THEN Stop(p, "unsupported")
                      ELSE [Push(p, p.qr[1]) EXCEPT !.qr = << >>]
                 [] OTHER                -> p
  BY DEF ParseQr
<1>3. CASE refused
  <2>1. ~QrReadable(t)
    BY <1>1, <1>3 DEF QrReadable, MaxQrBytes
  <2>2. ~Readable(t)
    BY <1>1, <2>1 DEF Readable
  <2>. HIDE DEF refused
  <2>. QED
    BY <1>2, <1>3, <2>2, StopType DEF ReadWell
<1>. HIDE DEF refused
<1>4. CASE ~refused /\ t.function = "store"
  <2>1. q = [p EXCEPT !.qr = t.stored]
    BY <1>2, <1>4
  <2>2. q \in Parsers /\ q.offset = p.offset /\ q.error = p.error /\ q.qr = t.stored
    BY <1>1, <2>1 DEF Parsers
  <2>3. Supported(t) => t.stored # << >>
    BY <1>1, <1>4 DEF Supported, Stores
  <2>. QED
    BY <2>2, <2>3 DEF ReadWell
<1>5. CASE ~refused /\ t.function = "print" /\ p.qr = << >>
  <2>1. q = Stop(p, "unsupported")
    BY <1>2, <1>5
  <2>2. Prints(t)
    BY <1>1, <1>5 DEF Prints
  <2>. QED
    BY <1>5, <2>1, <2>2, StopType DEF ReadWell
<1>6. CASE ~refused /\ t.function = "print" /\ p.qr # << >>
  <2>. DEFINE r == Push(p, p.qr[1])
  <2>1. q = [r EXCEPT !.qr = << >>]
    BY <1>2, <1>6
  <2>2. p.qr[1] \in LayoutElements
    <3>1. p.qr \in Seq(QrSections)
      BY DEF Parsers
    <3>2. 1 \in 1 .. Len(p.qr)
      BY <1>6, <3>1, EmptySeq
    <3>. QED
      BY <3>1, <3>2, ElementOfSeq DEF LayoutElements
  <2>3. r \in Parsers /\ r.error = p.error /\ r.offset = p.offset
    BY <2>2, PushType
  <2>. HIDE DEF r
  <2>4. << >> \in Seq(QrSections)
    BY EmptySeq
  <2>5. q \in Parsers /\ q.error = r.error /\ q.offset = r.offset
    BY <2>1, <2>3, <2>4 DEF Parsers
  <2>6. ~Stores(t)
    BY <1>6 DEF Stores
  <2>. QED
    BY <2>3, <2>5, <2>6 DEF ReadWell
<1>7. CASE ~refused /\ t.function \notin {"store", "print"}
  <2>1. q = p /\ ~Stores(t)
    BY <1>2, <1>7 DEF Stores
  <2>. QED
    BY <2>1 DEF ReadWell
<1>. QED
  BY <1>3, <1>4, <1>5, <1>6, <1>7

\* Bar codes.
LEMMA BarcodeParsed ==
  ASSUME NEW p \in Parsers, NEW t \in BarcodeTokens
  PROVE  ReadWell(p, t, ParseBarcode(p, t))
<1>. DEFINE e == [t.value EXCEPT !.height = p.height, !.readable = p.readable]
<1>1. t.op = "barcode" /\ t.value \in BarcodeElements
  BY DEF BarcodeTokens
<1>2. p.height \in Nat \ {0} /\ p.readable \in BOOLEAN
  BY DEF Parsers
<1>3. e \in BarcodeElements
  BY <1>1, <1>2 DEF BarcodeElements, DigitsEncoded
<1>4. ParseBarcode(p, t) = IF t.length # t.payload THEN Stop(p, "invalid") ELSE Push(p, e)
  BY DEF ParseBarcode
<1>. HIDE DEF e
<1>5. e \in LayoutElements
  BY <1>3 DEF LayoutElements
<1>6. ~Stores(t) /\ (Readable(t) => t.length = t.payload)
  BY <1>1 DEF Stores, Readable
<1>. QED
  BY <1>4, <1>5, <1>6, StopType, PushType DEF ReadWell

\* The interpreter reads a token.
LEMMA TokenParsed ==
  ASSUME NEW p \in Parsers, NEW t \in Tokens
  PROVE  LET q == ParseToken(p, t)
         IN  /\ q \in Parsers /\ q.offset = p.offset + 1
             /\ (p.error = "none" /\ Supported(t) /\ (Prints(t) => p.qr # << >>)) =>
                  /\ ~Control(t) => q.error # "unsupported"
                  /\ Readable(t) /\ ~Control(t) => q.error = "none"
                  /\ Readable(t) => q.error # "invalid"
                  /\ q.error = "none" /\ Stores(t) => q.qr # << >>
<1>. DEFINE next == [p EXCEPT !.offset = @ + 1]
            q == ParseToken(p, t)
<1>1. next \in Parsers /\ next.offset = p.offset + 1 /\ next.error = p.error /\ next.qr = p.qr
      /\ next.text = p.text
  <2>. DEFINE n == p.offset + 1
              T == Seq(TextTokens)
              Q == Seq(QrSections)
              E == Seq(LayoutElements)
              Z == Nat \ {0}
  <2>1. Parsers = [columns : Nat, offset : Z, align : Alignments, bold : BOOLEAN, text : T,
                   qr : Q, height : Z, readable : BOOLEAN, elements : E,
                   error : {"none", "invalid", "unsupported"}]
    BY DEF Parsers
  <2>. HIDE DEF T, Q, E
  <2>2. n \in Z
    BY <2>1
  <2>. HIDE DEF n, Z
  <2>3. next = [p EXCEPT !.offset = n]
    BY DEF n
  <2>. HIDE DEF next
  <2>. QED
    BY <2>1, <2>2, <2>3 DEF n
<1>2. q = CASE Control(t)                -> Stop(next, "unsupported")
            [] t.op \in {"word", "spaces"} /\ ~Control(t) -> [next EXCEPT !.text = Append(@, t)]
            [] t.op = "nl"               -> FinishTextLine(next)
            [] OTHER                     -> ParseCommand(FlushText(next), t)
  BY DEF ParseToken
<1>. HIDE DEF next, q
<1>5. Control(t) => t.op \in {"tab", "word"} /\ (t.op = "tab" => Control(t))
  BY DEF Control
<1>6. CASE Control(t)
  <2>1. q = Stop(next, "unsupported")
    BY <1>2, <1>5, <1>6
  <2>2. ~Stores(t)
    BY <1>5, <1>6 DEF Stores
  <2>. QED
    BY <1>1, <1>6, <2>1, <2>2, StopType DEF q
<1>3. CASE t.op \in LineOps /\ ~Control(t)
  <2>1. ~Stores(t)
    BY <1>3 DEF Stores, LineOps
  <2>2. CASE t.op = "nl"
    <3>1. q = FinishTextLine(next)
      BY <1>2, <2>2
    <3>. QED
      BY <1>1, <2>1, <3>1, FinishTextLineType DEF q
  <2>3. CASE t.op # "nl"
    <3>0. t.op \in {"word", "spaces"}
      BY <1>3, <2>3 DEF LineOps, Control
    <3>1. t \in TextTokens /\ next.text \in Seq(TextTokens)
      BY <1>1, <3>0, TokenFacts DEF Parsers
    <3>2. Append(next.text, t) \in Seq(TextTokens)
      BY <3>1, AppendProperties
    <3>3. q = [next EXCEPT !.text = Append(next.text, t)]
      BY <1>2, <1>3, <3>0
    <3>4. q \in Parsers /\ q.offset = next.offset /\ q.error = next.error
      BY <1>1, <3>2, <3>3 DEF Parsers
    <3>. QED
      BY <1>1, <2>1, <3>4 DEF q
  <2>. QED
    BY <2>2, <2>3
<1>4. CASE t.op \notin LineOps
  <2>. DEFINE r == FlushText(next)
  <2>1. q = ParseCommand(r, t)
    BY <1>2, <1>4 DEF LineOps, Control
  <2>2. r \in Parsers /\ r.error = p.error /\ r.offset = p.offset + 1 /\ r.qr = p.qr
    BY <1>1, FlushTextType
  <2>. HIDE DEF r
  <2>3. ReadWell(r, t, q)
    <3>1. CASE t.op \in SettingOps
      BY <2>1, <2>2, <3>1, SettingParsed
    <3>2. CASE t.op = "raster"
      <4>1. q = ParseRaster(r, t) /\ t \in RasterTokens
        BY <2>1, <3>2, TokenFacts DEF ParseCommand
      <4>. QED
        BY <2>2, <4>1, RasterParsed
    <3>3. CASE t.op = "qr"
      <4>1. q = ParseQr(r, t) /\ t \in QrTokens
        BY <2>1, <3>3, TokenFacts DEF ParseCommand
      <4>. QED
        BY <2>2, <4>1, QrParsed
    <3>4. CASE t.op = "barcode"
      <4>1. q = ParseBarcode(r, t) /\ t \in BarcodeTokens
        BY <2>1, <3>4, TokenFacts DEF ParseCommand
      <4>. QED
        BY <2>2, <4>1, BarcodeParsed
    <3>. QED
      BY <1>4, <3>1, <3>2, <3>3, <3>4, TokenFacts
  <2>. QED
    BY <2>2, <2>3 DEF ReadWell, q
<1>. QED
  BY <1>3, <1>4, <1>6

-----------------------------------------------------------------------------
(* From the document to the layout.                                        *)

\* What the kind of a section says of it.
LEMMA SectionFacts ==
  ASSUME NEW s \in Sections
  PROVE  /\ s.kind \in {"text", "row", "divider", "cut", "image", "qr", "barcode", "feed"}
         /\ s.kind = "text"    => s \in TextSections
         /\ s.kind = "row"     => s \in RowSections
         /\ s.kind \in {"divider", "cut"} => s \in PlainSections
         /\ s.kind = "image"   => s \in ImageSections
         /\ s.kind = "qr"      => s \in QrSections
         /\ s.kind = "barcode" => s \in BarcodeSections /\ DigitsEncoded(s)
         /\ s.kind = "feed"    => s \in FeedSections
<1>0. /\ s \in TextSections \cup RowSections \cup PlainSections \cup ImageSections
                \cup QrSections \cup BarcodeSections \cup FeedSections
      /\ DigitsEncoded(s)
  BY SectionsAssumption
<1>1. CASE s \in TextSections
  BY <1>1 DEF TextSections
<1>2. CASE s \in RowSections
  BY <1>2 DEF RowSections
<1>3. CASE s \in PlainSections
  BY <1>3 DEF PlainSections
<1>4. CASE s \in ImageSections
  BY <1>4 DEF ImageSections
<1>5. CASE s \in QrSections
  BY <1>5 DEF QrSections
<1>6. CASE s \in BarcodeSections
  BY <1>0, <1>6 DEF BarcodeSections
<1>7. CASE s \in FeedSections
  BY <1>7 DEF FeedSections
<1>. QED
  BY <1>0, <1>1, <1>2, <1>3, <1>4, <1>5, <1>6, <1>7

\* A number within a bound.
LEMMA DimensionFacts ==
  /\ \A x : x \in 1 .. MaxImageDimension => x \in 1 .. 2048 /\ x \in Nat
  /\ \A x : x \in 1 .. 2048 => x \in Nat \ {0}
<1>1. ASSUME NEW x, x \in 1 .. MaxImageDimension PROVE x \in 1 .. 2048 /\ x \in Nat
  BY <1>1 DEF MaxImageDimension
<1>2. ASSUME NEW x, x \in 1 .. 2048 PROVE x \in Nat \ {0}
  <2>1. x \in Int /\ 1 <= x /\ x <= 2048
    BY <1>2
  <2>. QED
    BY <2>1
<1>. QED
  BY <1>1, <1>2

\* An image whose raster is small enough for the interpreter.
SmallImage(e) ==
  e.stride \in Nat /\ e.stride > 0 /\ e.stride <= 80 /\ e.height \in Nat /\ e.height > 0 /\ e.height <= 2048

\* An image after it was scaled down to the paper and packed into bytes.
LEMMA ImageShrunk ==
  ASSUME NEW width \in Widths, NEW s \in ImageSections
  PROVE  LET e == FromGray(Shrunk(s, width))
         IN  e \in ImageElements /\ SmallImage(e)
<1>. DEFINE most == MmToPixels(width, 203)
            image == Shrunk(s, width)
            scaled == (s.height * most) \div s.width
            e == FromGray(image)
<1>1. most = 464 \/ most = 639
  BY DEF Widths, MmToPixels
<1>2. s.width \in 1 .. 2048 /\ s.height \in 1 .. 2048 /\ s.width \in Nat /\ s.height \in Nat
  <2>1. s.width \in 1 .. MaxImageDimension /\ s.height \in 1 .. MaxImageDimension
    BY DEF ImageSections
  <2>. QED
    BY <2>1, DimensionFacts
<1>. HIDE DEF most
<1>3. s.width > most => scaled \in Nat /\ scaled <= s.height
  <2>. SUFFICES ASSUME s.width > most PROVE scaled \in Nat /\ scaled <= s.height
    OBVIOUS
  <2>. DEFINE a == s.height * most
              b == s.width
  <2>0. most \in Nat
    BY <1>1
  <2>1. a \in Nat /\ a <= s.height * b /\ s.height * b = b * s.height /\ b > 0 /\ b \in Nat
    BY <1>1, <1>2, <2>0, ProductFacts
  <2>2. a \div b \in Nat /\ b * (a \div b) <= a
    BY <2>1, DivFacts, DivNat
  <2>. DEFINE q == a \div b
              h == s.height
  <2>3. q \in Nat /\ h \in Nat /\ b * q <= b * h /\ b > 0 /\ b \in Nat /\ b * q \in Nat /\ b * h \in Nat
    <3>1. b * q \in Nat /\ b * h \in Nat
      BY <1>2, <2>1, <2>2, ProductFacts
    <3>. QED
      BY <1>2, <2>1, <2>2, <3>1
  <2>. HIDE DEF a, b, q, h
  <2>4. ~(h < q)
    <3>. SUFFICES ASSUME h < q PROVE FALSE
      OBVIOUS
    <3>1. b * h < b * q
      BY <2>3, ProductFacts
    <3>. QED
      BY <2>3, <3>1
  <2>5. q <= h
    BY <2>3, <2>4
  <2>. QED
    BY <2>3, <2>5 DEF q, h, a, b
<1>4. image = IF s.width > most THEN [s EXCEPT !.width = most, !.height = Larger(scaled, 1)] ELSE s
  BY DEF Shrunk, most
<1>. HIDE DEF image, scaled
<1>5. /\ image.kind = "image" /\ image.width \in 1 .. 639 /\ image.height \in 1 .. 2048
      /\ image \in [kind : {"image"}, width : Nat, height : Nat, stride : Nat, decodes : BOOLEAN, at : Nat]
  <2>1. CASE s.width > most
    <3>. DEFINE tall == Larger(scaled, 1)
    <3>1. scaled \in Nat /\ scaled <= 2048
      <4>. DEFINE h == s.height
      <4>1. h \in 1 .. 2048 /\ scaled \in Nat /\ scaled <= h
        BY <1>2, <1>3, <2>1
      <4>. HIDE DEF h
      <4>. QED
        BY <4>1
    <3>2. tall \in 1 .. 2048
      BY <3>1 DEF Larger
    <3>3. image = [s EXCEPT !.width = most, !.height = tall]
      BY <1>4, <2>1
    <3>. HIDE DEF tall
    <3>4. s \in [kind : {"image"}, width : Nat, height : Nat, stride : Nat, decodes : BOOLEAN, at : Nat]
      BY <1>2 DEF ImageSections
    <3>5. most \in 1 .. 639 /\ most \in Nat /\ tall \in Nat
      BY <1>1, <3>2
    <3>6. image.kind = "image" /\ image.width = most /\ image.height = tall
      BY <3>3, <3>4
    <3>7. image \in [kind : {"image"}, width : Nat, height : Nat, stride : Nat, decodes : BOOLEAN, at : Nat]
      BY <3>3, <3>4, <3>5
    <3>8. image.width \in 1 .. 639
      BY <3>5, <3>6
    <3>9. image.height \in 1 .. 2048
      BY <3>2, <3>6
    <3>. QED
      BY <3>6, <3>7, <3>8, <3>9
  <2>2. CASE ~(s.width > most)
    <3>1. image = s
      BY <1>4, <2>2
    <3>3. s.width \in 1 .. 639
      <4>. DEFINE w == s.width
      <4>1. w \in 1 .. 2048 /\ ~(w > most)
        BY <1>2, <2>2
      <4>. HIDE DEF w
      <4>2. w \in 1 .. 639
        BY <1>1, <4>1
      <4>. QED
        BY <4>2 DEF w
    <3>2. s \in [kind : {"image"}, width : Nat, height : Nat, stride : Nat, decodes : BOOLEAN, at : Nat]
      BY <1>2 DEF ImageSections
    <3>4. s.kind = "image" /\ s.height \in 1 .. 2048
      BY <1>2, <3>2
    <3>. QED
      BY <3>1, <3>2, <3>3, <3>4
  <2>. QED
    BY <2>1, <2>2
<1>6. CeilDiv(image.width, 8) \in 1 .. 80
  BY <1>5 DEF CeilDiv
<1>7. e = [image EXCEPT !.stride = CeilDiv(image.width, 8)]
  BY DEF FromGray
<1>. HIDE DEF e
<1>8. e \in ImageElements /\ e.stride = CeilDiv(image.width, 8) /\ e.height = image.height
  <2>. DEFINE stride == CeilDiv(image.width, 8)
  <2>1. stride \in Nat
    BY <1>6
  <2>2. image.width \in Nat \ {0}
    <3>1. image.width \in 1 .. 639
      BY <1>5
    <3>. QED
      BY <3>1
  <2>6. image.height \in Nat \ {0}
    <3>1. image.height \in 1 .. 2048
      BY <1>5
    <3>. QED
      BY <3>1, DimensionFacts
  <2>. HIDE DEF stride
  <2>3. e = [image EXCEPT !.stride = stride]
    BY <1>7 DEF stride
  <2>4. e.stride = stride /\ e.height = image.height
    BY <1>5, <2>3
  <2>5. e \in [kind : {"image"}, width : Nat \ {0}, height : Nat \ {0}, stride : Nat,
              decodes : BOOLEAN, at : Nat]
    BY <1>5, <2>1, <2>2, <2>3, <2>6
  <2>. QED
    BY <2>4, <2>5 DEF ImageElements, stride
<1>9. SmallImage(e)
  <2>. DEFINE a == e.stride
              b == e.height
  <2>1. a \in 1 .. 80
    BY <1>6, <1>8
  <2>2. b \in 1 .. 2048
    BY <1>5, <1>8
  <2>. HIDE DEF a, b
  <2>3. a \in Nat /\ a > 0 /\ a <= 80
    BY <2>1
  <2>4. b \in Nat /\ b > 0 /\ b <= 2048
    BY <2>2
  <2>. QED
    BY <2>3, <2>4 DEF a, b, SmallImage
<1>. QED
  BY <1>8, <1>9 DEF e, image

\* A word that was named.
LEMMA NamedWordType ==
  ASSUME NEW w \in Glyphs, NEW at \in Nat, NEW column \in Nat, NEW i \in Nat
  PROVE  /\ NamedWord(w, <<at, column, i>>) \in NamedWords
         /\ w.plain => NamedWord(w, <<at, column, i>>) \in PlainWords
<1>. DEFINE id == <<at, column, i>>
<1>1. id \in Nat \X Nat \X Nat
  OBVIOUS
<1>. HIDE DEF id
<1>2. NamedWord(w, id) \in NamedWords /\ NamedWord(w, id).plain = w.plain
  BY <1>1 DEF NamedWord, NamedWords, Glyphs
<1>. QED
  BY <1>2 DEF PlainWords, id

\* A line of a section whose words were named.
LEMMA NamedLineType ==
  ASSUME NEW words \in Seq(Glyphs), NEW at \in Nat, NEW column \in Nat
  PROVE  /\ NamedLine(words, at, column) \in Seq(NamedWords)
         /\ (\A i \in 1 .. Len(words) : words[i].plain) =>
              NamedLine(words, at, column) \in Seq(PlainWords)
<1>. DEFINE n == Len(words)
            named(i) == NamedWord(words[i], <<at, column, i>>)
<1>1. n \in Nat /\ \A i \in 1 .. n : words[i] \in Glyphs
  BY LenProperties, ElementOfSeq
<1>2. NamedLine(words, at, column) = [i \in 1 .. n |-> named(i)]
  BY DEF NamedLine
<1>3. \A i \in 1 .. n : named(i) \in NamedWords /\ (words[i].plain => named(i) \in PlainWords)
  BY <1>1, NamedWordType
<1>. HIDE DEF named, n
<1>4. [i \in 1 .. n |-> named(i)] \in Seq(NamedWords)
  BY <1>1, <1>3
<1>5. ASSUME \A i \in 1 .. n : words[i].plain PROVE [i \in 1 .. n |-> named(i)] \in Seq(PlainWords)
  BY <1>1, <1>3, <1>5
<1>. QED
  BY <1>2, <1>4, <1>5 DEF n

\* The pieces of a cell without a control character.
PlainPieces == CellPieces(PlainWords)

\* A cell of a section whose words were named.
LEMMA NamedCellType ==
  ASSUME NEW cell \in Seq(Pieces), NEW at \in Nat, NEW column \in Nat
  PROVE  /\ NamedCell(cell, at, column) \in Seq(CellTokens)
         /\ (\A i \in 1 .. Len(cell) : ~Control(cell[i])) =>
              NamedCell(cell, at, column) \in Seq(PlainPieces)
<1>. DEFINE n == Len(cell)
            named(i) == IF cell[i].op = "word" THEN Word(NamedWord(cell[i].word, <<at, column, i>>))
                        ELSE cell[i]
<1>1. n \in Nat /\ \A i \in 1 .. n : cell[i] \in Pieces
  BY LenProperties, ElementOfSeq
<1>2. NamedCell(cell, at, column) = [i \in 1 .. n |-> named(i)]
  BY DEF NamedCell
<1>3. ASSUME NEW i \in 1 .. n
      PROVE  named(i) \in CellTokens /\ (~Control(cell[i]) => named(i) \in PlainPieces)
  <2>1. CASE cell[i].op = "word"
    <3>1. cell[i].word \in Glyphs
      BY <1>1, <2>1 DEF Pieces, Tab
    <3>. DEFINE w == NamedWord(cell[i].word, <<at, column, i>>)
    <3>2. w \in NamedWords /\ (cell[i].word.plain => w \in PlainWords)
      BY <3>1, NamedWordType
    <3>3. named(i) = Word(w)
      BY <2>1
    <3>. HIDE DEF w
    <3>4. ~Control(cell[i]) => cell[i].word.plain
      BY <2>1 DEF Control
    <3>. HIDE DEF named
    <3>. QED
      BY <3>2, <3>3, <3>4 DEF CellTokens, TextTokens, PlainPieces, CellPieces, Word
  <2>2. CASE cell[i].op # "word"
    <3>1. named(i) = cell[i]
      BY <2>2
    <3>2. cell[i] \in SpaceTokens \/ (cell[i] = Tab /\ Control(cell[i]))
      BY <1>1, <2>2 DEF Pieces, SpaceTokens, Tab, Control
    <3>. HIDE DEF named
    <3>. QED
      BY <3>1, <3>2 DEF CellTokens, TextTokens, PlainPieces, CellPieces
  <2>. QED
    BY <2>1, <2>2
<1>. HIDE DEF named, n
<1>4. [i \in 1 .. n |-> named(i)] \in Seq(CellTokens)
  BY <1>1, <1>3
<1>5. ASSUME \A i \in 1 .. n : ~Control(cell[i]) PROVE [i \in 1 .. n |-> named(i)] \in Seq(PlainPieces)
  BY <1>1, <1>3, <1>5
<1>. QED
  BY <1>2, <1>4, <1>5 DEF n

\* An element without a control character.
PrintableElement(e) ==
  /\ e.kind = "text" => e.lines \in Seq(Seq(PlainWords))
  /\ e.kind = "row" => e.left \in Seq(PlainPieces) /\ e.right \in Seq(PlainPieces)
  /\ e.kind = "divider" => e.word \in PlainWords

\* What the encoder may be given: an element of a document whose feeds have
\* lines and whose images fit the paper.
Encodable(e) ==
  /\ e \in LayoutElements
  /\ e.kind = "feed" => e.lines # 0
  /\ e.kind = "image" => SmallImage(e)

\* The element of a section.
LEMMA ElementMade ==
  ASSUME NEW width \in Widths, NEW s \in Sections, ValidSection(s), NEW at \in Nat
  PROVE  LET e == Named(Element(s, width), at)
         IN  /\ Encodable(e) /\ e.kind = s.kind /\ (e.kind = "qr" => e.bytes = s.bytes)
             /\ ~HasControl(s) => PrintableElement(e)
<1>. DEFINE e == Named(Element(s, width), at)
<1>1. CASE s.kind = "text"
  <2>1. s \in TextSections
    BY <1>1, SectionFacts
  <2>. DEFINE n == Len(s.lines)
              name(l) == NamedLine(s.lines[l], at, l)
              named == [l \in 1 .. n |-> name(l)]
  <2>2. e = [s EXCEPT !.lines = named]
    BY <1>1 DEF Element, Named
  <2>3. s.lines \in Seq(Seq(Glyphs))
    BY <2>1 DEF TextSections
  <2>4. n \in Nat /\ \A l \in 1 .. n : s.lines[l] \in Seq(Glyphs)
    BY <2>3, LenProperties, ElementOfSeq
  <2>5. \A l \in 1 .. n : name(l) \in Seq(NamedWords)
    BY <2>4, NamedLineType
  <2>8. ASSUME ~HasControl(s) PROVE \A l \in 1 .. n : name(l) \in Seq(PlainWords)
    <3>. SUFFICES ASSUME NEW l \in 1 .. n PROVE name(l) \in Seq(PlainWords)
      OBVIOUS
    <3>1. \A i \in 1 .. Len(s.lines[l]) : s.lines[l][i].plain
      BY <1>1, <2>8 DEF HasControl
    <3>. DEFINE words == s.lines[l]
    <3>2. words \in Seq(Glyphs) /\ l \in Nat
      BY <2>4
    <3>3. name(l) = NamedLine(words, at, l)
      OBVIOUS
    <3>4. \A i \in 1 .. Len(words) : words[i].plain
      BY <3>1
    <3>. HIDE DEF words, name
    <3>. QED
      BY <3>2, <3>3, <3>4, NamedLineType
  <2>. HIDE DEF name, n
  <2>6. named \in Seq(Seq(NamedWords))
    BY <2>4, <2>5
  <2>9. ~HasControl(s) => named \in Seq(Seq(PlainWords))
    BY <2>4, <2>8
  <2>. HIDE DEF named, e
  <2>7. e \in TextElements /\ e.kind = "text" /\ e.lines = named
    BY <2>1, <2>2, <2>6 DEF TextSections, TextElements
  <2>10. ~HasControl(s) => PrintableElement(e)
    BY <2>7, <2>9 DEF PrintableElement
  <2>. QED
    BY <1>1, <2>7, <2>10 DEF Encodable, LayoutElements, e
<1>2. CASE s.kind = "row"
  <2>1. s \in RowSections
    BY <1>2, SectionFacts
  <2>. DEFINE left == NamedCell(s.left, at, 1)
              right == NamedCell(s.right, at, 2)
  <2>2. e = [s EXCEPT !.left = left, !.right = right]
    BY <1>2 DEF Element, Named
  <2>3. s.left \in Seq(Pieces) /\ s.right \in Seq(Pieces)
    BY <2>1 DEF RowSections
  <2>4. left \in Seq(CellTokens) /\ right \in Seq(CellTokens)
    BY <2>3, NamedCellType
  <2>6. ASSUME ~HasControl(s) PROVE left \in Seq(PlainPieces) /\ right \in Seq(PlainPieces)
    <3>1. /\ \A i \in 1 .. Len(s.left) : ~Control(s.left[i])
          /\ \A i \in 1 .. Len(s.right) : ~Control(s.right[i])
      BY <1>2, <2>6 DEF HasControl
    <3>. QED
      BY <2>3, <3>1, NamedCellType
  <2>. HIDE DEF left, right, e
  <2>5. e \in RowElements /\ e.kind = "row" /\ e.left = left /\ e.right = right
    BY <2>1, <2>2, <2>4 DEF RowSections, RowElements
  <2>7. ~HasControl(s) => PrintableElement(e)
    BY <2>5, <2>6 DEF PrintableElement
  <2>. QED
    BY <1>2, <2>5, <2>7 DEF Encodable, LayoutElements, e
<1>6. CASE s.kind = "divider"
  <2>. DEFINE w == NamedWord(Rule(width), <<at, 1, 1>>)
  <2>1. e = [kind |-> "divider", word |-> w, at |-> 0]
    BY <1>6 DEF Element, Named
  <2>2. Rule(width) \in Glyphs /\ Rule(width).plain
    BY DEF Rule, Glyphs, Columns
  <2>3. w \in NamedWords /\ w \in PlainWords
    BY <2>2, NamedWordType
  <2>. HIDE DEF w, e
  <2>4. e \in DividerElements /\ e.kind = "divider" /\ e.word = w
    BY <2>1, <2>3 DEF DividerElements
  <2>. QED
    BY <1>6, <2>3, <2>4 DEF Encodable, LayoutElements, PrintableElement, e
<1>3. CASE s.kind = "image"
  <2>1. s \in ImageSections
    BY <1>3, SectionFacts
  <2>. DEFINE g == FromGray(Shrunk(s, width))
  <2>2. Element(s, width) = g
    BY <1>3 DEF Element
  <2>3. g \in ImageElements /\ SmallImage(g)
    BY <2>1, ImageShrunk
  <2>. HIDE DEF g
  <2>4. g.kind = "image"
    BY <2>3 DEF ImageElements
  <2>5. e = g
    BY <2>2, <2>4 DEF Named
  <2>. HIDE DEF e
  <2>. QED
    BY <1>3, <2>3, <2>4, <2>5 DEF Encodable, LayoutElements, PrintableElement, e
<1>4. CASE s.kind = "barcode"
  <2>1. s \in BarcodeSections /\ DigitsEncoded(s)
    BY <1>4, SectionFacts
  <2>. DEFINE g == [s EXCEPT !.height = 80, !.readable = TRUE]
  <2>2. Element(s, width) = g
    BY <1>4 DEF Element
  <2>3. g \in BarcodeElements /\ g.kind = "barcode"
    <3>1. g \in [kind : {"barcode"}, format : Formats, length : Nat, modules : Nat, plain : BOOLEAN,
                 digits : BOOLEAN, height : Nat \ {0}, readable : BOOLEAN, at : Nat]
      <4>. DEFINE eighty == 80
      <4>1. eighty \in Nat \ {0} /\ g = [s EXCEPT !.height = eighty, !.readable = TRUE]
        OBVIOUS
      <4>. HIDE DEF eighty, g
      <4>. QED
        BY <2>1, <4>1 DEF BarcodeSections
    <3>2. g.kind = s.kind /\ g.format = s.format /\ g.modules = s.modules /\ g.length = s.length
      BY <2>1 DEF BarcodeSections
    <3>3. DigitsEncoded(g)
      BY <2>1, <3>2 DEF DigitsEncoded
    <3>. QED
      BY <1>4, <3>1, <3>2, <3>3 DEF BarcodeElements
  <2>. HIDE DEF g
  <2>4. e = g
    BY <2>2, <2>3 DEF Named
  <2>. HIDE DEF e
  <2>. QED
    BY <1>4, <2>3, <2>4 DEF Encodable, LayoutElements, PrintableElement, e
<1>5. CASE s.kind \notin {"text", "row", "divider", "image", "barcode"}
  <2>1. e = s
    BY <1>5 DEF Element, Named
  <2>2. s \in LayoutElements
    BY <1>5, SectionFacts DEF LayoutElements, PlainSections, CutElements
  <2>3. s.kind = "feed" => s.lines # 0
    BY DEF ValidSection
  <2>. HIDE DEF e
  <2>. QED
    BY <1>5, <2>1, <2>2, <2>3, SectionFacts DEF Encodable, PrintableElement, e
<1>. QED
  BY <1>1, <1>2, <1>3, <1>4, <1>5, <1>6

-----------------------------------------------------------------------------
(* The encoder.                                                            *)

\* Tokens that the interpreter always takes, from the pieces that text is of.
Known(C) ==
  C \cup [op : {"nl"}] \cup [op : {"align"}, value : 0 .. 2] \cup [op : {"bold"}, value : 0 .. 1]

\* The pieces of a set of words, with or without tabs.
Kept(C, W) == Closed(W) /\ CellPieces(W) \subseteq C /\ C \subseteq CellPieces(W) \cup {Tab}

\* Both sets of pieces are such.
LEMMA KeptPieces == Kept(CellTokens, NamedWords) /\ Kept(PlainPieces, PlainWords)
<1>1. TextTokens = CellPieces(NamedWords) /\ PlainPieces = CellPieces(PlainWords)
  BY DEF TextTokens, PlainPieces
<1>. QED
  BY <1>1, ClosedWords DEF Kept, CellTokens

\* A stream that the interpreter knows: the print of a QR code follows a store.
StreamOK(s) ==
  \A i \in 1 .. Len(s) : Supported(s[i]) /\ (Prints(s[i]) => i > 1 /\ Stores(s[i - 1]))

\* A stream that it reads to the end, and one without control characters.
StreamReadable(s) == \A i \in 1 .. Len(s) : Readable(s[i])
StreamPrintable(s) == \A i \in 1 .. Len(s) : ~Control(s[i])

\* A known token is read whatever came before it.
LEMMA KnownFacts ==
  /\ \A t \in Known(CellTokens) : t \in Tokens /\ Readable(t) /\ Supported(t) /\ ~Prints(t)
  /\ \A t \in Known(PlainPieces) : ~Control(t)
<1>1. ASSUME NEW t \in CellTokens \cup [op : {"nl"}]
      PROVE  t \in Tokens /\ Readable(t) /\ Supported(t) /\ ~Prints(t)
  <2>1. t.op \notin {"feed", "raster", "qr", "barcode"} /\ t \in LineTokens
    BY DEF LineTokens, CellTokens, TextTokens, CellPieces, SpaceTokens, Tab
  <2>. QED
    BY <2>1 DEF Tokens, Readable, Supported, Prints, Stores
<1>2. ASSUME NEW t \in [op : {"align"}, value : 0 .. 2] \cup [op : {"bold"}, value : 0 .. 1]
      PROVE  t \in Tokens /\ Readable(t) /\ Supported(t) /\ ~Prints(t) /\ ~Control(t)
  <2>1. t.op \in {"align", "bold"} /\ t \in SettingTokens
    BY DEF SettingTokens
  <2>. QED
    BY <2>1 DEF Tokens, Readable, Supported, Prints, Stores, Control
<1>3. \A t \in PlainPieces \cup [op : {"nl"}] : ~Control(t)
  BY DEF PlainPieces, CellPieces, SpaceTokens, PlainWords, Control
<1>. QED
  BY <1>1, <1>2, <1>3 DEF Known

\* So is a stream of them.
LEMMA KnownStream ==
  ASSUME NEW s \in Seq(Known(CellTokens))
  PROVE  s \in Seq(Tokens) /\ StreamOK(s) /\ StreamReadable(s)
<1>1. \A i \in 1 .. Len(s) : s[i] \in Known(CellTokens)
  BY ElementOfSeq
<1>2. \A i \in 1 .. Len(s) : s[i] \in Tokens /\ Readable(s[i]) /\ Supported(s[i]) /\ ~Prints(s[i])
  BY <1>1, KnownFacts
<1>3. Known(CellTokens) \subseteq Tokens
  BY KnownFacts
<1>4. s \in Seq(Tokens)
  BY <1>3, SeqWithin
<1>. QED
  BY <1>2, <1>4 DEF StreamOK, StreamReadable

\* A stream of printable pieces has no control character.
LEMMA PrintableStream ==
  ASSUME NEW s \in Seq(Known(PlainPieces)) PROVE StreamPrintable(s)
<1>1. \A i \in 1 .. Len(s) : s[i] \in Known(PlainPieces)
  BY ElementOfSeq
<1>. QED
  BY <1>1, KnownFacts DEF StreamPrintable

\* Two streams joined.
LEMMA StreamsJoined ==
  ASSUME NEW a \in Seq(Tokens), NEW b \in Seq(Tokens), StreamOK(a), StreamOK(b)
  PROVE  StreamOK(a \o b) /\ (StreamReadable(a) /\ StreamReadable(b) => StreamReadable(a \o b))
         /\ (StreamPrintable(a) /\ StreamPrintable(b) => StreamPrintable(a \o b))
<1>. DEFINE s == a \o b
<1>1. /\ Len(a) \in Nat /\ Len(b) \in Nat /\ Len(s) = Len(a) + Len(b)
      /\ \A i \in 1 .. Len(a) + Len(b) : s[i] = IF i <= Len(a) THEN a[i] ELSE b[i - Len(a)]
  BY ConcatProperties, LenProperties
<1>. HIDE DEF s
<1>5. ASSUME StreamReadable(a), StreamReadable(b) PROVE StreamReadable(s)
  <2>. SUFFICES ASSUME NEW i \in 1 .. Len(s) PROVE Readable(s[i])
    BY DEF StreamReadable
  <2>1. CASE i <= Len(a)
    BY <1>1, <1>5, <2>1 DEF StreamReadable
  <2>2. CASE i > Len(a)
    <3>1. i - Len(a) \in 1 .. Len(b) /\ s[i] = b[i - Len(a)]
      BY <1>1, <2>2
    <3>. QED
      BY <1>5, <3>1 DEF StreamReadable
  <2>. QED
    BY <1>1, <2>1, <2>2
<1>6. ASSUME StreamPrintable(a), StreamPrintable(b) PROVE StreamPrintable(s)
  <2>. SUFFICES ASSUME NEW i \in 1 .. Len(s) PROVE ~Control(s[i])
    BY DEF StreamPrintable
  <2>1. CASE i <= Len(a)
    BY <1>1, <1>6, <2>1 DEF StreamPrintable
  <2>2. CASE i > Len(a)
    <3>1. i - Len(a) \in 1 .. Len(b) /\ s[i] = b[i - Len(a)]
      BY <1>1, <2>2
    <3>. QED
      BY <1>6, <3>1 DEF StreamPrintable
  <2>. QED
    BY <1>1, <2>1, <2>2
<1>2. SUFFICES ASSUME NEW i \in 1 .. Len(s)
               PROVE  Supported(s[i]) /\ (Prints(s[i]) => i > 1 /\ Stores(s[i - 1]))
  BY <1>5, <1>6 DEF StreamOK, s
<1>3. CASE i <= Len(a)
  <2>1. i \in 1 .. Len(a) /\ s[i] = a[i] /\ (i > 1 => s[i - 1] = a[i - 1])
    BY <1>1, <1>3
  <2>. QED
    BY <2>1 DEF StreamOK
<1>4. CASE i > Len(a)
  <2>. DEFINE j == i - Len(a)
  <2>1. j \in 1 .. Len(b) /\ s[i] = b[j] /\ (j > 1 => i > 1 /\ s[i - 1] = b[j - 1])
    <3>1. i \in Int /\ i <= Len(a) + Len(b) /\ i > Len(a) /\ i \in 1 .. Len(a) + Len(b) /\ ~(i <= Len(a))
      BY <1>1, <1>4
    <3>2. j \in 1 .. Len(b) /\ s[i] = b[j]
      BY <1>1, <3>1
    <3>3. ASSUME j > 1 PROVE i > 1 /\ s[i - 1] = b[j - 1]
      <4>1. i > 1 /\ i - 1 \in 1 .. Len(a) + Len(b) /\ ~(i - 1 <= Len(a)) /\ (i - 1) - Len(a) = j - 1
        BY <1>1, <3>1, <3>3
      <4>. QED
        BY <1>1, <4>1
    <3>. QED
      BY <3>2, <3>3
  <2>. HIDE DEF j
  <2>2. j > 1 => j - 1 \in 1 .. Len(b)
    BY <1>1, <2>1
  <2>. QED
    BY <2>1, <2>2 DEF StreamOK
<1>. QED
  BY <1>1, <1>3, <1>4

\* Three and four lists joined.
LEMMA Joined ==
  ASSUME NEW S, NEW a \in Seq(S), NEW b \in Seq(S), NEW c \in Seq(S)
  PROVE  a \o b \in Seq(S) /\ (a \o b) \o c \in Seq(S)
<1>1. a \o b \in Seq(S)
  BY ConcatProperties
<1>. QED
  BY <1>1, ConcatProperties

\* Texts.
LEMMA TextEncoded ==
  ASSUME NEW width \in Widths, NEW e \in TextElements,
         NEW C, NEW W, Kept(C, W), e.lines \in Seq(Seq(W))
  PROVE  EncodeText(e, width) \in Seq(Known(C))
<1>. DEFINE K == Known(C)
            lines == WrapText(e.lines, Columns(width))
            head == <<Setting("align", AlignmentCode(e.align)), Setting("bold", IF e.bold THEN 1 ELSE 0)>>
            s == [i \in 1 .. Len(lines) |-> Append(WordTokens(lines[i]), NewLine)]
            tail == <<Setting("bold", 0)>>
<1>1. e.align \in Alignments /\ e.bold \in BOOLEAN /\ Closed(W) /\ CellPieces(W) \subseteq K
  BY DEF TextElements, Kept, Known
<1>2. Columns(width) \in Nat /\ Columns(width) > 0
  BY DEF Columns
<1>3. lines \in Seq(Fitting(W, Columns(width)))
  BY <1>1, <1>2, WrapTextFits
<1>4. EncodeText(e, width) = head \o FlattenSeq(s) \o tail
  BY DEF EncodeText
<1>. HIDE DEF lines
<1>5. Len(lines) \in Nat /\ \A i \in 1 .. Len(lines) : lines[i] \in Seq(W)
  BY <1>1, <1>3, FittingLines
<1>6. NewLine \in K
  BY DEF NewLine, Known
<1>10. head \in Seq(K) /\ tail \in Seq(K)
  <2>1. AlignmentCode(e.align) \in 0 .. 2
    BY <1>1 DEF AlignmentCode, Alignments
  <2>2. Setting("align", AlignmentCode(e.align)) \in K
    BY <2>1 DEF Setting, Known
  <2>3. Setting("bold", 0) \in K /\ Setting("bold", 1) \in K
    BY DEF Setting, Known
  <2>4. Setting("bold", IF e.bold THEN 1 ELSE 0) \in K
    BY <2>3
  <2>. HIDE DEF K
  <2>. QED
    BY <2>2, <2>3, <2>4
<1>. HIDE DEF K
<1>7. ASSUME NEW i \in 1 .. Len(lines) PROVE s[i] \in Seq(K)
  <2>1. WordTokens(lines[i]) \in Seq(CellPieces(W))
    BY <1>5, WordTokensType
  <2>2. WordTokens(lines[i]) \in Seq(K)
    BY <1>1, <2>1, SeqWithin
  <2>. QED
    BY <1>6, <2>2, AppendProperties
<1>8. s \in Seq(Seq(K))
  BY <1>5, <1>7
<1>9. FlattenSeq(s) \in Seq(K)
  BY <1>8, FlattenSeqType
<1>. HIDE DEF s, head, tail
<1>. QED
  BY <1>4, <1>9, <1>10, Joined DEF K

\* The columns of a cell.
LEMMA CellWidthType ==
  ASSUME NEW cell \in Seq(CellTokens) PROVE CellWidth(cell) \in Nat
<1>. DEFINE n == Len(cell)
            s == [i \in 1 .. n |-> CASE cell[i].op = "word"   -> cell[i].word.width
                                    [] cell[i].op = "spaces" -> cell[i].n
                                    [] OTHER                 -> 1]
<1>1. n \in Nat /\ \A i \in 1 .. n : cell[i] \in CellTokens
  BY LenProperties, ElementOfSeq
<1>2. ASSUME NEW i \in 1 .. n PROVE s[i] \in Nat
  <2>1. cell[i] \in CellTokens
    BY <1>1
  <2>2. cell[i].op = "word" => cell[i].word.width \in Nat
    BY <2>1 DEF CellTokens, TextTokens, CellPieces, SpaceTokens, Tab, NamedWords
  <2>3. cell[i].op = "spaces" => cell[i].n \in Nat
    BY <2>1 DEF CellTokens, TextTokens, CellPieces, SpaceTokens, Tab
  <2>. QED
    BY <2>2, <2>3
<1>3. s \in Seq(Nat)
  BY <1>1, <1>2
<1>4. CellWidth(cell) = SumOf(s)
  BY DEF CellWidth
<1>. HIDE DEF s
<1>. QED
  BY <1>3, <1>4, SumOfNat

\* The lines of a row.
LEMMA LayoutRowLines ==
  ASSUME NEW width \in Widths, NEW C, NEW W, Kept(C, W), C \subseteq CellTokens,
         NEW left \in Seq(C), NEW right \in Seq(C)
  PROVE  LET lines == LayoutRow(left, right, Columns(width))
         IN  /\ Len(lines) \in Nat
             /\ \A i \in 1 .. Len(lines) : lines[i].left \in Seq(C)
                  /\ lines[i].right \in Seq(C) /\ lines[i].spaces \in Nat \ {0}
<1>. DEFINE columns == Columns(width)
            leftWidth == (columns * 3) \div 5
            mostL == Larger(leftWidth, 1)
            mostR == Larger(columns - leftWidth - 1, 1)
            lefts == WrapCell(left, mostL)
            rights == WrapCell(right, mostR)
            a == CellWidth(left)
            b == CellWidth(right)
            one == [left |-> left, right |-> right, spaces |-> columns - a - b]
            gap(i) == Larger(columns - LineWidth(LineAt(lefts, i)) - LineWidth(LineAt(rights, i)), 1)
            many == [i \in 1 .. Larger(Len(lefts), Len(rights)) |->
                      [left |-> WordTokens(LineAt(lefts, i)), right |-> WordTokens(LineAt(rights, i)),
                       spaces |-> gap(i)]]
            lines == LayoutRow(left, right, columns)
<1>. SUFFICES /\ Len(lines) \in Nat
              /\ \A i \in 1 .. Len(lines) : lines[i].left \in Seq(C)
                   /\ lines[i].right \in Seq(C) /\ lines[i].spaces \in Nat \ {0}
  OBVIOUS
<1>1. columns \in {32, 48}
  BY DEF Columns
<1>2. lines = IF a + b < columns THEN <<one>> ELSE many
  BY DEF LayoutRow
<1>. HIDE DEF columns, lines
<1>3. mostL \in Nat /\ mostL > 0 /\ mostR \in Nat /\ mostR > 0
  BY <1>1 DEF Larger
<1>. HIDE DEF mostL, mostR
<1>8. Closed(W) /\ CellPieces(W) \subseteq C /\ W \subseteq NamedWords
  BY DEF Kept, Closed
<1>9. WordsOf(left) \in Seq(W) /\ WordsOf(right) \in Seq(W)
  <2>1. left \in Seq(CellPieces(W) \cup {Tab}) /\ right \in Seq(CellPieces(W) \cup {Tab})
    BY SeqWithin DEF Kept
  <2>. QED
    BY <2>1, WordsOfType
<1>4. lefts \in Seq(Fitting(W, mostL)) /\ rights \in Seq(Fitting(W, mostR))
  BY <1>3, <1>8, <1>9, WrapCellFits
<1>. HIDE DEF lefts, rights
<1>5. a \in Nat /\ b \in Nat
  BY CellWidthType, SeqWithin
<1>. HIDE DEF a, b
<1>6. CASE a + b < columns
  <2>1. lines = <<one>>
    BY <1>2, <1>6
  <2>2. columns - a - b \in Nat \ {0}
    BY <1>1, <1>5, <1>6
  <2>3. Len(lines) = 1 /\ lines[1] = one
    BY <2>1
  <2>4. one.left = left /\ one.right = right /\ one.spaces \in Nat \ {0}
    BY <2>2
  <2>. HIDE DEF one
  <2>5. \A i \in 1 .. 1 : i = 1
    OBVIOUS
  <2>. QED
    BY <2>3, <2>4, <2>5
<1>7. CASE ~(a + b < columns)
  <2>1. lines = many
    BY <1>2, <1>7
  <2>2. Len(lefts) \in Nat /\ Len(rights) \in Nat
        /\ (\A i \in 1 .. Len(lefts) : lefts[i] \in Seq(W))
        /\ (\A i \in 1 .. Len(rights) : rights[i] \in Seq(W))
    BY <1>4, <1>8, FittingLines
  <2>. DEFINE n == Larger(Len(lefts), Len(rights))
  <2>3. n \in Nat
    BY <2>2 DEF Larger
  <2>4. \A i \in 1 .. n : LineAt(lefts, i) \in Seq(W) /\ LineAt(rights, i) \in Seq(W)
    BY <2>2, <2>3, EmptySeq DEF LineAt
  <2>5. ASSUME NEW i \in 1 .. n PROVE gap(i) \in Nat \ {0}
    <3>1. LineAt(lefts, i) \in Seq(NamedWords) /\ LineAt(rights, i) \in Seq(NamedWords)
      BY <1>8, <2>4, SeqWithin
    <3>2. LineWidth(LineAt(lefts, i)) \in Nat /\ LineWidth(LineAt(rights, i)) \in Nat
      BY <3>1, LineWidthFacts
    <3>. QED
      BY <1>1, <3>2 DEF Larger
  <2>6. Len(lines) = n
    BY <2>1, <2>3
  <2>8. ASSUME NEW i \in 1 .. n
        PROVE  WordTokens(LineAt(lefts, i)) \in Seq(C) /\ WordTokens(LineAt(rights, i)) \in Seq(C)
    BY <1>8, <2>4, WordTokensType, SeqWithin
  <2>. HIDE DEF n
  <2>7. \A i \in 1 .. n : lines[i].left = WordTokens(LineAt(lefts, i))
          /\ lines[i].right = WordTokens(LineAt(rights, i)) /\ lines[i].spaces = gap(i)
    BY <2>1 DEF n
  <2>. HIDE DEF gap
  <2>. QED
    BY <2>3, <2>5, <2>6, <2>7, <2>8
<1>. QED
  BY <1>6, <1>7

\* Rows.
LEMMA RowEncoded ==
  ASSUME NEW width \in Widths, NEW e \in RowElements,
         NEW C, NEW W, Kept(C, W), C \subseteq CellTokens, e.left \in Seq(C), e.right \in Seq(C)
  PROVE  EncodeRow(e, width) \in Seq(Known(C))
<1>. DEFINE K == Known(C)
            lines == LayoutRow(e.left, e.right, Columns(width))
            line(i) == lines[i].left \o <<Spaces(lines[i].spaces)>> \o lines[i].right \o <<NewLine>>
            s == [i \in 1 .. Len(lines) |-> line(i)]
            head == <<Setting("align", 0)>>
<1>2. EncodeRow(e, width) = head \o FlattenSeq(s)
  BY DEF EncodeRow
<1>3. /\ Len(lines) \in Nat
      /\ \A i \in 1 .. Len(lines) : lines[i].left \in Seq(C)
           /\ lines[i].right \in Seq(C) /\ lines[i].spaces \in Nat \ {0}
  BY LayoutRowLines
<1>1. C \subseteq K /\ NewLine \in K /\ Setting("align", 0) \in K
      /\ \A n \in Nat \ {0} : Spaces(n) \in K
  <2>1. \A n \in Nat \ {0} : Spaces(n) \in CellPieces(W)
    BY DEF Spaces, CellPieces, SpaceTokens
  <2>. QED
    BY <2>1 DEF NewLine, Setting, Known, Kept
<1>. HIDE DEF K
<1>4. <<NewLine>> \in Seq(K) /\ \A n \in Nat \ {0} : <<Spaces(n)>> \in Seq(K)
  BY <1>1
<1>. HIDE DEF lines
<1>6. \A i \in 1 .. Len(lines) : s[i] \in Seq(K)
  <2>. SUFFICES ASSUME NEW i \in 1 .. Len(lines) PROVE line(i) \in Seq(K)
    OBVIOUS
  <2>. DEFINE a == lines[i].left
              b == <<Spaces(lines[i].spaces)>>
              c == lines[i].right
              d == <<NewLine>>
  <2>1. a \in Seq(K) /\ b \in Seq(K) /\ c \in Seq(K) /\ d \in Seq(K)
    BY <1>1, <1>3, <1>4, SeqWithin
  <2>2. line(i) = a \o b \o c \o d
    OBVIOUS
  <2>. HIDE DEF a, b, c, d
  <2>3. (a \o b) \o c \in Seq(K)
    BY <2>1, Joined
  <2>4. ((a \o b) \o c) \o d \in Seq(K)
    BY <2>1, <2>3, ConcatProperties
  <2>. QED
    BY <2>2, <2>4
<1>7. s \in Seq(Seq(K))
  BY <1>3, <1>6
<1>8. FlattenSeq(s) \in Seq(K)
  BY <1>7, FlattenSeqType
<1>9. head \in Seq(K)
  BY <1>1
<1>. HIDE DEF s, head
<1>. QED
  BY <1>2, <1>8, <1>9, ConcatProperties DEF K

\* The two bytes of a length that fits them give it back.
LEMMA BytesRead ==
  ASSUME NEW n \in Nat, n <= 65535
  PROVE  /\ LowByte(n) \in Nat /\ HighByte(n) \in Nat
         /\ LowByte(n) + 256 * HighByte(n) = n
<1>. DEFINE q == n \div 256
<1>1. q \in 0 .. 255 /\ (n % 256) \in 0 .. 255 /\ n = 256 * q + (n % 256)
  OBVIOUS
<1>. HIDE DEF q
<1>2. q % 256 = q
  BY <1>1
<1>. QED
  BY <1>1, <1>2 DEF LowByte, HighByte, q

\* Any length has two bytes.
LEMMA BytesType == \A n \in Nat : LowByte(n) \in Nat /\ HighByte(n) \in Nat
  BY DEF LowByte, HighByte

\* Images.
LEMMA ImageEncoded ==
  ASSUME NEW e \in ImageElements, SmallImage(e)
  PROVE  /\ EncodeImage(e) \in Seq(Tokens) /\ StreamOK(EncodeImage(e))
         /\ StreamReadable(EncodeImage(e)) /\ StreamPrintable(EncodeImage(e))
<1>. DEFINE row == e.stride
            height == e.height
            t == [op |-> "raster", low |-> LowByte(row), high |-> HighByte(row),
                  heightLow |-> LowByte(height), heightHigh |-> HighByte(height),
                  payload |-> row * height, at |-> e.at]
<1>1. /\ row \in Nat /\ row > 0 /\ row <= 80 /\ height \in Nat /\ height > 0 /\ height <= 2048
      /\ e.at \in Nat
  BY DEF ImageElements, SmallImage
<1>2. EncodeImage(e) = <<t>>
  BY DEF EncodeImage
<1>. HIDE DEF row, height
<1>3. row # 0 /\ row <= 65535 /\ height # 0 /\ height <= 65535
  BY <1>1
<1>4. row * height \in Nat /\ row * height <= 163840
  <2>1. row * height <= row * 2048 /\ row * height \in Nat
    BY <1>1, ProductFacts
  <2>. DEFINE a == row * height
  <2>2. row * 2048 <= 163840
    BY <1>1
  <2>. HIDE DEF a
  <2>. QED
    BY <1>1, <2>1, <2>2 DEF a
<1>5. LowByte(row) \in Nat /\ HighByte(row) \in Nat /\ LowByte(height) \in Nat /\ HighByte(height) \in Nat
  BY <1>1, BytesType
<1>6. t \in RasterTokens
  BY <1>1, <1>4, <1>5 DEF RasterTokens
<1>7. t.op = "raster" /\ t.low = LowByte(row) /\ t.high = HighByte(row)
      /\ t.heightLow = LowByte(height) /\ t.heightHigh = HighByte(height) /\ t.payload = row * height
  OBVIOUS
<1>. HIDE DEF t
<1>8. t.low + 256 * t.high = row
  BY <1>1, <1>3, <1>7, BytesRead
<1>9. t.heightLow + 256 * t.heightHigh = height
  BY <1>1, <1>3, <1>7, BytesRead
<1>10. RasterReadable(t)
  BY <1>1, <1>3, <1>4, <1>7, <1>8, <1>9 DEF RasterReadable, MaxRasterBytes
<1>11. Readable(t) /\ Supported(t) /\ ~Prints(t) /\ t \in Tokens /\ ~Control(t)
  BY <1>6, <1>7, <1>10 DEF Control, Readable, Supported, Prints, Stores, Tokens
<1>. QED
  BY <1>2, <1>11 DEF StreamOK, StreamReadable, StreamPrintable

\* The functions of a QR code.
LEMMA QrFunctionFacts ==
  ASSUME NEW fn \in QrFunctions, NEW n \in Nat
  PROVE  /\ QrFunction(fn, n, n) \in QrTokens
         /\ n # 0 /\ n <= MaxQrBytes + 3 => Readable(QrFunction(fn, n, n))
<1>. DEFINE t == QrFunction(fn, n, n)
<1>1. t = [op |-> "qr", function |-> fn, low |-> LowByte(n), high |-> HighByte(n),
           payload |-> n, stored |-> << >>]
  BY DEF QrFunction
<1>2. LowByte(n) \in Nat /\ HighByte(n) \in Nat /\ << >> \in Seq(QrSections)
  BY BytesType, EmptySeq
<1>. HIDE DEF t
<1>3. t \in QrTokens
  BY <1>1, <1>2 DEF QrTokens
<1>4. ASSUME n # 0, n <= MaxQrBytes + 3 PROVE Readable(t)
  <2>1. n <= 65535
    BY <1>4 DEF MaxQrBytes
  <2>2. t.low + 256 * t.high = n /\ t.payload = n /\ t.function = fn /\ t.op = "qr"
    BY <1>1, <2>1, BytesRead
  <2>. QED
    BY <1>4, <2>1, <2>2 DEF Readable, QrReadable
<1>. QED
  BY <1>3, <1>4 DEF t

\* QR codes: the store comes right before the print.
LEMMA QrEncoded ==
  ASSUME NEW e \in QrSections
  PROVE  /\ EncodeQr(e) \in Seq(Tokens)
         /\ StreamOK(EncodeQr(e)) /\ StreamPrintable(EncodeQr(e))
         /\ e.bytes <= MaxQrBytes => StreamReadable(EncodeQr(e))
<1>. DEFINE n == e.bytes + 3
            bare == QrFunction("store", n, n)
            store == [bare EXCEPT !.stored = <<e>>]
            model == QrFunction("model", 4, 4)
            size == QrFunction("size", 3, 3)
            level == QrFunction("level", 3, 3)
            print == QrFunction("print", 3, 3)
            s == <<model, size, level, store, print>>
<1>1. e.bytes \in Nat
  BY DEF QrSections
<1>2. EncodeQr(e) = s
  BY DEF EncodeQr
<1>3. bare \in QrTokens /\ n \in Nat
  BY <1>1, QrFunctionFacts DEF QrFunctions
<1>4. model \in QrTokens /\ size \in QrTokens /\ level \in QrTokens /\ print \in QrTokens
  BY QrFunctionFacts DEF QrFunctions
<1>5. Readable(model) /\ Readable(size) /\ Readable(level) /\ Readable(print)
  <2>1. 3 <= MaxQrBytes + 3 /\ 4 <= MaxQrBytes + 3
    BY DEF MaxQrBytes
  <2>. QED
    BY <2>1, QrFunctionFacts DEF QrFunctions
<1>6. model.function = "model" /\ size.function = "size" /\ level.function = "level" /\ print.function = "print"
  BY DEF QrFunction
<1>7. bare = [op |-> "qr", function |-> "store", low |-> LowByte(n), high |-> HighByte(n),
              payload |-> n, stored |-> << >>]
  BY DEF QrFunction
<1>. HIDE DEF n, bare, model, size, level, print
<1>8. <<e>> \in Seq(QrSections) /\ <<e>> # << >>
  OBVIOUS
<1>9. /\ store \in QrTokens /\ store.op = "qr" /\ store.function = "store" /\ store.stored # << >>
      /\ store.low = LowByte(n) /\ store.high = HighByte(n) /\ store.payload = n
  BY <1>3, <1>7, <1>8 DEF QrTokens
<1>. HIDE DEF store
<1>10. s \in Seq(Tokens)
  BY <1>4, <1>9 DEF Tokens
<1>11. ASSUME e.bytes <= MaxQrBytes PROVE Readable(store)
  <2>1. n \in Nat /\ n <= 65535 /\ n # 0 /\ n <= MaxQrBytes + 3
    BY <1>1, <1>11 DEF n, MaxQrBytes
  <2>2. store.low + 256 * store.high = n
    BY <1>9, <2>1, BytesRead
  <2>. QED
    BY <1>9, <2>1, <2>2 DEF Readable, QrReadable
<1>12. Supported(model) /\ Supported(size) /\ Supported(level) /\ Supported(store) /\ Supported(print)
  <2>1. model.op = "qr" /\ size.op = "qr" /\ level.op = "qr" /\ print.op = "qr"
    BY <1>4 DEF QrTokens
  <2>. QED
    BY <1>6, <1>9, <2>1 DEF Supported, Stores
<1>13. Len(s) = 5 /\ s[1] = model /\ s[2] = size /\ s[3] = level /\ s[4] = store /\ s[5] = print
  OBVIOUS
<1>14. \A i \in 1 .. 5 : i = 1 \/ i = 2 \/ i = 3 \/ i = 4 \/ i = 5
  OBVIOUS
<1>. HIDE DEF s
<1>15. ASSUME e.bytes <= MaxQrBytes PROVE StreamReadable(s)
  BY <1>5, <1>11, <1>13, <1>14, <1>15 DEF StreamReadable
<1>16. StreamOK(s)
  <2>1. ~Prints(model) /\ ~Prints(size) /\ ~Prints(level) /\ ~Prints(store) /\ Stores(store)
    BY <1>6, <1>9 DEF Prints, Stores
  <2>2. ASSUME NEW i \in 1 .. 5
        PROVE  Supported(s[i]) /\ (Prints(s[i]) => i > 1 /\ Stores(s[i - 1]))
    <3>1. CASE i \in {1, 2, 3, 4}
      BY <1>12, <1>13, <2>1, <3>1
    <3>2. CASE i = 5
      BY <1>12, <1>13, <2>1, <3>2
    <3>. QED
      BY <1>14, <3>1, <3>2
  <2>. QED
    BY <1>13, <2>2 DEF StreamOK
<1>17. StreamPrintable(s)
  <2>1. \A t \in QrTokens : ~Control(t)
    BY DEF QrTokens, Control
  <2>2. \A i \in 1 .. 5 : s[i] \in QrTokens
    BY <1>4, <1>9, <1>13, <1>14
  <2>. QED
    BY <1>13, <2>1, <2>2 DEF StreamPrintable
<1>. QED
  BY <1>2, <1>10, <1>15, <1>16, <1>17 DEF s

\* Bar codes.
LEMMA BarcodeEncoded ==
  ASSUME NEW e \in BarcodeElements
  PROVE  /\ EncodeBarcode(e) \in Seq(Tokens) /\ StreamOK(EncodeBarcode(e))
         /\ StreamReadable(EncodeBarcode(e)) /\ StreamPrintable(EncodeBarcode(e))
<1>. DEFINE hri == Setting("hri", IF e.readable THEN 2 ELSE 0)
            height == Setting("height", e.height)
            code == [op |-> "barcode", length |-> BarcodePayload(e), payload |-> BarcodePayload(e),
                     value |-> e]
            s == <<hri, height, code>>
<1>1. EncodeBarcode(e) = s
  BY DEF EncodeBarcode
<1>2. e.length \in Nat /\ e.height \in Nat \ {0}
  BY DEF BarcodeElements
<1>3. BarcodePayload(e) \in Nat
  BY <1>2 DEF BarcodePayload
<1>4. code \in BarcodeTokens /\ code.op = "barcode" /\ code.length = code.payload
  BY <1>3 DEF BarcodeTokens
<1>5. height \in SettingTokens /\ height.op = "height"
  BY <1>2 DEF Setting, SettingTokens
<1>6. hri \in SettingTokens /\ hri.op = "hri"
  <2>. DEFINE v == IF e.readable THEN 2 ELSE 0
  <2>1. v \in Nat
    OBVIOUS
  <2>. HIDE DEF v
  <2>2. Setting("hri", v) \in SettingTokens /\ Setting("hri", v).op = "hri"
    BY <2>1 DEF Setting, SettingTokens
  <2>. QED
    BY <2>2 DEF v
<1>. HIDE DEF hri, height, code
<1>7. s \in Seq(Tokens)
  BY <1>4, <1>5, <1>6 DEF Tokens
<1>8. /\ Readable(hri) /\ Readable(height) /\ Readable(code)
      /\ Supported(hri) /\ Supported(height) /\ Supported(code)
      /\ ~Prints(hri) /\ ~Prints(height) /\ ~Prints(code)
      /\ ~Control(hri) /\ ~Control(height) /\ ~Control(code)
  BY <1>4, <1>5, <1>6 DEF Control, Readable, Supported, Prints, Stores
<1>9. StreamOK(s) /\ StreamReadable(s) /\ StreamPrintable(s)
  <2>1. \A i \in 1 .. 3 : s[i] = hri \/ s[i] = height \/ s[i] = code
    OBVIOUS
  <2>2. Len(s) = 3
    OBVIOUS
  <2>. HIDE DEF s
  <2>. QED
    BY <1>8, <2>1, <2>2 DEF StreamOK, StreamReadable, StreamPrintable
<1>. QED
  BY <1>1, <1>7, <1>9

\* One setting.
LEMMA SettingEncoded ==
  ASSUME NEW op \in {"feed", "cut"}, NEW v \in Nat, op = "feed" => v # 0
  PROVE  /\ <<Setting(op, v)>> \in Seq(Tokens) /\ StreamOK(<<Setting(op, v)>>)
         /\ StreamReadable(<<Setting(op, v)>>) /\ StreamPrintable(<<Setting(op, v)>>)
<1>. DEFINE t == Setting(op, v)
<1>1. t \in SettingTokens /\ t.op = op /\ t.value = v
  BY DEF Setting, SettingTokens
<1>. HIDE DEF t
<1>2. t \in Tokens /\ Readable(t) /\ Supported(t) /\ ~Prints(t) /\ ~Control(t)
  BY <1>1 DEF Control, Tokens, Readable, Supported, Prints, Stores
<1>3. <<t>> \in Seq(Tokens) /\ Len(<<t>>) = 1 /\ <<t>>[1] = t
  BY <1>2
<1>4. \A i \in 1 .. 1 : i = 1
  OBVIOUS
<1>5. StreamOK(<<t>>) /\ StreamReadable(<<t>>) /\ StreamPrintable(<<t>>)
  BY <1>2, <1>3, <1>4 DEF StreamOK, StreamReadable, StreamPrintable
<1>. QED
  BY <1>3, <1>5 DEF t

\* The encoding of an element.
LEMMA ElementEncoded ==
  ASSUME NEW width \in Widths, NEW e, Encodable(e)
  PROVE  /\ EncodeElement(e, width) \in Seq(Tokens)
         /\ StreamOK(EncodeElement(e, width))
         /\ (e.kind = "qr" => e.bytes <= MaxQrBytes) => StreamReadable(EncodeElement(e, width))
         /\ PrintableElement(e) => StreamPrintable(EncodeElement(e, width))
<1>0. e \in LayoutElements
  BY DEF Encodable
<1>1. CASE e.kind = "text"
  <2>1. EncodeElement(e, width) = EncodeText(e, width) /\ e \in TextElements
    BY <1>0, <1>1, ElementFacts DEF EncodeElement
  <2>2. e.lines \in Seq(Seq(NamedWords))
    BY <2>1 DEF TextElements
  <2>3. EncodeText(e, width) \in Seq(Known(CellTokens))
    BY <2>1, <2>2, KeptPieces, TextEncoded
  <2>4. PrintableElement(e) => EncodeText(e, width) \in Seq(Known(PlainPieces))
    BY <1>1, <2>1, KeptPieces, TextEncoded DEF PrintableElement
  <2>. QED
    BY <2>1, <2>3, <2>4, KnownStream, PrintableStream
<1>2. CASE e.kind = "row"
  <2>1. EncodeElement(e, width) = EncodeRow(e, width) /\ e \in RowElements
    BY <1>0, <1>2, ElementFacts DEF EncodeElement
  <2>2. e.left \in Seq(CellTokens) /\ e.right \in Seq(CellTokens)
    BY <2>1 DEF RowElements
  <2>3. EncodeRow(e, width) \in Seq(Known(CellTokens))
    BY <2>1, <2>2, KeptPieces, RowEncoded
  <2>5. PlainPieces \subseteq CellTokens
    BY DEF PlainPieces, PlainWords, CellPieces, CellTokens, TextTokens
  <2>4. PrintableElement(e) => EncodeRow(e, width) \in Seq(Known(PlainPieces))
    BY <1>2, <2>1, <2>5, KeptPieces, RowEncoded DEF PrintableElement
  <2>. QED
    BY <2>1, <2>3, <2>4, KnownStream, PrintableStream
<1>3. CASE e.kind = "divider"
  <2>. DEFINE w == Word(e.word)
  <2>1. EncodeElement(e, width) = <<w, NewLine>>
    BY <1>3 DEF EncodeElement
  <2>2. e.word \in NamedWords
    BY <1>0, <1>3, ElementFacts DEF DividerElements
  <2>3. w \in Known(CellTokens) /\ (PrintableElement(e) => w \in Known(PlainPieces))
    BY <1>3, <2>2 DEF Word, Known, CellTokens, TextTokens, PlainPieces, CellPieces, PrintableElement
  <2>4. NewLine \in Known(CellTokens) /\ NewLine \in Known(PlainPieces)
    BY DEF NewLine, Known
  <2>. HIDE DEF w
  <2>5. /\ <<w, NewLine>> \in Seq(Known(CellTokens))
        /\ PrintableElement(e) => <<w, NewLine>> \in Seq(Known(PlainPieces))
    BY <2>3, <2>4
  <2>. QED
    BY <2>1, <2>5, KnownStream, PrintableStream
<1>4. CASE e.kind = "image"
  <2>1. EncodeElement(e, width) = EncodeImage(e) /\ e \in ImageElements
    BY <1>0, <1>4, ElementFacts DEF EncodeElement
  <2>2. SmallImage(e)
    BY <1>4 DEF Encodable
  <2>. QED
    BY <2>1, <2>2, ImageEncoded
<1>5. CASE e.kind = "qr"
  <2>1. EncodeElement(e, width) = EncodeQr(e) /\ e \in QrSections
    BY <1>0, <1>5, ElementFacts DEF EncodeElement
  <2>. QED
    BY <1>5, <2>1, QrEncoded
<1>6. CASE e.kind = "barcode"
  <2>1. EncodeElement(e, width) = EncodeBarcode(e) /\ e \in BarcodeElements
    BY <1>0, <1>6, ElementFacts DEF EncodeElement
  <2>. QED
    BY <2>1, BarcodeEncoded
<1>7. CASE e.kind = "feed"
  <2>1. EncodeElement(e, width) = <<Setting("feed", e.lines)>> /\ e \in FeedSections /\ e.lines # 0
    BY <1>0, <1>7, ElementFacts DEF EncodeElement, Encodable
  <2>2. e.lines \in Nat
    BY <2>1 DEF FeedSections
  <2>. QED
    BY <2>1, <2>2, SettingEncoded
<1>8. CASE e.kind = "cut"
  <2>1. EncodeElement(e, width) = <<Setting("cut", 0)>>
    BY <1>8 DEF EncodeElement
  <2>. QED
    BY <2>1, SettingEncoded
<1>. QED
  BY <1>0, <1>1, <1>2, <1>3, <1>4, <1>5, <1>6, <1>7, <1>8, ElementFacts

-----------------------------------------------------------------------------
(* The inductive invariant.                                                *)

Errors == {"InvalidDocument", "InvalidImage", "UnicodeRequiresRasterization", "InvalidBarcode",
           "OutputTooLarge", "InvalidEscPos", "InvalidPageOptions", "BarcodeRender", "PageOverflow"}
Stages == {"validate", "layout", "encode", "interpret", "canvas", "draw", "done"}

\* The document, valid once it was validated.
DocumentOK ==
  /\ doc.width \in Widths /\ doc.sections \in Seq(Sections)
  /\ pc \in Stages \ {"validate"} =>
       \A i \in 1 .. Len(doc.sections) : ValidSection(doc.sections[i])
  /\ pc \in Stages \cup Errors

\* What is left to encode are elements of the document.
LayoutOK ==
  /\ layout \in Seq(LayoutElements)
  /\ pc = "encode" =>
       \A i \in 1 .. Len(layout) :
         Encodable(layout[i]) /\ (~Unprintable => PrintableElement(layout[i]))
         /\ (~LongQr /\ layout[i].kind = "qr" => layout[i].bytes <= MaxQrBytes)

StreamInv ==
  /\ stream \in Seq(Tokens) /\ StreamOK(stream)
  /\ ~LongQr => StreamReadable(stream)
  /\ ~Unprintable => StreamPrintable(stream)

\* The interpreter: it starts with the whole stream, stops for two reasons
\* only, and holds a code as long as the command that prints it is the next.
ParserInv ==
  /\ parser \in Parsers
  /\ parser.offset <= Len(stream) + 1
  /\ parser.error = "invalid" => LongQr
  /\ parser.error = "unsupported" => Unprintable
  /\ pc \in {"validate", "layout", "encode"} => parser = FreshParser(doc.width)
  /\ (parser.error = "none" /\ parser.offset > 1 /\ Stores(stream[parser.offset - 1])) =>
       parser.qr # << >>

\* The page: the receipt is on it, and what is drawn is whole.
CanvasInv ==
  pc \in {"draw", "done"} =>
    /\ canvas \in Canvases /\ ReceiptOn(canvas, doc.width)
    /\ \A i \in 1 .. Len(canvas.drawn) : Whole(canvas, canvas.drawn[i])

\* The heights that the estimate reserved for what is still to be drawn.
Reserved(elements, strip, dpi) == [i \in 1 .. Len(elements) |-> Estimate(elements[i], strip, dpi)]

\* The rest of a preview fits below the cursor, by the estimates of the rest.
PreviewInv ==
  target.kind = "preview" =>
    /\ pc # "PageOverflow"
    /\ pc = "draw" => /\ canvas.dpi = 203
                      /\ canvas.y + SumOf(Reserved(layout, canvas.strip, 203)) <= canvas.height

\* What was refused by the interpreter.
RefusalInv ==
  /\ pc = "InvalidEscPos" => LongQr \/ Unprintable
  /\ pc \in {"canvas", "draw", "done"} => parser.error = "none" \/ Unprintable

IInv == DocumentOK /\ LayoutOK /\ StreamInv /\ ParserInv /\ CanvasInv /\ PreviewInv /\ RefusalInv

\* The interpreter before it starts.
LEMMA FreshParserType ==
  ASSUME NEW width \in Widths
  PROVE  /\ FreshParser(width) \in Parsers
         /\ FreshParser(width).error = "none" /\ FreshParser(width).offset = 1
<1>1. << >> \in Seq(TextTokens) /\ << >> \in Seq(QrSections) /\ << >> \in Seq(LayoutElements)
  BY EmptySeq
<1>2. 1 \in Nat \ {0} /\ 80 \in Nat \ {0} /\ Columns(width) \in Nat
  BY DEF Columns
<1>. QED
  BY <1>1, <1>2 DEF FreshParser, Parsers, Alignments

\* The invariant holds at the start.
LEMMA ReceiptInit == Init => IInv
<1>. SUFFICES ASSUME Init PROVE IInv
  OBVIOUS
<1>. USE DEF Init
<1>1. DocumentOK
  <2>1. PICK n \in 1 .. MaxSections : doc.sections \in [1 .. n -> Sections]
    OBVIOUS
  <2>2. n \in Nat
    BY <2>1, BoundsAssumption
  <2>3. doc.sections \in Seq(Sections)
    BY <2>1, <2>2
  <2>. QED
    BY <2>3 DEF DocumentOK, Stages
<1>2. LayoutOK
  BY EmptySeq DEF LayoutOK
<1>3. StreamInv
  <2>1. stream = << >> /\ << >> \in Seq(Tokens) /\ Len(<< >>) = 0
    BY EmptySeq
  <2>. QED
    BY <2>1 DEF StreamInv, StreamOK, StreamReadable, StreamPrintable
<1>4. ParserInv
  <2>1. parser = FreshParser(doc.width) /\ Len(stream) = 0 /\ doc.width \in Widths
    BY EmptySeq
  <2>2. parser \in Parsers /\ parser.offset = 1 /\ parser.error = "none"
    BY <2>1, FreshParserType
  <2>. QED
    BY <2>1, <2>2 DEF ParserInv
<1>5. CanvasInv /\ PreviewInv /\ RefusalInv
  BY DEF CanvasInv, PreviewInv, RefusalInv
<1>. QED
  BY <1>1, <1>2, <1>3, <1>4, <1>5 DEF IInv

\* A refusal leaves everything else as it is.
LEMMA FailKeeps ==
  ASSUME IInv, NEW error \in Errors, Fail(error),
         error = "PageOverflow" => target.kind # "preview",
         error = "InvalidEscPos" => LongQr \/ Unprintable
  PROVE  IInv'
<1>1. /\ pc' = error /\ doc' = doc /\ target' = target /\ layout' = layout
      /\ stream' = stream /\ parser' = parser /\ canvas' = canvas
  BY DEF Fail
<1>2. pc' \notin Stages /\ pc' \in Errors
  BY <1>1 DEF Stages, Errors
<1>3. LongQr' = LongQr /\ Unprintable' = Unprintable
  BY <1>1 DEF LongQr, Unprintable
<1>4. DocumentOK'
  BY <1>1, <1>2 DEF IInv, DocumentOK
<1>5. LayoutOK'
  BY <1>1, <1>2 DEF IInv, LayoutOK, Stages
<1>6. StreamInv'
  BY <1>1, <1>3 DEF IInv, StreamInv
<1>7. ParserInv'
  BY <1>1, <1>2, <1>3 DEF IInv, ParserInv, Stages
<1>8. CanvasInv' /\ PreviewInv' /\ RefusalInv'
  BY <1>1, <1>2, <1>3 DEF CanvasInv, PreviewInv, RefusalInv, Stages
<1>. QED
  BY <1>4, <1>5, <1>6, <1>7, <1>8 DEF IInv

\* Each action keeps the invariant.
LEMMA ValidateKeeps == ASSUME IInv, Validate PROVE IInv'
<1>1. CASE Fail("InvalidDocument")
  BY <1>1, FailKeeps DEF Errors
<1>2. CASE ~Fail("InvalidDocument")
  <2>1. /\ pc = "validate" /\ pc' = "layout" /\ doc' = doc /\ target' = target /\ layout' = layout
        /\ stream' = stream /\ parser' = parser /\ canvas' = canvas
        /\ \A i \in 1 .. Len(doc.sections) : ValidSection(doc.sections[i])
    BY <1>2 DEF Validate
  <2>2. LongQr' = LongQr /\ Unprintable' = Unprintable
    BY <2>1 DEF LongQr, Unprintable
  <2>3. DocumentOK'
    BY <2>1 DEF IInv, DocumentOK, Stages
  <2>4. LayoutOK' /\ StreamInv'
    BY <2>1, <2>2 DEF IInv, LayoutOK, StreamInv
  <2>5. ParserInv'
    BY <2>1, <2>2 DEF IInv, ParserInv
  <2>6. CanvasInv' /\ PreviewInv' /\ RefusalInv'
    BY <2>1 DEF CanvasInv, PreviewInv, RefusalInv
  <2>. QED
    BY <2>3, <2>4, <2>5, <2>6 DEF IInv
<1>. QED
  BY <1>1, <1>2

\* The elements of a valid document.
LEMMA ElementsMade ==
  ASSUME DocumentOK, pc = "layout"
  PROVE  /\ Elements \in Seq(LayoutElements)
         /\ \A i \in 1 .. Len(Elements) :
              Encodable(Elements[i]) /\ (~Unprintable => PrintableElement(Elements[i]))
              /\ (~LongQr /\ Elements[i].kind = "qr" => Elements[i].bytes <= MaxQrBytes)
<1>. DEFINE n == Len(doc.sections)
            made(i) == Named(Element(doc.sections[i], doc.width), i)
<1>1. n \in Nat /\ \A i \in 1 .. n : doc.sections[i] \in Sections /\ ValidSection(doc.sections[i])
  BY LenProperties, ElementOfSeq DEF DocumentOK, Stages
<1>2. doc.width \in Widths
  BY DEF DocumentOK
<1>3. Elements = [i \in 1 .. n |-> made(i)]
  BY DEF Elements
<1>4. ASSUME NEW i \in 1 .. n
      PROVE  /\ Encodable(made(i)) /\ made(i) \in LayoutElements
             /\ ~Unprintable => PrintableElement(made(i))
             /\ ~LongQr /\ made(i).kind = "qr" => made(i).bytes <= MaxQrBytes
  <2>. DEFINE s == doc.sections[i]
              e == made(i)
  <2>1. Encodable(e) /\ e.kind = s.kind /\ (e.kind = "qr" => e.bytes = s.bytes)
        /\ (~HasControl(s) => PrintableElement(e))
    BY <1>1, <1>2, ElementMade
  <2>2. s.kind = "qr" => s.bytes \in Nat
    BY <1>1, SectionFacts DEF QrSections
  <2>3. ~LongQr /\ s.kind = "qr" => s.bytes <= MaxQrBytes
    BY <2>2 DEF LongQr, MaxQrBytes
  <2>6. ~Unprintable => ~HasControl(s)
    BY DEF Unprintable
  <2>4. e \in LayoutElements
    BY <2>1 DEF Encodable
  <2>. HIDE DEF e, s
  <2>5. ~LongQr /\ e.kind = "qr" => e.bytes <= MaxQrBytes
    BY <2>1, <2>3
  <2>. QED
    BY <2>1, <2>4, <2>5, <2>6 DEF e
<1>5. Len(Elements) = n /\ \A i \in 1 .. n : Elements[i] = made(i)
  BY <1>1, <1>3
<1>6. Elements \in Seq(LayoutElements)
  <2>1. \A i \in 1 .. n : made(i) \in LayoutElements
    BY <1>4
  <2>. QED
    BY <1>1, <1>3, <2>1
<1>. QED
  BY <1>4, <1>5, <1>6

\* The layout of a document.
LEMMA FromDocumentKeeps == ASSUME IInv, FromDocument PROVE IInv'
<1>1. CASE Fail("InvalidImage")
  BY <1>1, FailKeeps DEF Errors
<1>2. CASE ~Fail("InvalidImage")
  <2>1. /\ pc = "layout" /\ doc' = doc /\ target' = target /\ layout' = Elements
        /\ parser' = parser /\ canvas' = canvas
        /\ pc' = IF target.kind = "page" THEN "canvas" ELSE "encode"
        /\ stream' = IF target.kind = "page" THEN << >> ELSE <<Command("init")>>
    BY <1>2 DEF FromDocument
  <2>2. LongQr' = LongQr /\ Unprintable' = Unprintable
    BY <2>1 DEF LongQr, Unprintable
  <2>3. pc' \in {"canvas", "encode"}
    BY <2>1
  <2>4. DocumentOK'
    BY <2>1, <2>3 DEF IInv, DocumentOK, Stages
  <2>5. LayoutOK'
    <3>1. /\ Elements \in Seq(LayoutElements)
          /\ \A i \in 1 .. Len(Elements) :
               Encodable(Elements[i]) /\ (~Unprintable => PrintableElement(Elements[i]))
               /\ (~LongQr /\ Elements[i].kind = "qr" => Elements[i].bytes <= MaxQrBytes)
      BY <2>1, ElementsMade DEF IInv
    <3>. DEFINE made == Elements
    <3>. HIDE DEF made
    <3>2. layout' = made
      BY <2>1 DEF made
    <3>3. /\ made \in Seq(LayoutElements)
          /\ \A i \in 1 .. Len(made) :
               Encodable(made[i]) /\ (~Unprintable => PrintableElement(made[i]))
               /\ (~LongQr /\ made[i].kind = "qr" => made[i].bytes <= MaxQrBytes)
      BY <3>1 DEF made
    <3>. QED
      BY <2>2, <3>2, <3>3 DEF LayoutOK
  <2>6. stream' \in Seq(Tokens) /\ StreamOK(stream') /\ StreamReadable(stream')
        /\ StreamPrintable(stream')
    <3>1. << >> \in Seq(Tokens) /\ StreamOK(<< >>) /\ StreamReadable(<< >>) /\ StreamPrintable(<< >>)
      BY EmptySeq DEF StreamOK, StreamReadable, StreamPrintable
    <3>2. Command("init") \in Tokens /\ Command("init").op = "init"
      BY DEF Command, Tokens, SettingTokens
    <3>. DEFINE t == Command("init")
    <3>. HIDE DEF t
    <3>3. t \in Tokens /\ Supported(t) /\ Readable(t) /\ ~Prints(t) /\ ~Control(t)
      BY <3>2 DEF t, Control, Supported, Readable, Prints, Stores
    <3>4. <<t>> \in Seq(Tokens) /\ Len(<<t>>) = 1 /\ <<t>>[1] = t
      BY <3>3
    <3>5. \A i \in 1 .. 1 : i = 1
      OBVIOUS
    <3>6. StreamOK(<<t>>) /\ StreamReadable(<<t>>) /\ StreamPrintable(<<t>>)
      BY <3>3, <3>4, <3>5 DEF StreamOK, StreamReadable, StreamPrintable
    <3>. QED
      BY <2>1, <3>1, <3>4, <3>6 DEF t
  <2>7. StreamInv'
    BY <2>6 DEF StreamInv
  <2>8. parser = FreshParser(doc.width) /\ parser.error = "none" /\ parser.offset = 1 /\ parser \in Parsers
    BY <2>1, FreshParserType DEF IInv, ParserInv, DocumentOK
  <2>9. ParserInv'
    <3>1. Len(stream') \in Nat
      BY <2>6, LenProperties
    <3>. QED
      BY <2>1, <2>2, <2>8, <3>1 DEF ParserInv
  <2>10. CanvasInv' /\ PreviewInv' /\ RefusalInv'
    BY <2>1, <2>3, <2>8 DEF CanvasInv, PreviewInv, RefusalInv
  <2>. QED
    BY <2>4, <2>5, <2>7, <2>9, <2>10 DEF IInv
<1>. QED
  BY <1>1, <1>2

\* An element is encoded.
LEMMA EncodeKeeps == ASSUME IInv, Encode PROVE IInv'
<1>. DEFINE e == Head(layout)
            why == EncodeError(e)
<1>1. why \in {"none", "UnicodeRequiresRasterization", "InvalidBarcode"}
  BY DEF EncodeError
<1>2. CASE why # "none"
  <2>1. Fail(why)
    BY <1>2 DEF Encode
  <2>2. why \in Errors /\ why # "PageOverflow" /\ why # "InvalidEscPos"
    BY <1>1, <1>2 DEF Errors
  <2>. HIDE DEF why
  <2>. QED
    BY <2>1, <2>2, FailKeeps
<1>3. CASE why = "none"
  <2>. DEFINE more == EncodeElement(e, doc.width)
  <2>1. /\ pc = "encode" /\ pc' = pc /\ doc' = doc /\ target' = target /\ layout # << >>
        /\ layout' = Tail(layout) /\ stream' = stream \o more
        /\ parser' = parser /\ canvas' = canvas
    BY <1>3 DEF Encode
  <2>2. LongQr' = LongQr /\ Unprintable' = Unprintable
    BY <2>1 DEF LongQr, Unprintable
  <2>3. /\ layout \in Seq(LayoutElements)
        /\ \A i \in 1 .. Len(layout) :
             Encodable(layout[i]) /\ (~Unprintable => PrintableElement(layout[i]))
             /\ (~LongQr /\ layout[i].kind = "qr" => layout[i].bytes <= MaxQrBytes)
    BY <2>1 DEF IInv, LayoutOK
  <2>4. /\ Tail(layout) \in Seq(LayoutElements) /\ Len(Tail(layout)) = Len(layout) - 1
        /\ (\A i \in 1 .. Len(Tail(layout)) : Tail(layout)[i] = layout[i + 1])
        /\ Len(layout) \in Nat /\ 1 \in 1 .. Len(layout) /\ e = layout[1]
    BY <2>1, <2>3, HeadTailProperties, LenProperties, EmptySeq
  <2>5. Encodable(e) /\ (~Unprintable => PrintableElement(e)) /\ (~LongQr /\ e.kind = "qr" => e.bytes <= MaxQrBytes)
    BY <2>3, <2>4
  <2>6. doc.width \in Widths
    BY DEF IInv, DocumentOK
  <2>7. /\ more \in Seq(Tokens) /\ StreamOK(more)
        /\ (e.kind = "qr" => e.bytes <= MaxQrBytes) => StreamReadable(more)
        /\ PrintableElement(e) => StreamPrintable(more)
    BY <2>5, <2>6, ElementEncoded
  <2>. HIDE DEF more, e
  <2>8. stream \in Seq(Tokens) /\ StreamOK(stream) /\ (~LongQr => StreamReadable(stream))
        /\ (~Unprintable => StreamPrintable(stream))
    BY DEF IInv, StreamInv
  <2>9. stream \o more \in Seq(Tokens) /\ Len(stream \o more) = Len(stream) + Len(more)
        /\ Len(stream) \in Nat /\ Len(more) \in Nat
    BY <2>7, <2>8, ConcatProperties, LenProperties
  <2>10. StreamOK(stream \o more) /\ (~LongQr => StreamReadable(stream \o more))
         /\ (~Unprintable => StreamPrintable(stream \o more))
    BY <2>5, <2>7, <2>8, StreamsJoined
  <2>11. StreamInv'
    BY <2>1, <2>2, <2>9, <2>10 DEF StreamInv
  <2>12. DocumentOK'
    BY <2>1 DEF IInv, DocumentOK, Stages
  <2>13. LayoutOK'
    <3>1. \A i \in 1 .. Len(Tail(layout)) : i + 1 \in 1 .. Len(layout)
      BY <2>4
    <3>. DEFINE rest == Tail(layout)
    <3>. HIDE DEF rest
    <3>2. /\ rest \in Seq(LayoutElements)
          /\ \A i \in 1 .. Len(rest) :
               Encodable(rest[i]) /\ (~Unprintable => PrintableElement(rest[i]))
               /\ (~LongQr /\ rest[i].kind = "qr" => rest[i].bytes <= MaxQrBytes)
      BY <2>3, <2>4, <3>1 DEF rest
    <3>3. layout' = rest
      BY <2>1 DEF rest
    <3>. QED
      BY <2>2, <3>2, <3>3 DEF LayoutOK
  <2>14. parser = FreshParser(doc.width) /\ parser.error = "none" /\ parser.offset = 1 /\ parser \in Parsers
    BY <2>1, FreshParserType DEF IInv, ParserInv, DocumentOK
  <2>15. ParserInv'
    <3>1. Len(stream') \in Nat
      BY <2>1, <2>9
    <3>. QED
      BY <2>1, <2>2, <2>14, <3>1 DEF ParserInv
  <2>16. CanvasInv' /\ PreviewInv' /\ RefusalInv'
    BY <2>1 DEF CanvasInv, PreviewInv, RefusalInv
  <2>. QED
    BY <2>11, <2>12, <2>13, <2>15, <2>16 DEF IInv
<1>. QED
  BY <1>2, <1>3

\* The stream is complete.
LEMMA FinishEncodeKeeps == ASSUME IInv, FinishEncode PROVE IInv'
<1>1. CASE Fail("OutputTooLarge")
  BY <1>1, FailKeeps DEF Errors
<1>2. CASE ~Fail("OutputTooLarge")
  <2>1. /\ pc = "encode" /\ pc' = "interpret" /\ doc' = doc /\ target' = target /\ layout' = layout
        /\ stream' = stream /\ parser' = parser /\ canvas' = canvas
    BY <1>2 DEF FinishEncode
  <2>2. LongQr' = LongQr /\ Unprintable' = Unprintable
    BY <2>1 DEF LongQr, Unprintable
  <2>3. DocumentOK'
    BY <2>1 DEF IInv, DocumentOK, Stages
  <2>4. LayoutOK' /\ StreamInv'
    BY <2>1, <2>2 DEF IInv, LayoutOK, StreamInv
  <2>5. ParserInv'
    BY <2>1, <2>2 DEF IInv, ParserInv
  <2>6. CanvasInv' /\ PreviewInv' /\ RefusalInv'
    BY <2>1 DEF CanvasInv, PreviewInv, RefusalInv
  <2>. QED
    BY <2>3, <2>4, <2>5, <2>6 DEF IInv
<1>. QED
  BY <1>1, <1>2

\* A token is interpreted.
LEMMA InterpretKeeps == ASSUME IInv, Interpret PROVE IInv'
<1>. DEFINE t == stream[parser.offset]
            read == ParseToken(parser, t)
<1>1. /\ pc = "interpret" /\ pc' = pc /\ doc' = doc /\ target' = target /\ layout' = layout
      /\ stream' = stream /\ canvas' = canvas /\ parser' = read
      /\ parser.offset <= Len(stream) /\ parser.error = "none"
  BY DEF Interpret
<1>2. LongQr' = LongQr /\ Unprintable' = Unprintable
  BY <1>1 DEF LongQr, Unprintable
<1>3. parser \in Parsers /\ parser.offset \in Nat \ {0}
  BY DEF IInv, ParserInv, Parsers
<1>4. stream \in Seq(Tokens) /\ StreamOK(stream) /\ (~LongQr => StreamReadable(stream)) /\ Len(stream) \in Nat
      /\ (~Unprintable => StreamPrintable(stream))
  BY LenProperties DEF IInv, StreamInv
<1>5. parser.offset \in 1 .. Len(stream)
  BY <1>1, <1>3, <1>4
<1>6. t \in Tokens
  BY <1>4, <1>5, ElementOfSeq
<1>7. Supported(t) /\ (~LongQr => Readable(t)) /\ (~Unprintable => ~Control(t))
      /\ (Prints(t) => parser.offset > 1 /\ Stores(stream[parser.offset - 1]))
  BY <1>4, <1>5 DEF StreamOK, StreamReadable, StreamPrintable
<1>8. Prints(t) => parser.qr # << >>
  BY <1>1, <1>7 DEF IInv, ParserInv
<1>9. /\ read \in Parsers /\ read.offset = parser.offset + 1
      /\ read.error = "unsupported" => Unprintable
      /\ read.error = "invalid" => LongQr
      /\ read.error = "none" /\ Stores(t) => read.qr # << >>
  <2>1. LET q == ParseToken(parser, t)
        IN  /\ q \in Parsers /\ q.offset = parser.offset + 1
            /\ (parser.error = "none" /\ Supported(t) /\ (Prints(t) => parser.qr # << >>)) =>
                 /\ ~Control(t) => q.error # "unsupported"
                 /\ Readable(t) /\ ~Control(t) => q.error = "none"
                 /\ Readable(t) => q.error # "invalid"
                 /\ q.error = "none" /\ Stores(t) => q.qr # << >>
    BY <1>3, <1>6, TokenParsed
  <2>. QED
    BY <1>1, <1>7, <1>8, <2>1
<1>10. stream[read.offset - 1] = t
  BY <1>3, <1>9
<1>. HIDE DEF t, read
<1>11. ParserInv'
  BY <1>1, <1>2, <1>3, <1>4, <1>9, <1>10 DEF ParserInv
<1>12. DocumentOK'
  BY <1>1 DEF IInv, DocumentOK, Stages
<1>13. LayoutOK' /\ StreamInv'
  BY <1>1, <1>2 DEF IInv, LayoutOK, StreamInv
<1>14. CanvasInv' /\ PreviewInv' /\ RefusalInv'
  BY <1>1 DEF CanvasInv, PreviewInv, RefusalInv
<1>. QED
  BY <1>11, <1>12, <1>13, <1>14 DEF IInv

\* The interpreter is done: what it refused is the length of a QR value or a
\* control character.
LEMMA FinishInterpretKeeps == ASSUME IInv, FinishInterpret PROVE IInv'
<1>1. /\ parser \in Parsers /\ parser.error \in {"none", "invalid", "unsupported"}
      /\ parser.error = "invalid" => LongQr
      /\ parser.error = "unsupported" => Unprintable
  BY DEF IInv, ParserInv, Parsers
<1>2. CASE parser.error = "invalid" \/ (parser.error = "unsupported" /\ target.kind = "driver")
  <2>1. Fail("InvalidEscPos")
    BY <1>2 DEF FinishInterpret
  <2>2. LongQr \/ Unprintable
    BY <1>1, <1>2
  <2>. QED
    BY <2>1, <2>2, FailKeeps DEF Errors
<1>3. CASE ~(parser.error = "invalid" \/ (parser.error = "unsupported" /\ target.kind = "driver"))
  <2>. DEFINE read == IF parser.error = "none" THEN FlushText(parser) ELSE parser
  <2>1. /\ pc = "interpret" /\ pc' = "canvas" /\ doc' = doc /\ target' = target
        /\ layout' = read.elements /\ stream' = stream /\ canvas' = canvas /\ parser' = read
    BY <1>3 DEF FinishInterpret
  <2>2. /\ read \in Parsers /\ read.error = parser.error /\ read.offset = parser.offset
        /\ read.qr = parser.qr
    BY <1>1, FlushTextType
  <2>3. LongQr' = LongQr /\ Unprintable' = Unprintable
    BY <2>1 DEF LongQr, Unprintable
  <2>. HIDE DEF read
  <2>4. read.elements \in Seq(LayoutElements)
    BY <2>2 DEF Parsers
  <2>9. read.error = "none" \/ Unprintable
    BY <1>1, <1>3, <2>2
  <2>5. ParserInv'
    BY <2>1, <2>2, <2>3 DEF IInv, ParserInv
  <2>6. DocumentOK'
    BY <2>1 DEF IInv, DocumentOK, Stages
  <2>7. LayoutOK' /\ StreamInv'
    BY <2>1, <2>3, <2>4 DEF IInv, LayoutOK, StreamInv
  <2>8. CanvasInv' /\ PreviewInv' /\ RefusalInv'
    BY <2>1, <2>3, <2>9 DEF CanvasInv, PreviewInv, RefusalInv
  <2>. QED
    BY <2>5, <2>6, <2>7, <2>8 DEF IInv
<1>. QED
  BY <1>2, <1>3

\* The estimate of any element is a number of pixels.
LEMMA EstimateType ==
  ASSUME NEW width \in Widths, NEW c \in Canvases, ReceiptOn(c, width), c.dpi = 203,
         NEW e \in LayoutElements
  PROVE  Estimate(e, c.strip, c.dpi) \in Nat
<1>1. CASE e.kind = "text"
  BY <1>1, ElementFacts, TextDrawn
<1>2. CASE e.kind = "row"
  BY <1>2, ElementFacts, RowDrawn
<1>3. CASE e.kind \in {"divider", "feed", "cut"}
  <2>1. DrawnWell(c, e)
    BY <1>3, LinesDrawnWell
  <2>. QED
    BY <2>1 DEF DrawnWell
<1>4. CASE e.kind = "image"
  BY <1>4, ElementFacts, ImageDrawnWell DEF DrawnWell
<1>5. CASE e.kind = "qr"
  BY <1>5, ElementFacts, QrDrawnWell DEF DrawnWell
<1>6. CASE e.kind = "barcode"
  <2>. DEFINE bars == (c.dpi * e.height) \div 203
              text == IF e.readable THEN LineHeight(c.dpi) ELSE 0
              gap == 2 * Scale(c.dpi)
  <2>1. Estimate(e, c.strip, c.dpi) = bars + text + gap
    BY <1>6 DEF Estimate
  <2>2. e.height \in Nat
    BY <1>6, ElementFacts DEF BarcodeElements
  <2>3. bars \in Nat
    <3>1. c.dpi * e.height \in Nat
      BY <2>2, CanvasFacts, ProductFacts
    <3>. QED
      BY <3>1, DivNat
  <2>4. text \in Nat
    BY CanvasFacts
  <2>5. gap \in Nat
    BY CanvasFacts
  <2>. HIDE DEF bars, text, gap
  <2>. QED
    BY <2>1, <2>3, <2>4, <2>5
<1>. QED
  BY <1>1, <1>2, <1>3, <1>4, <1>5, <1>6, ElementFacts

\* What is reserved is a number of pixels.
LEMMA ReservedType ==
  ASSUME NEW width \in Widths, NEW c \in Canvases, ReceiptOn(c, width), c.dpi = 203,
         NEW elements \in Seq(LayoutElements)
  PROVE  /\ Len(elements) \in Nat
         /\ Reserved(elements, c.strip, 203) \in Seq(Nat)
         /\ Len(Reserved(elements, c.strip, 203)) = Len(elements)
         /\ \A i \in 1 .. Len(elements) :
              Reserved(elements, c.strip, 203)[i] = Estimate(elements[i], c.strip, 203)
         /\ SumOf(Reserved(elements, c.strip, 203)) \in Nat
<1>1. Len(elements) \in Nat /\ \A i \in 1 .. Len(elements) : elements[i] \in LayoutElements
  BY LenProperties, ElementOfSeq
<1>2. \A i \in 1 .. Len(elements) : Estimate(elements[i], c.strip, 203) \in Nat
  BY <1>1, EstimateType
<1>3. /\ Reserved(elements, c.strip, 203) \in Seq(Nat)
      /\ Len(Reserved(elements, c.strip, 203)) = Len(elements)
      /\ \A i \in 1 .. Len(elements) :
           Reserved(elements, c.strip, 203)[i] = Estimate(elements[i], c.strip, 203)
  BY <1>1, <1>2 DEF Reserved
<1>. QED
  BY <1>1, <1>3, SumOfNat

\* What is reserved for the rest when the first element is drawn.
LEMMA ReservedTail ==
  ASSUME NEW width \in Widths, NEW c \in Canvases, ReceiptOn(c, width), c.dpi = 203,
         NEW elements \in Seq(LayoutElements), elements # << >>
  PROVE  SumOf(Reserved(elements, c.strip, 203))
           = Estimate(Head(elements), c.strip, 203) + SumOf(Reserved(Tail(elements), c.strip, 203))
<1>. DEFINE n == Len(elements)
            rest == Tail(elements)
            all == Reserved(elements, c.strip, 203)
            left == Reserved(rest, c.strip, 203)
<1>1. /\ n \in Nat /\ n > 0 /\ rest \in Seq(LayoutElements) /\ Len(rest) = n - 1
      /\ \A i \in 1 .. n - 1 : rest[i] = elements[i + 1]
      /\ Head(elements) = elements[1]
  BY HeadTailProperties, LenProperties, EmptySeq
<1>2. /\ all \in Seq(Nat) /\ Len(all) = n
      /\ \A i \in 1 .. n : all[i] = Estimate(elements[i], c.strip, 203)
  BY ReservedType
<1>. HIDE DEF n, rest
<1>3. /\ left \in Seq(Nat) /\ Len(left) = n - 1
      /\ \A i \in 1 .. n - 1 : left[i] = Estimate(rest[i], c.strip, 203)
  BY <1>1, ReservedType
<1>. HIDE DEF all, left
<1>4. all \in Seq(Int) /\ all # << >> /\ left \in Seq(Int)
  BY <1>1, <1>2, <1>3, EmptySeq
<1>5. Head(all) = Estimate(Head(elements), c.strip, 203)
  BY <1>1, <1>2, <1>4
<1>6. Tail(all) = left
  <2>1. Tail(all) \in Seq(Int) /\ Len(Tail(all)) = n - 1 /\ \A i \in 1 .. n - 1 : Tail(all)[i] = all[i + 1]
    BY <1>2, <1>4, HeadTailProperties
  <2>2. \A i \in 1 .. n - 1 : i + 1 \in 1 .. n /\ i \in 1 .. n
    BY <1>1
  <2>3. \A i \in 1 .. n - 1 : Tail(all)[i] = left[i]
    BY <1>1, <1>2, <1>3, <2>1, <2>2
  <2>. QED
    BY <1>3, <1>4, <2>1, <2>3, SeqEqual
<1>. QED
  BY <1>4, <1>5, <1>6, SumOfTail DEF all, left, rest

\* Why drawing fails.
LEMMA DrawErrorType ==
  ASSUME NEW e, NEW strip
  PROVE  DrawError(e, strip) \in {"none", "InvalidImage", "BarcodeRender"}
  BY DEF DrawError

\* The canvas of a preview.
LEMMA PreviewCanvasFacts ==
  ASSUME doc.width \in Widths, NEW elements \in Seq(LayoutElements)
  PROVE  LET c == PreviewCanvas(elements)
         IN  /\ c \in Canvases /\ ReceiptOn(c, doc.width) /\ c.dpi = 203 /\ c.drawn = << >>
             /\ c.y + SumOf(Reserved(elements, c.strip, 203)) <= c.height
<1>. DEFINE strip == MmToPixels(doc.width, 203)
            height == EstimateHeight(elements, strip, 203)
            c == PreviewCanvas(elements)
            \* A canvas of the same strip, to speak of its estimates.
            probe == [width |-> strip, height |-> 0, dpi |-> 203, strip |-> strip, y |-> 0, drawn |-> << >>]
            total == SumOf(Reserved(elements, strip, 203))
<1>1. strip \in Nat
  <2>1. doc.width \in Nat /\ 203 \in Nat
    BY DEF Widths
  <2>. QED
    BY <2>1, PixelsFacts
<1>2. height = 4 * Scale(203) + total
  BY DEF EstimateHeight, Reserved
<1>3. Scale(203) = 2
  BY DEF Scale, Larger
<1>4. c = [width |-> strip, height |-> height, dpi |-> 203, strip |-> strip, y |-> 0, drawn |-> << >>]
  BY DEF PreviewCanvas
<1>5. 203 \in 72 .. 600 /\ 0 \in Nat
  OBVIOUS
<1>6. << >> \in Seq([widths : SUBSET Nat, caption : Nat, height : Nat, element : LayoutElements])
  BY EmptySeq
<1>7. strip = MmToPixels(doc.width, 203)
  OBVIOUS
<1>. HIDE DEF strip, height, c
<1>8. probe \in Canvases /\ ReceiptOn(probe, doc.width) /\ probe.dpi = 203 /\ probe.strip = strip
  BY <1>1, <1>5, <1>6, <1>7 DEF Canvases, ReceiptOn
<1>. HIDE DEF probe
<1>9. total \in Nat
  BY <1>8, ReservedType
<1>. HIDE DEF total
<1>10. height \in Nat /\ 0 <= height /\ total <= height
  BY <1>2, <1>3, <1>9
<1>11. c \in Canvases
  BY <1>1, <1>4, <1>5, <1>6, <1>10 DEF Canvases
<1>12. ReceiptOn(c, doc.width) /\ c.dpi = 203 /\ c.drawn = << >> /\ c.y = 0 /\ c.strip = strip /\ c.height = height
  BY <1>4, <1>7, <1>10 DEF ReceiptOn
<1>13. c.y + SumOf(Reserved(elements, c.strip, 203)) <= c.height
  <2>1. SumOf(Reserved(elements, c.strip, 203)) = total
    BY <1>12 DEF total
  <2>. QED
    BY <1>9, <1>10, <1>12, <2>1
<1>. QED
  BY <1>11, <1>12, <1>13 DEF c

\* The canvas of a page that is large enough.
LEMMA PageCanvasFacts ==
  ASSUME doc.width \in Widths, NEW page, ValidPage(page)
  PROVE  LET c == PageCanvas(page)
         IN  c \in Canvases /\ ReceiptOn(c, doc.width) /\ c.drawn = << >>
<1>. DEFINE pixels(mm) == MmToPixels(mm, page.dpi)
            wide == pixels(page.width)
            high == pixels(page.height)
            paper == pixels(doc.width)
            top == pixels(TopMarginMm)
            c == PageCanvas(page)
<1>1. page.dpi \in 72 .. 600 /\ page.width \in 100 .. 500 /\ page.height \in 100 .. 500
  BY DEF ValidPage
<1>2. /\ page.dpi \in Nat /\ page.width \in Nat /\ page.height \in Nat /\ doc.width \in Nat /\ TopMarginMm \in Nat
      /\ doc.width <= page.width /\ TopMarginMm <= page.height
  <2>. DEFINE w == page.width
              h == page.height
  <2>1. page.dpi \in Nat
    BY <1>1
  <2>2. w \in Nat /\ w >= 100
    BY <1>1
  <2>3. h \in Nat /\ h >= 100
    BY <1>1
  <2>4. doc.width \in Nat /\ doc.width <= 80
    BY DEF Widths
  <2>. HIDE DEF w, h
  <2>5. TopMarginMm \in Nat /\ TopMarginMm <= h /\ doc.width <= w
    BY <2>2, <2>3, <2>4 DEF TopMarginMm
  <2>. QED
    BY <2>1, <2>2, <2>3, <2>4, <2>5 DEF w, h
<1>3. wide \in Nat /\ high \in Nat /\ paper \in Nat /\ top \in Nat
  BY <1>2, PixelsFacts
<1>4. paper <= wide /\ top <= high
  BY <1>2, PixelsOrdered
<1>5. c = [width |-> wide, height |-> high, dpi |-> page.dpi, strip |-> Smaller(paper, wide),
           y |-> top, drawn |-> << >>]
  BY DEF PageCanvas
<1>6. << >> \in Seq([widths : SUBSET Nat, caption : Nat, height : Nat, element : LayoutElements])
  BY EmptySeq
<1>7. paper = MmToPixels(doc.width, page.dpi)
  OBVIOUS
<1>. HIDE DEF wide, high, paper, top, c
<1>8. Smaller(paper, wide) = paper
  BY <1>3, <1>4 DEF Smaller
<1>9. c \in Canvases
  BY <1>1, <1>3, <1>5, <1>6, <1>8 DEF Canvases
<1>10. ReceiptOn(c, doc.width) /\ c.drawn = << >>
  BY <1>4, <1>5, <1>7, <1>8 DEF ReceiptOn
<1>. QED
  BY <1>9, <1>10 DEF c

\* The canvas is made.
LEMMA NewCanvasKeeps == ASSUME IInv, NewCanvas PROVE IInv'
<1>. DEFINE strip == MmToPixels(doc.width, 203)
            codes == {i \in 1 .. Len(layout) : layout[i].kind \in {"qr", "barcode"} /\ layout[i].modules = 0}
            why == DrawError(layout[Min(codes)], strip)
            made == IF target.kind = "preview" THEN PreviewCanvas(layout) ELSE PageCanvas(target.page)
<1>0. /\ pc = "canvas"
      /\ IF target.kind = "preview" /\ codes # {}
         THEN Fail(why)
         ELSE IF target.kind # "preview" /\ ~ValidPage(target.page) THEN Fail("InvalidPageOptions")
         ELSE IF made.width * made.height > MaxPagePixels THEN Fail("OutputTooLarge")
         ELSE /\ canvas' = made
              /\ pc' = "draw"
              /\ UNCHANGED <<doc, target, layout, stream, parser>>
  BY DEF NewCanvas
<1>1. ASSUME target.kind = "preview", codes # {} PROVE why \in {"InvalidImage", "BarcodeRender"}
  <2>. DEFINE n == Len(layout)
  <2>1. codes \subseteq 1 .. n /\ n \in Nat
    BY LenProperties DEF IInv, LayoutOK
  <2>2. codes \in SUBSET Nat
    BY <2>1
  <2>. HIDE DEF codes
  <2>3. PICK least \in codes : \A y \in codes : least <= y
    BY <1>1, <2>2, LeastNatural
  <2>4. Min(codes) \in codes
    BY <2>3 DEF Min
  <2>. DEFINE e == layout[Min(codes)]
  <2>5. e.kind \in {"qr", "barcode"} /\ e.modules = 0
    BY <2>4 DEF codes
  <2>. HIDE DEF e
  <2>6. DrawError(e, strip) \in {"InvalidImage", "BarcodeRender"}
    BY <2>5 DEF DrawError
  <2>. QED
    BY <2>6 DEF e
<1>2. CASE target.kind = "preview" /\ codes # {}
  <2>1. Fail(why)
    BY <1>0, <1>2
  <2>2. why \in {"InvalidImage", "BarcodeRender"}
    BY <1>1, <1>2
  <2>. HIDE DEF why
  <2>3. why \in Errors /\ why # "PageOverflow" /\ why # "InvalidEscPos"
    BY <2>2 DEF Errors
  <2>. QED
    BY <2>1, <2>3, FailKeeps
<1>. HIDE DEF why, codes
<1>3. CASE Fail("InvalidPageOptions") \/ Fail("OutputTooLarge")
  BY <1>3, FailKeeps DEF Errors
<1>4. CASE ~(target.kind = "preview" /\ codes # {}) /\ ~Fail("InvalidPageOptions") /\ ~Fail("OutputTooLarge")
  <2>. HIDE DEF made
  <2>1. /\ pc = "canvas" /\ pc' = "draw" /\ doc' = doc /\ target' = target /\ layout' = layout
        /\ stream' = stream /\ parser' = parser /\ canvas' = made
        /\ (target.kind # "preview" => ValidPage(target.page))
    BY <1>0, <1>4
  <2>2. doc.width \in Widths /\ layout \in Seq(LayoutElements)
    BY DEF IInv, DocumentOK, LayoutOK
  <2>3. target.kind = "preview" =>
          /\ made \in Canvases /\ ReceiptOn(made, doc.width) /\ made.drawn = << >> /\ made.dpi = 203
          /\ made.y + SumOf(Reserved(layout, made.strip, 203)) <= made.height
    BY <2>2, PreviewCanvasFacts DEF made
  <2>4. target.kind # "preview" =>
          made \in Canvases /\ ReceiptOn(made, doc.width) /\ made.drawn = << >>
    BY <2>1, <2>2, PageCanvasFacts DEF made
  <2>5. made \in Canvases /\ ReceiptOn(made, doc.width) /\ made.drawn = << >>
    BY <2>3, <2>4
  <2>6. LongQr' = LongQr /\ Unprintable' = Unprintable
    BY <2>1 DEF LongQr, Unprintable
  <2>7. DocumentOK'
    BY <2>1 DEF IInv, DocumentOK, Stages
  <2>8. LayoutOK' /\ StreamInv'
    BY <2>1, <2>6 DEF IInv, LayoutOK, StreamInv
  <2>9. ParserInv'
    BY <2>1, <2>6 DEF IInv, ParserInv
  <2>10. CanvasInv'
    <3>1. Len(made.drawn) = 0
      BY <2>5, EmptySeq
    <3>. QED
      BY <2>1, <2>5, <3>1 DEF CanvasInv
  <2>11. PreviewInv'
    BY <2>1, <2>3 DEF PreviewInv
  <2>12. RefusalInv'
    BY <2>1, <2>6 DEF IInv, RefusalInv
  <2>. QED
    BY <2>7, <2>8, <2>9, <2>10, <2>11, <2>12 DEF IInv
<1>. QED
  BY <1>2, <1>3, <1>4

\* Whether a drawing is whole does not depend on where the cursor is.
LEMMA WholeKept ==
  ASSUME NEW c, NEW b, NEW d, b.strip = c.strip, b.dpi = c.dpi, Whole(c, d) PROVE Whole(b, d)
  BY DEF Whole

\* An element is drawn.  On a preview it takes no more than what the estimate
\* reserved for it, so the rest still fits.
LEMMA DrawKeeps == ASSUME IInv, Draw PROVE IInv'
<1>. DEFINE e == Head(layout)
            c == canvas
            why == DrawError(e, c.strip)
            y == c.y + Advance(c, e)
            d == [widths |-> Drawn(c, e), caption |-> CaptionWidth(c, e), height |-> y - c.y, element |-> e]
<1>0. /\ pc = "draw" /\ layout # << >>
      /\ IF why # "none" THEN Fail(why)
         ELSE IF y > c.height THEN Fail("PageOverflow")
         ELSE /\ canvas' = [c EXCEPT !.y = y, !.drawn = Append(@, d)]
              /\ layout' = Tail(layout)
              /\ UNCHANGED <<doc, target, pc, stream, parser>>
  BY DEF Draw
<1>1. doc.width \in Widths /\ layout \in Seq(LayoutElements)
  BY DEF IInv, DocumentOK, LayoutOK
<1>2. /\ c \in Canvases /\ ReceiptOn(c, doc.width)
      /\ \A i \in 1 .. Len(c.drawn) : Whole(c, c.drawn[i])
  BY <1>0 DEF IInv, CanvasInv
<1>3. /\ e \in LayoutElements /\ Tail(layout) \in Seq(LayoutElements)
  BY <1>0, <1>1, HeadTailProperties
<1>4. CASE why # "none"
  <2>1. why \in {"none", "InvalidImage", "BarcodeRender"} /\ Fail(why)
    BY <1>0, <1>4, DrawErrorType
  <2>. HIDE DEF why
  <2>2. why \in Errors /\ why # "PageOverflow" /\ why # "InvalidEscPos"
    BY <1>4, <2>1 DEF Errors
  <2>. QED
    BY <2>1, <2>2, FailKeeps
<1>5. CASE why = "none"
  <2>. HIDE DEF e
  <2>1. DrawnWell(c, e)
    BY <1>1, <1>2, <1>3, <1>5, ElementDrawnWell
  <2>2. /\ Advance(c, e) \in Nat /\ Drawn(c, e) \in SUBSET Nat /\ CaptionWidth(c, e) \in Nat
        /\ y <= c.height => Whole(c, Drawing(c, e))
        /\ c.dpi = 203 => /\ Estimate(e, c.strip, c.dpi) \in Nat
                          /\ Advance(c, e) <= Estimate(e, c.strip, c.dpi)
    BY <2>1 DEF DrawnWell
  <2>3. c.y \in Nat /\ c.height \in Nat /\ c.strip \in Nat
    BY <1>2 DEF Canvases
  <2>4. y \in Nat /\ y - c.y = Advance(c, e)
    BY <2>2, <2>3
  <2>. DEFINE total == SumOf(Reserved(layout, c.strip, 203))
              left == SumOf(Reserved(Tail(layout), c.strip, 203))
  <2>5. ASSUME target.kind = "preview" PROVE y <= c.height /\ c.dpi = 203 /\ y + left <= c.height
    <3>1. c.dpi = 203 /\ c.y + total <= c.height
      BY <1>0, <2>5 DEF IInv, PreviewInv
    <3>2. total = Estimate(e, c.strip, 203) + left
      BY <1>0, <1>1, <1>2, <3>1, ReservedTail DEF e
    <3>3. left \in Nat
      <4>. DEFINE rest == Tail(layout)
      <4>1. rest \in Seq(LayoutElements)
        BY <1>3
      <4>. HIDE DEF rest
      <4>2. SumOf(Reserved(rest, c.strip, 203)) \in Nat
        BY <1>1, <1>2, <3>1, <4>1, ReservedType
      <4>. QED
        BY <4>2 DEF rest
    <3>. HIDE DEF total, left
    <3>. QED
      BY <2>2, <2>3, <3>1, <3>2, <3>3
  <2>6. CASE y > c.height
    <3>1. Fail("PageOverflow")
      BY <1>0, <1>5, <2>6
    <3>2. target.kind # "preview"
      BY <2>3, <2>4, <2>5, <2>6
    <3>. QED
      BY <3>1, <3>2, FailKeeps DEF Errors
  <2>7. CASE ~(y > c.height)
    <3>1. /\ canvas' = [c EXCEPT !.y = y, !.drawn = Append(@, d)] /\ layout' = Tail(layout)
          /\ doc' = doc /\ target' = target /\ pc' = pc /\ stream' = stream /\ parser' = parser /\ pc = "draw"
      BY <1>0, <1>5, <2>7
    <3>2. y <= c.height
      BY <2>3, <2>4, <2>7
    <3>3. d = Drawing(c, e)
      BY <2>4 DEF Drawing
    <3>4. d \in [widths : SUBSET Nat, caption : Nat, height : Nat, element : LayoutElements]
      BY <1>3, <2>2, <2>4
    <3>. HIDE DEF d, y
    <3>5. Whole(c, d)
      BY <2>2, <3>2, <3>3
    <3>. DEFINE D == [widths : SUBSET Nat, caption : Nat, height : Nat, element : LayoutElements]
    <3>6. c.drawn \in Seq(D)
      BY <1>2 DEF Canvases
    <3>. HIDE DEF D
    <3>7. /\ Append(c.drawn, d) \in Seq(D) /\ Len(Append(c.drawn, d)) = Len(c.drawn) + 1
          /\ (\A i \in 1 .. Len(c.drawn) : Append(c.drawn, d)[i] = c.drawn[i])
          /\ Append(c.drawn, d)[Len(c.drawn) + 1] = d /\ Len(c.drawn) \in Nat
      BY <3>4, <3>6, AppendProperties, LenProperties DEF D
    <3>. DEFINE more == Append(c.drawn, d)
                b == canvas'
    <3>. HIDE DEF more
    <3>8. b = [c EXCEPT !.y = y, !.drawn = more]
      BY <3>1 DEF more
    <3>9. /\ b.strip = c.strip /\ b.dpi = c.dpi /\ b.height = c.height /\ b.y = y /\ b.drawn = more
      BY <1>2, <3>8 DEF Canvases
    <3>10. b \in Canvases
      <4>1. y \in Nat /\ more \in Seq(D)
        BY <2>4, <3>7 DEF more, y
      <4>2. Canvases = [width : Nat, height : Nat, dpi : 72 .. 600, strip : Nat, y : Nat, drawn : Seq(D)]
        BY DEF Canvases, D
      <4>. QED
        BY <1>2, <3>8, <4>1, <4>2
    <3>11. ReceiptOn(b, doc.width)
      BY <1>2, <3>2, <3>9 DEF ReceiptOn
    <3>12. \A i \in 1 .. Len(more) : Whole(b, more[i])
      <4>. SUFFICES ASSUME NEW i \in 1 .. Len(more) PROVE Whole(b, more[i])
        OBVIOUS
      <4>1. CASE i = Len(c.drawn) + 1
        <5>1. more[i] = d
          BY <3>7, <4>1 DEF more
        <5>. QED
          BY <3>5, <3>9, <5>1, WholeKept
      <4>2. CASE i # Len(c.drawn) + 1
        <5>1. i \in 1 .. Len(c.drawn) /\ more[i] = c.drawn[i]
          BY <3>7, <4>2 DEF more
        <5>2. Whole(c, more[i])
          BY <1>2, <5>1
        <5>. QED
          BY <3>9, <5>2, WholeKept
      <4>. QED
        BY <4>1, <4>2
    <3>13. CanvasInv'
      BY <3>1, <3>9, <3>10, <3>11, <3>12 DEF CanvasInv
    <3>14. PreviewInv'
      <4>. SUFFICES ASSUME target.kind = "preview"
                    PROVE b.dpi = 203 /\ b.y + SumOf(Reserved(Tail(layout), b.strip, 203)) <= b.height
        BY <3>1 DEF PreviewInv
      <4>. QED
        BY <2>5, <3>9
    <3>15. LongQr' = LongQr /\ Unprintable' = Unprintable
      BY <3>1 DEF LongQr, Unprintable
    <3>16. DocumentOK'
      BY <3>1 DEF IInv, DocumentOK, Stages
    <3>17. LayoutOK' /\ StreamInv'
      BY <1>3, <3>1, <3>15 DEF IInv, LayoutOK, StreamInv
    <3>18. ParserInv'
      BY <3>1, <3>15 DEF IInv, ParserInv
    <3>19. RefusalInv'
      BY <3>1, <3>15 DEF IInv, RefusalInv
    <3>. QED
      BY <3>13, <3>14, <3>16, <3>17, <3>18, <3>19 DEF IInv
  <2>. QED
    BY <2>6, <2>7
<1>. QED
  BY <1>4, <1>5

\* The page is finished; a preview is cropped to its content.
LEMMA FinishDrawKeeps == ASSUME IInv, FinishDraw PROVE IInv'
<1>1. CASE Fail("OutputTooLarge")
  BY <1>1, FailKeeps DEF Errors
<1>2. CASE ~Fail("OutputTooLarge")
  <2>. DEFINE c == canvas
              low == Smaller(Larger(c.y, 1), c.height)
              b == IF target.kind = "preview" THEN [c EXCEPT !.height = low] ELSE c
  <2>1. /\ pc = "draw" /\ pc' = "done" /\ doc' = doc /\ target' = target /\ layout' = layout
        /\ stream' = stream /\ parser' = parser /\ canvas' = b
    BY <1>2 DEF FinishDraw
  <2>2. /\ c \in Canvases /\ ReceiptOn(c, doc.width)
        /\ \A i \in 1 .. Len(c.drawn) : Whole(c, c.drawn[i])
    BY <2>1 DEF IInv, CanvasInv
  <2>3. c.y \in Nat /\ c.height \in Nat /\ c.y <= c.height
    BY <2>2 DEF Canvases, ReceiptOn
  <2>4. low \in Nat /\ c.y <= low
    BY <2>3 DEF Smaller, Larger
  <2>. HIDE DEF low
  <2>5. /\ b \in Canvases /\ b.strip = c.strip /\ b.dpi = c.dpi /\ b.y = c.y /\ b.drawn = c.drawn
        /\ b.height \in {low, c.height}
    BY <2>2, <2>4 DEF Canvases
  <2>. HIDE DEF b
  <2>6. ReceiptOn(b, doc.width)
    BY <2>2, <2>4, <2>5 DEF ReceiptOn
  <2>7. \A i \in 1 .. Len(b.drawn) : Whole(b, b.drawn[i])
    BY <2>2, <2>5, WholeKept
  <2>8. CanvasInv'
    BY <2>1, <2>5, <2>6, <2>7 DEF CanvasInv
  <2>9. LongQr' = LongQr /\ Unprintable' = Unprintable
    BY <2>1 DEF LongQr, Unprintable
  <2>10. DocumentOK'
    BY <2>1 DEF IInv, DocumentOK, Stages
  <2>11. LayoutOK' /\ StreamInv'
    BY <2>1, <2>9 DEF IInv, LayoutOK, StreamInv
  <2>12. ParserInv'
    BY <2>1, <2>9 DEF IInv, ParserInv
  <2>13. PreviewInv' /\ RefusalInv'
    BY <2>1, <2>9 DEF IInv, PreviewInv, RefusalInv
  <2>. QED
    BY <2>8, <2>10, <2>11, <2>12, <2>13 DEF IInv
<1>. QED
  BY <1>1, <1>2

\* Nothing happens.
LEMMA StutterKeeps == ASSUME IInv, UNCHANGED vars PROVE IInv'
<1>1. /\ pc' = pc /\ doc' = doc /\ target' = target /\ layout' = layout
      /\ stream' = stream /\ parser' = parser /\ canvas' = canvas
  BY DEF vars
<1>2. LongQr' = LongQr /\ Unprintable' = Unprintable
  BY <1>1 DEF LongQr, Unprintable
<1>3. DocumentOK' /\ LayoutOK' /\ StreamInv' /\ ParserInv'
  BY <1>1, <1>2 DEF IInv, DocumentOK, LayoutOK, StreamInv, ParserInv
<1>4. CanvasInv' /\ PreviewInv' /\ RefusalInv'
  BY <1>1, <1>2 DEF IInv, CanvasInv, PreviewInv, RefusalInv
<1>. QED
  BY <1>3, <1>4 DEF IInv

(* The inductive invariant, for all sections, page profiles and bounds:    *)
(* every layout, stream and interpreter is well formed, the interpreter    *)
(* meets nothing that it does not support but control characters, and the  *)
(* receipt stays on its canvas with everything that was drawn whole.       *)
THEOREM ReceiptInvariant == Spec => []IInv
<1>1. ASSUME IInv, [Next]_vars PROVE IInv'
  BY <1>1, ValidateKeeps, FromDocumentKeeps, EncodeKeeps, FinishEncodeKeeps, InterpretKeeps,
     FinishInterpretKeeps, NewCanvasKeeps, DrawKeeps, FinishDrawKeeps, StutterKeeps DEF Next
<1>. QED
  BY ReceiptInit, <1>1, PTL DEF Spec

(* The estimate of estimate_layout_height is enough for render_elements:   *)
(* no preview fails with PageOverflow.                                     *)
THEOREM PreviewNeverOverflows == Spec => []PreviewFits
<1>1. IInv => PreviewFits
  BY DEF IInv, PreviewInv, PreviewFits
<1>. QED
  BY <1>1, ReceiptInvariant, PTL

(* What a finished page shows is whole: no text without combining marks,   *)
(* divider, image, bar code or caption of an EAN or UPC code is wider than *)
(* the receipt, a QR code only where it has more modules than the receipt  *)
(* has pixels, and no image is squeezed into the rest of the page.         *)
THEOREM PageIsWhole == Spec => []DrawnWhole
<1>1. IInv => DrawnWhole
  BY DEF IInv, CanvasInv, DrawnWhole, Whole
<1>. QED
  BY <1>1, ReceiptInvariant, PTL

(* Whatever the document, the interpreter reads the stream of the encoder  *)
(* to its end, unless a QR value is over its limit, and then nothing is    *)
(* drawn, or a text or a row has a control character, where it stops.      *)
THEOREM StreamIsRead == Spec => []ReadWhole
<1>1. IInv => ReadWhole
  BY DEF IInv, RefusalInv, ReadWhole
<1>. QED
  BY <1>1, ReceiptInvariant, PTL
=============================================================================
