-------------------------- MODULE Printing_proofs --------------------------
(***************************************************************************)
(* Theorems about a submission, for all printers, documents, limits and    *)
(* bounds.                                                                 *)
(*                                                                         *)
(* The page arithmetic is made of recursive functions over 0 .. n.  The    *)
(* first parts show by induction that they are defined, what they sum up   *)
(* to and which pages they select, repeat and place.  Then come the        *)
(* history of a virtual printer, the inductive invariant of a submission,  *)
(* with a lemma for each action, and a second invariant, on the pages.     *)
(***************************************************************************)
EXTENDS Printing, Lists_proofs

-----------------------------------------------------------------------------
(* The types of the page arithmetic.                                       *)

Size  == Int \X Int
Sheet == [number : Int, width : Int, height : Int, content : Size]

\* The reading of the page marks, up to page n.
Reading(u, marked, n) ==
  u = [p \in 0 .. n |-> IF p = 0 THEN << >>
                        ELSE IF p \in marked THEN Append(u[p - 1], p) ELSE u[p - 1]]

\* It can be done.
LEMMA ReadingExists == ASSUME NEW marked, NEW n \in Nat PROVE \E u : Reading(u, marked, n)
<1>. DEFINE T == {k \in Nat : \E u : Reading(u, marked, k)}
<1>1. 0 \in T
  <2>. DEFINE u == [p \in 0 .. 0 |-> << >>]
  <2>1. Reading(u, marked, 0)
    BY DEF Reading
  <2>. QED
    BY <2>1
<1>2. ASSUME NEW k \in T PROVE k + 1 \in T
  <2>1. PICK u : Reading(u, marked, k)
    OBVIOUS
  <2>2. \A p \in 0 .. k : u[p] = IF p = 0 THEN << >>
                                 ELSE IF p \in marked THEN Append(u[p - 1], p) ELSE u[p - 1]
    BY <2>1 DEF Reading
  <2>. DEFINE v == [p \in 0 .. k + 1 |->
                      IF p = k + 1 THEN IF p \in marked THEN Append(u[k], p) ELSE u[k] ELSE u[p]]
  <2>3. \A p \in 0 .. k + 1 : v[p] = IF p = 0 THEN << >>
                                     ELSE IF p \in marked THEN Append(v[p - 1], p) ELSE v[p - 1]
    BY <2>2
  <2>4. Reading(v, marked, k + 1)
    BY <2>3 DEF Reading
  <2>. QED
    BY <2>4
<1>3. T \in SUBSET Nat
  OBVIOUS
<1>. HIDE DEF T
<1>4. T = Nat
  BY <1>1, <1>2, <1>3, EveryNatural
<1>. QED
  BY <1>4 DEF T

\* What has been read of the marked pages, up to page k.
ReadTo(s, marked, count, k) ==
  /\ s \in Seq(1 .. count)
  /\ \A i, j \in 1 .. Len(s) : i < j => s[i] < s[j]
  /\ \A p \in 1 .. count : p \in marked /\ p <= k <=> \E i \in 1 .. Len(s) : s[i] = p

\* One page more.
LEMMA ReadOn ==
  ASSUME NEW marked, NEW count \in Nat, NEW k \in Nat, k + 1 <= count, NEW s,
         ReadTo(s, marked, count, k)
  PROVE  ReadTo(IF k + 1 \in marked THEN Append(s, k + 1) ELSE s, marked, count, k + 1)
<1>1. /\ s \in Seq(1 .. count) /\ Len(s) \in Nat
      /\ \A i, j \in 1 .. Len(s) : i < j => s[i] < s[j]
      /\ \A p \in 1 .. count : p \in marked /\ p <= k <=> \E i \in 1 .. Len(s) : s[i] = p
      /\ k + 1 \in 1 .. count
  BY LenProperties DEF ReadTo
<1>2. \A i \in 1 .. Len(s) : s[i] \in 1 .. count
  BY <1>1, ElementOfSeq
<1>3. \A i \in 1 .. Len(s) : s[i] <= k
  BY <1>1, <1>2
<1>4. CASE k + 1 \notin marked
  <2>1. \A p \in 1 .. count : p \in marked => (p <= k + 1 <=> p <= k)
    BY <1>4
  <2>. QED
    BY <1>1, <1>4, <2>1 DEF ReadTo
<1>5. CASE k + 1 \in marked
  <2>. DEFINE t == Append(s, k + 1)
              n == Len(s)
  <2>1. /\ t \in Seq(1 .. count) /\ Len(t) = n + 1 /\ t[n + 1] = k + 1
        /\ \A i \in 1 .. n : t[i] = s[i]
    BY <1>1, AppendProperties
  <2>. HIDE DEF t, n
  <2>2. n \in Nat
    BY <1>1 DEF n
  <2>3. ASSUME NEW i \in 1 .. Len(t), NEW j \in 1 .. Len(t), i < j PROVE t[i] < t[j]
    <3>1. i \in 1 .. n /\ j \in 1 .. n + 1
      BY <2>1, <2>2, <2>3
    <3>2. CASE j = n + 1
      <4>1. s[i] <= k /\ s[i] \in 1 .. count
        BY <1>2, <1>3, <3>1 DEF n
      <4>. QED
        BY <2>1, <3>1, <3>2, <4>1
    <3>3. CASE j # n + 1
      <4>1. j \in 1 .. n
        BY <2>2, <3>1, <3>3
      <4>. QED
        BY <1>1, <2>1, <2>3, <3>1, <4>1 DEF n
    <3>. QED
      BY <3>2, <3>3
  <2>4. ASSUME NEW p \in 1 .. count
        PROVE  p \in marked /\ p <= k + 1 <=> \E i \in 1 .. Len(t) : t[i] = p
    <3>1. CASE p = k + 1
      BY <1>5, <2>1, <2>2, <3>1
    <3>2. CASE p # k + 1
      <4>1. p <= k + 1 <=> p <= k
        BY <3>2
      <4>2. (\E i \in 1 .. Len(t) : t[i] = p) <=> \E i \in 1 .. n : s[i] = p
        BY <2>1, <2>2, <3>2
      <4>. QED
        BY <1>1, <4>1, <4>2 DEF n
    <3>. QED
      BY <3>1, <3>2
  <2>5. ReadTo(t, marked, count, k + 1)
    BY <2>1, <2>3, <2>4 DEF ReadTo
  <2>. QED
    BY <1>5, <2>5 DEF t
<1>. QED
  BY <1>4, <1>5

\* Every page that is asked for is selected, once and in document order.
LEMMA SelectionFacts ==
  ASSUME NEW ranges, NEW count \in Nat
  PROVE  LET s == Selection(ranges, count)
         IN  /\ s \in Seq(1 .. count)
             /\ \A i, j \in 1 .. Len(s) : i < j => s[i] < s[j]
             /\ {s[i] : i \in 1 .. Len(s)} =
                  {p \in 1 .. count : \/ ranges = AllPages
                                      \/ \E i \in 1 .. Len(ranges) :
                                           p \in ranges[i][1] .. ranges[i][2]}
<1>. DEFINE marked == UNION {ranges[i][1]..ranges[i][2] : i \in 1..Len(ranges)}
            asked  == {p \in 1 .. count : \/ ranges = AllPages
                                          \/ \E i \in 1 .. Len(ranges) :
                                               p \in ranges[i][1] .. ranges[i][2]}
            u == CHOOSE r : r = [p \in 0 .. count |->
                   IF p = 0 THEN << >>
                   ELSE IF p \in marked THEN Append(r[p - 1], p) ELSE r[p - 1]]
<1>1. Selection(ranges, count) = IF ranges = AllPages THEN [i \in 1 .. count |-> i] ELSE u[count]
  BY DEF Selection
<1>2. \E r : r = [p \in 0 .. count |->
                   IF p = 0 THEN << >>
                   ELSE IF p \in marked THEN Append(r[p - 1], p) ELSE r[p - 1]]
  <2>. HIDE DEF marked
  <2>1. PICK r : Reading(r, marked, count)
    BY ReadingExists
  <2>. QED
    BY <2>1 DEF Reading
<1>3. u = [p \in 0 .. count |-> IF p = 0 THEN << >>
                   ELSE IF p \in marked THEN Append(u[p - 1], p) ELSE u[p - 1]]
  BY <1>2
<1>4. /\ ranges = AllPages => asked = 1 .. count
      /\ ranges # AllPages => asked = {p \in 1 .. count : p \in marked}
  OBVIOUS
<1>. HIDE DEF u, marked, asked
<1>5. \A p \in 0 .. count : u[p] = IF p = 0 THEN << >>
                   ELSE IF p \in marked THEN Append(u[p - 1], p) ELSE u[p - 1]
  BY <1>3
<1>. DEFINE T == {k \in Nat : k <= count => ReadTo(u[k], marked, count, k)}
<1>6. 0 \in T
  <2>1. u[0] = << >>
    BY <1>5
  <2>2. ReadTo(<< >>, marked, count, 0)
    BY DEF ReadTo
  <2>. QED
    BY <2>1, <2>2
<1>7. ASSUME NEW k \in T PROVE k + 1 \in T
  <2>. SUFFICES ASSUME k + 1 <= count PROVE ReadTo(u[k + 1], marked, count, k + 1)
    OBVIOUS
  <2>1. k \in Nat /\ ReadTo(u[k], marked, count, k) /\ k + 1 \in 0 .. count /\ (k + 1) - 1 = k
    OBVIOUS
  <2>2. u[k + 1] = IF k + 1 \in marked THEN Append(u[k], k + 1) ELSE u[k]
    BY <1>5, <2>1
  <2>. QED
    BY <2>1, <2>2, ReadOn
<1>8. T \in SUBSET Nat
  OBVIOUS
<1>. HIDE DEF T
<1>9. T = Nat
  BY <1>6, <1>7, <1>8, EveryNatural
<1>10. ReadTo(u[count], marked, count, count)
  BY <1>9 DEF T
<1>11. CASE ranges # AllPages
  <2>. DEFINE s == u[count]
  <2>. HIDE DEF s
  <2>1. ReadTo(s, marked, count, count) /\ Selection(ranges, count) = s
    BY <1>1, <1>10, <1>11 DEF s
  <2>2. /\ s \in Seq(1 .. count)
        /\ \A i, j \in 1 .. Len(s) : i < j => s[i] < s[j]
        /\ \A p \in 1 .. count : p \in marked <=> \E i \in 1 .. Len(s) : s[i] = p
    BY <2>1 DEF ReadTo
  <2>3. \A i \in 1 .. Len(s) : s[i] \in 1 .. count
    BY <2>2, ElementOfSeq
  <2>4. {s[i] : i \in 1 .. Len(s)} = asked
    BY <1>4, <1>11, <2>2, <2>3
  <2>. QED
    BY <2>1, <2>2, <2>4 DEF asked
<1>12. CASE ranges = AllPages
  <2>. DEFINE s == [i \in 1 .. count |-> i]
  <2>1. s \in Seq(1 .. count) /\ Len(s) = count /\ \A i \in 1 .. count : s[i] = i
    OBVIOUS
  <2>2. Selection(ranges, count) = s
    BY <1>1, <1>12
  <2>. HIDE DEF s
  <2>3. {s[i] : i \in 1 .. Len(s)} = asked
    BY <1>4, <1>12, <2>1
  <2>. QED
    BY <2>1, <2>2, <2>3 DEF asked
<1>. QED
  BY <1>11, <1>12

\* c copies of s, one after the other.
Copied(f, s, c) ==
  /\ Len(f) = Len(s) * c
  /\ \A i \in 1 .. Len(s) : i <= Len(f) => f[i] = s[i]
  /\ \A i \in 1 .. Len(f) : i > Len(s) => f[i] = f[i - Len(s)]
  /\ \A i \in 1 .. Len(s) : f[Len(f) - Len(s) + i] = s[i]

\* One copy more.
LEMMA OneMoreCopy ==
  ASSUME NEW S, NEW s \in Seq(S), NEW f \in Seq(S), NEW c \in Nat, c > 0, Copied(f, s, c)
  PROVE  f \o s \in Seq(S) /\ Copied(f \o s, s, c + 1)
<1>. DEFINE n == Len(s)
            m == Len(f)
            g == f \o s
<1>1. /\ n \in Nat /\ m \in Nat /\ m = n * c
      /\ \A i \in 1 .. n : i <= m => f[i] = s[i]
      /\ \A i \in 1 .. m : i > n => f[i] = f[i - n]
      /\ \A i \in 1 .. n : f[m - n + i] = s[i]
  BY LenProperties DEF Copied
<1>2. /\ g \in Seq(S) /\ Len(g) = m + n
      /\ \A i \in 1 .. m : g[i] = f[i]
      /\ \A i \in 1 .. n : g[m + i] = s[i]
  <2>1. /\ g \in Seq(S) /\ Len(g) = Len(f) + Len(s)
        /\ \A i \in 1 .. Len(f) + Len(s) : g[i] = IF i <= Len(f) THEN f[i] ELSE s[i - Len(f)]
    BY ConcatProperties
  <2>2. ASSUME NEW i \in 1 .. n PROVE g[m + i] = s[i]
    <3>1. m + i \in 1 .. m + n /\ ~(m + i <= m) /\ (m + i) - m = i
      BY <1>1
    <3>. QED
      BY <2>1, <3>1
  <2>. HIDE DEF g
  <2>. QED
    BY <1>1, <2>1, <2>2
<1>. HIDE DEF n, m, g
<1>3. n * (c + 1) = n * c + n /\ n <= m
  <2>1. n * (c + 1) = n * c + n
    BY <1>1
  <2>2. c - 1 \in Nat /\ n * (c - 1) \in Nat /\ n * c = n * (c - 1) + n
    <3>1. c - 1 \in Nat
      OBVIOUS
    <3>2. \A a \in Nat, b \in Nat : a * b \in Nat /\ a * (b + 1) = a * b + a
      OBVIOUS
    <3>3. (c - 1) + 1 = c
      OBVIOUS
    <3>. QED
      BY <1>1, <3>1, <3>2, <3>3
  <2>. QED
    BY <1>1, <2>1, <2>2
<1>4. Len(g) = n * (c + 1)
  BY <1>1, <1>2, <1>3
<1>5. \A i \in 1 .. n : i <= Len(g) => g[i] = s[i]
  <2>. SUFFICES ASSUME NEW i \in 1 .. n PROVE g[i] = s[i]
    OBVIOUS
  <2>1. n \in Nat /\ m \in Nat /\ n <= m
    BY <1>1, <1>3
  <2>2. i <= m /\ i \in 1 .. m
    BY <2>1
  <2>. QED
    BY <1>1, <1>2, <2>2
<1>6. ASSUME NEW i \in 1 .. Len(g), i > n PROVE g[i] = g[i - n]
  <2>1. CASE i <= m
    <3>1. i \in 1 .. m /\ i - n \in 1 .. m
      BY <1>1, <1>2, <1>6, <2>1
    <3>. QED
      BY <1>1, <1>2, <1>6, <3>1
  <2>2. CASE i > m
    <3>. DEFINE k == i - m
    <3>1. k \in 1 .. n /\ i = m + k /\ i - n = m - n + k /\ m - n + k \in 1 .. m
      BY <1>1, <1>2, <1>3, <2>2
    <3>. HIDE DEF k
    <3>2. g[m + k] = s[k] /\ f[m - n + k] = s[k] /\ g[m - n + k] = f[m - n + k]
      BY <1>1, <1>2, <3>1
    <3>. QED
      BY <3>1, <3>2
  <2>. QED
    BY <1>1, <1>2, <2>1, <2>2
<1>7. \A i \in 1 .. n : g[Len(g) - n + i] = s[i]
  <2>1. \A i \in 1 .. n : Len(g) - n + i = m + i
    BY <1>1, <1>2
  <2>. QED
    BY <1>2, <2>1
<1>. QED
  BY <1>2, <1>4, <1>5, <1>6, <1>7 DEF Copied, n, g

\* Flattening equal sequences.
LEMMA FlattenCopies ==
  ASSUME NEW S, NEW s \in Seq(S), NEW c \in Nat, c > 0
  PROVE  LET f == FlattenSeq([i \in 1 .. c |-> s]) IN f \in Seq(S) /\ Copied(f, s, c)
<1>. DEFINE seqs == [i \in 1 .. c |-> s]
            u == CHOOSE f : f = [i \in 1 .. c |-> IF i = 1 THEN seqs[i] ELSE f[i - 1] \o seqs[i]]
<1>1. Len(seqs) = c /\ \A i \in 1 .. c : seqs[i] = s
  OBVIOUS
<1>. HIDE DEF seqs
<1>2. FlattenSeq(seqs) = u[c]
  BY <1>1 DEF FlattenSeq
<1>3. \E f : f = [i \in 1 .. c |-> IF i = 1 THEN seqs[i] ELSE f[i - 1] \o seqs[i]]
  <2>1. PICK f : Flattening(f, seqs, c)
    BY FlatteningExists
  <2>. QED
    BY <2>1 DEF Flattening
<1>4. u = [i \in 1 .. c |-> IF i = 1 THEN seqs[i] ELSE u[i - 1] \o seqs[i]]
  BY <1>3
<1>. HIDE DEF u
<1>5. \A i \in 1 .. c : u[i] = IF i = 1 THEN seqs[i] ELSE u[i - 1] \o seqs[i]
  BY <1>4
<1>. DEFINE T == {k \in Nat : k + 1 <= c => u[k + 1] \in Seq(S) /\ Copied(u[k + 1], s, k + 1)}
<1>6. 0 \in T
  <2>1. u[1] = s
    BY <1>1, <1>5
  <2>2. Len(s) \in Nat /\ Len(s) * 1 = Len(s) /\ \A i \in 1 .. Len(s) : Len(s) - Len(s) + i = i
    BY LenProperties
  <2>3. Copied(s, s, 1)
    BY <2>2 DEF Copied
  <2>. QED
    BY <2>1, <2>3
<1>7. ASSUME NEW k \in T PROVE k + 1 \in T
  <2>. SUFFICES ASSUME k + 1 + 1 <= c
                PROVE  u[k + 1 + 1] \in Seq(S) /\ Copied(u[k + 1 + 1], s, k + 1 + 1)
    OBVIOUS
  <2>. DEFINE m == k + 1
  <2>1. m \in Nat /\ m > 0 /\ m + 1 \in 1 .. c /\ m + 1 # 1 /\ (m + 1) - 1 = m
    OBVIOUS
  <2>2. u[m] \in Seq(S) /\ Copied(u[m], s, m)
    OBVIOUS
  <2>. HIDE DEF m
  <2>3. u[m + 1] = u[m] \o s
    BY <1>1, <1>5, <2>1
  <2>4. u[m + 1] \in Seq(S) /\ Copied(u[m + 1], s, m + 1)
    BY <2>1, <2>2, <2>3, OneMoreCopy
  <2>. QED
    BY <2>4 DEF m
<1>8. T \in SUBSET Nat
  OBVIOUS
<1>. HIDE DEF T
<1>9. T = Nat
  BY <1>6, <1>7, <1>8, EveryNatural
<1>10. c - 1 \in Nat /\ c - 1 + 1 = c
  OBVIOUS
<1>11. u[c] \in Seq(S) /\ Copied(u[c], s, c)
  <2>1. c - 1 \in T
    BY <1>9, <1>10
  <2>2. u[c - 1 + 1] \in Seq(S) /\ Copied(u[c - 1 + 1], s, c - 1 + 1)
    BY <1>10, <2>1 DEF T
  <2>. QED
    BY <1>10, <2>2
<1>. QED
  BY <1>2, <1>11 DEF seqs

\* Division by a positive number.
LEMMA DivType == \A a \in Int, b \in Int : b > 0 => a \div b \in Int
  OBVIOUS

\* Rounded quotients are integers.
LEMMA QuotientType ==
  ASSUME NEW a \in Int, NEW b \in Int, b > 0
  PROVE  DivUp(a, b) \in Int /\ DivRound(a, b) \in Int
<1>1. a + b - 1 \in Int /\ 2 * a + b \in Int /\ 2 * b \in Int /\ 2 * b > 0
  OBVIOUS
<1>. QED
  BY <1>1, DivType DEF DivUp, DivRound

\* The quotients by resolutions and by bits.
LEMMA PixelsType ==
  ASSUME NEW a \in Int
  PROVE  DivRound(a, 72) \in Int /\ DivRound(a, 254) \in Int /\ DivUp(a, 8) \in Int
  BY DEF DivRound, DivUp

\* At least one pixel.
LEMMA GreaterType == ASSUME NEW a \in Int PROVE Greater(a, 1) \in Int /\ Greater(a, 1) > 0
  BY DEF Greater

\* The paper in pixels.
LEMMA TargetPixelsType ==
  ASSUME NEW s \in PrintSettings, s.paper.kind # "none", NEW dpi \in Nat
  PROVE  TargetPixels(s, dpi) \in Size
<1>. DEFINE size == PaperTenths(s.paper)
<1>1. size \in Size
  <2>1. /\ s.paper.width \in Nat /\ s.paper.height \in Nat
        /\ s.paper.kind \in {"a4", "a5", "letter", "legal", "custom"}
    BY DEF PrintSettings
  <2>2. 10 * s.paper.width \in Int /\ 10 * s.paper.height \in Int
    BY <2>1
  <2>. QED
    BY <2>1, <2>2 DEF PaperTenths, Size
<1>. HIDE DEF size
<1>2. Swapped(size) \in Size
  BY <1>1 DEF Swapped, Size
<1>. DEFINE placed == IF \/ s.orientation = "landscape" /\ size[1] < size[2]
                         \/ s.orientation = "portrait" /\ size[1] > size[2]
                      THEN Swapped(size) ELSE size
<1>3. placed \in Size
  BY <1>1, <1>2
<1>4. TargetPixels(s, dpi) = <<DivRound(placed[1] * dpi, 254), DivRound(placed[2] * dpi, 254)>>
  BY DEF TargetPixels, size
<1>. HIDE DEF placed
<1>5. placed[1] * dpi \in Int /\ placed[2] * dpi \in Int
  BY <1>3 DEF Size
<1>6. DivRound(placed[1] * dpi, 254) \in Int /\ DivRound(placed[2] * dpi, 254) \in Int
  BY <1>5, PixelsType
<1>. QED
  BY <1>4, <1>6 DEF Size

\* The page in pixels, at least one in each direction.
LEMMA PagePixelsType ==
  ASSUME NEW page \in Size, NEW s \in PrintSettings, NEW dpi \in Nat
  PROVE  /\ PagePixels(page, s, dpi) \in Size
         /\ PagePixels(page, s, dpi)[1] > 0 /\ PagePixels(page, s, dpi)[2] > 0
<1>. DEFINE a == Greater(DivRound(page[1] * dpi, 72), 1)
            b == Greater(DivRound(page[2] * dpi, 72), 1)
<1>1. page[1] * dpi \in Int /\ page[2] * dpi \in Int
  BY DEF Size
<1>2. DivRound(page[1] * dpi, 72) \in Int /\ DivRound(page[2] * dpi, 72) \in Int
  BY <1>1, PixelsType
<1>3. a \in Int /\ a > 0 /\ b \in Int /\ b > 0
  BY <1>2, GreaterType
<1>4. PagePixels(page, s, dpi) \in {<<a, b>>, <<b, a>>}
  BY DEF PagePixels, Swapped
<1>. HIDE DEF a, b
<1>. QED
  BY <1>3, <1>4 DEF Size

\* The scaling factor is a fraction.
LEMMA FactorType ==
  ASSUME NEW s \in PrintSettings, NEW size \in Size, size[1] > 0, size[2] > 0,
         NEW target \in Size
  PROVE  Factor(s, size, target) \in Size /\ Factor(s, size, target)[2] > 0
<1>1. Factor(s, size, target) \in {<<s.scaling.percent, 100>>, <<target[1], size[1]>>,
                                   <<target[2], size[2]>>, <<1, 1>>}
  BY DEF Factor
<1>2. s.scaling.percent \in Int
  BY DEF PrintSettings
<1>. QED
  BY <1>1, <1>2 DEF Size

\* A rendered page.
LEMMA RenderPageType ==
  ASSUME NEW number \in Int, NEW page \in Size, NEW s \in PrintSettings, NEW dpi \in Nat
  PROVE  RenderPage(number, page, s, dpi) \in Sheet
<1>. DEFINE size    == PagePixels(page, s, dpi)
            target  == IF s.paper.kind = "none" THEN <<0, 0>> ELSE TargetPixels(s, dpi)
            factor  == Factor(s, size, target)
            content == <<Greater(DivRound(size[1] * factor[1], factor[2]), 1),
                         Greater(DivRound(size[2] * factor[1], factor[2]), 1)>>
            canvas  == IF s.paper.kind = "none" THEN content ELSE target
<1>0. RenderPage(number, page, s, dpi) =
        [number |-> number, width |-> canvas[1], height |-> canvas[2], content |-> content]
  BY DEF RenderPage
<1>1. size \in Size /\ size[1] > 0 /\ size[2] > 0
  BY PagePixelsType
<1>2. target \in Size
  BY TargetPixelsType DEF Size
<1>. HIDE DEF size, target
<1>3. factor \in Size /\ factor[2] > 0
  BY <1>1, <1>2, FactorType
<1>. HIDE DEF factor
<1>4. size[1] * factor[1] \in Int /\ size[2] * factor[1] \in Int /\ factor[2] \in Int
  BY <1>1, <1>3 DEF Size
<1>5. /\ DivRound(size[1] * factor[1], factor[2]) \in Int
      /\ DivRound(size[2] * factor[1], factor[2]) \in Int
  BY <1>3, <1>4, QuotientType
<1>6. content \in Size
  BY <1>5, GreaterType DEF Size
<1>. HIDE DEF content
<1>7. canvas \in Size
  BY <1>2, <1>6
<1>. HIDE DEF canvas
<1>. QED
  BY <1>0, <1>6, <1>7 DEF Sheet, Size

\* The raster of a document.
LEMMA RasterizeType ==
  ASSUME NEW doc \in PdfDocuments, NEW dpi \in Nat
  PROVE  RasterizePdf(doc, dpi) \in Seq(Sheet)
<1>. DEFINE count    == Len(doc.pages)
            selected == Selection(doc.settings.ranges, count)
            pages    == SelectedPages(doc, dpi)
<1>1. /\ doc.pages \in Seq(Size) /\ doc.settings \in PrintSettings
      /\ doc.settings.copies \in Nat
  BY DEF PdfDocuments, PrintSettings, Size
<1>2. count \in Nat /\ \A i \in 1 .. count : doc.pages[i] \in Size
  BY <1>1, LenProperties, ElementOfSeq
<1>3. selected \in Seq(1 .. count)
  BY <1>2, SelectionFacts
<1>4. pages = [i \in 1 .. Len(selected) |->
                 RenderPage(selected[i], doc.pages[selected[i]], doc.settings, dpi)]
  BY DEF SelectedPages
<1>. HIDE DEF count, selected, pages
<1>5. Len(selected) \in Nat /\ \A i \in 1 .. Len(selected) : selected[i] \in 1 .. count
  BY <1>3, LenProperties, ElementOfSeq
<1>6. \A i \in 1 .. Len(selected) :
        RenderPage(selected[i], doc.pages[selected[i]], doc.settings, dpi) \in Sheet
  BY <1>1, <1>2, <1>5, RenderPageType
<1>7. pages \in Seq(Sheet)
  BY <1>4, <1>5, <1>6
<1>8. [c \in 1 .. doc.settings.copies |-> pages] \in Seq(Seq(Sheet))
  BY <1>1, <1>7
<1>9. RasterizePdf(doc, dpi) = FlattenSeq([c \in 1 .. doc.settings.copies |-> pages])
  BY DEF RasterizePdf, pages
<1>. QED
  BY <1>8, <1>9, FlattenSeqType

\* What it occupies.
LEMMA RasterBytesType ==
  ASSUME NEW pages \in Seq(Sheet) PROVE RasterBytes(pages) \in Int
<1>. DEFINE sizes == [i \in 1 .. Len(pages) |-> PageBytes(pages[i])]
<1>1. Len(pages) \in Nat /\ \A i \in 1 .. Len(pages) : pages[i] \in Sheet
  BY LenProperties, ElementOfSeq
<1>2. ASSUME NEW p \in Sheet PROVE PageBytes(p) \in Int
  <2>1. p.width \in Int /\ p.height \in Int
    BY DEF Sheet
  <2>2. DivUp(p.width, 8) \in Int
    BY <2>1, PixelsType
  <2>. QED
    BY <2>1, <2>2 DEF PageBytes
<1>3. sizes \in Seq(Int)
  BY <1>1, <1>2
<1>. QED
  BY <1>3, SumOfFacts DEF RasterBytes

-----------------------------------------------------------------------------
(* The pages that were asked for, on the paper that was asked for.         *)

\* A quotient that is rounded does not pass a whole number that the fraction does not pass.
LEMMA RoundedBelow ==
  ASSUME NEW a \in Int, NEW b \in Int, b > 0, NEW c \in Int, a <= c * b
  PROVE  DivRound(a, b) <= c
<1>. DEFINE q == DivRound(a, b)
            p == c * b
<1>1. q \in Int /\ q = (2 * a + b) \div (2 * b)
  BY QuotientType DEF DivRound
<1>. HIDE DEF q
<1>2. 2 * b > 0 /\ 2 * a + b \in Int /\ 2 * b \in Int
  OBVIOUS
<1>3. (2 * b) * q <= 2 * a + b
  <2>1. \A x \in Int, y \in Int : y > 0 => y * (x \div y) <= x
    OBVIOUS
  <2>. QED
    BY <1>1, <1>2, <2>1
<1>4. p \in Int
  OBVIOUS
<1>5. (2 * b) * q <= 2 * p + b
  BY <1>1, <1>3, <1>4
<1>6. CASE q > c
  <2>1. q >= c + 1
    BY <1>1, <1>6
  <2>2. (2 * b) * q >= (2 * b) * (c + 1)
    <3>1. \A x \in Int, y \in Int, z \in Int : z > 0 /\ x >= y => z * x >= z * y
      OBVIOUS
    <3>. QED
      BY <1>1, <1>2, <2>1, <3>1
  <2>3. (2 * b) * (c + 1) = 2 * p + 2 * b
    OBVIOUS
  <2>. QED
    BY <1>1, <1>4, <1>5, <2>2, <2>3
<1>. QED
  BY <1>1, <1>6 DEF q

\* Rounding keeps the order.
LEMMA PixelsOrdered ==
  ASSUME NEW a \in Int, NEW b \in Int, a <= b
  PROVE  DivRound(a, 254) <= DivRound(b, 254)
  BY DEF DivRound

\* The paper is turned as asked.
LEMMA TargetTurned ==
  ASSUME NEW s \in PrintSettings, s.paper.kind # "none", NEW dpi \in Nat
  PROVE  LET t == TargetPixels(s, dpi)
         IN  /\ s.orientation = "landscape" => t[1] >= t[2]
             /\ s.orientation = "portrait" => t[1] <= t[2]
<1>. DEFINE size == PaperTenths(s.paper)
<1>1. size \in Size
  <2>1. /\ s.paper.width \in Nat /\ s.paper.height \in Nat
        /\ s.paper.kind \in {"a4", "a5", "letter", "legal", "custom"}
    BY DEF PrintSettings
  <2>2. 10 * s.paper.width \in Int /\ 10 * s.paper.height \in Int
    BY <2>1
  <2>. QED
    BY <2>1, <2>2 DEF PaperTenths, Size
<1>. HIDE DEF size
<1>. DEFINE turned == \/ s.orientation = "landscape" /\ size[1] < size[2]
                      \/ s.orientation = "portrait" /\ size[1] > size[2]
            placed == IF turned THEN Swapped(size) ELSE size
            t      == TargetPixels(s, dpi)
<1>2. t = <<DivRound(placed[1] * dpi, 254), DivRound(placed[2] * dpi, 254)>>
  BY DEF TargetPixels, size
<1>3. /\ placed \in Size
      /\ s.orientation = "landscape" => placed[1] >= placed[2]
      /\ s.orientation = "portrait" => placed[1] <= placed[2]
  BY <1>1 DEF Swapped, Size
<1>. HIDE DEF placed, t
<1>4. \A a \in Int, b \in Int : a <= b => a * dpi <= b * dpi
  OBVIOUS
<1>5. /\ placed[1] \in Int /\ placed[2] \in Int
      /\ placed[1] * dpi \in Int /\ placed[2] * dpi \in Int
  BY <1>3 DEF Size
<1>6. s.orientation = "landscape" => placed[2] * dpi <= placed[1] * dpi
  BY <1>3, <1>4, <1>5
<1>7. s.orientation = "portrait" => placed[1] * dpi <= placed[2] * dpi
  BY <1>3, <1>4, <1>5
<1>8. s.orientation = "landscape" => t[1] >= t[2]
  <2>1. t[1] = DivRound(placed[1] * dpi, 254) /\ t[2] = DivRound(placed[2] * dpi, 254)
    BY <1>2
  <2>2. DivRound(placed[1] * dpi, 254) \in Int /\ DivRound(placed[2] * dpi, 254) \in Int
    BY <1>5, PixelsType
  <2>. QED
    BY <1>5, <1>6, <2>1, <2>2, PixelsOrdered
<1>9. s.orientation = "portrait" => t[1] <= t[2]
  <2>1. t[1] = DivRound(placed[1] * dpi, 254) /\ t[2] = DivRound(placed[2] * dpi, 254)
    BY <1>2
  <2>. QED
    BY <1>5, <1>7, <2>1, PixelsOrdered
<1>. QED
  BY <1>8, <1>9 DEF t

\* Fitted content stays within the paper, in both directions.
LEMMA FactorFits ==
  ASSUME NEW s, s.paper.kind # "none", s.scaling.kind = "fit",
         NEW w \in Int, NEW h \in Int, NEW a \in Int, NEW b \in Int,
         w > 0, h > 0, a > 0, b > 0
  PROVE  LET f == Factor(s, <<w, h>>, <<a, b>>)
         IN  w * f[1] <= a * f[2] /\ h * f[1] <= b * f[2] /\ f[1] \in Int /\ f[2] \in Int /\ f[2] > 0
<1>1. /\ \A x \in Int, y \in Int : x * y \in Int /\ x * y = y * x
      /\ \A x \in Int, y \in Int, z \in Int : z > 0 /\ x <= y => z * x <= z * y
      /\ \A x \in Int, y \in Int, z \in Int : z > 0 /\ z * x <= z * y => x <= y
  OBVIOUS
<1>. DEFINE f == Factor(s, <<w, h>>, <<a, b>>)
            least == IF a * h <= b * w THEN <<a, w>> ELSE <<b, h>>
<1>2. f = IF least[1] < least[2] THEN least ELSE <<1, 1>>
  BY DEF Factor
<1>3. CASE a * h <= b * w
  <2>1. f = IF a < w THEN <<a, w>> ELSE <<1, 1>>
    BY <1>2, <1>3
  <2>2. CASE a < w
    BY <1>1, <1>3, <2>1, <2>2
  <2>3. CASE w <= a
    <3>1. w * h <= a * h
      BY <1>1, <2>3
    <3>2. w * h <= w * b
      BY <1>1, <1>3, <3>1
    <3>3. h <= b
      BY <1>1, <3>2
    <3>. QED
      BY <2>1, <2>3, <3>3
  <2>. QED
    BY <2>2, <2>3
<1>4. CASE b * w <= a * h /\ ~(a * h <= b * w)
  <2>1. f = IF b < h THEN <<b, h>> ELSE <<1, 1>>
    BY <1>2, <1>4
  <2>2. CASE b < h
    BY <1>1, <1>4, <2>1, <2>2
  <2>3. CASE h <= b
    <3>1. h * w <= b * w
      BY <1>1, <2>3
    <3>2. h * w <= h * a
      BY <1>1, <1>4, <3>1
    <3>3. w <= a
      BY <1>1, <3>2
    <3>. QED
      BY <2>1, <2>3, <3>3
  <2>. QED
    BY <2>2, <2>3
<1>. QED
  BY <1>1, <1>3, <1>4

\* A page that is rendered without an error is placed as asked.
LEMMA RenderedWell ==
  ASSUME NEW number \in Int, NEW page \in Size, NEW s \in PrintSettings, NEW dpi \in Nat,
         ~PageError(page, s, dpi),
         NEW p, p = RenderPage(number, page, s, dpi), WithinBudget(<<p.width, p.height>>)
  PROVE  WellPlaced(p, s)
<1>. DEFINE size    == PagePixels(page, s, dpi)
            target  == IF s.paper.kind = "none" THEN <<0, 0>> ELSE TargetPixels(s, dpi)
            factor  == Factor(s, size, target)
            content == <<Greater(DivRound(size[1] * factor[1], factor[2]), 1),
                         Greater(DivRound(size[2] * factor[1], factor[2]), 1)>>
            canvas  == IF s.paper.kind = "none" THEN content ELSE target
<1>0. p = [number |-> number, width |-> canvas[1], height |-> canvas[2], content |-> content]
  BY DEF RenderPage
<1>1. p.width * p.height <= MaxPixelsPerPage
  BY DEF WithinBudget
<1>2. size \in Size /\ size[1] > 0 /\ size[2] > 0
  BY PagePixelsType
<1>3. CASE s.paper.kind = "none"
  BY <1>1, <1>3 DEF WellPlaced
<1>4. CASE s.paper.kind # "none"
  <2>1. /\ target = TargetPixels(s, dpi) /\ target \in Size
        /\ target[1] > 0 /\ target[2] > 0
        /\ s.orientation = "landscape" => target[1] >= target[2]
        /\ s.orientation = "portrait" => target[1] <= target[2]
    BY <1>4, TargetPixelsType, TargetTurned DEF PageError, WithinBudget
  <2>2. p.width = target[1] /\ p.height = target[2] /\ p.content = content
    BY <1>0, <1>4
  <2>. HIDE DEF size, target
  <2>3. CASE s.scaling.kind # "fit"
    BY <1>1, <2>1, <2>2, <2>3 DEF WellPlaced
  <2>4. CASE s.scaling.kind = "fit"
    <3>1. size = <<size[1], size[2]>> /\ target = <<target[1], target[2]>>
      BY <1>2, <2>1 DEF Size
    <3>2. /\ size[1] \in Int /\ size[2] \in Int /\ target[1] \in Int /\ target[2] \in Int
      BY <1>2, <2>1 DEF Size
    <3>3. /\ size[1] * factor[1] <= target[1] * factor[2]
          /\ size[2] * factor[1] <= target[2] * factor[2]
          /\ factor[1] \in Int /\ factor[2] \in Int /\ factor[2] > 0
      BY <1>2, <1>4, <2>1, <2>4, <3>1, <3>2, FactorFits
    <3>. HIDE DEF factor
    <3>4. size[1] * factor[1] \in Int /\ size[2] * factor[1] \in Int
      BY <3>2, <3>3
    <3>5. /\ DivRound(size[1] * factor[1], factor[2]) <= target[1]
          /\ DivRound(size[2] * factor[1], factor[2]) <= target[2]
      BY <3>2, <3>3, <3>4, RoundedBelow
    <3>6. content[1] <= target[1] /\ content[2] <= target[2]
      <4>1. \A q \in Int, t \in Int : q <= t /\ t > 0 => Greater(q, 1) <= t
        BY DEF Greater
      <4>2. /\ DivRound(size[1] * factor[1], factor[2]) \in Int
            /\ DivRound(size[2] * factor[1], factor[2]) \in Int
        BY <3>3, <3>4, QuotientType
      <4>. QED
        BY <2>1, <3>2, <3>5, <4>1, <4>2
    <3>. QED
      BY <1>1, <2>1, <2>2, <3>6 DEF WellPlaced
  <2>. QED
    BY <2>3, <2>4
<1>. QED
  BY <1>3, <1>4

\* What a rasterized document is printed as.
LEMMA RasterAsAsked ==
  ASSUME NEW doc \in PdfDocuments, NEW dpi \in Nat, ~RasterError(doc, dpi),
         RasterizePdf(doc, dpi) # << >>
  PROVE  PrintedAsAsked(RasterizePdf(doc, dpi), doc)
<1>. DEFINE count    == Len(doc.pages)
            copies   == doc.settings.copies
            selected == Selection(doc.settings.ranges, count)
            once     == SelectedPages(doc, dpi)
            all      == RasterizePdf(doc, dpi)
            page(i)  == RenderPage(selected[i], doc.pages[selected[i]], doc.settings, dpi)
            numbers  == [i \in 1 .. Len(all) |-> all[i].number]
<1>1. doc.pages \in Seq(Size) /\ doc.settings \in PrintSettings /\ copies \in Nat
  BY DEF PdfDocuments, PrintSettings, Size
<1>2. count \in Nat /\ \A i \in 1 .. count : doc.pages[i] \in Size
  BY <1>1, LenProperties, ElementOfSeq
<1>3. /\ selected \in Seq(1 .. count)
      /\ \A i, j \in 1 .. Len(selected) : i < j => selected[i] < selected[j]
      /\ {selected[i] : i \in 1 .. Len(selected)} = Chosen(doc)
  BY <1>2, SelectionFacts DEF Chosen
<1>4. Len(selected) \in Nat /\ \A i \in 1 .. Len(selected) : selected[i] \in 1 .. count
  BY <1>3, LenProperties, ElementOfSeq
<1>5. once = [i \in 1 .. Len(selected) |-> page(i)]
  BY DEF SelectedPages
<1>6. all = FlattenSeq([c \in 1 .. copies |-> once])
  BY DEF RasterizePdf
<1>7. \A i \in 1 .. Len(selected) : ~PageError(doc.pages[selected[i]], doc.settings, dpi)
  BY DEF RasterError
<1>8. \A i \in 1 .. Len(once) : WithinBudget(<<once[i].width, once[i].height>>)
  BY DEF RasterError
<1>9. all # << >>
  OBVIOUS
<1>. HIDE DEF count, copies, selected, once, all
<1>10. /\ Len(once) = Len(selected)
       /\ \A i \in 1 .. Len(selected) : once[i] = page(i) /\ once[i].number = selected[i]
  <2>1. Len(once) = Len(selected) /\ \A i \in 1 .. Len(selected) : once[i] = page(i)
    <3>. HIDE DEF page
    <3>. QED
      BY <1>4, <1>5
  <2>2. \A i \in 1 .. Len(selected) : page(i).number = selected[i]
    BY DEF RenderPage
  <2>. HIDE DEF page
  <2>. QED
    BY <2>1, <2>2
<1>11. ASSUME NEW i \in 1 .. Len(selected) PROVE WellPlaced(once[i], doc.settings)
  <2>1. /\ selected[i] \in Int /\ doc.pages[selected[i]] \in Size
        /\ ~PageError(doc.pages[selected[i]], doc.settings, dpi)
        /\ WithinBudget(<<once[i].width, once[i].height>>)
        /\ once[i] = RenderPage(selected[i], doc.pages[selected[i]], doc.settings, dpi)
    BY <1>2, <1>4, <1>7, <1>8, <1>10
  <2>. QED
    BY <1>1, <2>1, RenderedWell
<1>. DEFINE S == {once[i] : i \in 1 .. Len(once)}
<1>12. once \in Seq(S) /\ \A p \in S : WellPlaced(p, doc.settings)
  <2>1. \A i \in 1 .. Len(once) : once[i] \in S
    OBVIOUS
  <2>2. once = [i \in 1 .. Len(once) |-> once[i]]
    <3>. HIDE DEF page
    <3>. QED
      BY <1>5, <1>10
  <2>3. \A p \in S : WellPlaced(p, doc.settings)
    BY <1>10, <1>11
  <2>. HIDE DEF S
  <2>. QED
    BY <1>4, <1>10, <2>1, <2>2, <2>3
<1>. HIDE DEF S, page
<1>13. copies > 0
  <2>1. CASE copies = 0
    <3>1. [c \in 1 .. copies |-> once] = << >>
      BY <2>1
    <3>2. FlattenSeq(<< >>) = << >>
      BY DEF FlattenSeq
    <3>. QED
      BY <1>6, <1>9, <3>1, <3>2
  <2>. QED
    BY <1>1, <2>1
<1>14. all \in Seq(S) /\ Copied(all, once, copies)
  BY <1>1, <1>6, <1>12, <1>13, FlattenCopies
<1>15. /\ Len(all) \in Nat /\ \A i \in 1 .. Len(all) : all[i] \in S
       /\ Len(all) = Len(selected) * copies
       /\ \A i \in 1 .. Len(selected) : i <= Len(all) => all[i] = once[i]
       /\ \A i \in 1 .. Len(all) : i > Len(selected) => all[i] = all[i - Len(selected)]
  BY <1>10, <1>14, LenProperties, ElementOfSeq DEF Copied
<1>16. Len(selected) <= Len(all)
  <2>1. \A a \in Nat, b \in Nat : b > 0 => a <= a * b
    OBVIOUS
  <2>. QED
    BY <1>1, <1>4, <1>13, <1>15, <2>1
<1>17. Asked(numbers, doc)
  <2>. DEFINE n == Len(selected)
              m == Len(all)
  <2>1. /\ n \in Nat /\ m \in Nat /\ n \in 0 .. m /\ m = n * copies
        /\ \A i \in 1 .. n : all[i] = once[i] /\ once[i].number = selected[i]
        /\ \A i \in 1 .. m : i > n => all[i] = all[i - n]
        /\ \A i, j \in 1 .. n : i < j => selected[i] < selected[j]
        /\ {selected[i] : i \in 1 .. n} = Chosen(doc)
    BY <1>3, <1>4, <1>10, <1>15, <1>16
  <2>2. Len(numbers) = m /\ \A i \in 1 .. m : numbers[i] = all[i].number
    BY <2>1
  <2>. HIDE DEF numbers, n, m
  <2>3. \A i \in 1 .. n : i \in 1 .. m
    BY <2>1
  <2>4. \A i \in 1 .. n : numbers[i] = selected[i]
    BY <2>1, <2>2, <2>3
  <2>5. {numbers[i] : i \in 1 .. n} = Chosen(doc)
    BY <2>1, <2>4
  <2>6. \A i, j \in 1 .. n : i < j => numbers[i] < numbers[j]
    BY <2>1, <2>4
  <2>7. ASSUME NEW i \in 1 .. m, i > n PROVE numbers[i] = numbers[i - n]
    <3>1. i - n \in 1 .. m /\ all[i] = all[i - n]
      BY <2>1, <2>7
    <3>. QED
      BY <2>2, <3>1
  <2>. QED
    BY <2>1, <2>2, <2>5, <2>6, <2>7 DEF Asked, copies
<1>18. \A i \in 1 .. Len(all) : WellPlaced(all[i], doc.settings)
  BY <1>12, <1>15
<1>. QED
  BY <1>17, <1>18 DEF PrintedAsAsked, all

-----------------------------------------------------------------------------
(* The history of a virtual printer.                                       *)

HistoryEntry == [bytes : Int]
DeviceState  == [registered : BOOLEAN, policy : Policies, history : Seq(HistoryEntry),
                 retained : Int]

\* What one more entry adds to the total.
LEMMA TotalFacts ==
  /\ Total(<< >>) = 0
  /\ \A h \in Seq(HistoryEntry) : Total(h) \in Int
  /\ \A h \in Seq(HistoryEntry), e \in HistoryEntry : Total(Append(h, e)) = Total(h) + e.bytes
<1>. DEFINE sizes(h) == [i \in 1 .. Len(h) |-> h[i].bytes]
<1>0. \A h : Total(h) = SumOf(sizes(h))
  BY DEF Total
<1>1. ASSUME NEW h \in Seq(HistoryEntry) PROVE Len(h) \in Nat /\ sizes(h) \in Seq(Int)
  <2>1. Len(h) \in Nat /\ \A i \in 1 .. Len(h) : h[i] \in HistoryEntry
    BY LenProperties, ElementOfSeq
  <2>2. \A i \in 1 .. Len(h) : h[i].bytes \in Int
    BY <2>1 DEF HistoryEntry
  <2>. QED
    BY <2>1, <2>2
<1>2. sizes(<< >>) = << >>
  OBVIOUS
<1>3. ASSUME NEW h \in Seq(HistoryEntry), NEW e \in HistoryEntry
      PROVE  sizes(Append(h, e)) = Append(sizes(h), e.bytes) /\ e.bytes \in Int
  <2>1. /\ Len(Append(h, e)) = Len(h) + 1 /\ Append(h, e)[Len(h) + 1] = e
        /\ \A i \in 1 .. Len(h) : Append(h, e)[i] = h[i]
    BY AppendProperties
  <2>2. e.bytes \in Int
    BY DEF HistoryEntry
  <2>3. sizes(h) \in Seq(Int) /\ Len(h) \in Nat /\ Len(sizes(h)) = Len(h)
    BY <1>1
  <2>4. Append(sizes(h), e.bytes) =
          [i \in 1 .. Len(h) + 1 |-> IF i = Len(h) + 1 THEN e.bytes ELSE h[i].bytes]
    BY <2>2, <2>3
  <2>5. sizes(Append(h, e)) =
          [i \in 1 .. Len(h) + 1 |-> IF i = Len(h) + 1 THEN e.bytes ELSE h[i].bytes]
    BY <2>1, <2>3
  <2>. QED
    BY <2>2, <2>4, <2>5
<1>. HIDE DEF sizes
<1>. QED
  BY <1>0, <1>1, <1>2, <1>3, SumOfFacts

\* What eviction leaves makes room for the new entry, or is nothing.
LEMMA EvictedFacts ==
  ASSUME NEW h \in Seq(HistoryEntry), NEW size \in Int
  PROVE  /\ Evicted(h, size) \in Seq(HistoryEntry)
         /\ \/ Evicted(h, size) = << >>
            \/ /\ Len(Evicted(h, size)) < MaxHistory
               /\ Total(Evicted(h, size)) + size <= MaxHistoryBytes
<1>. DEFINE n       == Len(h)
            fits(k) == /\ n - k < MaxHistory
                       /\ Total(SubSeq(h, k + 1, n)) + size <= MaxHistoryBytes
            K       == {k \in 0 .. n : k = n \/ fits(k)}
            m       == Min(K)
<1>1. n \in Nat
  BY LenProperties
<1>2. Evicted(h, size) = SubSeq(h, m + 1, n)
  BY DEF Evicted
<1>3. m \in K
  <2>1. K \in SUBSET Nat /\ K # {}
    BY <1>1
  <2>. HIDE DEF K
  <2>2. PICK x \in K : \A y \in K : x <= y
    BY <2>1, LeastNatural
  <2>. QED
    BY <2>2 DEF Min
<1>4. m \in 0 .. n /\ (m = n \/ fits(m))
  BY <1>3
<1>. HIDE DEF m, K
<1>5. SubSeq(h, m + 1, n) \in Seq(HistoryEntry) /\ Len(SubSeq(h, m + 1, n)) = n - m
  <2>1. m + 1 \in 1 .. n + 1 /\ n \in m .. n
    BY <1>1, <1>4
  <2>. QED
    BY <1>1, <1>4, <2>1, SubSeqProperties
<1>6. CASE m = n
  <2>1. Len(SubSeq(h, m + 1, n)) = 0
    BY <1>1, <1>5, <1>6
  <2>2. SubSeq(h, m + 1, n) = << >>
    BY <1>5, <2>1, EmptySeq
  <2>. QED
    BY <1>2, <1>5, <2>2
<1>7. CASE fits(m)
  BY <1>2, <1>5, <1>7
<1>. QED
  BY <1>4, <1>6, <1>7

\* The accounting of one virtual printer.
Accounted(dev) ==
  /\ dev.retained = Total(dev.history)
  /\ Len(dev.history) <= MaxHistory
  /\ Len(dev.history) > 1 => dev.retained <= MaxHistoryBytes

\* record keeps it, although it evicts first and adds later.
LEMMA RecordAccounts ==
  ASSUME NEW dev \in DeviceState, NEW e \in HistoryEntry, Accounted(dev)
  PROVE  /\ Record(dev, e) \in DeviceState /\ Accounted(Record(dev, e))
         /\ Record(dev, e).policy = dev.policy
<1>. DEFINE kept     == Evicted(dev.history, e.bytes)
            history  == Append(kept, e)
            retained == dev.retained - (Total(dev.history) - Total(kept)) + e.bytes
            new      == [dev EXCEPT !.history = history, !.retained = retained]
<1>0. Record(dev, e) = new
  BY DEF Record
<1>1. dev.history \in Seq(HistoryEntry) /\ dev.retained \in Int /\ e.bytes \in Int
  BY DEF DeviceState, HistoryEntry
<1>2. /\ kept \in Seq(HistoryEntry)
      /\ \/ kept = << >>
         \/ Len(kept) < MaxHistory /\ Total(kept) + e.bytes <= MaxHistoryBytes
  <2>. DEFINE h == dev.history
              b == e.bytes
  <2>1. h \in Seq(HistoryEntry) /\ b \in Int
    BY <1>1
  <2>. HIDE DEF h, b
  <2>2. /\ Evicted(h, b) \in Seq(HistoryEntry)
        /\ \/ Evicted(h, b) = << >>
           \/ /\ Len(Evicted(h, b)) < MaxHistory
              /\ Total(Evicted(h, b)) + b <= MaxHistoryBytes
    BY <2>1, EvictedFacts
  <2>. QED
    BY <2>2 DEF h, b
<1>. HIDE DEF kept
<1>3. /\ history \in Seq(HistoryEntry) /\ Len(history) = Len(kept) + 1 /\ Len(kept) \in Nat
      /\ Total(history) = Total(kept) + e.bytes
      /\ Total(kept) \in Int /\ Total(dev.history) \in Int
  BY <1>1, <1>2, AppendProperties, LenProperties, TotalFacts
<1>4. retained = Total(kept) + e.bytes /\ retained \in Int
  BY <1>1, <1>3 DEF Accounted
<1>5. kept = << >> => Len(kept) = 0
  OBVIOUS
<1>. HIDE DEF history, retained
<1>6. /\ new \in DeviceState /\ new.history = history /\ new.retained = retained
      /\ new.policy = dev.policy
  BY <1>3, <1>4 DEF DeviceState
<1>. HIDE DEF new
<1>7. Len(history) <= MaxHistory /\ (Len(history) > 1 => retained <= MaxHistoryBytes)
  <2>1. MaxHistory \in Nat /\ MaxHistory >= 1
    BY PrintingAssumption
  <2>. QED
    BY <1>2, <1>3, <1>4, <1>5, <2>1
<1>. QED
  BY <1>0, <1>3, <1>4, <1>6, <1>7 DEF Accounted

-----------------------------------------------------------------------------
(* The inductive invariant.                                                *)

\* How a submission can end; the refusals of a wrong route are not among them.
Errors ==
  {"none", "NotFound", "Disabled", "ModeUnsupported", "RenderFailed", "FormatUnsupported",
   "Authorization", "Refused", "Gone", "FetchFailed", "LengthMismatch", "IntegrityMismatch",
   "InvalidDocument", "PdfLimitExceeded", "InvalidPdf", "EncryptedPdf", "InvalidPageRange",
   "PrinterDisabled", "UnsupportedOption", "DocumentTooLarge", "Connectivity",
   "BackendUnavailable", "Rejected", "Timeout", "DocumentRender", "Cancelled",
   "SimulatedFailure"}

WorkerState ==
  [stage : {"none", "raw", "raster", "open", "startDocument", "page", "endDocument", "abort",
            "close", "gone"},
   todo : Seq(Sheet), drawn : Seq(Sheet), open : BOOLEAN,
   document : {"none", "started", "ended", "aborted"}, handed : Handed,
   result : {"none", "Connectivity", "Rejected", "Timeout", "DocumentRender"}]

\* The calls of print_with_api come in order, whatever fails in between.
WorkerOK(w) ==
  /\ w.open <=> w.stage \in {"startDocument", "page", "endDocument", "abort", "close"}
  /\ w.document = "started" <=> w.stage \in {"page", "endDocument", "abort"}
  /\ w.document = "ended" => w.stage \in {"close", "gone"} /\ w.todo = << >> /\ w.result = "none"
  /\ w.document = "aborted" => w.stage \in {"close", "gone"} /\ w.result = "Rejected"
  /\ w.stage \in {"startDocument", "page"} => w.todo # << >>
  /\ w.stage = "endDocument" => w.todo = << >>
  /\ w.stage \in {"none", "raw", "raster", "open", "startDocument"} =>
       w.document = "none" /\ w.result = "none"
  /\ w.stage \in {"page", "endDocument"} => w.result = "none"
  /\ w.stage = "abort" => w.result = "Rejected"
  /\ w.stage = "close" /\ w.document # "ended" => w.result = "Rejected"
  /\ w.drawn # << >> => w.document # "none"
  /\ w.handed # "none" => w.stage \in {"page", "endDocument", "abort", "close", "gone"}
  /\ w.stage \in {"close", "gone"} /\ w.result = "none" => w.handed = "whole"
  /\ w.stage = "gone" /\ w.handed # "none" => w.result \in {"none", "Rejected"}

NoPrinter  == [connection |-> "none"]
NoDocument == [kind |-> "none"]
PdfsHere   == {d \in Documents : d.kind = "pdf"}

Preparation == {"resolve", "render", "route", "fetch", "validate", "claim", "submit"}
Network     == {"connect", "write"}
Queue       == {"spawn", "lp", "worker"}
Virtual     == {"device", "preview", "delay", "record"}

JobState ==
  [printer : Printers \cup {NoPrinter}, doc : Documents \cup {NoDocument}, local : BOOLEAN,
   pc : Preparation \cup Network \cup Queue \cup Virtual \cup {"done"},
   kind : {"none", "escpos", "raster", "pdf"}, bytes : Nat, exact : BOOLEAN,
   lp : {"none", "running", "failed", "exited"}, worker : WorkerState,
   simulation : Policies \cup {"none"}, preview : Seq(Sheet), orphan : BOOLEAN,
   cancelled : BOOLEAN, handed : Handed, error : Errors,
   told : {"none", "Submitted", "Failed", "Cancelled"}]

\* What the preparation has established when it is left: the route of a PDF or
\* the render target of a receipt.
Routed(j) ==
  \/ j.kind = "pdf" /\ PdfRoute(j.printer) /\ j.doc \in PdfsHere
  \/ j.kind \in {"escpos", "raster"} /\ j.kind = RenderTarget(j.printer)

\* What holds of a submission that stands at pc.
HoldsAt(j, pc) ==
  /\ pc # "done" => j.printer \in Printers /\ j.doc \in Documents
  /\ pc \notin {"done", "resolve"} => j.printer.enabled
  /\ pc \in {"route", "fetch", "validate"} => j.doc \in PdfsHere
  /\ pc \in {"fetch", "validate"} => PdfRoute(j.printer)
  /\ pc \in {"claim", "submit"} \cup Network \cup Queue \cup Virtual => Routed(j)
  /\ pc \in Network => j.printer.connection = "network"
  /\ pc \in Queue => j.printer.connection = "queue"
  /\ pc \in Virtual => j.printer.connection = "virtual"
  /\ pc \in {"preview", "delay", "record"} => j.simulation \in Policies

PlaceOK(j) == HoldsAt(j, j.pc) /\ (j.worker.stage = "raster" => j.doc \in PdfsHere)

\* The failures after which the backend may have something.
Uncertain == {"Timeout", "Connectivity", "Rejected"}

\* Where the document is.
PaperOK(j) ==
  /\ j.exact
  /\ j.handed # "none" => j.pc \in {"write", "lp", "done"}
  /\ j.pc = "lp" /\ j.lp = "exited" => j.handed = "whole"
  /\ j.pc = "done" =>
       /\ j.told = "Submitted" => j.handed = "whole"
       /\ j.handed # "none" =>
            \/ j.told = "Submitted"
            \/ j.printer.connection # "virtual" /\ (j.told = "Cancelled" \/ j.error \in Uncertain)

JobOK(j) == j \in JobState /\ PlaceOK(j) /\ PaperOK(j) /\ WorkerOK(j.worker)

\* A worker that goes on alone, with its document.
Outliving ==
  {x \in [worker : WorkerState, doc : Documents] :
     WorkerOK(x.worker) /\ (x.worker.stage = "raster" => x.doc \in PdfsHere)}

DetachedOK == detached \in Seq(Outliving)

DeviceOK == device \in DeviceState /\ Accounted(device)

Invariant == JobOK(job) /\ DetachedOK /\ DeviceOK

-----------------------------------------------------------------------------
(* The print worker.                                                       *)

\* The pages a PDF is printed as.
LEMMA RasterPages ==
  ASSUME NEW d \in PdfsHere, NEW dpi \in {DriverPdfDpi, VirtualPreviewDpi}
  PROVE  Raster[d][dpi].pages \in Seq(Sheet)
<1>1. d \in PdfDocuments
  BY PrintingAssumption DEF PdfsHere
<1>2. dpi \in Nat
  BY DEF DriverPdfDpi, VirtualPreviewDpi
<1>3. Raster[d][dpi].pages = RasterizePdf(d, dpi)
  BY DEF Raster, PdfsHere
<1>. QED
  BY <1>1, <1>2, <1>3, RasterizeType

\* Whatever the driver answers, the worker stays in order.
LEMMA WorkerStepsOK ==
  ASSUME NEW w \in WorkerState, WorkerOK(w), NEW d, w.stage = "raster" => d \in PdfsHere,
         NEW v \in WorkerSteps(w, d)
  PROVE  v \in WorkerState /\ WorkerOK(v) /\ v.stage # "raster"
<1>0. /\ w.todo \in Seq(Sheet) /\ w.drawn \in Seq(Sheet)
      /\ w.stage \in {"none", "raw", "raster", "open", "startDocument", "page", "endDocument",
                      "abort", "close", "gone"}
  BY DEF WorkerState
<1>1. ASSUME NEW result \in {"Connectivity", "Rejected", "Timeout", "DocumentRender"},
             w.stage \in {"raw", "raster", "open"}, v = Gone(w, result)
      PROVE  v \in WorkerState /\ WorkerOK(v) /\ v.stage # "raster"
  BY <1>1 DEF WorkerState, WorkerOK, Gone
<1>2. CASE w.stage = "raw"
  <2>1. \/ v \in {Gone(w, "Connectivity"), [Gone(w, "none") EXCEPT !.handed = "whole"]}
        \/ \E h \in Handed : v = [Gone(w, "Rejected") EXCEPT !.handed = h]
    BY <1>2 DEF WorkerSteps, PrintedRaw
  <2>2. CASE v = [Gone(w, "none") EXCEPT !.handed = "whole"]
    BY <1>2, <2>2 DEF WorkerState, WorkerOK, Gone, Handed
  <2>3. CASE \E h \in Handed : v = [Gone(w, "Rejected") EXCEPT !.handed = h]
    BY <1>2, <2>3 DEF WorkerState, WorkerOK, Gone
  <2>. QED
    BY <1>1, <1>2, <2>1, <2>2, <2>3
<1>3. CASE w.stage = "raster"
  <2>. DEFINE pages == Raster[d][DriverPdfDpi].pages
  <2>1. \/ v \in {Gone(w, "Timeout"), Gone(w, "DocumentRender")}
        \/ v = [w EXCEPT !.stage = "open", !.todo = pages]
    BY <1>3 DEF WorkerSteps
  <2>2. pages \in Seq(Sheet)
    BY <1>3, RasterPages
  <2>. HIDE DEF pages
  <2>3. CASE v = [w EXCEPT !.stage = "open", !.todo = pages]
    BY <1>3, <2>2, <2>3 DEF WorkerState, WorkerOK
  <2>. QED
    BY <1>1, <1>3, <2>1, <2>3
<1>4. CASE w.stage = "open"
  <2>1. \/ v = Gone(w, "Rejected")
        \/ w.todo # << >> /\ v = [w EXCEPT !.stage = "startDocument", !.open = TRUE]
    BY <1>4 DEF WorkerSteps
  <2>2. CASE w.todo # << >> /\ v = [w EXCEPT !.stage = "startDocument", !.open = TRUE]
    BY <1>4, <2>2 DEF WorkerState, WorkerOK
  <2>. QED
    BY <1>1, <1>4, <2>1, <2>2
<1>5. CASE w.stage = "startDocument"
  <2>1. v \in {[w EXCEPT !.stage = "close", !.result = "Rejected"],
               [w EXCEPT !.stage = "page", !.document = "started"]}
    BY <1>5 DEF WorkerSteps
  <2>. QED
    BY <1>5, <2>1 DEF WorkerState, WorkerOK
<1>6. CASE w.stage \in {"page", "endDocument"} /\ v = GdiFailed(w)
  BY <1>6 DEF WorkerState, WorkerOK, GdiFailed
<1>7. CASE w.stage = "page"
  <2>. DEFINE drawn == Append(w.drawn, Head(w.todo))
              rest  == Tail(w.todo)
              next  == IF Len(w.todo) = 1 THEN "endDocument" ELSE "page"
  <2>1. w.todo # << >>
    BY <1>7 DEF WorkerOK
  <2>2. /\ drawn \in Seq(Sheet) /\ rest \in Seq(Sheet)
        /\ Len(w.todo) \in Nat /\ Len(w.todo) # 0 /\ Len(rest) = Len(w.todo) - 1
    BY <1>0, <2>1, HeadTailProperties, AppendProperties, LenProperties, EmptySeq
  <2>3. next = "endDocument" <=> rest = << >>
    <3>1. next = "endDocument" <=> Len(w.todo) = 1
      OBVIOUS
    <3>. DEFINE len == Len(w.todo)
    <3>. HIDE DEF rest, next, len
    <3>2. rest = << >> => Len(rest) = 0
      OBVIOUS
    <3>3. Len(rest) = 0 => rest = << >>
      BY <2>2, EmptySeq
    <3>4. len \in Nat /\ Len(rest) = len - 1 /\ (next = "endDocument" <=> len = 1)
      BY <2>2, <3>1 DEF len
    <3>. QED
      BY <3>2, <3>3, <3>4
  <2>4. next \in {"endDocument", "page"}
    OBVIOUS
  <2>5. v \in {GdiFailed(w),
               [[w EXCEPT !.drawn = drawn, !.handed = "part"]
                EXCEPT !.stage = "abort", !.result = "Rejected"],
               [[w EXCEPT !.drawn = drawn, !.handed = "part"] EXCEPT !.todo = rest, !.stage = next]}
    <3>1. v \in {GdiFailed(w), GdiFailed(Drawn(w)), PageDone(w)}
      BY <1>7 DEF WorkerSteps
    <3>2. /\ Drawn(w) = [w EXCEPT !.drawn = drawn, !.handed = "part"]
          /\ Drawn(w).todo = w.todo
      BY DEF Drawn, WorkerState
    <3>3. PageDone(w) = [Drawn(w) EXCEPT !.todo = rest, !.stage = next]
      BY <3>2 DEF PageDone
    <3>4. GdiFailed(Drawn(w)) = [Drawn(w) EXCEPT !.stage = "abort", !.result = "Rejected"]
      BY DEF GdiFailed
    <3>. HIDE DEF drawn, rest, next
    <3>. QED
      BY <3>1, <3>2, <3>3, <3>4
  <2>. HIDE DEF drawn, rest, next
  <2>6. CASE v = [[w EXCEPT !.drawn = drawn, !.handed = "part"]
                  EXCEPT !.stage = "abort", !.result = "Rejected"]
    BY <1>7, <2>2, <2>6 DEF WorkerState, WorkerOK, Handed
  <2>7. CASE v = [[w EXCEPT !.drawn = drawn, !.handed = "part"]
                  EXCEPT !.todo = rest, !.stage = next]
    BY <1>7, <2>2, <2>3, <2>4, <2>7 DEF WorkerState, WorkerOK, Handed
  <2>. QED
    BY <1>6, <1>7, <2>5, <2>6, <2>7
<1>8. CASE w.stage = "endDocument"
  <2>1. v \in {GdiFailed(w), DocumentEnded(w)}
    BY <1>8 DEF WorkerSteps
  <2>2. CASE v = DocumentEnded(w)
    BY <1>8, <2>2 DEF WorkerState, WorkerOK, DocumentEnded, Handed
  <2>. QED
    BY <1>6, <1>8, <2>1, <2>2
<1>9. CASE w.stage = "abort"
  <2>1. v = [w EXCEPT !.stage = "close", !.document = "aborted"]
    BY <1>9 DEF WorkerSteps
  <2>. QED
    BY <1>9, <2>1 DEF WorkerState, WorkerOK
<1>10. CASE w.stage = "close"
  <2>1. v = [w EXCEPT !.stage = "gone", !.open = FALSE]
    BY <1>10 DEF WorkerSteps
  <2>. QED
    BY <1>10, <2>1 DEF WorkerState, WorkerOK
<1>11. CASE w.stage \in {"none", "gone"}
  BY <1>11 DEF WorkerSteps
<1>. QED
  BY <1>0, <1>2, <1>3, <1>4, <1>5, <1>7, <1>8, <1>9, <1>10, <1>11

-----------------------------------------------------------------------------
(* The submission, step by step.                                           *)

LEMMA NoWorkerOK == NoWorker \in WorkerState /\ WorkerOK(NoWorker)
  BY DEF NoWorker, WorkerState, WorkerOK, Handed

LEMMA NoJobState == NoJob \in JobState
<1>1. << >> \in Seq(Sheet)
  OBVIOUS
<1>. QED
  BY <1>1, NoWorkerOK DEF NoJob, JobState, NoPrinter, NoDocument, Errors, Handed

\* The end of a submission: what it tells must fit what was handed over.
LEMMA ReturnedOK ==
  ASSUME NEW j \in JobState, j.exact, NEW error \in Errors,
         NEW told \in {"none", "Submitted", "Failed", "Cancelled"},
         told = "Submitted" => j.handed = "whole",
         j.handed # "none" =>
           \/ told = "Submitted"
           \/ j.printer.connection # "virtual" /\ (told = "Cancelled" \/ error \in Uncertain)
  PROVE  JobOK(Returned(j, error, told))
<1>. DEFINE r == Returned(j, error, told)
<1>1. /\ r = [NoJob EXCEPT !.printer = j.printer, !.local = j.local, !.exact = j.exact,
                           !.handed = j.handed, !.error = error, !.told = told]
  BY DEF Returned
<1>2. /\ j.printer \in Printers \cup {NoPrinter} /\ j.exact = TRUE /\ j.handed \in Handed
      /\ j.local \in BOOLEAN
  BY DEF JobState
<1>3. r \in JobState
  <2>. DEFINE p == j.printer
              l == j.local
              h == j.handed
              S1 == Printers \cup {NoPrinter}
              S2 == Documents \cup {NoDocument}
              S3 == Preparation \cup Network \cup Queue \cup Virtual \cup {"done"}
              S4 == {"none", "escpos", "raster", "pdf"}
              S5 == {"none", "running", "failed", "exited"}
              S6 == Policies \cup {"none"}
              S7 == Seq(Sheet)
              S8 == {"none", "Submitted", "Failed", "Cancelled"}
              S == [printer : S1, doc : S2, local : BOOLEAN, pc : S3, kind : S4, bytes : Nat,
                    exact : BOOLEAN, lp : S5, worker : WorkerState, simulation : S6,
                    preview : S7, orphan : BOOLEAN, cancelled : BOOLEAN, handed : Handed,
                    error : Errors, told : S8]
  <2>1. p \in S1 /\ l \in BOOLEAN /\ h \in Handed /\ told \in S8 /\ JobState = S
    BY <1>2 DEF JobState
  <2>2. r = [NoJob EXCEPT !.printer = p, !.local = l, !.exact = TRUE, !.handed = h,
                          !.error = error, !.told = told]
    BY <1>1, <1>2
  <2>3. NoJob \in S
    BY <2>1, NoJobState
  <2>. HIDE DEF p, l, h, r, S1, S2, S3, S4, S5, S6, S7, S8
  <2>4. [NoJob EXCEPT !.printer = p, !.local = l, !.exact = TRUE, !.handed = h,
                      !.error = error, !.told = told] \in S
    BY ONLY <2>1, <2>3, error \in Errors
  <2>. HIDE DEF S
  <2>5. r \in S
    BY <2>2, <2>4, Zenon
  <2>. QED
    BY <2>1, <2>5
<1>4. /\ r.printer = j.printer /\ r.exact /\ r.handed = j.handed /\ r.error = error
      /\ r.told = told /\ r.worker = NoWorker /\ r.pc = "done"
  BY <1>1 DEF NoJob
<1>. HIDE DEF r
<1>5. PlaceOK(r)
  BY <1>4 DEF PlaceOK, HoldsAt, Network, Queue, Virtual, NoWorker
<1>6. PaperOK(r)
  BY <1>4 DEF PaperOK
<1>7. JobOK(r)
  BY <1>3, <1>4, <1>5, <1>6, NoWorkerOK DEF JobOK
<1>. QED
  BY <1>7 DEF r

\* A refusal before the claim.
LEMMA RefusedOK ==
  ASSUME NEW j \in JobState, j.exact, j.handed = "none", NEW error \in Errors
  PROVE  JobOK(Refused(j, error))
<1>. DEFINE told == IF j.cancelled THEN "Cancelled" ELSE "Failed"
<1>1. told \in {"none", "Submitted", "Failed", "Cancelled"} /\ told # "Submitted"
  OBVIOUS
<1>2. Refused(j, error) = Returned(j, error, told)
  BY DEF Refused
<1>. HIDE DEF told
<1>. QED
  BY <1>1, <1>2, ReturnedOK

\* The answer of the registry.
LEMMA SettledOK ==
  ASSUME NEW j \in JobState, j.exact, NEW error \in Errors,
         error = "none" => j.handed = "whole",
         error # "none" /\ j.handed # "none" =>
           j.printer.connection # "virtual" /\ error \in Uncertain \cup {"Cancelled"}
  PROVE  JobOK(Settled(j, error))
<1>. DEFINE told == IF error = "none" THEN "Submitted"
                    ELSE IF error = "Cancelled" \/ j.cancelled THEN "Cancelled" ELSE "Failed"
<1>1. Settled(j, error) = Returned(j, error, told)
  BY DEF Settled
<1>2. /\ told \in {"none", "Submitted", "Failed", "Cancelled"}
      /\ told = "Submitted" => error = "none"
      /\ error = "none" => told = "Submitted"
      /\ error = "Cancelled" => told = "Cancelled"
  OBVIOUS
<1>. HIDE DEF told
<1>. QED
  BY <1>1, <1>2, ReturnedOK

\* What a step leaves alone stays in order.
LEMMA JobStep ==
  ASSUME Invariant, JobOK(job'), UNCHANGED <<detached, device>>
  PROVE  Invariant'
<1>1. DetachedOK'
  BY DEF Invariant, DetachedOK
<1>2. DeviceOK'
  BY DEF Invariant, DeviceOK, Accounted
<1>. QED
  BY <1>1, <1>2 DEF Invariant

LEMMA UpdateStep ==
  ASSUME Invariant, NEW j, Update(j), JobOK(j)
  PROVE  Invariant'
<1>1. job' = j /\ UNCHANGED <<detached, device>>
  BY DEF Update
<1>. QED
  BY <1>1, JobStep

\* What the invariant says of a submission before anything left the agent.
LEMMA Preparing ==
  ASSUME Invariant
  PROVE  /\ job \in JobState /\ job.exact /\ PlaceOK(job) /\ PaperOK(job)
         /\ WorkerOK(job.worker) /\ job.worker \in WorkerState
         /\ job.pc \notin {"write", "lp", "done"} => job.handed = "none"
<1>1. job \in JobState /\ PlaceOK(job) /\ PaperOK(job) /\ WorkerOK(job.worker)
  BY DEF Invariant, JobOK
<1>2. job.handed \in Handed /\ job.worker \in WorkerState
  BY <1>1 DEF JobState
<1>. QED
  BY <1>1, <1>2 DEF PaperOK

LEMMA BeginStep ==
  ASSUME Invariant, NEW p \in Printers, NEW d \in Documents, NEW local \in BOOLEAN,
         Begin(p, d, local)
  PROVE  Invariant'
<1>. DEFINE r == [NoJob EXCEPT !.printer = p, !.doc = d, !.local = local, !.pc = "resolve"]
<1>1. job' = r /\ UNCHANGED <<detached, device>>
  BY DEF Begin
<1>2. r \in JobState
  BY NoJobState DEF JobState, Preparation
<1>3. /\ r.printer = p /\ r.doc = d /\ r.pc = "resolve" /\ r.worker = NoWorker /\ r.exact
      /\ r.handed = "none"
  BY DEF NoJob
<1>. HIDE DEF r
<1>4. PlaceOK(r)
  BY <1>3 DEF PlaceOK, HoldsAt, NoWorker, Network, Queue, Virtual
<1>5. PaperOK(r)
  BY <1>3 DEF PaperOK
<1>. QED
  BY <1>1, <1>2, <1>3, <1>4, <1>5, NoWorkerOK, JobStep DEF JobOK

LEMMA CancelStep ==
  ASSUME Invariant, Cancel
  PROVE  Invariant'
<1>. DEFINE r == [job EXCEPT !.cancelled = TRUE]
<1>1. Update(r)
  BY DEF Cancel
<1>2. job.pc # "done"
  BY DEF Cancel
<1>3. r \in JobState
  BY Preparing DEF JobState
<1>4. /\ r.printer = job.printer /\ r.doc = job.doc /\ r.pc = job.pc /\ r.kind = job.kind
      /\ r.exact = job.exact /\ r.lp = job.lp /\ r.worker = job.worker
      /\ r.simulation = job.simulation /\ r.handed = job.handed
  BY Preparing DEF JobState
<1>. HIDE DEF r
<1>5. PlaceOK(r)
  BY <1>4, Preparing DEF PlaceOK, HoldsAt, Routed
<1>6. PaperOK(r)
  BY <1>2, <1>4, Preparing DEF PaperOK
<1>. QED
  BY <1>1, <1>3, <1>4, <1>5, <1>6, Preparing, UpdateStep DEF JobOK
-----------------------------------------------------------------------------
(* Preparation, claim and admission.                                       *)

Places == Preparation \cup Network \cup Queue \cup Virtual \cup {"done"}

\* A step that only moves the submission on.
LEMMA Moved ==
  ASSUME Invariant, NEW x \in Places \ {"lp", "done"}, job.handed = "none", HoldsAt(job, x)
  PROVE  JobOK([job EXCEPT !.pc = x])
<1>. DEFINE r == [job EXCEPT !.pc = x]
<1>1. r \in JobState
  BY Preparing DEF JobState, Places
<1>2. /\ r.printer = job.printer /\ r.doc = job.doc /\ r.pc = x /\ r.kind = job.kind
      /\ r.exact = job.exact /\ r.worker = job.worker /\ r.simulation = job.simulation
      /\ r.handed = job.handed
  BY Preparing DEF JobState
<1>. HIDE DEF r
<1>3. HoldsAt(r, x)
  BY <1>2 DEF HoldsAt, Routed
<1>4. PlaceOK(r)
  BY <1>2, <1>3, Preparing DEF PlaceOK
<1>5. PaperOK(r)
  BY <1>2, Preparing DEF PaperOK
<1>6. JobOK(r)
  BY <1>1, <1>2, <1>4, <1>5, Preparing DEF JobOK
<1>. QED
  BY <1>6 DEF r

\* The refusal of a step of the preparation.
LEMMA PreparationRefused ==
  ASSUME Invariant, job.pc \in Preparation, NEW error \in Errors
  PROVE  JobOK(Refused(job, error))
<1>1. job \in JobState /\ job.exact /\ job.handed = "none"
  BY Preparing DEF Preparation
<1>. QED
  BY <1>1, RefusedOK

LEMMA ResolveStep ==
  ASSUME Invariant, Resolve
  PROVE  Invariant'
<1>. DEFINE x == IF job.doc.kind = "pdf" THEN "route" ELSE "render"
<1>1. job.pc = "resolve"
  BY DEF Resolve
<1>2. \/ Update(Refused(job, "NotFound"))
      \/ Update(Refused(job, "Disabled"))
      \/ job.printer.enabled /\ Update([job EXCEPT !.pc = x])
  BY DEF Resolve
<1>3. JobOK(Refused(job, "NotFound")) /\ JobOK(Refused(job, "Disabled"))
  BY <1>1, PreparationRefused DEF Preparation, Errors
<1>4. CASE job.printer.enabled /\ Update([job EXCEPT !.pc = x])
  <2>1. HoldsAt(job, "resolve")
    BY <1>1, Preparing DEF PlaceOK
  <2>2. job.doc \in Documents /\ job.printer \in Printers /\ job.handed = "none"
    BY <1>1, <2>1, Preparing DEF HoldsAt
  <2>3. x \in {"route", "render"} /\ (x = "route" => job.doc \in PdfsHere)
    BY <2>2 DEF PdfsHere
  <2>. HIDE DEF x
  <2>4. HoldsAt(job, x)
    BY <1>4, <2>2, <2>3 DEF HoldsAt, Network, Queue, Virtual
  <2>5. x \in Places \ {"lp", "done"}
    BY <2>3 DEF Places, Preparation
  <2>6. JobOK([job EXCEPT !.pc = x])
    BY <2>2, <2>4, <2>5, Moved
  <2>. QED
    BY <1>4, <2>6, UpdateStep
<1>. QED
  BY <1>2, <1>3, <1>4, UpdateStep

\* What the preparation hands over to the claim.
LEMMA Prepared ==
  ASSUME Invariant, job.handed = "none", job.printer \in Printers, job.doc \in Documents,
         job.printer.enabled, NEW kind \in {"escpos", "raster", "pdf"}, NEW size \in Nat,
         \/ kind = "pdf" /\ PdfRoute(job.printer) /\ job.doc \in PdfsHere
         \/ kind # "pdf" /\ kind = RenderTarget(job.printer)
  PROVE  JobOK([job EXCEPT !.pc = "claim", !.kind = kind, !.bytes = size])
<1>. DEFINE r == [job EXCEPT !.pc = "claim", !.kind = kind, !.bytes = size]
<1>1. job \in JobState /\ PlaceOK(job) /\ job.exact
  BY Preparing
<1>2. r \in JobState
  <2>. DEFINE q == [job EXCEPT !.pc = "claim"]
  <2>1. q \in JobState
    BY <1>1 DEF JobState, Preparation
  <2>2. r = [q EXCEPT !.kind = kind, !.bytes = size]
    OBVIOUS
  <2>. HIDE DEF q, r
  <2>. QED
    BY <2>1, <2>2 DEF JobState
<1>3. /\ r.printer = job.printer /\ r.doc = job.doc /\ r.pc = "claim" /\ r.kind = kind
      /\ r.exact = job.exact /\ r.worker = job.worker /\ r.handed = job.handed
  BY <1>1 DEF JobState
<1>. HIDE DEF r
<1>4. Routed(r)
  BY <1>3 DEF Routed
<1>5. HoldsAt(r, "claim")
  BY <1>3, <1>4 DEF HoldsAt, Network, Queue, Virtual
<1>6. PlaceOK(r) /\ PaperOK(r)
  BY <1>1, <1>3, <1>5 DEF PlaceOK, PaperOK
<1>7. JobOK(r)
  BY <1>2, <1>3, <1>6, Preparing DEF JobOK
<1>. QED
  BY <1>7 DEF r

LEMMA RenderReceiptStep ==
  ASSUME Invariant, RenderReceipt
  PROVE  Invariant'
<1>. DEFINE target == RenderTarget(job.printer)
            size   == job.doc.bytes
            r      == [job EXCEPT !.pc = "claim", !.kind = target, !.bytes = size]
<1>1. job.pc = "render"
  BY DEF RenderReceipt
<1>2. \/ Update(Refused(job, "ModeUnsupported"))
      \/ Update(Refused(job, "RenderFailed"))
      \/ target # "none" /\ Update(r)
  BY DEF RenderReceipt
<1>3. JobOK(Refused(job, "ModeUnsupported")) /\ JobOK(Refused(job, "RenderFailed"))
  BY <1>1, PreparationRefused DEF Preparation, Errors
<1>4. CASE target # "none" /\ Update(r)
  <2>1. HoldsAt(job, "render")
    BY <1>1, Preparing DEF PlaceOK
  <2>2. /\ job.doc \in Documents /\ job.printer \in Printers /\ job.handed = "none"
        /\ job.printer.enabled
    BY <1>1, <2>1, Preparing DEF HoldsAt
  <2>3. size \in Nat
    BY <2>2, PrintingAssumption DEF PdfDocuments
  <2>4. target \in {"escpos", "raster", "none"}
    BY DEF RenderTarget
  <2>5. target = RenderTarget(job.printer)
    OBVIOUS
  <2>. HIDE DEF target, size
  <2>6. JobOK(r)
    BY <1>4, <2>2, <2>3, <2>4, <2>5, Prepared
  <2>. QED
    BY <1>4, <2>6, UpdateStep
<1>. QED
  BY <1>2, <1>3, <1>4, UpdateStep

LEMMA RouteStep ==
  ASSUME Invariant, Route
  PROVE  Invariant'
<1>. DEFINE x == IF job.local THEN "validate" ELSE "fetch"
<1>1. job.pc = "route"
  BY DEF Route
<1>2. \/ Update(Refused(job, "FormatUnsupported"))
      \/ PdfRoute(job.printer) /\ Update([job EXCEPT !.pc = x])
  BY DEF Route
<1>3. JobOK(Refused(job, "FormatUnsupported"))
  BY <1>1, PreparationRefused DEF Preparation, Errors
<1>4. CASE PdfRoute(job.printer) /\ Update([job EXCEPT !.pc = x])
  <2>1. HoldsAt(job, "route") /\ job.handed = "none"
    BY <1>1, Preparing DEF PlaceOK
  <2>2. x \in {"validate", "fetch"}
    OBVIOUS
  <2>. HIDE DEF x
  <2>3. HoldsAt(job, x)
    BY <1>4, <2>1, <2>2 DEF HoldsAt, Network, Queue, Virtual
  <2>4. x \in Places \ {"lp", "done"}
    BY <2>2 DEF Places, Preparation
  <2>5. JobOK([job EXCEPT !.pc = x])
    BY <2>1, <2>3, <2>4, Moved
  <2>. QED
    BY <1>4, <2>5, UpdateStep
<1>. QED
  BY <1>2, <1>3, <1>4, UpdateStep

LEMMA FetchStep ==
  ASSUME Invariant, Fetch
  PROVE  Invariant'
<1>1. job.pc = "fetch"
  BY DEF Fetch
<1>. DEFINE r == [job EXCEPT !.pc = "validate", !.exact = TRUE]
<1>2. \/ \E error \in {"Authorization", "Refused", "Gone", "FetchFailed", "LengthMismatch",
                       "IntegrityMismatch"} : Update(Refused(job, error))
      \/ Update(r)
  <2>1. CASE \E error \in {"Authorization", "Refused", "Gone", "FetchFailed"} :
               Update(Refused(job, error))
    BY <2>1
  <2>2. CASE \E body \in Bodies :
               Update(IF FetchError(body) = "none"
                      THEN [job EXCEPT !.pc = "validate", !.exact = (body = "exact")]
                      ELSE Refused(job, FetchError(body)))
    <3>1. PICK body \in Bodies :
            Update(IF FetchError(body) = "none"
                   THEN [job EXCEPT !.pc = "validate", !.exact = (body = "exact")]
                   ELSE Refused(job, FetchError(body)))
      BY <2>2
    <3>2. CASE body = "exact"
      <4>1. FetchError(body) = "none" /\ (body = "exact") = TRUE
        BY <3>2 DEF FetchError
      <4>2. Update([job EXCEPT !.pc = "validate", !.exact = (body = "exact")])
        BY <3>1, <4>1
      <4>. QED
        BY <4>1, <4>2
    <3>3. CASE body # "exact"
      <4>1. FetchError(body) \in {"LengthMismatch", "IntegrityMismatch"}
        BY <3>3 DEF FetchError, Bodies
      <4>. QED
        BY <3>1, <4>1
    <3>. QED
      BY <3>2, <3>3
  <2>. QED
    BY <2>1, <2>2 DEF Fetch
<1>3. CASE \E error \in {"Authorization", "Refused", "Gone", "FetchFailed", "LengthMismatch",
                         "IntegrityMismatch"} : Update(Refused(job, error))
  <2>1. PICK error \in {"Authorization", "Refused", "Gone", "FetchFailed", "LengthMismatch",
                        "IntegrityMismatch"} : Update(Refused(job, error))
    BY <1>3
  <2>2. error \in Errors
    BY DEF Errors
  <2>. QED
    BY <1>1, <2>1, <2>2, PreparationRefused, UpdateStep DEF Preparation
<1>4. CASE Update(r)
  <2>1. HoldsAt(job, "fetch") /\ job.handed = "none"
    BY <1>1, Preparing DEF PlaceOK
  <2>2. r = [job EXCEPT !.pc = "validate"]
    BY Preparing DEF JobState
  <2>3. HoldsAt(job, "validate")
    BY <2>1 DEF HoldsAt, Network, Queue, Virtual
  <2>4. JobOK([job EXCEPT !.pc = "validate"])
    BY <2>1, <2>3, Moved DEF Places, Preparation
  <2>. QED
    BY <1>4, <2>2, <2>4, UpdateStep
<1>. QED
  BY <1>2, <1>3, <1>4

LEMMA FetchDeadlineStep ==
  ASSUME Invariant, FetchDeadline
  PROVE  Invariant'
<1>1. job.pc \in Preparation /\ Update(Refused(job, "FetchFailed"))
  BY DEF FetchDeadline, Preparation
<1>2. "FetchFailed" \in Errors
  BY DEF Errors
<1>. QED
  BY <1>1, <1>2, PreparationRefused, UpdateStep
LEMMA ValidatedStep ==
  ASSUME Invariant, Validated
  PROVE  Invariant'
<1>. DEFINE error == ValidatePdf(job.doc)
            size  == job.doc.bytes
            r     == [job EXCEPT !.pc = "claim", !.kind = "pdf", !.bytes = size]
<1>1. job.pc = "validate"
  BY DEF Validated
<1>2. HoldsAt(job, "validate") /\ job.handed = "none"
  BY <1>1, Preparing DEF PlaceOK
<1>3. /\ job.doc \in Documents /\ job.printer \in Printers /\ job.printer.enabled
      /\ job.doc \in PdfsHere /\ PdfRoute(job.printer)
  BY <1>2 DEF HoldsAt
<1>4. job.doc \in PdfDocuments
  BY <1>3, PrintingAssumption DEF PdfsHere
<1>5. size \in Nat /\ job.doc.content \in {"pdf", "InvalidPdf", "EncryptedPdf"}
  BY <1>4 DEF PdfDocuments
<1>6. error \in Errors
  BY <1>5 DEF ValidatePdf, Errors
<1>7. Update(r) \/ Update(Refused(job, error))
  BY DEF Validated
<1>. HIDE DEF error, size
<1>8. JobOK(r)
  BY <1>2, <1>3, <1>5, Prepared
<1>9. JobOK(Refused(job, error))
  BY <1>1, <1>6, PreparationRefused DEF Preparation
<1>. QED
  BY <1>7, <1>8, <1>9, UpdateStep

LEMMA ClaimStep ==
  ASSUME Invariant, Claim
  PROVE  Invariant'
<1>1. job.pc = "claim"
  BY DEF Claim
<1>2. Update(Returned(job, "none", "Cancelled")) \/ Update([job EXCEPT !.pc = "submit"])
  BY DEF Claim
<1>3. HoldsAt(job, "claim") /\ job.handed = "none" /\ job \in JobState /\ job.exact
  BY <1>1, Preparing DEF PlaceOK
<1>4. JobOK(Returned(job, "none", "Cancelled"))
  <2>1. "none" \in Errors
    BY DEF Errors
  <2>. QED
    BY <1>3, <2>1, ReturnedOK
<1>5. HoldsAt(job, "submit")
  BY <1>3 DEF HoldsAt, Network, Queue, Virtual
<1>6. JobOK([job EXCEPT !.pc = "submit"])
  BY <1>3, <1>5, Moved DEF Places, Preparation
<1>. QED
  BY <1>2, <1>4, <1>6, UpdateStep

\* A backend that refuses does so for a reason of the document or of the
\* printer's state; what was prepared for it has the right kind.
LEMMA AdmissionAgrees ==
  ASSUME NEW j, j.printer \in Printers, j.printer.enabled, Routed(j)
  PROVE  AdmissionError(j) \in {"none", "UnsupportedOption", "DocumentTooLarge"}
<1>. DEFINE p == j.printer
<1>1. /\ p.connection \in {"queue", "network", "virtual"} /\ p.mode \in {"raw", "driver"}
      /\ p.profile \in {"none", "receipt", "page"} /\ ValidPrinter(p) /\ p.enabled
  BY PrintingAssumption
<1>2. ~(p.connection = "network" /\ p.mode # "raw")
  <2>1. CASE j.kind = "pdf" /\ PdfRoute(p)
    BY <2>1 DEF PdfRoute
  <2>2. CASE j.kind \in {"escpos", "raster"} /\ j.kind = RenderTarget(p)
    BY <1>1, <2>2 DEF RenderTarget
  <2>. QED
    BY <2>1, <2>2 DEF Routed
<1>3. ~(p.connection \in {"network", "queue"} /\ p.mode = "raw" /\ j.kind = "raster")
  BY <1>1 DEF Routed, RenderTarget
<1>4. ~(p.connection = "network" /\ j.kind = "pdf")
  BY DEF Routed, PdfRoute
<1>5. ~(p.connection = "queue" /\ j.kind = "pdf" /\ p.mode # "driver")
  BY DEF Routed, PdfRoute
<1>6. ~(~ValidPrinter(p)) /\ ~(~p.enabled)
  BY <1>1
<1>. QED
  BY <1>2, <1>3, <1>4, <1>5, <1>6 DEF AdmissionError
-----------------------------------------------------------------------------
(* The backends.                                                           *)

\* A failure that left nothing at the backend.
LEMMA FailedOK ==
  ASSUME Invariant, job.handed = "none", NEW error \in Errors \ {"none"}
  PROVE  JobOK(Settled(job, error))
<1>1. job \in JobState /\ job.exact
  BY Preparing
<1>. QED
  BY <1>1, SettledOK

\* A failure that may leave something, where no virtual printer is involved.
LEMMA LostOK ==
  ASSUME NEW j \in JobState, j.exact, j.printer.connection # "virtual",
         NEW error \in Uncertain \cup {"Cancelled"}
  PROVE  JobOK(Settled(j, error))
<1>1. error \in Errors /\ error # "none"
  BY DEF Errors, Uncertain
<1>. QED
  BY <1>1, SettledOK

LEMMA NewWorkerOK ==
  ASSUME NEW j, Routed(j)
  PROVE  /\ NewWorker(j) \in WorkerState /\ WorkerOK(NewWorker(j))
         /\ NewWorker(j).stage = "raster" => j.doc \in PdfsHere
<1>. DEFINE stage == FirstStage(j)
            pages == IF stage = "open" THEN PageList(j, DriverPdfDpi) ELSE << >>
            w     == [NoWorker EXCEPT !.stage = stage, !.todo = pages]
<1>1. NewWorker(j) = w
  BY DEF NewWorker
<1>2. stage \in {"raster", "raw", "open"}
  BY DEF FirstStage
<1>3. pages \in Seq(Sheet)
  <2>1. CASE stage = "open" /\ j.kind = "pdf"
    <3>1. j.doc \in PdfsHere
      BY <2>1 DEF Routed
    <3>2. pages = Raster[j.doc][DriverPdfDpi].pages
      BY <2>1 DEF PageList
    <3>. QED
      BY <3>1, <3>2, RasterPages
  <2>2. CASE stage = "open" /\ j.kind # "pdf"
    <3>1. pages = <<[number |-> 1, width |-> 0, height |-> 0, content |-> <<0, 0>>]>>
      BY <2>2 DEF PageList
    <3>2. [number |-> 1, width |-> 0, height |-> 0, content |-> <<0, 0>>] \in Sheet
      BY DEF Sheet, Size
    <3>. QED
      BY <3>1, <3>2
  <2>3. CASE stage # "open"
    BY <2>3
  <2>. QED
    BY <2>1, <2>2, <2>3
<1>4. stage = "raster" => j.kind = "pdf"
  BY DEF FirstStage
<1>5. stage = "raster" => j.doc \in PdfsHere
  BY <1>4 DEF Routed
<1>. HIDE DEF stage, pages
<1>6. w \in WorkerState /\ w.stage = stage
  BY <1>2, <1>3, NoWorkerOK DEF WorkerState
<1>7. /\ w.open = FALSE /\ w.document = "none" /\ w.drawn = << >> /\ w.handed = "none"
      /\ w.result = "none"
  BY DEF NoWorker
<1>. HIDE DEF w
<1>8. WorkerOK(w)
  BY <1>2, <1>6, <1>7 DEF WorkerOK
<1>. QED
  BY <1>1, <1>5, <1>6, <1>8

LEMMA SubmitStep ==
  ASSUME Invariant, Submit
  PROVE  Invariant'
<1>. DEFINE error == AdmissionError(job)
            p     == job.printer
            w     == NewWorker(job)
            r     == [job EXCEPT !.pc = "worker", !.worker = w]
<1>1. job.pc = "submit"
  BY DEF Submit
<1>2. HoldsAt(job, "submit") /\ job.handed = "none" /\ job \in JobState /\ job.exact
  BY <1>1, Preparing DEF PlaceOK
<1>3. p \in Printers /\ p.enabled /\ Routed(job) /\ job.doc \in Documents
  BY <1>2 DEF HoldsAt
<1>4. error \in {"none", "UnsupportedOption", "DocumentTooLarge"}
  BY <1>3, AdmissionAgrees
<1>5. p.connection \in {"queue", "network", "virtual"}
  BY <1>3, PrintingAssumption
<1>6. \/ error # "none" /\ Update(Settled(job, error))
      \/ p.connection = "network" /\ Update([job EXCEPT !.pc = "connect"])
      \/ p.connection = "virtual" /\ Update([job EXCEPT !.pc = "device"])
      \/ p.connection = "queue" /\ Update([job EXCEPT !.pc = "spawn"])
      \/ p.connection = "queue" /\ Update(r)
  <2>. DEFINE onQueue == IF platform = "unix" THEN [job EXCEPT !.pc = "spawn"] ELSE r
              sent    == CASE p.connection = "network" -> [job EXCEPT !.pc = "connect"]
                           [] p.connection = "virtual" -> [job EXCEPT !.pc = "device"]
                           [] OTHER -> onQueue
  <2>1. Update(IF error # "none" THEN Settled(job, error) ELSE sent)
    BY DEF Submit
  <2>2. /\ p.connection = "network" => sent = [job EXCEPT !.pc = "connect"]
        /\ p.connection = "virtual" => sent = [job EXCEPT !.pc = "device"]
        /\ p.connection = "queue" => sent = onQueue
    <3>. HIDE DEF onQueue
    <3>. QED
      BY <1>5
  <2>3. onQueue = [job EXCEPT !.pc = "spawn"] \/ onQueue = r
    OBVIOUS
  <2>. HIDE DEF sent, onQueue, r, error
  <2>4. error = "none" => Update(sent)
    BY <2>1
  <2>5. error # "none" => Update(Settled(job, error))
    BY <2>1
  <2>. QED
    BY <1>5, <2>2, <2>3, <2>4, <2>5
<1>. HIDE DEF error
<1>7. CASE error # "none" /\ Update(Settled(job, error))
  <2>1. error \in Errors \ {"none"}
    BY <1>4, <1>7 DEF Errors
  <2>. QED
    BY <1>2, <1>7, <2>1, FailedOK, UpdateStep
<1>8. ASSUME NEW x \in {"connect", "device", "spawn"}, Update([job EXCEPT !.pc = x]),
             \/ x = "connect" /\ p.connection = "network"
             \/ x = "device" /\ p.connection = "virtual"
             \/ x = "spawn" /\ p.connection = "queue"
      PROVE  Invariant'
  <2>1. HoldsAt(job, x)
    BY <1>3, <1>8 DEF HoldsAt, Network, Queue, Virtual
  <2>2. x \in Places \ {"lp", "done"}
    BY <1>8 DEF Places, Network, Queue, Virtual
  <2>3. JobOK([job EXCEPT !.pc = x])
    BY <1>2, <2>1, <2>2, Moved
  <2>. QED
    BY <1>8, <2>3, UpdateStep
<1>9. CASE p.connection = "queue" /\ Update(r)
  <2>1. w \in WorkerState /\ WorkerOK(w) /\ (w.stage = "raster" => job.doc \in PdfsHere)
    BY <1>3, NewWorkerOK
  <2>. HIDE DEF w
  <2>2. r \in JobState
    <3>. DEFINE q == [job EXCEPT !.pc = "worker"]
    <3>1. q \in JobState
      BY <1>2 DEF JobState, Queue
    <3>2. r = [q EXCEPT !.worker = w]
      OBVIOUS
    <3>. HIDE DEF q, r
    <3>. QED
      BY <2>1, <3>1, <3>2 DEF JobState
  <2>3. /\ r.printer = job.printer /\ r.doc = job.doc /\ r.pc = "worker" /\ r.kind = job.kind
        /\ r.exact = job.exact /\ r.worker = w /\ r.handed = job.handed
    BY <1>2 DEF JobState
  <2>. HIDE DEF r
  <2>4. HoldsAt(r, "worker")
    BY <1>3, <1>9, <2>3 DEF HoldsAt, Routed, Network, Queue, Virtual
  <2>5. PlaceOK(r) /\ PaperOK(r)
    BY <1>2, <2>1, <2>3, <2>4 DEF PlaceOK, PaperOK
  <2>. QED
    BY <1>9, <2>1, <2>2, <2>3, <2>5, UpdateStep DEF JobOK
<1>. QED
  BY <1>6, <1>7, <1>8, <1>9

LEMMA ConnectStep ==
  ASSUME Invariant, Connect
  PROVE  Invariant'
<1>1. /\ job.pc = "connect"
      /\ Update(Settled(job, "Connectivity")) \/ Update([job EXCEPT !.pc = "write"])
  BY DEF Connect
<1>2. HoldsAt(job, "connect") /\ job.handed = "none"
  BY <1>1, Preparing DEF PlaceOK
<1>3. HoldsAt(job, "write")
  BY <1>2 DEF HoldsAt, Network, Queue, Virtual
<1>4. JobOK([job EXCEPT !.pc = "write"])
  BY <1>2, <1>3, Moved DEF Places, Network
<1>5. JobOK(Settled(job, "Connectivity"))
  BY <1>2, FailedOK DEF Errors
<1>. QED
  BY <1>1, <1>4, <1>5, UpdateStep

LEMMA MoreType == ASSUME NEW h PROVE More(h) \in Handed
  BY DEF More, Handed

\* The backend takes more of the document.
LEMMA HandedMore ==
  ASSUME Invariant, \/ job.pc = "write"
                    \/ job.pc = "lp" /\ job.lp = "running"
  PROVE  JobOK([job EXCEPT !.handed = More(@)])
<1>. DEFINE h == More(job.handed)
            r == [job EXCEPT !.handed = h]
<1>1. job \in JobState /\ job.exact /\ PlaceOK(job) /\ WorkerOK(job.worker) /\ h \in Handed
  BY Preparing, MoreType
<1>. HIDE DEF h
<1>2. r \in JobState
  BY <1>1 DEF JobState
<1>3. /\ r.printer = job.printer /\ r.doc = job.doc /\ r.pc = job.pc /\ r.kind = job.kind
      /\ r.exact = job.exact /\ r.worker = job.worker /\ r.simulation = job.simulation
      /\ r.lp = job.lp
  BY <1>1 DEF JobState
<1>. HIDE DEF r
<1>4. PlaceOK(r)
  BY <1>1, <1>3 DEF PlaceOK, HoldsAt, Routed
<1>5. PaperOK(r)
  BY <1>1, <1>3 DEF PaperOK
<1>6. JobOK(r)
  BY <1>1, <1>2, <1>3, <1>4, <1>5 DEF JobOK
<1>. QED
  BY <1>6 DEF r, h

LEMMA WriteMoreStep ==
  ASSUME Invariant, WriteMore
  PROVE  Invariant'
<1>1. job.pc = "write" /\ Update([job EXCEPT !.handed = More(@)])
  BY DEF WriteMore
<1>. QED
  BY <1>1, HandedMore, UpdateStep

LEMMA WrittenStep ==
  ASSUME Invariant, Written
  PROVE  Invariant'
<1>1. /\ job.pc = "write"
      /\ \/ Update(Settled(job, "Connectivity"))
         \/ job.handed = "whole" /\ Update(Settled(job, "none"))
  BY DEF Written
<1>2. HoldsAt(job, "write") /\ job \in JobState /\ job.exact
  BY <1>1, Preparing DEF PlaceOK
<1>3. job.printer.connection = "network"
  BY <1>2 DEF HoldsAt, Network
<1>4. JobOK(Settled(job, "Connectivity"))
  BY <1>2, <1>3, LostOK DEF Uncertain
<1>5. job.handed = "whole" => JobOK(Settled(job, "none"))
  BY <1>2, SettledOK DEF Errors
<1>. QED
  BY <1>1, <1>4, <1>5, UpdateStep

LEMMA SpawnStep ==
  ASSUME Invariant, Spawn
  PROVE  Invariant'
<1>. DEFINE r == [job EXCEPT !.pc = "lp", !.lp = "running"]
<1>1. /\ job.pc = "spawn"
      /\ \/ Update(Settled(job, "BackendUnavailable"))
         \/ Update(Settled(job, "Connectivity"))
         \/ Update(r)
  BY DEF Spawn
<1>2. HoldsAt(job, "spawn") /\ job.handed = "none" /\ job \in JobState /\ job.exact /\ PlaceOK(job)
  BY <1>1, Preparing DEF PlaceOK
<1>3. JobOK(Settled(job, "BackendUnavailable")) /\ JobOK(Settled(job, "Connectivity"))
  BY <1>2, FailedOK DEF Errors
<1>4. r \in JobState
  <2>. DEFINE q == [job EXCEPT !.pc = "lp"]
  <2>1. q \in JobState
    BY <1>2 DEF JobState, Queue
  <2>2. r = [q EXCEPT !.lp = "running"]
    OBVIOUS
  <2>. HIDE DEF q, r
  <2>. QED
    BY <2>1, <2>2 DEF JobState
<1>5. /\ r.printer = job.printer /\ r.doc = job.doc /\ r.pc = "lp" /\ r.kind = job.kind
      /\ r.exact = job.exact /\ r.worker = job.worker /\ r.lp = "running"
      /\ r.handed = job.handed
  BY <1>2 DEF JobState
<1>. HIDE DEF r
<1>6. HoldsAt(r, "lp")
  BY <1>2, <1>5 DEF HoldsAt, Routed, Network, Queue, Virtual
<1>7. PlaceOK(r) /\ PaperOK(r)
  BY <1>2, <1>5, <1>6 DEF PlaceOK, PaperOK
<1>8. JobOK(r)
  BY <1>4, <1>5, <1>7, Preparing DEF JobOK
<1>. QED
  BY <1>1, <1>3, <1>8, UpdateStep

\* lp ends.
LEMMA LpEnds ==
  ASSUME Invariant, job.pc = "lp", NEW lp \in {"failed", "exited"},
         lp = "exited" => job.handed = "whole"
  PROVE  JobOK([job EXCEPT !.lp = lp])
<1>. DEFINE r == [job EXCEPT !.lp = lp]
<1>1. job \in JobState /\ job.exact /\ PlaceOK(job) /\ WorkerOK(job.worker)
  BY Preparing
<1>2. r \in JobState
  BY <1>1 DEF JobState
<1>3. /\ r.printer = job.printer /\ r.doc = job.doc /\ r.pc = job.pc /\ r.kind = job.kind
      /\ r.exact = job.exact /\ r.worker = job.worker /\ r.simulation = job.simulation
      /\ r.lp = lp /\ r.handed = job.handed
  BY <1>1 DEF JobState
<1>. HIDE DEF r
<1>4. PlaceOK(r)
  BY <1>1, <1>3 DEF PlaceOK, HoldsAt, Routed
<1>5. PaperOK(r)
  BY <1>1, <1>3 DEF PaperOK
<1>6. JobOK(r)
  BY <1>1, <1>2, <1>3, <1>4, <1>5 DEF JobOK
<1>. QED
  BY <1>6 DEF r

LEMMA LpStepStep ==
  ASSUME Invariant, LpStep
  PROVE  Invariant'
<1>1. /\ job.pc = "lp" /\ job.lp = "running"
      /\ \/ Update([job EXCEPT !.handed = More(@)])
         \/ job.handed = "whole" /\ Update([job EXCEPT !.lp = "exited"])
         \/ Update([job EXCEPT !.lp = "failed"])
  BY DEF LpStep
<1>2. JobOK([job EXCEPT !.handed = More(@)])
  BY <1>1, HandedMore
<1>3. job.handed = "whole" => JobOK([job EXCEPT !.lp = "exited"])
  BY <1>1, LpEnds
<1>4. JobOK([job EXCEPT !.lp = "failed"])
  BY <1>1, LpEnds
<1>. QED
  BY <1>1, <1>2, <1>3, <1>4, UpdateStep

LEMMA LpExitedStep ==
  ASSUME Invariant, LpExited
  PROVE  Invariant'
<1>1. job.pc = "lp"
  BY DEF LpExited
<1>2. \/ job.lp = "exited" /\ Update(Settled(job, "none"))
      \/ Update(Settled(job, "Rejected"))
      \/ Update(Settled(job, "Connectivity"))
  BY DEF LpExited
<1>3. job \in JobState /\ job.exact /\ PaperOK(job) /\ HoldsAt(job, "lp")
  BY <1>1, Preparing DEF PlaceOK
<1>4. job.lp = "exited" => JobOK(Settled(job, "none"))
  <2>1. job.lp = "exited" => job.handed = "whole"
    BY <1>1, <1>3 DEF PaperOK
  <2>. QED
    BY <1>3, <2>1, SettledOK DEF Errors
<1>5. JobOK(Settled(job, "Rejected")) /\ JobOK(Settled(job, "Connectivity"))
  <2>1. job.printer.connection # "virtual"
    BY <1>3 DEF HoldsAt, Queue
  <2>. QED
    BY <1>3, <2>1, LostOK DEF Uncertain
<1>. QED
  BY <1>2, <1>4, <1>5, UpdateStep

LEMMA WorkerStepStep ==
  ASSUME Invariant, WorkerStep
  PROVE  Invariant'
<1>1. job.pc = "worker"
  BY DEF WorkerStep
<1>2. PICK w \in WorkerSteps(job.worker, job.doc) : Update([job EXCEPT !.worker = w])
  BY DEF WorkerStep
<1>3. /\ job \in JobState /\ job.exact /\ job.handed = "none" /\ PlaceOK(job)
      /\ WorkerOK(job.worker)
      /\ job.worker \in WorkerState
  BY <1>1, Preparing
<1>4. w \in WorkerState /\ WorkerOK(w) /\ w.stage # "raster"
  <2>1. job.worker.stage = "raster" => job.doc \in PdfsHere
    BY <1>3 DEF PlaceOK
  <2>. QED
    BY <1>2, <1>3, <2>1, WorkerStepsOK
<1>. DEFINE r == [job EXCEPT !.worker = w]
<1>5. r \in JobState
  BY <1>3, <1>4 DEF JobState
<1>6. /\ r.printer = job.printer /\ r.doc = job.doc /\ r.pc = job.pc /\ r.kind = job.kind
      /\ r.exact = job.exact /\ r.worker = w /\ r.simulation = job.simulation
      /\ r.handed = job.handed
  BY <1>3 DEF JobState
<1>. HIDE DEF r
<1>7. PlaceOK(r)
  BY <1>3, <1>4, <1>6 DEF PlaceOK, HoldsAt, Routed
<1>8. PaperOK(r)
  BY <1>1, <1>3, <1>6 DEF PaperOK
<1>9. JobOK(r)
  BY <1>4, <1>5, <1>6, <1>7, <1>8 DEF JobOK
<1>. QED
  BY <1>2, <1>9, UpdateStep DEF r

LEMMA WorkerDoneStep ==
  ASSUME Invariant, WorkerDone
  PROVE  Invariant'
<1>. DEFINE error == job.worker.result
            h     == job.worker.handed
            j     == [job EXCEPT !.handed = h]
<1>1. job.pc = "worker" /\ job.worker.stage = "gone" /\ Update(Settled(j, error))
  BY DEF WorkerDone, AtWorker
<1>2. /\ job \in JobState /\ job.exact /\ HoldsAt(job, "worker") /\ WorkerOK(job.worker)
      /\ job.worker \in WorkerState
  BY <1>1, Preparing DEF PlaceOK
<1>3. h \in Handed /\ error \in {"none", "Connectivity", "Rejected", "Timeout", "DocumentRender"}
  BY <1>2 DEF WorkerState
<1>4. /\ error = "none" => h = "whole"
      /\ error # "none" /\ h # "none" => error \in Uncertain
  BY <1>1, <1>2 DEF WorkerOK, Uncertain
<1>5. job.printer.connection = "queue"
  BY <1>2 DEF HoldsAt, Queue
<1>6. error \in Errors
  BY <1>3 DEF Errors
<1>. HIDE DEF error, h
<1>7. j \in JobState /\ j.exact = job.exact /\ j.handed = h /\ j.printer = job.printer
  BY <1>2, <1>3 DEF JobState
<1>. HIDE DEF j
<1>8. JobOK(Settled(j, error))
  BY <1>2, <1>3, <1>4, <1>5, <1>6, <1>7, SettledOK
<1>. QED
  BY <1>1, <1>8, UpdateStep
LEMMA DetachedStepStep ==
  ASSUME Invariant, DetachedStep
  PROVE  Invariant'
<1>1. PICK i \in 1 .. Len(detached) :
        /\ \/ \E w \in WorkerSteps(detached[i].worker, detached[i].doc) :
                detached' = [detached EXCEPT ![i].worker = w]
           \/ detached' = RemoveAt(detached, i)
        /\ UNCHANGED <<platform, job, device, spent>>
  BY DEF DetachedStep
<1>2. detached \in Seq(Outliving) /\ Len(detached) \in Nat
  BY LenProperties DEF Invariant, DetachedOK
<1>3. \A k \in 1 .. Len(detached) : detached[k] \in Outliving
  BY <1>2, ElementOfSeq
<1>4. ASSUME detached' = RemoveAt(detached, i)
      PROVE  DetachedOK'
  <2>. DEFINE n     == Len(detached)
              left  == SubSeq(detached, 1, i - 1)
              right == SubSeq(detached, i + 1, n)
  <2>1. detached' = left \o right
    BY <1>4 DEF RemoveAt
  <2>2. /\ \A k \in 1 .. i - 1 : detached[k] \in Outliving
        /\ \A k \in i + 1 .. n : detached[k] \in Outliving
        /\ {1, i - 1, i + 1, n} \subseteq Int
    BY <1>2, <1>3
  <2>3. left \in Seq(Outliving) /\ right \in Seq(Outliving)
    BY <2>2, SubSeqProperties
  <2>. HIDE DEF left, right
  <2>. QED
    BY <2>1, <2>3, ConcatProperties DEF DetachedOK
<1>5. ASSUME \E w \in WorkerSteps(detached[i].worker, detached[i].doc) :
               detached' = [detached EXCEPT ![i].worker = w]
      PROVE  DetachedOK'
  <2>. DEFINE x == detached[i]
  <2>1. PICK w \in WorkerSteps(x.worker, x.doc) : detached' = [detached EXCEPT ![i].worker = w]
    BY <1>5
  <2>2. x \in Outliving
    BY <1>3
  <2>3. detached' = [detached EXCEPT ![i] = [x EXCEPT !.worker = w]]
    BY <2>1
  <2>. HIDE DEF x
  <2>4. /\ x \in [worker : WorkerState, doc : Documents] /\ WorkerOK(x.worker)
        /\ x.worker.stage = "raster" => x.doc \in PdfsHere
    BY <2>2 DEF Outliving
  <2>5. x.worker \in WorkerState
    BY <2>4
  <2>6. w \in WorkerState /\ WorkerOK(w) /\ w.stage # "raster"
    BY <2>1, <2>4, <2>5, WorkerStepsOK
  <2>. DEFINE y == [x EXCEPT !.worker = w]
  <2>7. y \in [worker : WorkerState, doc : Documents] /\ y.worker = w
    BY <2>4, <2>6
  <2>. HIDE DEF y
  <2>8. y \in Outliving
    BY <2>6, <2>7 DEF Outliving
  <2>9. detached' = [detached EXCEPT ![i] = y]
    BY <2>3 DEF y
  <2>. QED
    BY <1>2, <2>8, <2>9, ExceptSeq DEF DetachedOK
<1>6. DetachedOK'
  BY <1>1, <1>4, <1>5
<1>7. JobOK(job') /\ DeviceOK'
  BY <1>1 DEF Invariant, DeviceOK, Accounted
<1>. QED
  BY <1>6, <1>7 DEF Invariant

\* Whoever gives up leaves the worker behind, in order.
LEMMA AbandonStep ==
  ASSUME Invariant, job.pc \in {"connect", "write", "lp", "worker"},
         NEW error \in {"Timeout", "Cancelled"}, Abandon(error)
  PROVE  Invariant'
<1>. DEFINE h == IF job.pc = "worker" THEN job.worker.handed ELSE job.handed
            j == [job EXCEPT !.handed = h]
<1>1. /\ job' = Settled(IF job.pc = "worker" THEN AtWorker(job) ELSE job, error)
      /\ UNCHANGED device
      /\ detached' = IF job.pc # "worker" THEN detached
                     ELSE Append(detached, [worker |-> job.worker, doc |-> job.doc])
  BY DEF Abandon
<1>2. /\ job \in JobState /\ HoldsAt(job, job.pc) /\ WorkerOK(job.worker) /\ PlaceOK(job)
      /\ job.worker \in WorkerState
  BY Preparing DEF PlaceOK
<1>3. job.printer.connection # "virtual" /\ job.doc \in Documents
  BY <1>2 DEF HoldsAt, Network, Queue
<1>4. JobOK(job')
  <2>1. h \in Handed
    BY <1>2 DEF JobState, WorkerState
  <2>2. (IF job.pc = "worker" THEN AtWorker(job) ELSE job) = j
    BY <1>2 DEF AtWorker, JobState
  <2>. HIDE DEF h
  <2>3. j \in JobState /\ j.printer = job.printer /\ j.exact = job.exact
    BY <1>2, <2>1 DEF JobState
  <2>. HIDE DEF j
  <2>4. job' = Settled(j, error)
    BY <1>1, <2>2
  <2>5. error \in Uncertain \cup {"Cancelled"} /\ job.exact
    BY Preparing DEF Uncertain
  <2>. QED
    BY <1>3, <2>3, <2>4, <2>5, LostOK
<1>5. DetachedOK'
  <2>. DEFINE x == [worker |-> job.worker, doc |-> job.doc]
  <2>1. x \in Outliving
    BY <1>2, <1>3 DEF Outliving, PlaceOK
  <2>2. detached' = detached \/ detached' = Append(detached, x)
    BY <1>1
  <2>. HIDE DEF x
  <2>. QED
    BY <2>1, <2>2, AppendProperties DEF Invariant, DetachedOK
<1>6. JobOK(job') /\ DeviceOK'
  BY <1>1, <1>4 DEF Invariant, DeviceOK, Accounted
<1>. QED
  BY <1>5, <1>6 DEF Invariant

-----------------------------------------------------------------------------
(* The virtual printer.                                                    *)

LEMMA TakeDeviceStep ==
  ASSUME Invariant, TakeDevice
  PROVE  Invariant'
<1>. DEFINE policy == device.policy
            after  == IF policy = "FailNext" THEN "AlwaysSucceed" ELSE policy
            r      == [job EXCEPT !.pc = "preview", !.simulation = policy]
            dev    == [device EXCEPT !.policy = after]
<1>1. job.pc = "device"
  BY DEF TakeDevice
<1>2. \/ Update(Settled(job, "BackendUnavailable"))
      \/ job' = r /\ device' = dev /\ UNCHANGED detached
  BY DEF TakeDevice
<1>3. HoldsAt(job, "device") /\ job.handed = "none" /\ job \in JobState /\ job.exact /\ PlaceOK(job)
  BY <1>1, Preparing DEF PlaceOK
<1>4. JobOK(Settled(job, "BackendUnavailable"))
  BY <1>3, FailedOK DEF Errors
<1>5. CASE job' = r /\ device' = dev /\ UNCHANGED detached
  <2>1. device \in DeviceState /\ Accounted(device)
    BY DEF Invariant, DeviceOK
  <2>2. policy \in Policies /\ after \in Policies
    BY <2>1 DEF DeviceState, Policies
  <2>. HIDE DEF policy, after
  <2>3. dev \in DeviceState /\ dev.history = device.history /\ dev.retained = device.retained
    BY <2>1, <2>2 DEF DeviceState
  <2>. HIDE DEF dev
  <2>4. DeviceOK'
    BY <1>5, <2>1, <2>3 DEF DeviceOK, Accounted
  <2>5. r \in JobState
    <3>. DEFINE q == [job EXCEPT !.pc = "preview"]
    <3>1. q \in JobState
      BY <1>3 DEF JobState, Virtual
    <3>2. r = [q EXCEPT !.simulation = policy]
      OBVIOUS
    <3>. HIDE DEF q, r
    <3>. QED
      BY <2>2, <3>1, <3>2 DEF JobState
  <2>6. /\ r.printer = job.printer /\ r.doc = job.doc /\ r.pc = "preview" /\ r.kind = job.kind
        /\ r.exact = job.exact /\ r.worker = job.worker /\ r.simulation = policy
        /\ r.handed = job.handed
    BY <1>3 DEF JobState
  <2>. HIDE DEF r
  <2>7. HoldsAt(r, "preview")
    BY <1>3, <2>2, <2>6 DEF HoldsAt, Routed, Network, Queue, Virtual
  <2>8. PlaceOK(r) /\ PaperOK(r)
    BY <1>3, <2>6, <2>7 DEF PlaceOK, PaperOK
  <2>9. JobOK(r)
    BY <2>5, <2>6, <2>8, Preparing DEF JobOK
  <2>. QED
    BY <1>5, <2>4, <2>9 DEF Invariant, DetachedOK
<1>. QED
  BY <1>2, <1>4, <1>5, UpdateStep
LEMMA PreviewStep ==
  ASSUME Invariant, Preview
  PROVE  Invariant'
<1>. DEFINE error == PreviewError(job)
            pages == PageList(job, VirtualPreviewDpi)
            x     == IF job.simulation = "Delay" THEN "delay" ELSE "record"
            r     == [job EXCEPT !.preview = pages, !.pc = x]
<1>1. job.pc = "preview"
  BY DEF Preview
<1>2. \/ error # "none" /\ Update(Settled(job, error))
      \/ Update(Settled(job, "DocumentRender"))
      \/ Update(Settled(job, "BackendUnavailable"))
      \/ Update(r)
  BY DEF Preview
<1>3. /\ HoldsAt(job, "preview") /\ job.handed = "none" /\ job \in JobState /\ job.exact
      /\ PlaceOK(job)
  BY <1>1, Preparing DEF PlaceOK
<1>4. Routed(job) /\ job.printer \in Printers
  BY <1>3 DEF HoldsAt, Virtual
<1>5. error \in {"none", "DocumentTooLarge", "DocumentRender"}
  <2>1. ~(job.printer.profile = "receipt" /\ job.kind # "escpos")
    <3>1. ValidPrinter(job.printer) /\ job.printer.connection \in {"queue", "network", "virtual"}
      BY <1>4, PrintingAssumption
    <3>2. job.printer.profile = "receipt" =>
            job.printer.connection = "virtual" /\ job.printer.mode = "raw"
      BY <3>1 DEF ValidPrinter
    <3>. QED
      BY <1>4, <3>2 DEF Routed, PdfRoute, RenderTarget
  <2>. QED
    BY <2>1 DEF PreviewError
<1>6. pages \in Seq(Sheet)
  <2>1. CASE job.kind = "pdf"
    <3>1. job.doc \in PdfsHere
      BY <1>4, <2>1 DEF Routed
    <3>2. pages = Raster[job.doc][VirtualPreviewDpi].pages
      BY <2>1 DEF PageList
    <3>. QED
      BY <3>1, <3>2, RasterPages
  <2>2. CASE job.kind # "pdf"
    <3>1. pages = <<[number |-> 1, width |-> 0, height |-> 0, content |-> <<0, 0>>]>>
      BY <2>2 DEF PageList
    <3>2. [number |-> 1, width |-> 0, height |-> 0, content |-> <<0, 0>>] \in Sheet
      BY DEF Sheet, Size
    <3>. QED
      BY <3>1, <3>2
  <2>. QED
    BY <2>1, <2>2
<1>7. x \in {"delay", "record"}
  OBVIOUS
<1>. HIDE DEF error, pages, x
<1>8. error # "none" => JobOK(Settled(job, error))
  BY <1>3, <1>5, FailedOK DEF Errors
<1>9. JobOK(Settled(job, "DocumentRender")) /\ JobOK(Settled(job, "BackendUnavailable"))
  BY <1>3, FailedOK DEF Errors
<1>10. JobOK(r)
  <2>1. r \in JobState
    <3>. DEFINE q == [job EXCEPT !.preview = pages]
    <3>1. q \in JobState
      BY <1>3, <1>6 DEF JobState
    <3>2. r = [q EXCEPT !.pc = x]
      OBVIOUS
    <3>. HIDE DEF q, r
    <3>. QED
      BY <1>7, <3>1, <3>2 DEF JobState, Virtual
  <2>2. /\ r.printer = job.printer /\ r.doc = job.doc /\ r.pc = x /\ r.kind = job.kind
        /\ r.exact = job.exact /\ r.worker = job.worker /\ r.simulation = job.simulation
        /\ r.handed = job.handed
    BY <1>3 DEF JobState
  <2>. HIDE DEF r
  <2>3. HoldsAt(r, x)
    BY <1>3, <1>7, <2>2 DEF HoldsAt, Routed, Network, Queue, Virtual
  <2>4. PlaceOK(r) /\ PaperOK(r)
    BY <1>3, <1>7, <2>2, <2>3 DEF PlaceOK, PaperOK
  <2>. QED
    BY <2>1, <2>2, <2>4, Preparing DEF JobOK
<1>. HIDE DEF r
<1>. QED
  BY <1>2, <1>8, <1>9, <1>10, UpdateStep

LEMMA DelayStep ==
  ASSUME Invariant, Delay
  PROVE  Invariant'
<1>1. /\ job.pc = "delay"
      /\ Update(Settled(job, "Cancelled")) \/ Update([job EXCEPT !.pc = "record"])
  BY DEF Delay
<1>2. HoldsAt(job, "delay") /\ job.handed = "none"
  BY <1>1, Preparing DEF PlaceOK
<1>3. HoldsAt(job, "record")
  BY <1>2 DEF HoldsAt, Network, Queue, Virtual
<1>4. JobOK([job EXCEPT !.pc = "record"])
  BY <1>2, <1>3, Moved DEF Places, Virtual
<1>5. JobOK(Settled(job, "Cancelled"))
  BY <1>2, FailedOK DEF Errors
<1>. QED
  BY <1>1, <1>4, <1>5, UpdateStep

LEMMA RecordOutcomeStep ==
  ASSUME Invariant, RecordOutcome
  PROVE  Invariant'
<1>. DEFINE error == SimulatedError(job.simulation)
            h     == IF error = "none" THEN "whole" ELSE "none"
            j     == [job EXCEPT !.handed = h]
            entry == Entry(job)
<1>1. job.pc = "record"
  BY DEF RecordOutcome
<1>2. \/ Update(Settled(job, "Cancelled"))
      \/ /\ job' = Settled(j, error) /\ UNCHANGED detached
         /\ device' = IF job.orphan THEN device ELSE Record(device, entry)
  BY DEF RecordOutcome
<1>3. HoldsAt(job, "record") /\ job.handed = "none" /\ job \in JobState /\ job.exact
  BY <1>1, Preparing DEF PlaceOK
<1>4. JobOK(Settled(job, "Cancelled"))
  BY <1>3, FailedOK DEF Errors
<1>5. ASSUME job' = Settled(j, error), UNCHANGED detached,
             device' = IF job.orphan THEN device ELSE Record(device, entry)
      PROVE  Invariant'
  <2>1. job.simulation \in Policies
    BY <1>3 DEF HoldsAt
  <2>2. error \in {"none", "SimulatedFailure", "Connectivity"}
    BY <2>1 DEF SimulatedError, Policies
  <2>3. error \in Errors
    BY <2>2 DEF Errors
  <2>. HIDE DEF error
  <2>4. h \in Handed /\ (error = "none" => h = "whole") /\ (error # "none" => h = "none")
    BY DEF Handed
  <2>. HIDE DEF h
  <2>5. j \in JobState /\ j.exact = job.exact /\ j.handed = h
    <3>1. job \in JobState /\ h \in Handed
      BY <1>3, <2>4
    <3>2. j \in JobState
      BY <3>1 DEF JobState
    <3>. QED
      BY <3>1 DEF JobState
  <2>. HIDE DEF j
  <2>6. JobOK(job')
    BY <1>3, <1>5, <2>3, <2>4, <2>5, SettledOK
  <2>7. entry \in HistoryEntry
    <3>1. job.bytes \in Nat /\ job.preview \in Seq(Sheet)
      BY <1>3 DEF JobState
    <3>2. RasterBytes(job.preview) \in Int
      BY <3>1, RasterBytesType
    <3>. QED
      BY <3>1, <3>2 DEF HistoryEntry, Entry
  <2>. HIDE DEF entry
  <2>8. device \in DeviceState /\ Accounted(device)
    BY DEF Invariant, DeviceOK
  <2>9. Record(device, entry) \in DeviceState /\ Accounted(Record(device, entry))
    BY <2>7, <2>8, RecordAccounts
  <2>10. device' = device \/ device' = Record(device, entry)
    BY <1>5
  <2>11. device' \in DeviceState /\ Accounted(device')
    BY <2>8, <2>9, <2>10
  <2>. QED
    BY <1>5, <2>6, <2>11 DEF Invariant, DeviceOK, DetachedOK, Accounted
<1>. QED
  BY <1>2, <1>4, <1>5, UpdateStep
\* A user's command that leaves the accounting of the device in order.
LEMMA CommandStep ==
  ASSUME Invariant, NEW dev, Command(dev), UNCHANGED <<job, detached>>,
         dev \in DeviceState, Accounted(dev)
  PROVE  Invariant'
<1>1. device' = dev
  BY DEF Command
<1>2. DeviceOK'
  BY <1>1 DEF DeviceOK, Accounted
<1>. QED
  BY <1>2 DEF Invariant, DetachedOK

LEMMA SetPolicyStep ==
  ASSUME Invariant, SetPolicy
  PROVE  Invariant'
<1>1. PICK policy \in Policies :
        /\ Command([device EXCEPT !.registered = TRUE, !.policy = policy])
        /\ UNCHANGED <<platform, job, detached>>
  BY DEF SetPolicy
<1>. DEFINE dev == [device EXCEPT !.registered = TRUE, !.policy = policy]
<1>2. device \in DeviceState /\ Accounted(device)
  BY DEF Invariant, DeviceOK
<1>3. dev \in DeviceState /\ dev.history = device.history /\ dev.retained = device.retained
  BY <1>2 DEF DeviceState
<1>4. Command(dev) /\ UNCHANGED <<job, detached>>
  BY <1>1
<1>. HIDE DEF dev
<1>5. Accounted(dev)
  BY <1>2, <1>3 DEF Accounted
<1>. QED
  BY <1>3, <1>4, <1>5, CommandStep

\* An empty history is accounted for.
LEMMA EmptyAccounted ==
  ASSUME NEW dev, dev.history = << >>, dev.retained = 0
  PROVE  Accounted(dev)
<1>1. MaxHistory \in Nat
  BY PrintingAssumption
<1>2. Len(dev.history) = 0
  OBVIOUS
<1>3. Total(dev.history) = 0
  BY TotalFacts
<1>. QED
  BY <1>1, <1>2, <1>3 DEF Accounted

LEMMA ClearHistoryStep ==
  ASSUME Invariant, ClearHistory
  PROVE  Invariant'
<1>. DEFINE dev == [device EXCEPT !.history = << >>, !.retained = 0]
<1>1. Command(dev) /\ UNCHANGED <<job, detached>>
  BY DEF ClearHistory
<1>2. device \in DeviceState
  BY DEF Invariant, DeviceOK
<1>3. dev \in DeviceState /\ dev.history = << >> /\ dev.retained = 0
  <2>. DEFINE empty == << >>
              zero  == 0
  <2>1. empty \in Seq(HistoryEntry) /\ zero \in Int
    OBVIOUS
  <2>2. dev = [device EXCEPT !.history = empty, !.retained = zero]
    OBVIOUS
  <2>. HIDE DEF empty, zero, dev
  <2>3. dev \in DeviceState /\ dev.history = empty /\ dev.retained = zero
    BY <1>2, <2>1, <2>2 DEF DeviceState
  <2>. QED
    BY <2>3 DEF empty, zero
<1>. HIDE DEF dev
<1>. QED
  BY <1>1, <1>3, EmptyAccounted, CommandStep

LEMMA FreshOK == Fresh \in DeviceState /\ Accounted(Fresh)
<1>1. Fresh \in DeviceState /\ Fresh.history = << >> /\ Fresh.retained = 0
  BY DEF Fresh, DeviceState, Policies
<1>. QED
  BY <1>1, EmptyAccounted

LEMMA RemoveDeviceStep ==
  ASSUME Invariant, RemoveDevice
  PROVE  Invariant'
<1>. DEFINE dev    == [Fresh EXCEPT !.registered = FALSE]
            orphan == job.pc \in {"preview", "delay", "record"} \/ job.orphan
            r      == [job EXCEPT !.orphan = orphan]
<1>1. job \in JobState /\ PlaceOK(job) /\ PaperOK(job) /\ WorkerOK(job.worker)
  BY Preparing
<1>2. Command(dev) /\ job' = r /\ UNCHANGED detached
  BY DEF RemoveDevice
<1>3. dev \in DeviceState /\ dev.history = << >> /\ dev.retained = 0
  BY FreshOK DEF DeviceState, Fresh
<1>. HIDE DEF dev
<1>4. DeviceOK'
  <2>1. Accounted(dev) /\ device' = dev
    BY <1>2, <1>3, EmptyAccounted DEF Command
  <2>. QED
    BY <1>3, <2>1 DEF DeviceOK, Accounted
<1>5. orphan \in BOOLEAN
  OBVIOUS
<1>. HIDE DEF orphan
<1>6. r \in JobState
  BY <1>1, <1>5 DEF JobState
<1>7. /\ r.printer = job.printer /\ r.doc = job.doc /\ r.pc = job.pc /\ r.kind = job.kind
      /\ r.exact = job.exact /\ r.worker = job.worker /\ r.simulation = job.simulation
      /\ r.handed = job.handed /\ r.lp = job.lp /\ r.error = job.error /\ r.told = job.told
  BY <1>1 DEF JobState
<1>. HIDE DEF r
<1>8. PlaceOK(r)
  BY <1>1, <1>7 DEF PlaceOK, HoldsAt, Routed
<1>9. PaperOK(r)
  BY <1>1, <1>7 DEF PaperOK
<1>10. JobOK(r)
  BY <1>1, <1>6, <1>7, <1>8, <1>9 DEF JobOK
<1>. QED
  BY <1>2, <1>4, <1>10 DEF Invariant, DetachedOK

-----------------------------------------------------------------------------
(* The theorems.                                                           *)

LEMMA InvariantStart == Init => Invariant
<1>. SUFFICES ASSUME Init PROVE Invariant
  OBVIOUS
<1>1. job = NoJob /\ detached = << >> /\ device = Record(Fresh, [bytes |-> 1000])
  BY DEF Init
<1>2. /\ NoJob.pc = "done" /\ NoJob.worker = NoWorker /\ NoJob.exact /\ NoJob.handed = "none"
      /\ NoJob.told = "none"
  BY DEF NoJob
<1>3. PlaceOK(NoJob) /\ PaperOK(NoJob)
  BY <1>2 DEF PlaceOK, HoldsAt, PaperOK, NoWorker, Network, Queue, Virtual
<1>4. JobOK(NoJob)
  BY <1>2, <1>3, NoJobState, NoWorkerOK DEF JobOK
<1>5. DetachedOK
  BY <1>1 DEF DetachedOK
<1>6. DeviceOK
  <2>. DEFINE entry == [bytes |-> 1000]
  <2>1. entry \in HistoryEntry
    BY DEF HistoryEntry
  <2>2. device = Record(Fresh, entry)
    BY <1>1
  <2>. HIDE DEF entry
  <2>. QED
    BY <2>1, <2>2, FreshOK, RecordAccounts DEF DeviceOK
<1>. QED
  BY <1>1, <1>4, <1>5, <1>6 DEF Invariant

LEMMA InvariantStep == Invariant /\ [Next]_vars => Invariant'
<1>. SUFFICES ASSUME Invariant, [Next]_vars PROVE Invariant'
  OBVIOUS
<1>1. CASE Task
  BY <1>1, ResolveStep, RenderReceiptStep, RouteStep, ValidatedStep, ClaimStep, SubmitStep,
     SpawnStep, LpExitedStep, WorkerDoneStep, TakeDeviceStep, PreviewStep, DelayStep,
     RecordOutcomeStep DEF Task
<1>2. CASE Timers
  BY <1>2, FetchDeadlineStep, AbandonStep DEF Timers, Deadline
<1>3. CASE Outside
  <2>1. CASE \E p \in Printers, d \in Documents, local \in BOOLEAN : Begin(p, d, local)
    BY <2>1, BeginStep
  <2>2. CASE CancelWins
    BY <2>2, AbandonStep DEF CancelWins
  <2>. QED
    BY <1>3, <2>1, <2>2, CancelStep, FetchStep, ConnectStep, WriteMoreStep, WrittenStep,
       LpStepStep, WorkerStepStep, DetachedStepStep, SetPolicyStep, ClearHistoryStep,
       RemoveDeviceStep DEF Outside
<1>4. CASE UNCHANGED vars
  <2>1. UNCHANGED <<job, detached, device>>
    BY <1>4 DEF vars
  <2>. QED
    BY <2>1, JobStep DEF Invariant
<1>. QED
  BY <1>1, <1>2, <1>3, <1>4 DEF Next

(* The invariant of a submission: what the preparation established holds   *)
(* at the backend, the paper is where the submission's place says it is,   *)
(* the calls to the driver come in order, also by the workers that outlive *)
(* their submission, and the history of the virtual printer is accounted   *)
(* for.                                                                    *)
THEOREM PrintingInvariant == Spec => []Invariant
<1>1. Init => Invariant
  BY InvariantStart
<1>2. Invariant /\ [Next]_vars => Invariant'
  BY InvariantStep
<1>. QED
  BY <1>1, <1>2, PTL DEF Spec

(* For all printers, documents and platforms: no claimed job is refused    *)
(* because it went to a backend or a mode that does not take its kind.     *)
THEOREM RoutesTheorem == Spec => []RoutesAgree
<1>1. Invariant => RoutesAgree
  <2>. SUFFICES ASSUME Invariant PROVE RoutesAgree
    OBVIOUS
  <2>1. job.error \in Errors
    BY Preparing DEF JobState
  <2>. QED
    BY <2>1 DEF Errors, RoutesAgree
<1>. QED
  BY <1>1, PrintingInvariant, PTL

(* A recorded success means that the backend was handed the whole document *)
(* that was declared.  Whatever the network, lp, the driver, the deadlines *)
(* and cancellations do, it was handed anything else only by a real        *)
(* backend, and then the record says that the submission was cancelled,    *)
(* timed out, lost its connection or was rejected.                         *)
THEOREM OutcomeTheorem == Spec => []HonestOutcome
<1>1. Invariant => HonestOutcome
  <2>. SUFFICES ASSUME Invariant PROVE HonestOutcome
    OBVIOUS
  <2>1. PaperOK(job) /\ job.exact
    BY Preparing
  <2>. QED
    BY <2>1 DEF PaperOK, HonestOutcome, Uncertain
<1>. QED
  BY <1>1, PrintingInvariant, PTL

(* Every print worker, waited for or not, that has ended has released its  *)
(* device context and has ended or aborted its document; it succeeded      *)
(* exactly when the document was ended.                                    *)
THEOREM DriverTheorem == Spec => []DriverReleased
<1>1. Invariant => DriverReleased
  <2>. SUFFICES ASSUME Invariant, NEW w \in Workers, w.stage = "gone"
                PROVE  /\ ~w.open /\ w.document # "started"
                       /\ w.document = "ended" => w.todo = << >> /\ w.result = "none"
                       /\ w.drawn # << >> /\ w.result = "none" => w.document = "ended"
    BY DEF DriverReleased
  <2>1. w \in WorkerState /\ WorkerOK(w)
    <3>1. CASE w = job.worker
      BY <3>1, Preparing
    <3>2. CASE \E i \in 1 .. Len(detached) : w = detached[i].worker
      <4>1. PICK i \in 1 .. Len(detached) : w = detached[i].worker
        BY <3>2
      <4>2. detached[i] \in Outliving
        BY ElementOfSeq DEF Invariant, DetachedOK
      <4>. QED
        BY <4>1, <4>2 DEF Outliving
    <3>. QED
      BY <3>1, <3>2 DEF Workers
  <2>2. w.document \in {"none", "started", "ended", "aborted"}
    BY <2>1 DEF WorkerState
  <2>. QED
    BY <2>1, <2>2 DEF WorkerOK
<1>. QED
  BY <1>1, PrintingInvariant, PTL

(* For all limits, at least one entry: the retained bytes of a virtual     *)
(* printer are those of its history, which stays within both limits unless *)
(* its only entry is over the limit of bytes.                              *)
THEOREM HistoryTheorem == Spec => []HistoryAccounted
<1>1. Invariant => HistoryAccounted
  BY DEF Invariant, DeviceOK, Accounted, HistoryAccounted
<1>. QED
  BY <1>1, PrintingInvariant, PTL

-----------------------------------------------------------------------------
(* The pages of a PDF, from its raster to the paper.                       *)

\* How far a print worker has come with the pages of its PDF.
OnPaper(w, d) ==
  d.kind = "pdf" =>
    LET raster == Raster[d][DriverPdfDpi]
    IN  /\ w.stage \in {"open", "startDocument", "page", "endDocument"} =>
             ~raster.error /\ w.drawn \o w.todo = raster.pages
        /\ w.document = "ended" => ~raster.error /\ w.drawn = raster.pages
        /\ w.document \in {"started", "ended"} => raster.pages # << >>

\* What is known of the pages of a submission.
PagesOK(j) ==
  /\ j.pc = "render" \/ j.kind \in {"escpos", "raster"} => j.doc.kind # "pdf"
  /\ OnPaper(j.worker, j.doc)
  /\ j.preview # << >> /\ j.doc.kind = "pdf" =>
       /\ ~Raster[j.doc][VirtualPreviewDpi].error
       /\ j.preview = Raster[j.doc][VirtualPreviewDpi].pages

DetachedPagesOK ==
  \A i \in 1 .. Len(detached) : OnPaper(detached[i].worker, detached[i].doc)

PagesInvariant == PagesOK(job) /\ DetachedPagesOK

\* Drawing a page moves it from what is left to what is on the paper.
LEMMA NextPage ==
  ASSUME NEW S, NEW s \in Seq(S), NEW t \in Seq(S), t # << >>
  PROVE  Append(s, Head(t)) \o Tail(t) = s \o t
<1>1. /\ Head(t) \in S /\ Tail(t) \in Seq(S) /\ Len(t) \in Nat /\ Len(t) # 0
  BY HeadTailProperties, LenProperties, EmptySeq
<1>2. << Head(t) >> \o Tail(t) = t
  <2>1. SubSeq(t, 1, Len(t)) = << t[1] >> \o SubSeq(t, 2, Len(t))
    <3>1. 1 \in 1 .. Len(t) /\ Len(t) \in 1 .. Len(t) /\ 1 + 1 = 2
      BY <1>1
    <3>. QED
      BY <3>1, SubSeqRecursiveFirst
  <2>2. SubSeq(t, 1, Len(t)) = t
    BY SubSeqFull
  <2>3. Tail(t) = SubSeq(t, 2, Len(t)) /\ Head(t) = t[1]
    BY TailIsSubSeq
  <2>. QED
    BY <2>1, <2>2, <2>3
<1>3. << Head(t) >> \in Seq(S)
  BY <1>1
<1>4. Append(s, Head(t)) = s \o << Head(t) >>
  BY <1>1, AppendIsConcat
<1>5. (s \o << Head(t) >>) \o Tail(t) = s \o (<< Head(t) >> \o Tail(t))
  BY <1>1, <1>3, ConcatAssociative
<1>. QED
  BY <1>2, <1>4, <1>5

\* No page is skipped, doubled or left out by the worker.
LEMMA WorkerPages ==
  ASSUME NEW w \in WorkerState, WorkerOK(w), NEW d \in Documents, OnPaper(w, d),
         NEW v \in WorkerSteps(w, d)
  PROVE  OnPaper(v, d)
<1>. SUFFICES ASSUME d.kind = "pdf" PROVE OnPaper(v, d)
  BY DEF OnPaper
<1>. DEFINE raster == Raster[d][DriverPdfDpi]
<1>1. d \in PdfsHere /\ raster.pages \in Seq(Sheet)
  BY RasterPages DEF PdfsHere
<1>2. /\ w.todo \in Seq(Sheet) /\ w.drawn \in Seq(Sheet)
      /\ w.stage \in {"none", "raw", "raster", "open", "startDocument", "page", "endDocument",
                      "abort", "close", "gone"}
  BY DEF WorkerState
<1>3. /\ w.stage \in {"open", "startDocument", "page", "endDocument"} =>
           ~raster.error /\ w.drawn \o w.todo = raster.pages
      /\ w.document = "ended" => ~raster.error /\ w.drawn = raster.pages
      /\ w.document \in {"started", "ended"} => raster.pages # << >>
  BY DEF OnPaper
<1>. HIDE DEF raster
<1>4. OnPaper(v, d) <=>
        /\ v.stage \in {"open", "startDocument", "page", "endDocument"} =>
             ~raster.error /\ v.drawn \o v.todo = raster.pages
        /\ v.document = "ended" => ~raster.error /\ v.drawn = raster.pages
        /\ v.document \in {"started", "ended"} => raster.pages # << >>
  BY DEF OnPaper, raster
<1>5. ASSUME w.stage \in {"raw", "raster", "open", "none", "gone"}, v.stage = "gone",
             v.document = w.document, v.drawn = w.drawn
      PROVE  OnPaper(v, d)
  BY <1>3, <1>4, <1>5
<1>6. CASE w.stage = "raw"
  <2>1. \/ v = Gone(w, "Connectivity")
        \/ \E h \in Handed, r \in {"none", "Rejected"} : v = [Gone(w, r) EXCEPT !.handed = h]
    BY <1>6 DEF WorkerSteps, PrintedRaw, Handed
  <2>2. v.stage = "gone" /\ v.document = w.document /\ v.drawn = w.drawn
    BY <2>1 DEF Gone, WorkerState
  <2>. QED
    BY <1>5, <1>6, <2>2
<1>7. CASE w.stage = "raster"
  <2>1. \/ v \in {Gone(w, "Timeout"), Gone(w, "DocumentRender")}
        \/ ~raster.error /\ v = [w EXCEPT !.stage = "open", !.todo = raster.pages]
    BY <1>7 DEF WorkerSteps, raster
  <2>2. CASE v \in {Gone(w, "Timeout"), Gone(w, "DocumentRender")}
    <3>1. v.stage = "gone" /\ v.document = w.document /\ v.drawn = w.drawn
      BY <2>2 DEF Gone, WorkerState
    <3>. QED
      BY <1>5, <1>7, <3>1
  <2>3. CASE ~raster.error /\ v = [w EXCEPT !.stage = "open", !.todo = raster.pages]
    <3>1. w.drawn = << >> /\ w.document = "none"
      BY <1>7 DEF WorkerOK
    <3>2. v.drawn = << >> /\ v.todo = raster.pages /\ v.document = "none"
      BY <2>3, <3>1 DEF WorkerState
    <3>3. << >> \o raster.pages = raster.pages
      BY <1>1, ConcatEmptySeq
    <3>. QED
      BY <1>4, <2>3, <3>2, <3>3
  <2>. QED
    BY <2>1, <2>2, <2>3
<1>8. CASE w.stage = "open"
  <2>1. v = Gone(w, "Rejected") \/ v = [w EXCEPT !.stage = "startDocument", !.open = TRUE]
    BY <1>8 DEF WorkerSteps
  <2>2. v.todo = w.todo /\ v.document = w.document /\ v.drawn = w.drawn
    BY <2>1 DEF Gone, WorkerState
  <2>. QED
    BY <1>3, <1>4, <1>8, <2>2
<1>9. CASE w.stage = "startDocument"
  <2>1. v \in {[w EXCEPT !.stage = "close", !.result = "Rejected"],
               [w EXCEPT !.stage = "page", !.document = "started"]}
    BY <1>9 DEF WorkerSteps
  <2>2. v.todo = w.todo /\ v.document \in {w.document, "started"} /\ v.drawn = w.drawn
    BY <2>1 DEF WorkerState
  <2>3. raster.pages # << >>
    <3>1. w.todo # << >> /\ w.drawn \o w.todo = raster.pages
      BY <1>3, <1>9 DEF WorkerOK
    <3>2. w.drawn \o w.todo = << >> => w.todo = << >>
      BY <1>2, ConcatEqualIffEmpty
    <3>. QED
      BY <3>1, <3>2
  <2>. QED
    BY <1>3, <1>4, <1>9, <2>2, <2>3
<1>10. CASE w.document = "started" /\ v.stage = "abort" /\ v.document = "started"
  BY <1>3, <1>4, <1>10
<1>11. CASE w.stage = "page"
  <2>. DEFINE drawn == Append(w.drawn, Head(w.todo))
              rest  == Tail(w.todo)
              next  == IF Len(w.todo) = 1 THEN "endDocument" ELSE "page"
  <2>1. w.todo # << >> /\ w.document = "started"
    BY <1>11 DEF WorkerOK
  <2>2. \/ v = [w EXCEPT !.stage = "abort", !.result = "Rejected"]
        \/ v = [[w EXCEPT !.drawn = drawn, !.handed = "part"]
                EXCEPT !.stage = "abort", !.result = "Rejected"]
        \/ v = [[w EXCEPT !.drawn = drawn, !.handed = "part"] EXCEPT !.todo = rest, !.stage = next]
    <3>1. v \in {GdiFailed(w), GdiFailed(Drawn(w)), PageDone(w)}
      BY <1>11 DEF WorkerSteps
    <3>2. /\ Drawn(w) = [w EXCEPT !.drawn = drawn, !.handed = "part"]
          /\ Drawn(w).todo = w.todo
      BY DEF Drawn, WorkerState
    <3>3. PageDone(w) = [Drawn(w) EXCEPT !.todo = rest, !.stage = next]
      BY <3>2 DEF PageDone
    <3>4. /\ GdiFailed(Drawn(w)) = [Drawn(w) EXCEPT !.stage = "abort", !.result = "Rejected"]
          /\ GdiFailed(w) = [w EXCEPT !.stage = "abort", !.result = "Rejected"]
      BY DEF GdiFailed
    <3>. HIDE DEF drawn, rest, next
    <3>. QED
      BY <3>1, <3>2, <3>3, <3>4
  <2>3. drawn \o rest = w.drawn \o w.todo
    BY <1>2, <2>1, NextPage
  <2>. HIDE DEF drawn, rest, next
  <2>4. CASE v = [[w EXCEPT !.drawn = drawn, !.handed = "part"]
                  EXCEPT !.todo = rest, !.stage = next]
    <3>1. v.drawn = drawn /\ v.todo = rest /\ v.document = "started"
      BY <2>1, <2>4 DEF WorkerState
    <3>. QED
      BY <1>3, <1>4, <1>11, <2>1, <2>3, <3>1
  <2>5. CASE v.stage = "abort" /\ v.document = w.document
    BY <1>10, <2>1, <2>5
  <2>6. \/ v = [[w EXCEPT !.drawn = drawn, !.handed = "part"] EXCEPT !.todo = rest, !.stage = next]
        \/ v.stage = "abort" /\ v.document = w.document
    BY <2>2 DEF WorkerState
  <2>. QED
    BY <2>4, <2>5, <2>6
<1>12. CASE w.stage = "endDocument"
  <2>1. v \in {GdiFailed(w), DocumentEnded(w)}
    BY <1>12 DEF WorkerSteps
  <2>2. w.todo = << >> /\ w.document = "started" /\ w.drawn \o << >> = w.drawn
    BY <1>2, <1>12, ConcatEmptySeq DEF WorkerOK
  <2>3. CASE v = GdiFailed(w)
    BY <1>10, <2>2, <2>3 DEF GdiFailed, WorkerState
  <2>4. CASE v = DocumentEnded(w)
    <3>1. v.stage = "close" /\ v.drawn = w.drawn
      BY <2>4 DEF DocumentEnded, WorkerState
    <3>. QED
      BY <1>3, <1>4, <1>12, <2>2, <3>1
  <2>. QED
    BY <2>1, <2>3, <2>4
<1>13. CASE w.stage = "abort"
  <2>1. v = [w EXCEPT !.stage = "close", !.document = "aborted"]
    BY <1>13 DEF WorkerSteps
  <2>2. v.stage = "close" /\ v.document = "aborted"
    BY <2>1 DEF WorkerState
  <2>. QED
    BY <1>4, <2>2
<1>14. CASE w.stage = "close"
  <2>1. v = [w EXCEPT !.stage = "gone", !.open = FALSE]
    BY <1>14 DEF WorkerSteps
  <2>2. v.stage = "gone" /\ v.document = w.document /\ v.drawn = w.drawn
    BY <2>1 DEF WorkerState
  <2>. QED
    BY <1>3, <1>4, <2>2
<1>15. CASE w.stage \in {"none", "gone"}
  BY <1>15 DEF WorkerSteps
<1>. QED
  BY <1>2, <1>6, <1>7, <1>8, <1>9, <1>11, <1>12, <1>13, <1>14, <1>15

\* Nothing is left of a submission that returned.
LEMMA ReturnedPages ==
  ASSUME NEW j, NEW error, NEW told
  PROVE  /\ PagesOK(Returned(j, error, told))
         /\ PagesOK(Refused(j, error)) /\ PagesOK(Settled(j, error))
<1>1. ASSUME NEW t PROVE PagesOK(Returned(j, error, t))
  <2>. DEFINE r == Returned(j, error, t)
  <2>1. r.pc = "done" /\ r.kind = "none" /\ r.doc.kind = "none" /\ r.preview = << >>
    BY DEF Returned, NoJob
  <2>. HIDE DEF r
  <2>2. PagesOK(r)
    BY <2>1 DEF PagesOK, OnPaper
  <2>. QED
    BY <2>2 DEF r
<1>. QED
  BY <1>1 DEF Refused, Settled

\* A step that leaves document, kind, worker and preview alone.
LEMMA PagesKept ==
  ASSUME PagesOK(job), NEW j, j.doc = job.doc, j.kind = job.kind, j.worker = job.worker,
         j.preview = job.preview, j.pc # "render" \/ j.pc = job.pc
  PROVE  PagesOK(j)
  BY DEF PagesOK

LEMMA PreparationPages ==
  ASSUME Invariant, PagesInvariant,
         \/ Resolve \/ RenderReceipt \/ Route \/ Fetch \/ FetchDeadline \/ Validated \/ Claim
         \/ Cancel
  PROVE  PagesOK(job') /\ UNCHANGED detached
<1>0. PagesOK(job) /\ job \in JobState
  BY Preparing DEF PagesInvariant
<1>1. ASSUME NEW x \in Places, x # "render", job' = [job EXCEPT !.pc = x] PROVE PagesOK(job')
  <2>1. /\ job'.doc = job.doc /\ job'.kind = job.kind /\ job'.worker = job.worker
        /\ job'.preview = job.preview /\ job'.pc = x
    BY <1>0, <1>1 DEF JobState
  <2>. QED
    BY <1>0, <1>1, <2>1, PagesKept
<1>2. CASE Resolve
  <2>. DEFINE x == IF job.doc.kind = "pdf" THEN "route" ELSE "render"
  <2>1. /\ \/ job' = Refused(job, "NotFound") \/ job' = Refused(job, "Disabled")
           \/ job' = [job EXCEPT !.pc = x]
        /\ UNCHANGED detached
    BY <1>2 DEF Resolve, Update
  <2>2. x = "route" \/ (x = "render" /\ job.doc.kind # "pdf")
    OBVIOUS
  <2>. HIDE DEF x
  <2>3. ASSUME job' = [job EXCEPT !.pc = x] PROVE PagesOK(job')
    <3>1. /\ job'.doc = job.doc /\ job'.kind = job.kind /\ job'.worker = job.worker
          /\ job'.preview = job.preview /\ job'.pc = x
      BY <1>0, <2>3 DEF JobState
    <3>. QED
      BY <1>0, <2>2, <3>1 DEF PagesOK
  <2>. QED
    BY <2>1, <2>3, ReturnedPages
<1>3. CASE RenderReceipt
  <2>. DEFINE target == RenderTarget(job.printer)
              r      == [job EXCEPT !.pc = "claim", !.kind = target, !.bytes = job.doc.bytes]
  <2>1. /\ \/ job' = Refused(job, "ModeUnsupported") \/ job' = Refused(job, "RenderFailed")
           \/ job' = r
        /\ UNCHANGED detached /\ job.pc = "render"
    BY <1>3 DEF RenderReceipt, Update
  <2>2. /\ r.doc = job.doc /\ r.worker = job.worker /\ r.preview = job.preview
    BY <1>0 DEF JobState
  <2>. HIDE DEF r
  <2>3. PagesOK(r)
    BY <1>0, <2>1, <2>2 DEF PagesOK
  <2>. QED
    BY <2>1, <2>3, ReturnedPages
<1>4. CASE Route
  <2>. DEFINE x == IF job.local THEN "validate" ELSE "fetch"
  <2>1. /\ job' = Refused(job, "FormatUnsupported") \/ job' = [job EXCEPT !.pc = x]
        /\ UNCHANGED detached
    BY <1>4 DEF Route, Update
  <2>2. x \in Places /\ x # "render"
    BY DEF Places, Preparation
  <2>. HIDE DEF x
  <2>. QED
    BY <1>1, <2>1, <2>2, ReturnedPages
<1>5. CASE Fetch
  <2>1. CASE \E error \in {"Authorization", "Refused", "Gone", "FetchFailed"} :
               Update(Refused(job, error))
    BY <2>1, ReturnedPages DEF Update
  <2>2. CASE \E body \in Bodies :
               Update(IF FetchError(body) = "none"
                      THEN [job EXCEPT !.pc = "validate", !.exact = (body = "exact")]
                      ELSE Refused(job, FetchError(body)))
    <3>1. PICK body \in Bodies :
            Update(IF FetchError(body) = "none"
                   THEN [job EXCEPT !.pc = "validate", !.exact = (body = "exact")]
                   ELSE Refused(job, FetchError(body)))
      BY <2>2
    <3>. DEFINE exact == body = "exact"
                r     == [job EXCEPT !.pc = "validate", !.exact = exact]
    <3>2. (job' = r \/ job' = Refused(job, FetchError(body))) /\ UNCHANGED detached
      BY <3>1 DEF Update
    <3>. HIDE DEF exact
    <3>3. /\ r.doc = job.doc /\ r.kind = job.kind /\ r.worker = job.worker
          /\ r.preview = job.preview /\ r.pc = "validate"
      BY <1>0 DEF JobState
    <3>. HIDE DEF r
    <3>4. PagesOK(r)
      BY <1>0, <3>3, PagesKept
    <3>. QED
      BY <3>2, <3>4, ReturnedPages
  <2>. QED
    BY <1>5, <2>1, <2>2 DEF Fetch
<1>6. CASE FetchDeadline
  BY <1>6, ReturnedPages DEF FetchDeadline, Update
<1>7. CASE Validated
  <2>. DEFINE r == [job EXCEPT !.pc = "claim", !.kind = "pdf", !.bytes = job.doc.bytes]
  <2>1. (job' = Refused(job, ValidatePdf(job.doc)) \/ job' = r) /\ UNCHANGED detached
    BY <1>7 DEF Validated, Update
  <2>2. /\ r.doc = job.doc /\ r.worker = job.worker /\ r.preview = job.preview
        /\ r.pc = "claim" /\ r.kind = "pdf"
    BY <1>0 DEF JobState
  <2>. HIDE DEF r
  <2>3. PagesOK(r)
    BY <1>0, <2>2 DEF PagesOK
  <2>. QED
    BY <2>1, <2>3, ReturnedPages
<1>8. CASE Claim
  <2>1. /\ job' = Returned(job, "none", "Cancelled") \/ job' = [job EXCEPT !.pc = "submit"]
        /\ UNCHANGED detached
    BY <1>8 DEF Claim, Update
  <2>2. "submit" \in Places
    BY DEF Places, Preparation
  <2>. QED
    BY <1>1, <2>1, <2>2, ReturnedPages
<1>9. CASE Cancel
  <2>1. job' = [job EXCEPT !.cancelled = TRUE] /\ UNCHANGED detached
    BY <1>9 DEF Cancel, Update
  <2>2. /\ job'.doc = job.doc /\ job'.kind = job.kind /\ job'.worker = job.worker
        /\ job'.preview = job.preview /\ job'.pc = job.pc
    BY <1>0, <2>1 DEF JobState
  <2>. QED
    BY <1>0, <2>1, <2>2, PagesKept
<1>. QED
  BY <1>2, <1>3, <1>4, <1>5, <1>6, <1>7, <1>8, <1>9

\* A receipt has no pages of a PDF, and a PDF has none before it is rasterized.
LEMMA SubmitPages ==
  ASSUME Invariant, PagesInvariant, Submit
  PROVE  PagesOK(job') /\ UNCHANGED detached
<1>0. PagesOK(job) /\ job \in JobState
  BY Preparing DEF PagesInvariant
<1>. DEFINE w == NewWorker(job)
            r == [job EXCEPT !.pc = "worker", !.worker = w]
<1>1. job.pc = "submit" /\ UNCHANGED detached
  BY DEF Submit, Update
<1>2. Routed(job)
  <2>1. HoldsAt(job, "submit")
    BY <1>1, Preparing DEF PlaceOK
  <2>. QED
    BY <2>1 DEF HoldsAt
<1>3. \/ job' = Settled(job, AdmissionError(job))
      \/ \E x \in {"connect", "device", "spawn"} : job' = [job EXCEPT !.pc = x]
      \/ job' = r
  <2>. HIDE DEF r
  <2>. DEFINE sent == CASE job.printer.connection = "network" -> [job EXCEPT !.pc = "connect"]
                        [] job.printer.connection = "virtual" -> [job EXCEPT !.pc = "device"]
                        [] OTHER -> IF platform = "unix" THEN [job EXCEPT !.pc = "spawn"] ELSE r
  <2>1. job' = IF AdmissionError(job) # "none" THEN Settled(job, AdmissionError(job)) ELSE sent
    BY DEF Submit, Update, r
  <2>2. sent = r \/ \E x \in {"connect", "device", "spawn"} : sent = [job EXCEPT !.pc = x]
    OBVIOUS
  <2>. HIDE DEF sent
  <2>. QED
    BY <2>1, <2>2
<1>4. ASSUME NEW x \in {"connect", "device", "spawn"}, job' = [job EXCEPT !.pc = x]
      PROVE  PagesOK(job')
  <2>1. /\ job'.doc = job.doc /\ job'.kind = job.kind /\ job'.worker = job.worker
        /\ job'.preview = job.preview /\ job'.pc = x
    BY <1>0, <1>4 DEF JobState
  <2>. QED
    BY <1>0, <1>4, <2>1, PagesKept
<1>5. OnPaper(w, job.doc)
  <2>. SUFFICES ASSUME job.doc.kind = "pdf" PROVE OnPaper(w, job.doc)
    BY DEF OnPaper
  <2>1. job.kind = "pdf" /\ job.printer.mode = "driver"
    BY <1>0, <1>2 DEF Routed, PagesOK, PdfRoute
  <2>2. FirstStage(job) = "raster"
    BY <2>1 DEF FirstStage
  <2>3. w.stage = "raster" /\ w.document = "none"
    BY <2>2 DEF NewWorker, NoWorker
  <2>. HIDE DEF w
  <2>. QED
    BY <2>3 DEF OnPaper
<1>6. PagesOK(r)
  <2>. HIDE DEF w
  <2>1. /\ r.doc = job.doc /\ r.kind = job.kind /\ r.worker = w /\ r.preview = job.preview
        /\ r.pc = "worker"
    BY <1>0 DEF JobState
  <2>. HIDE DEF r
  <2>. QED
    BY <1>0, <1>5, <2>1 DEF PagesOK
<1>. QED
  BY <1>1, <1>3, <1>4, <1>6, ReturnedPages

\* The backends without pages.
LEMMA BackendPages ==
  ASSUME Invariant, PagesInvariant,
         \/ Connect \/ WriteMore \/ Written \/ Spawn \/ LpStep \/ LpExited \/ WorkerDone
         \/ TakeDevice \/ Delay \/ RecordOutcome \/ RemoveDevice
  PROVE  PagesOK(job') /\ UNCHANGED detached
<1>0. PagesOK(job) /\ job \in JobState
  BY Preparing DEF PagesInvariant
<1>1. ASSUME \E j, error : job' = Settled(j, error) PROVE PagesOK(job')
  BY <1>1, ReturnedPages
<1>2. ASSUME job'.doc = job.doc, job'.kind = job.kind, job'.worker = job.worker,
             job'.preview = job.preview, job'.pc # "render" \/ job'.pc = job.pc
      PROVE  PagesOK(job')
  BY <1>0, <1>2, PagesKept
<1>3. CASE Connect
  <2>1. /\ job' = Settled(job, "Connectivity") \/ job' = [job EXCEPT !.pc = "write"]
        /\ UNCHANGED detached
    BY <1>3 DEF Connect, Update
  <2>2. ASSUME job' = [job EXCEPT !.pc = "write"] PROVE PagesOK(job')
    BY <1>0, <1>2, <2>2 DEF JobState
  <2>. QED
    BY <1>1, <2>1, <2>2
<1>4. CASE WriteMore
  <2>1. job' = [job EXCEPT !.handed = More(@)] /\ UNCHANGED detached
    BY <1>4 DEF WriteMore, Update
  <2>. QED
    BY <1>0, <1>2, <2>1 DEF JobState
<1>5. CASE Written
  <2>1. (\E error : job' = Settled(job, error)) /\ UNCHANGED detached
    BY <1>5 DEF Written, Update
  <2>. QED
    BY <1>1, <2>1
<1>6. CASE Spawn
  <2>1. /\ (\E error : job' = Settled(job, error)) \/ job' = [job EXCEPT !.pc = "lp", !.lp = "running"]
        /\ UNCHANGED detached
    BY <1>6 DEF Spawn, Update
  <2>2. ASSUME job' = [job EXCEPT !.pc = "lp", !.lp = "running"] PROVE PagesOK(job')
    BY <1>0, <1>2, <2>2 DEF JobState
  <2>. QED
    BY <1>1, <2>1, <2>2
<1>7. CASE LpStep
  <2>1. /\ \/ job' = [job EXCEPT !.handed = More(@)]
           \/ job' = [job EXCEPT !.lp = "failed"] \/ job' = [job EXCEPT !.lp = "exited"]
        /\ UNCHANGED detached
    BY <1>7 DEF LpStep, Update
  <2>2. /\ job'.doc = job.doc /\ job'.kind = job.kind /\ job'.worker = job.worker
        /\ job'.preview = job.preview /\ job'.pc = job.pc
    BY <1>0, <2>1 DEF JobState
  <2>. QED
    BY <1>2, <2>1, <2>2
<1>8. CASE LpExited
  <2>1. (\E error : job' = Settled(job, error)) /\ UNCHANGED detached
    BY <1>8 DEF LpExited, Update
  <2>. QED
    BY <1>1, <2>1
<1>9. CASE WorkerDone
  <2>1. job' = Settled(AtWorker(job), job.worker.result) /\ UNCHANGED detached
    BY <1>9 DEF WorkerDone, Update
  <2>. QED
    BY <1>1, <2>1
<1>10. CASE TakeDevice
  <2>. DEFINE policy == device.policy
  <2>1. /\ \/ job' = Settled(job, "BackendUnavailable")
           \/ job' = [job EXCEPT !.pc = "preview", !.simulation = policy]
        /\ UNCHANGED detached
    BY <1>10 DEF TakeDevice, Update
  <2>. HIDE DEF policy
  <2>2. ASSUME job' = [job EXCEPT !.pc = "preview", !.simulation = policy] PROVE PagesOK(job')
    BY <1>0, <1>2, <2>2 DEF JobState
  <2>. QED
    BY <1>1, <2>1, <2>2
<1>11. CASE Delay
  <2>1. /\ job' = Settled(job, "Cancelled") \/ job' = [job EXCEPT !.pc = "record"]
        /\ UNCHANGED detached
    BY <1>11 DEF Delay, Update
  <2>2. ASSUME job' = [job EXCEPT !.pc = "record"] PROVE PagesOK(job')
    BY <1>0, <1>2, <2>2 DEF JobState
  <2>. QED
    BY <1>1, <2>1, <2>2
<1>12. CASE RecordOutcome
  <2>1. (\E j, error : job' = Settled(j, error)) /\ UNCHANGED detached
    BY <1>12 DEF RecordOutcome, Update
  <2>. QED
    BY <1>1, <2>1
<1>13. CASE RemoveDevice
  <2>. DEFINE orphan == job.pc \in {"preview", "delay", "record"} \/ job.orphan
  <2>1. job' = [job EXCEPT !.orphan = orphan] /\ UNCHANGED detached
    BY <1>13 DEF RemoveDevice
  <2>. HIDE DEF orphan
  <2>. QED
    BY <1>0, <1>2, <2>1 DEF JobState
<1>. QED
  BY <1>3, <1>4, <1>5, <1>6, <1>7, <1>8, <1>9, <1>10, <1>11, <1>12, <1>13

LEMMA BeginPages ==
  ASSUME NEW p, NEW d, NEW local, Begin(p, d, local)
  PROVE  PagesOK(job') /\ UNCHANGED detached
<1>1. /\ job'.pc = "resolve" /\ job'.kind = "none" /\ job'.doc = d /\ job'.worker = NoWorker
      /\ job'.preview = << >> /\ UNCHANGED detached
  BY DEF Begin, NoJob
<1>2. NoWorker.stage = "none" /\ NoWorker.document = "none"
  BY DEF NoWorker
<1>. QED
  BY <1>1, <1>2 DEF PagesOK, OnPaper

LEMMA WorkerStepPages ==
  ASSUME Invariant, PagesInvariant, WorkerStep
  PROVE  PagesOK(job') /\ UNCHANGED detached
<1>1. PICK w \in WorkerSteps(job.worker, job.doc) :
        job' = [job EXCEPT !.worker = w] /\ UNCHANGED detached
  BY DEF WorkerStep, Update
<1>2. /\ PagesOK(job) /\ job \in JobState /\ WorkerOK(job.worker) /\ job.worker \in WorkerState
      /\ OnPaper(job.worker, job.doc)
  BY Preparing DEF PagesInvariant, PagesOK
<1>3. job.doc \in Documents
  <2>1. job.pc = "worker"
    BY DEF WorkerStep
  <2>2. HoldsAt(job, "worker")
    BY <2>1, Preparing DEF PlaceOK
  <2>. QED
    BY <2>2 DEF HoldsAt
<1>4. OnPaper(w, job.doc)
  BY <1>1, <1>2, <1>3, WorkerPages
<1>5. /\ job'.doc = job.doc /\ job'.kind = job.kind /\ job'.worker = w
      /\ job'.preview = job.preview /\ job'.pc = job.pc
  BY <1>1, <1>2 DEF JobState
<1>. QED
  BY <1>1, <1>2, <1>4, <1>5 DEF PagesOK

LEMMA PreviewPages ==
  ASSUME Invariant, PagesInvariant, Preview
  PROVE  PagesOK(job') /\ UNCHANGED detached
<1>. DEFINE pages == PageList(job, VirtualPreviewDpi)
            x     == IF job.simulation = "Delay" THEN "delay" ELSE "record"
            r     == [job EXCEPT !.preview = pages, !.pc = x]
<1>0. PagesOK(job) /\ job \in JobState
  BY Preparing DEF PagesInvariant
<1>1. /\ \/ \E error : job' = Settled(job, error)
         \/ PreviewError(job) = "none" /\ job' = r
      /\ UNCHANGED detached
  BY DEF Preview, Update
<1>2. Routed(job)
  <2>1. job.pc = "preview"
    BY DEF Preview
  <2>2. HoldsAt(job, "preview")
    BY <2>1, Preparing DEF PlaceOK
  <2>. QED
    BY <2>2 DEF HoldsAt, Virtual
<1>3. ASSUME PreviewError(job) = "none", job.doc.kind = "pdf"
      PROVE  /\ ~Raster[job.doc][VirtualPreviewDpi].error
             /\ pages = Raster[job.doc][VirtualPreviewDpi].pages
  <2>1. job.kind = "pdf"
    BY <1>0, <1>2, <1>3 DEF Routed, PagesOK
  <2>. QED
    BY <1>3, <2>1 DEF PreviewError, PageList
<1>4. x # "render"
  OBVIOUS
<1>. HIDE DEF pages, x
<1>5. ASSUME PreviewError(job) = "none", job' = r PROVE PagesOK(job')
  <2>1. /\ job'.doc = job.doc /\ job'.kind = job.kind /\ job'.worker = job.worker
        /\ job'.preview = pages /\ job'.pc = x
    BY <1>0, <1>5 DEF JobState
  <2>. QED
    BY <1>0, <1>3, <1>4, <1>5, <2>1 DEF PagesOK
<1>. HIDE DEF r
<1>. QED
  BY <1>1, <1>5, ReturnedPages

LEMMA DetachedStepPages ==
  ASSUME Invariant, PagesInvariant, DetachedStep
  PROVE  PagesOK(job') /\ DetachedPagesOK'
<1>1. PICK i \in 1 .. Len(detached) :
        /\ \/ \E w \in WorkerSteps(detached[i].worker, detached[i].doc) :
                detached' = [detached EXCEPT ![i].worker = w]
           \/ detached' = RemoveAt(detached, i)
        /\ UNCHANGED job
  BY DEF DetachedStep
<1>2. /\ detached \in Seq(Outliving) /\ Len(detached) \in Nat
      /\ \A k \in 1 .. Len(detached) : detached[k] \in Outliving
      /\ \A k \in 1 .. Len(detached) : OnPaper(detached[k].worker, detached[k].doc)
  BY LenProperties, ElementOfSeq DEF Invariant, DetachedOK, PagesInvariant, DetachedPagesOK
<1>3. ASSUME detached' = RemoveAt(detached, i) PROVE DetachedPagesOK'
  <2>. DEFINE n     == Len(detached)
              left  == SubSeq(detached, 1, i - 1)
              right == SubSeq(detached, i + 1, n)
              Done  == {x \in Outliving : OnPaper(x.worker, x.doc)}
  <2>1. detached' = left \o right
    BY <1>3 DEF RemoveAt
  <2>2. /\ \A k \in 1 .. i - 1 : detached[k] \in Done
        /\ \A k \in i + 1 .. n : detached[k] \in Done
        /\ {1, i - 1, i + 1, n} \subseteq Int
    BY <1>2
  <2>. HIDE DEF Done
  <2>3. left \in Seq(Done) /\ right \in Seq(Done)
    BY <1>2, <2>2, SubSeqProperties
  <2>. HIDE DEF left, right
  <2>4. detached' \in Seq(Done)
    BY <2>1, <2>3, ConcatProperties
  <2>5. \A k \in 1 .. Len(detached') : detached'[k] \in Done
    BY <2>4, ElementOfSeq
  <2>. QED
    BY <2>5 DEF Done, DetachedPagesOK
<1>4. ASSUME \E w \in WorkerSteps(detached[i].worker, detached[i].doc) :
               detached' = [detached EXCEPT ![i].worker = w]
      PROVE  DetachedPagesOK'
  <2>. DEFINE x == detached[i]
  <2>1. PICK w \in WorkerSteps(x.worker, x.doc) : detached' = [detached EXCEPT ![i].worker = w]
    BY <1>4
  <2>2. /\ x.worker \in WorkerState /\ WorkerOK(x.worker) /\ x.doc \in Documents
        /\ x \in [worker : WorkerState, doc : Documents] /\ OnPaper(x.worker, x.doc)
    BY <1>2 DEF Outliving
  <2>3. detached' = [detached EXCEPT ![i] = [x EXCEPT !.worker = w]]
    BY <2>1
  <2>4. OnPaper(w, x.doc)
    <3>. HIDE DEF x
    <3>. QED
      BY <2>1, <2>2, WorkerPages
  <2>. DEFINE y == [x EXCEPT !.worker = w]
  <2>5. y.worker = w /\ y.doc = x.doc
    BY <2>2
  <2>6. detached' = [detached EXCEPT ![i] = y]
    BY <2>3
  <2>. HIDE DEF x, y
  <2>7. /\ Len(detached') = Len(detached) /\ detached'[i] = y
        /\ \A k \in 1 .. Len(detached) : k # i => detached'[k] = detached[k]
    BY <1>2, <2>6
  <2>. QED
    BY <1>2, <2>4, <2>5, <2>7 DEF DetachedPagesOK
<1>. QED
  BY <1>1, <1>3, <1>4 DEF PagesInvariant, PagesOK

LEMMA AbandonPages ==
  ASSUME Invariant, PagesInvariant, NEW error, Abandon(error)
  PROVE  PagesOK(job') /\ DetachedPagesOK'
<1>. DEFINE x == [worker |-> job.worker, doc |-> job.doc]
<1>1. /\ \E j : job' = Settled(j, error)
      /\ detached' = detached \/ detached' = Append(detached, x)
  BY DEF Abandon
<1>2. x.worker = job.worker /\ x.doc = job.doc
  OBVIOUS
<1>. HIDE DEF x
<1>3. OnPaper(x.worker, x.doc) /\ DetachedPagesOK
  BY <1>2 DEF PagesInvariant, PagesOK
<1>4. CASE detached' = Append(detached, x)
  <2>1. detached \in Seq(Outliving) /\ Len(detached) \in Nat
    BY LenProperties DEF Invariant, DetachedOK
  <2>2. /\ Len(detached') = Len(detached) + 1 /\ detached'[Len(detached) + 1] = x
        /\ \A k \in 1 .. Len(detached) : detached'[k] = detached[k]
    BY <1>4, <2>1
  <2>3. DetachedPagesOK'
    <3>. SUFFICES ASSUME NEW k \in 1 .. Len(detached')
                  PROVE  OnPaper(detached'[k].worker, detached'[k].doc)
      BY DEF DetachedPagesOK
    <3>1. k \in 1 .. Len(detached) \/ k = Len(detached) + 1
      BY <2>1, <2>2
    <3>. QED
      BY <1>3, <2>2, <3>1 DEF DetachedPagesOK
  <2>. QED
    BY <1>1, <2>3, ReturnedPages
<1>5. CASE detached' = detached
  BY <1>1, <1>3, <1>5, ReturnedPages DEF DetachedPagesOK
<1>. QED
  BY <1>1, <1>4, <1>5

LEMMA PagesStep == Invariant /\ PagesInvariant /\ [Next]_vars => PagesInvariant'
<1>. SUFFICES ASSUME Invariant, PagesInvariant, [Next]_vars PROVE PagesInvariant'
  OBVIOUS
<1>1. ASSUME PagesOK(job'), UNCHANGED detached PROVE PagesInvariant'
  BY <1>1 DEF PagesInvariant, DetachedPagesOK, PagesOK
<1>2. ASSUME PagesOK(job'), DetachedPagesOK' PROVE PagesInvariant'
  BY <1>2 DEF PagesInvariant, PagesOK
<1>3. CASE Task
  BY <1>1, <1>3, PreparationPages, SubmitPages, BackendPages, PreviewPages DEF Task
<1>4. CASE Timers
  BY <1>1, <1>2, <1>4, PreparationPages, AbandonPages DEF Timers, Deadline
<1>5. CASE Outside
  <2>1. CASE \E p \in Printers, d \in Documents, local \in BOOLEAN : Begin(p, d, local)
    BY <1>1, <2>1, BeginPages
  <2>2. CASE CancelWins
    BY <1>2, <2>2, AbandonPages DEF CancelWins
  <2>3. CASE SetPolicy \/ ClearHistory
    <3>1. UNCHANGED <<job, detached>>
      BY <2>3 DEF SetPolicy, ClearHistory
    <3>. QED
      BY <1>1, <3>1 DEF PagesInvariant, PagesOK
  <2>. QED
    BY <1>1, <1>2, <1>5, <2>1, <2>2, <2>3, PreparationPages, BackendPages, WorkerStepPages,
       DetachedStepPages DEF Outside
<1>6. CASE UNCHANGED vars
  <2>1. UNCHANGED <<job, detached>>
    BY <1>6 DEF vars
  <2>. QED
    BY <1>1, <2>1 DEF PagesInvariant, PagesOK
<1>. QED
  BY <1>3, <1>4, <1>5, <1>6 DEF Next

\* What is known of the pages makes them the pages that were asked for.
LEMMA PagesFollow ==
  ASSUME NEW d \in Documents \cup {NoDocument}, NEW dpi \in {DriverPdfDpi, VirtualPreviewDpi},
         NEW pages, d.kind = "pdf" => ~Raster[d][dpi].error /\ pages = Raster[d][dpi].pages,
         pages # << >>
  PROVE  PrintedAsAsked(pages, d)
<1>. SUFFICES ASSUME d.kind = "pdf" PROVE PrintedAsAsked(pages, d)
  BY DEF PrintedAsAsked
<1>1. d \in PdfsHere /\ d \in PdfDocuments
  BY PrintingAssumption DEF PdfsHere, NoDocument
<1>2. Raster[d][dpi].error = RasterError(d, dpi) /\ Raster[d][dpi].pages = RasterizePdf(d, dpi)
  BY <1>1 DEF Raster, PdfsHere
<1>3. dpi \in Nat
  BY DEF DriverPdfDpi, VirtualPreviewDpi
<1>. QED
  BY <1>1, <1>2, <1>3, RasterAsAsked

(* Whatever is asked for: a document that the driver has ended, and a      *)
(* preview, hold every selected page once per copy, in document order and  *)
(* on the paper that was asked for, also when the submission was given up  *)
(* meanwhile.                                                              *)
THEOREM PagesTheorem == Spec => []PagesAsAsked
<1>1. Init => PagesInvariant
  <2>. SUFFICES ASSUME Init PROVE PagesInvariant
    OBVIOUS
  <2>1. job = NoJob /\ detached = << >>
    BY DEF Init
  <2>2. NoJob.doc.kind = "none" /\ NoJob.pc = "done" /\ NoJob.kind = "none" /\ NoJob.preview = << >>
    BY DEF NoJob
  <2>. QED
    BY <2>1, <2>2 DEF PagesInvariant, PagesOK, OnPaper, DetachedPagesOK
<1>2. Invariant /\ PagesInvariant /\ [Next]_vars => PagesInvariant'
  BY PagesStep
<1>3. Invariant /\ PagesInvariant => PagesAsAsked
  <2>. SUFFICES ASSUME Invariant, PagesInvariant PROVE PagesAsAsked
    OBVIOUS
  <2>1. ASSUME NEW w, NEW d \in Documents \cup {NoDocument}, OnPaper(w, d), w.document = "ended"
        PROVE  PrintedAsAsked(w.drawn, d)
    <3>1. CASE d.kind # "pdf"
      BY <3>1 DEF PrintedAsAsked
    <3>2. CASE d.kind = "pdf"
      <4>1. /\ ~Raster[d][DriverPdfDpi].error /\ w.drawn = Raster[d][DriverPdfDpi].pages
            /\ w.drawn # << >>
        BY <2>1, <3>2 DEF OnPaper
      <4>. QED
        BY <4>1, PagesFollow
    <3>. QED
      BY <3>1, <3>2
  <2>2. job.worker.document = "ended" => PrintedAsAsked(job.worker.drawn, job.doc)
    <3>1. job.doc \in Documents \cup {NoDocument}
      BY Preparing DEF JobState
    <3>. QED
      BY <2>1, <3>1 DEF PagesInvariant, PagesOK
  <2>3. ASSUME NEW i \in 1 .. Len(detached), detached[i].worker.document = "ended"
        PROVE  PrintedAsAsked(detached[i].worker.drawn, detached[i].doc)
    <3>1. detached[i] \in Outliving
      BY ElementOfSeq DEF Invariant, DetachedOK
    <3>2. detached[i].doc \in Documents /\ OnPaper(detached[i].worker, detached[i].doc)
      BY <3>1 DEF Outliving, PagesInvariant, DetachedPagesOK
    <3>. QED
      BY <2>1, <2>3, <3>2
  <2>4. job.preview # << >> => PrintedAsAsked(job.preview, job.doc)
    <3>1. job.doc \in Documents \cup {NoDocument}
      BY Preparing DEF JobState
    <3>. QED
      BY <3>1, PagesFollow DEF PagesInvariant, PagesOK
  <2>. QED
    BY <2>2, <2>3, <2>4 DEF PagesAsAsked
<1>. QED
  BY <1>1, <1>2, <1>3, PrintingInvariant, PTL DEF Spec

=============================================================================
