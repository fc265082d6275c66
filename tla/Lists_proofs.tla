---------------------------- MODULE Lists_proofs ----------------------------
(***************************************************************************)
(* Lemmas on lists that the proofs about the components share: induction   *)
(* over the naturals, what the recursive functions behind SumOf and        *)
(* FlattenSeq compute.                                                     *)
(***************************************************************************)
EXTENDS Lists, SequencesExt, SequenceTheorems, WellFoundedInduction, TLAPS

-----------------------------------------------------------------------------
(* Induction over the naturals, and sums.                                  *)

\* A non-empty set of naturals has a least element.
LEMMA LeastNatural ==
  ASSUME NEW T \in SUBSET Nat, T # {}
  PROVE  \E x \in T : \A y \in T : x <= y
<1>1. PICK x \in T : \A y \in T : ~(<<y, x>> \in OpToRel(<, Nat))
  BY NatLessThanWellFounded, WFMin
<1>2. \A y \in T : ~(y < x)
  BY <1>1 DEF OpToRel
<1>. QED
  BY <1>2

\* A set of naturals with zero and every successor holds all of them: this is
\* how the lemmas below argue by induction.
LEMMA EveryNatural ==
  ASSUME NEW T \in SUBSET Nat, 0 \in T, \A n \in T : n + 1 \in T
  PROVE  T = Nat
<1>. SUFFICES ASSUME Nat \ T # {} PROVE FALSE
  OBVIOUS
<1>1. PICK x \in Nat \ T : \A y \in Nat \ T : x <= y
  BY LeastNatural
<1>2. x # 0 /\ x - 1 \in Nat /\ ~(x <= x - 1) /\ (x - 1) + 1 = x
  BY <1>1
<1>3. x - 1 \in T
  BY <1>1, <1>2
<1>. QED
  BY <1>1, <1>2, <1>3

\* The recursion of SumOf, up to the n-th number.
PartialSums(u, s, n) == u = [i \in 0 .. n |-> IF i = 0 THEN 0 ELSE u[i - 1] + s[i]]

\* It has a solution.
LEMMA PartialSumsExist == ASSUME NEW s, NEW n \in Nat PROVE \E u : PartialSums(u, s, n)
<1>. DEFINE T == {k \in Nat : \E u : PartialSums(u, s, k)}
<1>1. 0 \in T
  <2>. DEFINE u == [i \in 0 .. 0 |-> 0]
  <2>1. PartialSums(u, s, 0)
    BY DEF PartialSums
  <2>. QED
    BY <2>1
<1>2. ASSUME NEW k \in T PROVE k + 1 \in T
  <2>1. PICK u : PartialSums(u, s, k)
    OBVIOUS
  <2>2. \A i \in 0 .. k : u[i] = IF i = 0 THEN 0 ELSE u[i - 1] + s[i]
    BY <2>1 DEF PartialSums
  <2>. DEFINE v == [i \in 0 .. k + 1 |-> IF i = k + 1 THEN u[k] + s[i] ELSE u[i]]
  <2>3. \A i \in 0 .. k + 1 : v[i] = IF i = 0 THEN 0 ELSE v[i - 1] + s[i]
    BY <2>2
  <2>4. PartialSums(v, s, k + 1)
    BY <2>3 DEF PartialSums
  <2>. QED
    BY <2>4
<1>. HIDE DEF T
<1>3. T = Nat
  <2>1. T \in SUBSET Nat
    BY DEF T
  <2>. QED
    BY <1>1, <1>2, <2>1, EveryNatural
<1>. QED
  BY <1>3 DEF T

\* Sums of equal numbers are equal.
LEMMA PartialSumsAgree ==
  ASSUME NEW s, NEW t, NEW n \in Nat, NEW m \in Nat, NEW u, NEW v,
         PartialSums(u, s, n), PartialSums(v, t, m),
         n <= m, \A i \in 1 .. n : s[i] = t[i]
  PROVE  u[n] = v[n]
<1>1. /\ \A i \in 0 .. n : u[i] = IF i = 0 THEN 0 ELSE u[i - 1] + s[i]
      /\ \A i \in 0 .. m : v[i] = IF i = 0 THEN 0 ELSE v[i - 1] + t[i]
  BY DEF PartialSums
<1>. DEFINE T == {k \in Nat : k <= n => u[k] = v[k]}
<1>2. 0 \in T
  BY <1>1
<1>3. ASSUME NEW k \in T PROVE k + 1 \in T
  <2>. SUFFICES ASSUME k + 1 <= n PROVE u[k + 1] = v[k + 1]
    OBVIOUS
  <2>1. k \in Nat /\ u[k] = v[k]
    OBVIOUS
  <2>2. u[k + 1] = u[k] + s[k + 1] /\ v[k + 1] = v[k] + t[k + 1]
    BY <1>1, <2>1
  <2>. QED
    BY <2>1, <2>2
<1>4. T \in SUBSET Nat
  OBVIOUS
<1>. HIDE DEF T
<1>5. T = Nat
  BY <1>2, <1>3, <1>4, EveryNatural
<1>. QED
  BY <1>5 DEF T

\* Sums of integers are integers.
LEMMA PartialSumsType ==
  ASSUME NEW s, NEW n \in Nat, NEW u, PartialSums(u, s, n), \A i \in 1 .. n : s[i] \in Int
  PROVE  \A k \in 0 .. n : u[k] \in Int
<1>1. \A i \in 0 .. n : u[i] = IF i = 0 THEN 0 ELSE u[i - 1] + s[i]
  BY DEF PartialSums
<1>. DEFINE T == {k \in Nat : k <= n => u[k] \in Int}
<1>2. 0 \in T
  BY <1>1
<1>3. ASSUME NEW k \in T PROVE k + 1 \in T
  <2>. SUFFICES ASSUME k + 1 <= n PROVE u[k + 1] \in Int
    OBVIOUS
  <2>1. k \in Nat /\ u[k] \in Int /\ s[k + 1] \in Int
    OBVIOUS
  <2>2. u[k + 1] = u[k] + s[k + 1]
    BY <1>1, <2>1
  <2>. QED
    BY <2>1, <2>2
<1>4. T \in SUBSET Nat
  OBVIOUS
<1>. HIDE DEF T
<1>5. T = Nat
  BY <1>2, <1>3, <1>4, EveryNatural
<1>. QED
  BY <1>5 DEF T

\* SumOf is the last of the partial sums.
LEMMA SumOfIsPartial ==
  ASSUME NEW s \in Seq(Int)
  PROVE  \E u : PartialSums(u, s, Len(s)) /\ SumOf(s) = u[Len(s)]
<1>. DEFINE u == CHOOSE w : w = [i \in 0 .. Len(s) |-> IF i = 0 THEN 0 ELSE w[i - 1] + s[i]]
<1>1. Len(s) \in Nat
  BY LenProperties
<1>2. \E w : w = [i \in 0 .. Len(s) |-> IF i = 0 THEN 0 ELSE w[i - 1] + s[i]]
  BY <1>1, PartialSumsExist DEF PartialSums
<1>3. u = [i \in 0 .. Len(s) |-> IF i = 0 THEN 0 ELSE u[i - 1] + s[i]]
  BY <1>2
<1>4. SumOf(s) = u[Len(s)]
  BY DEF SumOf
<1>. HIDE DEF u
<1>. QED
  BY <1>3, <1>4 DEF PartialSums

\* What SumOf computes: nothing for no numbers, one more for one more.
LEMMA SumOfFacts ==
  /\ SumOf(<< >>) = 0
  /\ \A s \in Seq(Int) : SumOf(s) \in Int
  /\ \A s \in Seq(Int), x \in Int : SumOf(Append(s, x)) = SumOf(s) + x
<1>1. SumOf(<< >>) = 0
  <2>1. << >> \in Seq(Int) /\ Len(<< >>) = 0
    BY EmptySeq
  <2>2. PICK u : PartialSums(u, << >>, 0) /\ SumOf(<< >>) = u[0]
    BY <2>1, SumOfIsPartial
  <2>. QED
    BY <2>2 DEF PartialSums
<1>2. ASSUME NEW s \in Seq(Int) PROVE SumOf(s) \in Int
  <2>1. PICK u : PartialSums(u, s, Len(s)) /\ SumOf(s) = u[Len(s)]
    BY SumOfIsPartial
  <2>2. Len(s) \in Nat /\ \A i \in 1 .. Len(s) : s[i] \in Int
    BY ElementOfSeq, LenProperties
  <2>. QED
    BY <2>1, <2>2, PartialSumsType
<1>3. ASSUME NEW s \in Seq(Int), NEW x \in Int PROVE SumOf(Append(s, x)) = SumOf(s) + x
  <2>. DEFINE t == Append(s, x)
  <2>0. Len(s) \in Nat
    BY LenProperties
  <2>1. /\ t \in Seq(Int) /\ Len(t) = Len(s) + 1 /\ t[Len(s) + 1] = x
        /\ \A i \in 1 .. Len(s) : t[i] = s[i]
    BY AppendProperties
  <2>. HIDE DEF t
  <2>2. PICK u : PartialSums(u, s, Len(s)) /\ SumOf(s) = u[Len(s)]
    BY SumOfIsPartial
  <2>3. PICK v : PartialSums(v, t, Len(t)) /\ SumOf(t) = v[Len(t)]
    BY <2>1, SumOfIsPartial
  <2>4. PartialSums(v, t, Len(s) + 1)
    BY <2>1, <2>3
  <2>5. u[Len(s)] = v[Len(s)]
    <3>1. Len(t) \in Nat /\ Len(s) <= Len(t)
      BY <2>0, <2>1
    <3>2. \A i \in 1 .. Len(s) : s[i] = t[i]
      BY <2>1
    <3>3. PartialSums(u, s, Len(s)) /\ PartialSums(v, t, Len(t))
      BY <2>2, <2>3
    <3>. QED
      BY <2>0, <3>1, <3>2, <3>3, PartialSumsAgree
  <2>6. v[Len(s) + 1] = v[Len(s)] + x
    BY <2>0, <2>1, <2>4 DEF PartialSums
  <2>. QED
    BY <2>1, <2>2, <2>3, <2>5, <2>6 DEF t
<1>. QED
  BY <1>1, <1>2, <1>3

\* The first number and the rest.
LEMMA SumOfTail ==
  ASSUME NEW s \in Seq(Int), s # << >>
  PROVE  SumOf(s) = Head(s) + SumOf(Tail(s))
<1>. DEFINE t == Tail(s)
            n == Len(s)
<1>1. /\ n \in Nat /\ n > 0 /\ Len(t) = n - 1 /\ t \in Seq(Int)
      /\ \A i \in 1 .. n : s[i] \in Int
      /\ \A i \in 1 .. n - 1 : t[i] = s[i + 1]
      /\ Head(s) = s[1]
  BY HeadTailProperties, LenProperties, ElementOfSeq, EmptySeq
<1>2. PICK u : PartialSums(u, s, n) /\ SumOf(s) = u[n]
  BY SumOfIsPartial
<1>3. PICK v : PartialSums(v, t, n - 1) /\ SumOf(t) = v[n - 1]
  BY <1>1, SumOfIsPartial
<1>. HIDE DEF t, n
<1>4. /\ \A i \in 0 .. n : u[i] = IF i = 0 THEN 0 ELSE u[i - 1] + s[i]
      /\ \A i \in 0 .. n - 1 : v[i] = IF i = 0 THEN 0 ELSE v[i - 1] + t[i]
  BY <1>2, <1>3 DEF PartialSums
<1>5. n - 1 \in Nat /\ \A k \in 0 .. n - 1 : v[k] \in Int
  <2>1. n - 1 \in Nat /\ \A i \in 1 .. n - 1 : t[i] \in Int
    BY <1>1
  <2>. QED
    BY <1>3, <2>1, PartialSumsType
<1>. DEFINE T == {k \in Nat : k <= n - 1 => u[k + 1] = s[1] + v[k]}
<1>6. 0 \in T
  <2>1. u[0] = 0 /\ v[0] = 0 /\ u[1] = u[0] + s[1] /\ s[1] \in Int
    BY <1>1, <1>4
  <2>. QED
    BY <2>1
<1>7. ASSUME NEW k \in T PROVE k + 1 \in T
  <2>. SUFFICES ASSUME k + 1 <= n - 1 PROVE u[k + 1 + 1] = s[1] + v[k + 1]
    OBVIOUS
  <2>1. k \in Nat /\ u[k + 1] = s[1] + v[k]
    BY <1>1
  <2>2. /\ k + 1 \in 1 .. n - 1 /\ k \in 0 .. n - 1 /\ k + 2 \in 1 .. n
        /\ k + 1 + 1 = k + 2 /\ (k + 2) - 1 = k + 1 /\ (k + 1) - 1 = k
    BY <1>1, <2>1
  <2>3. u[k + 2] = u[k + 1] + s[k + 2] /\ v[k + 1] = v[k] + t[k + 1]
    BY <1>4, <2>2
  <2>4. t[k + 1] = s[k + 2] /\ s[1] \in Int /\ s[k + 2] \in Int /\ v[k] \in Int
    BY <1>1, <1>5, <2>2
  <2>. QED
    BY <2>1, <2>2, <2>3, <2>4
<1>8. T \in SUBSET Nat
  OBVIOUS
<1>. HIDE DEF T
<1>9. T = Nat
  BY <1>6, <1>7, <1>8, EveryNatural
<1>10. u[n - 1 + 1] = s[1] + v[n - 1]
  BY <1>5, <1>9 DEF T
<1>11. n - 1 + 1 = n
  BY <1>1
<1>. QED
  BY <1>1, <1>2, <1>3, <1>10, <1>11 DEF t, n

\* Natural numbers add up to a natural number.
LEMMA SumOfNat ==
  ASSUME NEW s \in Seq(Nat) PROVE SumOf(s) \in Nat
<1>. DEFINE n == Len(s)
<1>1. n \in Nat /\ \A i \in 1 .. n : s[i] \in Nat
  BY ElementOfSeq, LenProperties
<1>2. s \in Seq(Int)
  BY <1>1
<1>3. PICK u : PartialSums(u, s, n) /\ SumOf(s) = u[n]
  BY <1>2, SumOfIsPartial
<1>. HIDE DEF n
<1>4. \A i \in 0 .. n : u[i] = IF i = 0 THEN 0 ELSE u[i - 1] + s[i]
  BY <1>3 DEF PartialSums
<1>. DEFINE T == {k \in Nat : k <= n => u[k] \in Nat}
<1>5. 0 \in T
  BY <1>1, <1>4
<1>6. ASSUME NEW k \in T PROVE k + 1 \in T
  <2>. SUFFICES ASSUME k + 1 <= n PROVE u[k + 1] \in Nat
    OBVIOUS
  <2>1. k \in Nat /\ u[k] \in Nat /\ s[k + 1] \in Nat /\ k + 1 \in 0 .. n /\ (k + 1) - 1 = k
    BY <1>1
  <2>2. u[k + 1] = u[k] + s[k + 1]
    BY <1>4, <2>1
  <2>. QED
    BY <2>1, <2>2
<1>7. T \in SUBSET Nat
  OBVIOUS
<1>. HIDE DEF T
<1>8. T = Nat
  BY <1>5, <1>6, <1>7, EveryNatural
<1>. QED
  BY <1>1, <1>3, <1>8 DEF T

-----------------------------------------------------------------------------
(* Sequences put together.                                                  *)

\* The recursion of FlattenSeq, over the first n sequences.
Flattening(u, seqs, n) == u = [i \in 1 .. n |-> IF i = 1 THEN seqs[i] ELSE u[i - 1] \o seqs[i]]

\* It has a solution.
LEMMA FlatteningExists == ASSUME NEW seqs, NEW n \in Nat PROVE \E u : Flattening(u, seqs, n)
<1>. DEFINE T == {k \in Nat : \E u : Flattening(u, seqs, k)}
<1>1. 0 \in T
  <2>. DEFINE u == [i \in 1 .. 0 |-> 0]
  <2>1. Flattening(u, seqs, 0)
    BY DEF Flattening
  <2>. QED
    BY <2>1
<1>2. ASSUME NEW k \in T PROVE k + 1 \in T
  <2>1. PICK u : Flattening(u, seqs, k)
    OBVIOUS
  <2>2. \A i \in 1 .. k : u[i] = IF i = 1 THEN seqs[i] ELSE u[i - 1] \o seqs[i]
    BY <2>1 DEF Flattening
  <2>. DEFINE v == [i \in 1 .. k + 1 |->
                      IF i = 1 THEN seqs[i] ELSE IF i = k + 1 THEN u[k] \o seqs[i] ELSE u[i]]
  <2>3. \A i \in 1 .. k + 1 : v[i] = IF i = 1 THEN seqs[i] ELSE v[i - 1] \o seqs[i]
    <3>. SUFFICES ASSUME NEW i \in 1 .. k + 1
                  PROVE  v[i] = IF i = 1 THEN seqs[i] ELSE v[i - 1] \o seqs[i]
      OBVIOUS
    <3>1. CASE i = 1
      BY <3>1
    <3>2. CASE i # 1 /\ i = k + 1
      <4>0. k \in Nat /\ i - 1 = k /\ k \in 1 .. k
        BY <3>2
      <4>1. v[i] = u[k] \o seqs[i] /\ i - 1 = k /\ k \in 1 .. k
        BY <3>2, <4>0
      <4>2. v[k] = u[k]
        BY <2>2, <4>1
      <4>. QED
        BY <3>2, <4>1, <4>2
    <3>3. CASE i # 1 /\ i # k + 1
      <4>1. i \in 1 .. k /\ i - 1 \in 1 .. k /\ v[i] = u[i]
        BY <3>3
      <4>2. v[i - 1] = u[i - 1]
        BY <2>2, <4>1
      <4>. QED
        BY <2>2, <3>3, <4>1, <4>2
    <3>. QED
      BY <3>1, <3>2, <3>3
  <2>4. Flattening(v, seqs, k + 1)
    BY <2>3 DEF Flattening
  <2>. QED
    BY <2>4
<1>3. T \in SUBSET Nat
  OBVIOUS
<1>. HIDE DEF T
<1>4. T = Nat
  BY <1>1, <1>2, <1>3, EveryNatural
<1>. QED
  BY <1>4 DEF T

\* Flattening sequences over S gives a sequence over S.
LEMMA FlattenSeqType ==
  ASSUME NEW S, NEW seqs \in Seq(Seq(S)) PROVE FlattenSeq(seqs) \in Seq(S)
<1>. DEFINE n == Len(seqs)
            u == CHOOSE f : f = [i \in 1 .. n |-> IF i = 1 THEN seqs[i] ELSE f[i - 1] \o seqs[i]]
<1>1. FlattenSeq(seqs) = IF n = 0 THEN seqs ELSE u[n]
  BY DEF FlattenSeq
<1>2. n \in Nat /\ (n = 0 => seqs = << >>) /\ \A i \in 1 .. n : seqs[i] \in Seq(S)
  BY LenProperties, ElementOfSeq, EmptySeq
<1>. HIDE DEF n
<1>3. \E f : f = [i \in 1 .. n |-> IF i = 1 THEN seqs[i] ELSE f[i - 1] \o seqs[i]]
  <2>1. PICK f : Flattening(f, seqs, n)
    BY <1>2, FlatteningExists
  <2>. QED
    BY <2>1 DEF Flattening
<1>4. u = [i \in 1 .. n |-> IF i = 1 THEN seqs[i] ELSE u[i - 1] \o seqs[i]]
  BY <1>3
<1>. HIDE DEF u
<1>5. \A i \in 1 .. n : u[i] = IF i = 1 THEN seqs[i] ELSE u[i - 1] \o seqs[i]
  BY <1>4
<1>. DEFINE T == {k \in Nat : k + 1 <= n => u[k + 1] \in Seq(S)}
<1>6. 0 \in T
  BY <1>2, <1>5
<1>7. ASSUME NEW k \in T PROVE k + 1 \in T
  <2>. SUFFICES ASSUME k + 1 + 1 <= n PROVE u[k + 1 + 1] \in Seq(S)
    OBVIOUS
  <2>1. k \in Nat /\ u[k + 1] \in Seq(S) /\ seqs[k + 2] \in Seq(S)
    BY <1>2
  <2>2. u[k + 2] = u[k + 1] \o seqs[k + 2]
    <3>1. k + 2 \in 1 .. n /\ k + 2 # 1 /\ (k + 2) - 1 = k + 1
      BY <1>2, <2>1
    <3>2. u[k + 2] = IF k + 2 = 1 THEN seqs[k + 2] ELSE u[(k + 2) - 1] \o seqs[k + 2]
      BY <1>5, <3>1
    <3>. QED
      BY <3>1, <3>2
  <2>3. u[k + 1] \o seqs[k + 2] \in Seq(S)
    BY <2>1, ConcatProperties
  <2>4. k + 1 + 1 = k + 2
    BY <2>1
  <2>. QED
    BY <2>2, <2>3, <2>4
<1>8. T \in SUBSET Nat
  OBVIOUS
<1>. HIDE DEF T
<1>9. T = Nat
  BY <1>6, <1>7, <1>8, EveryNatural
<1>10. CASE n # 0
  <2>1. n - 1 \in Nat /\ n - 1 + 1 = n
    BY <1>2, <1>10
  <2>. QED
    BY <1>1, <1>9, <1>10, <2>1 DEF T
<1>11. CASE n = 0
  BY <1>1, <1>2, <1>11
<1>. QED
  BY <1>10, <1>11

\* A set of sequences with the empty one and every extension holds all of them.
LEMMA EverySequence ==
  ASSUME NEW S, NEW T \in SUBSET Seq(S), << >> \in T,
         \A s \in T, x \in S : Append(s, x) \in T
  PROVE  T = Seq(S)
<1>. DEFINE N == {n \in Nat : \A s \in Seq(S) : Len(s) = n => s \in T}
<1>1. 0 \in N
  <2>1. \A s \in Seq(S) : Len(s) = 0 => s = << >>
    BY EmptySeq
  <2>. QED
    BY <2>1
<1>2. ASSUME NEW n \in N PROVE n + 1 \in N
  <2>. SUFFICES ASSUME NEW s \in Seq(S), Len(s) = n + 1 PROVE s \in T
    BY <1>2
  <2>1. s # << >>
    BY <1>2, EmptySeq
  <2>2. PICK r \in Seq(S), x \in S : s = Append(r, x)
    BY <2>1, SequenceEmptyOrAppend
  <2>3. Len(r) \in Nat /\ Len(s) = Len(r) + 1
    BY <2>2, AppendProperties, LenProperties
  <2>4. Len(r) = n
    BY <1>2, <2>3
  <2>5. r \in T
    BY <1>2, <2>4
  <2>. QED
    BY <2>2, <2>5
<1>3. N \in SUBSET Nat
  OBVIOUS
<1>. HIDE DEF N
<1>4. N = Nat
  BY <1>1, <1>2, <1>3, EveryNatural
<1>5. \A s \in Seq(S) : s \in T
  <2>. SUFFICES ASSUME NEW s \in Seq(S) PROVE s \in T
    OBVIOUS
  <2>1. Len(s) \in N
    BY <1>4, LenProperties
  <2>. QED
    BY <2>1 DEF N
<1>. QED
  BY <1>5

\* A sequence with one more element is the shorter one and that element.
LEMMA IsAppend ==
  ASSUME NEW S, NEW u \in Seq(S), NEW v \in Seq(S), Len(v) = Len(u) + 1,
         \A i \in 1 .. Len(u) : v[i] = u[i]
  PROVE  v = Append(u, v[Len(v)]) /\ v[Len(v)] \in S
<1>1. Len(u) \in Nat /\ Len(v) \in 1 .. Len(v)
  BY LenProperties
<1>2. v[Len(v)] \in S
  BY <1>1, ElementOfSeq
<1>. DEFINE w == Append(u, v[Len(v)])
<1>3. /\ w \in Seq(S) /\ Len(w) = Len(v) /\ \A i \in 1 .. Len(u) : w[i] = u[i]
      /\ w[Len(u) + 1] = v[Len(v)]
  BY <1>2, AppendProperties
<1>. HIDE DEF w
<1>4. \A i \in 1 .. Len(v) : v[i] = w[i]
  BY <1>1, <1>3
<1>5. v = w
  BY <1>3, <1>4, SeqEqual
<1>. QED
  BY <1>2, <1>5 DEF w

\* A sequence that begins like one and goes on like another is their concatenation.
LEMMA IsConcat ==
  ASSUME NEW S, NEW a \in Seq(S), NEW b \in Seq(S), NEW v \in Seq(S), Len(v) = Len(a) + Len(b),
         \A i \in 1 .. Len(a) : v[i] = a[i], \A i \in 1 .. Len(b) : v[Len(a) + i] = b[i]
  PROVE  v = a \o b
<1>1. Len(a) \in Nat /\ Len(b) \in Nat
  BY LenProperties
<1>2. /\ a \o b \in Seq(S) /\ Len(a \o b) = Len(v)
      /\ \A i \in 1 .. Len(v) : (a \o b)[i] = IF i <= Len(a) THEN a[i] ELSE b[i - Len(a)]
  BY ConcatProperties
<1>3. ASSUME NEW i \in 1 .. Len(v) PROVE v[i] = (a \o b)[i]
  <2>1. CASE i <= Len(a)
    BY <1>1, <1>2, <2>1
  <2>2. CASE ~(i <= Len(a))
    <3>1. i - Len(a) \in 1 .. Len(b) /\ Len(a) + (i - Len(a)) = i
      BY <1>1, <2>2
    <3>2. v[Len(a) + (i - Len(a))] = b[i - Len(a)]
      BY <3>1
    <3>. QED
      BY <1>2, <2>2, <3>1, <3>2
  <2>. QED
    BY <2>1, <2>2
<1>. QED
  BY <1>2, <1>3, SeqEqual

\* An element at the end of the second of two sequences.
LEMMA ConcatAppend ==
  ASSUME NEW S, NEW a \in Seq(S), NEW b \in Seq(S), NEW x \in S
  PROVE  a \o Append(b, x) = Append(a \o b, x)
<1>1. <<x>> \in Seq(S) /\ a \o b \in Seq(S)
  BY ConcatProperties
<1>2. (a \o b) \o <<x>> = a \o (b \o <<x>>)
  BY <1>1, ConcatAssociative
<1>. QED
  BY <1>1, <1>2, AppendIsConcat

\* The first numbers of a longer sequence add up to the same.
LEMMA SumOfConcat ==
  ASSUME NEW a \in Seq(Int), NEW b \in Seq(Int)
  PROVE  SumOf(a \o b) = SumOf(a) + SumOf(b)
<1>. DEFINE T == {s \in Seq(Int) : SumOf(a \o s) = SumOf(a) + SumOf(s)}
<1>1. << >> \in T
  <2>1. a \o << >> = a /\ << >> \in Seq(Int) /\ SumOf(a) \in Int
    BY ConcatEmptySeq, EmptySeq, SumOfFacts
  <2>. QED
    BY <2>1, SumOfFacts
<1>2. ASSUME NEW s \in T, NEW x \in Int PROVE Append(s, x) \in T
  <2>1. s \in Seq(Int) /\ Append(s, x) \in Seq(Int) /\ a \o s \in Seq(Int)
    BY AppendProperties, ConcatProperties
  <2>2. a \o Append(s, x) = Append(a \o s, x)
    BY <2>1, ConcatAppend
  <2>3. SumOf(Append(a \o s, x)) = SumOf(a \o s) + x /\ SumOf(Append(s, x)) = SumOf(s) + x
        /\ SumOf(a) \in Int /\ SumOf(s) \in Int
    BY <2>1, SumOfFacts
  <2>4. SumOf(a \o s) = SumOf(a) + SumOf(s)
    OBVIOUS
  <2>5. SumOf(a \o Append(s, x)) = SumOf(a) + SumOf(Append(s, x))
    BY <2>2, <2>3, <2>4
  <2>. QED
    BY <2>1, <2>5
<1>3. T \in SUBSET Seq(Int)
  OBVIOUS
<1>. HIDE DEF T
<1>4. T = Seq(Int)
  BY <1>1, <1>2, <1>3, EverySequence
<1>. QED
  BY <1>4 DEF T

\* The same number n times adds up to its n-fold.
LEMMA SumOfEqual ==
  ASSUME NEW c \in Int, NEW n \in Nat
  PROVE  SumOf([i \in 1 .. n |-> c]) = n * c
<1>. DEFINE s(k) == [i \in 1 .. k |-> c]
            T == {k \in Nat : SumOf(s(k)) = k * c}
<1>1. 0 \in T
  <2>1. s(0) = << >>
    OBVIOUS
  <2>2. SumOf(s(0)) = 0
    BY <2>1, SumOfFacts
  <2>. QED
    BY <2>2
<1>2. ASSUME NEW k \in T PROVE k + 1 \in T
  <2>1. k \in Nat /\ s(k) \in Seq(Int) /\ s(k + 1) \in Seq(Int) /\ Len(s(k)) = k /\ Len(s(k + 1)) = k + 1
        /\ \A i \in 1 .. k : s(k + 1)[i] = s(k)[i]
    OBVIOUS
  <2>2. s(k + 1)[k + 1] = c
    OBVIOUS
  <2>3. SumOf(s(k)) = k * c
    BY <1>2
  <2>. HIDE DEF s
  <2>4. s(k + 1) = Append(s(k), c)
    BY <2>1, <2>2, IsAppend
  <2>5. SumOf(s(k + 1)) = k * c + c
    BY <2>1, <2>3, <2>4, SumOfFacts
  <2>6. k * c + c = (k + 1) * c
    BY <2>1
  <2>. QED
    BY <2>1, <2>5, <2>6
<1>3. T \in SUBSET Nat
  OBVIOUS
<1>. HIDE DEF T
<1>4. T = Nat
  BY <1>1, <1>2, <1>3, EveryNatural
<1>. QED
  BY <1>4 DEF T

\* What FlattenSeq computes: nothing for no sequences, one more for one more.
LEMMA FlattenFacts ==
  ASSUME NEW S
  PROVE  /\ FlattenSeq(<< >>) = << >>
         /\ \A seqs \in Seq(Seq(S)) : FlattenSeq(seqs) \in Seq(S)
         /\ \A seqs \in Seq(Seq(S)), s \in Seq(S) :
              FlattenSeq(Append(seqs, s)) = FlattenSeq(seqs) \o s
<1>1. FlattenSeq(<< >>) = << >>
  BY DEF FlattenSeq
<1>2. \A seqs \in Seq(Seq(S)) : FlattenSeq(seqs) \in Seq(S)
  BY FlattenSeqType
<1>3. ASSUME NEW seqs \in Seq(Seq(S)), NEW s \in Seq(S)
      PROVE  FlattenSeq(Append(seqs, s)) = FlattenSeq(seqs) \o s
  <2>. DEFINE n == Len(seqs)
              more == Append(seqs, s)
              m == Len(more)
              u == CHOOSE f : f = [i \in 1 .. n |-> IF i = 1 THEN seqs[i] ELSE f[i - 1] \o seqs[i]]
              v == CHOOSE f : f = [i \in 1 .. m |-> IF i = 1 THEN more[i] ELSE f[i - 1] \o more[i]]
  <2>1. /\ FlattenSeq(seqs) = IF n = 0 THEN seqs ELSE u[n]
        /\ FlattenSeq(more) = IF m = 0 THEN more ELSE v[m]
    BY DEF FlattenSeq
  <2>2. /\ n \in Nat /\ m = n + 1 /\ (n = 0 => seqs = << >>)
        /\ \A i \in 1 .. n : more[i] = seqs[i]
        /\ more[n + 1] = s
    BY LenProperties, AppendProperties, EmptySeq
  <2>. HIDE DEF n, m, more
  <2>3. \E f : f = [i \in 1 .. n |-> IF i = 1 THEN seqs[i] ELSE f[i - 1] \o seqs[i]]
    BY <2>2, FlatteningExists DEF Flattening
  <2>4. \E f : f = [i \in 1 .. m |-> IF i = 1 THEN more[i] ELSE f[i - 1] \o more[i]]
    <3>1. m \in Nat
      BY <2>2
    <3>2. \E f : Flattening(f, more, m)
      BY <3>1, FlatteningExists
    <3>. QED
      BY <3>2 DEF Flattening
  <2>5. u = [i \in 1 .. n |-> IF i = 1 THEN seqs[i] ELSE u[i - 1] \o seqs[i]]
    BY <2>3
  <2>6. v = [i \in 1 .. m |-> IF i = 1 THEN more[i] ELSE v[i - 1] \o more[i]]
    BY <2>4
  <2>. HIDE DEF u, v
  <2>7. /\ \A i \in 1 .. n : u[i] = IF i = 1 THEN seqs[i] ELSE u[i - 1] \o seqs[i]
        /\ \A i \in 1 .. m : v[i] = IF i = 1 THEN more[i] ELSE v[i - 1] \o more[i]
    BY <2>5, <2>6
  <2>. DEFINE T == {k \in Nat : k + 1 <= n => v[k + 1] = u[k + 1]}
  <2>8. 0 \in T
    <3>. SUFFICES ASSUME 0 + 1 <= n PROVE v[0 + 1] = u[0 + 1]
      OBVIOUS
    <3>1. 1 \in 1 .. n /\ 1 \in 1 .. m
      BY <2>2
    <3>. QED
      BY <2>2, <2>7, <3>1
  <2>9. ASSUME NEW k \in T PROVE k + 1 \in T
    <3>. SUFFICES ASSUME k + 1 + 1 <= n PROVE v[k + 1 + 1] = u[k + 1 + 1]
      OBVIOUS
    <3>1. k \in Nat /\ v[k + 1] = u[k + 1] /\ k + 1 + 1 = k + 2 /\ k + 2 # 1 /\ (k + 2) - 1 = k + 1
          /\ k + 2 \in 1 .. n /\ k + 2 \in 1 .. m
      BY <2>2
    <3>2. u[k + 2] = u[k + 1] \o seqs[k + 2] /\ v[k + 2] = v[k + 1] \o more[k + 2]
          /\ more[k + 2] = seqs[k + 2]
      BY <2>2, <2>7, <3>1
    <3>. QED
      BY <3>1, <3>2
  <2>10. T \in SUBSET Nat
    OBVIOUS
  <2>. HIDE DEF T
  <2>11. T = Nat
    BY <2>8, <2>9, <2>10, EveryNatural
  <2>12. CASE n = 0
    <3>1. m = 1 /\ 1 \in 1 .. m
      BY <2>2, <2>12
    <3>2. v[1] = more[1] /\ more[1] = s
      BY <2>2, <2>7, <2>12, <3>1
    <3>3. << >> \o s = s
      BY ConcatEmptySeq
    <3>. QED
      BY <2>1, <2>2, <2>12, <3>1, <3>2, <3>3, <1>1 DEF more
  <2>13. CASE n # 0
    <3>1. n - 1 \in T /\ n - 1 + 1 = n
      BY <2>2, <2>11, <2>13
    <3>2. v[n] = u[n]
      BY <3>1 DEF T
    <3>3. m # 1 /\ m # 0 /\ m - 1 = n /\ m \in 1 .. m
      BY <2>2, <2>13
    <3>4. v[m] = v[n] \o s
      BY <2>2, <2>7, <3>3
    <3>. QED
      BY <2>1, <2>13, <3>2, <3>3, <3>4 DEF more
  <2>. QED
    BY <2>12, <2>13
<1>. QED
  BY <1>1, <1>2, <1>3

\* Two lists of sequences put together one after the other.
LEMMA FlattenConcat ==
  ASSUME NEW S, NEW a \in Seq(Seq(S)), NEW b \in Seq(Seq(S))
  PROVE  FlattenSeq(a \o b) = FlattenSeq(a) \o FlattenSeq(b)
<1>. DEFINE T == {s \in Seq(Seq(S)) : FlattenSeq(a \o s) = FlattenSeq(a) \o FlattenSeq(s)}
<1>0. FlattenSeq(a) \in Seq(S)
  BY FlattenFacts
<1>1. << >> \in T
  <2>1. a \o << >> = a /\ << >> \in Seq(Seq(S)) /\ FlattenSeq(a) \o << >> = FlattenSeq(a)
    BY <1>0, ConcatEmptySeq, EmptySeq
  <2>. QED
    BY <2>1, FlattenFacts
<1>2. ASSUME NEW s \in T, NEW x \in Seq(S) PROVE Append(s, x) \in T
  <2>1. s \in Seq(Seq(S)) /\ Append(s, x) \in Seq(Seq(S)) /\ a \o s \in Seq(Seq(S))
        /\ FlattenSeq(s) \in Seq(S)
    BY AppendProperties, ConcatProperties, FlattenFacts
  <2>2. a \o Append(s, x) = Append(a \o s, x)
    BY <2>1, ConcatAppend
  <2>3. FlattenSeq(Append(a \o s, x)) = FlattenSeq(a \o s) \o x
        /\ FlattenSeq(Append(s, x)) = FlattenSeq(s) \o x
    BY <2>1, FlattenFacts
  <2>4. FlattenSeq(a \o s) = FlattenSeq(a) \o FlattenSeq(s)
    OBVIOUS
  <2>5. (FlattenSeq(a) \o FlattenSeq(s)) \o x = FlattenSeq(a) \o (FlattenSeq(s) \o x)
    BY <1>0, <2>1, ConcatAssociative
  <2>6. FlattenSeq(a \o Append(s, x)) = FlattenSeq(a) \o FlattenSeq(Append(s, x))
    BY <2>2, <2>3, <2>4, <2>5
  <2>. QED
    BY <2>1, <2>6
<1>3. T \in SUBSET Seq(Seq(S))
  OBVIOUS
<1>. HIDE DEF T
<1>4. T = Seq(Seq(S))
  BY <1>1, <1>2, <1>3, EverySequence
<1>. QED
  BY <1>4 DEF T

\* One sequence, and two.
LEMMA FlattenOne ==
  ASSUME NEW S, NEW s \in Seq(S)
  PROVE  FlattenSeq(<<s>>) = s
<1>1. << >> \in Seq(Seq(S)) /\ Append(<< >>, s) = <<s>> /\ << >> \o s = s
  BY EmptySeq, ConcatEmptySeq
<1>. QED
  BY <1>1, FlattenFacts

\* Sequences of one element each.
LEMMA FlattenSingles ==
  ASSUME NEW S, NEW s \in Seq(S)
  PROVE  FlattenSeq([i \in 1 .. Len(s) |-> <<s[i]>>]) = s
<1>. DEFINE singles(r) == [i \in 1 .. Len(r) |-> <<r[i]>>]
            T == {r \in Seq(S) : FlattenSeq(singles(r)) = r}
<1>1. << >> \in T
  <2>1. << >> \in Seq(S) /\ singles(<< >>) = << >>
    BY EmptySeq
  <2>. QED
    BY <2>1, FlattenFacts
<1>2. ASSUME NEW r \in T, NEW x \in S PROVE Append(r, x) \in T
  <2>. DEFINE a == Append(r, x)
              u == singles(r)
              v == singles(a)
  <2>1. /\ r \in Seq(S) /\ a \in Seq(S) /\ Len(r) \in Nat /\ Len(a) = Len(r) + 1
        /\ \A i \in 1 .. Len(r) : a[i] = r[i] /\ r[i] \in S
        /\ a[Len(r) + 1] = x
    BY AppendProperties, LenProperties, ElementOfSeq
  <2>. HIDE DEF a
  <2>2. \A i \in 1 .. Len(a) : a[i] \in S /\ <<a[i]>> \in Seq(S)
    BY <2>1
  <2>3. u \in Seq(Seq(S)) /\ v \in Seq(Seq(S)) /\ <<x>> \in Seq(S)
    BY <2>1, <2>2
  <2>4. /\ Len(u) = Len(r) /\ Len(v) = Len(r) + 1
        /\ \A i \in 1 .. Len(r) : v[i] = u[i]
        /\ v[Len(r) + 1] = <<x>>
    BY <2>1
  <2>5. FlattenSeq(u) = r
    BY <1>2
  <2>. HIDE DEF u, v
  <2>6. v = Append(u, <<x>>)
    BY <2>3, <2>4, IsAppend
  <2>7. FlattenSeq(v) = r \o <<x>>
    BY <2>3, <2>5, <2>6, FlattenFacts
  <2>8. r \o <<x>> = a
    BY <2>1, AppendIsConcat DEF a
  <2>. QED
    BY <2>1, <2>7, <2>8 DEF a, v
<1>3. T \in SUBSET Seq(S)
  OBVIOUS
<1>4. T = Seq(S)
  <2>. HIDE DEF T
  <2>. QED
    BY <1>1, <1>2, <1>3, EverySequence
<1>. QED
  BY <1>4

\* Sequences whose elements are all of a kind, once they are put together.
LEMMA FlattenParts ==
  ASSUME NEW S, NEW T, T \subseteq S, NEW seqs \in Seq(Seq(S)),
         \A k \in 1 .. Len(FlattenSeq(seqs)) : FlattenSeq(seqs)[k] \in T
  PROVE  seqs \in Seq(Seq(T))
<1>. DEFINE U == {s \in Seq(Seq(S)) : (\A k \in 1 .. Len(FlattenSeq(s)) : FlattenSeq(s)[k] \in T)
                                       => s \in Seq(Seq(T))}
<1>1. << >> \in U
  BY EmptySeq
<1>2. ASSUME NEW s \in U, NEW x \in Seq(S) PROVE Append(s, x) \in U
  <2>. DEFINE a == FlattenSeq(s)
              c == FlattenSeq(Append(s, x))
              m == Len(a)
              n == Len(x)
  <2>1. s \in Seq(Seq(S)) /\ Append(s, x) \in Seq(Seq(S))
    BY AppendProperties
  <2>2. a \in Seq(S) /\ c = a \o x
    BY <2>1, FlattenFacts
  <2>3. /\ m \in Nat /\ n \in Nat /\ Len(c) = m + n
        /\ \A i \in 1 .. m + n : c[i] = IF i <= m THEN a[i] ELSE x[i - m]
        /\ x = [i \in 1 .. n |-> x[i]]
    BY <2>2, ConcatProperties, LenProperties
  <2>4. (\A k \in 1 .. m : a[k] \in T) => s \in Seq(Seq(T))
    OBVIOUS
  <2>. HIDE DEF U, a, c, m, n
  <2>5. ASSUME \A k \in 1 .. Len(c) : c[k] \in T PROVE Append(s, x) \in Seq(Seq(T))
    <3>1. \A k \in 1 .. m : a[k] \in T
      <4>. SUFFICES ASSUME NEW k \in 1 .. m PROVE a[k] \in T
        OBVIOUS
      <4>1. k \in 1 .. m + n /\ k <= m
        BY <2>3
      <4>. QED
        BY <2>3, <2>5, <4>1
    <3>2. ASSUME NEW i \in 1 .. n PROVE x[i] \in T
      <4>1. m + i \in 1 .. m + n /\ ~(m + i <= m) /\ (m + i) - m = i
        BY <2>3
      <4>. QED
        BY <2>3, <2>5, <4>1
    <3>7. n \in Nat /\ x = [i \in 1 .. n |-> x[i]]
      BY <2>3
    <3>3. x \in Seq(T)
      BY <3>2, <3>7
    <3>4. s \in Seq(Seq(T))
      BY <2>4, <3>1
    <3>. QED
      BY <3>3, <3>4, AppendProperties
  <2>. QED
    BY <2>1, <2>5 DEF U, c
<1>3. U \in SUBSET Seq(Seq(S))
  OBVIOUS
<1>. HIDE DEF U
<1>4. U = Seq(Seq(S))
  BY <1>1, <1>2, <1>3, EverySequence
<1>. QED
  BY <1>4 DEF U

\* Three lists joined.
LEMMA Regroup ==
  ASSUME NEW S, NEW a \in Seq(S), NEW b \in Seq(S), NEW c \in Seq(S)
  PROVE  /\ (a \o b) \o c = a \o (b \o c) /\ (a \o b) \o c \in Seq(S) /\ a \o b \in Seq(S)
         /\ b \o c \in Seq(S)
<1>1. a \o b \in Seq(S) /\ b \o c \in Seq(S)
  BY ConcatProperties
<1>2. (a \o b) \o c \in Seq(S)
  BY <1>1, ConcatProperties
<1>3. (a \o b) \o c = a \o (b \o c)
  BY ConcatAssociative
<1>. QED
  BY <1>1, <1>2, <1>3

=============================================================================
