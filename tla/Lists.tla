-------------------------------- MODULE Lists --------------------------------
(***************************************************************************)
(* Totals of lists, for the modules that count pixels, bytes and columns.  *)
(* Recursion is by recursive functions, so that proofs can use them.       *)
(***************************************************************************)
EXTENDS Integers, Sequences

\* The total of a list of numbers.
SumOf(numbers) ==
  LET upTo[n \in 0..Len(numbers)] == IF n = 0 THEN 0 ELSE upTo[n - 1] + numbers[n]
  IN  upTo[Len(numbers)]

=============================================================================
