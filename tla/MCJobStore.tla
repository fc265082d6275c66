----------------------------- MODULE MCJobStore -----------------------------
(***************************************************************************)
(* Instance of JobStore for TLC: three jobs, the third of which reuses the *)
(* first job's idempotency key.                                            *)
(***************************************************************************)
EXTENDS JobStore

MCDeliveries ==
  { [job |-> 1, key |-> "k1", payload |-> "p1"],
    [job |-> 2, key |-> "k2", payload |-> "p2"],
    [job |-> 3, key |-> "k1", payload |-> "p1"],
    [job |-> 3, key |-> "k3", payload |-> "p1"] }

=============================================================================
