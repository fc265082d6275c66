--------------------------- MODULE MCAgentRuntime ---------------------------
(***************************************************************************)
(* Instances of AgentRuntime for TLC.                                      *)
(***************************************************************************)
EXTENDS AgentRuntime, TLC

MCDeliveries ==
  { [job |-> 1, key |-> "k1", payload |-> "p1"],
    [job |-> 2, key |-> "k2", payload |-> "p2"] }

\* A redelivery of job 1 with changed contents, and job 2 under job 1's key.
MCConflicts ==
  { [job |-> 1, key |-> "k1", payload |-> "p1"],
    [job |-> 1, key |-> "k1", payload |-> "p2"],
    [job |-> 2, key |-> "k1", payload |-> "p1"],
    [job |-> 2, key |-> "k2", payload |-> "p2"] }

\* A row that an earlier build left, and that this build cannot parse.
MCLegacy == { [job |-> 2, key |-> "k2", payload |-> "p0"] }

Env(deliver, cancel, drop, crash, fault) ==
  [k \in {"deliver", "cancel", "drop", "crash", "fault"} |->
     CASE k = "deliver" -> deliver [] k = "cancel" -> cancel [] k = "drop" -> drop
       [] k = "crash"   -> crash   [] k = "fault"  -> fault]

BudgetFaults  == Env(2, 1, 1, 1, 1)
BudgetEvict   == Env(3, 1, 0, 0, 0)

\* Bound: any two of the cancellation, the connection loss, the crash and the
\* failing transaction in one behaviour, not all four.
Disturbances ==
  LET spent(k) == Budget[k] - budget[k]
  IN  spent("cancel") + spent("drop") + spent("crash") + spent("fault")

AtMostTwoDisturbances == Disturbances <= 2

TaskSymmetry == Permutations(Tasks)

=============================================================================
