---------------------------- MODULE MCRuntimeWork ----------------------------
(***************************************************************************)
(* Instance of RuntimeWork for TLC.                                        *)
(***************************************************************************)
EXTENDS MCAgentRuntime, RuntimeWork

BudgetLive == Env(2, 1, 1, 1, 1)

\* Bound: one disturbance in a behaviour, or a cancellation and a connection
\* loss.  Only steps of the environment, which no fairness forces, are cut.
TroubleApart ==
  Disturbances <= 1 \/ (budget["crash"] = 1 /\ budget["fault"] = 1)

=============================================================================
