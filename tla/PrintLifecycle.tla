--------------------------- MODULE PrintLifecycle ---------------------------
(***************************************************************************)
(* What OPPA promises about one print job, without tables, timestamps or   *)
(* idempotency keys: the state machine of JobState in crates/oppa-core and *)
(* the terminal report owed for a finished job.  A job may be forgotten,   *)
(* but only after it finished; a report is owed from the instant the job   *)
(* finishes until it is settled or the job is forgotten.                   *)
(***************************************************************************)
CONSTANT Jobs

VARIABLES
  phase,   \* the local state of every job
  owed     \* finished jobs whose outcome has not been handed to the transport

lifecycleVars == <<phase, owed>>

Finished == {j \in Jobs : phase[j] \in {"submitted", "failed", "cancelled"}}

\* Finished jobs in F are forgotten, together with what was owed for them.
Forget(p, F) == [j \in Jobs |-> IF j \in F THEN "absent" ELSE p[j]]

Accept(j) ==
  /\ phase[j] = "absent"
  /\ phase' = [phase EXCEPT ![j] = "received"]
  /\ owed' = owed

Claim(j) ==
  /\ phase[j] = "received"
  /\ phase' = [phase EXCEPT ![j] = "submitting"]
  /\ owed' = owed

\* A submitted job is always reported; a failed one unless its stored payload
\* is unreadable; a cancelled one never (the protocol has no such message).
Finish(j, to, report, F) ==
  /\ phase[j] \in (IF to = "submitted" THEN {"submitting"} ELSE {"received", "submitting"})
  /\ to = "submitted" => report
  /\ to = "cancelled" => ~report
  /\ F \subseteq Finished
  /\ phase' = Forget([phase EXCEPT ![j] = to], F)
  /\ owed'  = (IF report THEN owed \cup {j} ELSE owed) \ F

\* Claims interrupted by a restart go back to the queue, all of them at once;
\* a restart may also forget finished jobs.
Interrupt(F) ==
  /\ F \subseteq Finished
  /\ phase' = Forget([j \in Jobs |-> IF phase[j] = "submitting" THEN "received" ELSE phase[j]], F)
  /\ owed' = owed \ F

Settle(j) ==
  /\ owed' = owed \ {j}
  /\ phase' = phase

LifecycleInit ==
  /\ phase \in [Jobs -> {"absent", "received"}]
  /\ owed = {}

LifecycleNext ==
  \/ \E j \in Jobs : Accept(j) \/ Claim(j) \/ Settle(j)
  \/ \E j \in Jobs, to \in {"submitted", "failed", "cancelled"}, report \in BOOLEAN :
       \E F \in SUBSET Finished : Finish(j, to, report, F)
  \/ \E F \in SUBSET Finished : Interrupt(F)

LifecycleSpec == LifecycleInit /\ [][LifecycleNext]_lifecycleVars

=============================================================================
