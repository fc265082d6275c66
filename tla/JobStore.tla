------------------------------ MODULE JobStore ------------------------------
(***************************************************************************)
(* The durable job table and status outbox of crates/oppa-storage, the     *)
(* SQLite boundary every print job passes through.                         *)
(*                                                                         *)
(* Every public operation of SqliteStorage runs one SQL transaction under  *)
(* the connection mutex, so each is one atomic action here.  `jobs' is the *)
(* print_jobs table and `outbox' the outbound_status_outbox table; a job   *)
(* that has no row maps to NoRow.  Payloads are model values; their        *)
(* SHA-256 is represented by the payload it was computed from, i.e. the    *)
(* hash is taken to be collision free.                                     *)
(***************************************************************************)
EXTENDS Integers, FiniteSets

CONSTANTS
  JobIds,          \* job ids; integers, because SQL orders ties by job_id
  Keys,            \* idempotency keys
  Payloads,        \* printer + document contents of a print job
  Deliveries,      \* print-job messages a server may send
  Legacy,          \* received jobs an earlier run or build left in the table
  MaxPending,      \* StorageLimits.max_pending_jobs
  MaxTerminal,     \* StorageLimits.max_terminal_jobs
  MaxTime,         \* bound: wall-clock readings are 0..MaxTime
  MaxInserts,      \* bound: times one job id is stored
  MaxRecoveries    \* bound: recovery_count of a row

\* "null" is what replaces a pruned payload.
NullPayload == "null"
NoKey       == "none"

ASSUME JobIdsAssumption   == JobIds \subseteq Int /\ IsFiniteSet(JobIds)
ASSUME DeliveryAssumption ==
  /\ Deliveries \cup Legacy \subseteq [job : JobIds, key : Keys, payload : Payloads]
  /\ \A d, e \in Legacy : d.job = e.job \/ d.key = e.key => d = e
  /\ IsFiniteSet(Legacy) /\ Cardinality(Legacy) <= MaxPending
ASSUME NullAssumption == NullPayload \notin Payloads /\ NoKey \notin Keys
ASSUME LimitsAssumption   == MaxPending \in Nat \ {0} /\ MaxTerminal \in Nat \ {0}
ASSUME BoundsAssumption   == MaxTime \in Nat /\ MaxInserts \in Nat /\ MaxRecoveries \in Nat

VARIABLES
  jobs,      \* print_jobs
  outbox,    \* outbound_status_outbox
  clock,     \* what now_millis() would return; it may step in any direction
  inserts    \* auxiliary: how often each job id was stored (row generations)

storeVars == <<jobs, outbox, clock, inserts>>

-----------------------------------------------------------------------------
PendingStates  == {"received", "submitting"}
TerminalStates == {"submitted", "failed", "cancelled"}
JobStates      == PendingStates \cup TerminalStates

\* NoRow.state stands for "no such row".
NoRow == [state |-> "absent", key |-> NoKey, payload |-> NullPayload, sha |-> NullPayload,
          attempts |-> 0, recoveries |-> 0, receivedAt |-> 0, updatedAt |-> 0]

Row == [state : JobStates \cup {"absent"}, key : Keys \cup {NoKey},
        payload : Payloads \cup {NullPayload}, sha : Payloads \cup {NullPayload},
        attempts : Nat, recoveries : Nat, receivedAt : Nat, updatedAt : Nat]

\* What a terminal report says.  `uncertain' is code job.recovery_uncertain.
StatusKinds == {"submitted", "failed", "uncertain"}

\* A status message.  Its fresh uuid is represented by the row generation it belongs to.
Status == [job : JobIds, gen : Nat, kind : StatusKinds, at : Nat]

Stored(j)   == jobs[j].state # "absent"
Pending     == {j \in JobIds : jobs[j].state \in PendingStates}
Received    == {j \in JobIds : jobs[j].state = "received"}
Submitting  == {j \in JobIds : jobs[j].state = "submitting"}

-----------------------------------------------------------------------------
(* insert_received                                                         *)

\* A pruned row is compared by fingerprint, any other by its payload.
PayloadMatches(row, d) ==
  IF row.payload = NullPayload THEN row.sha = d.payload ELSE row.payload = d.payload

\* Mutant: a redelivery is recognised by its key alone.
ExistingOutcomeByKey(row, d) ==
  IF row.key # d.key THEN "identity_conflict" ELSE "duplicate_job"

ExistingOutcome(row, d) ==
  IF row.key # d.key             THEN "identity_conflict"
  ELSE IF ~PayloadMatches(row, d) THEN "content_conflict"
  ELSE "duplicate_job"

\* Mutant: the key lookup overlooks finished rows.
KeyTakenByPendingOnly(key) == \E k \in Pending : jobs[k].key = key

KeyTaken(key) == \E k \in JobIds : Stored(k) /\ jobs[k].key = key

\* Mutant: the limit counts queued rows only, not claimed ones.
InsertOutcomeIgnoringClaims(d) ==
  IF Stored(d.job)                           THEN ExistingOutcome(jobs[d.job], d)
  ELSE IF KeyTaken(d.key)                    THEN "duplicate_key"
  ELSE IF Cardinality(Received) >= MaxPending THEN "queue_full"
  ELSE "inserted"

InsertOutcome(d) ==
  IF Stored(d.job)                          THEN ExistingOutcome(jobs[d.job], d)
  ELSE IF KeyTaken(d.key)                   THEN "duplicate_key"
  ELSE IF Cardinality(Pending) >= MaxPending THEN "queue_full"
  ELSE "inserted"

NewRow(d) ==
  [state |-> "received", key |-> d.key, payload |-> d.payload, sha |-> d.payload,
   attempts |-> 0, recoveries |-> 0, receivedAt |-> clock, updatedAt |-> clock]

InsertReceived(d) ==
  /\ InsertOutcome(d) = "inserted"
  /\ jobs' = [jobs EXCEPT ![d.job] = NewRow(d)]
  /\ inserts' = [inserts EXCEPT ![d.job] = @ + 1]
  /\ UNCHANGED <<outbox, clock>>

-----------------------------------------------------------------------------
(* enforce_terminal_retention: prune the payload of every terminal row,    *)
(* then delete the oldest ones over the limit, never the protected one;    *)
(* outbox rows of a deleted job go with it (ON DELETE CASCADE).            *)

TerminalJobs(js)  == {j \in JobIds : js[j].state \in TerminalStates}
OlderRow(js, a, b) ==
  \/ js[a].updatedAt < js[b].updatedAt
  \/ js[a].updatedAt = js[b].updatedAt /\ a < b

\* Mutants: the youngest rows go first; one row too many is kept; rows that are
\* still pending are deleted as well.
YoungestVictims(js, protected) ==
  LET excess     == Cardinality(TerminalJobs(js)) - MaxTerminal
      candidates == TerminalJobs(js) \ protected
  IN  {j \in candidates :
         Cardinality({k \in candidates : OlderRow(js, j, k)}) < excess}

TooFewVictims(js, protected) ==
  LET excess     == Cardinality(TerminalJobs(js)) - MaxTerminal - 1
      candidates == TerminalJobs(js) \ protected
  IN  {j \in candidates :
         Cardinality({k \in candidates : OlderRow(js, k, j)}) < excess}

VictimsOfAnyState(js, protected) ==
  LET rows       == {j \in JobIds : js[j].state # "absent"}
      candidates == rows \ protected
  IN  {j \in candidates :
         Cardinality({k \in candidates : OlderRow(js, k, j)}) < Cardinality(rows) - MaxTerminal}

Victims(js, protected) ==
  LET excess     == Cardinality(TerminalJobs(js)) - MaxTerminal
      candidates == TerminalJobs(js) \ protected
  IN  {j \in candidates :
         Cardinality({k \in candidates : OlderRow(js, k, j)}) < excess}

\* Mutant: the payload of every row is pruned.
RetainedPruningAll(js, protected) ==
  [j \in JobIds |->
     IF j \in Victims(js, protected) THEN NoRow ELSE [js[j] EXCEPT !.payload = NullPayload]]

Retained(js, protected) ==
  [j \in JobIds |->
     IF j \in Victims(js, protected) THEN NoRow
     ELSE IF j \in TerminalJobs(js)  THEN [js[j] EXCEPT !.payload = NullPayload]
     ELSE js[j]]

\* Mutant: no ON DELETE CASCADE.
OutboxWithoutCascade(box, js, protected) == box

OutboxRetained(box, js, protected) == {m \in box : m.job \notin Victims(js, protected)}

-----------------------------------------------------------------------------
(* transition                                                              *)

Allowed(current, requested) ==
  CASE requested = "submitting" -> current = "received"
    [] requested = "submitted"  -> current = "submitting"
    [] requested = "failed"     -> current \in PendingStates
    [] requested = "cancelled"  -> current \in PendingStates
    [] OTHER                    -> FALSE

Claims(row, requested) == IF requested = "submitting" THEN row.attempts + 1 ELSE row.attempts

Transitioned(j, requested) ==
  [jobs EXCEPT ![j] = [jobs[j] EXCEPT !.state     = requested,
                                      !.updatedAt = clock,
                                      !.attempts  = Claims(jobs[j], requested)]]

\* `kinds' is empty, or the one status written in the same transaction.
NewStatuses(j, kinds) ==
  {[job |-> j, gen |-> inserts[j], kind |-> k, at |-> clock] : k \in kinds}

TerminalTransition(j, requested, kinds) ==
  LET js  == Transitioned(j, requested)
      box == outbox \cup NewStatuses(j, kinds)
  IN  /\ Allowed(jobs[j].state, requested)
      /\ jobs'   = Retained(js, {j})
      /\ outbox' = OutboxRetained(box, js, {j})
      /\ UNCHANGED <<clock, inserts>>

MarkSubmitting(j) ==
  /\ Allowed(jobs[j].state, "submitting")
  /\ jobs' = Transitioned(j, "submitting")
  /\ UNCHANGED <<outbox, clock, inserts>>

MarkSubmitted(j)     == TerminalTransition(j, "submitted", {"submitted"})
MarkFailed(j, kinds) == TerminalTransition(j, "failed", kinds)
MarkCancelled(j)     == TerminalTransition(j, "cancelled", {})

-----------------------------------------------------------------------------
(* recover_interrupted, acknowledge_outbound_status and opening the        *)
(* database, which maintains the terminal rows.                            *)

\* Mutants: the recovery is not counted; the row gets a state SQL rejects.
RecoveredUncounted(js) ==
  [j \in JobIds |->
     IF js[j].state = "submitting" THEN [js[j] EXCEPT !.state = "received"] ELSE js[j]]

RecoveredAsPending(js) ==
  [j \in JobIds |->
     IF js[j].state = "submitting"
       THEN [js[j] EXCEPT !.state = "pending", !.recoveries = @ + 1] ELSE js[j]]

Recovered(js) ==
  [j \in JobIds |->
     IF js[j].state = "submitting"
       THEN [js[j] EXCEPT !.state = "received", !.recoveries = @ + 1, !.updatedAt = clock]
       ELSE js[j]]

RecoverInterrupted ==
  /\ jobs' = Recovered(jobs)
  /\ UNCHANGED <<outbox, clock, inserts>>

\* Deleting a row that is already gone is not an error.
AcknowledgeOutboundStatus(m) ==
  /\ outbox' = outbox \ {m}
  /\ UNCHANGED <<jobs, clock, inserts>>

\* Process start: SqliteStorage::open maintains the table, then the desktop
\* service runs recover_interrupted before anything else touches the store.
Open ==
  /\ jobs'   = Recovered(Retained(jobs, {}))
  /\ outbox' = OutboxRetained(outbox, jobs, {})
  /\ UNCHANGED <<clock, inserts>>

ClockStep ==
  /\ clock' \in (0 .. MaxTime) \ {clock}
  /\ UNCHANGED <<jobs, outbox, inserts>>

-----------------------------------------------------------------------------
StoreInit ==
  /\ clock   = 0
  /\ jobs    = [j \in JobIds |->
                  IF \E d \in Legacy : d.job = j
                    THEN NewRow(CHOOSE d \in Legacy : d.job = j) ELSE NoRow]
  /\ outbox  = {}
  /\ inserts = [j \in JobIds |-> IF \E d \in Legacy : d.job = j THEN 1 ELSE 0]

StoreNext ==
  \/ \E d \in Deliveries : InsertReceived(d) /\ inserts[d.job] < MaxInserts
  \/ \E j \in JobIds : MarkSubmitting(j)
  \/ \E j \in JobIds : MarkSubmitted(j)
  \/ \E j \in JobIds, kinds \in {{}, {"failed"}} : MarkFailed(j, kinds)
  \/ \E j \in JobIds : jobs[j].recoveries > 0 /\ MarkFailed(j, {"uncertain"})
  \/ \E j \in JobIds : MarkCancelled(j)
  \/ RecoverInterrupted /\ \A j \in Submitting : jobs[j].recoveries < MaxRecoveries
  \/ \E m \in outbox : AcknowledgeOutboundStatus(m)
  \/ Open /\ \A j \in Submitting : jobs[j].recoveries < MaxRecoveries
  \/ ClockStep

StoreSpec == StoreInit /\ [][StoreNext]_storeVars

-----------------------------------------------------------------------------
(* Properties                                                              *)

\* The tables hold well-typed rows (print_jobs CHECK constraints, lib.rs enums).
StoreTypeOK ==
  /\ jobs \in [JobIds -> Row]
  /\ outbox \subseteq Status
  /\ clock \in Nat
  /\ inserts \in [JobIds -> Nat]

\* The UNIQUE key is what makes a retry under a new job id harmless: no two
\* stored rows ever share an idempotency key (insert_received's by_key lookup).
KeysUnique ==
  \A j, k \in JobIds : Stored(j) /\ Stored(k) /\ jobs[j].key = jobs[k].key => j = k

AttemptsMatch(row) ==
  CASE row.state \in {"submitting", "submitted"} -> row.attempts = row.recoveries + 1
    [] row.state \in {"failed", "cancelled"}     -> row.attempts - row.recoveries \in {0, 1}
    [] OTHER                                     -> row.attempts = row.recoveries

\* Every claim but the last is explained by a counted recovery: a row was
\* claimed exactly as often as it was recovered, plus once if it is claimed
\* now or ended claimed.  retry_attempts and recovery_count are maintained by
\* different operations (transition, recover_interrupted); recovery_count is
\* all that tells a later failure report that an earlier attempt may have printed.
ClaimsAccounted == \A j \in JobIds : AttemptsMatch(jobs[j])

PayloadFits(row) ==
  /\ row.state \in PendingStates  => row.payload = row.sha
  /\ row.state \in TerminalStates => row.payload = NullPayload
  /\ row.state # "absent"         => row.sha # NullPayload

\* Work that may still have to be printed keeps its payload; a finished row
\* keeps only the fingerprint, which still recognises an exact redelivery
\* (enforce_terminal_retention against insert_received's comparison).
PayloadKeptWhilePending == \A j \in JobIds : PayloadFits(jobs[j])

StateOf(kind) == IF kind = "submitted" THEN "submitted" ELSE "failed"

\* The outbox never contradicts the job table: a waiting status belongs to the
\* row's current generation, the row is terminal in the state it announces,
\* an uncertain status belongs to a recovered row, and no job waits with two
\* statuses (transition's single transaction, ON DELETE CASCADE).
OutboxMatchesJobs ==
  /\ \A m \in outbox :
       /\ jobs[m.job].state = StateOf(m.kind)
       /\ m.gen = inserts[m.job]
       /\ m.kind = "uncertain" => jobs[m.job].recoveries > 0
  /\ \A m, n \in outbox : m.job = n.job => m = n

\* The strengthening that is inductive: the parts of one transaction's work
\* that the operations rely on in each other.
StoreInvariant ==
  /\ StoreTypeOK
  /\ KeysUnique
  /\ ClaimsAccounted
  /\ PayloadKeptWhilePending
  /\ OutboxMatchesJobs

\* The queue never exceeds max_pending_jobs, although recovery puts claimed
\* rows back into it after the limit was checked (insert_received counts both).
PendingBounded == Cardinality(Pending) <= MaxPending

\* History never exceeds max_terminal_jobs after any committed transaction,
\* although the row that just became terminal is exempt from eviction.
TerminalBounded == Cardinality(TerminalJobs(jobs)) <= MaxTerminal

Evicted(j) == Stored(j) /\ jobs'[j].state = "absent"

\* Eviction takes the oldest history: whenever a row disappears it was
\* terminal, and every terminal row that survives is younger, unless it is
\* the one this very transition finished.
EvictsOldestFirst ==
  [][\A j \in JobIds : Evicted(j) =>
       /\ jobs[j].state \in TerminalStates
       /\ \A k \in TerminalJobs(jobs) : jobs'[k].state # "absent" => OlderRow(jobs, j, k)]_storeVars

\* A terminal state is final for its row: it is only ever left by eviction,
\* so no late spooler result, cancellation or recovery rewrites it.
TerminalIsFinal ==
  [][\A j \in TerminalJobs(jobs) : jobs'[j].state \in {jobs[j].state, "absent"}]_storeVars

-----------------------------------------------------------------------------
\* The tables implement the per-job promise: every transaction is a step of
\* PrintLifecycle for the state column and the jobs with a waiting status.
Lifecycle == INSTANCE PrintLifecycle WITH
               Jobs  <- JobIds,
               phase <- [j \in JobIds |-> jobs[j].state],
               owed  <- {m.job : m \in outbox}

\* No sequence of store operations leaves the promised job lifecycle: no job
\* is lost before it finished, none is finished twice, and a report is owed
\* from the committing transaction on.
ImplementsLifecycle == Lifecycle!LifecycleSpec

=============================================================================
