------------------------ MODULE AgentRuntime_proofs ------------------------
(***************************************************************************)
(* Theorems about the store and about the job flow over it, for every      *)
(* value of their constants.                                               *)
(*                                                                         *)
(* The first part is about the store alone (StoreSpec): its invariant;     *)
(* from the invariant, that finished rows are final and that the tables    *)
(* implement PrintLifecycle; and the limits max_pending_jobs and           *)
(* max_terminal_jobs of the job table.                                     *)
(*                                                                         *)
(* The second part is about the tasks of the runtime (Spec): the three     *)
(* locks and the store together keep claims, copies, receipts and reports  *)
(* consistent, for every set of tasks, jobs, limits and budgets.  What the *)
(* tasks promise each other is TaskOK.  Every label at which a task relies *)
(* on the store lies under flow_lock, so a step of one task either holds   *)
(* that lock, and then no other task relies on anything, or leaves the     *)
(* rows alone.  The one operation outside it that writes rows, cancel_job, *)
(* is kept off claimed rows by the active map and its mutex.               *)
(***************************************************************************)
EXTENDS AgentRuntime, Lists_proofs, FiniteSetTheorems

-----------------------------------------------------------------------------
(* Types of the operators that build rows.                                 *)

\* The "no row" value is a row.
LEMMA NoRowType == NoRow \in Row
  BY DEF NoRow, Row

\* The row insert_received writes is a row in state received.
LEMMA NewRowType ==
  ASSUME clock \in Nat, NEW d \in Deliveries \cup Legacy
  PROVE  NewRow(d) \in Row
  BY DeliveryAssumption DEF NewRow, Row, JobStates, PendingStates

\* A state change keeps the table well typed.
LEMMA TransitionedType ==
  ASSUME StoreTypeOK, NEW j \in JobIds, NEW requested \in JobStates
  PROVE  Transitioned(j, requested) \in [JobIds -> Row]
<1>1. jobs[j] \in Row /\ clock \in Nat /\ jobs \in [JobIds -> Row]
  BY DEF StoreTypeOK
<1>2. Claims(jobs[j], requested) \in Nat
  BY <1>1 DEF Row, Claims
<1>3. [jobs[j] EXCEPT !.state = requested, !.updatedAt = clock,
                      !.attempts = Claims(jobs[j], requested)] \in Row
  BY <1>1, <1>2 DEF Row
<1>. QED
  BY <1>1, <1>3 DEF Transitioned

\* So does enforce_terminal_retention.
LEMMA RetainedType ==
  ASSUME NEW js \in [JobIds -> Row], NEW protected
  PROVE  Retained(js, protected) \in [JobIds -> Row]
<1>1. ASSUME NEW j \in JobIds
      PROVE  [js[j] EXCEPT !.payload = NullPayload] \in Row
  BY DEF Row
<1>. QED
  BY <1>1, NoRowType DEF Retained

\* So does recover_interrupted.
LEMMA RecoveredType ==
  ASSUME NEW js \in [JobIds -> Row], clock \in Nat
  PROVE  Recovered(js) \in [JobIds -> Row]
<1>1. ASSUME NEW j \in JobIds
      PROVE  [js[j] EXCEPT !.state = "received", !.recoveries = @ + 1, !.updatedAt = clock] \in Row
  <2>1. js[j] \in Row
    OBVIOUS
  <2>2. js[j].recoveries + 1 \in Nat
    BY <2>1 DEF Row
  <2>. QED
    BY <2>1, <2>2 DEF Row, JobStates, PendingStates
<1>. QED
  BY <1>1 DEF Recovered

\* And the new status is a status.
LEMMA NewStatusesType ==
  ASSUME StoreTypeOK, NEW j \in JobIds, NEW kinds \in SUBSET StatusKinds
  PROVE  NewStatuses(j, kinds) \subseteq Status
  BY DEF NewStatuses, StoreTypeOK, Status

\* A terminal transition, whatever it writes, keeps the tables well typed.
LEMMA TerminalTransitionType ==
  ASSUME StoreTypeOK, NEW j \in JobIds, NEW requested \in JobStates,
         NEW kinds \in SUBSET StatusKinds, TerminalTransition(j, requested, kinds)
  PROVE  StoreTypeOK'
<1>1. jobs' \in [JobIds -> Row]
  BY TransitionedType, RetainedType DEF TerminalTransition
<1>2. outbox' \subseteq Status
  BY NewStatusesType DEF TerminalTransition, OutboxRetained, StoreTypeOK
<1>. QED
  BY <1>1, <1>2 DEF TerminalTransition, StoreTypeOK

-----------------------------------------------------------------------------
\* The initial tables are well typed.
LEMMA StoreTypeInit == StoreInit => StoreTypeOK
<1>. SUFFICES ASSUME StoreInit PROVE StoreTypeOK
  OBVIOUS
<1>1. ASSUME NEW j \in JobIds
      PROVE  jobs[j] \in Row
  <2>1. CASE \E d \in Legacy : d.job = j
    <3>1. (CHOOSE d \in Legacy : d.job = j) \in Legacy
      BY <2>1
    <3>. QED
      BY <2>1, <3>1, NewRowType DEF StoreInit
  <2>2. CASE ~ \E d \in Legacy : d.job = j
    BY <2>2, NoRowType DEF StoreInit
  <2>. QED
    BY <2>1, <2>2
<1>2. jobs \in [JobIds -> Row]
  BY <1>1 DEF StoreInit
<1>. QED
  BY <1>2 DEF StoreInit, StoreTypeOK

\* What one transaction may do.  StoreNext takes the same steps within the
\* bounds that keep the instances of TLC finite; the lemmas need no bound.
Transaction ==
  \/ \E d \in Deliveries : InsertReceived(d)
  \/ \E j \in JobIds : MarkSubmitting(j)
  \/ \E j \in JobIds : MarkSubmitted(j)
  \/ \E j \in JobIds, kinds \in {{}, {"failed"}} : MarkFailed(j, kinds)
  \/ \E j \in JobIds : jobs[j].recoveries > 0 /\ MarkFailed(j, {"uncertain"})
  \/ \E j \in JobIds : MarkCancelled(j)
  \/ RecoverInterrupted
  \/ \E m \in outbox : AcknowledgeOutboundStatus(m)
  \/ Open
  \/ ClockStep

\* A step within the bounds is a transaction.
LEMMA StoreNextTransacts == [StoreNext]_storeVars => [Transaction]_storeVars
  BY DEF StoreNext, Transaction

\* Every transaction keeps them well typed.
LEMMA StoreTypeStep == StoreTypeOK /\ [Transaction]_storeVars => StoreTypeOK'
<1>. SUFFICES ASSUME StoreTypeOK, [Transaction]_storeVars PROVE StoreTypeOK'
  OBVIOUS
<1>1. CASE \E d \in Deliveries : InsertReceived(d)
  <2>1. PICK d \in Deliveries : InsertReceived(d)
    BY <1>1
  <2>2. NewRow(d) \in Row
    BY NewRowType DEF StoreTypeOK
  <2>3. d.job \in JobIds
    BY DeliveryAssumption
  <2>. QED
    BY <2>1, <2>2, <2>3 DEF InsertReceived, StoreTypeOK
<1>2. CASE \E j \in JobIds : MarkSubmitting(j)
  BY <1>2, TransitionedType DEF MarkSubmitting, StoreTypeOK, JobStates, PendingStates
<1>3. CASE \E j \in JobIds : MarkSubmitted(j)
  BY <1>3, TerminalTransitionType
  DEF MarkSubmitted, JobStates, TerminalStates, StatusKinds
<1>4. CASE \E j \in JobIds, kinds \in {{}, {"failed"}} : MarkFailed(j, kinds)
  BY <1>4, TerminalTransitionType
  DEF MarkFailed, JobStates, TerminalStates, StatusKinds
<1>5. CASE \E j \in JobIds : jobs[j].recoveries > 0 /\ MarkFailed(j, {"uncertain"})
  BY <1>5, TerminalTransitionType
  DEF MarkFailed, JobStates, TerminalStates, StatusKinds
<1>6. CASE \E j \in JobIds : MarkCancelled(j)
  BY <1>6, TerminalTransitionType
  DEF MarkCancelled, JobStates, TerminalStates, StatusKinds
<1>7. CASE RecoverInterrupted
  BY <1>7, RecoveredType DEF RecoverInterrupted, StoreTypeOK
<1>8. CASE \E m \in outbox : AcknowledgeOutboundStatus(m)
  BY <1>8 DEF AcknowledgeOutboundStatus, StoreTypeOK
<1>9. CASE Open
  BY <1>9, RetainedType, RecoveredType DEF Open, OutboxRetained, StoreTypeOK
<1>10. CASE ClockStep
  BY <1>10, BoundsAssumption DEF ClockStep, StoreTypeOK
<1>11. CASE UNCHANGED storeVars
  BY <1>11 DEF storeVars, StoreTypeOK
<1>. QED
  BY <1>1, <1>2, <1>3, <1>4, <1>5, <1>6, <1>7, <1>8, <1>9, <1>10, <1>11 DEF Transaction

\* The tables hold well-typed rows in every reachable state: no operation of
\* SqliteStorage writes a value outside the columns' domains.
THEOREM StoreTypeCorrect == StoreSpec => []StoreTypeOK
  BY StoreTypeInit, StoreTypeStep, StoreNextTransacts, PTL DEF StoreSpec

-----------------------------------------------------------------------------
(* What the operators leave of a row.                                      *)

\* Retention deletes terminal rows only, and never the protected one.
LEMMA VictimRow ==
  ASSUME NEW js, NEW protected, NEW j \in Victims(js, protected)
  PROVE  /\ j \in JobIds /\ j \notin protected /\ js[j].state \in TerminalStates
         /\ Retained(js, protected)[j] = NoRow
  BY DEF Retained, Victims, TerminalJobs

\* It prunes the payload of the terminal rows it keeps and nothing else.
LEMMA KeptRow ==
  ASSUME NEW js, NEW protected, NEW j \in JobIds, j \notin Victims(js, protected)
  PROVE  Retained(js, protected)[j] =
           IF js[j].state \in TerminalStates
             THEN [js[j] EXCEPT !.payload = NullPayload] ELSE js[j]
  BY DEF Retained, TerminalJobs

\* A table entry that is not deleted keeps its state, key and counters.
LEMMA RetainedFields ==
  ASSUME NEW js \in [JobIds -> Row], NEW protected, NEW j \in JobIds,
         j \notin Victims(js, protected)
  PROVE  /\ Retained(js, protected)[j].state = js[j].state
         /\ Retained(js, protected)[j].key = js[j].key
         /\ Retained(js, protected)[j].sha = js[j].sha
         /\ Retained(js, protected)[j].attempts = js[j].attempts
         /\ Retained(js, protected)[j].recoveries = js[j].recoveries
         /\ Retained(js, protected)[j].payload =
              IF js[j].state \in TerminalStates THEN NullPayload ELSE js[j].payload
<1>1. js[j] \in Row
  OBVIOUS
<1>2. CASE js[j].state \in TerminalStates
  <2>1. Retained(js, protected)[j] = [js[j] EXCEPT !.payload = NullPayload]
    BY <1>2, KeptRow
  <2>. QED
    BY <1>1, <1>2, <2>1 DEF Row
<1>3. CASE js[j].state \notin TerminalStates
  BY <1>3, KeptRow
<1>. QED
  BY <1>2, <1>3

\* A transition changes one row: its state, its claim counter, its timestamp.
LEMMA TransitionedFields ==
  ASSUME StoreTypeOK, NEW j \in JobIds, NEW requested, NEW k \in JobIds
  PROVE  /\ Transitioned(j, requested)[k].key = jobs[k].key
         /\ Transitioned(j, requested)[k].sha = jobs[k].sha
         /\ Transitioned(j, requested)[k].payload = jobs[k].payload
         /\ Transitioned(j, requested)[k].recoveries = jobs[k].recoveries
         /\ k # j => Transitioned(j, requested)[k] = jobs[k]
         /\ k = j => /\ Transitioned(j, requested)[k].state = requested
                     /\ Transitioned(j, requested)[k].attempts = Claims(jobs[j], requested)
<1>1. jobs[k] \in Row /\ jobs \in [JobIds -> Row]
  BY DEF StoreTypeOK
<1>. QED
  BY <1>1 DEF Transitioned, Row

\* Recovery changes claimed rows only.
LEMMA RecoveredFields ==
  ASSUME NEW js \in [JobIds -> Row], NEW j \in JobIds
  PROVE  /\ Recovered(js)[j].key = js[j].key
         /\ Recovered(js)[j].sha = js[j].sha
         /\ Recovered(js)[j].payload = js[j].payload
         /\ Recovered(js)[j].attempts = js[j].attempts
         /\ js[j].state # "submitting" => Recovered(js)[j] = js[j]
         /\ js[j].state = "submitting" =>
              /\ Recovered(js)[j].state = "received"
              /\ Recovered(js)[j].recoveries = js[j].recoveries + 1
<1>1. js[j] \in Row
  OBVIOUS
<1>. QED
  BY <1>1 DEF Recovered, Row

-----------------------------------------------------------------------------
(* The inductive invariant.                                                *)

\* Keys stay unique when no surviving row changes its key.
LEMMA KeysStayUnique ==
  ASSUME KeysUnique,
         \A k \in JobIds : jobs'[k].state # "absent" =>
                             Stored(k) /\ jobs'[k].key = jobs[k].key
  PROVE  KeysUnique'
  BY DEF KeysUnique, Stored

\* A job that was waiting is not in the outbox.
LEMMA UnfinishedOwesNothing ==
  ASSUME OutboxMatchesJobs, NEW m \in outbox
  PROVE  jobs[m.job].state \in {"submitted", "failed"}
  BY DEF OutboxMatchesJobs, StateOf

\* insert_received keeps the invariant: the key was free, and no status of an
\* earlier generation of this job can still be waiting.
LEMMA InsertKeepsInvariant ==
  ASSUME StoreInvariant, NEW d \in Deliveries, InsertReceived(d), StoreTypeOK'
  PROVE  StoreInvariant'
<1>. USE DEF StoreInvariant
<1>1. /\ d.job \in JobIds /\ d.key \in Keys /\ d.payload \in Payloads
      /\ jobs \in [JobIds -> Row] /\ inserts \in [JobIds -> Nat]
  BY DeliveryAssumption DEF StoreTypeOK
<1>2. ~Stored(d.job) /\ ~KeyTaken(d.key)
  BY DEF InsertReceived, InsertOutcome, ExistingOutcome
<1>3. /\ jobs'[d.job] = NewRow(d)
      /\ \A k \in JobIds \ {d.job} : jobs'[k] = jobs[k] /\ inserts'[k] = inserts[k]
      /\ outbox' = outbox
  BY <1>1 DEF InsertReceived
<1>4. KeysUnique'
  BY <1>1, <1>2, <1>3 DEF KeysUnique, KeyTaken, Stored, NewRow
<1>5. ClaimsAccounted'
  BY <1>3 DEF ClaimsAccounted, AttemptsMatch, NewRow
<1>6. PayloadKeptWhilePending'
  BY <1>1, <1>3, NullAssumption
  DEF PayloadKeptWhilePending, PayloadFits, NewRow, TerminalStates
<1>7. \A m \in outbox : m.job \in JobIds \ {d.job}
  BY <1>2, UnfinishedOwesNothing DEF Stored, StoreTypeOK, Status
<1>8. OutboxMatchesJobs'
  BY <1>3, <1>7 DEF OutboxMatchesJobs
<1>. QED
  BY <1>4, <1>5, <1>6, <1>8

\* The claim counts one attempt more than recoveries.
LEMMA ClaimKeepsInvariant ==
  ASSUME StoreInvariant, NEW j \in JobIds, MarkSubmitting(j), StoreTypeOK'
  PROVE  StoreInvariant'
<1>. USE DEF StoreInvariant
<1>1. /\ jobs[j].state = "received"
      /\ jobs' = Transitioned(j, "submitting") /\ outbox' = outbox /\ inserts' = inserts
  BY DEF MarkSubmitting, Allowed
<1>2. \A k \in JobIds : jobs[k] \in Row
  BY DEF StoreTypeOK
<1>3. KeysUnique'
  BY <1>1, TransitionedFields, KeysStayUnique DEF Stored
<1>4. ClaimsAccounted'
  BY <1>1, <1>2, TransitionedFields DEF ClaimsAccounted, AttemptsMatch, Claims, Row
<1>5. PayloadKeptWhilePending'
  BY <1>1, TransitionedFields
  DEF PayloadKeptWhilePending, PayloadFits, PendingStates, TerminalStates
<1>6. \A m \in outbox : m.job \in JobIds \ {j}
  BY <1>1, UnfinishedOwesNothing DEF StoreTypeOK, Status
<1>7. OutboxMatchesJobs'
  BY <1>1, <1>6, TransitionedFields DEF OutboxMatchesJobs
<1>. QED
  BY <1>3, <1>4, <1>5, <1>7

\* A terminal transition, its status and the retention that follows it keep
\* the invariant: a deleted row takes its status along, the new status belongs
\* to a row that had none.
LEMMA TerminalKeepsInvariant ==
  ASSUME StoreInvariant, NEW j \in JobIds, NEW requested \in TerminalStates,
         NEW kinds \in SUBSET StatusKinds,
         TerminalTransition(j, requested, kinds),
         \A k, l \in kinds : k = l,
         \A k \in kinds : /\ requested = StateOf(k)
                          /\ k = "uncertain" => jobs[j].recoveries > 0,
         StoreTypeOK'
  PROVE  StoreInvariant'
<1>. DEFINE js == Transitioned(j, requested)
            V  == Victims(js, {j})
<1>. USE DEF StoreInvariant
<1>1. /\ jobs[j].state \in PendingStates
      /\ requested = "submitted" => jobs[j].state = "submitting"
      /\ requested # "submitting" /\ requested # "absent"
  BY DEF TerminalTransition, Allowed, TerminalStates, PendingStates
<1>2. js \in [JobIds -> Row] /\ \A k \in JobIds : jobs[k] \in Row
  BY TransitionedType DEF StoreTypeOK, JobStates
<1>3. /\ jobs' = Retained(js, {j}) /\ inserts' = inserts
      /\ outbox' = {m \in outbox \cup NewStatuses(j, kinds) : m.job \notin V}
  BY DEF TerminalTransition, OutboxRetained
<1>4. j \notin V
  BY VictimRow
<1>5. ASSUME NEW k \in JobIds, k \in V
      PROVE  jobs'[k] = NoRow
  BY <1>3, <1>5, VictimRow
<1>6. ASSUME NEW k \in JobIds, k \notin V
      PROVE  /\ jobs'[k].state = js[k].state /\ jobs'[k].key = jobs[k].key
             /\ jobs'[k].sha = jobs[k].sha /\ jobs'[k].recoveries = jobs[k].recoveries
             /\ jobs'[k].attempts = js[k].attempts
             /\ jobs'[k].payload = IF js[k].state \in TerminalStates
                                     THEN NullPayload ELSE jobs[k].payload
  BY <1>2, <1>3, <1>6, RetainedFields, TransitionedFields
<1>7. /\ js[j].state = requested /\ js[j].attempts = jobs[j].attempts
      /\ \A k \in JobIds \ {j} : js[k] = jobs[k]
  BY <1>1, TransitionedFields DEF Claims
<1>8. KeysUnique'
  <2>. SUFFICES ASSUME NEW k \in JobIds, jobs'[k].state # "absent"
                PROVE  Stored(k) /\ jobs'[k].key = jobs[k].key
    BY KeysStayUnique
  <2>1. k \notin V
    BY <1>5 DEF NoRow
  <2>2. jobs'[k].key = jobs[k].key /\ jobs'[k].state = js[k].state
    BY <1>6, <2>1
  <2>3. k # j => Stored(k)
    BY <1>7, <2>2 DEF Stored
  <2>4. Stored(j)
    BY <1>1 DEF Stored, PendingStates
  <2>. QED
    BY <2>2, <2>3, <2>4
<1>9. ClaimsAccounted'
  <2>. SUFFICES ASSUME NEW k \in JobIds PROVE AttemptsMatch(jobs'[k])
    BY DEF ClaimsAccounted
  <2>1. AttemptsMatch(jobs[k])
    BY DEF ClaimsAccounted
  <2>2. CASE k \in V
    BY <1>5, <2>2 DEF AttemptsMatch, NoRow
  <2>3. CASE k \notin V /\ k # j
    BY <1>6, <1>7, <2>1, <2>3 DEF AttemptsMatch
  <2>4. CASE k = j
    <3>1. /\ jobs'[j].state = requested /\ jobs'[j].attempts = jobs[j].attempts
          /\ jobs'[j].recoveries = jobs[j].recoveries
      BY <1>4, <1>6, <1>7
    <3>2. jobs[j].attempts \in Nat /\ jobs[j].recoveries \in Nat
      BY <1>2 DEF Row
    <3>3. jobs[j].attempts - jobs[j].recoveries \in {0, 1}
      BY <1>1, <2>1, <2>4, <3>2 DEF AttemptsMatch, PendingStates
    <3>4. CASE requested = "submitted"
      BY <1>1, <2>1, <2>4, <3>1, <3>4 DEF AttemptsMatch
    <3>5. CASE requested \in {"failed", "cancelled"}
      BY <2>4, <3>1, <3>3, <3>5 DEF AttemptsMatch
    <3>. QED
      BY <3>4, <3>5 DEF TerminalStates
  <2>. QED
    BY <2>2, <2>3, <2>4
<1>10. PayloadKeptWhilePending'
  BY <1>1, <1>5, <1>6, <1>7
  DEF PayloadKeptWhilePending, PayloadFits, PendingStates, TerminalStates, NoRow
<1>11. \A m \in outbox : m.job \in JobIds \ {j}
  BY <1>1, UnfinishedOwesNothing DEF StoreTypeOK, Status, PendingStates
<1>12. \A m \in NewStatuses(j, kinds) :
          /\ m.job = j /\ m.gen = inserts[j] /\ m.kind \in kinds
          /\ \A n \in NewStatuses(j, kinds) : m = n
  BY DEF NewStatuses
<1>13. OutboxMatchesJobs'
  <2>1. ASSUME NEW m \in outbox, m.job \notin V
        PROVE  /\ jobs'[m.job].state = StateOf(m.kind) /\ m.gen = inserts'[m.job]
               /\ m.kind = "uncertain" => jobs'[m.job].recoveries > 0
    <3>1. m.job \in JobIds \ {j}
      BY <1>11
    <3>2. /\ jobs'[m.job].state = jobs[m.job].state
          /\ jobs'[m.job].recoveries = jobs[m.job].recoveries
      BY <1>6, <1>7, <2>1, <3>1
    <3>. QED
      BY <1>3, <3>2 DEF OutboxMatchesJobs
  <2>2. ASSUME NEW m \in NewStatuses(j, kinds)
        PROVE  /\ jobs'[m.job].state = StateOf(m.kind) /\ m.gen = inserts'[m.job]
               /\ m.kind = "uncertain" => jobs'[m.job].recoveries > 0
    <3>1. m.job = j /\ m.gen = inserts[j] /\ m.kind \in kinds
      BY <1>12
    <3>2. jobs'[j].state = requested /\ jobs'[j].recoveries = jobs[j].recoveries
      BY <1>4, <1>6, <1>7
    <3>. QED
      BY <1>3, <3>1, <3>2
  <2>3. \A m, n \in outbox' : m.job = n.job => m = n
    BY <1>3, <1>11, <1>12 DEF OutboxMatchesJobs
  <2>. QED
    BY <1>3, <2>1, <2>2, <2>3 DEF OutboxMatchesJobs
<1>. QED
  BY <1>8, <1>9, <1>10, <1>13

\* recover_interrupted pays for the interrupted claim with a counted recovery.
LEMMA RecoveredKeepsRows ==
  ASSUME NEW js \in [JobIds -> Row], NEW j \in JobIds, AttemptsMatch(js[j]), PayloadFits(js[j])
  PROVE  AttemptsMatch(Recovered(js)[j]) /\ PayloadFits(Recovered(js)[j])
<1>1. js[j] \in Row
  OBVIOUS
<1>. QED
  BY <1>1, RecoveredFields
  DEF AttemptsMatch, PayloadFits, PendingStates, TerminalStates, Row

\* Recovery keeps the invariant.
LEMMA RecoverKeepsInvariant ==
  ASSUME StoreInvariant, RecoverInterrupted, StoreTypeOK'
  PROVE  StoreInvariant'
<1>. USE DEF StoreInvariant
<1>1. jobs' = Recovered(jobs) /\ outbox' = outbox /\ inserts' = inserts
  BY DEF RecoverInterrupted
<1>2. jobs \in [JobIds -> Row]
  BY DEF StoreTypeOK
<1>3. KeysUnique'
  BY <1>1, <1>2, RecoveredFields, KeysStayUnique DEF Stored
<1>4. ClaimsAccounted' /\ PayloadKeptWhilePending'
  BY <1>1, <1>2, RecoveredKeepsRows DEF ClaimsAccounted, PayloadKeptWhilePending
<1>5. \A m \in outbox : m.job \in JobIds /\ jobs[m.job].state # "submitting"
  BY UnfinishedOwesNothing DEF StoreTypeOK, Status
<1>6. OutboxMatchesJobs'
  BY <1>1, <1>2, <1>5, RecoveredFields DEF OutboxMatchesJobs
<1>. QED
  BY <1>3, <1>4, <1>6

\* So does a process start: retention over the whole table, then recovery.
LEMMA OpenKeepsInvariant ==
  ASSUME StoreInvariant, Open, StoreTypeOK'
  PROVE  StoreInvariant'
<1>. DEFINE js == Retained(jobs, {})
            V  == Victims(jobs, {})
<1>. USE DEF StoreInvariant
<1>1. /\ jobs' = Recovered(js) /\ inserts' = inserts
      /\ outbox' = {m \in outbox : m.job \notin V}
  BY DEF Open, OutboxRetained
<1>2. jobs \in [JobIds -> Row] /\ js \in [JobIds -> Row]
  BY RetainedType DEF StoreTypeOK
<1>3. ASSUME NEW k \in JobIds
      PROVE  /\ k \in V => js[k] = NoRow
             /\ k \notin V => js[k].state = jobs[k].state /\ js[k].key = jobs[k].key
                              /\ js[k].recoveries = jobs[k].recoveries
  BY <1>2, VictimRow, RetainedFields
<1>4. ASSUME NEW k \in JobIds
      PROVE  AttemptsMatch(js[k]) /\ PayloadFits(js[k])
  <2>1. AttemptsMatch(jobs[k]) /\ PayloadFits(jobs[k])
    BY DEF ClaimsAccounted, PayloadKeptWhilePending
  <2>2. CASE k \in V
    BY <1>3, <2>2 DEF AttemptsMatch, PayloadFits, NoRow, PendingStates, TerminalStates
  <2>3. CASE k \notin V
    BY <1>2, <2>1, <2>3, RetainedFields
    DEF AttemptsMatch, PayloadFits, PendingStates, TerminalStates
  <2>. QED
    BY <2>2, <2>3
<1>5. KeysUnique'
  BY <1>1, <1>2, <1>3, RecoveredFields, KeysStayUnique DEF Stored, NoRow
<1>6. ClaimsAccounted' /\ PayloadKeptWhilePending'
  BY <1>1, <1>2, <1>4, RecoveredKeepsRows DEF ClaimsAccounted, PayloadKeptWhilePending
<1>7. \A m \in outbox : m.job \in JobIds /\ jobs[m.job].state # "submitting"
  BY UnfinishedOwesNothing DEF StoreTypeOK, Status
<1>8. OutboxMatchesJobs'
  BY <1>1, <1>2, <1>3, <1>7, RecoveredFields DEF OutboxMatchesJobs
<1>. QED
  BY <1>5, <1>6, <1>8

\* The invariant holds initially, jobs left by an earlier run included.
LEMMA StoreInvariantInit == StoreInit => StoreInvariant
<1>. SUFFICES ASSUME StoreInit PROVE StoreInvariant
  OBVIOUS
<1>1. ASSUME NEW j \in JobIds
      PROVE  \/ jobs[j] = NoRow
             \/ \E d \in Legacy : d.job = j /\ jobs[j] = NewRow(d)
  <2>1. CASE \E d \in Legacy : d.job = j
    <3>. DEFINE e == CHOOSE d \in Legacy : d.job = j
    <3>1. e \in Legacy /\ e.job = j
      BY <2>1
    <3>2. jobs[j] = NewRow(e)
      BY <2>1 DEF StoreInit
    <3>. QED
      BY <3>1, <3>2
  <2>2. CASE ~ \E d \in Legacy : d.job = j
    BY <2>2 DEF StoreInit
  <2>. QED
    BY <2>1, <2>2
<1>2. KeysUnique
  <2>. SUFFICES ASSUME NEW j \in JobIds, NEW k \in JobIds, Stored(j), Stored(k),
                       jobs[j].key = jobs[k].key
                PROVE  j = k
    BY DEF KeysUnique
  <2>1. PICK d \in Legacy : d.job = j /\ jobs[j] = NewRow(d)
    BY <1>1 DEF Stored, NoRow
  <2>2. PICK e \in Legacy : e.job = k /\ jobs[k] = NewRow(e)
    BY <1>1 DEF Stored, NoRow
  <2>3. d.key = e.key
    BY <2>1, <2>2 DEF NewRow
  <2>. QED
    BY <2>1, <2>2, <2>3, DeliveryAssumption
<1>3. ASSUME NEW j \in JobIds
      PROVE  AttemptsMatch(jobs[j]) /\ PayloadFits(jobs[j])
  <2>1. CASE jobs[j] = NoRow
    BY <2>1 DEF AttemptsMatch, PayloadFits, NoRow, PendingStates, TerminalStates
  <2>2. ASSUME NEW d \in Legacy, jobs[j] = NewRow(d)
        PROVE  AttemptsMatch(jobs[j]) /\ PayloadFits(jobs[j])
    <3>1. d.payload \in Payloads
      BY DeliveryAssumption
    <3>. QED
      BY <2>2, <3>1, NullAssumption
      DEF AttemptsMatch, PayloadFits, NewRow, PendingStates, TerminalStates
  <2>. QED
    BY <1>1, <2>1, <2>2
<1>4. OutboxMatchesJobs
  BY DEF StoreInit, OutboxMatchesJobs
<1>. QED
  BY <1>2, <1>3, <1>4, StoreTypeInit
  DEF StoreInvariant, ClaimsAccounted, PayloadKeptWhilePending

\* Every transaction keeps it.
LEMMA StoreInvariantStep == StoreInvariant /\ [Transaction]_storeVars => StoreInvariant'
<1>. SUFFICES ASSUME StoreInvariant, [Transaction]_storeVars PROVE StoreInvariant'
  OBVIOUS
<1>0. StoreTypeOK'
  BY StoreTypeStep DEF StoreInvariant
<1>1. CASE \E d \in Deliveries : InsertReceived(d)
  BY <1>0, <1>1, InsertKeepsInvariant
<1>2. CASE \E j \in JobIds : MarkSubmitting(j)
  BY <1>0, <1>2, ClaimKeepsInvariant
<1>3. CASE \E j \in JobIds : MarkSubmitted(j)
  BY <1>0, <1>3, TerminalKeepsInvariant
  DEF MarkSubmitted, TerminalStates, StatusKinds, StateOf
<1>4. CASE \E j \in JobIds, kinds \in {{}, {"failed"}} : MarkFailed(j, kinds)
  <2>1. PICK j \in JobIds, kinds \in {{}, {"failed"}} : TerminalTransition(j, "failed", kinds)
    BY <1>4 DEF MarkFailed
  <2>. QED
    BY <1>0, <2>1, TerminalKeepsInvariant DEF TerminalStates, StatusKinds, StateOf
<1>5. CASE \E j \in JobIds : jobs[j].recoveries > 0 /\ MarkFailed(j, {"uncertain"})
  BY <1>0, <1>5, TerminalKeepsInvariant
  DEF MarkFailed, TerminalStates, StatusKinds, StateOf
<1>6. CASE \E j \in JobIds : MarkCancelled(j)
  BY <1>0, <1>6, TerminalKeepsInvariant DEF MarkCancelled, TerminalStates
<1>7. CASE RecoverInterrupted
  BY <1>0, <1>7, RecoverKeepsInvariant
<1>8. CASE \E m \in outbox : AcknowledgeOutboundStatus(m)
  BY <1>0, <1>8
  DEF AcknowledgeOutboundStatus, StoreInvariant, KeysUnique, Stored, ClaimsAccounted,
      PayloadKeptWhilePending, OutboxMatchesJobs
<1>9. CASE Open
  BY <1>0, <1>9, OpenKeepsInvariant
<1>10. CASE ClockStep \/ UNCHANGED storeVars
  BY <1>0, <1>10
  DEF ClockStep, storeVars, StoreInvariant, KeysUnique, Stored, ClaimsAccounted,
      PayloadKeptWhilePending, OutboxMatchesJobs
<1>. QED
  BY <1>1, <1>2, <1>3, <1>4, <1>5, <1>6, <1>7, <1>8, <1>9, <1>10 DEF Transaction

\* The store's invariant, for any number of jobs, keys, deliveries and limits.
THEOREM StoreInvariantHolds == StoreSpec => []StoreInvariant
  BY StoreInvariantInit, StoreInvariantStep, StoreNextTransacts, PTL DEF StoreSpec

\* A retry under a new job id can never be stored beside the original.
THEOREM KeysAlwaysUnique == StoreSpec => []KeysUnique
<1>1. StoreInvariant => KeysUnique
  BY DEF StoreInvariant
<1>. QED
  BY <1>1, StoreInvariantHolds, PTL

\* recovery_count explains every claim but the last.
THEOREM ClaimsAlwaysAccounted == StoreSpec => []ClaimsAccounted
<1>1. StoreInvariant => ClaimsAccounted
  BY DEF StoreInvariant
<1>. QED
  BY <1>1, StoreInvariantHolds, PTL

\* Pending work keeps its payload, finished rows only the fingerprint.
THEOREM PayloadAlwaysKept == StoreSpec => []PayloadKeptWhilePending
<1>1. StoreInvariant => PayloadKeptWhilePending
  BY DEF StoreInvariant
<1>. QED
  BY <1>1, StoreInvariantHolds, PTL

\* The outbox never contradicts the job table.
THEOREM OutboxAlwaysMatches == StoreSpec => []OutboxMatchesJobs
<1>1. StoreInvariant => OutboxMatchesJobs
  BY DEF StoreInvariant
<1>. QED
  BY <1>1, StoreInvariantHolds, PTL

-----------------------------------------------------------------------------
(* Terminal rows are final, and the tables implement the lifecycle.         *)

\* What a terminal transition leaves of each row's state.
LEMMA TerminalTransitionStates ==
  ASSUME StoreTypeOK, NEW j \in JobIds, NEW requested \in TerminalStates, NEW kinds,
         TerminalTransition(j, requested, kinds), NEW k \in JobIds
  PROVE  jobs'[k].state =
           IF k \in Victims(Transitioned(j, requested), {j}) THEN "absent"
           ELSE IF k = j THEN requested ELSE jobs[k].state
<1>. DEFINE js == Transitioned(j, requested)
<1>1. jobs' = Retained(js, {j}) /\ js \in [JobIds -> Row]
  BY TransitionedType DEF TerminalTransition, JobStates
<1>2. CASE k \in Victims(js, {j})
  BY <1>1, <1>2, VictimRow DEF NoRow
<1>3. CASE k \notin Victims(js, {j})
  <2>1. jobs'[k].state = js[k].state
    BY <1>1, <1>3, RetainedFields
  <2>. QED
    BY <1>3, <2>1, TransitionedFields
<1>. QED
  BY <1>2, <1>3

\* What opening the database leaves of each row's state.
LEMMA OpenStates ==
  ASSUME StoreTypeOK, Open, NEW k \in JobIds
  PROVE  jobs'[k].state =
           IF k \in Victims(jobs, {}) THEN "absent"
           ELSE IF jobs[k].state = "submitting" THEN "received" ELSE jobs[k].state
<1>. DEFINE js == Retained(jobs, {})
<1>1. jobs \in [JobIds -> Row] /\ js \in [JobIds -> Row] /\ jobs' = Recovered(js)
  BY RetainedType DEF StoreTypeOK, Open
<1>2. jobs'[k].state = IF js[k].state = "submitting" THEN "received" ELSE js[k].state
  BY <1>1, RecoveredFields
<1>3. k \in Victims(jobs, {}) => js[k].state = "absent"
  BY VictimRow DEF NoRow
<1>4. k \notin Victims(jobs, {}) => js[k].state = jobs[k].state
  BY <1>1, RetainedFields
<1>. QED
  BY <1>2, <1>3, <1>4

-----------------------------------------------------------------------------
\* No transaction rewrites a finished row.
FinalStep == \A j \in TerminalJobs(jobs) : jobs'[j].state \in {jobs[j].state, "absent"}

\* mark_*, cancellation and recovery leave a terminal state alone.
LEMMA TransactionIsFinal == StoreTypeOK /\ [Transaction]_storeVars => [FinalStep]_storeVars
<1>. SUFFICES ASSUME StoreTypeOK, Transaction, NEW k \in JobIds, jobs[k].state \in TerminalStates
              PROVE  jobs'[k].state \in {jobs[k].state, "absent"}
  BY DEF TerminalJobs, FinalStep
<1>. USE DEF TerminalStates
<1>0. jobs \in [JobIds -> Row]
  BY DEF StoreTypeOK
<1>1. CASE \E d \in Deliveries : InsertReceived(d)
  BY <1>0, <1>1, DeliveryAssumption DEF InsertReceived, InsertOutcome, ExistingOutcome, Stored
<1>2. CASE \E j \in JobIds : MarkSubmitting(j)
  BY <1>2, TransitionedFields DEF MarkSubmitting, Allowed
<1>3. ASSUME NEW j \in JobIds, NEW requested \in TerminalStates, NEW kinds,
             TerminalTransition(j, requested, kinds)
      PROVE  jobs'[k].state \in {jobs[k].state, "absent"}
  <2>1. jobs[j].state \in PendingStates
    BY <1>3 DEF TerminalTransition, Allowed, PendingStates
  <2>2. k # j
    BY <2>1 DEF PendingStates
  <2>. QED
    BY <1>3, <2>2, TerminalTransitionStates
<1>4. CASE \E j \in JobIds : MarkSubmitted(j) \/ MarkCancelled(j)
  BY <1>3, <1>4 DEF MarkSubmitted, MarkCancelled
<1>5. CASE \E j \in JobIds, kinds \in {{}, {"failed"}, {"uncertain"}} : MarkFailed(j, kinds)
  BY <1>3, <1>5 DEF MarkFailed
<1>6. CASE RecoverInterrupted
  BY <1>0, <1>6, RecoveredFields DEF RecoverInterrupted
<1>7. CASE (\E m \in outbox : AcknowledgeOutboundStatus(m)) \/ ClockStep
  BY <1>7 DEF AcknowledgeOutboundStatus, ClockStep
<1>8. CASE Open
  BY <1>8, OpenStates
<1>. QED
  BY <1>1, <1>2, <1>4, <1>5, <1>6, <1>7, <1>8 DEF Transaction

\* No transaction rewrites a finished row: mark_*, cancellation and recovery
\* leave a terminal state alone, only eviction removes it.
THEOREM TerminalStatesAreFinal == StoreSpec => TerminalIsFinal
  BY StoreNextTransacts, TransactionIsFinal, StoreTypeCorrect, PTL
  DEF StoreSpec, TerminalIsFinal, FinalStep

-----------------------------------------------------------------------------
(* The refinement: phase is the state column, owed the jobs in the outbox. *)

phaseOfJobs == [j \in JobIds |-> jobs[j].state]
owedJobs    == {m.job : m \in outbox}

\* A terminal transition finishes one job, owes its report if one was written
\* in the same transaction, and forgets only jobs that had finished before.
LEMMA TerminalFinishes ==
  ASSUME StoreInvariant, NEW j \in JobIds, NEW requested \in TerminalStates,
         NEW kinds \in SUBSET StatusKinds, TerminalTransition(j, requested, kinds),
         requested = "submitted" => kinds # {},
         requested = "cancelled" => kinds = {}
  PROVE  \E F \in SUBSET Lifecycle!Finished :
           Lifecycle!Finish(j, requested, kinds # {}, F)
<1>. DEFINE js == Transitioned(j, requested)
            V  == Victims(js, {j})
<1>0. StoreTypeOK
  BY DEF StoreInvariant
<1>1. V \subseteq Lifecycle!Finished
  <2>. SUFFICES ASSUME NEW k \in V PROVE k \in Lifecycle!Finished
    OBVIOUS
  <2>1. k \in JobIds /\ k # j /\ js[k].state \in TerminalStates
    BY VictimRow
  <2>2. jobs[k].state \in TerminalStates
    BY <1>0, <2>1, TransitionedFields
  <2>. QED
    BY <2>1, <2>2 DEF Lifecycle!Finished, TerminalStates
<1>2. /\ requested = "submitted" => jobs[j].state = "submitting"
      /\ jobs[j].state \in {"received", "submitting"}
  BY DEF TerminalTransition, Allowed, PendingStates, TerminalStates
<1>3. phaseOfJobs' = Lifecycle!Forget([phaseOfJobs EXCEPT ![j] = requested], V)
  BY <1>0, TerminalTransitionStates DEF phaseOfJobs, Lifecycle!Forget
<1>4. owedJobs' = (IF kinds # {} THEN owedJobs \cup {j} ELSE owedJobs) \ V
  <2>1. outbox' = {m \in outbox \cup NewStatuses(j, kinds) : m.job \notin V}
    BY DEF TerminalTransition, OutboxRetained
  <2>2. {m.job : m \in NewStatuses(j, kinds)} = IF kinds # {} THEN {j} ELSE {}
    <3>1. \A m \in NewStatuses(j, kinds) : m.job = j
      BY DEF NewStatuses
    <3>2. ASSUME NEW k \in kinds
          PROVE  \E m \in NewStatuses(j, kinds) : m.job = j
      <4>. DEFINE m == [job |-> j, gen |-> inserts[j], kind |-> k, at |-> clock]
      <4>1. m \in NewStatuses(j, kinds)
        BY DEF NewStatuses
      <4>. QED
        BY <4>1
    <3>3. kinds = {} => NewStatuses(j, kinds) = {}
      BY DEF NewStatuses
    <3>. QED
      BY <3>1, <3>2, <3>3
  <2>3. owedJobs' = (owedJobs \cup {m.job : m \in NewStatuses(j, kinds)}) \ V
    BY <2>1 DEF owedJobs
  <2>. QED
    BY <2>2, <2>3
<1>. QED
  BY <1>1, <1>2, <1>3, <1>4 DEF Lifecycle!Finish, phaseOfJobs, owedJobs

\* Every transaction is a step of the job lifecycle or leaves it alone.
LEMMA LifecycleStep ==
  StoreInvariant /\ [Transaction]_storeVars => [Lifecycle!LifecycleNext]_(Lifecycle!lifecycleVars)
<1>. SUFFICES ASSUME StoreInvariant, [Transaction]_storeVars
              PROVE  Lifecycle!LifecycleNext \/ UNCHANGED Lifecycle!lifecycleVars
  OBVIOUS
<1>0. StoreTypeOK /\ jobs \in [JobIds -> Row] /\ OutboxMatchesJobs
  BY DEF StoreInvariant, StoreTypeOK
<1>1. ASSUME NEW d \in Deliveries, InsertReceived(d)
      PROVE  Lifecycle!Accept(d.job) /\ d.job \in JobIds
  BY <1>0, <1>1, DeliveryAssumption
  DEF InsertReceived, InsertOutcome, ExistingOutcome, Stored, NewRow, Lifecycle!Accept
<1>2. ASSUME NEW j \in JobIds, MarkSubmitting(j)
      PROVE  Lifecycle!Claim(j)
  <2>1. phaseOfJobs' = [phaseOfJobs EXCEPT ![j] = "submitting"]
    <3>1. jobs' = Transitioned(j, "submitting")
      BY <1>2 DEF MarkSubmitting
    <3>2. ASSUME NEW k \in JobIds
          PROVE  jobs'[k].state = IF k = j THEN "submitting" ELSE jobs[k].state
      BY <1>0, <3>1, TransitionedFields
    <3>. QED
      BY <3>2 DEF phaseOfJobs
  <2>. QED
    BY <1>2, <2>1 DEF MarkSubmitting, Allowed, Lifecycle!Claim, phaseOfJobs
<1>3. ASSUME NEW j \in JobIds, NEW to \in TerminalStates, NEW report \in BOOLEAN,
             \E F \in SUBSET Lifecycle!Finished : Lifecycle!Finish(j, to, report, F)
      PROVE  Lifecycle!LifecycleNext
  BY <1>3 DEF Lifecycle!LifecycleNext, TerminalStates
<1>4. CASE \E j \in JobIds : MarkSubmitted(j)
  BY <1>3, <1>4, TerminalFinishes DEF MarkSubmitted, TerminalStates, StatusKinds
<1>5. CASE \E j \in JobIds, kinds \in {{}, {"failed"}, {"uncertain"}} : MarkFailed(j, kinds)
  BY <1>3, <1>5, TerminalFinishes DEF MarkFailed, TerminalStates, StatusKinds
<1>6. CASE \E j \in JobIds : MarkCancelled(j)
  BY <1>3, <1>6, TerminalFinishes DEF MarkCancelled, TerminalStates
<1>7. ASSUME RecoverInterrupted
      PROVE  Lifecycle!Interrupt({})
  <2>1. phaseOfJobs' =
          [j \in JobIds |-> IF phaseOfJobs[j] = "submitting" THEN "received" ELSE phaseOfJobs[j]]
    BY <1>0, <1>7, RecoveredFields DEF RecoverInterrupted, phaseOfJobs
  <2>. QED
    BY <1>7, <2>1 DEF RecoverInterrupted, Lifecycle!Interrupt, Lifecycle!Forget, phaseOfJobs
<1>8. ASSUME NEW m \in outbox, AcknowledgeOutboundStatus(m)
      PROVE  Lifecycle!Settle(m.job) /\ m.job \in JobIds
  <2>1. outbox' = outbox \ {m} /\ jobs' = jobs
    BY <1>8 DEF AcknowledgeOutboundStatus
  <2>2. owedJobs' = owedJobs \ {m.job}
    BY <1>0, <2>1 DEF owedJobs, OutboxMatchesJobs
  <2>3. m.job \in JobIds
    BY <1>0 DEF StoreTypeOK, Status
  <2>. QED
    BY <2>1, <2>2, <2>3 DEF Lifecycle!Settle, owedJobs
<1>9. ASSUME Open
      PROVE  /\ Lifecycle!Interrupt(Victims(jobs, {}))
             /\ Victims(jobs, {}) \subseteq Lifecycle!Finished
  <2>1. Victims(jobs, {}) \subseteq Lifecycle!Finished
    BY VictimRow DEF Lifecycle!Finished, TerminalStates
  <2>2. owedJobs' = owedJobs \ Victims(jobs, {})
    BY <1>9 DEF Open, OutboxRetained, owedJobs
  <2>3. phaseOfJobs' = Lifecycle!Forget(
          [j \in JobIds |-> IF phaseOfJobs[j] = "submitting" THEN "received" ELSE phaseOfJobs[j]],
          Victims(jobs, {}))
    BY <1>0, <1>9, OpenStates DEF phaseOfJobs, Lifecycle!Forget
  <2>. QED
    BY <2>1, <2>2, <2>3 DEF Lifecycle!Interrupt, phaseOfJobs, owedJobs
<1>10. CASE ClockStep \/ UNCHANGED storeVars
  BY <1>10 DEF ClockStep, storeVars, Lifecycle!lifecycleVars
<1>11. CASE RecoverInterrupted \/ Open
  <2>1. \E F \in SUBSET Lifecycle!Finished : Lifecycle!Interrupt(F)
    BY <1>7, <1>9, <1>11 DEF Lifecycle!Interrupt
  <2>. QED
    BY <2>1 DEF Lifecycle!LifecycleNext
<1>12. CASE \E d \in Deliveries : InsertReceived(d)
  BY <1>1, <1>12 DEF Lifecycle!LifecycleNext
<1>13. CASE \E j \in JobIds : MarkSubmitting(j)
  BY <1>2, <1>13 DEF Lifecycle!LifecycleNext
<1>14. CASE \E m \in outbox : AcknowledgeOutboundStatus(m)
  BY <1>8, <1>14 DEF Lifecycle!LifecycleNext
<1>. QED
  BY <1>4, <1>5, <1>6, <1>10, <1>11, <1>12, <1>13, <1>14 DEF Transaction

\* The process starts with queued jobs at most, and owes nothing for them.
LEMMA LifecycleStart == StoreInit => Lifecycle!LifecycleInit
  BY DEF StoreInit, Lifecycle!LifecycleInit, NewRow, NoRow

\* The tables implement the promised lifecycle of a job, for every number of
\* jobs and every limit: no transaction loses a job before it finished,
\* finishes it twice, or finishes it without owing its report.
THEOREM StoreImplementsLifecycle == StoreSpec => ImplementsLifecycle
  BY LifecycleStart, LifecycleStep, StoreNextTransacts, StoreInvariantHolds, PTL
  DEF StoreSpec, ImplementsLifecycle, Lifecycle!LifecycleSpec

-----------------------------------------------------------------------------
(* The order that decides who is evicted.                                  *)

\* ORDER BY updated_at_ms, job_id is a strict order.
LEMMA OlderRowOrder ==
  ASSUME NEW js \in [JobIds -> Row],
         NEW a \in JobIds, NEW b \in JobIds, NEW c \in JobIds
  PROVE  /\ ~OlderRow(js, a, a)
         /\ OlderRow(js, a, b) /\ OlderRow(js, b, c) => OlderRow(js, a, c)
<1>1. a \in Int /\ b \in Int /\ c \in Int
  BY JobIdsAssumption
<1>2. js[a].updatedAt \in Nat /\ js[b].updatedAt \in Nat /\ js[c].updatedAt \in Nat
  BY DEF Row
<1>. QED
  BY <1>1, <1>2 DEF OlderRow

\* The LIMIT of the DELETE is reached: of a finite set of candidates at least
\* `e' have fewer than `e' older ones.
LEMMA EnoughOldRows ==
  ASSUME NEW js \in [JobIds -> Row], NEW C \in SUBSET JobIds,
         NEW e \in Nat, e <= Cardinality(C)
  PROVE  e <= Cardinality({j \in C : Cardinality({k \in C : OlderRow(js, k, j)}) < e})
<1>. DEFINE older == [j \in C |-> {k \in C : OlderRow(js, k, j)}]
            rank  == [j \in C |-> Cardinality(older[j])]
            V     == {j \in C : rank[j] < e}
<1>1. IsFiniteSet(C) /\ Cardinality(C) \in Nat
  BY FS_Subset, FS_CardinalityType, JobIdsAssumption
<1>2. IsFiniteSet(V) /\ Cardinality(V) \in Nat
  BY <1>1, FS_Subset, FS_CardinalityType
<1>3. ASSUME NEW j \in C
      PROVE  IsFiniteSet(older[j]) /\ rank[j] = Cardinality(older[j]) /\ rank[j] \in Nat
  <2>1. older[j] \in SUBSET C
    OBVIOUS
  <2>. QED
    BY <1>1, <2>1, FS_Subset, FS_CardinalityType
<1>4. ASSUME NEW j \in C, NEW k \in older[j]
      PROVE  k \in C /\ rank[k] < rank[j]
  <2>0. k \in C
    OBVIOUS
  <2>1. older[k] \subseteq older[j] /\ k \notin older[k]
    BY <2>0, OlderRowOrder
  <2>2. Cardinality(older[k]) <= Cardinality(older[j])
    BY <1>3, <2>1, FS_Subset
  <2>3. Cardinality(older[k]) # Cardinality(older[j])
    BY <1>3, <2>0, <2>1, FS_Subset
  <2>. QED
    BY <1>3, <2>0, <2>2, <2>3
<1>5. V = {j \in C : Cardinality({k \in C : OlderRow(js, k, j)}) < e}
  OBVIOUS
<1>6. \A j \in C : j \in V <=> rank[j] < e
  OBVIOUS
<1>7. V \subseteq C
  OBVIOUS
<1>. HIDE DEF older, rank, V
<1>. SUFFICES ASSUME Cardinality(V) < e PROVE FALSE
  BY <1>2, <1>5
<1>8. C \ V # {}
  <2>1. V # C
    BY <1>1, <1>2
  <2>. QED
    BY <1>7, <2>1
<1>9. PICK j \in C \ V : \A k \in C \ V : rank[j] <= rank[k]
  <2>. DEFINE T == {rank[k] : k \in C \ V}
  <2>1. T \in SUBSET Nat /\ T # {}
    BY <1>3, <1>8
  <2>2. PICK x \in T : \A y \in T : x <= y
    BY <2>1, LeastNatural
  <2>. QED
    BY <2>2
<1>10. older[j] \subseteq V
  <2>. SUFFICES ASSUME NEW k \in older[j], k \notin V PROVE FALSE
    OBVIOUS
  <2>1. k \in C \ V /\ rank[k] < rank[j]
    BY <1>4, <1>9
  <2>2. rank[j] <= rank[k]
    BY <1>9, <2>1
  <2>. QED
    BY <1>3, <1>9, <2>1, <2>2
<1>11. rank[j] <= Cardinality(V)
  BY <1>2, <1>3, <1>9, <1>10, FS_Subset
<1>. QED
  BY <1>2, <1>3, <1>6, <1>9, <1>11

-----------------------------------------------------------------------------
(* History.                                                                *)

\* enforce_terminal_retention restores the limit from any table, although the
\* protected row is not a candidate.
LEMMA RetentionBounds ==
  ASSUME NEW js \in [JobIds -> Row], NEW protected,
         protected = {} \/ \E j \in JobIds : protected = {j}
  PROVE  Cardinality(TerminalJobs(js) \ Victims(js, protected)) <= MaxTerminal
<1>. DEFINE T == TerminalJobs(js)
            C == T \ protected
            V == Victims(js, protected)
            e == Cardinality(T) - MaxTerminal
<1>0. MaxTerminal \in Nat /\ MaxTerminal >= 1
  BY LimitsAssumption
<1>1. T \in SUBSET JobIds /\ IsFiniteSet(T) /\ Cardinality(T) \in Nat
  BY FS_Subset, FS_CardinalityType, JobIdsAssumption DEF TerminalJobs
<1>2. V \in SUBSET C /\ C \in SUBSET JobIds
  BY <1>1 DEF Victims
<1>3. IsFiniteSet(C) /\ Cardinality(C) \in Nat /\ Cardinality(C) >= Cardinality(T) - 1
  <2>1. CASE protected = {}
    <3>1. C = T
      BY <2>1
    <3>. QED
      BY <1>1, <3>1
  <2>2. ASSUME NEW j \in JobIds, protected = {j}
        PROVE  IsFiniteSet(C) /\ Cardinality(C) \in Nat /\ Cardinality(C) >= Cardinality(T) - 1
    <3>1. C = T \ {j}
      BY <2>2
    <3>2. /\ IsFiniteSet(T \ {j})
          /\ Cardinality(T \ {j}) = IF j \in T THEN Cardinality(T) - 1 ELSE Cardinality(T)
      BY <1>1, FS_RemoveElement
    <3>3. Cardinality(T \ {j}) \in Nat
      BY <3>2, FS_CardinalityType
    <3>. HIDE DEF T, C
    <3>. QED
      BY <1>1, <3>1, <3>2, <3>3
  <2>. QED
    BY <2>1, <2>2
<1>4. IsFiniteSet(V) /\ Cardinality(V) \in Nat /\ V \subseteq T
  BY <1>2, <1>3, FS_Subset, FS_CardinalityType
<1>5. Cardinality(T \ V) = Cardinality(T) - Cardinality(V)
  <2>1. T \cap V = V
    BY <1>4
  <2>. QED
    BY <1>1, <2>1, FS_Difference
<1>6. CASE Cardinality(T) <= MaxTerminal
  BY <1>0, <1>1, <1>4, <1>5, <1>6
<1>7. CASE Cardinality(T) > MaxTerminal
  <2>1. e \in Nat /\ e <= Cardinality(C)
    BY <1>0, <1>1, <1>3, <1>7
  <2>2. V = {j \in C : Cardinality({k \in C : OlderRow(js, k, j)}) < e}
    BY DEF Victims
  <2>3. e <= Cardinality(V)
    BY <1>2, <2>1, <2>2, EnoughOldRows
  <2>. QED
    BY <1>0, <1>1, <1>4, <1>5, <2>3
<1>. QED
  BY <1>0, <1>1, <1>6, <1>7

\* A transaction that leaves every finished row finished and adds none keeps
\* the number of finished rows.
LEMMA SmallerHistory ==
  ASSUME TerminalBounded, TerminalJobs(jobs)' \subseteq TerminalJobs(jobs)
  PROVE  TerminalBounded'
<1>1. IsFiniteSet(TerminalJobs(jobs))
  BY FS_Subset, JobIdsAssumption DEF TerminalJobs
<1>2. Cardinality(TerminalJobs(jobs)') <= Cardinality(TerminalJobs(jobs))
  BY <1>1, FS_Subset
<1>3. Cardinality(TerminalJobs(jobs)) \in Nat /\ Cardinality(TerminalJobs(jobs)') \in Nat
  BY <1>1, FS_Subset, FS_CardinalityType
<1>. QED
  BY <1>2, <1>3, LimitsAssumption DEF TerminalBounded

\* No job is finished when the process starts on queued rows.
LEMMA HistoryStart == StoreInit => TerminalBounded
<1>. SUFFICES ASSUME StoreInit PROVE TerminalBounded
  OBVIOUS
<1>1. TerminalJobs(jobs) = {}
  BY DEF StoreInit, TerminalJobs, TerminalStates, NewRow, NoRow
<1>. QED
  BY <1>1, FS_EmptySet, LimitsAssumption DEF TerminalBounded

\* History is cut in the very transaction that makes it grow.
LEMMA HistoryStep == StoreTypeOK /\ TerminalBounded /\ [Transaction]_storeVars => TerminalBounded'
<1>. SUFFICES ASSUME StoreTypeOK, TerminalBounded, [Transaction]_storeVars
              PROVE  TerminalBounded'
  OBVIOUS
<1>0. jobs \in [JobIds -> Row]
  BY DEF StoreTypeOK
<1>1. CASE \E d \in Deliveries : InsertReceived(d)
  BY <1>0, <1>1, SmallerHistory, DeliveryAssumption
  DEF InsertReceived, TerminalJobs, TerminalStates, NewRow
<1>2. CASE \E j \in JobIds : MarkSubmitting(j)
  BY <1>2, SmallerHistory, TransitionedFields DEF MarkSubmitting, TerminalJobs, TerminalStates
<1>3. ASSUME NEW j \in JobIds, NEW requested \in TerminalStates, NEW kinds,
             TerminalTransition(j, requested, kinds)
      PROVE  TerminalBounded'
  <2>. DEFINE js == Transitioned(j, requested)
  <2>1. js \in [JobIds -> Row]
    BY TransitionedType DEF JobStates
  <2>2. TerminalJobs(jobs)' = TerminalJobs(js) \ Victims(js, {j})
    <3>1. ASSUME NEW k \in JobIds
          PROVE  jobs'[k].state \in TerminalStates <=>
                   js[k].state \in TerminalStates /\ k \notin Victims(js, {j})
      <4>1. js[k].state = IF k = j THEN requested ELSE jobs[k].state
        BY TransitionedFields
      <4>2. jobs'[k].state = IF k \in Victims(js, {j}) THEN "absent" ELSE js[k].state
        BY <1>3, <4>1, TerminalTransitionStates
      <4>. QED
        BY <4>2 DEF TerminalStates
    <3>. QED
      BY <3>1 DEF TerminalJobs
  <2>3. Cardinality(TerminalJobs(js) \ Victims(js, {j})) <= MaxTerminal
    BY <2>1, RetentionBounds
  <2>. QED
    BY <2>2, <2>3 DEF TerminalBounded
<1>4. CASE \E j \in JobIds : MarkSubmitted(j) \/ MarkCancelled(j)
  BY <1>3, <1>4 DEF MarkSubmitted, MarkCancelled, TerminalStates
<1>5. CASE \E j \in JobIds, kinds \in {{}, {"failed"}, {"uncertain"}} : MarkFailed(j, kinds)
  BY <1>3, <1>5 DEF MarkFailed, TerminalStates
<1>6. CASE RecoverInterrupted
  BY <1>0, <1>6, SmallerHistory, RecoveredFields
  DEF RecoverInterrupted, TerminalJobs, TerminalStates
<1>7. CASE (\E m \in outbox : AcknowledgeOutboundStatus(m)) \/ ClockStep \/ UNCHANGED storeVars
  BY <1>7 DEF AcknowledgeOutboundStatus, ClockStep, storeVars, TerminalBounded
<1>8. CASE Open
  <2>1. TerminalJobs(jobs)' = TerminalJobs(jobs) \ Victims(jobs, {})
    BY <1>8, OpenStates DEF TerminalJobs, TerminalStates
  <2>. QED
    BY <1>0, <2>1, RetentionBounds DEF TerminalBounded
<1>. QED
  BY <1>1, <1>2, <1>4, <1>5, <1>6, <1>7, <1>8 DEF Transaction

\* History never exceeds max_terminal_jobs: it is cut in the very transaction
\* that makes it grow.
THEOREM HistoryIsBounded == StoreSpec => []TerminalBounded
  BY HistoryStart, HistoryStep, StoreNextTransacts, StoreTypeCorrect, PTL DEF StoreSpec

-----------------------------------------------------------------------------
(* The queue.                                                              *)

\* A transaction that adds no pending row keeps the queue within its limit.
LEMMA SmallerQueue ==
  ASSUME PendingBounded, Pending' \subseteq Pending
  PROVE  PendingBounded'
<1>1. IsFiniteSet(Pending)
  BY FS_Subset, JobIdsAssumption DEF Pending
<1>2. Cardinality(Pending') <= Cardinality(Pending)
  BY <1>1, FS_Subset
<1>3. Cardinality(Pending) \in Nat /\ Cardinality(Pending') \in Nat
  BY <1>1, FS_Subset, FS_CardinalityType
<1>. QED
  BY <1>2, <1>3, LimitsAssumption DEF PendingBounded

\* The rows an earlier run left queued fit the queue.
LEMMA QueueStart == StoreInit => PendingBounded
<1>. SUFFICES ASSUME StoreInit PROVE PendingBounded
  OBVIOUS
<1>. DEFINE names == {d.job : d \in Legacy}
            f     == [d \in Legacy |-> d.job]
<1>1. f \in Surjection(Legacy, names)
  BY DEF Surjection
<1>2. IsFiniteSet(names) /\ Cardinality(names) <= Cardinality(Legacy)
  BY <1>1, FS_Surjection, DeliveryAssumption
<1>3. Pending \subseteq names
  BY DEF StoreInit, Pending, PendingStates, NoRow
<1>4. Cardinality(Pending) <= Cardinality(names)
  BY <1>2, <1>3, FS_Subset
<1>5. /\ Cardinality(Pending) \in Nat /\ Cardinality(names) \in Nat
      /\ Cardinality(Legacy) \in Nat /\ Cardinality(Legacy) <= MaxPending
  BY <1>2, <1>3, FS_Subset, FS_CardinalityType, DeliveryAssumption
<1>. HIDE DEF names
<1>. QED
  BY LimitsAssumption, <1>2, <1>4, <1>5 DEF PendingBounded

\* The limit is checked where a row is added, against queued and claimed rows together.
LEMMA QueueStep == StoreTypeOK /\ PendingBounded /\ [Transaction]_storeVars => PendingBounded'
<1>. SUFFICES ASSUME StoreTypeOK, PendingBounded, [Transaction]_storeVars
              PROVE  PendingBounded'
  OBVIOUS
<1>0. jobs \in [JobIds -> Row]
  BY DEF StoreTypeOK
<1>1. ASSUME NEW d \in Deliveries, InsertReceived(d)
      PROVE  PendingBounded'
  <2>1. ~(Cardinality(Pending) >= MaxPending)
    BY <1>1 DEF InsertReceived, InsertOutcome, ExistingOutcome
  <2>2. IsFiniteSet(Pending) /\ Cardinality(Pending) \in Nat
    BY FS_Subset, FS_CardinalityType, JobIdsAssumption DEF Pending
  <2>3. Pending' = Pending \cup {d.job}
    BY <1>0, <1>1, DeliveryAssumption DEF InsertReceived, Pending, PendingStates, NewRow
  <2>4. Cardinality(Pending \cup {d.job}) =
          IF d.job \in Pending THEN Cardinality(Pending) ELSE Cardinality(Pending) + 1
    BY <2>2, FS_AddElement
  <2>5. Cardinality(Pending') \in Nat /\ Cardinality(Pending') <= Cardinality(Pending) + 1
    BY <2>2, <2>3, <2>4
  <2>. QED
    BY LimitsAssumption, <2>1, <2>2, <2>5 DEF PendingBounded
<1>2. CASE \E j \in JobIds : MarkSubmitting(j)
  <2>1. PICK j \in JobIds : MarkSubmitting(j)
    BY <1>2
  <2>2. jobs[j].state = "received" /\ jobs' = Transitioned(j, "submitting")
    BY <2>1 DEF MarkSubmitting, Allowed
  <2>3. Pending' \subseteq Pending
    BY <2>2, TransitionedFields DEF Pending, PendingStates
  <2>. QED
    BY <2>3, SmallerQueue
<1>3. ASSUME NEW j \in JobIds, NEW requested \in TerminalStates, NEW kinds,
             TerminalTransition(j, requested, kinds)
      PROVE  PendingBounded'
  <2>1. Pending' \subseteq Pending
    BY <1>3, TerminalTransitionStates DEF Pending, PendingStates, TerminalStates
  <2>. QED
    BY <2>1, SmallerQueue
<1>4. CASE \E j \in JobIds : MarkSubmitted(j) \/ MarkCancelled(j)
  BY <1>3, <1>4 DEF MarkSubmitted, MarkCancelled, TerminalStates
<1>5. CASE \E j \in JobIds, kinds \in {{}, {"failed"}, {"uncertain"}} : MarkFailed(j, kinds)
  BY <1>3, <1>5 DEF MarkFailed, TerminalStates
<1>6. CASE RecoverInterrupted
  <2>1. Pending' \subseteq Pending
    BY <1>0, <1>6, RecoveredFields DEF RecoverInterrupted, Pending, PendingStates
  <2>. QED
    BY <2>1, SmallerQueue
<1>7. CASE (\E m \in outbox : AcknowledgeOutboundStatus(m)) \/ ClockStep \/ UNCHANGED storeVars
  BY <1>7 DEF AcknowledgeOutboundStatus, ClockStep, storeVars, PendingBounded, Pending
<1>8. CASE Open
  <2>1. Pending' \subseteq Pending
    BY <1>8, OpenStates DEF Pending, PendingStates
  <2>. QED
    BY <2>1, SmallerQueue
<1>. QED
  BY <1>1, <1>2, <1>4, <1>5, <1>6, <1>7, <1>8 DEF Transaction

\* The queue never exceeds max_pending_jobs: the limit is checked against
\* queued and claimed rows together, so recovery cannot push it over.
THEOREM QueueIsBounded == StoreSpec => []PendingBounded
  BY QueueStart, QueueStep, StoreNextTransacts, StoreTypeCorrect, PTL DEF StoreSpec

-----------------------------------------------------------------------------
(* Who is evicted.                                                         *)

\* Every candidate the DELETE spares is younger than every row it takes.
LEMMA SparedAreYounger ==
  ASSUME NEW js \in [JobIds -> Row], NEW protected,
         NEW j \in Victims(js, protected),
         NEW k \in TerminalJobs(js) \ protected, k \notin Victims(js, protected)
  PROVE  OlderRow(js, j, k)
<1>. DEFINE C      == TerminalJobs(js) \ protected
            e      == Cardinality(TerminalJobs(js)) - MaxTerminal
            oldJ   == {i \in C : OlderRow(js, i, j)}
            oldK   == {i \in C : OlderRow(js, i, k)}
<1>1. C \in SUBSET JobIds /\ IsFiniteSet(C)
  BY FS_Subset, JobIdsAssumption DEF TerminalJobs
<1>2. e \in Int
  BY FS_Subset, FS_CardinalityType, JobIdsAssumption, LimitsAssumption DEF TerminalJobs
<1>3. /\ j \in C /\ Cardinality(oldJ) < e
      /\ k \in C /\ ~(Cardinality(oldK) < e)
  BY DEF Victims
<1>4. j \in JobIds /\ k \in JobIds /\ j # k
  BY <1>1, <1>3
<1>5. IsFiniteSet(oldJ) /\ Cardinality(oldJ) \in Nat /\ Cardinality(oldK) \in Nat
  BY <1>1, FS_Subset, FS_CardinalityType
<1>6. ASSUME OlderRow(js, k, j) PROVE FALSE
  <2>1. oldK \subseteq oldJ
    BY <1>1, <1>4, <1>6, OlderRowOrder
  <2>2. Cardinality(oldK) <= Cardinality(oldJ)
    BY <1>5, <2>1, FS_Subset
  <2>. HIDE DEF oldJ, oldK, e
  <2>. QED
    BY <1>2, <1>3, <1>5, <2>2
<1>7. OlderRow(js, j, k) \/ OlderRow(js, k, j)
  <2>1. j \in Int /\ k \in Int
    BY <1>4, JobIdsAssumption
  <2>2. js[j].updatedAt \in Nat /\ js[k].updatedAt \in Nat
    BY <1>4 DEF Row
  <2>. QED
    BY <1>4, <2>1, <2>2 DEF OlderRow
<1>. QED
  BY <1>6, <1>7

\* The DELETE takes the oldest history and nothing else.
OldestGoFirst ==
  \A j \in JobIds : Evicted(j) =>
    /\ jobs[j].state \in TerminalStates
    /\ \A k \in TerminalJobs(jobs) : jobs'[k].state # "absent" => OlderRow(jobs, j, k)

\* Every transaction deletes in the order of updated_at_ms, job_id, or deletes nothing.
LEMMA EvictionStep == StoreTypeOK /\ [Transaction]_storeVars => [OldestGoFirst]_storeVars
<1>. SUFFICES ASSUME StoreTypeOK, Transaction, NEW j \in JobIds, Evicted(j)
              PROVE  /\ jobs[j].state \in TerminalStates
                     /\ \A k \in TerminalJobs(jobs) :
                          jobs'[k].state # "absent" => OlderRow(jobs, j, k)
  BY DEF OldestGoFirst
<1>0. jobs \in [JobIds -> Row] /\ jobs[j].state # "absent" /\ jobs'[j].state = "absent"
  BY DEF StoreTypeOK, Evicted, Stored
<1>1. ASSUME NEW d \in Deliveries, InsertReceived(d) PROVE FALSE
  <2>1. d.job \in JobIds /\ jobs' = [jobs EXCEPT ![d.job] = NewRow(d)]
    BY <1>1, DeliveryAssumption DEF InsertReceived
  <2>2. NewRow(d).state = "received"
    BY DEF NewRow
  <2>. QED
    BY <1>0, <2>1, <2>2
<1>2. ~\E i \in JobIds : MarkSubmitting(i)
  BY <1>0, TransitionedFields DEF MarkSubmitting
<1>3. ASSUME NEW i \in JobIds, NEW requested \in TerminalStates, NEW kinds,
             TerminalTransition(i, requested, kinds)
      PROVE  /\ jobs[j].state \in TerminalStates
             /\ \A k \in TerminalJobs(jobs) :
                  jobs'[k].state # "absent" => OlderRow(jobs, j, k)
  <2>. DEFINE js == Transitioned(i, requested)
  <2>1. js \in [JobIds -> Row]
    BY TransitionedType DEF JobStates
  <2>2. jobs[i].state \notin TerminalStates
    <3>1. Allowed(jobs[i].state, requested)
      BY <1>3 DEF TerminalTransition
    <3>2. requested \in {"submitted", "failed", "cancelled"}
      BY DEF TerminalStates
    <3>. QED
      BY <3>1, <3>2 DEF Allowed, PendingStates, TerminalStates
  <2>3. j \in Victims(js, {i})
    <3>1. jobs'[j].state = IF j \in Victims(js, {i}) THEN "absent"
                           ELSE IF j = i THEN requested ELSE jobs[j].state
      BY <1>3, TerminalTransitionStates
    <3>2. requested # "absent"
      BY DEF TerminalStates
    <3>. HIDE DEF js
    <3>. QED
      BY <1>0, <3>1, <3>2
  <2>4. j # i /\ js[j].state \in TerminalStates
    BY <2>3 DEF Victims, TerminalJobs
  <2>5. js[j] = jobs[j]
    BY <2>4, TransitionedFields
  <2>6. ASSUME NEW k \in TerminalJobs(jobs), jobs'[k].state # "absent"
        PROVE  OlderRow(jobs, j, k)
    <3>1. k \in JobIds /\ k # i /\ jobs[k].state \in TerminalStates
      BY <2>2, <2>6 DEF TerminalJobs
    <3>2. js[k] = jobs[k]
      BY <3>1, TransitionedFields
    <3>3. k \notin Victims(js, {i})
      BY <1>3, <2>6, <3>1, TerminalTransitionStates
    <3>4. k \in TerminalJobs(js) \ {i}
      BY <3>1, <3>2 DEF TerminalJobs
    <3>5. OlderRow(js, j, k)
      BY <2>1, <2>3, <3>3, <3>4, SparedAreYounger
    <3>. QED
      BY <2>5, <3>2, <3>5 DEF OlderRow
  <2>. QED
    BY <2>4, <2>5, <2>6
<1>4. CASE \E i \in JobIds : MarkSubmitted(i) \/ MarkCancelled(i)
  BY <1>3, <1>4 DEF MarkSubmitted, MarkCancelled, TerminalStates
<1>5. CASE \E i \in JobIds, kinds \in {{}, {"failed"}, {"uncertain"}} : MarkFailed(i, kinds)
  BY <1>3, <1>5 DEF MarkFailed, TerminalStates
<1>6. ~RecoverInterrupted
  BY <1>0, RecoveredFields DEF RecoverInterrupted
<1>7. ~((\E m \in outbox : AcknowledgeOutboundStatus(m)) \/ ClockStep)
  BY <1>0 DEF AcknowledgeOutboundStatus, ClockStep
<1>8. CASE Open
  <2>1. j \in Victims(jobs, {})
    BY <1>0, <1>8, OpenStates
  <2>2. jobs[j].state \in TerminalStates
    BY <2>1 DEF Victims, TerminalJobs
  <2>3. ASSUME NEW k \in TerminalJobs(jobs), jobs'[k].state # "absent"
        PROVE  OlderRow(jobs, j, k)
    <3>1. k \in JobIds
      BY DEF TerminalJobs
    <3>2. k \notin Victims(jobs, {})
      BY <1>8, <2>3, <3>1, OpenStates
    <3>. QED
      BY <1>0, <2>1, <3>2, SparedAreYounger
  <2>. QED
    BY <2>2, <2>3
<1>. QED
  BY <1>1, <1>2, <1>4, <1>5, <1>6, <1>7, <1>8 DEF Transaction

\* Eviction takes the oldest history: a row that disappears was finished, and
\* every finished row that stays is younger (the ORDER BY of the retention
\* DELETE, whatever the clock did between the transitions).
THEOREM EvictionTheorem == StoreSpec => EvictsOldestFirst
<1>1. StoreTypeOK /\ [StoreNext]_storeVars => [OldestGoFirst]_storeVars
  BY EvictionStep, StoreNextTransacts
<1>. QED
  BY <1>1, StoreTypeCorrect, PTL DEF StoreSpec, EvictsOldestFirst, OldestGoFirst

-----------------------------------------------------------------------------
(* The tasks of the runtime and their locks.                               *)

\* Labels a task reaches only with flow_lock, and those from the claim on.
FlowLabels  == {"receipt_new", "receipt_dup", "drain", "next", "register", "spool", "finish",
                "unregister", "unregister_error", "list", "receipts"}
ClaimLabels == {"register", "spool", "finish"}
EntryLabels == {"spool", "finish", "unregister", "unregister_error"}
LockLabels  == {"register", "unregister", "unregister_error"}
DrainLabels == {"next", "register", "spool", "finish", "unregister"}

\* The recovery counts the drain read are those of its jobs that are still
\* pending: nothing recovers a row while flow_lock is held.
SnapshotOK(t) ==
  \A i \in 1 .. Len(task[t].queue) :
    jobs[task[t].queue[i]].state \in PendingStates =>
      task[t].seen[task[t].queue[i]] = jobs[task[t].queue[i]].recoveries

\* The receipt a task is about to send is backed by the store.
ReceiptBacked(t) ==
  LET d == task[t].d IN
  /\ inserts[d.job] > 0
  /\ Stored(d.job) => jobs[d.job].key = d.key /\ jobs[d.job].sha = d.payload

\* What holds whenever task t stands at one of its labels.
TaskOK(t) ==
  /\ task[t].pc \in FlowLabels => flow = t
  /\ task[t].pc \in LockLabels => activeLock = t
  /\ task[t].pc \in EntryLabels \cup LockLabels => task[t].queue # <<>>
  /\ task[t].pc \in {"deliver", "receipt_new", "receipt_dup"} => task[t].d \in Deliveries
  /\ task[t].pc \in ClaimLabels => jobs[Current(t)].state = "submitting"
  /\ task[t].pc \in {"spool", "finish"} => active[Current(t)] # "none"
  /\ task[t].pc \in {"register", "spool"} =>
       crossed[Current(t)] <= jobs[Current(t)].recoveries
  /\ task[t].pc \in {"receipt_new", "receipt_dup"} => ReceiptBacked(t)
  /\ task[t].pc \in DrainLabels => SnapshotOK(t)
  /\ task[t].pc = "ack" => task[t].out # <<>> /\ Head(task[t].out) \in reported

TasksOK == \A t \in Tasks : TaskOK(t)

\* The map holds entries of running submissions only, and cancel_job holds the
\* lock for a job that has none.
ActiveOK ==
  /\ activeLock = Cancel => cancelJob \in JobIds /\ active[cancelJob] = "none"
  /\ \A j \in JobIds : active[j] # "none" =>
       \E t \in Tasks : task[t].pc \in EntryLabels /\ Current(t) = j

\* A stored row was inserted; an interrupted attempt of a pending row was
\* counted; the outbox is a finite table.
BooksOK ==
  /\ \A j \in JobIds : Stored(j) => inserts[j] > 0
  /\ \A j \in JobIds : jobs[j].state \in PendingStates /\ jobs[j].recoveries = 0 =>
       interrupted[j] = 0
  /\ IsFiniteSet(outbox)

\* The statuses that exist anywhere: in the outbox, in the hands of a task, sent.
InHand(t, m) == \E i \in 1 .. Len(task[t].out) : task[t].out[i] = m
Known(m)     == m \in outbox \/ m \in reported \/ \E t \in Tasks : InHand(t, m)

\* A known status tells the outcome of its row.
Truthful(m) ==
  /\ m.gen <= inserts[m.job]
  /\ m.gen = inserts[m.job] /\ Stored(m.job) => jobs[m.job].state = StateOf(m.kind)
  /\ m.gen = inserts[m.job] /\ m.kind = "failed" => interrupted[m.job] = 0

KnownOK ==
  /\ \A m \in Status : Known(m) => Truthful(m)
  /\ \A m, n \in Status : Known(m) /\ Known(n) /\ m.job = n.job /\ m.gen = n.gen => m = n

Invariant ==
  /\ TypeOK
  /\ StoreInvariant
  /\ BooksOK
  /\ TasksOK
  /\ ActiveOK
  /\ KnownOK
  /\ CopiesExplained
  /\ NoStatusLost

-----------------------------------------------------------------------------
(* What the store's operations do to a row the runtime looks at.           *)

\* The row keeps its state and identity through a step.
RowKept(k) ==
  /\ jobs'[k].state = jobs[k].state
  /\ jobs'[k].key = jobs[k].key
  /\ jobs'[k].sha = jobs[k].sha
  /\ jobs'[k].recoveries = jobs[k].recoveries

\* A terminal transition finishes one row, evicts finished rows with their
\* statuses, and changes no other row.
LEMMA TerminalEffect ==
  ASSUME StoreTypeOK, NEW j \in JobIds, NEW requested \in TerminalStates,
         NEW kinds \in SUBSET StatusKinds, TerminalTransition(j, requested, kinds)
  PROVE  /\ jobs[j].state \in PendingStates
         /\ inserts' = inserts
         /\ jobs'[j].state = requested
         /\ jobs'[j].key = jobs[j].key /\ jobs'[j].sha = jobs[j].sha
         /\ jobs'[j].recoveries = jobs[j].recoveries
         /\ \A k \in JobIds \ {j} :
              \/ jobs'[k].state = "absent" /\ jobs[k].state \in TerminalStates
              \/ RowKept(k)
         /\ outbox' \subseteq outbox \cup NewStatuses(j, kinds)
         /\ \A m \in outbox \cup NewStatuses(j, kinds) :
              m.job \in JobIds /\ jobs'[m.job].state # "absent" => m \in outbox'
<1>. DEFINE js == Transitioned(j, requested)
            V  == Victims(js, {j})
<1>1. /\ Allowed(jobs[j].state, requested)
      /\ jobs' = Retained(js, {j}) /\ inserts' = inserts
      /\ outbox' = {m \in outbox \cup NewStatuses(j, kinds) : m.job \notin V}
  BY DEF TerminalTransition, OutboxRetained
<1>2. jobs[j].state \in PendingStates
  BY <1>1 DEF Allowed, TerminalStates, PendingStates
<1>3. js \in [JobIds -> Row]
  BY TransitionedType DEF JobStates
<1>4. \A k \in JobIds : /\ js[k].key = jobs[k].key /\ js[k].sha = jobs[k].sha
                        /\ js[k].recoveries = jobs[k].recoveries
                        /\ k # j => js[k].state = jobs[k].state
                        /\ k = j => js[k].state = requested
  BY TransitionedFields
<1>5. \A k \in V : /\ k \in JobIds /\ k # j /\ js[k].state \in TerminalStates
                   /\ jobs'[k] = NoRow
  BY <1>1, VictimRow
<1>. HIDE DEF js, V
<1>6. \A k \in JobIds : k \notin V =>
        /\ jobs'[k].state = js[k].state /\ jobs'[k].key = js[k].key
        /\ jobs'[k].sha = js[k].sha /\ jobs'[k].recoveries = js[k].recoveries
  BY <1>1, <1>3, RetainedFields DEF V
<1>7. NoRow.state = "absent"
  BY DEF NoRow
<1>8. \A k \in JobIds \ {j} :
        \/ jobs'[k].state = "absent" /\ jobs[k].state \in TerminalStates
        \/ RowKept(k)
  BY <1>4, <1>5, <1>6, <1>7 DEF RowKept
<1>9. ASSUME NEW m \in outbox \cup NewStatuses(j, kinds), m.job \in JobIds,
             jobs'[m.job].state # "absent"
      PROVE  m \in outbox'
  BY <1>1, <1>5, <1>7, <1>9
<1>. QED
  BY <1>1, <1>2, <1>4, <1>5, <1>6, <1>8, <1>9

\* Opening the store evicts finished rows with their statuses and puts every
\* claimed row back, counting that.
LEMMA OpenEffect ==
  ASSUME StoreTypeOK, Open
  PROVE  /\ inserts' = inserts
         /\ \A k \in JobIds :
              \/ jobs'[k].state = "absent" /\ jobs[k].state \in TerminalStates
              \/ jobs[k].state # "submitting" /\ RowKept(k)
              \/ /\ jobs[k].state = "submitting" /\ jobs'[k].state = "received"
                 /\ jobs'[k].recoveries = jobs[k].recoveries + 1
         /\ outbox' \subseteq outbox
         /\ \A m \in outbox : jobs'[m.job].state # "absent" => m \in outbox'
<1>. DEFINE js == Retained(jobs, {})
            V  == Victims(jobs, {})
<1>1. /\ jobs' = Recovered(js) /\ inserts' = inserts
      /\ outbox' = {m \in outbox : m.job \notin V}
  BY DEF Open, OutboxRetained
<1>2. jobs \in [JobIds -> Row] /\ js \in [JobIds -> Row] /\ outbox \subseteq Status
  BY RetainedType DEF StoreTypeOK
<1>3. \A k \in V : k \in JobIds /\ jobs[k].state \in TerminalStates /\ js[k] = NoRow
  BY VictimRow
<1>4. \A k \in JobIds : k \notin V =>
        /\ js[k].state = jobs[k].state /\ js[k].key = jobs[k].key
        /\ js[k].sha = jobs[k].sha /\ js[k].recoveries = jobs[k].recoveries
  BY <1>2, RetainedFields
<1>. HIDE DEF js, V
<1>5. NoRow.state = "absent"
  BY DEF NoRow
<1>6. \A k \in JobIds :
        /\ js[k].state # "submitting" => jobs'[k] = js[k]
        /\ js[k].state = "submitting" =>
             jobs'[k].state = "received" /\ jobs'[k].recoveries = js[k].recoveries + 1
  BY <1>1, <1>2, RecoveredFields
<1>7. \A k \in V : jobs'[k].state = "absent" /\ jobs[k].state \in TerminalStates
  BY <1>3, <1>5, <1>6
<1>8. ASSUME NEW k \in JobIds, k \notin V
      PROVE  \/ jobs[k].state # "submitting" /\ RowKept(k)
             \/ /\ jobs[k].state = "submitting" /\ jobs'[k].state = "received"
                /\ jobs'[k].recoveries = jobs[k].recoveries + 1
  BY <1>4, <1>6, <1>8 DEF RowKept
<1>9. \A m \in outbox : jobs'[m.job].state # "absent" => m \in outbox'
  BY <1>1, <1>7
<1>. QED
  BY <1>1, <1>7, <1>8, <1>9

\* A status write adds at most one row to the outbox table.
LEMMA OutboxStaysFinite ==
  ASSUME NEW j \in JobIds, NEW kinds, IsFiniteSet(outbox), \A k, l \in kinds : k = l,
         outbox' \subseteq outbox \cup NewStatuses(j, kinds)
  PROVE  IsFiniteSet(outbox')
<1>1. CASE kinds = {}
  <2>1. outbox' \in SUBSET outbox
    BY <1>1 DEF NewStatuses
  <2>. QED
    BY <2>1, FS_Subset
<1>2. CASE kinds # {}
  <2>1. PICK k : kinds = {k}
    BY <1>2
  <2>. DEFINE m == [job |-> j, gen |-> inserts[j], kind |-> k, at |-> clock]
  <2>2. outbox' \in SUBSET (outbox \cup {m})
    BY <2>1 DEF NewStatuses
  <2>. HIDE DEF m
  <2>3. IsFiniteSet(outbox \cup {m})
    BY FS_AddElement
  <2>. QED
    BY <2>2, <2>3, FS_Subset
<1>. QED
  BY <1>1, <1>2

-----------------------------------------------------------------------------
(* Task records and their sequences.                                       *)

\* The row a task works on, and what is left of its queue.
LEMMA CurrentRow ==
  ASSUME NEW r \in TaskState, r.queue # <<>>
  PROVE  Head(r.queue) \in JobIds /\ Tail(r.queue) \in Seq(JobIds)
<1>1. r.queue \in Seq(JobIds)
  BY DEF TaskState
<1>. QED
  BY <1>1, HeadTailProperties

\* An idle task owns nothing.
LEMMA IdleTaskType ==
  /\ IdleTask \in TaskState
  /\ IdleTask.pc = "idle" /\ IdleTask.out = <<>> /\ IdleTask.queue = <<>>
  /\ [IdleTask EXCEPT !.pc = "recover"] \in TaskState
  /\ [IdleTask EXCEPT !.pc = "recover"].pc = "recover"
  /\ [IdleTask EXCEPT !.pc = "recover"].out = <<>>
<1>1. <<>> \in Seq(JobIds) /\ <<>> \in Seq(Status)
  BY EmptySeq
<1>. QED
  BY <1>1 DEF IdleTask, TaskState, Labels

\* A rearrangement of finitely many rows is a sequence of them.
LEMMA EnumerationIsSeq ==
  ASSUME NEW S, NEW T, T \subseteq S, NEW n \in Nat, NEW s \in [1 .. n -> T]
  PROVE  s \in Seq(S) /\ Len(s) = n
<1>1. s \in [1 .. n -> S]
  OBVIOUS
<1>. QED
  BY <1>1, SeqDef

\* pending() lists jobs.
LEMMA PendingRows ==
  ASSUME NEW s \in PendingInOrder
  PROVE  s \in Seq(JobIds)
<1>1. Received \in SUBSET JobIds
  BY DEF Received
<1>2. Cardinality(Received) \in Nat
  BY <1>1, JobIdsAssumption, FS_Subset, FS_CardinalityType
<1>. QED
  BY <1>1, <1>2, EnumerationIsSeq DEF PendingInOrder

\* A page of the outbox lists rows of the outbox.
LEMMA PageRows ==
  ASSUME outbox \subseteq Status, IsFiniteSet(outbox), NEW s \in OutboxPages
  PROVE  s \in Seq(Status) /\ \A i \in 1 .. Len(s) : s[i] \in outbox
<1>. DEFINE n == IF Cardinality(outbox) < ReplayBatch THEN Cardinality(outbox) ELSE ReplayBatch
<1>1. n \in Nat
  BY FS_CardinalityType, RuntimeAssumption
<1>2. s \in [1 .. n -> outbox]
  BY DEF OutboxPages
<1>. HIDE DEF n
<1>3. s \in Seq(Status) /\ Len(s) = n
  BY <1>1, <1>2, EnumerationIsSeq
<1>. QED
  BY <1>2, <1>3

\* Moving one task leaves the others where they are.
LEMMA OneTaskMoves ==
  ASSUME task \in [Tasks -> TaskState], NEW t \in Tasks, NEW r \in TaskState,
         task' = [task EXCEPT ![t] = r]
  PROVE  /\ task' \in [Tasks -> TaskState] /\ task'[t] = r
         /\ \A u \in Tasks \ {t} : task'[u] = task[u]
  OBVIOUS

\* Advancing a task's program counter changes nothing else of it.
LEMMA GoStep ==
  ASSUME task \in [Tasks -> TaskState], NEW t \in Tasks, NEW label \in Labels, Go(t, label)
  PROVE  /\ task' \in [Tasks -> TaskState]
         /\ \A u \in Tasks \ {t} : task'[u] = task[u]
         /\ task'[t].pc = label /\ task'[t].d = task[t].d /\ task'[t].queue = task[t].queue
         /\ task'[t].out = task[t].out /\ task'[t].seen = task[t].seen
<1>. DEFINE r == [task[t] EXCEPT !.pc = label]
<1>1. task' = [task EXCEPT ![t] = r]
  BY DEF Go
<1>2. /\ r \in TaskState
      /\ r.pc = label /\ r.d = task[t].d /\ r.queue = task[t].queue /\ r.out = task[t].out
      /\ r.seen = task[t].seen
  BY DEF TaskState
<1>. HIDE DEF r
<1>. QED
  BY <1>1, <1>2, OneTaskMoves

\* Returning from a handler frees the task and the locks it held.
LEMMA ReturnStep ==
  ASSUME task \in [Tasks -> TaskState], flow \in Tasks \cup {Free},
         outboxLock \in Tasks \cup {Free}, NEW t \in Tasks, Return(t)
  PROVE  /\ task' \in [Tasks -> TaskState]
         /\ \A u \in Tasks \ {t} : task'[u] = task[u] /\ (flow = u => flow' = u)
         /\ task'[t].pc = "idle" /\ task'[t].out = <<>>
         /\ flow' \in Tasks \cup {Free} /\ outboxLock' \in Tasks \cup {Free}
<1>1. task' = [task EXCEPT ![t] = IdleTask]
  BY DEF Return
<1>2. /\ task' \in [Tasks -> TaskState] /\ task'[t] = IdleTask
      /\ \A u \in Tasks \ {t} : task'[u] = task[u]
  BY <1>1, IdleTaskType, OneTaskMoves
<1>. QED
  BY <1>2, IdleTaskType DEF Return

-----------------------------------------------------------------------------
(* What a step leaves of the tasks it does not move.                       *)

\* Rows that are pending after a step were pending before it, and no recovery
\* was counted for them.
PendingStand ==
  \A k \in JobIds : jobs'[k].state \in PendingStates =>
    jobs[k].state \in PendingStates /\ jobs'[k].recoveries = jobs[k].recoveries

\* The snapshot stays right while the queue is worked off.
LEMMA SnapshotStands ==
  ASSUME NEW t \in Tasks, task[t].queue \in Seq(JobIds), SnapshotOK(t), PendingStand,
         task'[t].seen = task[t].seen,
         \/ task'[t].queue = task[t].queue
         \/ task[t].queue # <<>> /\ task'[t].queue = Tail(task[t].queue)
  PROVE  SnapshotOK(t)'
<1>1. ASSUME NEW i \in 1 .. Len(task'[t].queue)
      PROVE  \E k \in 1 .. Len(task[t].queue) :
               task'[t].queue[i] = task[t].queue[k] /\ task[t].queue[k] \in JobIds
  <2>1. CASE task'[t].queue = task[t].queue
    <3>1. i \in 1 .. Len(task[t].queue) /\ task[t].queue[i] \in JobIds
      BY <2>1, ElementOfSeq
    <3>. QED
      BY <2>1, <3>1
  <2>2. CASE task[t].queue # <<>> /\ task'[t].queue = Tail(task[t].queue)
    <3>1. /\ Len(task[t].queue) \in Nat /\ Len(Tail(task[t].queue)) = Len(task[t].queue) - 1
          /\ \A k \in 1 .. Len(Tail(task[t].queue)) :
               Tail(task[t].queue)[k] = task[t].queue[k + 1]
      BY <2>2, HeadTailProperties, LenProperties
    <3>2. i + 1 \in 1 .. Len(task[t].queue) /\ task'[t].queue[i] = task[t].queue[i + 1]
      BY <2>2, <3>1
    <3>3. task[t].queue[i + 1] \in JobIds
      BY <3>2, ElementOfSeq
    <3>. QED
      BY <3>2, <3>3
  <2>. QED
    BY <2>1, <2>2
<1>. QED
  BY <1>1 DEF SnapshotOK, PendingStand

\* The drain knows the recovery count of the pending row it works on.
LEMMA CurrentSeen ==
  ASSUME NEW t \in Tasks, task[t] \in TaskState, TaskOK(t), task[t].pc \in DrainLabels,
         task[t].queue # <<>>, jobs[Current(t)].state \in PendingStates
  PROVE  task[t].seen[Current(t)] = jobs[Current(t)].recoveries
<1>1. task[t].queue \in Seq(JobIds) /\ SnapshotOK(t)
  BY DEF TaskState, TaskOK
<1>2. Len(task[t].queue) \in Nat \ {0} /\ Head(task[t].queue) = task[t].queue[1]
  BY <1>1, EmptySeq, HeadTailProperties
<1>3. 1 \in 1 .. Len(task[t].queue)
  BY <1>2
<1>. QED
  BY <1>1, <1>2, <1>3 DEF SnapshotOK, Current

\* A task that does not hold flow_lock relies on no row.
LEMMA OutsideFlow ==
  ASSUME NEW u \in Tasks, TaskOK(u), flow # u, task'[u] = task[u], reported \subseteq reported'
  PROVE  TaskOK(u)'
<1>1. task[u].pc \notin FlowLabels
  BY DEF TaskOK
<1>2. /\ task'[u].pc \notin FlowLabels \cup ClaimLabels
                          \cup EntryLabels \cup LockLabels \cup DrainLabels
      /\ task'[u].pc \notin {"receipt_new", "receipt_dup", "spool", "finish", "register"}
  BY <1>1 DEF FlowLabels, ClaimLabels, EntryLabels, LockLabels, DrainLabels
<1>3. task'[u].pc = "deliver" => task'[u].d \in Deliveries
  BY DEF TaskOK
<1>4. task'[u].pc = "ack" => task'[u].out # <<>> /\ Head(task'[u].out) \in reported'
  BY DEF TaskOK
<1>. QED
  BY <1>2, <1>3, <1>4 DEF TaskOK

\* A step that leaves the rows and the copies alone, drops no map entry and
\* takes no lock from a task leaves what it relies on.
LEMMA Undisturbed ==
  ASSUME NEW u \in Tasks, TaskOK(u), task'[u] = task[u],
         task \in [Tasks -> TaskState], active \in [JobIds -> {"none", "running", "cancelling"}],
         jobs' = jobs, inserts' = inserts, crossed' = crossed, reported \subseteq reported',
         \A j \in JobIds : active[j] # "none" => active'[j] # "none",
         flow = u => flow' = u, activeLock = u => activeLock' = u
  PROVE  TaskOK(u)'
<1>1. Current(u)' = Current(u) /\ (ReceiptBacked(u) => ReceiptBacked(u)')
  BY DEF Current, ReceiptBacked, Stored
<1>2. task[u].pc \in EntryLabels => Current(u) \in JobIds
  BY CurrentRow DEF TaskOK, Current
<1>3. task[u].pc \in {"spool", "finish"} => active'[Current(u)] # "none"
  BY <1>2 DEF TaskOK, EntryLabels
<1>4. SnapshotOK(u) => SnapshotOK(u)'
  BY DEF SnapshotOK
<1>. QED
  BY <1>1, <1>3, <1>4 DEF TaskOK

-----------------------------------------------------------------------------
(* What a step leaves of the statuses.                                     *)

\* Finished rows keep their outcome, no row appears, and no attempt of a row
\* that is not claimed is interrupted.
OutcomesStand ==
  /\ inserts' = inserts
  /\ \A j \in JobIds : jobs'[j].state # "absent" =>
       Stored(j) /\ (jobs[j].state \in {"submitted", "failed"} => jobs'[j].state = jobs[j].state)
  /\ \A j \in JobIds : interrupted'[j] = interrupted[j] \/ jobs[j].state = "submitting"

\* What was true of a known status stays true.
LEMMA TruthStands ==
  ASSUME OutcomesStand, NEW m \in Status, Truthful(m)
  PROVE  Truthful(m)'
<1>1. m.job \in JobIds /\ StateOf(m.kind) \in {"submitted", "failed"}
  BY DEF Status, StateOf
<1>2. inserts' = inserts
  BY DEF OutcomesStand
<1>3. m.gen = inserts[m.job] /\ Stored(m.job)' => jobs'[m.job].state = StateOf(m.kind)
  BY <1>1 DEF OutcomesStand, Truthful, Stored
<1>4. m.gen = inserts[m.job] /\ m.kind = "failed" => interrupted'[m.job] = interrupted[m.job]
  <2>1. m.gen = inserts[m.job] /\ jobs[m.job].state = "submitting" => FALSE
    BY <1>1 DEF Truthful, Stored
  <2>. QED
    BY <1>1, <2>1 DEF OutcomesStand
<1>. QED
  BY <1>2, <1>3, <1>4 DEF Truthful

\* A step that produces no status keeps the known ones true.
LEMMA KnownStays ==
  ASSUME KnownOK, OutcomesStand, \A m \in Status : Known(m)' => Known(m)
  PROVE  KnownOK'
<1>1. \A m \in Status : Known(m)' => Truthful(m)'
  BY TruthStands DEF KnownOK
<1>2. \A m, n \in Status : Known(m)' /\ Known(n)' /\ m.job = n.job /\ m.gen = n.gen => m = n
  BY DEF KnownOK
<1>. QED
  BY <1>1, <1>2 DEF KnownOK

\* A step that finishes a pending row may produce the status that says so.
LEMMA KnownGains ==
  ASSUME KnownOK, OutcomesStand, NEW n \in Status,
         \A m \in Status : Known(m)' => Known(m) \/ m = n,
         n.gen = inserts[n.job], jobs[n.job].state \in PendingStates,
         jobs'[n.job].state = StateOf(n.kind), n.kind = "failed" => interrupted'[n.job] = 0,
         inserts \in [JobIds -> Nat]
  PROVE  KnownOK'
<1>0. n.job \in JobIds /\ inserts' = inserts
  BY DEF Status, OutcomesStand
<1>1. Truthful(n)'
  <2>1. n.gen <= inserts[n.job]
    BY <1>0
  <2>. QED
    BY <1>0, <2>1 DEF Truthful
<1>2. ASSUME NEW m \in Status, Known(m), m.job = n.job, m.gen = n.gen
      PROVE  FALSE
  <2>1. Truthful(m)
    BY <1>2 DEF KnownOK
  <2>2. Stored(m.job)
    BY <1>2 DEF Stored, PendingStates
  <2>3. jobs[m.job].state = StateOf(m.kind)
    BY <1>2, <2>1, <2>2 DEF Truthful
  <2>. QED
    BY <1>2, <2>3 DEF StateOf, PendingStates
<1>3. \A m \in Status : Known(m)' => Truthful(m)'
  BY <1>1, TruthStands DEF KnownOK
<1>4. ASSUME NEW m \in Status, NEW k \in Status, Known(m)', Known(k)',
             m.job = k.job, m.gen = k.gen
      PROVE  m = k
  <2>1. CASE Known(m) /\ Known(k)
    BY <1>4, <2>1 DEF KnownOK
  <2>2. CASE ~Known(m)
    BY <1>2, <1>4, <2>2
  <2>3. CASE ~Known(k)
    BY <1>2, <1>4, <2>3
  <2>. QED
    BY <2>1, <2>2, <2>3
<1>. QED
  BY <1>3, <1>4 DEF KnownOK

\* A finished row's status survives a step that keeps the waiting statuses of
\* the rows it leaves.
LEMMA StatusesStand ==
  ASSUME NoStatusLost, inserts' = inserts, reported \subseteq reported',
         NEW S \in SUBSET JobIds,
         \A j \in S : jobs'[j].state \in {"submitted", "failed"} =>
                        jobs'[j].state = jobs[j].state /\ jobs'[j].sha = jobs[j].sha,
         \A m \in outbox : m.job \in S /\ jobs'[m.job].state # "absent" =>
                             m \in outbox' \cup reported'
  PROVE  \A j \in S : /\ jobs'[j].state \in {"submitted", "failed"}
                      /\ jobs'[j].sha \notin Unreadable
                      => \E m \in outbox' \cup reported' :
                           m.job = j /\ m.gen = inserts'[j] /\ StateOf(m.kind) = jobs'[j].state
<1>. SUFFICES ASSUME NEW j \in S, jobs'[j].state \in {"submitted", "failed"},
                     jobs'[j].sha \notin Unreadable
              PROVE  \E m \in outbox' \cup reported' :
                       m.job = j /\ m.gen = inserts'[j] /\ StateOf(m.kind) = jobs'[j].state
  OBVIOUS
<1>1. jobs[j].state = jobs'[j].state /\ jobs[j].sha = jobs'[j].sha /\ j \in JobIds
  OBVIOUS
<1>2. PICK m \in outbox \cup reported :
        m.job = j /\ m.gen = inserts[j] /\ StateOf(m.kind) = jobs[j].state
  BY <1>1 DEF NoStatusLost
<1>3. m \in outbox' \cup reported'
  BY <1>2
<1>. QED
  BY <1>1, <1>2, <1>3

\* Statuses a task took out of its hands are the ones it holds no more.
LEMMA KnownUnlessHeld ==
  ASSUME NEW t \in Tasks, \A u \in Tasks \ {t} : task'[u] = task[u],
         outbox' \subseteq outbox, reported' \subseteq reported,
         \A i \in 1 .. Len(task'[t].out) : Known(task'[t].out[i])
  PROVE  \A m \in Status : Known(m)' => Known(m)
<1>. SUFFICES ASSUME NEW m \in Status, Known(m)' PROVE Known(m)
  OBVIOUS
<1>1. CASE m \in outbox' \/ m \in reported'
  BY <1>1 DEF Known
<1>2. CASE \E u \in Tasks : InHand(u, m)'
  <2>1. PICK u \in Tasks : InHand(u, m)'
    BY <1>2
  <2>2. CASE u = t
    BY <2>1, <2>2 DEF InHand
  <2>3. CASE u # t
    BY <2>1, <2>3 DEF InHand, Known
  <2>. QED
    BY <2>2, <2>3
<1>. QED
  BY <1>1, <1>2 DEF Known

-----------------------------------------------------------------------------
(* Steps that move a task and touch neither rows, map, copies nor reports. *)

QuietMove(t) ==
  /\ UNCHANGED <<storeVars, activeVars, historyVars>>
  /\ task' \in [Tasks -> TaskState]
  /\ \A u \in Tasks \ {t} : task'[u] = task[u] /\ (flow = u => flow' = u)
  /\ flow' \in Tasks \cup {Free} /\ outboxLock' \in Tasks \cup {Free}
  /\ link' \in {"up", "down"} /\ recoveryDue' \in BOOLEAN /\ budget' \in [DOMAIN Budget -> Nat]
  /\ task[t].pc \notin EntryLabels
  /\ task'[t].pc \notin EntryLabels \cup LockLabels \cup {"ack"}
  /\ task'[t].pc \in FlowLabels => flow' = t
  /\ task'[t].pc \in {"deliver", "receipt_new", "receipt_dup"} => task'[t].d \in Deliveries
  /\ task'[t].pc \in {"receipt_new", "receipt_dup"} => ReceiptBacked(t)'
  /\ task'[t].pc \in DrainLabels => SnapshotOK(t)'
  /\ \A i \in 1 .. Len(task'[t].out) : Known(task'[t].out[i])

\* The store, the books and the auxiliary counts stay when their tables do.
LEMMA StoreStands ==
  ASSUME StoreInvariant, BooksOK, CopiesExplained, NoStatusLost,
         jobs' = jobs, outbox' = outbox, inserts' = inserts, clock' \in Nat,
         crossed' = crossed, interrupted' = interrupted, reported \subseteq reported'
  PROVE  /\ StoreInvariant' /\ StoreTypeOK' /\ BooksOK' /\ CopiesExplained' /\ NoStatusLost'
         /\ OutcomesStand
<1>1. jobs' = jobs /\ outbox' = outbox /\ inserts' = inserts
  OBVIOUS
<1>2. StoreTypeOK'
  BY <1>1 DEF StoreInvariant, StoreTypeOK
<1>3. KeysUnique' /\ ClaimsAccounted' /\ PayloadKeptWhilePending' /\ OutboxMatchesJobs'
  BY <1>1 DEF StoreInvariant, KeysUnique, ClaimsAccounted, PayloadKeptWhilePending,
              OutboxMatchesJobs, Stored
<1>4. BooksOK' /\ CopiesExplained' /\ NoStatusLost'
  BY <1>1 DEF BooksOK, CopiesExplained, NoStatusLost, Stored
<1>5. OutcomesStand
  BY <1>1 DEF OutcomesStand, Stored
<1>. QED
  BY <1>2, <1>3, <1>4, <1>5 DEF StoreInvariant

\* The map is right when the tasks with an entry stay where they are.
LEMMA ActiveStands ==
  ASSUME ActiveOK, UNCHANGED activeVars,
         \A u \in Tasks : task[u].pc \in EntryLabels =>
           task'[u].pc \in EntryLabels /\ task'[u].queue = task[u].queue
  PROVE  ActiveOK'
<1>1. activeLock' = activeLock /\ active' = active /\ cancelJob' = cancelJob
  BY DEF activeVars
<1>2. ASSUME NEW j \in JobIds, active'[j] # "none"
      PROVE  \E t \in Tasks : task'[t].pc \in EntryLabels /\ Current(t)' = j
  <2>1. PICK t \in Tasks : task[t].pc \in EntryLabels /\ Current(t) = j
    BY <1>1, <1>2 DEF ActiveOK
  <2>2. task'[t].pc \in EntryLabels /\ Current(t)' = j
    BY <2>1 DEF Current
  <2>. QED
    BY <2>2
<1>. QED
  BY <1>1, <1>2 DEF ActiveOK

\* A quiet move keeps the invariant.
LEMMA QuietMoveKeeps ==
  ASSUME Invariant, NEW t \in Tasks, QuietMove(t)
  PROVE  Invariant'
<1>. USE DEF Invariant
<1>1. /\ UNCHANGED activeVars /\ clock' \in Nat
      /\ jobs' = jobs /\ inserts' = inserts /\ outbox' = outbox
      /\ active' = active /\ activeLock' = activeLock /\ cancelJob' = cancelJob
      /\ crossed' = crossed /\ interrupted' = interrupted /\ reported' = reported
  BY DEF QuietMove, storeVars, activeVars, historyVars, TypeOK, StoreTypeOK
<1>2. /\ StoreInvariant' /\ StoreTypeOK' /\ BooksOK' /\ CopiesExplained' /\ NoStatusLost'
      /\ OutcomesStand
  BY <1>1, StoreStands
<1>3. TypeOK'
  BY <1>1, <1>2 DEF TypeOK, QuietMove
<1>4. ASSUME NEW u \in Tasks PROVE TaskOK(u)'
  <2>1. CASE u # t
    <3>1. TaskOK(u) /\ task'[u] = task[u] /\ (flow = u => flow' = u)
      BY <2>1 DEF TasksOK, QuietMove
    <3>. QED
      BY <1>1, <3>1, Undisturbed DEF TypeOK
  <2>2. CASE u = t
    <3>1. task'[u].pc \notin ClaimLabels \cup {"spool", "finish", "register"}
      BY <2>2 DEF QuietMove, EntryLabels, LockLabels, ClaimLabels
    <3>. QED
      BY <2>2, <3>1 DEF QuietMove, TaskOK
  <2>. QED
    BY <2>1, <2>2
<1>5. ActiveOK'
  BY <1>1, ActiveStands DEF QuietMove
<1>6. KnownOK'
  <2>1. \A m \in Status : Known(m)' => Known(m)
    BY <1>1, KnownUnlessHeld DEF QuietMove
  <2>. QED
    BY <1>2, <2>1, KnownStays
<1>. QED
  BY <1>2, <1>3, <1>4, <1>5, <1>6 DEF TasksOK

\* The statuses a task holds are known.
LEMMA HeldIsKnown ==
  ASSUME NEW t \in Tasks, NEW i \in 1 .. Len(task[t].out)
  PROVE  Known(task[t].out[i])
  BY DEF Known, InHand

\* What the environment spends leaves a budget.
LEMMA SpendType ==
  ASSUME budget \in [DOMAIN Budget -> Nat], NEW kind \in DOMAIN Budget, Spend(kind)
  PROVE  budget' \in [DOMAIN Budget -> Nat]
<1>1. budget[kind] \in Nat /\ budget[kind] > 0
  BY DEF Spend
<1>2. budget[kind] - 1 \in Nat
  BY <1>1
<1>. QED
  BY <1>2 DEF Spend

\* The kinds the environment may spend on.
LEMMA BudgetKinds == DOMAIN Budget = {"deliver", "cancel", "drop", "crash", "fault"}
  BY RuntimeAssumption

\* Returning is quiet, from any label without a map entry.
LEMMA QuietReturn ==
  ASSUME Invariant, NEW t \in Tasks, Return(t), task[t].pc \notin EntryLabels,
         UNCHANGED <<storeVars, activeVars, historyVars>>,
         link' \in {"up", "down"}, recoveryDue' \in BOOLEAN, budget' \in [DOMAIN Budget -> Nat]
  PROVE  QuietMove(t)
<1>1. /\ task' \in [Tasks -> TaskState]
      /\ \A u \in Tasks \ {t} : task'[u] = task[u] /\ (flow = u => flow' = u)
      /\ task'[t].pc = "idle" /\ task'[t].out = <<>>
      /\ flow' \in Tasks \cup {Free} /\ outboxLock' \in Tasks \cup {Free}
  BY ReturnStep DEF Invariant, TypeOK
<1>2. /\ task'[t].pc \notin EntryLabels \cup LockLabels \cup FlowLabels \cup DrainLabels
      /\ task'[t].pc \notin {"ack", "deliver", "receipt_new", "receipt_dup"}
  BY <1>1 DEF EntryLabels, LockLabels, FlowLabels, DrainLabels
<1>3. \A i \in 1 .. Len(task'[t].out) : FALSE
  BY <1>1
<1>. QED
  BY <1>1, <1>2, <1>3 DEF QuietMove

\* So is going on to a label that asks for nothing but flow_lock.
LEMMA QuietGo ==
  ASSUME Invariant, NEW t \in Tasks, NEW label \in {"drain", "send", "replay", "list"},
         Go(t, label), label \in {"drain", "list"} => flow' = t,
         flow' = flow \/ (flow = Free /\ flow' = t), outboxLock' \in Tasks \cup {Free},
         task[t].pc \notin EntryLabels,
         UNCHANGED <<storeVars, activeVars, historyVars, link, budget>>,
         recoveryDue' \in BOOLEAN
  PROVE  QuietMove(t)
<1>1. label \in Labels
  BY DEF Labels
<1>2. /\ task' \in [Tasks -> TaskState]
      /\ \A u \in Tasks \ {t} : task'[u] = task[u]
      /\ task'[t].pc = label /\ task'[t].out = task[t].out
  BY <1>1, GoStep DEF Invariant, TypeOK
<1>3. /\ task'[t].pc \notin EntryLabels \cup LockLabels \cup DrainLabels
      /\ task'[t].pc \notin {"ack", "deliver", "receipt_new", "receipt_dup"}
      /\ task'[t].pc \in FlowLabels => flow' = t
  BY <1>2 DEF EntryLabels, LockLabels, FlowLabels, DrainLabels
<1>4. /\ flow' \in Tasks \cup {Free}
      /\ \A u \in Tasks \ {t} : flow = u => flow' = u
  <2>1. flow \in Tasks \cup {Free} /\ Free \notin Tasks
    BY RuntimeAssumption DEF Invariant, TypeOK, Free
  <2>. QED
    BY <2>1
<1>5. \A i \in 1 .. Len(task'[t].out) : Known(task'[t].out[i])
  BY <1>2, HeldIsKnown
<1>6. link' \in {"up", "down"} /\ budget' \in [DOMAIN Budget -> Nat]
  BY DEF Invariant, TypeOK
<1>. QED
  BY <1>2, <1>3, <1>4, <1>5, <1>6 DEF QuietMove

-----------------------------------------------------------------------------
(* The quiet steps, one by one.                                            *)

\* StartDelivery spawns a handler with its message.
LEMMA StartDeliveryQuiet ==
  ASSUME Invariant, NEW t \in Tasks, NEW d \in Deliveries, StartDelivery(t, d)
  PROVE  QuietMove(t)
<1>. DEFINE r == [task[t] EXCEPT !.pc = "deliver", !.d = d]
<1>1. /\ task[t].pc = "idle" /\ task' = [task EXCEPT ![t] = r] /\ Spend("deliver")
      /\ UNCHANGED <<storeVars, flow, outboxLock, activeVars, linkVars, historyVars>>
  BY DEF StartDelivery, At
<1>2. /\ task \in [Tasks -> TaskState] /\ budget \in [DOMAIN Budget -> Nat]
      /\ flow \in Tasks \cup {Free} /\ outboxLock \in Tasks \cup {Free}
      /\ link \in {"up", "down"} /\ recoveryDue \in BOOLEAN
  BY DEF Invariant, TypeOK
<1>3. r \in TaskState /\ r.pc = "deliver" /\ r.d = d /\ r.out = task[t].out
  BY <1>2 DEF TaskState, Labels
<1>. HIDE DEF r
<1>4. /\ task' \in [Tasks -> TaskState] /\ task'[t] = r
      /\ \A u \in Tasks \ {t} : task'[u] = task[u]
  BY <1>1, <1>2, <1>3, OneTaskMoves
<1>5. budget' \in [DOMAIN Budget -> Nat]
  BY <1>1, <1>2, SpendType, BudgetKinds
<1>6. /\ flow' = flow /\ outboxLock' = outboxLock /\ link' = link /\ recoveryDue' = recoveryDue
      /\ UNCHANGED <<storeVars, activeVars, historyVars>>
  BY <1>1 DEF linkVars
<1>7. /\ "idle" \notin EntryLabels
      /\ "deliver" \notin EntryLabels \cup LockLabels \cup FlowLabels \cup DrainLabels
  BY DEF EntryLabels, LockLabels, FlowLabels, DrainLabels
<1>8. \A i \in 1 .. Len(task'[t].out) : Known(task'[t].out[i])
  BY <1>3, <1>4, HeldIsKnown
<1>. QED
  BY <1>1, <1>2, <1>3, <1>4, <1>5, <1>6, <1>7, <1>8 DEF QuietMove

\* A redelivery that insert_received recognises is backed by its row; any
\* other refusal ends the handler.
LEMMA ReceiveRefusedQuiet ==
  ASSUME Invariant, NEW t \in Tasks, Receive(t), ~InsertReceived(task[t].d)
  PROVE  QuietMove(t)
<1>. DEFINE d == task[t].d
<1>1. /\ task[t].pc = "deliver" /\ flow = Free
      /\ UNCHANGED <<storeVars, activeVars, linkVars, budget, historyVars>>
      /\ \/ InsertOutcome(d) = "duplicate_job" /\ flow' = t /\ Go(t, "receipt_dup")
            /\ UNCHANGED outboxLock
         \/ Return(t)
  BY DEF Receive, At
<1>2. /\ task \in [Tasks -> TaskState] /\ budget \in [DOMAIN Budget -> Nat]
      /\ flow \in Tasks \cup {Free} /\ outboxLock \in Tasks \cup {Free}
      /\ link \in {"up", "down"} /\ recoveryDue \in BOOLEAN
      /\ StoreTypeOK /\ PayloadKeptWhilePending /\ TaskOK(t) /\ BooksOK
  BY DEF Invariant, TypeOK, StoreInvariant, TasksOK
<1>3. /\ link' = link /\ recoveryDue' = recoveryDue /\ budget' = budget
      /\ jobs' = jobs /\ inserts' = inserts
  BY <1>1 DEF linkVars, storeVars
<1>4. "deliver" \notin EntryLabels
  BY DEF EntryLabels
<1>5. CASE Return(t)
  BY <1>1, <1>2, <1>3, <1>4, <1>5, QuietReturn
<1>6. CASE /\ InsertOutcome(d) = "duplicate_job" /\ flow' = t /\ Go(t, "receipt_dup")
           /\ UNCHANGED outboxLock
  <2>1. d \in Deliveries /\ d.job \in JobIds
    BY <1>1, <1>2, DeliveryAssumption DEF TaskOK
  <2>2. Stored(d.job) /\ jobs[d.job].key = d.key /\ PayloadMatches(jobs[d.job], d)
    BY <1>6 DEF InsertOutcome, ExistingOutcome
  <2>3. PayloadFits(jobs[d.job]) /\ jobs[d.job] \in Row
    BY <1>2, <2>1 DEF PayloadKeptWhilePending, StoreTypeOK
  <2>4. jobs[d.job].sha = d.payload
    BY <2>2, <2>3 DEF PayloadFits, PayloadMatches, Stored, Row, JobStates
  <2>5. inserts[d.job] > 0
    BY <1>2, <2>1, <2>2 DEF BooksOK
  <2>6. /\ task' \in [Tasks -> TaskState]
        /\ \A u \in Tasks \ {t} : task'[u] = task[u]
        /\ task'[t].pc = "receipt_dup" /\ task'[t].d = d /\ task'[t].out = task[t].out
    BY <1>2, <1>6, GoStep DEF Labels
  <2>7. ReceiptBacked(t)'
    BY <1>3, <2>2, <2>4, <2>5, <2>6 DEF ReceiptBacked, Stored
  <2>8. "receipt_dup" \notin EntryLabels \cup LockLabels \cup DrainLabels \cup {"ack"}
    BY DEF EntryLabels, LockLabels, DrainLabels
  <2>9. \A i \in 1 .. Len(task'[t].out) : Known(task'[t].out[i])
    BY <2>6, HeldIsKnown
  <2>10. Free \notin Tasks
    BY RuntimeAssumption DEF Free
  <2>. HIDE DEF d
  <2>. QED
    BY <1>1, <1>2, <1>3, <1>4, <1>6, <2>1, <2>6, <2>7, <2>8, <2>9, <2>10 DEF QuietMove
<1>. QED
  BY <1>1, <1>5, <1>6

\* The receipt is out: a new job goes on to the drain.
LEMMA SendReceiptQuiet ==
  ASSUME Invariant, NEW t \in Tasks, SendReceipt(t)
  PROVE  QuietMove(t)
<1>1. /\ task[t].pc \in {"receipt_new", "receipt_dup"}
      /\ \/ Go(t, "drain") /\ UNCHANGED <<flow, outboxLock>>
         \/ Return(t)
      /\ UNCHANGED <<storeVars, activeVars, linkVars, budget, historyVars>>
  BY DEF SendReceipt
<1>2. /\ task[t].pc \notin EntryLabels /\ flow = t
      /\ outboxLock \in Tasks \cup {Free} /\ link \in {"up", "down"} /\ recoveryDue \in BOOLEAN
      /\ budget \in [DOMAIN Budget -> Nat]
  BY <1>1 DEF EntryLabels, FlowLabels, Invariant, TypeOK, TasksOK, TaskOK
<1>3. link' = link /\ recoveryDue' = recoveryDue
  BY <1>1 DEF linkVars
<1>4. CASE Return(t)
  BY <1>1, <1>2, <1>3, <1>4, QuietReturn
<1>5. CASE Go(t, "drain") /\ UNCHANGED <<flow, outboxLock>>
  BY <1>1, <1>2, <1>3, <1>5, QuietGo
<1>. QED
  BY <1>1, <1>4, <1>5

\* A listing or a queue step replaces the task's queue.
LEMMA QueueStepQuiet ==
  ASSUME Invariant, NEW t \in Tasks, NEW label \in {"next", "receipts"}, NEW rows \in Seq(JobIds),
         NEW seen \in [JobIds -> Nat],
         task' = [task EXCEPT ![t] = [task[t] EXCEPT !.pc = label, !.queue = rows, !.seen = seen]],
         label = "next" =>
           \A i \in 1 .. Len(rows) :
             jobs[rows[i]].state \in PendingStates => seen[rows[i]] = jobs[rows[i]].recoveries,
         task[t].pc \in FlowLabels \ EntryLabels,
         UNCHANGED <<storeVars, flow, outboxLock, activeVars, linkVars, budget, historyVars>>
  PROVE  QuietMove(t)
<1>. DEFINE r == [task[t] EXCEPT !.pc = label, !.queue = rows, !.seen = seen]
<1>1. /\ task \in [Tasks -> TaskState] /\ budget \in [DOMAIN Budget -> Nat]
      /\ outboxLock \in Tasks \cup {Free} /\ link \in {"up", "down"} /\ recoveryDue \in BOOLEAN
      /\ flow = t
  BY DEF Invariant, TypeOK, TasksOK, TaskOK
<1>2. /\ r \in TaskState /\ r.pc = label /\ r.out = task[t].out
      /\ r.queue = rows /\ r.seen = seen
  <2>. DEFINE Counts == [JobIds -> Nat]
              Rows   == Seq(JobIds)
              Shape(q, c) == [pc : Labels, d : Deliveries \cup {NoDelivery}, queue : q,
                              seen : c, out : Seq(Status), mode : {"flow", "replay"},
                              full : BOOLEAN, result : {"none", "ok", "error", "cancelled"}]
  <2>1. task[t] \in Shape(Rows, Counts) /\ label \in Labels
    BY <1>1 DEF TaskState, Labels
  <2>2. seen \in Counts /\ rows \in Rows
    OBVIOUS
  <2>3. Shape(Rows, Counts) = TaskState
    BY DEF TaskState
  <2>. HIDE DEF Counts, Rows
  <2>. QED
    BY ONLY <2>1, <2>2, <2>3 DEF r
<1>3. task' = [task EXCEPT ![t] = r]
  OBVIOUS
<1>. HIDE DEF r
<1>4. /\ task' \in [Tasks -> TaskState] /\ task'[t] = r
      /\ \A u \in Tasks \ {t} : task'[u] = task[u]
  BY <1>1, <1>2, <1>3, OneTaskMoves
<1>5. /\ link' = link /\ recoveryDue' = recoveryDue /\ budget' = budget
      /\ flow' = flow /\ outboxLock' = outboxLock
      /\ UNCHANGED <<storeVars, activeVars, historyVars>>
  BY DEF linkVars
<1>6. /\ label \notin EntryLabels \cup LockLabels
      /\ label \notin {"ack", "deliver", "receipt_new", "receipt_dup"}
  BY DEF EntryLabels, LockLabels
<1>7. \A i \in 1 .. Len(task'[t].out) : Known(task'[t].out[i])
  BY <1>2, <1>4, HeldIsKnown
<1>8. task'[t].pc \in DrainLabels => SnapshotOK(t)'
  <2>1. task'[t].pc \in DrainLabels => label = "next"
    BY <1>2, <1>4 DEF DrainLabels
  <2>2. jobs' = jobs
    BY <1>5 DEF storeVars
  <2>. QED
    BY <1>2, <1>4, <2>1, <2>2 DEF SnapshotOK
<1>. QED
  BY <1>1, <1>2, <1>4, <1>5, <1>6, <1>7, <1>8 DEF QuietMove

\* The drain takes its snapshot.
LEMMA DrainQuiet ==
  ASSUME Invariant, NEW t \in Tasks, Drain(t)
  PROVE  QuietMove(t)
<1>. DEFINE seen == [j \in JobIds |-> jobs[j].recoveries]
<1>1. PICK rows \in PendingInOrder :
        task' = [task EXCEPT ![t].pc = "next", ![t].queue = rows, ![t].seen = seen]
  BY DEF Drain
<1>2. task' = [task EXCEPT ![t] =
                 [task[t] EXCEPT !.pc = "next", !.queue = rows, !.seen = seen]]
  BY <1>1 DEF Invariant, TypeOK
<1>3. task[t].pc \in FlowLabels \ EntryLabels /\ rows \in Seq(JobIds)
  BY PendingRows DEF Drain, At, FlowLabels, EntryLabels
<1>4. seen \in [JobIds -> Nat]
  BY DEF Invariant, TypeOK, StoreTypeOK, Row
<1>5. \A i \in 1 .. Len(rows) : seen[rows[i]] = jobs[rows[i]].recoveries
  BY <1>3, ElementOfSeq
<1>. HIDE DEF seen
<1>. QED
  BY <1>2, <1>3, <1>4, <1>5, QueueStepQuiet DEF Drain

\* report_pending_receipts takes its own.
LEMMA ListReceiptsQuiet ==
  ASSUME Invariant, NEW t \in Tasks, ListReceipts(t)
  PROVE  QuietMove(t)
<1>1. PICK rows \in PendingInOrder :
        task' = [task EXCEPT ![t].pc = "receipts", ![t].queue = rows]
  BY DEF ListReceipts
<1>. DEFINE seen == task[t].seen
<1>2. /\ seen \in [JobIds -> Nat]
      /\ task' = [task EXCEPT ![t] =
                    [task[t] EXCEPT !.pc = "receipts", !.queue = rows, !.seen = seen]]
  BY <1>1 DEF Invariant, TypeOK, TaskState
<1>3. task[t].pc \in FlowLabels \ EntryLabels /\ rows \in Seq(JobIds)
  BY PendingRows DEF ListReceipts, At, FlowLabels, EntryLabels
<1>. HIDE DEF seen
<1>. QED
  BY <1>2, <1>3, QueueStepQuiet DEF ListReceipts

\* Dropping the first row of the queue keeps a task record.
LEMMA SkipRow ==
  ASSUME Invariant, NEW t \in Tasks, task[t].queue # <<>>,
         task' = [task EXCEPT ![t].queue = Tail(@)],
         task[t].pc \in {"next", "receipts"},
         UNCHANGED <<storeVars, flow, outboxLock, activeVars, linkVars, budget, historyVars>>
  PROVE  QuietMove(t)
<1>1. task \in [Tasks -> TaskState]
  BY DEF Invariant, TypeOK
<1>2. Tail(task[t].queue) \in Seq(JobIds)
  BY <1>1, CurrentRow
<1>. DEFINE rest == Tail(task[t].queue)
            seen == task[t].seen
<1>3. [task[t] EXCEPT !.queue = rest] =
      [task[t] EXCEPT !.pc = task[t].pc, !.queue = rest, !.seen = seen]
  BY <1>1 DEF TaskState
<1>4. task' = [task EXCEPT ![t] = [task[t] EXCEPT !.pc = task[t].pc, !.queue = rest,
                                                  !.seen = seen]]
  BY <1>1, <1>3
<1>5. task[t].pc \in FlowLabels \ EntryLabels /\ seen \in [JobIds -> Nat]
  BY <1>1 DEF FlowLabels, EntryLabels, TaskState
<1>6. ASSUME task[t].pc = "next", NEW i \in 1 .. Len(rest),
             jobs[rest[i]].state \in PendingStates
      PROVE  seen[rest[i]] = jobs[rest[i]].recoveries
  <2>1. SnapshotOK(t) /\ task[t].queue \in Seq(JobIds)
    BY <1>1, <1>6 DEF Invariant, TasksOK, TaskOK, DrainLabels, TaskState
  <2>2. /\ Len(task[t].queue) \in Nat /\ Len(rest) = Len(task[t].queue) - 1
        /\ rest[i] = task[t].queue[i + 1]
    BY <2>1, HeadTailProperties, LenProperties
  <2>3. i + 1 \in 1 .. Len(task[t].queue)
    BY <2>2
  <2>. QED
    BY <1>6, <2>1, <2>2, <2>3 DEF SnapshotOK
<1>. HIDE DEF rest, seen
<1>. QED
  BY <1>2, <1>4, <1>5, <1>6, QueueStepQuiet DEF rest

\* One pending job is acknowledged again.
LEMMA SendPendingReceiptQuiet ==
  ASSUME Invariant, NEW t \in Tasks, SendPendingReceipt(t)
  PROVE  QuietMove(t)
  BY SkipRow DEF SendPendingReceipt, At, HasWork

\* The drain has nothing left and turns to its reports.
LEMMA EndDrainQuiet ==
  ASSUME Invariant, NEW t \in Tasks, EndDrain(t)
  PROVE  QuietMove(t)
<1>1. /\ task[t].pc = "next" /\ outboxLock' = t /\ flow' = flow /\ Go(t, "send")
      /\ UNCHANGED <<storeVars, activeVars, historyVars, link, budget>>
      /\ recoveryDue' = recoveryDue
  BY DEF EndDrain, At, linkVars
<1>2. "next" \notin EntryLabels /\ recoveryDue \in BOOLEAN
  BY DEF EntryLabels, Invariant, TypeOK
<1>. QED
  BY <1>1, <1>2, QuietGo

\* report_pending_receipts is done.
LEMMA EndReceiptsQuiet ==
  ASSUME Invariant, NEW t \in Tasks, EndReceipts(t)
  PROVE  QuietMove(t)
<1>1. /\ task[t].pc = "receipts" /\ outboxLock' = outboxLock /\ flow' = flow /\ Go(t, "drain")
      /\ UNCHANGED <<storeVars, activeVars, historyVars, link, budget>>
      /\ recoveryDue' = recoveryDue
  BY DEF EndReceipts, At, linkVars
<1>2. /\ "receipts" \notin EntryLabels /\ "receipts" \in FlowLabels /\ recoveryDue \in BOOLEAN
      /\ outboxLock \in Tasks \cup {Free} /\ TaskOK(t)
  BY DEF EntryLabels, FlowLabels, Invariant, TypeOK, TasksOK
<1>3. flow' = t
  BY <1>1, <1>2 DEF TaskOK
<1>. QED
  BY <1>1, <1>2, <1>3, QuietGo

\* A handler starts with a listing of the pending jobs.
LEMMA ProcessPendingQuiet ==
  ASSUME Invariant, NEW t \in Tasks, ProcessPending(t)
  PROVE  QuietMove(t)
<1>1. /\ task[t].pc = "idle" /\ outboxLock' = outboxLock /\ flow = Free /\ flow' = t
      /\ Go(t, "list")
      /\ UNCHANGED <<storeVars, activeVars, historyVars, link, budget>>
      /\ recoveryDue' = recoveryDue
  BY DEF ProcessPending, At, linkVars
<1>2. /\ "idle" \notin EntryLabels /\ recoveryDue \in BOOLEAN
      /\ outboxLock \in Tasks \cup {Free}
  BY DEF EntryLabels, Invariant, TypeOK
<1>. QED
  BY <1>1, <1>2, QuietGo

\* The task a handshake spawned starts.
LEMMA StartRecoveryQuiet ==
  ASSUME Invariant, NEW t \in Tasks, StartRecovery(t)
  PROVE  QuietMove(t)
<1>1. /\ task[t].pc = "idle" /\ outboxLock' = outboxLock /\ flow' = flow /\ Go(t, "replay")
      /\ UNCHANGED <<storeVars, activeVars, historyVars, link, budget>>
      /\ recoveryDue' = FALSE
  BY DEF StartRecovery, At
<1>2. "idle" \notin EntryLabels /\ outboxLock \in Tasks \cup {Free}
  BY DEF EntryLabels, Invariant, TypeOK
<1>. QED
  BY <1>1, <1>2, QuietGo

\* The replay takes a page of the outbox.
LEMMA ReplayQuiet ==
  ASSUME Invariant, NEW t \in Tasks, Replay(t)
  PROVE  QuietMove(t)
<1>1. PICK page \in OutboxPages :
        task' = [task EXCEPT ![t].pc = "send", ![t].out = page, ![t].mode = "replay",
                             ![t].full = (Len(page) = ReplayBatch)]
  BY DEF Replay
<1>. DEFINE full == (Len(page) = ReplayBatch)
            r    == [task[t] EXCEPT !.pc = "send", !.out = page, !.mode = "replay", !.full = full]
<1>2. /\ task[t].pc = "replay" /\ outboxLock' = t
      /\ UNCHANGED <<storeVars, flow, activeVars, linkVars, budget, historyVars>>
  BY DEF Replay, At
<1>3. /\ task \in [Tasks -> TaskState] /\ budget \in [DOMAIN Budget -> Nat]
      /\ flow \in Tasks \cup {Free} /\ link \in {"up", "down"} /\ recoveryDue \in BOOLEAN
      /\ outbox \subseteq Status /\ IsFiniteSet(outbox)
  BY DEF Invariant, TypeOK, StoreTypeOK, BooksOK
<1>4. page \in Seq(Status) /\ \A i \in 1 .. Len(page) : page[i] \in outbox
  BY <1>3, PageRows
<1>5. full \in BOOLEAN
  OBVIOUS
<1>6. task' = [task EXCEPT ![t] = r]
  BY <1>1, <1>3
<1>. HIDE DEF full
<1>7. r \in TaskState /\ r.pc = "send" /\ r.out = page
  BY <1>3, <1>4, <1>5 DEF TaskState, Labels
<1>. HIDE DEF r
<1>8. /\ task' \in [Tasks -> TaskState] /\ task'[t] = r
      /\ \A u \in Tasks \ {t} : task'[u] = task[u]
  BY <1>3, <1>6, <1>7, OneTaskMoves
<1>9. /\ link' = link /\ recoveryDue' = recoveryDue /\ budget' = budget /\ flow' = flow
      /\ UNCHANGED <<storeVars, activeVars, historyVars>>
  BY <1>2 DEF linkVars
<1>10. /\ "replay" \notin EntryLabels
       /\ "send" \notin EntryLabels \cup LockLabels \cup FlowLabels \cup DrainLabels
  BY DEF EntryLabels, LockLabels, FlowLabels, DrainLabels
<1>11. \A i \in 1 .. Len(task'[t].out) : Known(task'[t].out[i])
  BY <1>4, <1>7, <1>8 DEF Known
<1>. QED
  BY <1>2, <1>3, <1>7, <1>8, <1>9, <1>10, <1>11 DEF QuietMove

\* The last report is acknowledged.
LEMMA EndSendQuiet ==
  ASSUME Invariant, NEW t \in Tasks, EndSend(t)
  PROVE  QuietMove(t)
<1>1. /\ task[t].pc = "send"
      /\ UNCHANGED <<storeVars, activeVars, linkVars, budget, historyVars>>
      /\ \/ Return(t)
         \/ Go(t, "replay") /\ UNCHANGED <<flow, outboxLock>>
         \/ /\ task' = [task EXCEPT ![t] = [IdleTask EXCEPT !.pc = "recover"]]
            /\ outboxLock' = Free /\ UNCHANGED flow
  BY DEF EndSend, At
<1>2. /\ task \in [Tasks -> TaskState] /\ budget \in [DOMAIN Budget -> Nat]
      /\ flow \in Tasks \cup {Free} /\ outboxLock \in Tasks \cup {Free}
      /\ link \in {"up", "down"} /\ recoveryDue \in BOOLEAN
  BY DEF Invariant, TypeOK
<1>3. /\ link' = link /\ recoveryDue' = recoveryDue /\ budget' = budget
      /\ UNCHANGED <<storeVars, activeVars, historyVars>>
  BY <1>1 DEF linkVars
<1>4. /\ "send" \notin EntryLabels
      /\ "recover" \notin EntryLabels \cup LockLabels \cup FlowLabels \cup DrainLabels
  BY DEF EntryLabels, LockLabels, FlowLabels, DrainLabels
<1>5. CASE Return(t)
  BY <1>1, <1>2, <1>3, <1>4, <1>5, QuietReturn
<1>6. CASE Go(t, "replay") /\ UNCHANGED <<flow, outboxLock>>
  BY <1>1, <1>2, <1>3, <1>4, <1>6, QuietGo
<1>7. CASE /\ task' = [task EXCEPT ![t] = [IdleTask EXCEPT !.pc = "recover"]]
           /\ outboxLock' = Free /\ UNCHANGED flow
  <2>. DEFINE r == [IdleTask EXCEPT !.pc = "recover"]
  <2>1. r \in TaskState /\ r.pc = "recover" /\ r.out = <<>>
    BY IdleTaskType
  <2>2. task' = [task EXCEPT ![t] = r]
    BY <1>7
  <2>. HIDE DEF r
  <2>3. /\ task' \in [Tasks -> TaskState] /\ task'[t] = r
        /\ \A u \in Tasks \ {t} : task'[u] = task[u]
    BY <1>2, <2>1, <2>2, OneTaskMoves
  <2>4. \A i \in 1 .. Len(task'[t].out) : FALSE
    BY <2>1, <2>3
  <2>5. task'[t].pc = "recover"
    BY <2>1, <2>3
  <2>. QED
    BY <1>1, <1>2, <1>3, <1>4, <1>7, <2>3, <2>4, <2>5 DEF QuietMove
<1>. QED
  BY <1>1, <1>5, <1>6, <1>7

\* A report cannot be sent: the handler ends.
LEMMA RejectReportQuiet ==
  ASSUME Invariant, NEW t \in Tasks, RejectReport(t)
  PROVE  QuietMove(t)
<1>1. /\ WaitsToReport(t) /\ Return(t)
      /\ UNCHANGED <<storeVars, activeVars, historyVars>> /\ recoveryDue' = recoveryDue
      /\ \/ Spend("drop") /\ link' = "down"
         \/ budget' = budget /\ link' = link
  BY DEF RejectReport
<1>2. /\ budget \in [DOMAIN Budget -> Nat] /\ link \in {"up", "down"} /\ recoveryDue \in BOOLEAN
  BY DEF Invariant, TypeOK
<1>3. link' \in {"up", "down"} /\ budget' \in [DOMAIN Budget -> Nat]
  BY <1>1, <1>2, SpendType, BudgetKinds
<1>4. task[t].pc \notin EntryLabels
  BY <1>1 DEF WaitsToReport, At, EntryLabels
<1>. QED
  BY <1>1, <1>2, <1>3, <1>4, QuietReturn

\* A transaction outside a submission fails: the handler ends.
LEMMA EarlyFaultQuiet ==
  ASSUME Invariant, NEW t \in Tasks, Spend("fault"), AtTransaction(t), Return(t),
         UNCHANGED <<storeVars, activeVars, linkVars, historyVars>>
  PROVE  QuietMove(t)
<1>1. task[t].pc \notin EntryLabels
  BY DEF AtTransaction, At, EntryLabels
<1>2. budget \in [DOMAIN Budget -> Nat] /\ link' \in {"up", "down"} /\ recoveryDue' \in BOOLEAN
  BY DEF Invariant, TypeOK, linkVars
<1>3. budget' \in [DOMAIN Budget -> Nat]
  BY <1>2, SpendType, BudgetKinds
<1>. QED
  BY <1>1, <1>2, <1>3, QuietReturn

\* A row that cannot be claimed any more is skipped, or ends the drain.
LEMMA ClaimRefusedQuiet ==
  ASSUME Invariant, NEW t \in Tasks, Claim(t), ~MarkSubmitting(Current(t))
  PROVE  QuietMove(t)
<1>1. /\ task[t].pc = "next" /\ task[t].queue # <<>>
      /\ UNCHANGED <<storeVars, activeVars, linkVars, budget, historyVars>>
      /\ \/ task' = [task EXCEPT ![t].queue = Tail(@)] /\ UNCHANGED <<flow, outboxLock>>
         \/ Return(t)
  BY DEF Claim, At, HasWork, activeVars
<1>2. /\ budget \in [DOMAIN Budget -> Nat] /\ link' \in {"up", "down"} /\ recoveryDue' \in BOOLEAN
      /\ "next" \notin EntryLabels
  BY <1>1 DEF Invariant, TypeOK, linkVars, EntryLabels
<1>3. CASE Return(t)
  BY <1>1, <1>2, <1>3, QuietReturn
<1>4. CASE task' = [task EXCEPT ![t].queue = Tail(@)] /\ UNCHANGED <<flow, outboxLock>>
  BY <1>1, <1>4, SkipRow
<1>. QED
  BY <1>1, <1>3, <1>4

\* So does a row whose failure cannot be recorded any more.
LEMMA FailRefusedQuiet ==
  ASSUME Invariant, NEW t \in Tasks, task[t].pc = "next", Return(t),
         UNCHANGED <<storeVars, activeVars, linkVars, budget, historyVars>>
  PROVE  QuietMove(t)
<1>1. /\ budget' \in [DOMAIN Budget -> Nat] /\ link' \in {"up", "down"} /\ recoveryDue' \in BOOLEAN
      /\ "next" \notin EntryLabels
  BY DEF Invariant, TypeOK, linkVars, EntryLabels
<1>. QED
  BY <1>1, QuietReturn

-----------------------------------------------------------------------------
(* Steps that move no task.                                                *)

\* A step that touches the clock, the session and the budget only.
LEMMA AsideKeeps ==
  ASSUME Invariant, UNCHANGED <<jobs, outbox, inserts, taskVars, activeVars, historyVars>>,
         clock' \in Nat, link' \in {"up", "down"}, recoveryDue' \in BOOLEAN,
         budget' \in [DOMAIN Budget -> Nat]
  PROVE  Invariant'
<1>. USE DEF Invariant
<1>1. /\ jobs' = jobs /\ inserts' = inserts /\ outbox' = outbox /\ UNCHANGED activeVars
      /\ active' = active /\ activeLock' = activeLock /\ cancelJob' = cancelJob
      /\ crossed' = crossed /\ interrupted' = interrupted /\ reported' = reported
      /\ task' = task /\ flow' = flow /\ outboxLock' = outboxLock
  BY DEF taskVars, activeVars, historyVars
<1>2. /\ StoreInvariant' /\ StoreTypeOK' /\ BooksOK' /\ CopiesExplained' /\ NoStatusLost'
      /\ OutcomesStand
  BY <1>1, StoreStands
<1>3. TypeOK'
  BY <1>1, <1>2 DEF TypeOK
<1>4. TasksOK'
  BY <1>1, Undisturbed DEF TypeOK, TasksOK
<1>5. ActiveOK'
  BY <1>1, ActiveStands
<1>6. KnownOK'
  <2>1. \A m \in Status : Known(m)' => Known(m)
    BY <1>1 DEF Known, InHand
  <2>. QED
    BY <1>2, <2>1, KnownStays
<1>. QED
  BY <1>2, <1>3, <1>4, <1>5, <1>6

\* A handshake completes, a session ends, time passes.
LEMMA EnvironmentKeeps ==
  ASSUME Invariant, Hello \/ Drop \/ TimePasses
  PROVE  Invariant'
<1>1. /\ clock \in Nat /\ link \in {"up", "down"} /\ recoveryDue \in BOOLEAN
      /\ budget \in [DOMAIN Budget -> Nat]
  BY DEF Invariant, TypeOK, StoreTypeOK
<1>2. CASE Hello
  BY <1>1, <1>2, AsideKeeps DEF Hello, storeVars
<1>3. CASE Drop
  <2>1. budget' \in [DOMAIN Budget -> Nat]
    BY <1>1, <1>3, SpendType, BudgetKinds DEF Drop
  <2>. QED
    BY <1>1, <1>3, <2>1, AsideKeeps DEF Drop, storeVars
<1>4. CASE TimePasses
  <2>1. clock' \in Nat
    BY <1>4, BoundsAssumption DEF TimePasses, ClockStep
  <2>. QED
    BY <1>1, <1>4, <2>1, AsideKeeps DEF TimePasses, ClockStep, linkVars
<1>. QED
  BY <1>2, <1>3, <1>4

-----------------------------------------------------------------------------
(* Steps that write the store.                                             *)

\* insert_received keeps the tables well typed.
LEMMA InsertType ==
  ASSUME StoreTypeOK, NEW d \in Deliveries, InsertReceived(d)
  PROVE  StoreTypeOK'
<1>1. NewRow(d) \in Row /\ d.job \in JobIds
  BY NewRowType, DeliveryAssumption DEF StoreTypeOK
<1>2. inserts[d.job] + 1 \in Nat
  BY <1>1 DEF StoreTypeOK
<1>3. jobs' \in [JobIds -> Row] /\ inserts' \in [JobIds -> Nat]
  BY <1>1, <1>2 DEF StoreTypeOK, InsertReceived
<1>. QED
  BY <1>3 DEF StoreTypeOK, InsertReceived

\* A new job is stored: its copies count from zero, and every status known so
\* far belongs to an earlier row.
LEMMA ReceiveNewKeeps ==
  ASSUME Invariant, NEW t \in Tasks, Receive(t), InsertReceived(task[t].d)
  PROVE  Invariant'
<1>. DEFINE d == task[t].d
<1>. USE DEF Invariant
<1>1. /\ task[t].pc = "deliver" /\ flow = Free /\ flow' = t /\ Go(t, "receipt_new")
      /\ crossed' = [crossed EXCEPT ![d.job] = 0]
      /\ interrupted' = [interrupted EXCEPT ![d.job] = 0]
      /\ outboxLock' = outboxLock /\ reported' = reported
      /\ UNCHANGED activeVars /\ UNCHANGED linkVars /\ budget' = budget
  BY DEF Receive, At, InsertReceived
<1>2. /\ task \in [Tasks -> TaskState] /\ StoreTypeOK /\ TaskOK(t)
      /\ crossed \in [JobIds -> Nat] /\ interrupted \in [JobIds -> Nat]
      /\ inserts \in [JobIds -> Nat] /\ jobs \in [JobIds -> Row]
      /\ outbox \subseteq Status /\ reported \subseteq Status
  BY DEF TypeOK, TasksOK, StoreTypeOK
<1>3. d \in Deliveries /\ d.job \in JobIds
  BY <1>1, <1>2, DeliveryAssumption DEF TaskOK
<1>4. StoreTypeOK' /\ StoreInvariant'
  BY <1>2, <1>3, InsertType, InsertKeepsInvariant
<1>5. /\ ~Stored(d.job)
      /\ jobs'[d.job] = NewRow(d) /\ inserts'[d.job] = inserts[d.job] + 1
      /\ crossed'[d.job] = 0 /\ interrupted'[d.job] = 0 /\ outbox' = outbox
      /\ \A k \in JobIds \ {d.job} :
           /\ jobs'[k] = jobs[k] /\ inserts'[k] = inserts[k] /\ crossed'[k] = crossed[k]
           /\ interrupted'[k] = interrupted[k]
  BY <1>1, <1>2, <1>3 DEF InsertReceived, InsertOutcome, ExistingOutcome
<1>6. /\ NewRow(d).state = "received" /\ NewRow(d).key = d.key /\ NewRow(d).sha = d.payload
      /\ NewRow(d).recoveries = 0
  BY DEF NewRow
<1>7. /\ task' \in [Tasks -> TaskState]
      /\ \A u \in Tasks \ {t} : task'[u] = task[u]
      /\ task'[t].pc = "receipt_new" /\ task'[t].d = d /\ task'[t].out = task[t].out
  BY <1>1, <1>2, GoStep DEF Labels
<1>. HIDE DEF d
<1>8. crossed' \in [JobIds -> Nat] /\ interrupted' \in [JobIds -> Nat]
  BY <1>1, <1>2
<1>9. TypeOK'
  BY <1>1, <1>4, <1>7, <1>8 DEF TypeOK, activeVars, linkVars
<1>10. inserts[d.job] \in Nat
  BY <1>2, <1>3
<1>11. BooksOK'
  <2>1. \A j \in JobIds : Stored(j)' => inserts'[j] > 0
    BY <1>5, <1>10 DEF BooksOK, Stored
  <2>. QED
    BY <1>5, <2>1 DEF BooksOK
<1>12. ASSUME NEW u \in Tasks PROVE TaskOK(u)'
  <2>1. CASE u # t
    <3>1. flow # u
      BY <1>1, RuntimeAssumption DEF Free
    <3>. QED
      BY <1>1, <1>7, <2>1, <3>1, OutsideFlow DEF TasksOK
  <2>2. CASE u = t
    <3>1. ReceiptBacked(t)'
      BY <1>5, <1>6, <1>7, <1>10 DEF ReceiptBacked
    <3>2. "receipt_new" \notin EntryLabels \cup LockLabels \cup ClaimLabels \cup DrainLabels
      BY DEF EntryLabels, LockLabels, ClaimLabels, DrainLabels
    <3>. QED
      BY <1>1, <1>3, <1>7, <2>2, <3>1, <3>2 DEF TaskOK
  <2>. QED
    BY <2>1, <2>2
<1>13. ActiveOK'
  BY <1>1, <1>7, ActiveStands DEF EntryLabels
<1>14. KnownOK'
  <2>1. \A m \in Status : Known(m)' => Known(m)
    <3>1. \A i \in 1 .. Len(task'[t].out) : Known(task'[t].out[i])
      BY <1>7, HeldIsKnown
    <3>. QED
      BY <1>1, <1>5, <1>7, <3>1, KnownUnlessHeld
  <2>2. ASSUME NEW m \in Status, Known(m) PROVE Truthful(m)'
    <3>1. m.job \in JobIds /\ m.gen \in Nat /\ Truthful(m)
      BY <2>2 DEF Status, KnownOK
    <3>2. CASE m.job # d.job
      BY <1>5, <3>1, <3>2 DEF Truthful, Stored
    <3>3. CASE m.job = d.job
      <4>1. m.gen <= inserts[d.job]
        BY <3>1, <3>3 DEF Truthful
      <4>2. m.gen <= inserts'[d.job] /\ m.gen # inserts'[d.job]
        BY <1>5, <1>10, <3>1, <4>1
      <4>. QED
        BY <3>3, <4>2 DEF Truthful
    <3>. QED
      BY <3>2, <3>3
  <2>. QED
    BY <2>1, <2>2 DEF KnownOK
<1>15. CopiesExplained'
  <2>1. ASSUME NEW j \in JobIds, Stored(j)'
        PROVE  crossed'[j] <= jobs'[j].recoveries
                 + (IF jobs'[j].state = "received" THEN 0 ELSE 1)
    BY <1>5, <1>6, <2>1 DEF CopiesExplained, Stored
  <2>. QED
    BY <2>1 DEF CopiesExplained
<1>16. NoStatusLost'
  BY <1>1, <1>5, <1>6 DEF NoStatusLost
<1>. QED
  BY <1>4, <1>9, <1>11, <1>12, <1>13, <1>14, <1>15, <1>16 DEF TasksOK

\* A row is finished, by whichever path: the tables, the copies and the
\* statuses stay consistent, provided a status is written unless the row was
\* cancelled or unreadable, and is `failed' only without an earlier attempt.
LEMMA RowFinished ==
  ASSUME Invariant, NEW j \in JobIds, NEW requested \in TerminalStates,
         NEW kinds \in SUBSET StatusKinds, TerminalTransition(j, requested, kinds),
         \A k, l \in kinds : k = l,
         \A k \in kinds : /\ requested = StateOf(k)
                          /\ k = "uncertain" => jobs[j].recoveries > 0
                          /\ k = "failed" => jobs[j].recoveries = 0,
         kinds = {} => requested = "cancelled" \/ jobs[j].sha \in Unreadable,
         crossed' = crossed, interrupted' = interrupted, reported' = reported
  PROVE  /\ StoreTypeOK' /\ StoreInvariant' /\ BooksOK' /\ CopiesExplained' /\ NoStatusLost'
         /\ OutcomesStand /\ PendingStand
         /\ (\A m \in Status : Known(m)' => Known(m) \/ m \in NewStatuses(j, kinds)) => KnownOK'
<1>. USE DEF Invariant
<1>1. StoreTypeOK /\ requested \in JobStates
  BY DEF TypeOK, JobStates
<1>2. StoreTypeOK' /\ StoreInvariant'
  BY <1>1, TerminalTransitionType, TerminalKeepsInvariant
<1>3. /\ jobs[j].state \in PendingStates
      /\ inserts' = inserts
      /\ jobs'[j].state = requested
      /\ jobs'[j].key = jobs[j].key /\ jobs'[j].sha = jobs[j].sha
      /\ jobs'[j].recoveries = jobs[j].recoveries
      /\ \A k \in JobIds \ {j} :
           \/ jobs'[k].state = "absent" /\ jobs[k].state \in TerminalStates
           \/ RowKept(k)
      /\ outbox' \subseteq outbox \cup NewStatuses(j, kinds)
      /\ \A m \in outbox \cup NewStatuses(j, kinds) :
           m.job \in JobIds /\ jobs'[m.job].state # "absent" => m \in outbox'
  BY <1>1, TerminalEffect
<1>4. /\ jobs[j] \in Row /\ jobs[j].recoveries \in Nat /\ crossed[j] \in Nat
      /\ interrupted[j] \in Nat
      /\ inserts \in [JobIds -> Nat] /\ clock \in Nat /\ outbox \subseteq Status
  BY <1>1 DEF StoreTypeOK, Row, TypeOK
<1>5. requested # "absent" /\ requested \notin PendingStates /\ "absent" \notin PendingStates
  BY DEF TerminalStates, PendingStates
<1>6. BooksOK'
  <2>1. IsFiniteSet(outbox')
    BY <1>3, OutboxStaysFinite DEF BooksOK
  <2>2. \A k \in JobIds : Stored(k)' => Stored(k)
    BY <1>3, <1>5 DEF RowKept, Stored
  <2>3. ASSUME NEW k \in JobIds, jobs'[k].state \in PendingStates, jobs'[k].recoveries = 0
        PROVE  interrupted'[k] = 0
    BY <1>3, <1>5, <2>3 DEF RowKept, BooksOK
  <2>. QED
    BY <1>3, <2>1, <2>2, <2>3 DEF BooksOK
<1>7. crossed[j] <= jobs[j].recoveries + 1
  <2>1. Stored(j)
    BY <1>3, <1>5 DEF Stored
  <2>2. crossed[j] <= jobs[j].recoveries + (IF jobs[j].state = "received" THEN 0 ELSE 1)
    BY <2>1 DEF CopiesExplained
  <2>3. CASE jobs[j].state = "received"
    BY <1>4, <2>2, <2>3
  <2>4. CASE jobs[j].state # "received"
    BY <1>4, <2>2, <2>4
  <2>. QED
    BY <2>3, <2>4
<1>8. CopiesExplained'
  <2>1. ASSUME NEW k \in JobIds, Stored(k)'
        PROVE  crossed'[k] <= jobs'[k].recoveries
                 + (IF jobs'[k].state = "received" THEN 0 ELSE 1)
    <3>1. CASE k = j
      <4>1. jobs'[k].state # "received"
        BY <1>3, <1>5, <3>1 DEF PendingStates
      <4>. QED
        BY <1>3, <1>7, <3>1, <4>1
    <3>2. CASE k # j
      <4>1. RowKept(k)
        BY <1>3, <2>1, <3>2 DEF Stored
      <4>. QED
        BY <2>1, <4>1 DEF CopiesExplained, RowKept, Stored
    <3>. QED
      BY <3>1, <3>2
  <2>. QED
    BY <2>1 DEF CopiesExplained
<1>9. OutcomesStand
  <2>1. ASSUME NEW k \in JobIds, jobs'[k].state # "absent"
        PROVE  /\ Stored(k)
               /\ jobs[k].state \in {"submitted", "failed"} => jobs'[k].state = jobs[k].state
    <3>1. CASE k = j
      BY <1>3, <3>1 DEF Stored, PendingStates
    <3>2. CASE k # j
      BY <1>3, <2>1, <3>2 DEF RowKept, Stored
    <3>. QED
      BY <3>1, <3>2
  <2>. QED
    BY <1>3, <2>1 DEF OutcomesStand
<1>10. NoStatusLost'
  <2>. DEFINE S == JobIds \ {j}
  <2>1. \A k \in S : jobs'[k].state \in {"submitted", "failed"} =>
          jobs'[k].state = jobs[k].state /\ jobs'[k].sha = jobs[k].sha
    BY <1>3 DEF RowKept
  <2>2. \A m \in outbox :
          m.job \in S /\ jobs'[m.job].state # "absent" => m \in outbox' \cup reported'
    BY <1>3
  <2>3. \A k \in S : /\ jobs'[k].state \in {"submitted", "failed"}
                     /\ jobs'[k].sha \notin Unreadable
                     => \E m \in outbox' \cup reported' :
                          m.job = k /\ m.gen = inserts'[k] /\ StateOf(m.kind) = jobs'[k].state
    BY <1>3, <2>1, <2>2, StatusesStand
  <2>4. ASSUME jobs'[j].state \in {"submitted", "failed"}, jobs'[j].sha \notin Unreadable
        PROVE  \E m \in outbox' \cup reported' :
                 m.job = j /\ m.gen = inserts'[j] /\ StateOf(m.kind) = jobs'[j].state
    <3>1. PICK k \in kinds : TRUE
      BY <1>3, <2>4
    <3>. DEFINE m == [job |-> j, gen |-> inserts[j], kind |-> k, at |-> clock]
    <3>2. m \in NewStatuses(j, kinds) /\ m.job = j /\ m.gen = inserts[j] /\ m.kind = k
      BY DEF NewStatuses
    <3>. HIDE DEF m
    <3>3. m \in outbox'
      BY <1>3, <1>5, <3>2
    <3>4. StateOf(m.kind) = jobs'[j].state
      BY <1>3, <3>2
    <3>. QED
      BY <1>3, <3>2, <3>3, <3>4
  <2>. QED
    BY <2>3, <2>4 DEF NoStatusLost
<1>11. ASSUME \A m \in Status : Known(m)' => Known(m) \/ m \in NewStatuses(j, kinds)
       PROVE  KnownOK'
  <2>1. CASE kinds = {}
    <3>1. NewStatuses(j, kinds) = {}
      BY <2>1 DEF NewStatuses
    <3>. QED
      BY <1>9, <1>11, <3>1, KnownStays
  <2>2. CASE kinds # {}
    <3>1. PICK k \in kinds : kinds = {k}
      BY <2>2
    <3>. DEFINE n == [job |-> j, gen |-> inserts[j], kind |-> k, at |-> clock]
    <3>2. /\ n.job = j /\ n.gen = inserts[j] /\ n.kind = k /\ NewStatuses(j, kinds) = {n}
          /\ n \in Status
      BY <1>4, <3>1 DEF NewStatuses, Status
    <3>. HIDE DEF n
    <3>3. k = "failed" => interrupted'[j] = 0
      BY <1>3, <3>1 DEF BooksOK
    <3>. QED
      BY <1>3, <1>4, <1>9, <1>11, <3>1, <3>2, <3>3, KnownGains
  <2>. QED
    BY <2>1, <2>2
<1>12. PendingStand
  BY <1>3, <1>5 DEF PendingStand, RowKept
<1>. QED
  BY <1>2, <1>6, <1>8, <1>9, <1>10, <1>11, <1>12

\* The kind of a failure says whether an earlier attempt was recovered.
LEMMA FailureKindFits ==
  ASSUME StoreTypeOK, NEW t \in Tasks, NEW j \in JobIds, task[t].seen[j] = jobs[j].recoveries
  PROVE  /\ FailureKind(t, j) \in StatusKinds /\ StateOf(FailureKind(t, j)) = "failed"
         /\ FailureKind(t, j) = "uncertain" => jobs[j].recoveries > 0
         /\ FailureKind(t, j) = "failed" => jobs[j].recoveries = 0
<1>1. jobs[j].recoveries \in Nat
  BY DEF StoreTypeOK, Row
<1>. QED
  BY <1>1 DEF FailureKind, StateOf, StatusKinds

\* Only a pending row fails.
LEMMA FailedWasPending ==
  ASSUME NEW j \in JobIds, NEW kinds, MarkFailed(j, kinds)
  PROVE  jobs[j].state \in PendingStates
  BY DEF MarkFailed, TerminalTransition, Allowed, PendingStates, TerminalStates

\* A status is one of the new ones when its kind is.
LEMMA StatusOfIsNew ==
  ASSUME StoreTypeOK, NEW j \in JobIds, NEW kind \in StatusKinds
  PROVE  StatusOf(j, kind) \in Status /\ NewStatuses(j, {kind}) = {StatusOf(j, kind)}
  BY DEF StatusOf, NewStatuses, Status, StoreTypeOK

\* Appending new statuses to what a task holds makes no other status known.
LEMMA KnownUnlessNew ==
  ASSUME NEW t \in Tasks, \A u \in Tasks \ {t} : task'[u] = task[u],
         task[t].out \in Seq(Status), NEW added \in Seq(Status), NEW N,
         task'[t].out = task[t].out \o added, \A i \in 1 .. Len(added) : added[i] \in N,
         outbox' \subseteq outbox \cup N, reported' = reported
  PROVE  \A m \in Status : Known(m)' => Known(m) \/ m \in N
<1>. SUFFICES ASSUME NEW m \in Status, Known(m)' PROVE Known(m) \/ m \in N
  OBVIOUS
<1>1. CASE m \in outbox' \/ m \in reported'
  BY <1>1 DEF Known
<1>2. CASE \E u \in Tasks : InHand(u, m)'
  <2>1. PICK u \in Tasks : InHand(u, m)'
    BY <1>2
  <2>2. CASE u = t
    <3>1. PICK i \in 1 .. Len(task[t].out \o added) : (task[t].out \o added)[i] = m
      BY <2>1, <2>2 DEF InHand
    <3>2. /\ Len(task[t].out) \in Nat /\ Len(added) \in Nat
          /\ Len(task[t].out \o added) = Len(task[t].out) + Len(added)
          /\ \A k \in 1 .. Len(task[t].out) + Len(added) : (task[t].out \o added)[k] =
                IF k <= Len(task[t].out) THEN task[t].out[k] ELSE added[k - Len(task[t].out)]
      BY ConcatProperties, LenProperties
    <3>3. CASE i <= Len(task[t].out)
      <4>1. i \in 1 .. Len(task[t].out) /\ task[t].out[i] = m
        BY <3>1, <3>2, <3>3
      <4>. QED
        BY <4>1 DEF InHand, Known
    <3>4. CASE ~(i <= Len(task[t].out))
      <4>1. i - Len(task[t].out) \in 1 .. Len(added) /\ added[i - Len(task[t].out)] = m
        BY <3>1, <3>2, <3>4
      <4>. QED
        BY <4>1
    <3>. QED
      BY <3>3, <3>4
  <2>3. CASE u # t
    BY <2>1, <2>3 DEF InHand, Known
  <2>. QED
    BY <2>2, <2>3
<1>. QED
  BY <1>1, <1>2 DEF Known

-----------------------------------------------------------------------------
(* The steps of a submission.  Each runs with flow_lock, so the other tasks *)
(* rely on nothing it changes.                                              *)

\* The invariant after a step of the task that holds flow_lock, from its parts.
LEMMA FlowStepKeeps ==
  ASSUME Invariant, NEW t \in Tasks, flow = t,
         \A u \in Tasks \ {t} : task'[u] = task[u], reported \subseteq reported',
         TypeOK', StoreInvariant', BooksOK', TaskOK(t)', ActiveOK', KnownOK', CopiesExplained',
         NoStatusLost'
  PROVE  Invariant'
<1>1. \A u \in Tasks \ {t} : TaskOK(u)'
  BY OutsideFlow DEF Invariant, TasksOK
<1>. QED
  BY <1>1 DEF Invariant, TasksOK

\* Only the holder of flow_lock can have a map entry.
LEMMA EntryInFlow ==
  ASSUME Invariant, NEW j \in JobIds, active[j] # "none"
  PROVE  flow \in Tasks /\ task[flow].pc \in EntryLabels /\ Current(flow) = j
<1>1. PICK u \in Tasks : task[u].pc \in EntryLabels /\ Current(u) = j
  BY DEF Invariant, ActiveOK
<1>2. flow = u
  BY <1>1 DEF Invariant, TasksOK, TaskOK, EntryLabels, FlowLabels
<1>. QED
  BY <1>1, <1>2

\* A failure before the claim: the row is finished and its status queued.
LEMMA FailBeforeClaimKeeps ==
  ASSUME Invariant, NEW t \in Tasks, FailBeforeClaim(t)
  PROVE  Invariant'
<1>. DEFINE j     == Current(t)
            kinds == IF jobs[j].sha \in Unreadable THEN {} ELSE {FailureKind(t, j)}
            out   == IF kinds = {} THEN <<>> ELSE <<StatusOf(j, FailureKind(t, j))>>
            r     == [task[t] EXCEPT !.queue = Tail(task[t].queue), !.out = task[t].out \o out]
<1>1. /\ task[t].pc = "next" /\ task[t].queue # <<>>
      /\ \/ /\ MarkFailed(j, kinds)
            /\ task' = [task EXCEPT ![t].queue = Tail(@), ![t].out = @ \o out]
            /\ UNCHANGED <<flow, outboxLock>>
         \/ Return(t) /\ UNCHANGED storeVars
      /\ UNCHANGED <<activeVars, linkVars, budget, historyVars>>
  BY DEF FailBeforeClaim, At, HasWork
<1>2. CASE Return(t) /\ UNCHANGED storeVars
  BY <1>1, <1>2, FailRefusedQuiet, QuietMoveKeeps
<1>3. CASE /\ MarkFailed(j, kinds)
           /\ task' = [task EXCEPT ![t].queue = Tail(@), ![t].out = @ \o out]
           /\ UNCHANGED <<flow, outboxLock>>
  <2>1. /\ task \in [Tasks -> TaskState] /\ StoreTypeOK /\ TaskOK(t)
        /\ task[t].out \in Seq(Status)
    BY DEF Invariant, TypeOK, TasksOK, TaskState
  <2>2. j \in JobIds /\ Tail(task[t].queue) \in Seq(JobIds)
    BY <1>1, <2>1, CurrentRow DEF Current
  <2>3. flow = t
    BY <1>1, <2>1 DEF TaskOK, FlowLabels
  <2>4. task' = [task EXCEPT ![t] = r]
    BY <1>3, <2>1
  <2>20. task[t].seen[j] = jobs[j].recoveries
    BY <1>1, <1>3, <2>1, <2>2, FailedWasPending, CurrentSeen DEF DrainLabels
  <2>. HIDE DEF j
  <2>5. /\ FailureKind(t, j) \in StatusKinds /\ StateOf(FailureKind(t, j)) = "failed"
        /\ FailureKind(t, j) = "uncertain" => jobs[j].recoveries > 0
        /\ FailureKind(t, j) = "failed" => jobs[j].recoveries = 0
    BY <2>1, <2>2, <2>20, FailureKindFits
  <2>6. /\ StatusOf(j, FailureKind(t, j)) \in Status
        /\ NewStatuses(j, {FailureKind(t, j)}) = {StatusOf(j, FailureKind(t, j))}
    BY <2>1, <2>2, <2>5, StatusOfIsNew
  <2>7. out \in Seq(Status) /\ \A i \in 1 .. Len(out) : out[i] \in NewStatuses(j, kinds)
    <3>1. CASE kinds = {}
      BY <3>1, EmptySeq
    <3>2. CASE kinds # {}
      <4>1. kinds = {FailureKind(t, j)} /\ out = <<StatusOf(j, FailureKind(t, j))>>
        BY <3>2
      <4>. DEFINE m == StatusOf(j, FailureKind(t, j))
      <4>2. m \in Status /\ NewStatuses(j, kinds) = {m} /\ out = <<m>>
        BY <2>6, <4>1
      <4>. HIDE DEF m, kinds, out
      <4>. QED
        BY <4>2
    <3>. QED
      BY <3>1, <3>2
  <2>8. /\ kinds \in SUBSET StatusKinds /\ \A k, l \in kinds : k = l
        /\ \A k \in kinds : k = FailureKind(t, j)
        /\ kinds = {} => jobs[j].sha \in Unreadable
    BY <2>5
  <2>. HIDE DEF kinds, out
  <2>9. task[t].out \o out \in Seq(Status)
    BY <2>1, <2>7, ConcatProperties
  <2>10. /\ r \in TaskState /\ r.pc = task[t].pc /\ r.out = task[t].out \o out
         /\ r.queue = Tail(task[t].queue) /\ r.seen = task[t].seen
    BY <2>1, <2>2, <2>9 DEF TaskState
  <2>. HIDE DEF r
  <2>11. /\ task' \in [Tasks -> TaskState] /\ task'[t] = r
         /\ \A u \in Tasks \ {t} : task'[u] = task[u]
    BY <2>1, <2>4, <2>10, OneTaskMoves
  <2>12. TerminalTransition(j, "failed", kinds) /\ "failed" \in TerminalStates
    BY <1>3 DEF MarkFailed, TerminalStates
  <2>13. /\ outbox' \subseteq outbox \cup NewStatuses(j, kinds)
    BY <2>1, <2>2, <2>8, <2>12, TerminalEffect
  <2>14. crossed' = crossed /\ interrupted' = interrupted /\ reported' = reported
    BY <1>1 DEF historyVars
  <2>15. \A m \in Status : Known(m)' => Known(m) \/ m \in NewStatuses(j, kinds)
    BY <2>1, <2>7, <2>10, <2>11, <2>13, <2>14, KnownUnlessNew
  <2>16. /\ StoreTypeOK' /\ StoreInvariant' /\ BooksOK' /\ CopiesExplained' /\ NoStatusLost'
         /\ KnownOK' /\ PendingStand
    BY <2>2, <2>5, <2>8, <2>12, <2>14, <2>15, RowFinished
  <2>17. TypeOK'
    BY <1>1, <1>3, <2>11, <2>14, <2>16 DEF Invariant, TypeOK, activeVars, linkVars
  <2>18. TaskOK(t)'
    <3>1. "next" \notin EntryLabels \cup LockLabels \cup ClaimLabels
      BY DEF EntryLabels, LockLabels, ClaimLabels
    <3>2. SnapshotOK(t)'
      BY <1>1, <2>1, <2>10, <2>11, <2>16, SnapshotStands DEF TaskOK, DrainLabels, TaskState
    <3>. QED
      BY <1>1, <1>3, <2>3, <2>10, <2>11, <3>1, <3>2 DEF TaskOK
  <2>19. ActiveOK'
    BY <1>1, <2>11, ActiveStands DEF EntryLabels, Invariant
  <2>. QED
    BY <2>3, <2>11, <2>14, <2>16, <2>17, <2>18, <2>19, FlowStepKeeps
<1>. QED
  BY <1>1, <1>2, <1>3

\* A claim keeps the tables well typed.
LEMMA ClaimEffect ==
  ASSUME StoreInvariant, NEW j \in JobIds, MarkSubmitting(j)
  PROVE  /\ StoreTypeOK' /\ StoreInvariant'
         /\ outbox' = outbox /\ inserts' = inserts
         /\ jobs[j].state = "received" /\ jobs'[j].state = "submitting"
         /\ jobs'[j].recoveries = jobs[j].recoveries
         /\ \A k \in JobIds \ {j} : jobs'[k] = jobs[k]
<1>1. /\ jobs[j].state = "received" /\ jobs' = Transitioned(j, "submitting")
      /\ outbox' = outbox /\ inserts' = inserts /\ clock' = clock
  BY DEF MarkSubmitting, Allowed
<1>2. StoreTypeOK /\ "submitting" \in JobStates
  BY DEF StoreInvariant, JobStates, PendingStates
<1>3. StoreTypeOK'
  BY <1>1, <1>2, TransitionedType DEF StoreTypeOK
<1>4. StoreInvariant'
  BY <1>3, ClaimKeepsInvariant
<1>. QED
  BY <1>1, <1>2, <1>3, <1>4, TransitionedFields

\* The durable claim: a queued row has no copy that is not paid for, so the
\* coming one is the only one.
LEMMA ClaimKeeps ==
  ASSUME Invariant, NEW t \in Tasks, Claim(t), MarkSubmitting(Current(t))
  PROVE  Invariant'
<1>. DEFINE j == Current(t)
<1>1. /\ task[t].pc = "next" /\ task[t].queue # <<>> /\ activeLock = Free
      /\ MarkSubmitting(j) /\ activeLock' = t /\ Go(t, "register")
      /\ flow' = flow /\ outboxLock' = outboxLock /\ active' = active /\ cancelJob' = cancelJob
      /\ UNCHANGED <<linkVars, budget, historyVars>>
  BY DEF Claim, At, HasWork, Stored, MarkSubmitting, Allowed
<1>2. /\ task \in [Tasks -> TaskState] /\ StoreTypeOK /\ TaskOK(t) /\ StoreInvariant
  BY DEF Invariant, TypeOK, TasksOK
<1>3. j \in JobIds /\ flow = t
  BY <1>1, <1>2, CurrentRow DEF Current, TaskOK, FlowLabels
<1>4. /\ task' \in [Tasks -> TaskState]
      /\ \A u \in Tasks \ {t} : task'[u] = task[u]
      /\ task'[t].pc = "register" /\ task'[t].queue = task[t].queue
      /\ task'[t].out = task[t].out /\ task'[t].seen = task[t].seen
  BY <1>1, <1>2, GoStep DEF Labels
<1>5. Current(t)' = j
  BY <1>4 DEF Current
<1>. HIDE DEF j
<1>6. /\ StoreTypeOK' /\ StoreInvariant'
      /\ outbox' = outbox /\ inserts' = inserts
      /\ jobs[j].state = "received" /\ jobs'[j].state = "submitting"
      /\ jobs'[j].recoveries = jobs[j].recoveries
      /\ \A k \in JobIds \ {j} : jobs'[k] = jobs[k]
  BY <1>1, <1>2, <1>3, ClaimEffect
<1>7. crossed' = crossed /\ interrupted' = interrupted /\ reported' = reported
  BY <1>1 DEF historyVars
<1>8. /\ jobs[j].recoveries \in Nat /\ crossed[j] \in Nat /\ Stored(j)
  BY <1>2, <1>3, <1>6 DEF StoreTypeOK, Row, Invariant, TypeOK, Stored
<1>9. crossed[j] <= jobs[j].recoveries
  <2>1. crossed[j] <= jobs[j].recoveries + 0
    BY <1>3, <1>6, <1>8 DEF Invariant, CopiesExplained
  <2>. QED
    BY <1>8, <2>1
<1>10. TypeOK'
  BY <1>1, <1>4, <1>6, <1>7 DEF Invariant, TypeOK, linkVars
<1>11. BooksOK'
  BY <1>6, <1>7, <1>8 DEF Invariant, BooksOK, Stored, PendingStates
<1>12. CopiesExplained'
  <2>1. ASSUME NEW k \in JobIds, Stored(k)'
        PROVE  crossed'[k] <= jobs'[k].recoveries
                 + (IF jobs'[k].state = "received" THEN 0 ELSE 1)
    <3>1. CASE k = j
      BY <1>6, <1>7, <1>8, <1>9, <3>1
    <3>2. CASE k # j
      BY <1>6, <1>7, <2>1, <3>2 DEF Invariant, CopiesExplained, Stored
    <3>. QED
      BY <3>1, <3>2
  <2>. QED
    BY <2>1 DEF CopiesExplained
<1>13. NoStatusLost'
  BY <1>6, <1>7 DEF Invariant, NoStatusLost
<1>14. KnownOK'
  <2>1. OutcomesStand
    BY <1>6, <1>7, <1>8 DEF OutcomesStand, Stored
  <2>2. \A m \in Status : Known(m)' => Known(m)
    <3>1. \A i \in 1 .. Len(task'[t].out) : Known(task'[t].out[i])
      BY <1>4, HeldIsKnown
    <3>. QED
      BY <1>4, <1>6, <1>7, <3>1, KnownUnlessHeld
  <2>. QED
    BY <2>1, <2>2, KnownStays DEF Invariant
<1>17. SnapshotOK(t)'
  <2>1. PendingStand
    BY <1>6 DEF PendingStand, PendingStates
  <2>. QED
    BY <1>1, <1>2, <1>4, <2>1, SnapshotStands DEF TaskOK, DrainLabels, TaskState
<1>15. TaskOK(t)'
  BY <1>1, <1>3, <1>4, <1>5, <1>6, <1>7, <1>9, <1>17
  DEF TaskOK, FlowLabels, LockLabels, EntryLabels, ClaimLabels
<1>16. ActiveOK'
  <2>1. activeLock' # Cancel
    BY <1>1, RuntimeAssumption DEF Cancel
  <2>2. ASSUME NEW k \in JobIds, active'[k] # "none" PROVE FALSE
    BY <1>1, <1>3, <2>2, EntryInFlow DEF EntryLabels
  <2>. QED
    BY <2>1, <2>2 DEF ActiveOK
<1>. QED
  BY <1>3, <1>4, <1>6, <1>7, <1>10, <1>11, <1>12, <1>13, <1>14, <1>15, <1>16, FlowStepKeeps

\* The map entry is made before the lock is released.
LEMMA RegisterKeeps ==
  ASSUME Invariant, NEW t \in Tasks, Register(t)
  PROVE  Invariant'
<1>. DEFINE j == Current(t)
<1>1. /\ task[t].pc = "register" /\ active' = [active EXCEPT ![j] = "running"]
      /\ activeLock' = Free /\ Go(t, "spool")
      /\ flow' = flow /\ outboxLock' = outboxLock /\ cancelJob' = cancelJob
      /\ UNCHANGED <<storeVars, linkVars, budget, historyVars>>
  BY DEF Register, At
<1>2. /\ task \in [Tasks -> TaskState] /\ TaskOK(t) /\ clock \in Nat
      /\ active \in [JobIds -> {"none", "running", "cancelling"}]
  BY DEF Invariant, TypeOK, TasksOK, StoreTypeOK
<1>3. /\ flow = t /\ task[t].queue # <<>> /\ jobs[j].state = "submitting"
      /\ crossed[j] <= jobs[j].recoveries
  BY <1>1, <1>2 DEF TaskOK, FlowLabels, LockLabels, ClaimLabels
<1>4. j \in JobIds
  BY <1>2, <1>3, CurrentRow DEF Current
<1>5. /\ task' \in [Tasks -> TaskState]
      /\ \A u \in Tasks \ {t} : task'[u] = task[u]
      /\ task'[t].pc = "spool" /\ task'[t].queue = task[t].queue
      /\ task'[t].out = task[t].out /\ task'[t].seen = task[t].seen
  BY <1>1, <1>2, GoStep DEF Labels
<1>6. Current(t)' = j
  BY <1>5 DEF Current
<1>. HIDE DEF j
<1>7. /\ jobs' = jobs /\ outbox' = outbox /\ inserts' = inserts /\ clock' = clock
      /\ crossed' = crossed /\ interrupted' = interrupted /\ reported' = reported
  BY <1>1 DEF storeVars, historyVars
<1>8. /\ StoreInvariant' /\ StoreTypeOK' /\ BooksOK' /\ CopiesExplained' /\ NoStatusLost'
      /\ OutcomesStand
  BY <1>2, <1>7, StoreStands DEF Invariant
<1>9. /\ active'[j] = "running" /\ \A k \in JobIds \ {j} : active'[k] = active[k]
      /\ active' \in [JobIds -> {"none", "running", "cancelling"}]
  BY <1>1, <1>2, <1>4
<1>10. TypeOK'
  BY <1>1, <1>5, <1>7, <1>8, <1>9 DEF Invariant, TypeOK, linkVars
<1>14. SnapshotOK(t)'
  <2>1. PendingStand
    BY <1>7 DEF PendingStand
  <2>. QED
    BY <1>1, <1>2, <1>5, <2>1, SnapshotStands DEF TaskOK, DrainLabels, TaskState
<1>11. TaskOK(t)'
  BY <1>1, <1>3, <1>5, <1>6, <1>7, <1>9, <1>14
  DEF TaskOK, FlowLabels, LockLabels, EntryLabels, ClaimLabels
<1>12. ActiveOK'
  <2>1. activeLock' # Cancel
    BY <1>1 DEF Free, Cancel
  <2>2. ASSUME NEW k \in JobIds, active'[k] # "none"
        PROVE  \E u \in Tasks : task'[u].pc \in EntryLabels /\ Current(u)' = k
    <3>1. CASE k = j
      BY <1>5, <1>6, <3>1 DEF EntryLabels
    <3>2. CASE k # j
      BY <1>1, <1>3, <1>9, <2>2, <3>2, EntryInFlow DEF EntryLabels
    <3>. QED
      BY <3>1, <3>2
  <2>. QED
    BY <2>1, <2>2 DEF ActiveOK
<1>13. KnownOK'
  <2>1. \A i \in 1 .. Len(task'[t].out) : Known(task'[t].out[i])
    BY <1>5, HeldIsKnown
  <2>2. \A m \in Status : Known(m)' => Known(m)
    BY <1>5, <1>7, <2>1, KnownUnlessHeld
  <2>. QED
    BY <1>8, <2>2, KnownStays DEF Invariant
<1>. QED
  BY <1>3, <1>5, <1>7, <1>8, <1>10, <1>11, <1>12, <1>13, FlowStepKeeps

\* The backend call: the one step that makes a copy, of a claimed row.
LEMMA SpoolKeeps ==
  ASSUME Invariant, NEW t \in Tasks, Spool(t)
  PROVE  Invariant'
<1>. DEFINE j == Current(t)
<1>1. PICK result \in {"ok", "error", "cancelled"}, copies \in {0, 1} :
        /\ task' = [task EXCEPT ![t].pc = "finish", ![t].result = result]
        /\ crossed' = [crossed EXCEPT ![j] = @ + copies]
  BY DEF Spool
<1>. DEFINE r == [task[t] EXCEPT !.pc = "finish", !.result = result]
<1>2. /\ task[t].pc = "spool" /\ flow' = flow /\ outboxLock' = outboxLock
      /\ UNCHANGED <<storeVars, activeVars, linkVars, budget, interrupted, reported>>
  BY DEF Spool, At
<1>3. /\ task \in [Tasks -> TaskState] /\ TaskOK(t) /\ clock \in Nat
      /\ crossed \in [JobIds -> Nat] /\ jobs \in [JobIds -> Row]
  BY DEF Invariant, TypeOK, TasksOK, StoreTypeOK
<1>4. /\ flow = t /\ task[t].queue # <<>> /\ jobs[j].state = "submitting"
      /\ active[j] # "none" /\ crossed[j] <= jobs[j].recoveries
  BY <1>2, <1>3 DEF TaskOK, FlowLabels, EntryLabels, ClaimLabels
<1>5. j \in JobIds
  BY <1>3, <1>4, CurrentRow DEF Current
<1>6. /\ r \in TaskState /\ r.pc = "finish" /\ r.queue = task[t].queue /\ r.out = task[t].out
      /\ r.seen = task[t].seen
  BY <1>3 DEF TaskState, Labels
<1>7. task' = [task EXCEPT ![t] = r]
  BY <1>1, <1>3
<1>. HIDE DEF r
<1>8. /\ task' \in [Tasks -> TaskState] /\ task'[t] = r
      /\ \A u \in Tasks \ {t} : task'[u] = task[u]
  BY <1>3, <1>6, <1>7, OneTaskMoves
<1>9. Current(t)' = j
  BY <1>6, <1>8 DEF Current
<1>. HIDE DEF j
<1>10. /\ crossed[j] \in Nat /\ jobs[j].recoveries \in Nat /\ crossed'[j] = crossed[j] + copies
       /\ crossed' \in [JobIds -> Nat] /\ \A k \in JobIds \ {j} : crossed'[k] = crossed[k]
  BY <1>1, <1>3, <1>5 DEF Row
<1>11. /\ jobs' = jobs /\ outbox' = outbox /\ inserts' = inserts /\ clock' = clock
       /\ reported' = reported /\ interrupted' = interrupted /\ active' = active
       /\ UNCHANGED activeVars
  BY <1>2 DEF storeVars, activeVars
<1>12. StoreInvariant' /\ StoreTypeOK'
  BY <1>11 DEF Invariant, StoreInvariant, StoreTypeOK, KeysUnique, ClaimsAccounted,
               PayloadKeptWhilePending, OutboxMatchesJobs, Stored
<1>13. BooksOK' /\ NoStatusLost'
  BY <1>11 DEF Invariant, BooksOK, NoStatusLost, Stored
<1>14. CopiesExplained'
  <2>1. ASSUME NEW k \in JobIds, Stored(k)'
        PROVE  crossed'[k] <= jobs'[k].recoveries
                 + (IF jobs'[k].state = "received" THEN 0 ELSE 1)
    <3>1. CASE k = j
      <4>1. crossed[j] + copies <= jobs[j].recoveries + 1
        BY <1>4, <1>10
      <4>. QED
        BY <1>4, <1>10, <1>11, <3>1, <4>1
    <3>2. CASE k # j
      BY <1>10, <1>11, <2>1, <3>2 DEF Invariant, CopiesExplained, Stored
    <3>. QED
      BY <3>1, <3>2
  <2>. QED
    BY <2>1 DEF CopiesExplained
<1>15. TypeOK'
  BY <1>2, <1>8, <1>10, <1>11, <1>12 DEF Invariant, TypeOK, linkVars, activeVars
<1>19. SnapshotOK(t)'
  <2>1. PendingStand
    BY <1>11 DEF PendingStand
  <2>. QED
    BY <1>2, <1>3, <1>6, <1>8, <2>1, SnapshotStands DEF TaskOK, DrainLabels, TaskState
<1>16. TaskOK(t)'
  BY <1>2, <1>4, <1>6, <1>8, <1>9, <1>11, <1>19
  DEF TaskOK, FlowLabels, LockLabels, EntryLabels, ClaimLabels
<1>17. ActiveOK'
  BY <1>6, <1>8, <1>11, ActiveStands DEF Invariant, EntryLabels
<1>18. KnownOK'
  <2>1. \A i \in 1 .. Len(task'[t].out) : Known(task'[t].out[i])
    BY <1>6, <1>8, HeldIsKnown
  <2>2. \A m \in Status : Known(m)' => Known(m)
    BY <1>8, <1>11, <2>1, KnownUnlessHeld
  <2>3. OutcomesStand
    BY <1>4, <1>10, <1>11 DEF OutcomesStand, Stored
  <2>. QED
    BY <2>2, <2>3, KnownStays DEF Invariant
<1>. QED
  BY <1>4, <1>8, <1>11, <1>12, <1>13, <1>14, <1>15, <1>16, <1>17, <1>18, FlowStepKeeps

\* What each of submit's three endings writes.
FinishWrites(t, requested, kinds, out) ==
  /\ TerminalTransition(Current(t), requested, kinds)
  /\ task' = [task EXCEPT ![t].pc = "unregister", ![t].out = @ \o out]

\* The terminal write under the active lock, in general.
LEMMA FinishWritesKeep ==
  ASSUME Invariant, NEW t \in Tasks, NEW requested \in TerminalStates,
         NEW kinds \in SUBSET StatusKinds, NEW out \in Seq(Status),
         task[t].pc = "finish", activeLock' = t, FinishWrites(t, requested, kinds, out),
         \A k, l \in kinds : k = l,
         \A k \in kinds : /\ requested = StateOf(k)
                          /\ k = "uncertain" => jobs[Current(t)].recoveries > 0
                          /\ k = "failed" => jobs[Current(t)].recoveries = 0,
         kinds = {} => requested = "cancelled",
         \A i \in 1 .. Len(out) : out[i] \in NewStatuses(Current(t), kinds),
         UNCHANGED <<flow, outboxLock, active, cancelJob, linkVars, budget, historyVars>>
  PROVE  Invariant'
<1>. DEFINE j == Current(t)
            r == [task[t] EXCEPT !.pc = "unregister", !.out = task[t].out \o out]
<1>1. /\ task \in [Tasks -> TaskState] /\ TaskOK(t) /\ StoreTypeOK
      /\ task[t].out \in Seq(Status)
  BY DEF Invariant, TypeOK, TasksOK, TaskState
<1>2. flow = t /\ task[t].queue # <<>>
  BY <1>1 DEF TaskOK, FlowLabels, EntryLabels
<1>3. j \in JobIds
  BY <1>1, <1>2, CurrentRow DEF Current
<1>4. task' = [task EXCEPT ![t] = r] /\ TerminalTransition(j, requested, kinds)
  BY <1>1 DEF FinishWrites
<1>5. task[t].out \o out \in Seq(Status)
  BY <1>1, ConcatProperties
<1>6. /\ r \in TaskState /\ r.pc = "unregister" /\ r.queue = task[t].queue
      /\ r.out = task[t].out \o out /\ r.seen = task[t].seen
  BY <1>1, <1>5 DEF TaskState, Labels
<1>. HIDE DEF r
<1>7. /\ task' \in [Tasks -> TaskState] /\ task'[t] = r
      /\ \A u \in Tasks \ {t} : task'[u] = task[u]
  BY <1>1, <1>4, <1>6, OneTaskMoves
<1>8. /\ crossed' = crossed /\ interrupted' = interrupted /\ reported' = reported
      /\ active' = active /\ flow' = flow
      /\ outboxLock' = outboxLock /\ cancelJob' = cancelJob /\ link' = link
      /\ recoveryDue' = recoveryDue /\ budget' = budget
  BY DEF historyVars, linkVars
<1>9. outbox' \subseteq outbox \cup NewStatuses(j, kinds)
  BY <1>1, <1>3, <1>4, TerminalEffect
<1>10. \A m \in Status : Known(m)' => Known(m) \/ m \in NewStatuses(j, kinds)
  BY <1>1, <1>6, <1>7, <1>8, <1>9, KnownUnlessNew
<1>11. /\ StoreTypeOK' /\ StoreInvariant' /\ BooksOK' /\ CopiesExplained' /\ NoStatusLost'
       /\ KnownOK' /\ PendingStand
  BY <1>3, <1>4, <1>8, <1>10, RowFinished
<1>12. TypeOK'
  BY <1>7, <1>8, <1>11 DEF Invariant, TypeOK
<1>15. SnapshotOK(t)'
  BY <1>1, <1>6, <1>7, <1>11, SnapshotStands DEF TaskOK, DrainLabels, TaskState
<1>13. TaskOK(t)'
  BY <1>2, <1>6, <1>7, <1>8, <1>15 DEF TaskOK, FlowLabels, LockLabels, EntryLabels, ClaimLabels
<1>14. ActiveOK'
  <2>1. activeLock' # Cancel
    BY RuntimeAssumption DEF Cancel
  <2>2. ASSUME NEW k \in JobIds, active'[k] # "none"
        PROVE  task'[t].pc \in EntryLabels /\ Current(t)' = k
    <3>1. Current(t) = k
      BY <1>2, <1>8, <2>2, EntryInFlow
    <3>. QED
      BY <1>6, <1>7, <3>1 DEF Current, EntryLabels
  <2>. QED
    BY <2>1, <2>2 DEF ActiveOK
<1>. QED
  BY <1>2, <1>7, <1>8, <1>11, <1>12, <1>13, <1>14, FlowStepKeeps

\* submit's second part.
LEMMA FinishKeeps ==
  ASSUME Invariant, NEW t \in Tasks, Finish(t)
  PROVE  Invariant'
<1>. DEFINE j == Current(t)
<1>1. /\ task[t].pc = "finish" /\ activeLock' = t
      /\ UNCHANGED <<flow, outboxLock, active, cancelJob, linkVars, budget, historyVars>>
      /\ \/ FinishWrites(t, "submitted", {"submitted"}, <<StatusOf(j, "submitted")>>)
         \/ FinishWrites(t, "cancelled", {}, <<>>)
         \/ FinishWrites(t, "failed", {FailureKind(t, j)}, <<StatusOf(j, FailureKind(t, j))>>)
  BY DEF Finish, At, FinishWrites, MarkSubmitted, MarkCancelled, MarkFailed
<1>2. /\ task \in [Tasks -> TaskState] /\ TaskOK(t) /\ StoreTypeOK
  BY DEF Invariant, TypeOK, TasksOK
<1>3. j \in JobIds
  BY <1>1, <1>2, CurrentRow DEF Current, TaskOK, EntryLabels
<1>10. task[t].seen[j] = jobs[j].recoveries
  BY <1>1, <1>2, CurrentSeen DEF TaskOK, DrainLabels, EntryLabels, ClaimLabels, PendingStates
<1>4. {"submitted", "failed", "cancelled"} = TerminalStates
  BY DEF TerminalStates
<1>5. ASSUME NEW kind \in StatusKinds
      PROVE  /\ <<StatusOf(j, kind)>> \in Seq(Status)
             /\ \A i \in 1 .. Len(<<StatusOf(j, kind)>>) :
                  <<StatusOf(j, kind)>>[i] \in NewStatuses(j, {kind})
  <2>. DEFINE m == StatusOf(j, kind)
  <2>1. m \in Status /\ NewStatuses(j, {kind}) = {m}
    BY <1>2, <1>3, StatusOfIsNew
  <2>. HIDE DEF m
  <2>2. <<m>> \in Seq(Status) /\ \A i \in 1 .. Len(<<m>>) : <<m>>[i] \in NewStatuses(j, {kind})
    BY <2>1
  <2>. QED
    BY <2>2 DEF m
<1>6. ASSUME NEW requested \in TerminalStates, NEW kind \in StatusKinds, StateOf(kind) = requested,
             kind = "uncertain" => jobs[j].recoveries > 0,
             kind = "failed" => jobs[j].recoveries = 0,
             FinishWrites(t, requested, {kind}, <<StatusOf(j, kind)>>)
      PROVE  Invariant'
  <2>. DEFINE kinds == {kind}
              out   == <<StatusOf(j, kind)>>
  <2>1. /\ kinds \in SUBSET StatusKinds /\ kinds # {} /\ \A k, l \in kinds : k = l
        /\ \A k \in kinds : /\ requested = StateOf(k)
                            /\ k = "uncertain" => jobs[j].recoveries > 0
                            /\ k = "failed" => jobs[j].recoveries = 0
    BY <1>6
  <2>2. out \in Seq(Status) /\ \A i \in 1 .. Len(out) : out[i] \in NewStatuses(j, kinds)
    BY <1>5
  <2>3. FinishWrites(t, requested, kinds, out)
    BY <1>6
  <2>. HIDE DEF kinds, out
  <2>. QED
    BY <1>1, <2>1, <2>2, <2>3, FinishWritesKeep
<1>7. CASE FinishWrites(t, "submitted", {"submitted"}, <<StatusOf(j, "submitted")>>)
  <2>1. "submitted" \in StatusKinds /\ StateOf("submitted") = "submitted"
    BY DEF StatusKinds, StateOf
  <2>. QED
    BY <1>4, <1>6, <1>7, <2>1
<1>8. CASE FinishWrites(t, "cancelled", {}, <<>>)
  <2>. DEFINE kinds == {}
              out   == <<>>
  <2>1. out \in Seq(Status) /\ \A i \in 1 .. Len(out) : out[i] \in NewStatuses(j, kinds)
    BY EmptySeq
  <2>2. /\ kinds \in SUBSET StatusKinds /\ \A k \in kinds : FALSE
        /\ FinishWrites(t, "cancelled", kinds, out)
    BY <1>8
  <2>. HIDE DEF kinds, out
  <2>. QED
    BY <1>1, <1>4, <2>1, <2>2, FinishWritesKeep
<1>9. CASE FinishWrites(t, "failed", {FailureKind(t, j)}, <<StatusOf(j, FailureKind(t, j))>>)
  <2>. DEFINE kind == FailureKind(t, j)
  <2>1. /\ kind \in StatusKinds /\ StateOf(kind) = "failed"
        /\ kind = "uncertain" => jobs[j].recoveries > 0
        /\ kind = "failed" => jobs[j].recoveries = 0
    BY <1>2, <1>3, <1>10, FailureKindFits
  <2>2. FinishWrites(t, "failed", {kind}, <<StatusOf(j, kind)>>)
    BY <1>9
  <2>. HIDE DEF kind
  <2>. QED
    BY <1>4, <1>6, <2>1, <2>2
<1>. QED
  BY <1>1, <1>7, <1>8, <1>9

\* The terminal write fails: the entry is still there, the row still claimed.
LEMMA LateFaultKeeps ==
  ASSUME Invariant, NEW t \in Tasks, Spend("fault"), task[t].pc = "finish", activeLock' = t,
         Go(t, "unregister_error"),
         UNCHANGED <<storeVars, flow, outboxLock, active, cancelJob, linkVars, historyVars>>
  PROVE  Invariant'
<1>1. /\ task \in [Tasks -> TaskState] /\ TaskOK(t) /\ clock \in Nat
      /\ budget \in [DOMAIN Budget -> Nat]
  BY DEF Invariant, TypeOK, TasksOK, StoreTypeOK
<1>2. flow = t /\ task[t].queue # <<>>
  BY <1>1 DEF TaskOK, FlowLabels, EntryLabels
<1>3. /\ task' \in [Tasks -> TaskState]
      /\ \A u \in Tasks \ {t} : task'[u] = task[u]
      /\ task'[t].pc = "unregister_error" /\ task'[t].queue = task[t].queue
      /\ task'[t].out = task[t].out /\ task'[t].seen = task[t].seen
  BY <1>1, GoStep DEF Labels
<1>4. /\ jobs' = jobs /\ outbox' = outbox /\ inserts' = inserts /\ clock' = clock
      /\ crossed' = crossed /\ interrupted' = interrupted /\ reported' = reported
      /\ flow' = flow /\ active' = active
  BY DEF storeVars, historyVars
<1>5. /\ StoreInvariant' /\ StoreTypeOK' /\ BooksOK' /\ CopiesExplained' /\ NoStatusLost'
      /\ OutcomesStand
  BY <1>1, <1>4, StoreStands DEF Invariant
<1>6. budget' \in [DOMAIN Budget -> Nat]
  BY <1>1, SpendType, BudgetKinds
<1>7. TypeOK'
  BY <1>3, <1>4, <1>5, <1>6 DEF Invariant, TypeOK, linkVars
<1>8. TaskOK(t)'
  BY <1>2, <1>3, <1>4 DEF TaskOK, FlowLabels, LockLabels, EntryLabels, ClaimLabels, DrainLabels
<1>9. ActiveOK'
  <2>1. activeLock' # Cancel
    BY RuntimeAssumption DEF Cancel
  <2>2. ASSUME NEW k \in JobIds, active'[k] # "none"
        PROVE  task'[t].pc \in EntryLabels /\ Current(t)' = k
    <3>1. Current(t) = k
      BY <1>2, <1>4, <2>2, EntryInFlow
    <3>. QED
      BY <1>3, <3>1 DEF Current, EntryLabels
  <2>. QED
    BY <2>1, <2>2 DEF ActiveOK
<1>10. KnownOK'
  <2>1. \A i \in 1 .. Len(task'[t].out) : Known(task'[t].out[i])
    BY <1>3, HeldIsKnown
  <2>2. \A m \in Status : Known(m)' => Known(m)
    BY <1>3, <1>4, <2>1, KnownUnlessHeld
  <2>. QED
    BY <1>5, <2>2, KnownStays DEF Invariant
<1>. QED
  BY <1>2, <1>3, <1>4, <1>5, <1>7, <1>8, <1>9, <1>10, FlowStepKeeps

\* A failing transaction, wherever it strikes.
LEMMA StorageFaultKeeps ==
  ASSUME Invariant, NEW t \in Tasks, StorageFault(t)
  PROVE  Invariant'
<1>1. /\ Spend("fault") /\ active' = active /\ cancelJob' = cancelJob
      /\ UNCHANGED <<storeVars, linkVars, historyVars>>
      /\ \/ AtTransaction(t) /\ Return(t) /\ activeLock' = activeLock
         \/ /\ task[t].pc = "finish" /\ activeLock' = t /\ Go(t, "unregister_error")
            /\ flow' = flow /\ outboxLock' = outboxLock
  BY DEF StorageFault, At
<1>2. CASE AtTransaction(t) /\ Return(t) /\ activeLock' = activeLock
  BY <1>1, <1>2, EarlyFaultQuiet, QuietMoveKeeps DEF activeVars
<1>3. CASE /\ task[t].pc = "finish" /\ activeLock' = t /\ Go(t, "unregister_error")
           /\ flow' = flow /\ outboxLock' = outboxLock
  BY <1>1, <1>3, LateFaultKeeps
<1>. QED
  BY <1>1, <1>2, <1>3

\* The entry goes, and with it the last one: only one submission runs.
LEMMA UnregisterKeeps ==
  ASSUME Invariant, NEW t \in Tasks, Unregister(t)
  PROVE  Invariant'
<1>. DEFINE j    == Current(t)
            rest == Tail(task[t].queue)
            r    == [task[t] EXCEPT !.pc = "next", !.queue = rest, !.result = "none"]
<1>1. /\ task[t].pc \in {"unregister", "unregister_error"}
      /\ active' = [active EXCEPT ![j] = "none"] /\ activeLock' = Free /\ cancelJob' = cancelJob
      /\ UNCHANGED <<storeVars, linkVars, budget, historyVars>>
      /\ \/ /\ task' = [task EXCEPT ![t].pc = "next", ![t].queue = Tail(@), ![t].result = "none"]
            /\ flow' = flow /\ outboxLock' = outboxLock /\ task[t].pc = "unregister"
         \/ Return(t)
  BY DEF Unregister, At
<1>2. /\ task \in [Tasks -> TaskState] /\ TaskOK(t) /\ clock \in Nat
      /\ active \in [JobIds -> {"none", "running", "cancelling"}]
      /\ flow \in Tasks \cup {Free} /\ outboxLock \in Tasks \cup {Free}
  BY DEF Invariant, TypeOK, TasksOK, StoreTypeOK
<1>3. flow = t /\ task[t].queue # <<>>
  BY <1>1, <1>2 DEF TaskOK, FlowLabels, EntryLabels
<1>4. j \in JobIds /\ rest \in Seq(JobIds)
  BY <1>2, <1>3, CurrentRow DEF Current
<1>5. /\ task' \in [Tasks -> TaskState]
      /\ \A u \in Tasks \ {t} : task'[u] = task[u]
      /\ \/ /\ task'[t].pc = "next" /\ flow' = t /\ task'[t].queue = Tail(task[t].queue)
            /\ task'[t].seen = task[t].seen /\ task[t].pc = "unregister"
         \/ task'[t].pc = "idle"
      /\ task'[t].out = task[t].out \/ task'[t].out = <<>>
      /\ flow' \in Tasks \cup {Free} /\ outboxLock' \in Tasks \cup {Free}
  <2>1. CASE Return(t)
    BY <1>2, <2>1, ReturnStep
  <2>2. CASE /\ task' = [task EXCEPT ![t].pc = "next", ![t].queue = Tail(@), ![t].result = "none"]
             /\ flow' = flow /\ outboxLock' = outboxLock /\ task[t].pc = "unregister"
    <3>1. task' = [task EXCEPT ![t] = r]
      BY <1>2, <2>2
    <3>. HIDE DEF rest
    <3>2. /\ r \in TaskState /\ r.pc = "next" /\ r.out = task[t].out
          /\ r.queue = rest /\ r.seen = task[t].seen
      <4>1. task[t] \in TaskState /\ rest \in Seq(JobIds)
        BY <1>2, <1>4
      <4>. QED
        BY <4>1 DEF TaskState, Labels
    <3>. HIDE DEF r
    <3>3. /\ task' \in [Tasks -> TaskState] /\ task'[t] = r
          /\ \A u \in Tasks \ {t} : task'[u] = task[u]
      BY <1>2, <3>1, <3>2, OneTaskMoves
    <3>. QED
      BY <1>2, <1>3, <2>2, <3>1, <3>2, <3>3 DEF rest
  <2>. QED
    BY <1>1, <2>1, <2>2
<1>6. /\ jobs' = jobs /\ outbox' = outbox /\ inserts' = inserts /\ clock' = clock
      /\ crossed' = crossed /\ interrupted' = interrupted /\ reported' = reported
  BY <1>1 DEF storeVars, historyVars
<1>7. /\ StoreInvariant' /\ StoreTypeOK' /\ BooksOK' /\ CopiesExplained' /\ NoStatusLost'
      /\ OutcomesStand
  BY <1>2, <1>6, StoreStands DEF Invariant
<1>8. active' \in [JobIds -> {"none", "running", "cancelling"}]
  BY <1>1, <1>2
<1>9. TypeOK'
  BY <1>1, <1>5, <1>6, <1>7, <1>8 DEF Invariant, TypeOK, linkVars
<1>10. TaskOK(t)'
  <2>1. /\ task'[t].pc \notin EntryLabels \cup LockLabels \cup ClaimLabels
        /\ task'[t].pc \notin {"deliver", "receipt_new", "receipt_dup", "ack"}
        /\ task'[t].pc \notin {"spool", "finish", "register"}
        /\ task'[t].pc \in FlowLabels => flow' = t
    BY <1>5 DEF FlowLabels, LockLabels, EntryLabels, ClaimLabels
  <2>2. task'[t].pc \in DrainLabels => SnapshotOK(t)'
    <3>1. CASE task'[t].pc = "idle"
      BY <3>1 DEF DrainLabels
    <3>2. CASE task'[t].pc # "idle"
      <4>1. PendingStand
        BY <1>6 DEF PendingStand
      <4>2. task[t].queue \in Seq(JobIds) /\ SnapshotOK(t)
        BY <1>2, <1>5, <3>2 DEF TaskOK, DrainLabels, TaskState
      <4>. QED
        BY <1>3, <1>5, <3>2, <4>1, <4>2, SnapshotStands
    <3>. QED
      BY <3>1, <3>2
  <2>. QED
    BY <2>1, <2>2 DEF TaskOK
<1>11. ActiveOK'
  <2>1. activeLock' # Cancel
    BY <1>1 DEF Free, Cancel
  <2>2. ASSUME NEW k \in JobIds, active'[k] # "none" PROVE FALSE
    <3>1. active'[j] = "none" /\ (k # j => active'[k] = active[k])
      BY <1>1, <1>2, <1>4
    <3>2. k # j /\ active[k] # "none"
      BY <2>2, <3>1
    <3>. HIDE DEF j
    <3>3. Current(flow) = k
      BY <3>2, EntryInFlow
    <3>. QED
      BY <1>3, <3>2, <3>3 DEF j
  <2>. QED
    BY <2>1, <2>2 DEF ActiveOK
<1>12. KnownOK'
  <2>1. \A i \in 1 .. Len(task'[t].out) : Known(task'[t].out[i])
    <3>1. CASE task'[t].out = task[t].out
      BY <3>1, HeldIsKnown
    <3>2. CASE task'[t].out = <<>>
      BY <3>2
    <3>. QED
      BY <1>5, <3>1, <3>2
  <2>2. \A m \in Status : Known(m)' => Known(m)
    BY <1>5, <1>6, <2>1, KnownUnlessHeld
  <2>. QED
    BY <1>7, <2>2, KnownStays DEF Invariant
<1>. QED
  BY <1>3, <1>5, <1>6, <1>7, <1>9, <1>10, <1>11, <1>12, FlowStepKeeps

-----------------------------------------------------------------------------
(* Reports.                                                                *)

\* A status is handed to the transport.
LEMMA SendKeeps ==
  ASSUME Invariant, NEW t \in Tasks, Send(t)
  PROVE  Invariant'
<1>. DEFINE h == Head(task[t].out)
<1>1. /\ task[t].pc = "send" /\ task[t].out # <<>> /\ reported' = reported \cup {h}
      /\ Go(t, "ack") /\ flow' = flow /\ outboxLock' = outboxLock
      /\ crossed' = crossed /\ interrupted' = interrupted /\ budget' = budget
      /\ UNCHANGED storeVars /\ UNCHANGED activeVars /\ UNCHANGED linkVars
  BY DEF Send, At
<1>2. /\ task \in [Tasks -> TaskState] /\ clock \in Nat /\ task[t].out \in Seq(Status)
      /\ active \in [JobIds -> {"none", "running", "cancelling"}]
  BY DEF Invariant, TypeOK, StoreTypeOK, TaskState
<1>3. /\ task' \in [Tasks -> TaskState]
      /\ \A u \in Tasks \ {t} : task'[u] = task[u]
      /\ task'[t].pc = "ack" /\ task'[t].out = task[t].out
  BY <1>1, <1>2, GoStep DEF Labels
<1>4. h \in Status /\ Known(h)
  <2>1. h \in Status /\ Len(task[t].out) \in Nat \ {0}
    BY <1>1, <1>2, HeadTailProperties, EmptySeq
  <2>2. 1 \in 1 .. Len(task[t].out) /\ h = task[t].out[1]
    BY <1>1, <1>2, <2>1
  <2>. HIDE DEF h
  <2>. QED
    BY <2>1, <2>2, HeldIsKnown
<1>5. task'[t].out # <<>> /\ Head(task'[t].out) \in reported'
  BY <1>1, <1>3
<1>. HIDE DEF h
<1>6. /\ jobs' = jobs /\ outbox' = outbox /\ inserts' = inserts /\ clock' = clock
      /\ active' = active /\ activeLock' = activeLock
  BY <1>1 DEF storeVars, activeVars
<1>7. /\ StoreInvariant' /\ StoreTypeOK' /\ BooksOK' /\ CopiesExplained' /\ NoStatusLost'
      /\ OutcomesStand
  BY <1>1, <1>2, <1>6, StoreStands DEF Invariant
<1>8. TypeOK'
  BY <1>1, <1>3, <1>4, <1>7 DEF Invariant, TypeOK, linkVars, activeVars
<1>9. ASSUME NEW u \in Tasks PROVE TaskOK(u)'
  <2>1. CASE u # t
    BY <1>1, <1>2, <1>3, <1>6, <2>1, Undisturbed DEF Invariant, TasksOK
  <2>2. CASE u = t
    BY <1>3, <1>5, <2>2 DEF TaskOK, FlowLabels, LockLabels, EntryLabels, ClaimLabels,
                                        DrainLabels
  <2>. QED
    BY <2>1, <2>2
<1>10. ActiveOK'
  BY <1>1, <1>3, ActiveStands DEF Invariant, EntryLabels
<1>11. KnownOK'
  <2>1. \A m \in Status : Known(m)' => Known(m)
    <3>. SUFFICES ASSUME NEW m \in Status, Known(m)' PROVE Known(m)
      OBVIOUS
    <3>1. CASE m \in outbox' \/ m \in reported'
      BY <1>1, <1>4, <1>6, <3>1 DEF Known
    <3>2. CASE \E u \in Tasks : InHand(u, m)'
      <4>1. PICK u \in Tasks : InHand(u, m)'
        BY <3>2
      <4>2. task'[u].out = task[u].out
        BY <1>3
      <4>. QED
        BY <4>1, <4>2 DEF InHand, Known
    <3>. QED
      BY <3>1, <3>2 DEF Known
  <2>. QED
    BY <1>7, <2>1, KnownStays DEF Invariant
<1>. QED
  BY <1>7, <1>8, <1>9, <1>10, <1>11 DEF Invariant, TasksOK

\* A status leaves the outbox only after it was handed over.
LEMMA AcknowledgeKeeps ==
  ASSUME Invariant, NEW t \in Tasks, Acknowledge(t)
  PROVE  Invariant'
<1>. DEFINE h    == Head(task[t].out)
            rest == Tail(task[t].out)
            r    == [task[t] EXCEPT !.pc = "send", !.out = rest]
<1>1. /\ task[t].pc = "ack" /\ outbox' = outbox \ {h} /\ jobs' = jobs /\ clock' = clock
      /\ inserts' = inserts /\ task' = [task EXCEPT ![t].pc = "send", ![t].out = Tail(@)]
      /\ flow' = flow /\ outboxLock' = outboxLock /\ crossed' = crossed
      /\ interrupted' = interrupted /\ reported' = reported
      /\ UNCHANGED activeVars /\ UNCHANGED linkVars /\ budget' = budget
  BY DEF Acknowledge, At, AcknowledgeOutboundStatus, historyVars
<1>2. /\ task \in [Tasks -> TaskState] /\ task[t].out \in Seq(Status)
      /\ active \in [JobIds -> {"none", "running", "cancelling"}] /\ TaskOK(t)
      /\ StoreTypeOK
  BY DEF Invariant, TypeOK, TaskState, TasksOK
<1>3. task[t].out # <<>> /\ h \in reported
  BY <1>1, <1>2 DEF TaskOK
<1>4. /\ rest \in Seq(Status) /\ Len(task[t].out) \in Nat /\ Len(rest) \in Nat
      /\ Len(rest) = Len(task[t].out) - 1
      /\ \A i \in 1 .. Len(rest) : rest[i] = task[t].out[i + 1]
  BY <1>2, <1>3, HeadTailProperties, LenProperties
<1>5. task' = [task EXCEPT ![t] = r]
  BY <1>1, <1>2
<1>. HIDE DEF rest
<1>6. r \in TaskState /\ r.pc = "send" /\ r.out = rest
  <2>1. task[t] \in TaskState /\ rest \in Seq(Status)
    BY <1>2, <1>4
  <2>. QED
    BY <2>1 DEF TaskState, Labels
<1>. HIDE DEF r, h
<1>7. /\ task' \in [Tasks -> TaskState] /\ task'[t] = r
      /\ \A u \in Tasks \ {t} : task'[u] = task[u]
  BY <1>2, <1>5, <1>6, OneTaskMoves
<1>8. StoreTypeOK' /\ StoreInvariant'
  <2>1. StoreTypeOK'
    BY <1>1, <1>2 DEF StoreTypeOK
  <2>2. KeysUnique' /\ ClaimsAccounted' /\ PayloadKeptWhilePending' /\ OutboxMatchesJobs'
    BY <1>1 DEF Invariant, StoreInvariant, KeysUnique, ClaimsAccounted, PayloadKeptWhilePending,
                OutboxMatchesJobs, Stored
  <2>. QED
    BY <2>1, <2>2 DEF StoreInvariant
<1>9. BooksOK'
  <2>1. IsFiniteSet(outbox')
    BY <1>1, FS_RemoveElement DEF Invariant, BooksOK
  <2>. QED
    BY <1>1, <2>1 DEF Invariant, BooksOK, Stored
<1>10. CopiesExplained' /\ OutcomesStand
  BY <1>1 DEF Invariant, CopiesExplained, OutcomesStand, Stored
<1>11. NoStatusLost'
  BY <1>1, <1>3 DEF Invariant, NoStatusLost
<1>12. TypeOK'
  BY <1>1, <1>7, <1>8 DEF Invariant, TypeOK, linkVars, activeVars
<1>13. ASSUME NEW u \in Tasks PROVE TaskOK(u)'
  <2>1. CASE u # t
    BY <1>1, <1>2, <1>7, <2>1, Undisturbed DEF Invariant, TasksOK, activeVars
  <2>2. CASE u = t
    BY <1>6, <1>7, <2>2 DEF TaskOK, FlowLabels, LockLabels, EntryLabels, ClaimLabels,
                                        DrainLabels
  <2>. QED
    BY <2>1, <2>2
<1>14. ActiveOK'
  BY <1>1, <1>6, <1>7, ActiveStands DEF Invariant, EntryLabels
<1>15. KnownOK'
  <2>1. ASSUME NEW i \in 1 .. Len(task'[t].out) PROVE Known(task'[t].out[i])
    <3>1. i + 1 \in 1 .. Len(task[t].out) /\ task'[t].out[i] = task[t].out[i + 1]
      BY <1>4, <1>6, <1>7
    <3>. QED
      BY <3>1, HeldIsKnown
  <2>2. \A m \in Status : Known(m)' => Known(m)
    BY <1>1, <1>7, <2>1, KnownUnlessHeld
  <2>. QED
    BY <1>10, <2>2, KnownStays DEF Invariant
<1>. QED
  BY <1>8, <1>9, <1>10, <1>11, <1>12, <1>13, <1>14, <1>15 DEF Invariant, TasksOK

-----------------------------------------------------------------------------
(* Recovery, cancellation and restart.                                     *)

\* recover_interrupted runs with flow_lock, so no submission is under way: a
\* claimed row is one that a failed write or a crash left behind.
LEMMA RecoverKeeps ==
  ASSUME Invariant, NEW t \in Tasks, Recover(t)
  PROVE  Invariant'
<1>1. /\ task[t].pc = "recover" /\ flow = Free /\ flow' = t /\ Go(t, "list")
      /\ RecoverInterrupted /\ CountInterrupted /\ jobs' = Recovered(jobs)
      /\ outbox' = outbox /\ clock' = clock
      /\ inserts' = inserts /\ outboxLock' = outboxLock /\ crossed' = crossed
      /\ reported' = reported /\ UNCHANGED activeVars /\ UNCHANGED linkVars /\ budget' = budget
  BY DEF Recover, At, RecoverInterrupted
<1>2. /\ task \in [Tasks -> TaskState] /\ jobs \in [JobIds -> Row] /\ StoreTypeOK /\ StoreInvariant
      /\ clock \in Nat /\ crossed \in [JobIds -> Nat] /\ interrupted \in [JobIds -> Nat]
  BY DEF Invariant, TypeOK, StoreTypeOK
<1>3. /\ task' \in [Tasks -> TaskState]
      /\ \A u \in Tasks \ {t} : task'[u] = task[u]
      /\ task'[t].pc = "list" /\ task'[t].out = task[t].out
  BY <1>1, <1>2, GoStep DEF Labels
<1>4. StoreTypeOK' /\ StoreInvariant'
  <2>1. StoreTypeOK'
    BY <1>1, <1>2, RecoveredType DEF StoreTypeOK
  <2>. QED
    BY <1>1, <1>2, <2>1, RecoverKeepsInvariant
<1>5. \A k \in JobIds :
        \/ jobs[k].state # "submitting" /\ jobs'[k] = jobs[k]
        \/ /\ jobs[k].state = "submitting" /\ jobs'[k].state = "received"
           /\ jobs'[k].recoveries = jobs[k].recoveries + 1
  BY <1>1, <1>2, RecoveredFields
<1>12. /\ interrupted' \in [JobIds -> Nat]
       /\ \A k \in JobIds : jobs[k].state # "submitting" => interrupted'[k] = interrupted[k]
  BY <1>1, <1>2 DEF CountInterrupted
<1>13. ASSUME NEW k \in JobIds, jobs'[k].state \in PendingStates, jobs'[k].recoveries = 0
       PROVE  interrupted'[k] = 0
  <2>1. jobs[k].recoveries \in Nat
    BY <1>2 DEF Row
  <2>2. jobs[k].state # "submitting" /\ jobs'[k] = jobs[k]
    BY <1>5, <1>13, <2>1
  <2>. QED
    BY <1>12, <1>13, <2>2 DEF Invariant, BooksOK
<1>6. BooksOK' /\ OutcomesStand /\ NoStatusLost'
  <2>1. BooksOK'
    BY <1>1, <1>5, <1>13 DEF Invariant, BooksOK, Stored
  <2>2. OutcomesStand /\ NoStatusLost'
    BY <1>1, <1>5, <1>12 DEF Invariant, OutcomesStand, NoStatusLost, Stored
  <2>. QED
    BY <2>1, <2>2
<1>7. CopiesExplained'
  <2>1. ASSUME NEW k \in JobIds, Stored(k)'
        PROVE  crossed'[k] <= jobs'[k].recoveries
                 + (IF jobs'[k].state = "received" THEN 0 ELSE 1)
    <3>1. CASE jobs[k].state # "submitting" /\ jobs'[k] = jobs[k]
      BY <1>1, <2>1, <3>1 DEF Invariant, CopiesExplained, Stored
    <3>2. CASE /\ jobs[k].state = "submitting" /\ jobs'[k].state = "received"
               /\ jobs'[k].recoveries = jobs[k].recoveries + 1
      <4>1. crossed[k] <= jobs[k].recoveries + 1
        BY <3>2 DEF Invariant, CopiesExplained, Stored
      <4>2. crossed[k] \in Nat /\ jobs[k].recoveries \in Nat
        BY <1>2 DEF Row
      <4>. QED
        BY <1>1, <3>2, <4>1, <4>2
    <3>. QED
      BY <1>5, <3>1, <3>2
  <2>. QED
    BY <2>1 DEF CopiesExplained
<1>8. TypeOK'
  BY <1>1, <1>3, <1>4, <1>12 DEF Invariant, TypeOK, linkVars, activeVars
<1>9. ASSUME NEW u \in Tasks PROVE TaskOK(u)'
  <2>1. CASE u # t
    <3>1. flow # u
      BY <1>1, RuntimeAssumption DEF Free
    <3>. QED
      BY <1>1, <1>3, <2>1, <3>1, OutsideFlow DEF Invariant, TasksOK
  <2>2. CASE u = t
    BY <1>1, <1>3, <2>2 DEF TaskOK, FlowLabels, LockLabels, EntryLabels, ClaimLabels,
                                        DrainLabels
  <2>. QED
    BY <2>1, <2>2
<1>10. ActiveOK'
  BY <1>1, <1>3, ActiveStands DEF Invariant, EntryLabels
<1>11. KnownOK'
  <2>1. \A i \in 1 .. Len(task'[t].out) : Known(task'[t].out[i])
    BY <1>3, HeldIsKnown
  <2>2. \A m \in Status : Known(m)' => Known(m)
    BY <1>1, <1>3, <2>1, KnownUnlessHeld
  <2>. QED
    BY <1>6, <2>2, KnownStays DEF Invariant
<1>. QED
  BY <1>4, <1>6, <1>7, <1>8, <1>9, <1>10, <1>11 DEF Invariant, TasksOK

\* A cancellation reaches the token of a running submission, or takes the
\* lock for a job that has none.
LEMMA RequestCancelKeeps ==
  ASSUME Invariant, NEW j \in JobIds, RequestCancel(j)
  PROVE  Invariant'
<1>1. /\ activeLock = Free /\ Spend("cancel")
      /\ \/ /\ active[j] # "none" /\ active' = [active EXCEPT ![j] = "cancelling"]
            /\ activeLock' = activeLock /\ cancelJob' = cancelJob
         \/ /\ active[j] = "none" /\ activeLock' = Cancel /\ cancelJob' = j /\ active' = active
      /\ jobs' = jobs /\ outbox' = outbox /\ clock' = clock /\ inserts' = inserts
      /\ task' = task /\ flow' = flow /\ outboxLock' = outboxLock
      /\ crossed' = crossed /\ interrupted' = interrupted /\ reported' = reported
      /\ UNCHANGED linkVars
  BY DEF RequestCancel, InActiveMap, storeVars, taskVars, historyVars
<1>2. /\ task \in [Tasks -> TaskState] /\ clock \in Nat /\ budget \in [DOMAIN Budget -> Nat]
      /\ active \in [JobIds -> {"none", "running", "cancelling"}]
      /\ cancelJob \in JobIds \cup {NoJob}
  BY DEF Invariant, TypeOK, StoreTypeOK
<1>3. /\ StoreInvariant' /\ StoreTypeOK' /\ BooksOK' /\ CopiesExplained' /\ NoStatusLost'
      /\ OutcomesStand
  BY <1>1, <1>2, StoreStands DEF Invariant
<1>4. /\ active' \in [JobIds -> {"none", "running", "cancelling"}]
      /\ \A k \in JobIds : active[k] # "none" <=> active'[k] # "none"
      /\ activeLock' \in {Free, Cancel} /\ cancelJob' \in JobIds \cup {NoJob}
      /\ activeLock' = Cancel => cancelJob' \in JobIds /\ active'[cancelJob'] = "none"
  BY <1>1, <1>2 DEF Free, Cancel
<1>5. budget' \in [DOMAIN Budget -> Nat]
  BY <1>1, <1>2, SpendType, BudgetKinds
<1>6. TypeOK'
  BY <1>1, <1>3, <1>4, <1>5 DEF Invariant, TypeOK, linkVars
<1>7. TasksOK'
  <2>1. \A u \in Tasks : activeLock # u
    BY <1>1, RuntimeAssumption DEF Free
  <2>. QED
    BY <1>1, <1>2, <1>4, <2>1, Undisturbed DEF Invariant, TasksOK
<1>8. ActiveOK'
  <2>1. \A k \in JobIds : active'[k] # "none" =>
          \E t \in Tasks : task'[t].pc \in EntryLabels /\ Current(t)' = k
    BY <1>1, <1>4 DEF Invariant, ActiveOK, Current
  <2>. QED
    BY <1>4, <2>1 DEF ActiveOK
<1>9. KnownOK'
  <2>1. \A m \in Status : Known(m)' => Known(m)
    BY <1>1 DEF Known, InHand
  <2>. QED
    BY <1>3, <2>1, KnownStays DEF Invariant
<1>. QED
  BY <1>3, <1>6, <1>7, <1>8, <1>9 DEF Invariant

\* cancel_job ends a row that is not being submitted: a task that is about to
\* register holds the lock, and one that works on a row has it in the map.
LEMMA CancelSparesClaims ==
  ASSUME Invariant, activeLock = Cancel, MarkCancelled(cancelJob), NEW u \in Tasks,
         task' = task, flow' = flow, active' = active, crossed' = crossed, PendingStand,
         reported' = reported
  PROVE  TaskOK(u)'
<1>. DEFINE c == cancelJob
<1>1. /\ c \in JobIds /\ active[c] = "none" /\ TaskOK(u) /\ StoreTypeOK
      /\ task \in [Tasks -> TaskState]
  BY DEF Invariant, ActiveOK, TasksOK, TypeOK
<1>2. activeLock # u
  BY RuntimeAssumption DEF Cancel
<1>3. {} \in SUBSET StatusKinds /\ "cancelled" \in TerminalStates
  BY DEF TerminalStates
<1>4. /\ inserts' = inserts
      /\ jobs'[c].key = jobs[c].key /\ jobs'[c].sha = jobs[c].sha
      /\ jobs'[c].state # "absent" /\ jobs[c].state # "absent"
      /\ \A k \in JobIds \ {c} :
           \/ jobs'[k].state = "absent" /\ jobs[k].state \in TerminalStates
           \/ RowKept(k)
  BY <1>1, <1>3, TerminalEffect DEF MarkCancelled, PendingStates
<1>5. Current(u)' = Current(u)
  BY DEF Current
<1>6. ASSUME task[u].pc \in ClaimLabels
      PROVE  /\ jobs'[Current(u)].state = "submitting"
             /\ jobs'[Current(u)].recoveries = jobs[Current(u)].recoveries
  <2>1. task[u].pc \in {"spool", "finish"}
    BY <1>1, <1>2, <1>6 DEF TaskOK, ClaimLabels, LockLabels
  <2>2. /\ active[Current(u)] # "none" /\ jobs[Current(u)].state = "submitting"
        /\ task[u].queue # <<>>
    BY <1>1, <1>6, <2>1 DEF TaskOK, EntryLabels
  <2>3. Current(u) \in JobIds \ {c}
    BY <1>1, <2>2, CurrentRow DEF Current
  <2>. HIDE DEF c
  <2>. QED
    BY <1>4, <2>2, <2>3 DEF RowKept, TerminalStates
<1>7. ASSUME task[u].pc \in {"receipt_new", "receipt_dup"}
      PROVE  ReceiptBacked(u)'
  <2>. DEFINE d == task[u].d
  <2>1. ReceiptBacked(u) /\ d.job \in JobIds
    BY <1>1, <1>7, DeliveryAssumption DEF TaskOK
  <2>2. \/ jobs'[d.job].state = "absent"
        \/ /\ jobs[d.job].state # "absent"
           /\ jobs'[d.job].key = jobs[d.job].key /\ jobs'[d.job].sha = jobs[d.job].sha
    BY <1>4, <2>1 DEF RowKept
  <2>. QED
    BY <1>4, <2>1, <2>2 DEF ReceiptBacked, Stored
<1>8. task[u].pc \notin LockLabels
  BY <1>1, <1>2 DEF TaskOK
<1>9. task[u].pc \in {"register", "spool"} => task[u].pc \in ClaimLabels
  BY DEF ClaimLabels
<1>10. task[u].pc \in DrainLabels => SnapshotOK(u)'
  BY <1>1, SnapshotStands DEF TaskOK, TaskState
<1>. QED
  BY <1>1, <1>5, <1>6, <1>7, <1>8, <1>9, <1>10 DEF TaskOK

\* The cancellation that holds the lock finishes.
LEMMA FinishCancelKeeps ==
  ASSUME Invariant, FinishCancel
  PROVE  Invariant'
<1>1. /\ activeLock = Cancel /\ activeLock' = Free /\ cancelJob' = NoJob /\ active' = active
      /\ MarkCancelled(cancelJob) \/ UNCHANGED storeVars
      /\ task' = task /\ flow' = flow /\ outboxLock' = outboxLock /\ UNCHANGED linkVars
      /\ budget' = budget /\ crossed' = crossed /\ interrupted' = interrupted
      /\ reported' = reported
  BY DEF FinishCancel, taskVars, historyVars
<1>2. /\ task \in [Tasks -> TaskState] /\ clock \in Nat /\ cancelJob \in JobIds
      /\ active \in [JobIds -> {"none", "running", "cancelling"}]
  BY <1>1 DEF Invariant, TypeOK, StoreTypeOK, ActiveOK
<1>3. ActiveOK'
  <2>1. activeLock' # Cancel
    BY <1>1 DEF Free, Cancel
  <2>2. \A k \in JobIds : active'[k] # "none" =>
          \E t \in Tasks : task'[t].pc \in EntryLabels /\ Current(t)' = k
    BY <1>1 DEF Invariant, ActiveOK, Current
  <2>. QED
    BY <2>1, <2>2 DEF ActiveOK
<1>4. CASE UNCHANGED storeVars
  <2>1. jobs' = jobs /\ outbox' = outbox /\ inserts' = inserts /\ clock' = clock
    BY <1>4 DEF storeVars
  <2>2. /\ StoreInvariant' /\ StoreTypeOK' /\ BooksOK' /\ CopiesExplained' /\ NoStatusLost'
        /\ OutcomesStand
    BY <1>1, <1>2, <2>1, StoreStands DEF Invariant
  <2>3. TypeOK'
    BY <1>1, <2>2 DEF Invariant, TypeOK, linkVars
  <2>4. TasksOK'
    <3>1. \A u \in Tasks : activeLock # u
      BY <1>1, RuntimeAssumption DEF Cancel
    <3>. QED
      BY <1>1, <1>2, <2>1, <3>1, Undisturbed DEF Invariant, TasksOK
  <2>5. \A m \in Status : Known(m)' => Known(m)
    BY <1>1, <2>1 DEF Known, InHand
  <2>6. KnownOK'
    BY <2>2, <2>5, KnownStays DEF Invariant
  <2>. QED
    BY <1>3, <2>2, <2>3, <2>4, <2>6 DEF Invariant
<1>5. CASE MarkCancelled(cancelJob)
  <2>. DEFINE kinds == {}
  <2>1. /\ TerminalTransition(cancelJob, "cancelled", kinds) /\ "cancelled" \in TerminalStates
        /\ kinds \in SUBSET StatusKinds /\ \A k \in kinds : FALSE
        /\ NewStatuses(cancelJob, kinds) = {}
    BY <1>5 DEF MarkCancelled, TerminalStates, NewStatuses
  <2>. HIDE DEF kinds
  <2>2. outbox' \subseteq outbox
    BY <1>2, <2>1, TerminalEffect DEF Invariant, TypeOK
  <2>3. \A m \in Status : Known(m)' => Known(m)
    BY <1>1, <2>2 DEF Known, InHand
  <2>4. /\ StoreTypeOK' /\ StoreInvariant' /\ BooksOK' /\ CopiesExplained' /\ NoStatusLost'
        /\ KnownOK' /\ PendingStand
    BY <1>1, <1>2, <2>1, <2>3, RowFinished
  <2>5. TypeOK'
    BY <1>1, <2>4 DEF Invariant, TypeOK, linkVars
  <2>6. TasksOK'
    BY <1>1, <1>5, <2>4, CancelSparesClaims DEF TasksOK
  <2>. QED
    BY <1>3, <2>4, <2>5, <2>6 DEF Invariant
<1>. QED
  BY <1>1, <1>4, <1>5

\* A crash and a restart: claimed rows go back and are counted, and what was
\* not acknowledged is still in the outbox.
LEMMA RestartKeeps ==
  ASSUME Invariant, Restart
  PROVE  Invariant'
<1>1. /\ Spend("crash") /\ Open /\ task' = [t \in Tasks |-> IdleTask]
      /\ flow' = Free /\ outboxLock' = Free /\ activeLock' = Free
      /\ active' = [j \in JobIds |-> "none"] /\ cancelJob' = NoJob
      /\ link' = "down" /\ recoveryDue' = FALSE /\ crossed' = crossed
      /\ CountInterrupted /\ reported' = reported
  BY DEF Restart
<1>2. /\ StoreTypeOK /\ StoreInvariant /\ jobs \in [JobIds -> Row] /\ clock \in Nat
      /\ outbox \subseteq Status /\ crossed \in [JobIds -> Nat]
      /\ interrupted \in [JobIds -> Nat]
      /\ budget \in [DOMAIN Budget -> Nat]
  BY DEF Invariant, TypeOK, StoreTypeOK
<1>3. StoreTypeOK' /\ StoreInvariant'
  <2>1. Retained(jobs, {}) \in [JobIds -> Row]
    BY <1>2, RetainedType
  <2>2. StoreTypeOK'
    BY <1>1, <1>2, <2>1, RecoveredType DEF StoreTypeOK, Open, OutboxRetained
  <2>. QED
    BY <1>1, <1>2, <2>2, OpenKeepsInvariant
<1>4. /\ inserts' = inserts
      /\ \A k \in JobIds :
           \/ jobs'[k].state = "absent" /\ jobs[k].state \in TerminalStates
           \/ jobs[k].state # "submitting" /\ RowKept(k)
           \/ /\ jobs[k].state = "submitting" /\ jobs'[k].state = "received"
              /\ jobs'[k].recoveries = jobs[k].recoveries + 1
      /\ outbox' \subseteq outbox
      /\ \A m \in outbox : jobs'[m.job].state # "absent" => m \in outbox'
  BY <1>1, <1>2, OpenEffect
<1>15. /\ interrupted' \in [JobIds -> Nat]
       /\ \A k \in JobIds : jobs[k].state # "submitting" => interrupted'[k] = interrupted[k]
  BY <1>1, <1>2 DEF CountInterrupted
<1>5. BooksOK'
  <2>1. outbox' \in SUBSET outbox /\ IsFiniteSet(outbox)
    BY <1>4 DEF Invariant, BooksOK
  <2>2. IsFiniteSet(outbox')
    BY <2>1, FS_Subset
  <2>3. \A k \in JobIds : Stored(k)' => Stored(k)
    BY <1>4 DEF RowKept, Stored
  <2>4. ASSUME NEW k \in JobIds, jobs'[k].state \in PendingStates, jobs'[k].recoveries = 0
        PROVE  interrupted'[k] = 0
    <3>1. jobs[k].recoveries \in Nat /\ "absent" \notin PendingStates
      BY <1>2 DEF Row, PendingStates
    <3>2. jobs[k].state # "submitting" /\ RowKept(k)
      BY <1>4, <2>4, <3>1
    <3>. QED
      BY <1>15, <2>4, <3>2 DEF Invariant, BooksOK, RowKept
  <2>. QED
    BY <1>4, <2>2, <2>3, <2>4 DEF Invariant, BooksOK
<1>6. OutcomesStand
  BY <1>1, <1>4, <1>15 DEF OutcomesStand, RowKept, Stored
<1>7. CopiesExplained'
  <2>1. ASSUME NEW k \in JobIds, Stored(k)'
        PROVE  crossed'[k] <= jobs'[k].recoveries
                 + (IF jobs'[k].state = "received" THEN 0 ELSE 1)
    <3>1. CASE jobs[k].state # "submitting" /\ RowKept(k)
      BY <1>1, <2>1, <3>1 DEF Invariant, CopiesExplained, Stored, RowKept
    <3>2. CASE /\ jobs[k].state = "submitting" /\ jobs'[k].state = "received"
               /\ jobs'[k].recoveries = jobs[k].recoveries + 1
      <4>1. crossed[k] <= jobs[k].recoveries + 1
        BY <3>2 DEF Invariant, CopiesExplained, Stored
      <4>2. crossed[k] \in Nat /\ jobs[k].recoveries \in Nat
        BY <1>2 DEF Row
      <4>. QED
        BY <1>1, <3>2, <4>1, <4>2
    <3>. QED
      BY <1>4, <2>1, <3>1, <3>2 DEF Stored
  <2>. QED
    BY <2>1 DEF CopiesExplained
<1>8. NoStatusLost'
  <2>1. \A k \in JobIds : jobs'[k].state \in {"submitted", "failed"} =>
          jobs'[k].state = jobs[k].state /\ jobs'[k].sha = jobs[k].sha
    BY <1>4 DEF RowKept
  <2>2. \A m \in outbox : m.job \in JobIds /\ jobs'[m.job].state # "absent" =>
          m \in outbox' \cup reported'
    BY <1>4
  <2>. QED
    BY <1>1, <1>4, <2>1, <2>2, StatusesStand DEF Invariant, NoStatusLost
<1>9. budget' \in [DOMAIN Budget -> Nat]
  BY <1>1, <1>2, SpendType, BudgetKinds
<1>10. TypeOK'
  <2>1. task' \in [Tasks -> TaskState]
    BY <1>1, IdleTaskType
  <2>. QED
    BY <1>1, <1>3, <1>9, <1>15, <2>1 DEF Invariant, TypeOK
<1>11. \A t \in Tasks : task'[t].pc = "idle" /\ task'[t].out = <<>>
  BY <1>1, IdleTaskType
<1>12. TasksOK'
  BY <1>11 DEF TasksOK, TaskOK, FlowLabels, LockLabels, EntryLabels, ClaimLabels,
                  DrainLabels
<1>13. ActiveOK'
  <2>1. activeLock' # Cancel /\ \A j \in JobIds : active'[j] = "none"
    BY <1>1 DEF Free, Cancel
  <2>. QED
    BY <2>1 DEF ActiveOK
<1>14. KnownOK'
  <2>1. \A m \in Status : Known(m)' => Known(m)
    BY <1>1, <1>4, <1>11 DEF Known, InHand
  <2>. QED
    BY <1>6, <2>1, KnownStays DEF Invariant
<1>. QED
  BY <1>3, <1>5, <1>7, <1>8, <1>10, <1>12, <1>13, <1>14 DEF Invariant

-----------------------------------------------------------------------------
(* The theorems.                                                           *)

\* The process starts with idle tasks, and with rows an earlier run left queued.
LEMMA InvariantInit == Init => Invariant
<1>. SUFFICES ASSUME Init PROVE Invariant
  OBVIOUS
<1>1. /\ StoreInit /\ task = [t \in Tasks |-> IdleTask]
      /\ flow = Free /\ outboxLock = Free /\ activeLock = Free
      /\ active = [j \in JobIds |-> "none"] /\ cancelJob = NoJob
      /\ link = "down" /\ recoveryDue = FALSE /\ budget = Budget
      /\ crossed = [j \in JobIds |-> 0] /\ interrupted = [j \in JobIds |-> 0]
      /\ reported = {} /\ outbox = {}
  BY DEF Init, StoreInit
<1>2. StoreInvariant /\ StoreTypeOK
  BY <1>1, StoreInvariantInit DEF StoreInvariant
<1>3. TypeOK
  <2>1. task \in [Tasks -> TaskState]
    BY <1>1, IdleTaskType
  <2>2. budget \in [DOMAIN Budget -> Nat]
    BY <1>1, RuntimeAssumption
  <2>. QED
    BY <1>1, <1>2, <2>1, <2>2 DEF TypeOK
<1>4. ASSUME NEW j \in JobIds
      PROVE  /\ jobs[j].state = "absent" \/ (jobs[j].state = "received" /\ inserts[j] > 0)
             /\ jobs[j].recoveries \in Nat /\ crossed[j] = 0
  <2>1. jobs[j].recoveries \in Nat /\ crossed[j] = 0
    BY <1>1, <1>2 DEF StoreTypeOK, Row
  <2>2. CASE \E d \in Legacy : d.job = j
    BY <1>1, <2>1, <2>2 DEF StoreInit, NewRow
  <2>3. CASE ~ \E d \in Legacy : d.job = j
    BY <1>1, <2>1, <2>3 DEF StoreInit, NoRow
  <2>. QED
    BY <2>2, <2>3
<1>5. BooksOK
  BY <1>1, <1>4, FS_EmptySet DEF BooksOK, Stored
<1>6. \A t \in Tasks : task[t].pc = "idle" /\ task[t].out = <<>>
  BY <1>1, IdleTaskType
<1>7. TasksOK
  BY <1>6 DEF TasksOK, TaskOK, FlowLabels, LockLabels, EntryLabels, ClaimLabels,
                  DrainLabels
<1>8. ActiveOK
  BY <1>1 DEF ActiveOK, Free, Cancel
<1>9. KnownOK
  <2>1. \A m \in Status : ~Known(m)
    BY <1>1, <1>6 DEF Known, InHand
  <2>. QED
    BY <2>1 DEF KnownOK
<1>10. CopiesExplained
  <2>1. ASSUME NEW j \in JobIds
        PROVE  crossed[j] <= jobs[j].recoveries + (IF jobs[j].state = "received" THEN 0 ELSE 1)
    BY <1>4
  <2>. QED
    BY <2>1 DEF CopiesExplained
<1>11. NoStatusLost
  BY <1>4 DEF NoStatusLost
<1>. QED
  BY <1>2, <1>3, <1>5, <1>7, <1>8, <1>9, <1>10, <1>11 DEF Invariant

\* Every step of a running task keeps the invariant.
LEMMA TaskStepKeeps ==
  ASSUME Invariant, NEW t \in Tasks, TaskStep(t)
  PROVE  Invariant'
<1>1. CASE Receive(t)
  BY <1>1, ReceiveNewKeeps, ReceiveRefusedQuiet, QuietMoveKeeps
<1>2. CASE SendReceipt(t)
  BY <1>2, SendReceiptQuiet, QuietMoveKeeps
<1>3. CASE Drain(t)
  BY <1>3, DrainQuiet, QuietMoveKeeps
<1>4. CASE FailBeforeClaim(t)
  BY <1>4, FailBeforeClaimKeeps
<1>5. CASE Claim(t)
  BY <1>5, ClaimKeeps, ClaimRefusedQuiet, QuietMoveKeeps
<1>6. CASE Register(t)
  BY <1>6, RegisterKeeps
<1>7. CASE Spool(t)
  BY <1>7, SpoolKeeps
<1>8. CASE Finish(t)
  BY <1>8, FinishKeeps
<1>9. CASE Unregister(t)
  BY <1>9, UnregisterKeeps
<1>10. CASE EndDrain(t)
  BY <1>10, EndDrainQuiet, QuietMoveKeeps
<1>11. CASE Send(t)
  BY <1>11, SendKeeps
<1>12. CASE Acknowledge(t)
  BY <1>12, AcknowledgeKeeps
<1>13. CASE EndSend(t)
  BY <1>13, EndSendQuiet, QuietMoveKeeps
<1>14. CASE Replay(t)
  BY <1>14, ReplayQuiet, QuietMoveKeeps
<1>15. CASE Recover(t)
  BY <1>15, RecoverKeeps
<1>16. CASE ListReceipts(t)
  BY <1>16, ListReceiptsQuiet, QuietMoveKeeps
<1>17. CASE SendPendingReceipt(t)
  BY <1>17, SendPendingReceiptQuiet, QuietMoveKeeps
<1>18. CASE EndReceipts(t)
  BY <1>18, EndReceiptsQuiet, QuietMoveKeeps
<1>. QED
  BY <1>1, <1>2, <1>3, <1>4, <1>5, <1>6, <1>7, <1>8, <1>9, <1>10, <1>11, <1>12, <1>13,
     <1>14, <1>15, <1>16, <1>17, <1>18 DEF TaskStep

\* So does every step of the system.
LEMMA InvariantStep == Invariant /\ [Next]_vars => Invariant'
<1>. SUFFICES ASSUME Invariant, [Next]_vars PROVE Invariant'
  OBVIOUS
<1>1. CASE \E t \in Tasks : TaskStep(t)
  BY <1>1, TaskStepKeeps
<1>2. CASE \E t \in Tasks : StartRecovery(t)
  BY <1>2, StartRecoveryQuiet, QuietMoveKeeps
<1>3. CASE FinishCancel
  BY <1>3, FinishCancelKeeps
<1>4. CASE Hello
  BY <1>4, EnvironmentKeeps
<1>5. CASE Environment
  <2>1. CASE \E t \in Tasks, d \in Deliveries : StartDelivery(t, d)
    BY <2>1, StartDeliveryQuiet, QuietMoveKeeps
  <2>2. CASE \E t \in Tasks : ProcessPending(t)
    BY <2>2, ProcessPendingQuiet, QuietMoveKeeps
  <2>3. CASE \E j \in JobIds : RequestCancel(j)
    BY <2>3, RequestCancelKeeps
  <2>4. CASE \E t \in Tasks : RejectReport(t)
    BY <2>4, RejectReportQuiet, QuietMoveKeeps
  <2>5. CASE \E t \in Tasks : StorageFault(t)
    BY <2>5, StorageFaultKeeps
  <2>6. CASE Drop
    BY <2>6, EnvironmentKeeps
  <2>7. CASE Restart
    BY <2>7, RestartKeeps
  <2>8. CASE TimePasses
    BY <2>8, EnvironmentKeeps
  <2>. QED
    BY <1>5, <2>1, <2>2, <2>3, <2>4, <2>5, <2>6, <2>7, <2>8 DEF Environment
<1>6. CASE UNCHANGED vars
  <2>1. /\ UNCHANGED <<jobs, outbox, inserts, taskVars, activeVars, historyVars>>
        /\ clock' = clock /\ link' = link /\ recoveryDue' = recoveryDue /\ budget' = budget
    BY <1>6 DEF vars, storeVars, linkVars
  <2>2. /\ clock \in Nat /\ link \in {"up", "down"} /\ recoveryDue \in BOOLEAN
        /\ budget \in [DOMAIN Budget -> Nat]
    BY DEF Invariant, TypeOK, StoreTypeOK
  <2>. QED
    BY <2>1, <2>2, AsideKeeps
<1>. QED
  BY <1>1, <1>2, <1>3, <1>4, <1>5, <1>6 DEF Next

\* The job flow keeps its inductive invariant, whatever the tasks, faults,
\* sessions and restarts do.
THEOREM RuntimeInvariant == Spec => []Invariant
  BY InvariantInit, InvariantStep, PTL DEF Spec

\* Every variable keeps its type.
THEOREM RuntimeTypeCorrect == Spec => []TypeOK
<1>1. Invariant => TypeOK
  BY DEF Invariant
<1>. QED
  BY <1>1, RuntimeInvariant, PTL

\* No cancellation, recovery or other drain changes a job the backend works
\* on, and its map entry is there for a cancellation to find.
THEOREM ClaimsTheorem == Spec => []ActiveMatchesClaims
<1>1. Invariant => ActiveMatchesClaims
  BY DEF Invariant, TasksOK, TaskOK, ActiveOK, ActiveMatchesClaims, ClaimLabels, EntryLabels
<1>. QED
  BY <1>1, RuntimeInvariant, PTL

\* A receipt is only sent for the job the store holds or held.
THEOREM ReceiptTheorem == Spec => []ReceiptNamesStoredJob
<1>1. Invariant => ReceiptNamesStoredJob
  BY DEF Invariant, TasksOK, TaskOK, ReceiptBacked, ReceiptNamesStoredJob
<1>. QED
  BY <1>1, RuntimeInvariant, PTL

\* The outcome of a finished job waits or was handed over, across crashes and
\* failed acknowledgements.
THEOREM StatusTheorem == Spec => []NoStatusLost
<1>1. Invariant => NoStatusLost
  BY DEF Invariant
<1>. QED
  BY <1>1, RuntimeInvariant, PTL

\* The server hears committed outcomes only, and one per stored job.
THEOREM ReportsTheorem == Spec => []ReportsAreCommitted
<1>1. Invariant => ReportsAreCommitted
  <2>. SUFFICES ASSUME Invariant PROVE ReportsAreCommitted
    OBVIOUS
  <2>1. reported \subseteq Status /\ \A m \in reported : Known(m)
    BY DEF Invariant, TypeOK, Known
  <2>. QED
    BY <2>1 DEF Invariant, KnownOK, Truthful, ReportsAreCommitted
<1>. QED
  BY <1>1, RuntimeInvariant, PTL

\* Every copy beyond the first is paid for by a counted recovery.
THEOREM CopiesTheorem == Spec => []CopiesExplained
<1>1. Invariant => CopiesExplained
  BY DEF Invariant
<1>. QED
  BY <1>1, RuntimeInvariant, PTL

\* A plain `failed' is only reported of a job no interrupted attempt handed to
\* a backend.
THEOREM FailureTheorem == Spec => []FailureIsHonest
<1>1. Invariant => FailureIsHonest
  <2>. SUFFICES ASSUME Invariant PROVE FailureIsHonest
    OBVIOUS
  <2>1. \A m \in outbox \cup reported : m \in Status /\ Known(m)
    BY DEF Invariant, TypeOK, StoreTypeOK, Known
  <2>. QED
    BY <2>1 DEF Invariant, KnownOK, Truthful, FailureIsHonest
<1>. QED
  BY <1>1, RuntimeInvariant, PTL


-----------------------------------------------------------------------------
(* What the store promises on its own holds in the job flow: every step of *)
(* the system is one transaction of the store, or leaves it alone.         *)

\* A failure is written with no status, or with the one kind the row's
\* recoveries call for.
LEMMA FailureTransacts ==
  ASSUME StoreTypeOK, NEW t \in Tasks, NEW j \in JobIds, NEW kinds,
         kinds = {} \/ kinds = {FailureKind(t, j)}, task[t].seen[j] = jobs[j].recoveries,
         MarkFailed(j, kinds)
  PROVE  Transaction
<1>1. \/ FailureKind(t, j) = "failed"
      \/ FailureKind(t, j) = "uncertain" /\ jobs[j].recoveries > 0
  BY FailureKindFits DEF FailureKind
<1>2. CASE kinds \in {{}, {"failed"}}
  BY <1>2 DEF Transaction
<1>3. CASE kinds = {"uncertain"} /\ jobs[j].recoveries > 0
  BY <1>3 DEF Transaction
<1>. QED
  BY <1>1, <1>2, <1>3

\* Every step of a task is a transaction or none.
LEMMA TaskTransacts ==
  ASSUME Invariant, NEW t \in Tasks, TaskStep(t)
  PROVE  Transaction \/ UNCHANGED storeVars
<1>0. StoreTypeOK /\ task[t] \in TaskState /\ TaskOK(t)
  BY DEF Invariant, TypeOK, TasksOK
<1>1. CASE Receive(t)
  <2>1. task[t].d \in Deliveries
    BY <1>0, <1>1 DEF Receive, At, TaskOK
  <2>2. InsertReceived(task[t].d) \/ UNCHANGED storeVars
    BY <1>1 DEF Receive
  <2>. QED
    BY <2>1, <2>2 DEF Transaction
<1>2. CASE FailBeforeClaim(t)
  <2>. DEFINE j     == Current(t)
              kinds == IF jobs[j].sha \in Unreadable THEN {} ELSE {FailureKind(t, j)}
  <2>1. HasWork(t) /\ (MarkFailed(j, kinds) \/ UNCHANGED storeVars)
    BY <1>2 DEF FailBeforeClaim
  <2>2. j \in JobIds
    BY <1>0, <2>1, CurrentRow DEF HasWork, Current
  <2>3. kinds = {} \/ kinds = {FailureKind(t, j)}
    OBVIOUS
  <2>4. MarkFailed(j, kinds) => task[t].seen[j] = jobs[j].recoveries
    BY <1>0, <1>2, <2>1, <2>2, FailedWasPending, CurrentSeen
    DEF HasWork, FailBeforeClaim, At, DrainLabels
  <2>. HIDE DEF j, kinds
  <2>. QED
    BY <1>0, <2>1, <2>2, <2>3, <2>4, FailureTransacts
<1>3. CASE Claim(t)
  <2>1. HasWork(t) /\ (MarkSubmitting(Current(t)) \/ UNCHANGED storeVars)
    BY <1>3 DEF Claim
  <2>2. Current(t) \in JobIds
    BY <1>0, <2>1, CurrentRow DEF HasWork, Current
  <2>. QED
    BY <2>1, <2>2 DEF Transaction
<1>4. CASE Finish(t)
  <2>. DEFINE j == Current(t)
  <2>1. \/ MarkSubmitted(j) \/ MarkCancelled(j) \/ MarkFailed(j, {FailureKind(t, j)})
    BY <1>4 DEF Finish
  <2>2. task[t].queue # <<>>
    BY <1>0, <1>4 DEF Finish, At, TaskOK, EntryLabels
  <2>3. j \in JobIds
    BY <1>0, <2>2, CurrentRow DEF Current
  <2>6. task[t].seen[j] = jobs[j].recoveries
    BY <1>0, <1>4, <2>2, CurrentSeen
    DEF Finish, At, TaskOK, DrainLabels, ClaimLabels, PendingStates
  <2>. HIDE DEF j
  <2>4. CASE MarkSubmitted(j) \/ MarkCancelled(j)
    BY <2>3, <2>4 DEF Transaction
  <2>5. CASE MarkFailed(j, {FailureKind(t, j)})
    BY <1>0, <2>3, <2>5, <2>6, FailureTransacts
  <2>. QED
    BY <2>1, <2>4, <2>5
<1>5. CASE Acknowledge(t)
  <2>. DEFINE m == Head(task[t].out)
  <2>1. AcknowledgeOutboundStatus(m)
    BY <1>5 DEF Acknowledge
  <2>. HIDE DEF m
  <2>2. CASE m \in outbox
    BY <2>1, <2>2 DEF Transaction
  <2>3. CASE m \notin outbox
    <3>1. outbox' = outbox \ {m} /\ UNCHANGED <<jobs, clock, inserts>>
      BY <2>1 DEF AcknowledgeOutboundStatus
    <3>2. outbox \ {m} = outbox
      BY <2>3
    <3>. QED
      BY <3>1, <3>2 DEF storeVars
  <2>. QED
    BY <2>2, <2>3
<1>6. CASE Recover(t)
  BY <1>6 DEF Recover, Transaction
<1>7. CASE \/ SendReceipt(t) \/ Drain(t) \/ Register(t) \/ Spool(t) \/ Unregister(t)
           \/ EndDrain(t) \/ Send(t) \/ EndSend(t) \/ Replay(t) \/ ListReceipts(t)
           \/ SendPendingReceipt(t) \/ EndReceipts(t)
  BY <1>7 DEF SendReceipt, Drain, Register, Spool, Unregister, EndDrain, Send, EndSend,
              Replay, ListReceipts, SendPendingReceipt, EndReceipts
<1>. QED
  BY <1>1, <1>2, <1>3, <1>4, <1>5, <1>6, <1>7 DEF TaskStep

\* So is every step of the system: the process dies between transactions,
\* and a restart opens the database.
LEMMA RuntimeTransacts == Invariant /\ [Next]_vars => [Transaction]_storeVars
<1>. SUFFICES ASSUME Invariant, [Next]_vars PROVE Transaction \/ UNCHANGED storeVars
  OBVIOUS
<1>1. CASE \E t \in Tasks : TaskStep(t)
  BY <1>1, TaskTransacts
<1>2. CASE \E t \in Tasks : StartRecovery(t)
  BY <1>2 DEF StartRecovery
<1>3. CASE FinishCancel
  <2>1. cancelJob \in JobIds
    BY <1>3 DEF FinishCancel, Invariant, ActiveOK
  <2>2. MarkCancelled(cancelJob) \/ UNCHANGED storeVars
    BY <1>3 DEF FinishCancel
  <2>. QED
    BY <2>1, <2>2 DEF Transaction
<1>4. CASE Hello \/ Drop
  BY <1>4 DEF Hello, Drop
<1>5. CASE Restart \/ TimePasses
  BY <1>5 DEF Restart, TimePasses, Transaction
<1>6. CASE \/ \E t \in Tasks, d \in Deliveries : StartDelivery(t, d)
           \/ \E t \in Tasks : ProcessPending(t) \/ RejectReport(t) \/ StorageFault(t)
           \/ \E j \in JobIds : RequestCancel(j)
  BY <1>6 DEF StartDelivery, ProcessPending, RejectReport, StorageFault, RequestCancel
<1>7. CASE UNCHANGED vars
  BY <1>7 DEF vars
<1>. QED
  BY <1>1, <1>2, <1>3, <1>4, <1>5, <1>6, <1>7 DEF Next, Environment

\* The parts of the invariant the store's own lemmas start from.
LEMMA StoreInFlow == Invariant => StoreTypeOK /\ StoreInvariant
  BY DEF Invariant, StoreInvariant

\* The job flow starts on a freshly opened store.
LEMMA StoreStarts == Init => StoreInit
  BY DEF Init

\* The whole job flow, with its locks, faults and restarts, keeps the promise
\* made for each job: PrintLifecycle, with the outbox as what is owed.
THEOREM RuntimeLifecycle == Spec => ImplementsLifecycle
<1>1. Invariant /\ [Next]_vars => [Lifecycle!LifecycleNext]_(Lifecycle!lifecycleVars)
  BY LifecycleStep, RuntimeTransacts, StoreInFlow
<1>. QED
  BY <1>1, StoreStarts, LifecycleStart, RuntimeInvariant, PTL
  DEF Spec, ImplementsLifecycle, Lifecycle!LifecycleSpec

\* max_pending_jobs holds however deliveries, drains and recoveries interleave.
THEOREM RuntimeQueue == Spec => []PendingBounded
<1>1. Invariant /\ PendingBounded /\ [Next]_vars => PendingBounded'
  BY QueueStep, RuntimeTransacts, StoreInFlow
<1>. QED
  BY <1>1, StoreStarts, QueueStart, RuntimeInvariant, PTL DEF Spec

\* max_terminal_jobs holds although jobs are finished from inside and outside
\* the flow lock.
THEOREM RuntimeHistory == Spec => []TerminalBounded
<1>1. Invariant /\ TerminalBounded /\ [Next]_vars => TerminalBounded'
  BY HistoryStep, RuntimeTransacts, StoreInFlow
<1>. QED
  BY <1>1, StoreStarts, HistoryStart, RuntimeInvariant, PTL DEF Spec

\* No late spooler result, cancellation or recovery task rewrites a finished job.
THEOREM RuntimeFinal == Spec => TerminalIsFinal
<1>1. Invariant /\ [Next]_vars => [FinalStep]_storeVars
  BY TransactionIsFinal, RuntimeTransacts, StoreInFlow
<1>. QED
  BY <1>1, RuntimeInvariant, PTL DEF Spec, TerminalIsFinal, FinalStep

\* History is evicted oldest first, whichever task finishes the next job.
THEOREM RuntimeEviction == Spec => EvictsOldestFirst
<1>1. Invariant /\ [Next]_vars => [OldestGoFirst]_storeVars
  BY EvictionStep, RuntimeTransacts, StoreInFlow
<1>. QED
  BY <1>1, RuntimeInvariant, PTL DEF Spec, EvictsOldestFirst, OldestGoFirst

=============================================================================
