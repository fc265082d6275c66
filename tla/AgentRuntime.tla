---------------------------- MODULE AgentRuntime ----------------------------
(***************************************************************************)
(* The job flow of crates/oppa-agent (runtime.rs, processor.rs) over the   *)
(* store, as the desktop host drives it: every server message and every    *)
(* completed handshake spawns an independent task (connection.rs), and the *)
(* tasks meet at three locks and at the store.                             *)
(*                                                                         *)
(*   flow        Agent::flow_lock: one delivery, drain or recovery         *)
(*   outboxLock  Agent::outbox_lock: one sender of terminal statuses       *)
(*   activeLock  the mutex of JobProcessor::active                         *)
(*                                                                         *)
(* JobProcessor::drain_lock is only ever taken while flow_lock is held and *)
(* is therefore not a variable.  A report that the connection actor cannot *)
(* send waits for the next session or is rejected; the socket write itself *)
(* is not tracked further.                                                 *)
(***************************************************************************)
EXTENDS JobStore, Sequences

CONSTANTS
  Tasks,         \* spawned tasks that may run at the same time
  ReplayBatch,   \* DEFAULT_OUTBOUND_STATUS_BATCH_SIZE
  Unreadable,    \* payloads (left by another build) this build cannot parse
  Budget         \* bounds: how often the environment may act, by kind

ASSUME RuntimeAssumption ==
  /\ ReplayBatch \in Nat \ {0}
  /\ Unreadable \subseteq Payloads
  /\ Budget \in [{"deliver", "cancel", "drop", "crash", "fault"} -> Nat]
  /\ Tasks \cap {"free", "cancel"} = {}

VARIABLES
  task,         \* per task: program counter and local variables
  flow,         \* holder of flow_lock
  outboxLock,   \* holder of outbox_lock
  activeLock,   \* holder of the active-map mutex; "cancel" is cancel_job
  active,       \* JobProcessor::active: absent, or the state of its token
  cancelJob,    \* argument of the cancel_job call that holds activeLock
  link,         \* is a handshaken session up?
  recoveryDue,  \* the replay/recover task of a handshake is spawned, not started
  budget,       \* what the environment may still do
  crossed,      \* auxiliary: copies of the stored job that reached a backend
  interrupted,  \* auxiliary: how many of them by attempts that were interrupted
  reported      \* auxiliary: terminal statuses handed to the transport

taskVars    == <<task, flow, outboxLock>>
activeVars  == <<activeLock, active, cancelJob>>
linkVars    == <<link, recoveryDue>>
historyVars == <<crossed, interrupted, reported>>
vars == <<storeVars, taskVars, activeVars, linkVars, budget, historyVars>>

Free    == "free"
Cancel  == "cancel"
NoJob   == 0 - 1

NoDelivery == [job |-> NoJob, key |-> NoKey, payload |-> NullPayload]

IdleTask == [pc |-> "idle", d |-> NoDelivery, queue |-> <<>>,
             seen |-> [j \in JobIds |-> 0], out |-> <<>>, mode |-> "flow",
             full |-> FALSE, result |-> "none"]

-----------------------------------------------------------------------------
(* Orders the SQL queries define.                                          *)

EarlierRow(a, b) ==
  \/ jobs[a].receivedAt < jobs[b].receivedAt
  \/ jobs[a].receivedAt = jobs[b].receivedAt /\ a < b

\* pending(): received rows ORDER BY received_at_ms, job_id; the one such order.
PendingInOrder ==
  {s \in [1 .. Cardinality(Received) -> Received] :
     \A i, k \in DOMAIN s : i < k => EarlierRow(s[i], s[k])}

\* pending_outbound_statuses(limit): ORDER BY created_at_ms, message_id.  The
\* message id is a random uuid, so equal timestamps come in any order.
OutboxPages ==
  LET n == IF Cardinality(outbox) < ReplayBatch THEN Cardinality(outbox) ELSE ReplayBatch
  IN  {s \in [1 .. n -> outbox] :
         /\ \A i, k \in 1 .. n : i < k => s[i] # s[k] /\ s[i].at <= s[k].at
         /\ \A m \in outbox : (\A i \in 1 .. n : s[i] # m) =>
              \A i \in 1 .. n : s[i].at <= m.at}

-----------------------------------------------------------------------------
(* Task bookkeeping.                                                       *)

At(t, label) == task[t].pc = label
Current(t)   == Head(task[t].queue)
HasWork(t)   == task[t].queue # <<>>

Go(t, label) == task' = [task EXCEPT ![t].pc = label]

\* Return from the handler, by any path: guards are dropped, locals are gone.
Return(t) ==
  /\ task' = [task EXCEPT ![t] = IdleTask]
  /\ flow' = IF flow = t THEN Free ELSE flow
  /\ outboxLock' = IF outboxLock = t THEN Free ELSE outboxLock

Spend(kind) ==
  /\ budget[kind] > 0
  /\ budget' = [budget EXCEPT ![kind] = @ - 1]

-----------------------------------------------------------------------------
(* handle_print_job, up to the receipt.                                    *)

StartDelivery(t, d) ==
  /\ At(t, "idle") /\ link = "up"
  /\ Spend("deliver")
  /\ task' = [task EXCEPT ![t].pc = "deliver", ![t].d = d]
  /\ UNCHANGED <<storeVars, flow, outboxLock, activeVars, linkVars, historyVars>>

\* insert_received under flow_lock.  Conflicts, a full queue and a reused key
\* end the handler without an acknowledgement.
Receive(t) ==
  LET d == task[t].d IN
  /\ At(t, "deliver") /\ flow = Free
  /\ \/ /\ InsertReceived(d)
        /\ flow' = t /\ Go(t, "receipt_new")
        /\ crossed' = [crossed EXCEPT ![d.job] = 0]
        /\ interrupted' = [interrupted EXCEPT ![d.job] = 0]
        /\ UNCHANGED <<outboxLock, reported>>
     \/ /\ InsertOutcome(d) = "duplicate_job"
        /\ flow' = t /\ Go(t, "receipt_dup")
        /\ UNCHANGED <<storeVars, outboxLock, historyVars>>
     \/ /\ InsertOutcome(d) \notin {"inserted", "duplicate_job"}
        /\ Return(t)
        /\ UNCHANGED <<storeVars, historyVars>>
  /\ UNCHANGED <<activeVars, linkVars, budget>>

\* The receipt is awaited; only a new job goes on to the drain.
SendReceipt(t) ==
  /\ task[t].pc \in {"receipt_new", "receipt_dup"} /\ link = "up"
  /\ IF At(t, "receipt_new")
       THEN Go(t, "drain") /\ UNCHANGED <<flow, outboxLock>>
       ELSE Return(t)
  /\ UNCHANGED <<storeVars, activeVars, linkVars, budget, historyVars>>

-----------------------------------------------------------------------------
(* process_pending_inner and process_stored_job.                           *)

\* The drain works on a snapshot of the received rows, their recovery counts
\* included (only those of the queued rows are ever looked at).
Drain(t) ==
  /\ At(t, "drain")
  /\ \E rows \in PendingInOrder :
       task' = [task EXCEPT ![t].pc = "next", ![t].queue = rows,
                            ![t].seen = [j \in JobIds |-> jobs[j].recoveries]]
  /\ UNCHANGED <<storeVars, flow, outboxLock, activeVars, linkVars, budget, historyVars>>

\* Mutant: an unknown code is reported.
FailureKindUnknown(t, j) == "printer_busy"

\* recovery_aware_failure: the failure of a job that had been recovered when
\* the drain took its snapshot is reported as uncertain.
FailureKind(t, j) == IF task[t].seen[j] = 0 THEN "failed" ELSE "uncertain"

StatusOf(j, kind) == [job |-> j, gen |-> inserts[j], kind |-> kind, at |-> clock]

\* Mutant: a row that is not pending any more is reported as failed all the same.
FailBeforeClaimUnchecked(t) ==
  LET j == Current(t) IN
  /\ At(t, "next") /\ HasWork(t)
  /\ \/ MarkFailed(j, {FailureKind(t, j)})
     \/ ~Allowed(jobs[j].state, "failed") /\ UNCHANGED storeVars
  /\ task' = [task EXCEPT ![t].queue = Tail(@),
                          ![t].out = Append(@, StatusOf(j, FailureKind(t, j)))]
  /\ UNCHANGED <<flow, outboxLock, activeVars, linkVars, budget, historyVars>>

\* The printer is unknown or disabled, or rendering or retrieval failed: the
\* failure is persisted without the active lock.  A row that is not pending
\* any more is an error that ends the drain.
FailBeforeClaim(t) ==
  LET j     == Current(t)
      kinds == IF jobs[j].sha \in Unreadable THEN {} ELSE {FailureKind(t, j)}
      out   == IF kinds = {} THEN <<>> ELSE <<StatusOf(j, FailureKind(t, j))>>
  IN  /\ At(t, "next") /\ HasWork(t)
      /\ \/ /\ MarkFailed(j, kinds)
            /\ task' = [task EXCEPT ![t].queue = Tail(@), ![t].out = @ \o out]
            /\ UNCHANGED <<flow, outboxLock>>
         \/ /\ ~Allowed(jobs[j].state, "failed")
            /\ Return(t)
            /\ UNCHANGED storeVars
      /\ UNCHANGED <<activeVars, linkVars, budget, historyVars>>

\* submit, first part: the durable claim under the active lock.  A job that
\* another path finished meanwhile is skipped; a missing one ends the drain.
Claim(t) ==
  LET j == Current(t) IN
  /\ At(t, "next") /\ HasWork(t) /\ activeLock = Free
  /\ jobs[j].sha \notin Unreadable
  /\ \/ /\ MarkSubmitting(j)
        /\ activeLock' = t /\ Go(t, "register")
        /\ UNCHANGED <<flow, outboxLock>>
     \/ /\ Stored(j) /\ ~Allowed(jobs[j].state, "submitting")
        /\ task' = [task EXCEPT ![t].queue = Tail(@)]
        /\ UNCHANGED <<storeVars, flow, outboxLock, activeLock>>
     \/ /\ ~Stored(j)
        /\ Return(t)
        /\ UNCHANGED <<storeVars, activeLock>>
  /\ UNCHANGED <<active, cancelJob, linkVars, budget, historyVars>>

Register(t) ==
  /\ At(t, "register")
  /\ active' = [active EXCEPT ![Current(t)] = "running"]
  /\ activeLock' = Free /\ Go(t, "spool")
  /\ UNCHANGED <<storeVars, flow, outboxLock, cancelJob, linkVars, budget, historyVars>>

\* The backend call, without any lock.  An error or an observed cancellation
\* may come before or after the document reached the backend (a raw TCP write
\* is raced against the token and a timeout until the stream is closed).
Spool(t) ==
  /\ At(t, "spool")
  /\ \E result \in {"ok", "error", "cancelled"}, copies \in {0, 1} :
       /\ result = "ok" => copies = 1
       /\ result = "cancelled" => active[Current(t)] = "cancelling"
       /\ task' = [task EXCEPT ![t].pc = "finish", ![t].result = result]
       /\ crossed' = [crossed EXCEPT ![Current(t)] = @ + copies]
  /\ UNCHANGED <<storeVars, flow, outboxLock, activeVars, linkVars, budget, interrupted,
                 reported>>

\* submit, second part: the terminal write under the active lock.
Finish(t) ==
  LET j         == Current(t)
      cancelled == \/ task[t].result = "cancelled"
                   \/ task[t].result = "error" /\ active[j] = "cancelling"
      done(out) == task' = [task EXCEPT ![t].pc = "unregister", ![t].out = @ \o out]
  IN  /\ At(t, "finish") /\ activeLock = Free
      /\ activeLock' = t
      /\ \/ /\ task[t].result = "ok" /\ MarkSubmitted(j)
            /\ done(<<StatusOf(j, "submitted")>>)
         \/ /\ cancelled /\ MarkCancelled(j)
            /\ done(<<>>)
         \/ /\ task[t].result = "error" /\ ~cancelled /\ MarkFailed(j, {FailureKind(t, j)})
            /\ done(<<StatusOf(j, FailureKind(t, j))>>)
      /\ UNCHANGED <<flow, outboxLock, active, cancelJob, linkVars, budget, historyVars>>

\* The map entry is removed whatever the write returned; an error ends the drain.
Unregister(t) ==
  /\ task[t].pc \in {"unregister", "unregister_error"}
  /\ active' = [active EXCEPT ![Current(t)] = "none"]
  /\ activeLock' = Free
  /\ IF At(t, "unregister")
       THEN /\ task' = [task EXCEPT ![t].pc = "next", ![t].queue = Tail(@), ![t].result = "none"]
            /\ UNCHANGED <<flow, outboxLock>>
       ELSE Return(t)
  /\ UNCHANGED <<storeVars, cancelJob, linkVars, budget, historyVars>>

-----------------------------------------------------------------------------
(* report_outcomes and replay_outbound_reports: send, then acknowledge,    *)
(* one status at a time under outbox_lock.                                 *)

EndDrain(t) ==
  /\ At(t, "next") /\ ~HasWork(t) /\ outboxLock = Free
  /\ outboxLock' = t /\ Go(t, "send")
  /\ UNCHANGED <<storeVars, flow, activeVars, linkVars, budget, historyVars>>

\* Mutant: the result of the send is ignored.
SendUnchecked(t) ==
  /\ At(t, "send") /\ task[t].out # <<>>
  /\ reported' = IF link = "up" THEN reported \cup {Head(task[t].out)} ELSE reported
  /\ Go(t, "ack")
  /\ UNCHANGED <<storeVars, flow, outboxLock, activeVars, linkVars, budget, crossed,
                 interrupted>>

Send(t) ==
  /\ At(t, "send") /\ task[t].out # <<>> /\ link = "up"
  /\ reported' = reported \cup {Head(task[t].out)}
  /\ Go(t, "ack")
  /\ UNCHANGED <<storeVars, flow, outboxLock, activeVars, linkVars, budget, crossed,
                 interrupted>>

Acknowledge(t) ==
  /\ At(t, "ack")
  /\ AcknowledgeOutboundStatus(Head(task[t].out))
  /\ task' = [task EXCEPT ![t].pc = "send", ![t].out = Tail(@)]
  /\ UNCHANGED <<flow, outboxLock, activeVars, linkVars, budget, historyVars>>

\* A drain's reports end the handler; a full replay page is followed by
\* another one, and the replay by recover().
EndSend(t) ==
  /\ At(t, "send") /\ task[t].out = <<>>
  /\ \/ task[t].mode = "flow" /\ Return(t)
     \/ /\ task[t].mode = "replay" /\ task[t].full
        /\ Go(t, "replay") /\ UNCHANGED <<flow, outboxLock>>
     \/ /\ task[t].mode = "replay" /\ ~task[t].full
        /\ task' = [task EXCEPT ![t] = [IdleTask EXCEPT !.pc = "recover"]]
        /\ outboxLock' = Free /\ UNCHANGED flow
  /\ UNCHANGED <<storeVars, activeVars, linkVars, budget, historyVars>>

-----------------------------------------------------------------------------
(* The task spawned after each completed handshake: replay, then recover.  *)

StartRecovery(t) ==
  /\ At(t, "idle") /\ recoveryDue
  /\ recoveryDue' = FALSE /\ Go(t, "replay")
  /\ UNCHANGED <<storeVars, flow, outboxLock, activeVars, link, budget, historyVars>>

Replay(t) ==
  /\ At(t, "replay") /\ outboxLock \in {Free, t}
  /\ outboxLock' = t
  /\ \E page \in OutboxPages :
       task' = [task EXCEPT ![t].pc = "send", ![t].out = page, ![t].mode = "replay",
                            ![t].full = (Len(page) = ReplayBatch)]
  /\ UNCHANGED <<storeVars, flow, activeVars, linkVars, budget, historyVars>>

\* The rows a recovery puts back were being submitted: any copy that was made
\* of one is of an attempt that never got to write its outcome.
CountInterrupted ==
  interrupted' = [j \in JobIds |->
                    IF jobs[j].state = "submitting" THEN crossed[j] ELSE interrupted[j]]

\* Mutant: recovery does not wait for a drain to end.
RecoverWithoutFlow(t) ==
  /\ At(t, "recover")
  /\ RecoverInterrupted /\ CountInterrupted
  /\ flow' = t /\ Go(t, "list")
  /\ UNCHANGED <<outboxLock, activeVars, linkVars, budget, crossed, reported>>

Recover(t) ==
  /\ At(t, "recover") /\ flow = Free
  /\ RecoverInterrupted /\ CountInterrupted
  /\ flow' = t /\ Go(t, "list")
  /\ UNCHANGED <<outboxLock, activeVars, linkVars, budget, crossed, reported>>

\* Agent::process_pending, for hosts that trigger a drain themselves.
ProcessPending(t) ==
  /\ At(t, "idle") /\ flow = Free
  /\ flow' = t /\ Go(t, "list")
  /\ UNCHANGED <<storeVars, outboxLock, activeVars, linkVars, budget, historyVars>>

\* report_pending_receipts: every pending job is acknowledged again before
\* any of them is claimed.
ListReceipts(t) ==
  /\ At(t, "list")
  /\ \E rows \in PendingInOrder :
       task' = [task EXCEPT ![t].pc = "receipts", ![t].queue = rows]
  /\ UNCHANGED <<storeVars, flow, outboxLock, activeVars, linkVars, budget, historyVars>>

SendPendingReceipt(t) ==
  /\ At(t, "receipts") /\ HasWork(t) /\ link = "up"
  /\ task' = [task EXCEPT ![t].queue = Tail(@)]
  /\ UNCHANGED <<storeVars, flow, outboxLock, activeVars, linkVars, budget, historyVars>>

EndReceipts(t) ==
  /\ At(t, "receipts") /\ ~HasWork(t)
  /\ Go(t, "drain")
  /\ UNCHANGED <<storeVars, flow, outboxLock, activeVars, linkVars, budget, historyVars>>

-----------------------------------------------------------------------------
(* cancel_job: not under flow_lock.                                        *)

\* Mutant: a cancellation never looks at the map.
NeverActive(j) == FALSE

InActiveMap(j) == active[j] # "none"

\* The session the request was read from may be gone when the lock is granted.
RequestCancel(j) ==
  /\ activeLock = Free
  /\ Spend("cancel")
  /\ \/ /\ InActiveMap(j)
        /\ active' = [active EXCEPT ![j] = "cancelling"]
        /\ UNCHANGED <<activeLock, cancelJob>>
     \/ /\ ~InActiveMap(j)
        /\ activeLock' = Cancel /\ cancelJob' = j
        /\ UNCHANGED active
  /\ UNCHANGED <<storeVars, taskVars, linkVars, historyVars>>

\* NotFound and AlreadyTerminal leave the row alone.
FinishCancel ==
  /\ activeLock = Cancel
  /\ \/ MarkCancelled(cancelJob)
     \/ ~Allowed(jobs[cancelJob].state, "cancelled") /\ UNCHANGED storeVars
  /\ activeLock' = Free /\ cancelJob' = NoJob
  /\ UNCHANGED <<taskVars, active, linkVars, budget, historyVars>>

-----------------------------------------------------------------------------
(* The environment: sessions, failing reports, failing transactions and    *)
(* restarts of the process.                                                *)

WaitsToReport(t) ==
  \/ task[t].pc \in {"receipt_new", "receipt_dup"}
  \/ At(t, "receipts") /\ HasWork(t)
  \/ At(t, "send") /\ task[t].out # <<>>

\* Mutant: no replay and recovery task is spawned.
HelloWithoutRecovery ==
  /\ link = "down"
  /\ link' = "up"
  /\ UNCHANGED <<storeVars, taskVars, activeVars, recoveryDue, budget, historyVars>>

\* A handshake completes: reports flow again and a recovery task is spawned.
Hello ==
  /\ link = "down"
  /\ link' = "up" /\ recoveryDue' = TRUE
  /\ UNCHANGED <<storeVars, taskVars, activeVars, budget, historyVars>>

Drop ==
  /\ link = "up" /\ Spend("drop")
  /\ link' = "down"
  /\ UNCHANGED <<storeVars, taskVars, activeVars, recoveryDue, historyVars>>

\* A send fails and takes the session down with it, or a request that waits
\* for a session is rejected.  The `?' in the runtime ends the handler.
RejectReport(t) ==
  /\ WaitsToReport(t)
  /\ \/ link = "up" /\ Spend("drop") /\ link' = "down"
     \/ link = "down" /\ UNCHANGED <<budget, link>>
  /\ Return(t)
  /\ UNCHANGED <<storeVars, activeVars, recoveryDue, historyVars>>

\* Steps of a task that begin with a transaction (and hold no active entry).
AtTransaction(t) ==
  \/ At(t, "deliver") /\ flow = Free
  \/ At(t, "recover") /\ flow = Free
  \/ At(t, "replay") /\ outboxLock \in {Free, t}
  \/ task[t].pc \in {"drain", "list", "ack"}
  \/ At(t, "next") /\ HasWork(t)

\* A transaction of a task fails: the handler returns; after a claim the map
\* entry is removed first although the row is still claimed.
StorageFault(t) ==
  /\ Spend("fault")
  /\ \/ /\ AtTransaction(t) /\ Return(t)
        /\ UNCHANGED activeLock
     \/ /\ At(t, "finish") /\ activeLock = Free
        /\ activeLock' = t /\ Go(t, "unregister_error")
        /\ UNCHANGED <<flow, outboxLock>>
  /\ UNCHANGED <<storeVars, active, cancelJob, linkVars, historyVars>>

\* The process dies at any point and starts again.
Restart ==
  /\ Spend("crash")
  /\ Open /\ CountInterrupted
  /\ task' = [t \in Tasks |-> IdleTask]
  /\ flow' = Free /\ outboxLock' = Free /\ activeLock' = Free
  /\ active' = [j \in JobIds |-> "none"] /\ cancelJob' = NoJob
  /\ link' = "down" /\ recoveryDue' = FALSE
  /\ UNCHANGED <<crossed, reported>>

TimePasses ==
  /\ ClockStep
  /\ UNCHANGED <<taskVars, activeVars, linkVars, budget, historyVars>>

-----------------------------------------------------------------------------
Init ==
  /\ StoreInit
  /\ task = [t \in Tasks |-> IdleTask]
  /\ flow = Free /\ outboxLock = Free /\ activeLock = Free
  /\ active = [j \in JobIds |-> "none"] /\ cancelJob = NoJob
  /\ link = "down" /\ recoveryDue = FALSE
  /\ budget = Budget
  /\ crossed = [j \in JobIds |-> 0]
  /\ interrupted = [j \in JobIds |-> 0]
  /\ reported = {}

\* What the runtime does by itself once a task runs.
TaskStep(t) ==
  \/ Receive(t) \/ SendReceipt(t)
  \/ Drain(t) \/ FailBeforeClaim(t) \/ Claim(t) \/ Register(t)
  \/ Spool(t) \/ Finish(t) \/ Unregister(t)
  \/ EndDrain(t) \/ Send(t) \/ Acknowledge(t) \/ EndSend(t)
  \/ Replay(t) \/ Recover(t) \/ ListReceipts(t) \/ SendPendingReceipt(t) \/ EndReceipts(t)

Environment ==
  \/ \E t \in Tasks, d \in Deliveries : StartDelivery(t, d)
  \/ \E t \in Tasks : ProcessPending(t)
  \/ \E j \in JobIds : RequestCancel(j)
  \/ \E t \in Tasks : RejectReport(t)
  \/ \E t \in Tasks : StorageFault(t)
  \/ Drop \/ Restart \/ TimePasses

Next ==
  \/ \E t \in Tasks : TaskStep(t)
  \/ \E t \in Tasks : StartRecovery(t)
  \/ FinishCancel \/ Hello
  \/ Environment

Spec == Init /\ [][Next]_vars

\* A tokio task that can run does run, and tokio's mutexes hand over in FIFO
\* order, so a task that is enabled again and again takes its step; a spawned
\* recovery task starts; a cancel_job call that holds the lock finishes.  The
\* one assumption about the outside is WF(Hello): the connection actor retries
\* for ever, and some attempt succeeds, so the server stays reachable often
\* enough and accepts the device.  Faults, drops and restarts may come at any
\* time, or never.
Fairness ==
  /\ \A t \in Tasks : SF_vars(TaskStep(t))
  /\ SF_vars(\E t \in Tasks : StartRecovery(t))
  /\ WF_vars(FinishCancel)
  /\ WF_vars(Hello)

-----------------------------------------------------------------------------
(* Properties                                                              *)

Labels == {"idle", "deliver", "receipt_new", "receipt_dup", "drain", "next", "register",
           "spool", "finish", "unregister", "unregister_error", "send", "ack",
           "replay", "recover", "list", "receipts"}

TaskState == [pc : Labels, d : Deliveries \cup {NoDelivery}, queue : Seq(JobIds),
              seen : [JobIds -> Nat], out : Seq(Status), mode : {"flow", "replay"},
              full : BOOLEAN, result : {"none", "ok", "error", "cancelled"}]

\* Every variable has its type.
TypeOK ==
  /\ StoreTypeOK
  /\ task \in [Tasks -> TaskState]
  /\ flow \in Tasks \cup {Free}
  /\ outboxLock \in Tasks \cup {Free}
  /\ activeLock \in Tasks \cup {Free, Cancel}
  /\ active \in [JobIds -> {"none", "running", "cancelling"}]
  /\ cancelJob \in JobIds \cup {NoJob}
  /\ link \in {"up", "down"} /\ recoveryDue \in BOOLEAN
  /\ budget \in [DOMAIN Budget -> Nat]
  /\ crossed \in [JobIds -> Nat] /\ interrupted \in [JobIds -> Nat]
  /\ reported \subseteq Status

\* From the claim until the terminal write the row stays `submitting' and,
\* outside the lock, the map entry exists: no cancellation, recovery or other
\* drain can change a job the backend is working on, and a cancellation that
\* arrives meanwhile reaches its token (processor.rs submit, cancel_job).
ActiveMatchesClaims ==
  /\ \A t \in Tasks : task[t].pc \in {"register", "spool", "finish"} =>
       jobs[Current(t)].state = "submitting"
  /\ \A t \in Tasks : task[t].pc \in {"spool", "finish"} => active[Current(t)] # "none"
  /\ \A j \in JobIds : active[j] # "none" =>
       \E t \in Tasks : /\ task[t].pc \in {"spool", "finish", "unregister", "unregister_error"}
                        /\ Current(t) = j

\* A receipt is only ever sent for a job the store holds with the very key and
\* contents of the delivery, or held until it was evicted: conflicting
\* deliveries are never acknowledged (handle_print_job, insert_received).
ReceiptNamesStoredJob ==
  \A t \in Tasks : task[t].pc \in {"receipt_new", "receipt_dup"} =>
    LET d == task[t].d IN
    /\ inserts[d.job] > 0
    /\ Stored(d.job) => jobs[d.job].key = d.key /\ jobs[d.job].sha = d.payload

\* A finished job's outcome is never lost: while its row exists the status
\* waits in the outbox or was handed to the transport, across rejected
\* reports, failed acknowledgements and restarts (unreadable rows of another
\* build are the documented exception).
NoStatusLost ==
  \A j \in JobIds :
    /\ jobs[j].state \in {"submitted", "failed"}
    /\ jobs[j].sha \notin Unreadable
    => \E m \in outbox \cup reported :
         m.job = j /\ m.gen = inserts[j] /\ StateOf(m.kind) = jobs[j].state

\* The server never hears an outcome that was not committed, nor two
\* different outcomes of one stored job, however often a report is repeated
\* by the drain that produced it and by concurrent replays.
ReportsAreCommitted ==
  /\ \A m \in reported :
       m.gen = inserts[m.job] /\ Stored(m.job) => jobs[m.job].state = StateOf(m.kind)
  /\ \A m, n \in reported : m.job = n.job /\ m.gen = n.gen => m = n

\* Every copy of a stored job beyond the first that reaches a backend is paid
\* for by a counted recovery; a job waiting in the queue has no unaccounted copy.
CopiesExplained ==
  \A j \in JobIds : Stored(j) =>
    crossed[j] <= jobs[j].recoveries + (IF jobs[j].state = "received" THEN 0 ELSE 1)

\* A plain `failed' report is only made of a job no interrupted attempt handed
\* to a backend: once an attempt was cut off after the document went out, by a
\* crash or by a terminal write that failed, the failure of a later one is
\* reported as uncertain, whatever caused it and although the drain decides by
\* the recovery count it read before its first job (recovery_aware_failure).
FailureIsHonest ==
  \A m \in outbox \cup reported :
    m.gen = inserts[m.job] /\ m.kind = "failed" => interrupted[m.job] = 0

=============================================================================
