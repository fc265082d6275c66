----------------------------- MODULE RuntimeWork -----------------------------
(***************************************************************************)
(* What becomes of accepted work.  AgentRuntime with one history variable: *)
(* the jobs that a handler which ended with an error left behind in a      *)
(* session that stays up.  Nothing comes back to them until another drain  *)
(* reads the queue or the session is replaced (runtime.rs: the `?' after   *)
(* process_pending, report_outcomes and replay_outbound_reports;           *)
(* connection.rs spawns replay and recovery only after a handshake).       *)
(***************************************************************************)
EXTENDS AgentRuntime

VARIABLE left   \* history: jobs left behind in the session that is up

workVars == <<vars, left>>

HasStatus(j) == \E m \in outbox : m.job = j

\* An error ends a handler that had work to do: the drain, its listing or its
\* recovery, or a replay, which the recovery was to follow.
Quits(t) ==
  /\ \/ task[t].pc \in {"drain", "next", "unregister_error", "list", "recover", "replay"}
     \/ task[t].pc = "ack"
  /\ task'[t].pc = "idle"

ReadsQueue(t) == At(t, "drain") /\ task'[t].pc = "next"

\* Without a session nothing is left behind for good: the next handshake
\* spawns a replay and a recovery.
LeftBehind ==
  left' = IF link' = "down" THEN {}
          ELSE IF \E t \in Tasks : Quits(t)
            THEN left \cup Pending' \cup {j \in JobIds : HasStatus(j)'}
          ELSE IF \E t \in Tasks : ReadsQueue(t) THEN left \ Received
          ELSE left

WorkSpec ==
  /\ Init /\ left = {}
  /\ [][Next /\ LeftBehind]_workVars
  /\ Fairness

-----------------------------------------------------------------------------
(* Properties                                                              *)

\* Accepted work does not get stuck: a received or claimed job is finished,
\* whatever sessions, rejected reports, cancellations and restarts do in
\* between, unless a handler failed and neither a drain nor a new session ever
\* came after it (handle_print_job's drain, and recover after every handshake).
WorkSettles ==
  \A j \in JobIds : (j \in Pending) ~> (j \notin Pending \/ [](j \in left))

\* Every status in the outbox is handed to the transport and removed, or its
\* job is evicted, page after page (replay after every handshake), unless a
\* handler failed and no new session ever came after it.
OutboxDrains ==
  \A j \in JobIds : HasStatus(j) ~> (~HasStatus(j) \/ [](j \in left))

=============================================================================
