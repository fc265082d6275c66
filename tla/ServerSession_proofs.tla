------------------------ MODULE ServerSession_proofs ------------------------
(***************************************************************************)
(* Proofs about a gateway session, whatever the number of concurrent calls *)
(* and of frames. SessionInvariant is inductive and implies                *)
(* RegistryMatchesSession; FarewellInvariant, beside it, is inductive and  *)
(* implies NothingFollowsGoodbye.                                          *)
(***************************************************************************)
EXTENDS ServerSession, SequenceTheorems, TLAPS

\* Where a thread may go without touching the registry: it is suspended at t,
\* and t is in the middle of authentication or handshake only on the processing
\* chain and before the hello.
Moves(p, t) ==
  /\ p \in Threads /\ t \in ThreadState
  /\ thread' = [thread EXCEPT ![p] = t]
  /\ t.frame \in HandshakeFrames => p = Queue /\ ~hello

\* An await of the thread completes: only its program counter changes.
Advances(p, pc) ==
  /\ pc \in {"written", "unwritten", "finalize"}
  /\ thread' = [thread EXCEPT ![p].pc = pc]

\* Steps that leave the registry alone and take the session no further than closing.
Tame ==
  /\ UNCHANGED <<hello, connects, disconnects>>
  /\ reason' \in Reasons
  /\ state' = state \/ (state # "closed" /\ state' = "closing")
  /\ thread' = thread \/ (\E p, t : Moves(p, t)) \/ (\E p, pc : Advances(p, pc))

\* What a suspension is made of (session.ts awaits).
LEMMA SuspendedType ==
  ASSUME NEW pc \in {"idle", "lookup", "write", "written", "unwritten", "close", "finalize",
                     "callback"},
         NEW frame \in {"none", "challenge", "accepted", "rejected", "hello", "heartbeat", "app",
                        "goodbye", "connected", "report", "closed"} \cup FrameClasses,
         NEW why \in Reasons,
         NEW after \in {"none", "onProtocolError", "onHeartbeatTimeout"}
  PROVE  /\ Suspended(pc, frame, why, after) \in ThreadState
         /\ Suspended(pc, frame, why, after).frame = frame
BY DEF Suspended, ThreadState

\* The idle suspension is of no frame.
LEMMA IdleType == Idle \in ThreadState /\ Idle.frame = "none"
BY DEF Idle, Suspended, ThreadState, Reasons

\* A new session satisfies the invariant (the constructor of session.ts).
LEMMA InitInvariant == Init => SessionInvariant
BY IdleType DEF Init, SessionInvariant, HandshakeFrames, Reasons, States

\* A tame step keeps the invariant.
LEMMA TameStep == SessionInvariant /\ Tame => SessionInvariant'
<1> SUFFICES ASSUME SessionInvariant, Tame PROVE SessionInvariant'
  OBVIOUS
<1> DEFINE FramesKept ==
             \A p \in Threads : thread'[p].frame \in HandshakeFrames => p = Queue /\ ~hello
<1>1. thread' \in [Threads -> ThreadState] /\ FramesKept
  <2>1. CASE thread' = thread
    BY <2>1 DEF SessionInvariant
  <2>2. ASSUME NEW p, NEW t, Moves(p, t) PROVE thread' \in [Threads -> ThreadState] /\ FramesKept
    BY <2>2 DEF SessionInvariant, Moves
  <2>3. ASSUME NEW p, NEW pc, Advances(p, pc)
        PROVE  thread' \in [Threads -> ThreadState] /\ FramesKept
    <3>1. \A q \in Threads : /\ [thread[q] EXCEPT !.pc = pc] \in ThreadState
                             /\ [thread[q] EXCEPT !.pc = pc].frame = thread[q].frame
      BY <2>3 DEF SessionInvariant, ThreadState, Advances
    <3>2. \A q \in Threads : thread'[q] \in {thread[q], [thread[q] EXCEPT !.pc = pc]}
      BY <2>3 DEF SessionInvariant, Advances
    <3>3. DOMAIN thread' = Threads /\ thread' = [q \in Threads |-> thread'[q]]
      BY <2>3 DEF SessionInvariant, Advances
    <3>4. \A q \in Threads : thread[q] \in ThreadState
      BY DEF SessionInvariant
    <3>5. \A q \in Threads : thread'[q] \in ThreadState /\ thread'[q].frame = thread[q].frame
      BY <3>1, <3>2, <3>4
    <3>6. thread' \in [Threads -> ThreadState]
      BY <3>3, <3>5
    <3> QED
      BY <3>5, <3>6 DEF SessionInvariant
  <2> QED
    BY <2>1, <2>2, <2>3 DEF Tame
<1>3. disconnects = IF hello /\ state' = "closed" THEN 1 ELSE 0
  BY DEF SessionInvariant, Tame
<1> QED
  BY <1>1, <1>3 DEF SessionInvariant, Tame, States

\* A step in which nothing of the session's own changes is tame.
LEMMA UnchangedIsTame ==
  ASSUME SessionInvariant, UNCHANGED <<hello, connects, disconnects, reason, state, thread>>
  PROVE  Tame
BY DEF SessionInvariant, Tame

\* Returning from a handler is tame.
LEMMA ReturnMoves ==
  ASSUME NEW p \in Threads, Become(p, Idle) PROVE Moves(p, Idle)
BY IdleType DEF Become, Moves, HandshakeFrames

-----------------------------------------------------------------------------
(* The shared procedures, in a step that leaves the registry alone.        *)

\* #writeEncoded suspends the thread, on the write or on its refusal.
LEMMA WriteMoves ==
  ASSUME NEW p \in Threads, NEW s, NEW allowed,
         NEW frame \in {"challenge", "accepted", "rejected", "hello", "heartbeat", "app", "goodbye"},
         NEW why \in Reasons, NEW after \in {"none", "onProtocolError", "onHeartbeatTimeout"},
         frame \in HandshakeFrames => p = Queue /\ ~hello,
         Write(p, s, frame, allowed, why, after)
  PROVE  \E t : Moves(p, t)
<1> DEFINE t(pc) == Suspended(pc, frame, why, after)
<1>1. \A pc \in {"write", "unwritten"} : t(pc) \in ThreadState /\ t(pc).frame = frame
  BY SuspendedType
<1>2. thread' = [thread EXCEPT ![p] = t("write")] \/ thread' = [thread EXCEPT ![p] = t("unwritten")]
  BY DEF Write, Become
<1> HIDE DEF t
<1>3. Moves(p, t("write")) \/ Moves(p, t("unwritten"))
  BY <1>1, <1>2 DEF Moves
<1> QED
  BY <1>3

\* #requestTransportClose suspends the thread on the way to #finalize.
LEMMA CloseMoves ==
  ASSUME NEW p \in Threads, NEW why \in Reasons,
         NEW after \in {"none", "onProtocolError", "onHeartbeatTimeout"},
         RequestTransportClose(p, why, after)
  PROVE  \E t : Moves(p, t)
<1> DEFINE pc == IF closeRequested THEN "finalize" ELSE "close"
<1>1. Moves(p, Suspended(pc, "none", why, after))
  BY SuspendedType DEF RequestTransportClose, Become, Moves, HandshakeFrames
<1> QED
  BY <1>1

\* A deliberate end of a session that is not closed is tame.
LEMMA ShutIsTame ==
  ASSUME SessionInvariant, NEW p \in Threads, NEW why \in Reasons,
         NEW farewell \in {"none", "goodbye", "rejected"},
         NEW after \in {"none", "onProtocolError", "onHeartbeatTimeout"},
         state # "closed",
         Shut(p, why, farewell, after), UNCHANGED <<hello, connects, disconnects>>
  PROVE  Tame
<1>1. \E t : Moves(p, t)
  <2>1. CASE farewell = "none"
    BY <2>1, CloseMoves DEF Shut
  <2>2. CASE farewell # "none"
    BY <2>2, WriteMoves DEF Shut, HandshakeFrames
  <2> QED
    BY <2>1, <2>2
<1> QED
  BY <1>1 DEF Shut, Tame

\* An early return is tame.
LEMMA ReturnIsTame ==
  ASSUME SessionInvariant, NEW p \in Threads, Return(p),
         UNCHANGED <<hello, connects, disconnects>>
  PROVE  Tame
BY ReturnMoves DEF Return, Tame, SessionInvariant

\* #transportFailed, #rejectAuthentication and #protocolViolation are tame.
LEMMA FailuresAreTame ==
  ASSUME SessionInvariant, NEW p \in Threads,
         TransportFailed(p) \/ RejectAuthentication(p) \/ ProtocolViolation(p),
         UNCHANGED <<hello, connects, disconnects>>
  PROVE  Tame
<1>1. CASE TransportFailed(p)
  BY <1>1, ReturnIsTame, ShutIsTame DEF TransportFailed, Reasons
<1>2. CASE RejectAuthentication(p)
  BY <1>2, ReturnIsTame, ShutIsTame DEF RejectAuthentication, Reasons
<1>3. CASE ProtocolViolation(p)
  <2>1. CASE state \in {"closing", "closed"}
    BY <1>3, <2>1, ReturnIsTame DEF ProtocolViolation
  <2>2. CASE state = "authenticating"
    BY <1>2, <1>3, <2>2 DEF ProtocolViolation
  <2>3. CASE state = "handshaking"
    BY <1>3, <2>3, ShutIsTame DEF ProtocolViolation, Reasons
  <2>4. CASE state = "connected"
    BY <1>3, <2>4, ShutIsTame DEF ProtocolViolation, Reasons
  <2> QED
    BY <2>1, <2>2, <2>3, <2>4 DEF SessionInvariant, States
<1> QED
  BY <1>1, <1>2, <1>3

\* #sendHeartbeat is tame.
LEMMA HeartbeatIsTame ==
  ASSUME SessionInvariant, NEW p \in Threads, SendHeartbeat(p),
         UNCHANGED <<hello, connects, disconnects>>
  PROVE  Tame
<1>1. CASE state # "connected"
  BY <1>1, ReturnIsTame DEF SendHeartbeat
<1>2. CASE state = "connected"
  <2>1. \E t : Moves(p, t)
    BY <1>2, WriteMoves DEF SendHeartbeat, HandshakeFrames, Reasons
  <2> QED
    BY <1>2, <2>1 DEF SendHeartbeat, Tame, SessionInvariant
<1> QED
  BY <1>1, <1>2

-----------------------------------------------------------------------------
(* The actions.                                                            *)

\* The processing chain is one of the threads.
LEMMA QueueIsThread == Queue \in Threads /\ \A p \in Calls : p \in Threads
BY DEF Threads

\* Handling a received frame is tame (#receiveMessage).
LEMMA ReceiveIsTame ==
  ASSUME SessionInvariant, NEW f, ReceiveMessage(f)
  PROVE  Tame
<1>1. CASE state \in {"closing", "closed"} /\ Return(Queue) /\ UNCHANGED <<agent, history>>
  BY <1>1, QueueIsThread, ReturnIsTame DEF agent, history
<1>2. CASE state = "authenticating" /\ Authenticate(f)
  <2>0. ~hello /\ UNCHANGED <<hello, connects, disconnects>>
    BY <1>2 DEF SessionInvariant, Authenticate, agent, history
  <2>1. CASE f \in {"auth_valid", "auth_unknown"}
    <3>1. Moves(Queue, Suspended("lookup", f, "none", "none"))
      BY <1>2, <2>0, <2>1, QueueIsThread, SuspendedType
      DEF Authenticate, Become, Moves, FrameClasses, Reasons
    <3> QED
      BY <1>2, <2>0, <2>1, <3>1 DEF Authenticate, Tame, SessionInvariant
  <2>2. CASE f \notin {"auth_valid", "auth_unknown"}
    BY <1>2, <2>0, <2>2, QueueIsThread, FailuresAreTame DEF Authenticate
  <2> QED
    BY <2>1, <2>2
<1>3. CASE state = "handshaking" /\ CompleteHandshake(f)
  <2>0. ~hello /\ UNCHANGED <<hello, connects, disconnects>>
    BY <1>3 DEF SessionInvariant, CompleteHandshake, agent, history
  <2>1. CASE f = "hello"
    <3>1. \E t : Moves(Queue, t)
      BY <1>3, <2>0, <2>1, QueueIsThread, WriteMoves DEF CompleteHandshake, Reasons
    <3> QED
      BY <1>3, <2>0, <2>1, <3>1 DEF CompleteHandshake, Tame, SessionInvariant
  <2>2. CASE f # "hello"
    BY <1>3, <2>0, <2>2, QueueIsThread, FailuresAreTame DEF CompleteHandshake
  <2> QED
    BY <2>1, <2>2
<1>4. CASE state = "connected" /\ RouteMessage(f)
  <2>0. UNCHANGED <<hello, connects, disconnects>>
    BY <1>4 DEF RouteMessage, history
  <2>1. CASE Become(Queue, Idle) /\ UNCHANGED <<state, reason>>
    BY <2>0, <2>1, QueueIsThread, ReturnMoves DEF Tame, SessionInvariant
  <2>2. CASE Become(Queue, Suspended("callback", "report", "none", "none"))
             /\ UNCHANGED <<state, reason>>
    <3> DEFINE t == Suspended("callback", "report", "none", "none")
    <3>0. t \in ThreadState /\ t.frame = "report"
      BY SuspendedType DEF Reasons
    <3>1. Moves(Queue, t)
      BY <2>2, <3>0, QueueIsThread DEF Become, Moves, HandshakeFrames
    <3> QED
      BY <2>0, <2>2, <3>1 DEF Tame, SessionInvariant
  <2>3. CASE ProtocolViolation(Queue)
    BY <2>0, <2>3, QueueIsThread, FailuresAreTame
  <2> QED
    BY <1>4, <2>1, <2>2, <2>3 DEF RouteMessage
<1> QED
  BY <1>1, <1>2, <1>3, <1>4 DEF ReceiveMessage

\* Running the next operation of the processing chain is tame (#enqueue).
LEMMA OperationIsTame ==
  ASSUME SessionInvariant, RunOperation
  PROVE  Tame
<1>1. CASE BeginAuthentication
  <2>1. \E t : Moves(Queue, t)
    BY <1>1, QueueIsThread, WriteMoves DEF BeginAuthentication, HandshakeFrames, Reasons
  <2> QED
    BY <1>1, <2>1 DEF BeginAuthentication, Tame, SessionInvariant, agent, history
<1>2. CASE AuthenticationTimeout
  BY <1>2, QueueIsThread, FailuresAreTame DEF AuthenticationTimeout, agent, history
<1>3. CASE HandshakeTimeout
  BY <1>3, QueueIsThread, FailuresAreTame DEF HandshakeTimeout, agent, history
<1>4. CASE HandleTransportClosed
  <2>0. UNCHANGED <<hello, connects, disconnects>>
    BY <1>4 DEF HandleTransportClosed, agent, history
  <2>1. CASE state = "closed" /\ Return(Queue)
    BY <2>0, <2>1, QueueIsThread, ReturnIsTame
  <2>2. CASE state # "closed"
    <3>0. PICK given \in {"peer-closed", "transport-error"} :
            Become(Queue, Suspended("finalize", "none",
                                    IF reason # "none" THEN reason ELSE given, "none"))
      BY <1>4, <2>2 DEF HandleTransportClosed
    <3> DEFINE why == IF reason # "none" THEN reason ELSE given
    <3>1. why \in Reasons
      BY DEF SessionInvariant, Reasons
    <3>2. Become(Queue, Suspended("finalize", "none", why, "none")) /\ UNCHANGED <<state, reason>>
      BY <1>4, <2>2, <3>0 DEF HandleTransportClosed
    <3> HIDE DEF why
    <3>3. Moves(Queue, Suspended("finalize", "none", why, "none"))
      BY <3>1, <3>2, QueueIsThread, SuspendedType DEF Become, Moves, HandshakeFrames
    <3> QED
      BY <2>0, <3>2, <3>3 DEF Tame, SessionInvariant
  <2> QED
    BY <1>4, <2>1, <2>2 DEF HandleTransportClosed
<1>5. CASE ReceiveMessage(Head(queue))
  BY <1>5, ReceiveIsTame
<1> QED
  BY <1>1, <1>2, <1>3, <1>4, <1>5 DEF RunOperation

-----------------------------------------------------------------------------
(* Code after an await.                                                    *)

\* The answer of the credential store is handled tamely (#authenticate).
LEMMA LookupIsTame ==
  ASSUME SessionInvariant, LookupDone
  PROVE  Tame
<1>0. UNCHANGED <<hello, connects, disconnects>>
  BY DEF LookupDone, history
<1>1. CASE /\ thread[Queue].frame = "auth_valid"
           /\ Write(Queue, state, "accepted", {"authenticating"}, "none", "none")
           /\ UNCHANGED <<state, reason>>
  <2>1. ~hello
    BY <1>1, QueueIsThread DEF SessionInvariant, HandshakeFrames
  <2>2. \E t : Moves(Queue, t)
    BY <1>1, <2>1, QueueIsThread, WriteMoves DEF Reasons
  <2> QED
    BY <1>0, <1>1, <2>2 DEF Tame, SessionInvariant
<1>2. CASE RejectAuthentication(Queue)
  BY <1>0, <1>2, QueueIsThread, FailuresAreTame
<1> QED
  BY <1>1, <1>2 DEF LookupDone

\* The results of writes and closes are handled tamely by every thread.
LEMMA AwaitsAreTame ==
  ASSUME SessionInvariant, NEW p \in Threads,
         \/ WriteDone \/ ChallengeSent \/ Farewell(p) \/ WriteFailed(p) \/ FrameSent(p)
         \/ TransportCloseDone(p)
  PROVE  Tame
<1>0. UNCHANGED <<hello, connects, disconnects>>
  BY DEF WriteDone, ChallengeSent, Farewell, WriteFailed, FrameSent, TransportCloseDone,
         agent, history
<1>1. CASE WriteDone
  <2>1. PICK result \in {"written", "unwritten"} :
          thread' = [thread EXCEPT ![Head(outbound)].pc = result]
    BY <1>1 DEF WriteDone
  <2>2. Advances(Head(outbound), result)
    BY <2>1 DEF Advances
  <2> QED
    BY <1>0, <1>1, <2>2 DEF WriteDone, Tame, SessionInvariant
<1>2. CASE ChallengeSent
  BY <1>0, <1>2, QueueIsThread, ReturnMoves DEF ChallengeSent, Tame, SessionInvariant
<1>3. CASE Farewell(p)
  <2>1. /\ thread[p].why \in Reasons
        /\ thread[p].after \in {"none", "onProtocolError", "onHeartbeatTimeout"}
    BY DEF SessionInvariant, ThreadState
  <2>2. \E t : Moves(p, t)
    BY <1>3, <2>1, CloseMoves DEF Farewell
  <2> QED
    BY <1>0, <1>3, <2>2 DEF Farewell, Tame, SessionInvariant
<1>4. CASE WriteFailed(p)
  BY <1>0, <1>4, FailuresAreTame DEF WriteFailed
<1>5. CASE FrameSent(p)
  BY <1>0, <1>5, ReturnMoves DEF FrameSent, Tame, SessionInvariant
<1>6. CASE TransportCloseDone(p)
  <2>1. Advances(p, "finalize")
    BY <1>6 DEF TransportCloseDone, Advances
  <2> QED
    BY <1>0, <1>6, <2>1 DEF TransportCloseDone, Tame, SessionInvariant
<1> QED
  BY <1>1, <1>2, <1>3, <1>4, <1>5, <1>6

\* What a thread does after #finalize is a suspension outside the handshake.
LEMMA FinishedType ==
  ASSUME NEW p PROVE Finished(p) \in ThreadState /\ Finished(p).frame = "none"
BY IdleType, SuspendedType DEF Finished, Reasons

\* The return of a host callback is tame (#invoke).
LEMMA CallbackIsTame ==
  ASSUME SessionInvariant, NEW p \in Threads, CallbackDone(p)
  PROVE  Tame
<1>0. UNCHANGED <<hello, connects, disconnects>>
  BY DEF CallbackDone, history
<1>1. CASE SendHeartbeat(p)
  BY <1>0, <1>1, HeartbeatIsTame
<1>2. CASE Become(p, Finished(p)) /\ UNCHANGED <<state, reason>>
  <2>1. Moves(p, Finished(p))
    BY <1>2, FinishedType DEF Become, Moves, HandshakeFrames
  <2> QED
    BY <1>0, <1>2, <2>1 DEF Tame, SessionInvariant
<1> QED
  BY <1>1, <1>2 DEF CallbackDone

-----------------------------------------------------------------------------
(* Timers, the peer and the host.                                          *)

\* Timers that queue an operation, received frames and the end of the
\* transport only add to the processing chain.
LEMMA ArrivalsAreTame ==
  ASSUME SessionInvariant, NEW f,
         AuthenticationTimer \/ HandshakeTimer \/ Receive(f) \/ TransportClosed
  PROVE  Tame
BY UnchangedIsTame
DEF AuthenticationTimer, HandshakeTimer, Receive, TransportClosed, control, agent, history

\* A call outside the processing chain is tame: disconnect(), send(), the
\* heartbeat interval and the heartbeat deadline.
LEMMA CallsAreTame ==
  ASSUME SessionInvariant, NEW p \in Calls,
         HeartbeatInterval(p) \/ HeartbeatDeadline(p) \/ Disconnect(p) \/ Send(p)
  PROVE  Tame
<1>0. p \in Threads /\ UNCHANGED <<hello, connects, disconnects>>
  BY QueueIsThread
  DEF HeartbeatInterval, HeartbeatDeadline, Disconnect, Send, agent, history
<1>1. CASE HeartbeatInterval(p)
  BY <1>0, <1>1, HeartbeatIsTame DEF HeartbeatInterval
<1>2. CASE HeartbeatDeadline(p)
  <2>1. CASE state = "connected"
    BY <1>0, <1>2, <2>1, ShutIsTame DEF HeartbeatDeadline, Reasons
  <2>2. CASE state # "connected"
    BY <1>0, <1>2, <2>2, UnchangedIsTame DEF HeartbeatDeadline
  <2> QED
    BY <2>1, <2>2
<1>3. CASE Disconnect(p)
  <2>1. CASE state = "connected"
    BY <1>0, <1>3, <2>1, ShutIsTame DEF Disconnect, Reasons
  <2>2. CASE state # "connected"
    BY <1>0, <1>3, <2>2, ShutIsTame DEF Disconnect, Reasons
  <2> QED
    BY <2>1, <2>2
<1>4. CASE Send(p)
  <2>1. \E t : Moves(p, t)
    BY <1>0, <1>4, WriteMoves DEF Send, HandshakeFrames, Reasons
  <2> QED
    BY <1>0, <1>4, <2>1 DEF Send, Tame, SessionInvariant
<1> QED
  BY <1>1, <1>2, <1>3, <1>4

-----------------------------------------------------------------------------
(* The three steps that are not tame.                                      *)

\* The acceptance of a response opens the handshake (#authenticate).
LEMMA AcceptanceStep == SessionInvariant /\ AcceptanceSent => SessionInvariant'
<1> SUFFICES ASSUME SessionInvariant, AcceptanceSent PROVE SessionInvariant'
  OBVIOUS
<1>1. ~hello /\ hello' = hello /\ connects' = connects /\ disconnects' = disconnects
  BY QueueIsThread DEF SessionInvariant, AcceptanceSent, HandshakeFrames, agent, history
<1>2. thread' = [thread EXCEPT ![Queue] = Idle]
  BY DEF AcceptanceSent, Become
<1>3. /\ thread' \in [Threads -> ThreadState]
      /\ \A p \in Threads : thread'[p].frame \in HandshakeFrames => p = Queue /\ ~hello
  BY <1>2, IdleType, QueueIsThread DEF SessionInvariant, HandshakeFrames
<1> QED
  BY <1>1, <1>3 DEF SessionInvariant, AcceptanceSent, States

\* The hello is answered: the session is connected and the host is told
\* (#completeHandshake).
LEMMA HelloStep == SessionInvariant /\ HelloSent => SessionInvariant'
<1> SUFFICES ASSUME SessionInvariant, HelloSent PROVE SessionInvariant'
  OBVIOUS
<1> DEFINE t == Suspended("callback", "connected", "none", "none")
<1>1. t \in ThreadState /\ t.frame = "connected"
  BY SuspendedType DEF Reasons
<1>2. ~hello /\ hello' = TRUE /\ connects = 0 /\ connects' = 1 /\ disconnects' = 0
  BY QueueIsThread DEF SessionInvariant, HelloSent, HandshakeFrames
<1>3. thread' = [thread EXCEPT ![Queue] = t]
  BY DEF HelloSent, Become
<1> HIDE DEF t
<1>4. /\ thread' \in [Threads -> ThreadState]
      /\ \A p \in Threads : thread'[p].frame \notin HandshakeFrames
  BY <1>1, <1>3, QueueIsThread DEF SessionInvariant, HandshakeFrames
<1> QED
  BY <1>2, <1>4 DEF SessionInvariant, HelloSent, States

\* The session is closed, and the host is told if it had been told of the
\* connection (#finalize).
LEMMA FinalizeStep ==
  ASSUME SessionInvariant, NEW p \in Threads, Finalize(p)
  PROVE  SessionInvariant'
<1>1. CASE state = "closed" /\ Become(p, Finished(p)) /\ UNCHANGED <<state, reason, disconnects>>
  <2>1. Moves(p, Finished(p))
    BY <1>1, FinishedType DEF Become, Moves, HandshakeFrames
  <2>2. Tame
    BY <1>1, <2>1 DEF Finalize, Tame, SessionInvariant
  <2> QED
    BY <2>2, TameStep
<1>2. CASE state # "closed"
  <2> DEFINE t == IF hello THEN Suspended("callback", "closed", "none", thread[p].after)
                           ELSE Finished(p)
  <2>1. /\ state' = "closed" /\ reason' = thread[p].why
        /\ disconnects' = IF hello THEN disconnects + 1 ELSE disconnects
        /\ thread' = [thread EXCEPT ![p] = t]
        /\ hello' = hello /\ connects' = connects
    BY <1>2 DEF Finalize, Become
  <2>2. /\ thread[p].why \in Reasons
        /\ thread[p].after \in {"none", "onProtocolError", "onHeartbeatTimeout"}
    BY DEF SessionInvariant, ThreadState
  <2> DEFINE told == Suspended("callback", "closed", "none", thread[p].after)
  <2>3. t \in ThreadState /\ t.frame \in {"closed", "none"}
    <3>1. told \in ThreadState /\ told.frame = "closed"
      BY <2>2 DEF Suspended, ThreadState, Reasons
    <3> QED
      BY <3>1, FinishedType
  <2> HIDE DEF t
  <2>4. /\ thread' \in [Threads -> ThreadState]
        /\ \A q \in Threads : thread'[q].frame \in HandshakeFrames => q = Queue /\ ~hello
    BY <2>1, <2>3 DEF SessionInvariant, HandshakeFrames
  <2>5. disconnects = 0
    BY <1>2 DEF SessionInvariant
  <2> QED
    BY <2>1, <2>2, <2>4, <2>5 DEF SessionInvariant, States
<1> QED
  BY <1>1, <1>2 DEF Finalize

-----------------------------------------------------------------------------

\* Every step keeps the invariant.
LEMMA StepInvariant == SessionInvariant /\ [Next]_vars => SessionInvariant'
<1> SUFFICES ASSUME SessionInvariant, [Next]_vars PROVE SessionInvariant'
  OBVIOUS
<1>1. CASE RunOperation
  BY <1>1, OperationIsTame, TameStep
<1>2. CASE LookupDone
  BY <1>2, LookupIsTame, TameStep
<1>3. CASE WriteDone \/ ChallengeSent
  BY <1>3, QueueIsThread, AwaitsAreTame, TameStep
<1>4. CASE AcceptanceSent
  BY <1>4, AcceptanceStep
<1>5. CASE HelloSent
  BY <1>5, HelloStep
<1>6. ASSUME NEW p \in Threads, Resume(p) PROVE SessionInvariant'
  <2>1. CASE Farewell(p) \/ WriteFailed(p) \/ FrameSent(p) \/ TransportCloseDone(p)
    BY <2>1, AwaitsAreTame, TameStep
  <2>2. CASE Finalize(p)
    BY <2>2, FinalizeStep
  <2>3. CASE CallbackDone(p)
    BY <2>3, CallbackIsTame, TameStep
  <2> QED
    BY <1>6, <2>1, <2>2, <2>3 DEF Resume
<1>7. CASE AuthenticationTimer \/ HandshakeTimer \/ TransportClosed
  BY <1>7, ArrivalsAreTame, TameStep
<1>8. ASSUME NEW f \in FrameClasses, Receive(f) PROVE SessionInvariant'
  BY <1>8, ArrivalsAreTame, TameStep
<1>9. ASSUME NEW p \in Calls,
             HeartbeatInterval(p) \/ HeartbeatDeadline(p) \/ Disconnect(p) \/ Send(p)
      PROVE  SessionInvariant'
  BY <1>9, CallsAreTame, TameStep
<1>10. CASE UNCHANGED vars
  BY <1>10, UnchangedIsTame, TameStep DEF vars, control, agent, history
<1> QED
  BY <1>1, <1>2, <1>3, <1>4, <1>5, <1>6, <1>7, <1>8, <1>9, <1>10 DEF Next

\* The session's invariant holds in every behaviour, for any number of
\* concurrent disconnect(), send() and heartbeat calls.
THEOREM SessionInvariantHolds == Spec => []SessionInvariant
BY InitInvariant, StepInvariant, PTL DEF Spec

\* The host's registry stays right: each of onAgentConnected and
\* onAgentDisconnected is called at most once, in that order, and a closed
\* session is never left registered, whichever closers race (#finalize).
THEOREM RegistryAlwaysMatches == Spec => []RegistryMatchesSession
<1>1. SessionInvariant => RegistryMatchesSession
  BY DEF SessionInvariant, RegistryMatchesSession
<1> QED
  BY <1>1, SessionInvariantHolds, PTL


-----------------------------------------------------------------------------
(* The farewell.                                                           *)

\* The session is on its way out for good: a handler that is still suspended
\* cannot bring it back, because the handshake was completed.
Leaving == hello /\ state \in {"closing", "closed"}

\* The threads that wait on #outbound, one entry for each, and the place of the
\* farewell among them.  A farewell exists only when the session is leaving.
FarewellInvariant ==
  /\ outbound \in Seq(Threads)
  /\ \A i \in 1 .. Len(outbound) : thread[outbound[i]].pc = "write"
  /\ \A i, k \in 1 .. Len(outbound) : outbound[i] = outbound[k] => i = k
  /\ \A i \in 1 .. Len(outbound) : thread[outbound[i]].frame = "goodbye" => i = Len(outbound)
  /\ goodbye => outbound = << >> /\ Leaving
  /\ \A p \in Threads : thread[p].frame = "goodbye" => Leaving

\* A step that puts nothing on #outbound and starts no farewell.
Quiet ==
  /\ UNCHANGED <<outbound, goodbye>>
  /\ Leaving => Leaving'
  /\ \/ thread' = thread
     \/ \E p \in Threads : \E t :
          /\ thread[p].pc # "write"
          /\ thread' = [thread EXCEPT ![p] = t]
          /\ t.frame = "goodbye" => thread[p].frame = "goodbye"

\* A step that puts a thread on #outbound, which a leaving session no longer does.
Queued ==
  \E p \in Threads : \E t :
    /\ ~Leaving
    /\ thread[p].pc # "write" /\ t.pc = "write"
    /\ thread' = [thread EXCEPT ![p] = t]
    /\ t.frame = "goodbye" => Leaving'
    /\ outbound' = Append(outbound, p) /\ UNCHANGED goodbye

Orderly == Quiet \/ Queued

\* A quiet step keeps the order of #outbound.
LEMMA QuietStep ==
  ASSUME SessionInvariant, FarewellInvariant, Quiet
  PROVE  FarewellInvariant'
<1>1. CASE thread' = thread
  BY <1>1 DEF FarewellInvariant, Quiet
<1>2. ASSUME NEW p \in Threads, NEW t, thread[p].pc # "write", thread' = [thread EXCEPT ![p] = t],
             t.frame = "goodbye" => thread[p].frame = "goodbye"
      PROVE  FarewellInvariant'
  <2>1. /\ thread'[p] = t
        /\ \A q \in Threads : q # p => thread'[q] = thread[q]
    BY <1>2 DEF SessionInvariant
  <2>2. outbound \in Seq(Threads) /\ Len(outbound) \in Nat
    BY LenProperties DEF FarewellInvariant
  <2>3. \A i \in 1 .. Len(outbound) : outbound[i] \in Threads /\ outbound[i] # p
    BY <1>2, <2>2, ElementOfSeq DEF FarewellInvariant
  <2>4. \A i \in 1 .. Len(outbound) : thread'[outbound[i]] = thread[outbound[i]]
    BY <2>1, <2>3
  <2>5. \A q \in Threads : thread'[q].frame = "goodbye" => Leaving'
    BY <1>2, <2>1 DEF FarewellInvariant, Quiet
  <2>6. goodbye' => outbound' = << >> /\ Leaving'
    BY DEF FarewellInvariant, Quiet
  <2>7. outbound' = outbound
    BY DEF Quiet
  <2>. QED
    BY <2>4, <2>5, <2>6, <2>7 DEF FarewellInvariant
<1>. QED
  BY <1>1, <1>2 DEF Quiet

\* What waits on #outbound while the session is not leaving is no farewell.
LEMMA QueuedStep ==
  ASSUME SessionInvariant, FarewellInvariant, Queued
  PROVE  FarewellInvariant'
<1>0. PICK p \in Threads : \E t :
        /\ ~Leaving
        /\ thread[p].pc # "write" /\ t.pc = "write"
        /\ thread' = [thread EXCEPT ![p] = t]
        /\ t.frame = "goodbye" => Leaving'
        /\ outbound' = Append(outbound, p) /\ goodbye' = goodbye
  BY DEF Queued
<1>1. PICK t :
        /\ ~Leaving
        /\ thread[p].pc # "write" /\ t.pc = "write"
        /\ thread' = [thread EXCEPT ![p] = t]
        /\ t.frame = "goodbye" => Leaving'
        /\ outbound' = Append(outbound, p) /\ goodbye' = goodbye
  BY <1>0
<1>. DEFINE n == Len(outbound)
            o == Append(outbound, p)
<1>2. outbound \in Seq(Threads) /\ n \in Nat
  BY LenProperties DEF FarewellInvariant
<1>3. /\ o \in Seq(Threads) /\ Len(o) = n + 1 /\ o[n + 1] = p
      /\ \A i \in 1 .. n : o[i] = outbound[i]
  BY <1>2, AppendProperties
<1>4. /\ thread'[p] = t
      /\ \A q \in Threads : q # p => thread'[q] = thread[q]
  BY <1>1 DEF SessionInvariant
<1>5. \A i \in 1 .. n : outbound[i] \in Threads /\ outbound[i] # p
  BY <1>1, <1>2, ElementOfSeq DEF FarewellInvariant
<1>6. \A i \in 1 .. n : /\ thread'[outbound[i]].pc = "write"
                        /\ thread'[outbound[i]].frame # "goodbye"
  BY <1>1, <1>4, <1>5 DEF FarewellInvariant
<1>7. \A i, k \in 1 .. n : outbound[i] = outbound[k] => i = k
  BY DEF FarewellInvariant
<1>8. ~goodbye'
  BY <1>1 DEF FarewellInvariant
<1>9. \A q \in Threads : thread'[q].frame = "goodbye" => Leaving'
  BY <1>1, <1>4 DEF FarewellInvariant
<1>10. \A i \in 1 .. n + 1 : i \in 1 .. n \/ i = n + 1
  BY <1>2
<1>11. outbound' = o
  BY <1>1
<1>. HIDE DEF o, n
<1>12. \A i \in 1 .. n + 1 : thread'[o[i]].pc = "write"
  BY <1>1, <1>3, <1>4, <1>6, <1>10
<1>13. \A i \in 1 .. n + 1 : thread'[o[i]].frame = "goodbye" => i = n + 1
  BY <1>3, <1>6, <1>10
<1>14. \A i, k \in 1 .. n + 1 : o[i] = o[k] => i = k
  BY <1>3, <1>5, <1>7, <1>10
<1>. QED
  BY <1>3, <1>8, <1>9, <1>11, <1>12, <1>13, <1>14 DEF FarewellInvariant

\* The transport takes the first frame: if it is the farewell, it is the last.
LEMMA WriteDoneStep ==
  ASSUME SessionInvariant, FarewellInvariant, WriteDone
  PROVE  FarewellInvariant'
<1>. DEFINE h == Head(outbound)
            n == Len(outbound)
            o == Tail(outbound)
<1>1. /\ outbound # << >> /\ outbound' = o
      /\ UNCHANGED <<state, hello>>
  BY DEF WriteDone, agent
<1>2. PICK result \in {"written", "unwritten"} :
        /\ thread' = [thread EXCEPT ![h].pc = result]
        /\ goodbye' = (goodbye \/ (result = "written" /\ thread[h].frame = "goodbye"))
  BY DEF WriteDone
<1>3. outbound \in Seq(Threads) /\ n \in Nat /\ n # 0 /\ h = outbound[1] /\ h \in Threads
  <2>1. outbound \in Seq(Threads)
    BY DEF FarewellInvariant
  <2>. QED
    BY <1>1, <2>1, LenProperties, EmptySeq, HeadTailProperties
<1>4. /\ o \in Seq(Threads) /\ Len(o) = n - 1
      /\ \A i \in 1 .. n - 1 : o[i] = outbound[i + 1]
  BY <1>1, <1>3, HeadTailProperties
<1>5. \A i \in 1 .. n : outbound[i] \in Threads
  BY <1>3, ElementOfSeq
<1>6. /\ \A q \in Threads : q # h => thread'[q] = thread[q]
      /\ thread'[h].frame = thread[h].frame
  BY <1>2, <1>3 DEF SessionInvariant, ThreadState
<1>7. \A i \in 1 .. n - 1 : i + 1 \in 1 .. n /\ i + 1 # 1 /\ (i + 1 = n => i = n - 1)
  BY <1>3
<1>8. \A i \in 1 .. n - 1 : o[i] \in Threads /\ o[i] # h
  <2>1. 1 \in 1 .. n
    BY <1>3
  <2>. QED
    BY <1>3, <1>4, <1>5, <1>7, <2>1 DEF FarewellInvariant
<1>9. \A i \in 1 .. n - 1 : thread'[o[i]] = thread[outbound[i + 1]]
  BY <1>4, <1>6, <1>8
<1>10. \A q \in Threads : thread'[q].frame = "goodbye" => Leaving'
  BY <1>1, <1>3, <1>6 DEF FarewellInvariant, Leaving
<1>11. goodbye' => o = << >> /\ Leaving'
  <2>1. ~goodbye
    BY <1>1 DEF FarewellInvariant
  <2>2. ASSUME thread[h].frame = "goodbye" PROVE o = << >> /\ Leaving'
    <3>1. 1 \in 1 .. n /\ thread[outbound[1]].frame = "goodbye"
      BY <1>3, <2>2
    <3>2. n = 1
      BY <3>1 DEF FarewellInvariant
    <3>3. Len(o) = 0
      BY <1>4, <3>2
    <3>4. o = << >>
      BY <1>4, <3>3, EmptySeq
    <3>. QED
      BY <1>1, <1>3, <2>2, <3>4 DEF FarewellInvariant, Leaving
  <2>. QED
    BY <1>2, <2>1, <2>2
<1>. HIDE DEF o, h
<1>12. \A i \in 1 .. n - 1 : /\ thread'[o[i]].pc = "write"
                             /\ thread'[o[i]].frame = "goodbye" => i = n - 1
  BY <1>7, <1>9 DEF FarewellInvariant
<1>13. \A i, k \in 1 .. n - 1 : o[i] = o[k] => i = k
  <2>. SUFFICES ASSUME NEW i \in 1 .. n - 1, NEW k \in 1 .. n - 1, o[i] = o[k] PROVE i = k
    OBVIOUS
  <2>1. outbound[i + 1] = outbound[k + 1] /\ i + 1 \in 1 .. n /\ k + 1 \in 1 .. n
    BY <1>4, <1>7
  <2>2. i + 1 = k + 1
    BY <2>1 DEF FarewellInvariant
  <2>. QED
    BY <1>3, <2>2
<1>. HIDE DEF n
<1>14. outbound' = o /\ Len(o) = n - 1
  BY <1>1, <1>4
<1>. QED
  BY <1>4, <1>10, <1>11, <1>12, <1>13, <1>14 DEF FarewellInvariant

\* A suspension has the program counter and the frame it is given.
LEMMA SuspendedFields ==
  ASSUME NEW pc, NEW frame, NEW why, NEW after
  PROVE  /\ Suspended(pc, frame, why, after).pc = pc
         /\ Suspended(pc, frame, why, after).frame = frame
BY DEF Suspended

\* A thread that is not writing goes on without a farewell.
LEMMA BecomeIsOrderly ==
  ASSUME NEW p \in Threads, thread[p].pc # "write", NEW t, t.frame # "goodbye",
         Become(p, t), UNCHANGED <<outbound, goodbye>>, Leaving => Leaving'
  PROVE  Orderly
BY DEF Become, Orderly, Quiet

\* #writeEncoded of a session that is leaving is refused.
LEMMA WriteIsOrderly ==
  ASSUME NEW p \in Threads, thread[p].pc # "write",
         NEW s, NEW frame, NEW allowed, NEW why, NEW after,
         Leaving => s \notin allowed /\ Leaving',
         frame = "goodbye" => s \in allowed /\ Leaving',
         Write(p, s, frame, allowed, why, after), UNCHANGED goodbye
  PROVE  Orderly
<1>1. CASE s \in allowed
  <2>. DEFINE t == Suspended("write", frame, why, after)
  <2>1. thread' = [thread EXCEPT ![p] = t] /\ outbound' = Append(outbound, p)
    BY <1>1 DEF Write, Become
  <2>2. t.pc = "write" /\ t.frame = frame
    BY SuspendedFields
  <2>. HIDE DEF t
  <2>3. Queued
    BY <1>1, <2>1, <2>2 DEF Queued
  <2>. QED
    BY <2>3 DEF Orderly
<1>2. CASE s \notin allowed
  <2>. DEFINE t == Suspended("unwritten", frame, why, after)
  <2>1. Become(p, t) /\ outbound' = outbound
    BY <1>2 DEF Write
  <2>2. t.frame = frame
    BY SuspendedFields
  <2>. HIDE DEF t
  <2>. QED
    BY <1>2, <2>1, <2>2, BecomeIsOrderly
<1>. QED
  BY <1>1, <1>2

\* #requestTransportClose.
LEMMA CloseIsOrderly ==
  ASSUME NEW p \in Threads, thread[p].pc # "write", NEW why, NEW after,
         RequestTransportClose(p, why, after), UNCHANGED <<outbound, goodbye>>,
         Leaving => Leaving'
  PROVE  Orderly
<1>. DEFINE t == Suspended(IF closeRequested THEN "finalize" ELSE "close", "none", why, after)
<1>1. Become(p, t) /\ t.frame = "none"
  BY SuspendedFields DEF RequestTransportClose
<1>. HIDE DEF t
<1>. QED
  BY <1>1, BecomeIsOrderly

\* A deliberate end says farewell only if it is the first to end the session.
LEMMA ShutIsOrderly ==
  ASSUME NEW p \in Threads, thread[p].pc # "write", NEW why, NEW after,
         NEW farewell \in {"none", "goodbye", "rejected"},
         farewell # "none" => ~Leaving, farewell = "goodbye" => hello,
         Shut(p, why, farewell, after), UNCHANGED <<hello, goodbye>>
  PROVE  Orderly
<1>1. state' = "closing" /\ (hello => Leaving')
  BY DEF Shut, Leaving
<1>2. Leaving => Leaving'
  BY <1>1 DEF Leaving
<1>3. CASE farewell = "none"
  BY <1>2, <1>3, CloseIsOrderly DEF Shut
<1>4. CASE farewell # "none"
  <2>1. Write(p, "closing", farewell, {"closing"}, why, after)
    BY <1>4 DEF Shut
  <2>. QED
    BY <1>1, <1>4, <2>1, WriteIsOrderly
<1>. QED
  BY <1>3, <1>4

\* An early return.
LEMMA ReturnIsOrderly ==
  ASSUME NEW p \in Threads, thread[p].pc # "write", Return(p), UNCHANGED <<hello, goodbye>>
  PROVE  Orderly
<1>1. Leaving => Leaving'
  BY DEF Return, Leaving
<1>. QED
  BY <1>1, IdleType, BecomeIsOrderly DEF Return

\* #transportFailed, #rejectAuthentication and #protocolViolation.
LEMMA FailuresAreOrderly ==
  ASSUME SessionInvariant, NEW p \in Threads, thread[p].pc # "write",
         TransportFailed(p) \/ RejectAuthentication(p) \/ ProtocolViolation(p),
         UNCHANGED <<hello, goodbye>>
  PROVE  Orderly
<1>1. CASE TransportFailed(p)
  BY <1>1, ReturnIsOrderly, ShutIsOrderly DEF TransportFailed
<1>2. CASE RejectAuthentication(p)
  <2>1. CASE state = "authenticating"
    <3>1. Shut(p, "authentication-failed", "rejected", "none") /\ ~Leaving
      BY <1>2, <2>1 DEF RejectAuthentication, Leaving
    <3>. QED
      BY <3>1, ShutIsOrderly
  <2>2. CASE state # "authenticating"
    BY <1>2, <2>2, ReturnIsOrderly DEF RejectAuthentication
  <2>. QED
    BY <2>1, <2>2
<1>3. CASE ProtocolViolation(p)
  <2>1. CASE state \in {"closing", "closed"}
    BY <1>3, <2>1, ReturnIsOrderly DEF ProtocolViolation
  <2>2. CASE state = "authenticating"
    BY <1>2, <1>3, <2>2 DEF ProtocolViolation
  <2>3. CASE state = "handshaking"
    BY <1>3, <2>3, ShutIsOrderly DEF ProtocolViolation
  <2>4. CASE state = "connected"
    <3>1. Shut(p, "protocol-error", "goodbye", "onProtocolError") /\ ~Leaving /\ hello
      BY <1>3, <2>4 DEF ProtocolViolation, Leaving, SessionInvariant
    <3>. QED
      BY <3>1, ShutIsOrderly
  <2>. QED
    BY <2>1, <2>2, <2>3, <2>4 DEF SessionInvariant, States
<1>. QED
  BY <1>1, <1>2, <1>3

\* #sendHeartbeat.
LEMMA HeartbeatIsOrderly ==
  ASSUME NEW p \in Threads, thread[p].pc # "write", SendHeartbeat(p), UNCHANGED <<hello, goodbye>>
  PROVE  Orderly
<1>1. CASE state # "connected"
  BY <1>1, ReturnIsOrderly DEF SendHeartbeat
<1>2. CASE state = "connected"
  <2>1. Write(p, state, "heartbeat", {"connected"}, "none", "none") /\ ~Leaving
    BY <1>2 DEF SendHeartbeat, Leaving
  <2>. QED
    BY <2>1, WriteIsOrderly
<1>. QED
  BY <1>1, <1>2

\* Handling a received frame (#receiveMessage).
LEMMA ReceiveIsOrderly ==
  ASSUME SessionInvariant, NEW f, ReceiveMessage(f), thread[Queue].pc # "write"
  PROVE  Orderly
<1>0. UNCHANGED <<hello, goodbye>> /\ Queue \in Threads
  BY QueueIsThread
  DEF ReceiveMessage, Authenticate, CompleteHandshake, RouteMessage, agent, history
<1>1. CASE Return(Queue)
  BY <1>0, <1>1, ReturnIsOrderly
<1>2. CASE state = "authenticating" /\ Authenticate(f)
  <2>1. CASE RejectAuthentication(Queue)
    BY <1>0, <2>1, FailuresAreOrderly
  <2>2. CASE f \in {"auth_valid", "auth_unknown"}
    <3>. DEFINE t == Suspended("lookup", f, "none", "none")
    <3>1. Become(Queue, t) /\ UNCHANGED outbound
      BY <1>2, <2>2 DEF Authenticate
    <3>2. t.frame # "goodbye"
      BY <2>2, SuspendedFields
    <3>3. ~Leaving
      BY <1>2 DEF Leaving
    <3>. HIDE DEF t
    <3>. QED
      BY <1>0, <3>1, <3>2, <3>3, BecomeIsOrderly
  <2>. QED
    BY <1>2, <2>1, <2>2 DEF Authenticate
<1>3. CASE state = "handshaking" /\ CompleteHandshake(f)
  <2>1. CASE ProtocolViolation(Queue)
    BY <1>0, <2>1, FailuresAreOrderly
  <2>2. CASE Write(Queue, state, "hello", {"handshaking"}, "none", "none")
    <3>1. ~Leaving
      BY <1>3 DEF Leaving
    <3>. QED
      BY <1>0, <2>2, <3>1, WriteIsOrderly
  <2>. QED
    BY <1>3, <2>1, <2>2 DEF CompleteHandshake
<1>4. CASE state = "connected" /\ RouteMessage(f)
  <2>0. ~Leaving
    BY <1>4 DEF Leaving
  <2>1. CASE ProtocolViolation(Queue)
    BY <1>0, <2>1, FailuresAreOrderly
  <2>2. CASE Become(Queue, Idle) /\ UNCHANGED outbound
    BY <1>0, <2>0, <2>2, IdleType, BecomeIsOrderly
  <2>3. CASE Become(Queue, Suspended("callback", "report", "none", "none")) /\ UNCHANGED outbound
    <3>. DEFINE t == Suspended("callback", "report", "none", "none")
    <3>1. Become(Queue, t) /\ t.frame # "goodbye"
      BY <2>3, SuspendedFields
    <3>. HIDE DEF t
    <3>. QED
      BY <1>0, <2>0, <2>3, <3>1, BecomeIsOrderly
  <2>. QED
    BY <1>4, <2>1, <2>2, <2>3 DEF RouteMessage
<1>. QED
  BY <1>1, <1>2, <1>3, <1>4 DEF ReceiveMessage

\* Running the next operation of the processing chain (#enqueue).
LEMMA OperationIsOrderly ==
  ASSUME SessionInvariant, RunOperation
  PROVE  Orderly
<1>0. thread[Queue].pc # "write" /\ Queue \in Threads
  BY QueueIsThread, SuspendedFields DEF RunOperation, Idle
<1>1. CASE BeginAuthentication
  <2>1. Write(Queue, state, "challenge", {"authenticating"}, "none", "none")
        /\ UNCHANGED <<hello, goodbye, state>>
    BY <1>1 DEF BeginAuthentication, agent, history
  <2>2. Leaving => state \notin {"authenticating"} /\ Leaving'
    BY <2>1 DEF Leaving
  <2>. QED
    BY <1>0, <2>1, <2>2, WriteIsOrderly
<1>2. CASE AuthenticationTimeout
  BY <1>0, <1>2, FailuresAreOrderly DEF AuthenticationTimeout, agent, history
<1>3. CASE HandshakeTimeout
  BY <1>0, <1>3, FailuresAreOrderly DEF HandshakeTimeout, agent, history
<1>4. CASE HandleTransportClosed
  <2>0. UNCHANGED <<hello, goodbye>>
    BY <1>4 DEF HandleTransportClosed, agent, history
  <2>1. CASE Return(Queue)
    BY <1>0, <2>0, <2>1, ReturnIsOrderly
  <2>2. CASE ~Return(Queue)
    <3>1. PICK why : Become(Queue, Suspended("finalize", "none", why, "none"))
                     /\ UNCHANGED <<state, outbound>>
      BY <1>4, <2>2 DEF HandleTransportClosed
    <3>. DEFINE t == Suspended("finalize", "none", why, "none")
    <3>2. Become(Queue, t) /\ t.frame # "goodbye"
      BY <3>1, SuspendedFields
    <3>3. Leaving => Leaving'
      BY <2>0, <3>1 DEF Leaving
    <3>. HIDE DEF t
    <3>. QED
      BY <1>0, <2>0, <3>1, <3>2, <3>3, BecomeIsOrderly
  <2>. QED
    BY <2>1, <2>2
<1>5. CASE ReceiveMessage(Head(queue))
  BY <1>0, <1>5, ReceiveIsOrderly
<1>. QED
  BY <1>1, <1>2, <1>3, <1>4, <1>5 DEF RunOperation

\* The answer of the credential store (#authenticate).
LEMMA LookupIsOrderly ==
  ASSUME SessionInvariant, LookupDone
  PROVE  Orderly
<1>0. /\ thread[Queue].pc # "write" /\ Queue \in Threads
      /\ UNCHANGED <<hello, goodbye>>
  BY QueueIsThread DEF LookupDone, history
<1>1. CASE Write(Queue, state, "accepted", {"authenticating"}, "none", "none") /\ UNCHANGED state
  <2>1. Leaving => state \notin {"authenticating"} /\ Leaving'
    BY <1>0, <1>1 DEF Leaving
  <2>. QED
    BY <1>0, <1>1, <2>1, WriteIsOrderly
<1>2. CASE RejectAuthentication(Queue)
  BY <1>0, <1>2, FailuresAreOrderly
<1>. QED
  BY <1>1, <1>2 DEF LookupDone

\* What follows a write or a close.
LEMMA AwaitsAreOrderly ==
  ASSUME SessionInvariant, NEW p \in Threads,
         \/ ChallengeSent \/ AcceptanceSent \/ HelloSent
         \/ Farewell(p) \/ WriteFailed(p) \/ FrameSent(p) \/ TransportCloseDone(p)
  PROVE  Orderly
<1>1. CASE ChallengeSent
  <2>1. /\ thread[Queue].pc # "write" /\ Queue \in Threads /\ Become(Queue, Idle)
        /\ UNCHANGED <<state, hello, outbound, goodbye>>
    BY <1>1, QueueIsThread DEF ChallengeSent, agent, history
  <2>. QED
    BY <2>1, IdleType, BecomeIsOrderly DEF Leaving
<1>2. CASE AcceptanceSent
  <2>1. /\ thread[Queue].pc # "write" /\ Queue \in Threads /\ Become(Queue, Idle)
        /\ UNCHANGED <<outbound, goodbye>>
    BY <1>2, QueueIsThread DEF AcceptanceSent, history
  <2>2. ~Leaving
    BY <1>2, QueueIsThread DEF AcceptanceSent, SessionInvariant, HandshakeFrames, Leaving
  <2>. QED
    BY <2>1, <2>2, IdleType, BecomeIsOrderly
<1>3. CASE HelloSent
  <2>. DEFINE t == Suspended("callback", "connected", "none", "none")
  <2>1. /\ thread[Queue].pc # "write" /\ Queue \in Threads /\ Become(Queue, t)
        /\ UNCHANGED <<outbound, goodbye>>
    BY <1>3, QueueIsThread DEF HelloSent
  <2>2. ~Leaving
    BY <1>3, QueueIsThread DEF HelloSent, SessionInvariant, HandshakeFrames, Leaving
  <2>3. t.frame # "goodbye"
    BY SuspendedFields
  <2>. HIDE DEF t
  <2>. QED
    BY <2>1, <2>2, <2>3, BecomeIsOrderly
<1>4. CASE Farewell(p)
  <2>1. /\ thread[p].pc # "write" /\ RequestTransportClose(p, thread[p].why, thread[p].after)
        /\ UNCHANGED <<state, hello, outbound, goodbye>>
    BY <1>4 DEF Farewell, agent, history
  <2>2. Leaving => Leaving'
    BY <2>1 DEF Leaving
  <2>. QED
    BY <2>1, <2>2, CloseIsOrderly
<1>5. CASE WriteFailed(p)
  BY <1>5, FailuresAreOrderly DEF WriteFailed, history
<1>6. CASE FrameSent(p)
  <2>1. thread[p].pc # "write" /\ Become(p, Idle) /\ UNCHANGED <<state, hello, outbound, goodbye>>
    BY <1>6 DEF FrameSent, agent, history
  <2>. QED
    BY <2>1, IdleType, BecomeIsOrderly DEF Leaving
<1>7. CASE TransportCloseDone(p)
  <2>. DEFINE t == [thread[p] EXCEPT !.pc = "finalize"]
  <2>1. /\ thread[p].pc # "write" /\ thread' = [thread EXCEPT ![p] = t]
        /\ UNCHANGED <<state, hello, outbound, goodbye>>
    BY <1>7 DEF TransportCloseDone, agent, history
  <2>2. t.frame = thread[p].frame
    BY DEF SessionInvariant, ThreadState
  <2>. HIDE DEF t
  <2>3. Quiet
    BY <2>1, <2>2 DEF Quiet, Leaving
  <2>. QED
    BY <2>3 DEF Orderly
<1>. QED
  BY <1>1, <1>2, <1>3, <1>4, <1>5, <1>6, <1>7

\* #finalize, and the return of a host callback.
LEMMA EndsAreOrderly ==
  ASSUME SessionInvariant, NEW p \in Threads, Finalize(p) \/ CallbackDone(p)
  PROVE  Orderly
<1>0. thread[p].pc # "write" /\ UNCHANGED <<hello, goodbye>>
  BY DEF Finalize, CallbackDone, history
<1>1. CASE Finalize(p)
  <2>. DEFINE told == Suspended("callback", "closed", "none", thread[p].after)
  <2>1. /\ Become(p, Finished(p)) \/ Become(p, told)
        /\ UNCHANGED outbound /\ state' \in {state, "closed"}
    BY <1>1 DEF Finalize
  <2>2. Leaving => Leaving'
    BY <1>0, <2>1 DEF Leaving
  <2>3. Finished(p).frame # "goodbye" /\ told.frame # "goodbye"
    BY FinishedType, SuspendedFields
  <2>. HIDE DEF told
  <2>. QED
    BY <1>0, <2>1, <2>2, <2>3, BecomeIsOrderly
<1>2. CASE CallbackDone(p)
  <2>1. CASE SendHeartbeat(p)
    BY <1>0, <2>1, HeartbeatIsOrderly
  <2>2. CASE Become(p, Finished(p)) /\ UNCHANGED <<state, outbound>>
    <3>1. Leaving => Leaving'
      BY <1>0, <2>2 DEF Leaving
    <3>. QED
      BY <1>0, <2>2, <3>1, FinishedType, BecomeIsOrderly
  <2>. QED
    BY <1>2, <2>1, <2>2 DEF CallbackDone
<1>. QED
  BY <1>1, <1>2

\* Calls outside the processing chain, and what only adds to it.
LEMMA CallsAreOrderly ==
  ASSUME SessionInvariant, NEW p \in Calls,
         HeartbeatInterval(p) \/ HeartbeatDeadline(p) \/ Disconnect(p) \/ Send(p)
  PROVE  Orderly
<1>1. thread[p] = Idle => thread[p].pc # "write"
  BY SuspendedFields DEF Idle
<1>2. p \in Threads /\ thread[p].pc # "write" /\ UNCHANGED <<hello, goodbye>>
  BY <1>1, QueueIsThread
  DEF HeartbeatInterval, HeartbeatDeadline, Disconnect, Send, agent, history
<1>3. CASE HeartbeatInterval(p)
  BY <1>2, <1>3, HeartbeatIsOrderly DEF HeartbeatInterval
<1>4. state = "connected" => hello /\ ~Leaving
  BY DEF SessionInvariant, Leaving
<1>5. CASE HeartbeatDeadline(p)
  <2>1. CASE state = "connected"
    BY <1>2, <1>4, <1>5, <2>1, ShutIsOrderly DEF HeartbeatDeadline
  <2>2. CASE state # "connected"
    <3>1. UNCHANGED <<state, outbound, thread>>
      BY <1>5, <2>2 DEF HeartbeatDeadline
    <3>. QED
      BY <1>2, <3>1 DEF Orderly, Quiet, Leaving
  <2>. QED
    BY <2>1, <2>2
<1>6. CASE Disconnect(p)
  <2>1. CASE state = "connected"
    BY <1>2, <1>4, <1>6, <2>1, ShutIsOrderly DEF Disconnect
  <2>2. CASE state # "connected"
    BY <1>2, <1>6, <2>2, ShutIsOrderly DEF Disconnect
  <2>. QED
    BY <2>1, <2>2
<1>7. CASE Send(p)
  <2>1. Write(p, state, "app", {"connected"}, "none", "none") /\ ~Leaving
    BY <1>4, <1>7 DEF Send
  <2>. QED
    BY <1>2, <2>1, WriteIsOrderly
<1>. QED
  BY <1>3, <1>5, <1>6, <1>7

\* Every step keeps the order of #outbound.
LEMMA FarewellStep ==
  SessionInvariant /\ FarewellInvariant /\ [Next]_vars => FarewellInvariant'
<1>. SUFFICES ASSUME SessionInvariant, FarewellInvariant, [Next]_vars PROVE FarewellInvariant'
  OBVIOUS
<1>0. ASSUME Orderly PROVE FarewellInvariant'
  BY <1>0, QuietStep, QueuedStep DEF Orderly
<1>1. CASE RunOperation \/ LookupDone
  BY <1>0, <1>1, OperationIsOrderly, LookupIsOrderly
<1>2. CASE WriteDone
  BY <1>2, WriteDoneStep
<1>3. CASE ChallengeSent \/ AcceptanceSent \/ HelloSent
  BY <1>0, <1>3, QueueIsThread, AwaitsAreOrderly
<1>4. ASSUME NEW p \in Threads, Resume(p) PROVE FarewellInvariant'
  BY <1>0, <1>4, AwaitsAreOrderly, EndsAreOrderly DEF Resume
<1>5. CASE \/ AuthenticationTimer \/ HandshakeTimer \/ TransportClosed
           \/ (\E f \in FrameClasses : Receive(f)) \/ UNCHANGED vars
  <2>1. UNCHANGED <<state, hello, thread, outbound, goodbye>>
    BY <1>5
    DEF AuthenticationTimer, HandshakeTimer, TransportClosed, Receive, vars, control, agent, history
  <2>2. Orderly
    BY <2>1 DEF Orderly, Quiet, Leaving
  <2>. QED
    BY <1>0, <2>2
<1>6. ASSUME NEW p \in Calls,
             HeartbeatInterval(p) \/ HeartbeatDeadline(p) \/ Disconnect(p) \/ Send(p)
      PROVE  FarewellInvariant'
  BY <1>0, <1>6, CallsAreOrderly
<1>. QED
  BY <1>1, <1>2, <1>3, <1>4, <1>5, <1>6 DEF Next

\* The farewell is the last frame of a session, whatever the number of senders
\* that passed their state check before it was queued (#writeEncoded).
THEOREM FarewellTheorem == Spec => []NothingFollowsGoodbye
<1>1. Init => FarewellInvariant
  <2>. SUFFICES ASSUME Init PROVE FarewellInvariant
    OBVIOUS
  <2>1. outbound = << >> /\ goodbye = FALSE /\ \A p \in Threads : thread[p] = Idle
    BY DEF Init
  <2>2. \A p \in Threads : thread[p].frame = "none"
    BY <2>1, IdleType
  <2>3. outbound \in Seq(Threads) /\ Len(outbound) = 0
    BY <2>1
  <2>. QED
    BY <2>1, <2>2, <2>3 DEF FarewellInvariant
<1>2. SessionInvariant /\ FarewellInvariant /\ [Next]_vars => FarewellInvariant'
  BY FarewellStep
<1>3. FarewellInvariant => NothingFollowsGoodbye
  BY DEF FarewellInvariant, NothingFollowsGoodbye
<1>. QED
  BY <1>1, <1>2, <1>3, SessionInvariantHolds, PTL DEF Spec

=============================================================================
