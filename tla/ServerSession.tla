--------------------------- MODULE ServerSession ---------------------------
(***************************************************************************)
(* One gateway session of packages/server, session.ts: authentication,     *)
(* hello, heartbeats, host callbacks and every way a session ends.         *)
(*                                                                         *)
(* JavaScript runs one piece of code at a time and switches only where the *)
(* code awaits.  `Queue' is the chain #processing, on which received       *)
(* frames, the authentication and handshake timeouts and the end of the    *)
(* transport are handled one after the other.  A `call' is a thread that   *)
(* does not go through that chain: disconnect() and send() of the host,    *)
(* the heartbeat interval and the heartbeat deadline.  A thread is `idle'  *)
(* or suspended in one await:                                              *)
(*   lookup     the host's credential store                                *)
(*   write      the chain #outbound, which hands over one frame at a time  *)
(*   written, unwritten    the result of a write                           *)
(*   close      the transport's close callback                             *)
(*   finalize   about to run #finalize                                     *)
(*   callback   a lifecycle callback of the host                           *)
(* What the frames contain is reduced to how the session classifies them.  *)
(***************************************************************************)
EXTENDS Naturals, Sequences, FiniteSets

CONSTANTS
  Calls,        \* slots for concurrent calls outside the processing chain
  Frames,       \* bound: frames the agent sends
  Disconnects,  \* bound: calls of disconnect()
  Sends,        \* bound: calls of send()
  MaxBeats,     \* bound: heartbeat requests outstanding at a time
  MaxWaiting    \* bound: operations waiting when another frame arrives

ASSUME CallsAssumption == IsFiniteSet(Calls) /\ "queue" \notin Calls
ASSUME SessionBounds   == {Frames, Disconnects, Sends, MaxBeats, MaxWaiting} \subseteq Nat

VARIABLES
  state,           \* #state
  identity,        \* #identity is known
  hello,           \* #hello and #connectedAtMs are set, so #snapshot works
  timers,          \* the timers that are armed
  closeRequested,  \* #transportCloseRequested
  reason,          \* #disconnectReason
  pending,         \* how many heartbeat requests #pendingHeartbeats holds
  queue,           \* operations waiting on #processing
  outbound,        \* threads waiting on #outbound, the first being served
  thread,          \* where each thread is suspended
  ended,           \* the host has reported the end of its transport
  budget,          \* what the peer and the host may still do
  connects,        \* auxiliary: calls of onAgentConnected
  disconnects,     \* auxiliary: calls of onAgentDisconnected
  goodbye          \* auxiliary: server.disconnect was handed to the transport

control == <<state, timers, closeRequested, reason, outbound, thread>>
agent   == <<identity, hello, pending>>
history == <<connects, disconnects, goodbye>>
vars    == <<control, agent, queue, ended, budget, history>>

Queue   == "queue"
Threads == Calls \cup {Queue}
States  == {"authenticating", "handshaking", "connected", "closing", "closed"}

\* How the session classifies a frame: a response to the challenge that is
\* valid or is refused after the credential lookup; a hello it can accept; an
\* answer to a heartbeat; a report for the host; and everything it refuses at
\* once: too large, malformed, another challenge, an expired one, another
\* identity, no common version, a version not negotiated, a stale inventory.
FrameClasses == {"auth_valid", "auth_unknown", "hello", "answer", "report", "invalid"}

Reasons == {"none", "peer-closed", "authentication-failed", "heartbeat-timeout",
            "protocol-error", "server-disconnect", "transport-error"}

\* `frame' is what a write hands over or a lookup is about; `why' and `after'
\* are #finalize's reason and the callback that follows it.
Suspended(pc, frame, why, after) == [pc |-> pc, frame |-> frame, why |-> why, after |-> after]
Idle == Suspended("idle", "none", "none", "none")

Become(p, t) == thread' = [thread EXCEPT ![p] = t]
Spend(kind)  == budget[kind] > 0 /\ budget' = [budget EXCEPT ![kind] = @ - 1]

-----------------------------------------------------------------------------
(* The procedures the handlers share.  Each fixes state', timers', reason', *)
(* closeRequested', outbound' and thread'[p].                               *)

Return(p) == Become(p, Idle) /\ UNCHANGED <<state, timers, closeRequested, reason, outbound>>

\* #writeEncoded: refused at once unless the state, here s, is one of `allowed'.
Write(p, s, frame, allowed, why, after) ==
  IF s \in allowed
    THEN Become(p, Suspended("write", frame, why, after)) /\ outbound' = Append(outbound, p)
    ELSE Become(p, Suspended("unwritten", frame, why, after)) /\ outbound' = outbound

\* #requestTransportClose, on the way to #finalize.
RequestTransportClose(p, why, after) ==
  /\ closeRequested' = TRUE
  /\ Become(p, Suspended(IF closeRequested THEN "finalize" ELSE "close", "none", why, after))

\* Every deliberate end: mark the session closing, say farewell, close, finalize.
Shut(p, why, farewell, after) ==
  /\ state' = "closing" /\ reason' = why
  /\ IF farewell = "none"
       THEN RequestTransportClose(p, why, after) /\ outbound' = outbound
       ELSE Write(p, "closing", farewell, {"closing"}, why, after) /\ UNCHANGED closeRequested

TransportFailed(p) ==
  IF state = "closed" THEN Return(p)
  ELSE Shut(p, "transport-error", "none", "none") /\ UNCHANGED timers

RejectAuthentication(p) ==
  IF state # "authenticating" THEN Return(p)
  ELSE Shut(p, "authentication-failed", "rejected", "none") /\ timers' = timers \ {"auth"}

ProtocolViolation(p) ==
  CASE state \in {"closing", "closed"} -> Return(p)
    [] state = "authenticating"        -> RejectAuthentication(p)
    [] state = "handshaking" ->
         Shut(p, "protocol-error", "none", "onProtocolError") /\ UNCHANGED timers
    [] state = "connected" ->
         Shut(p, "protocol-error", "goodbye", "onProtocolError") /\ UNCHANGED timers

\* #sendHeartbeat; expired requests are pruned first.
SendHeartbeat(p) ==
  IF state # "connected" THEN Return(p) /\ UNCHANGED pending
  ELSE /\ \E kept \in 0 .. pending : kept < MaxBeats /\ pending' = kept + 1
       /\ Write(p, state, "heartbeat", {"connected"}, "none", "none")
       /\ UNCHANGED <<state, timers, closeRequested, reason>>

-----------------------------------------------------------------------------
(* The processing chain.                                                   *)

BeginAuthentication ==
  /\ Write(Queue, state, "challenge", {"authenticating"}, "none", "none")
  /\ UNCHANGED <<state, timers, closeRequested, reason, agent, history>>

\* #authenticate: anything that is not a response to the challenge is refused.
Authenticate(f) ==
  /\ \/ /\ f \in {"auth_valid", "auth_unknown"}
        /\ Become(Queue, Suspended("lookup", f, "none", "none"))
        /\ UNCHANGED <<state, timers, closeRequested, reason, outbound>>
     \/ /\ f \notin {"auth_valid", "auth_unknown"}
        /\ RejectAuthentication(Queue)
  /\ UNCHANGED <<agent, history>>

CompleteHandshake(f) ==
  /\ \/ /\ f = "hello"
        /\ Write(Queue, state, "hello", {"handshaking"}, "none", "none")
        /\ UNCHANGED <<state, timers, closeRequested, reason>>
     \/ f # "hello" /\ ProtocolViolation(Queue)
  /\ UNCHANGED <<agent, history>>

\* #routeMessage: a correlated answer re-arms the deadline; a report goes to
\* the host; an answer may also match no outstanding request.
RouteMessage(f) ==
  /\ \/ /\ f = "answer" /\ pending > 0
        /\ pending' \in 0 .. pending - 1
        /\ timers' = timers \cup {"deadline"}
        /\ Become(Queue, Idle)
        /\ UNCHANGED <<state, closeRequested, reason, outbound>>
     \/ /\ f = "report"
        /\ Become(Queue, Suspended("callback", "report", "none", "none"))
        /\ UNCHANGED <<state, timers, closeRequested, reason, outbound, pending>>
     \/ f # "report" /\ ProtocolViolation(Queue) /\ UNCHANGED pending
  /\ UNCHANGED <<identity, hello, history>>

ReceiveMessage(f) ==
  \/ state \in {"closing", "closed"} /\ Return(Queue) /\ UNCHANGED <<agent, history>>
  \/ state = "authenticating" /\ Authenticate(f)
  \/ state = "handshaking" /\ CompleteHandshake(f)
  \/ state = "connected" /\ RouteMessage(f)

HandshakeTimeout == ProtocolViolation(Queue) /\ UNCHANGED <<agent, history>>

AuthenticationTimeout == RejectAuthentication(Queue) /\ UNCHANGED <<agent, history>>

\* The reason the session already has goes before the one the host may give.
HandleTransportClosed ==
  /\ \/ state = "closed" /\ Return(Queue)
     \/ /\ state # "closed"
        /\ \E given \in {"peer-closed", "transport-error"} :
             Become(Queue, Suspended("finalize", "none",
                                     IF reason # "none" THEN reason ELSE given, "none"))
        /\ UNCHANGED <<state, timers, closeRequested, reason, outbound>>
  /\ UNCHANGED <<agent, history>>

\* #enqueue: the next operation starts when the previous one has returned.
RunOperation ==
  /\ thread[Queue] = Idle /\ queue # <<>>
  /\ queue' = Tail(queue)
  /\ CASE Head(queue) = "begin"             -> BeginAuthentication
       [] Head(queue) = "auth_timeout"      -> AuthenticationTimeout
       [] Head(queue) = "handshake_timeout" -> HandshakeTimeout
       [] Head(queue) = "transport_closed"  -> HandleTransportClosed
       [] OTHER                             -> ReceiveMessage(Head(queue))
  /\ UNCHANGED <<ended, budget>>

\* The credential store answers, or its rejection reaches #enqueue's catch.
LookupDone ==
  /\ thread[Queue].pc = "lookup"
  /\ \/ /\ thread[Queue].frame = "auth_valid"
        /\ identity' = TRUE
        /\ timers' = timers \ {"auth"}
        /\ Write(Queue, state, "accepted", {"authenticating"}, "none", "none")
        /\ UNCHANGED <<state, closeRequested, reason>>
     \/ RejectAuthentication(Queue) /\ UNCHANGED identity
  /\ UNCHANGED <<hello, pending, queue, ended, budget, history>>

-----------------------------------------------------------------------------
(* Writes                                                                  *)

\* The transport takes the first frame, or fails or exceeds its deadline.
WriteDone ==
  /\ outbound # <<>>
  /\ outbound' = Tail(outbound)
  /\ \E result \in {"written", "unwritten"} :
       /\ thread' = [thread EXCEPT ![Head(outbound)].pc = result]
       /\ goodbye' = (goodbye \/ (result = "written" /\ thread[Head(outbound)].frame = "goodbye"))
  /\ UNCHANGED <<state, timers, closeRequested, reason, agent, queue, ended, budget,
                 connects, disconnects>>

\* After a farewell the transport is closed whether or not it went out.
Farewell(p) ==
  /\ thread[p].pc \in {"written", "unwritten"} /\ thread[p].frame \in {"goodbye", "rejected"}
  /\ RequestTransportClose(p, thread[p].why, thread[p].after)
  /\ UNCHANGED <<state, timers, reason, outbound, agent, queue, ended, budget, history>>

WriteFailed(p) ==
  /\ thread[p].pc = "unwritten" /\ thread[p].frame \notin {"goodbye", "rejected"}
  /\ TransportFailed(p)
  /\ pending' = IF thread[p].frame = "heartbeat" /\ pending > 0 THEN pending - 1 ELSE pending
  /\ UNCHANGED <<identity, hello, queue, ended, budget, history>>

ChallengeSent ==
  /\ thread[Queue].pc = "written" /\ thread[Queue].frame = "challenge"
  /\ timers' = timers \cup {"auth"}
  /\ Become(Queue, Idle)
  /\ UNCHANGED <<state, closeRequested, reason, outbound, agent, queue, ended, budget, history>>

AcceptanceSent ==
  /\ thread[Queue].pc = "written" /\ thread[Queue].frame = "accepted"
  /\ state' = "handshaking"
  /\ timers' = timers \cup {"handshake"}
  /\ Become(Queue, Idle)
  /\ UNCHANGED <<closeRequested, reason, outbound, agent, queue, ended, budget, history>>

\* The rest of #completeHandshake, up to the callback.
HelloSent ==
  /\ thread[Queue].pc = "written" /\ thread[Queue].frame = "hello"
  /\ hello' = TRUE /\ state' = "connected"
  /\ timers' = (timers \ {"handshake"}) \cup {"beat", "deadline"}
  /\ connects' = connects + 1
  /\ Become(Queue, Suspended("callback", "connected", "none", "none"))
  /\ UNCHANGED <<closeRequested, reason, outbound, identity, pending, queue, ended, budget,
                 disconnects, goodbye>>

FrameSent(p) ==
  /\ thread[p].pc = "written" /\ thread[p].frame \in {"heartbeat", "app"}
  /\ Become(p, Idle)
  /\ UNCHANGED <<state, timers, closeRequested, reason, outbound, agent, queue, ended, budget,
                 history>>

-----------------------------------------------------------------------------
(* Closing                                                                 *)

\* Mutant: the rest is left to the host's report that the transport has ended.
TransportCloseDoneOnly(p) ==
  /\ thread[p].pc = "close"
  /\ Become(p, Idle)
  /\ UNCHANGED <<state, timers, closeRequested, reason, outbound, agent, queue, ended, budget,
                 history>>

TransportCloseDone(p) ==
  /\ thread[p].pc = "close"
  /\ thread' = [thread EXCEPT ![p].pc = "finalize"]
  /\ UNCHANGED <<state, timers, closeRequested, reason, outbound, agent, queue, ended, budget,
                 history>>

\* What a thread does once #finalize returns: its own callback, or nothing.
Finished(p) ==
  IF thread[p].after = "none" THEN Idle
  ELSE Suspended("callback", "none", "none", "none")

\* Mutant: #finalize runs again on a closed session.
FinalizeAgain(p) ==
  /\ thread[p].pc = "finalize"
  /\ state' = "closed" /\ reason' = thread[p].why
  /\ timers' = {} /\ pending' = 0
  /\ disconnects' = IF hello THEN disconnects + 1 ELSE disconnects
  /\ Become(p, IF hello THEN Suspended("callback", "closed", "none", thread[p].after)
                        ELSE Finished(p))
  /\ UNCHANGED <<closeRequested, outbound, identity, hello, queue, ended, budget, connects, goodbye>>

\* Mutant: only a session that is still connected reports its end.
FinalizeConnectedOnly(p) ==
  LET report == hello /\ state = "connected" IN
  /\ thread[p].pc = "finalize"
  /\ state' = "closed" /\ reason' = thread[p].why
  /\ timers' = {} /\ pending' = 0
  /\ disconnects' = IF report THEN disconnects + 1 ELSE disconnects
  /\ Become(p, IF report THEN Suspended("callback", "closed", "none", thread[p].after)
                         ELSE Finished(p))
  /\ UNCHANGED <<closeRequested, outbound, identity, hello, queue, ended, budget, connects, goodbye>>

Finalize(p) ==
  /\ thread[p].pc = "finalize"
  /\ \/ /\ state = "closed"
        /\ Become(p, Finished(p))
        /\ UNCHANGED <<state, reason, timers, pending, disconnects>>
     \/ /\ state # "closed"
        /\ state' = "closed" /\ reason' = thread[p].why
        /\ timers' = {} /\ pending' = 0
        /\ disconnects' = IF hello THEN disconnects + 1 ELSE disconnects
        /\ Become(p, IF hello THEN Suspended("callback", "closed", "none", thread[p].after)
                              ELSE Finished(p))
  /\ UNCHANGED <<closeRequested, outbound, identity, hello, queue, ended, budget, connects, goodbye>>

\* A host callback returns, throws or exceeds its deadline: the session goes on alike.
CallbackDone(p) ==
  /\ thread[p].pc = "callback"
  /\ \/ thread[p].frame = "connected" /\ SendHeartbeat(p)
     \/ thread[p].frame # "connected" /\ Become(p, Finished(p))
        /\ UNCHANGED <<state, timers, closeRequested, reason, outbound, pending>>
  /\ UNCHANGED <<identity, hello, queue, ended, budget, history>>

-----------------------------------------------------------------------------
(* Timers, the peer and the host.                                          *)

AuthenticationTimer ==
  /\ "auth" \in timers
  /\ timers' = timers \ {"auth"} /\ queue' = Append(queue, "auth_timeout")
  /\ UNCHANGED <<state, closeRequested, reason, outbound, thread, agent, ended, budget, history>>

HandshakeTimer ==
  /\ "handshake" \in timers
  /\ timers' = timers \ {"handshake"} /\ queue' = Append(queue, "handshake_timeout")
  /\ UNCHANGED <<state, closeRequested, reason, outbound, thread, agent, ended, budget, history>>

HeartbeatInterval(p) ==
  /\ "beat" \in timers /\ state = "connected" /\ thread[p] = Idle
  /\ SendHeartbeat(p)
  /\ UNCHANGED <<identity, hello, queue, ended, budget, history>>

\* #heartbeatExpired
HeartbeatDeadline(p) ==
  /\ "deadline" \in timers /\ thread[p] = Idle
  /\ timers' = timers \ {"deadline"}
  /\ IF state = "connected"
       THEN Shut(p, "heartbeat-timeout", "goodbye", "onHeartbeatTimeout")
       ELSE UNCHANGED <<state, reason, closeRequested, outbound, thread>>
  /\ UNCHANGED <<agent, queue, ended, budget, history>>

\* Mutant: the farewell is written before the session is marked closing.
DisconnectLate(p) ==
  /\ Spend("disconnect") /\ thread[p] = Idle /\ state \notin {"closing", "closed"}
  /\ reason' = "server-disconnect" /\ UNCHANGED state
  /\ IF state = "connected"
       THEN /\ Write(p, state, "goodbye", {"connected"}, "server-disconnect", "none")
            /\ UNCHANGED closeRequested
       ELSE RequestTransportClose(p, "server-disconnect", "none") /\ UNCHANGED outbound
  /\ UNCHANGED <<timers, agent, queue, ended, history>>

Disconnect(p) ==
  /\ Spend("disconnect") /\ thread[p] = Idle /\ state \notin {"closing", "closed"}
  /\ Shut(p, "server-disconnect", IF state = "connected" THEN "goodbye" ELSE "none", "none")
  /\ UNCHANGED <<timers, agent, queue, ended, history>>

\* send() in any other state returns a delivery failure and changes nothing.
Send(p) ==
  /\ Spend("send") /\ thread[p] = Idle /\ state = "connected"
  /\ Write(p, state, "app", {"connected"}, "none", "none")
  /\ UNCHANGED <<state, timers, closeRequested, reason, agent, queue, ended, history>>

\* receive(): frames arrive while the transport is open.
Receive(f) ==
  /\ Spend("frame") /\ ~ended /\ Len(queue) <= MaxWaiting
  /\ queue' = Append(queue, f)
  /\ UNCHANGED <<control, agent, ended, history>>

\* transportClosed(): the peer went away, or the close the session asked for is done.
TransportClosed ==
  /\ ~ended
  /\ ended' = TRUE /\ queue' = Append(queue, "transport_closed")
  /\ UNCHANGED <<control, agent, budget, history>>

-----------------------------------------------------------------------------
Init ==
  /\ state = "authenticating" /\ identity = FALSE /\ hello = FALSE
  /\ timers = {} /\ closeRequested = FALSE /\ reason = "none" /\ pending = 0
  /\ queue = <<"begin">> /\ outbound = <<>> /\ thread = [p \in Threads |-> Idle]
  /\ ended = FALSE
  /\ budget = [frame |-> Frames, disconnect |-> Disconnects, send |-> Sends]
  /\ connects = 0 /\ disconnects = 0 /\ goodbye = FALSE

\* Code after an await that the session itself bounds.
Resume(p) ==
  \/ Farewell(p) \/ WriteFailed(p) \/ FrameSent(p)
  \/ TransportCloseDone(p) \/ Finalize(p) \/ CallbackDone(p)

Next ==
  \/ RunOperation \/ LookupDone \/ WriteDone
  \/ ChallengeSent \/ AcceptanceSent \/ HelloSent
  \/ \E p \in Threads : Resume(p)
  \/ AuthenticationTimer \/ HandshakeTimer
  \/ \E p \in Calls : HeartbeatInterval(p) \/ HeartbeatDeadline(p)
  \/ \E p \in Calls : Disconnect(p) \/ Send(p)
  \/ \E f \in FrameClasses : Receive(f)
  \/ TransportClosed

Spec == Init /\ [][Next]_vars

\* The event loop runs what is ready; writes, closes and callbacks have
\* deadlines of their own; timers fire; the host reports the end of a
\* transport it was asked to close.  Nothing is assumed of the peer, and
\* nothing of the host's credential store, which no deadline bounds.
Fairness ==
  /\ WF_vars(RunOperation) /\ WF_vars(WriteDone)
  /\ WF_vars(ChallengeSent) /\ WF_vars(AcceptanceSent) /\ WF_vars(HelloSent)
  /\ \A p \in Threads : WF_vars(Resume(p))
  /\ WF_vars(AuthenticationTimer) /\ WF_vars(HandshakeTimer)
  /\ WF_vars(\E p \in Calls : HeartbeatDeadline(p))
  /\ WF_vars(closeRequested /\ TransportClosed)

FairSpec == Spec /\ Fairness

-----------------------------------------------------------------------------
(* Properties                                                              *)

ThreadState ==
  [pc : {"idle", "lookup", "write", "written", "unwritten", "close", "finalize", "callback"},
   frame : {"none", "challenge", "accepted", "rejected", "hello", "heartbeat", "app",
            "goodbye", "connected", "report", "closed"} \cup FrameClasses,
   why : Reasons, after : {"none", "onProtocolError", "onHeartbeatTimeout"}]

\* The host's registry stays right: onAgentDisconnected is called at most once,
\* only after onAgentConnected, and a session the host still counts as
\* connected is not closed, whichever of disconnect(), a timeout, a failing
\* write and the end of the transport race for the end (#finalize).
RegistryMatchesSession ==
  /\ disconnects <= connects /\ connects <= 1
  /\ state = "closed" => disconnects = connects

HandshakeFrames == {"auth_valid", "auth_unknown", "accepted", "hello"}

\* What the handlers rely on in each other, and inductive: the frames of
\* authentication and handshake are in flight only on the processing chain and
\* only before the handshake is complete; afterwards the session only moves
\* towards closed, and each of the two callbacks has been called once the session
\* is in the state it announces.
SessionInvariant ==
  /\ state \in States /\ hello \in BOOLEAN /\ reason \in Reasons
  /\ thread \in [Threads -> ThreadState]
  /\ state \in {"authenticating", "handshaking"} => ~hello
  /\ state = "connected" => hello
  /\ \A p \in Threads : thread[p].frame \in HandshakeFrames => p = Queue /\ ~hello
  /\ connects = IF hello THEN 1 ELSE 0
  /\ disconnects = IF hello /\ state = "closed" THEN 1 ELSE 0

\* The farewell is the last frame: once server.disconnect was handed over no
\* job, heartbeat or second farewell follows it, although senders passed their
\* own state check before they queued on #outbound (#writeEncoded).
NothingFollowsGoodbye == goodbye => outbound = <<>>

\* A session that asked for its transport to be closed ends for good, although
\* a handler suspended in a write may bring it back to life for a while
\* (#completeHandshake and #authenticate set the state without looking at it).
EndsForGood == closeRequested ~> [](state = "closed")

\* Every onAgentConnected of a session that ends is followed by its
\* onAgentDisconnected.
DisconnectIsReported == (closeRequested /\ connects = 1) ~> (disconnects = 1)

=============================================================================
