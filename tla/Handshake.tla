------------------------------ MODULE Handshake ------------------------------
(***************************************************************************)
(* The rules two peers follow without sharing state: which protocol        *)
(* version a hello offers and a server selects, what the agent remembers   *)
(* of a server that refused the extended version, which transport errors   *)
(* are worth another attempt, and which lifecycle states may follow each   *)
(* other.                                                                  *)
(*                                                                         *)
(* Simplification: a legacy record carries whether its interval of 24      *)
(* hours is still running instead of the time at which it ends.            *)
(***************************************************************************)

\* ProtocolVersion: V1 is the base protocol, V2 the extended one.
Base == "V1"
Extended == "V2"
BaseOffer == {Base}
ExtendedOffer == {Extended, Base}

\* "none" when the lists share no version.
SelectProtocolVersion(supported, offered) ==
    CASE Extended \in supported \cap offered -> Extended
      [] Extended \notin supported \cap offered /\ Base \in supported \cap offered -> Base
      [] OTHER -> "none"

(***************************************************************************)
(* HandshakePlanner and the record it is created from.                     *)
(***************************************************************************)
NoRecord == [server |-> "none", current |-> FALSE]

NewPlanner(hasRecord, isCurrent) ==
    [offered       |-> IF hasRecord /\ isCurrent THEN BaseOffer ELSE ExtendedOffer,
     had_record    |-> hasRecord,
     may_fall_back |-> ~(hasRecord /\ isCurrent),
     fell_back     |-> FALSE]

NoPlanner == [offered |-> {}, had_record |-> FALSE, may_fall_back |-> FALSE, fell_back |-> FALSE]

\* Whether on_closed_before_hello returns true.
FallsBack(planner) == planner.may_fall_back /\ ~planner.fell_back

OnClosedBeforeHello(planner) ==
    IF FallsBack(planner)
    THEN [planner EXCEPT !.offered = BaseOffer, !.fell_back = TRUE]
    ELSE planner

\* CacheUpdate of on_accepted, applied to the stored record.
OnAccepted(planner, selected, server, record) ==
    CASE selected = Base /\ planner.fell_back -> [server |-> server, current |-> TRUE]
      [] selected = Extended /\ planner.had_record -> NoRecord
      [] OTHER -> record

(***************************************************************************)
(* TransportError, by what the caller can tell.                            *)
(***************************************************************************)
ConnectErrors == {"connect_timeout", "websocket", "invalid_configuration"}
ReceiveErrors == {"idle_timeout", "closed", "websocket", "unexpected_frame", "protocol"}
IsRetryable(error) ==
    error \in {"connect_timeout", "idle_timeout", "close_timeout", "websocket", "closed"}

(***************************************************************************)
(* AgentState.                                                             *)
(***************************************************************************)
Live == {"connecting", "connected", "degraded"}

CanTransition(from, to) ==
    \/ from = to
    \/ to = "shutting_down"
    \/ <<from, to>> \in {<<"unconfigured", "pairing">>, <<"pairing", "unconfigured">>,
                         <<"pairing", "disconnected">>, <<"disconnected", "connecting">>,
                         <<"connected", "degraded">>}
    \/ from \in {"connecting", "degraded"} /\ to = "connected"
    \/ from \in Live /\ to = "disconnected"
    \/ from \in Live \cup {"disconnected"} /\ to = "unconfigured"

\* A refused transition leaves the state as it is.
Transition(from, to) == IF CanTransition(from, to) THEN to ELSE from

=============================================================================
