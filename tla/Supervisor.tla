----------------------------- MODULE Supervisor -----------------------------
(***************************************************************************)
(* The desktop connection supervisor and the service commands that change  *)
(* what it is connected to: run_connection_supervisor with its handshake   *)
(* planner, pairing, forgetting, changing the server URL, reconnecting,    *)
(* shutting down and restarting.                                           *)
(*                                                                         *)
(* Two tasks meet here.  The supervisor snapshots the pairing and the      *)
(* provider generation, then spends most of its time in network awaits.    *)
(* A command holds the provider_operation lock over several awaits of its  *)
(* own.  They communicate through a bounded channel of controls.  A step   *)
(* is the code between two awaits at which the other task could matter; an *)
(* await of the lock followed by code under it is one step that is enabled *)
(* while the lock is free.                                                 *)
(*                                                                         *)
(* Not modelled: discover_server, which only changes the displayed phase;  *)
(* the contents of messages (AgentRuntime has the jobs, Inventory the      *)
(* printers); the length of a delay, be it the back-off's or the one a     *)
(* server.disconnect names.                                                *)
(***************************************************************************)
EXTENDS Handshake, Naturals, Sequences, FiniteSets

CONSTANTS Servers,          \* paired server identities, one per base URL
          Speaks,           \* Speaks[s]: the protocol versions s supports
          ControlCapacity,  \* capacity of the connection_control channel
          ParkCapacity,     \* OUTBOUND_BUFFER_CAPACITY before the hello
          MaxCommands,      \* pairings, forgets and URL changes
          MaxDisturbances   \* other requests, reports, failing operations and restarts

ASSUME SupervisorAssumption ==
    /\ IsFiniteSet(Servers) /\ Servers # {} /\ "none" \notin Servers
    /\ Speaks \in [Servers -> SUBSET {Base, Extended}]
    /\ {ControlCapacity, ParkCapacity} \subseteq Nat \ {0}
    /\ {MaxCommands, MaxDisturbances} \subseteq Nat

VARIABLES sup,    \* the locals of run_connection_supervisor
          svc,    \* the shared fields of DesktopService
          cmd,    \* the command that holds provider_operation, or Quiet
          disk,   \* settings and the operating system's credential store
          world   \* what the servers know, and what is left of each bound

vars == <<sup, svc, cmd, disk, world>>

NoConnection == [server |-> "none", ref |-> 0]
Hellos == {"hello", "hello_mismatched"}
Messages == Hellos \cup {"answered", "one_way", "unnegotiated",
                         "disconnect_retry", "disconnect_stop"}
Quiet == [op |-> "none", step |-> "none", ref |-> 0, url |-> "none"]

-----------------------------------------------------------------------------
(***************************************************************************)
(* Helpers of the supervisor.                                              *)
(***************************************************************************)
LockFree == cmd = Quiet
SameGeneration == svc.generation = sup.generation
ShuttingDown == svc.shutdown # "no"

FreshSupervisor ==
    [pc |-> "top", auto |-> TRUE, retry |-> "none", planner |-> NoPlanner,
     connection |-> NoConnection, generation |-> 0, link |-> "none", handshaken |-> FALSE,
     event |-> "none", parked |-> 0, free |-> 0]

\* The iteration's own variables, out of scope once the loop starts over.
OutOfScope(locals) ==
    [locals EXCEPT !.connection = NoConnection, !.generation = 0, !.link = "none",
                   !.handshaken = FALSE]

\* `continue` with the given automatic_reconnect and retry_after; the transport is dropped.
Loop(auto, retry) ==
    sup' = [OutOfScope(sup) EXCEPT !.pc = "top", !.auto = auto, !.retry = retry]

\* connection_ended = true, with the requests parked before the hello answered.
End(auto, retry) ==
    sup' = [sup EXCEPT !.pc = "ending", !.auto = auto, !.retry = retry,
                       !.event = "none", !.parked = 0]

\* The task returns; finish_outbound answers what is queued.
Exit ==
    /\ sup' = [FreshSupervisor EXCEPT !.pc = "done"]
    /\ svc' = [svc EXCEPT !.outbound = 0]

AuthenticationFailed(revoked) ==
    [svc EXCEPT !.agent = IF @ \in Live THEN Transition(@, "disconnected") ELSE @,
                !.phase = IF revoked THEN "credential_revoked" ELSE "authentication_failed"]

HeadIs(control) == svc.controls # <<>> /\ Head(svc.controls) = control
Received == [svc EXCEPT !.controls = Tail(@)]

-----------------------------------------------------------------------------
(***************************************************************************)
(* The outer loop: waiting, reading the pairing, discovering, connecting.  *)
(***************************************************************************)
Top ==
    /\ sup.pc = "top"
    /\ IF ShuttingDown THEN Exit
       ELSE /\ sup' = IF ~sup.auto THEN [sup EXCEPT !.pc = "paused"]
                      ELSE [sup EXCEPT !.pc = IF sup.retry = "none" THEN "read" ELSE "delay",
                                       !.free = IF sup.retry = "backoff" THEN 0 ELSE @]
            /\ UNCHANGED svc
    /\ UNCHANGED <<cmd, disk, world>>

\* wait_for_reconnect
PausedControl ==
    /\ sup.pc = "paused"
    /\ \/ /\ HeadIs("Reconnect")
          /\ sup' = [sup EXCEPT !.auto = TRUE, !.free = 0,
                                !.pc = IF sup.retry = "none" THEN "read" ELSE "delay"]
          /\ svc' = Received
       \/ /\ HeadIs("ConfigurationChanged") \/ HeadIs("PublishInventory")
          /\ sup' = [sup EXCEPT !.pc = "top"]
          /\ svc' = Received
       \/ /\ ShuttingDown \/ HeadIs("Shutdown")
          /\ Exit
    /\ UNCHANGED <<cmd, disk, world>>

PausedReport ==
    /\ sup.pc = "paused" /\ svc.outbound > 0
    /\ svc' = [svc EXCEPT !.outbound = @ - 1]
    /\ UNCHANGED <<sup, cmd, disk, world>>

\* wait_delay_or_control: "delay" goes on to read the pairing, "redial" starts over.
AfterDelay == IF sup.pc = "delay" THEN "read" ELSE "top"

DelayElapsed ==
    /\ sup.pc \in {"delay", "redial"}
    /\ sup' = [sup EXCEPT !.pc = AfterDelay, !.retry = "none"]
    /\ UNCHANGED <<svc, cmd, disk, world>>

DelayControl ==
    /\ sup.pc \in {"delay", "redial"}
    /\ \/ /\ HeadIs("Reconnect")
          /\ sup' = [sup EXCEPT !.pc = AfterDelay, !.retry = "none", !.free = 0]
          /\ svc' = Received
       \/ /\ HeadIs("ConfigurationChanged")
          /\ Loop(FALSE, "none") /\ svc' = Received
       \/ /\ HeadIs("PublishInventory")
          /\ svc' = Received /\ UNCHANGED sup
       \/ /\ ShuttingDown \/ HeadIs("Shutdown")
          /\ Exit
    /\ UNCHANGED <<cmd, disk, world>>

ReadConfiguration ==
    /\ sup.pc = "read" /\ LockFree
    /\ sup' = IF svc.connection = NoConnection
              THEN [sup EXCEPT !.pc = "top", !.auto = FALSE]
              ELSE [sup EXCEPT !.pc = "discover", !.connection = svc.connection,
                               !.generation = svc.generation, !.free = @ + 1]
    /\ UNCHANGED <<svc, cmd, disk, world>>

\* The document may be unavailable or name another server.
Discover ==
    /\ sup.pc = "discover"
    /\ \/ sup' = [sup EXCEPT !.pc = "enter"] /\ UNCHANGED svc
       \/ Loop(sup.auto, "backoff") /\ svc' = [svc EXCEPT !.phase = "discovery_failed"]
       \/ Loop(FALSE, sup.retry) /\ svc' = AuthenticationFailed(FALSE)
    /\ UNCHANGED <<cmd, disk, world>>

EnterConnecting ==
    /\ sup.pc = "enter" /\ LockFree
    /\ IF SameGeneration
       THEN /\ sup' = [sup EXCEPT !.pc = "connect"]
            /\ svc' = [svc EXCEPT !.agentId = TRUE, !.phase = "connecting",
                                  !.agent = Transition(@, "connecting")]
       ELSE Loop(FALSE, sup.retry) /\ UNCHANGED svc
    /\ UNCHANGED <<cmd, disk, world>>

Connect ==
    /\ sup.pc = "connect"
    /\ sup' = [sup EXCEPT !.pc = "connected", !.link = "open"]
    /\ UNCHANGED <<svc, cmd, disk, world>>

ConnectFails(error) ==
    /\ sup.pc = "connect" /\ LockFree
    /\ IF ~SameGeneration THEN Loop(FALSE, sup.retry) /\ UNCHANGED svc
       ELSE /\ svc' = [svc EXCEPT !.agent = Transition(@, "disconnected")]
            /\ IF IsRetryable(error) THEN sup' = [OutOfScope(sup) EXCEPT !.pc = "redial", !.free = 0]
               ELSE Loop(FALSE, sup.retry)
    /\ UNCHANGED <<cmd, disk, world>>

CheckConnected ==
    /\ sup.pc = "connected" /\ LockFree
    /\ IF SameGeneration THEN sup' = [sup EXCEPT !.pc = "announce"] ELSE Loop(FALSE, sup.retry)
    /\ UNCHANGED <<svc, cmd, disk, world>>

-----------------------------------------------------------------------------
(***************************************************************************)
(* Challenge authentication and the hello.                                 *)
(***************************************************************************)
Announce ==
    /\ sup.pc = "announce"
    /\ sup' = [sup EXCEPT !.pc = "challenge"]
    /\ svc' = [svc EXCEPT !.phase = "authenticating"]
    /\ UNCHANGED <<cmd, disk, world>>

\* A challenge can only be signed while the private key is in the credential store.
ReceiveChallenge ==
    /\ sup.pc = "challenge"
    /\ \/ /\ sup.connection.ref \in disk.keys
          /\ sup' = [sup EXCEPT !.pc = "respond"] /\ UNCHANGED svc
       \/ Loop(FALSE, sup.retry) /\ svc' = AuthenticationFailed(FALSE)
    /\ UNCHANGED <<cmd, disk, world>>

\* Mutant: a failed write is tried again at once.
SendResponseAtOnce ==
    /\ sup.pc = "respond" /\ sup.link = "open"
    /\ \/ sup' = [sup EXCEPT !.pc = "verdict"]
       \/ Loop(sup.auto, "none")
    /\ UNCHANGED <<svc, cmd, disk, world>>

SendResponse ==
    /\ sup.pc = "respond" /\ sup.link = "open"
    /\ \/ sup' = [sup EXCEPT !.pc = "verdict"]
       \/ Loop(sup.auto, "backoff")
    /\ UNCHANGED <<svc, cmd, disk, world>>

ReceiveVerdict ==
    /\ sup.pc = "verdict" /\ sup.link = "open"
    /\ \/ /\ sup.connection \in world.registered
          /\ sup' = [sup EXCEPT !.pc = "hello", !.link = "authenticated"] /\ UNCHANGED svc
       \/ \E revoked \in BOOLEAN : Loop(FALSE, sup.retry) /\ svc' = AuthenticationFailed(revoked)
       \/ Loop(sup.auto, "backoff") /\ UNCHANGED svc
    /\ UNCHANGED <<cmd, disk, world>>

PlannerToUse ==
    LET known == disk.legacy.server = sup.connection.server
    IN  IF sup.planner # NoPlanner THEN sup.planner
        ELSE NewPlanner(known, known /\ disk.legacy.current)

SendHello ==
    /\ sup.pc = "hello" /\ sup.link = "authenticated"
    /\ sup' = [sup EXCEPT !.pc = "session", !.planner = PlannerToUse, !.link = "greeted",
                          !.handshaken = FALSE]
    /\ UNCHANGED <<svc, cmd, disk, world>>

SendHelloFails ==
    /\ sup.pc = "hello" /\ LockFree
    /\ sup' = [OutOfScope(sup) EXCEPT !.pc = "top", !.planner = PlannerToUse,
                          !.auto = IF SameGeneration THEN @ ELSE FALSE,
                          !.retry = IF SameGeneration THEN "backoff" ELSE @]
    /\ svc' = IF SameGeneration THEN [svc EXCEPT !.agent = Transition(@, "disconnected")] ELSE svc
    /\ UNCHANGED <<cmd, disk, world>>

-----------------------------------------------------------------------------
(***************************************************************************)
(* The session: tokio::select! commits to one branch, whose handler then   *)
(* waits for the lock ("busy").                                            *)
(***************************************************************************)
Commit(event) == sup' = [sup EXCEPT !.pc = "busy", !.event = event]

HelloTimeout ==
    /\ sup.pc = "session" /\ ~sup.handshaken
    /\ Commit("timeout")
    /\ UNCHANGED <<svc, cmd, disk, world>>

\* A server that does not know the extended version cannot answer an offer of it.
ReceiveMessage(message) ==
    /\ sup.pc = "session" /\ sup.link = "greeted"
    /\ message = "hello" =>
         LET spoken == Speaks[sup.connection.server]
         IN  /\ Extended \in sup.planner.offered => Extended \in spoken
             /\ SelectProtocolVersion(spoken, sup.planner.offered) # "none"
    /\ Commit(message)
    /\ UNCHANGED <<svc, cmd, disk, world>>

ReceiveFails(error) ==
    /\ sup.pc = "session" /\ sup.link = "greeted"
    /\ sup' = [sup EXCEPT !.pc = "busy", !.link = "none",
                          !.event = IF IsRetryable(error) THEN "failed_retryable" ELSE "failed_final"]
    /\ UNCHANGED <<svc, cmd, disk, world>>

ReceiveReport ==
    /\ sup.pc = "session" /\ svc.outbound > 0
    /\ Commit("report")
    /\ svc' = [svc EXCEPT !.outbound = @ - 1]
    /\ UNCHANGED <<cmd, disk, world>>

SessionControl ==
    /\ sup.pc = "session"
    /\ \/ /\ HeadIs("Reconnect")
          /\ sup' = [sup EXCEPT !.pc = "ending", !.parked = 0, !.free = 0] /\ svc' = Received
       \/ HeadIs("ConfigurationChanged") /\ End(FALSE, sup.retry) /\ svc' = Received
       \/ /\ HeadIs("PublishInventory")
          /\ IF sup.handshaken THEN Commit("publish") ELSE UNCHANGED sup
          /\ svc' = Received
       \/ /\ ShuttingDown \/ HeadIs("Shutdown")
          /\ Exit
    /\ UNCHANGED <<cmd, disk, world>>

\* What the supervisor writes to the socket is remembered with the pairing at that moment.
SentNow == [world EXCEPT !.sent = @ \cup {<<sup.connection.server, svc.connection.server>>}]

HandleTimeout ==
    /\ sup.event = "timeout" /\ LockFree
    /\ IF SameGeneration THEN End(sup.auto, "backoff") ELSE End(FALSE, sup.retry)
    /\ UNCHANGED <<svc, cmd, disk, world>>

HandleFailure ==
    /\ sup.event \in {"failed_retryable", "failed_final"} /\ LockFree
    /\ LET falls == ~sup.handshaken /\ FallsBack(sup.planner)
       IN  sup' = [sup EXCEPT !.pc = "ending", !.event = "none", !.parked = 0,
                        !.planner = IF SameGeneration /\ falls THEN OnClosedBeforeHello(@) ELSE @,
                        !.retry = IF ~SameGeneration THEN @
                                  ELSE IF falls THEN "zero"
                                  ELSE IF sup.event = "failed_retryable" THEN "backoff" ELSE @,
                        !.auto = IF SameGeneration /\ (falls \/ sup.event = "failed_retryable")
                                 THEN @ ELSE FALSE]
    /\ UNCHANGED <<svc, cmd, disk, world>>

\* Mutant: the generation is not checked before the write.
HandlePublishUnchecked ==
    /\ sup.event = "publish" /\ LockFree
    /\ sup' = [sup EXCEPT !.pc = "session", !.event = "none"] /\ world' = SentNow
    /\ UNCHANGED <<svc, cmd, disk>>

\* send_inventory and report forwarding: the write succeeds or ends the session.
HandlePublish ==
    /\ sup.event = "publish" /\ LockFree
    /\ IF ~SameGeneration THEN End(FALSE, sup.retry) /\ UNCHANGED world
       ELSE \/ sup' = [sup EXCEPT !.pc = "session", !.event = "none"] /\ world' = SentNow
            \/ End(sup.auto, "backoff") /\ UNCHANGED world
    /\ UNCHANGED <<svc, cmd, disk>>

HandleReport ==
    /\ sup.event = "report" /\ LockFree
    /\ IF ~SameGeneration THEN End(FALSE, sup.retry) /\ UNCHANGED world
       ELSE IF sup.handshaken
       THEN \/ sup' = [sup EXCEPT !.pc = "session", !.event = "none"] /\ world' = SentNow
            \/ End(sup.auto, "backoff") /\ UNCHANGED world
       ELSE /\ sup' = [sup EXCEPT !.pc = "session", !.event = "none",
                                  !.parked = IF @ < ParkCapacity THEN @ + 1 ELSE @]
            /\ UNCHANGED world
    /\ UNCHANGED <<svc, cmd, disk>>

\* server.hello opens the session; the inventory and the parked reports follow it.
HandleHello ==
    /\ sup.event \in Hellos /\ LockFree
    /\ IF ~SameGeneration THEN End(FALSE, sup.retry) /\ UNCHANGED <<svc, disk, world>>
       ELSE IF sup.handshaken \/ sup.event = "hello_mismatched"
       THEN End(sup.auto, "backoff") /\ UNCHANGED <<svc, disk, world>>
       ELSE LET server == sup.connection.server
                selected == SelectProtocolVersion(Speaks[server], sup.planner.offered)
            IN  /\ svc' = [svc EXCEPT !.phase = "connected", !.agent = Transition(@, "connected")]
                /\ disk' = [disk EXCEPT !.legacy = OnAccepted(sup.planner, selected, server, @)]
                /\ \E delivered \in BOOLEAN :
                     /\ sup' = [sup EXCEPT !.pc = IF delivered THEN "session" ELSE "ending",
                                           !.retry = IF delivered THEN @ ELSE "backoff",
                                           !.event = "none", !.parked = 0,
                                           !.handshaken = TRUE, !.planner = NoPlanner]
                     /\ world' = IF delivered THEN SentNow ELSE world
    /\ UNCHANGED cmd

\* Heartbeats and inventory requests are answered; prints and cancels are spawned.
HandleMessage ==
    /\ sup.event \in Messages \ Hellos /\ LockFree
    /\ IF ~SameGeneration THEN End(FALSE, sup.retry) /\ UNCHANGED world
       ELSE IF ~sup.handshaken \/ sup.event \in {"unnegotiated", "disconnect_retry"}
       THEN End(sup.auto, "backoff") /\ UNCHANGED world
       ELSE IF sup.event = "disconnect_stop"
       THEN End(FALSE, sup.retry) /\ UNCHANGED world
       ELSE \/ /\ sup' = [sup EXCEPT !.pc = "session", !.event = "none"]
               /\ world' = IF sup.event = "answered" THEN SentNow ELSE world
            \/ sup.event = "answered" /\ End(sup.auto, "backoff") /\ UNCHANGED world
    /\ UNCHANGED <<svc, cmd, disk>>

EndConnection ==
    /\ sup.pc = "ending" /\ LockFree
    /\ sup' = [OutOfScope(sup) EXCEPT !.pc = "top"]
    /\ svc' = IF SameGeneration
              THEN [svc EXCEPT !.agent = Transition(@, "disconnected"),
                       !.phase = IF @ \in {"connecting", "authenticating", "connected"}
                                 THEN "paired" ELSE @]
              ELSE svc
    /\ UNCHANGED <<cmd, disk, world>>

-----------------------------------------------------------------------------
(***************************************************************************)
(* Commands.  A command that takes provider_operation keeps it until cmd   *)
(* is Quiet again, its wait for room in the control channel included.      *)
(***************************************************************************)
CommandsLeft == world.commands < MaxCommands
DisturbancesLeft == world.disturbances < MaxDisturbances
Counted == [world EXCEPT !.commands = @ + 1]
Disturbed == [world EXCEPT !.disturbances = @ + 1]
Step(step) == cmd' = [cmd EXCEPT !.step = step]
HasRoom == Len(svc.controls) < ControlCapacity \/ sup.pc = "done"
Sending(control) == [svc EXCEPT !.controls = IF sup.pc = "done" THEN @ ELSE Append(@, control)]

\* force_unconfigured_with_errors
ForceUnconfigured(service) ==
    [service EXCEPT !.agentId = FALSE,
        !.agent = LET halted == IF @ \in Live THEN Transition(@, "disconnected") ELSE @
                  IN  Transition(halted, "unconfigured")]

\* pair_server: refused while paired or outside Unconfigured.
PairServer ==
    /\ LockFree /\ CommandsLeft
    /\ svc.connection = NoConnection /\ svc.agent = "unconfigured"
    /\ cmd' = [op |-> "pair", step |-> "discover", ref |-> world.commands + 1, url |-> svc.url]
    /\ svc' = [svc EXCEPT !.agent = "pairing", !.phase = "pairing"]
    /\ world' = Counted
    /\ UNCHANGED <<sup, disk>>

PairingStops(phase) ==
    /\ svc' = [svc EXCEPT !.agent = Transition(@, "unconfigured"), !.phase = phase]
    /\ cmd' = Quiet

PairDiscover ==
    /\ cmd.step = "discover"
    /\ \/ Step("generate") /\ UNCHANGED svc
       \/ PairingStops("discovery_failed")
    /\ UNCHANGED <<sup, disk, world>>

GenerateKey ==
    /\ cmd.step = "generate"
    /\ \/ /\ Step("redeem")
          /\ disk' = [disk EXCEPT !.keys = @ \cup {cmd.ref}]
          /\ UNCHANGED <<svc, world>>
       \/ DisturbancesLeft /\ PairingStops("unpaired") /\ world' = Disturbed /\ UNCHANGED disk
    /\ UNCHANGED sup

\* Deleting the new key is best effort.
DropNewKey ==
    \/ disk' = [disk EXCEPT !.keys = @ \ {cmd.ref}] /\ UNCHANGED world
    \/ DisturbancesLeft /\ world' = Disturbed /\ UNCHANGED disk

RedeemCode ==
    /\ cmd.step = "redeem"
    /\ \/ /\ Step("store")
          /\ world' = [world EXCEPT !.registered = @ \cup {[server |-> cmd.url, ref |-> cmd.ref]}]
          /\ UNCHANGED <<svc, disk>>
       \/ PairingStops("unpaired") /\ DropNewKey
    /\ UNCHANGED sup

StoreConnection ==
    /\ cmd.step = "store"
    /\ \/ /\ Step("adopt")
          /\ disk' = [disk EXCEPT !.connection = [server |-> cmd.url, ref |-> cmd.ref]]
          /\ UNCHANGED <<svc, world>>
       \/ /\ DisturbancesLeft /\ PairingStops("unpaired") /\ world' = Disturbed
          /\ \E cleaned \in BOOLEAN :
               disk' = [disk EXCEPT !.keys = IF cleaned THEN @ \ {cmd.ref} ELSE @]
    /\ UNCHANGED sup

AdoptConnection ==
    /\ cmd.step = "adopt"
    /\ svc' = [svc EXCEPT !.agentId = TRUE, !.phase = "paired",
                          !.connection = [server |-> cmd.url, ref |-> cmd.ref],
                          !.agent = Transition(@, "disconnected")]
    /\ IF CanTransition(svc.agent, "disconnected") THEN Step("signal") ELSE cmd' = Quiet
    /\ UNCHANGED <<sup, disk, world>>

\* Mutant: the pairing stays in use until its key is gone.
ForgetServerLate(url) ==
    /\ LockFree /\ CommandsLeft
    /\ cmd' = [op |-> IF url = svc.url THEN "forget" ELSE "apply", url |-> url,
               step |-> IF svc.connection = NoConnection THEN "clear" ELSE "delete",
               ref |-> svc.connection.ref]
    /\ world' = Counted
    /\ UNCHANGED <<sup, svc, disk>>

\* forget_server, and apply_server_configuration with another URL.
ForgetServer(url) ==
    /\ LockFree /\ CommandsLeft
    /\ cmd' = [op |-> IF url = svc.url THEN "forget" ELSE "apply", url |-> url,
               step |-> IF svc.connection = NoConnection THEN "clear" ELSE "delete",
               ref |-> svc.connection.ref]
    /\ svc' = [svc EXCEPT !.connection = NoConnection]
    /\ world' = Counted
    /\ UNCHANGED <<sup, disk>>

DeleteKey ==
    /\ cmd.step = "delete"
    /\ \/ Step("clear") /\ disk' = [disk EXCEPT !.keys = @ \ {cmd.ref}] /\ UNCHANGED world
       \/ DisturbancesLeft /\ cmd' = Quiet /\ world' = Disturbed /\ UNCHANGED disk
    /\ UNCHANGED <<sup, svc>>

ClearConnection ==
    /\ cmd.step = "clear"
    /\ \/ /\ Step(IF cmd.op = "forget" THEN "bump" ELSE "configure")
          /\ disk' = [disk EXCEPT !.connection = NoConnection]
          /\ svc' = ForceUnconfigured([svc EXCEPT !.phase = "unpaired"])
          /\ UNCHANGED world
       \/ DisturbancesLeft /\ cmd' = Quiet /\ world' = Disturbed /\ UNCHANGED <<svc, disk>>
    /\ UNCHANGED sup

\* Mutant: the supervisor is not told.
BumpGenerationSilently ==
    /\ cmd.step = "bump"
    /\ cmd' = Quiet
    /\ svc' = [svc EXCEPT !.generation = @ + 1]
    /\ UNCHANGED <<sup, disk, world>>

BumpGeneration ==
    /\ cmd.step = "bump"
    /\ Step("signal")
    /\ svc' = [svc EXCEPT !.generation = @ + 1]
    /\ UNCHANGED <<sup, disk, world>>

StoreConfiguration ==
    /\ cmd.step = "configure"
    /\ Step("signal")
    /\ \/ /\ disk' = [disk EXCEPT !.url = cmd.url]
          /\ svc' = ForceUnconfigured([svc EXCEPT !.url = cmd.url, !.generation = @ + 1])
          /\ UNCHANGED world
       \/ /\ DisturbancesLeft /\ world' = Disturbed
          /\ svc' = ForceUnconfigured([svc EXCEPT !.generation = @ + 1])
          /\ UNCHANGED disk
    /\ UNCHANGED sup

SignalSupervisor ==
    /\ cmd.step = "signal" /\ HasRoom
    /\ svc' = Sending(IF cmd.op = "pair" THEN "Reconnect" ELSE "ConfigurationChanged")
    /\ cmd' = Quiet
    /\ UNCHANGED <<sup, disk, world>>

\* reconnect waits for room without the lock; publish_inventory drops a control that does not fit.
Reconnect ==
    /\ DisturbancesLeft /\ svc.agentId /\ HasRoom
    /\ svc' = Sending("Reconnect") /\ world' = Disturbed
    /\ UNCHANGED <<sup, cmd, disk>>

PublishInventory ==
    /\ DisturbancesLeft /\ HasRoom
    /\ svc' = Sending("PublishInventory") /\ world' = Disturbed
    /\ UNCHANGED <<sup, cmd, disk>>

Report ==
    /\ DisturbancesLeft /\ sup.pc # "done"
    /\ svc' = [svc EXCEPT !.outbound = @ + 1]
    /\ world' = Disturbed
    /\ UNCHANGED <<sup, cmd, disk>>

Shutdown ==
    /\ svc.shutdown = "no" /\ DisturbancesLeft
    /\ svc' = [svc EXCEPT !.shutdown = "cancelled"] /\ world' = Disturbed
    /\ UNCHANGED <<sup, cmd, disk>>

SignalShutdown ==
    /\ svc.shutdown = "cancelled" /\ HasRoom
    /\ svc' = [Sending("Shutdown") EXCEPT !.shutdown = "sent", !.agent = "shutting_down"]
    /\ UNCHANGED <<sup, cmd, disk, world>>

-----------------------------------------------------------------------------
(***************************************************************************)
(* Time and restarts.                                                      *)
(***************************************************************************)
LegacyExpires ==
    /\ disk.legacy.current
    /\ disk' = [disk EXCEPT !.legacy.current = FALSE]
    /\ UNCHANGED <<sup, svc, cmd, world>>

\* DesktopService::initialize restores a pairing of the configured URL whose key is present
\* in a credential store that can be read.
Restored(readable) ==
    IF readable /\ disk.connection.server = disk.url /\ disk.connection.ref \in disk.keys
    THEN disk.connection ELSE NoConnection

Initialized(connection) ==
    LET paired == connection # NoConnection
    IN  [connection |-> connection, url |-> disk.url, generation |-> 0, agentId |-> paired,
         phase |-> IF paired THEN "paired" ELSE "unpaired",
         agent |-> IF paired THEN "disconnected" ELSE "unconfigured",
         controls |-> <<>>, outbound |-> 0, shutdown |-> "no"]

Restart ==
    /\ DisturbancesLeft /\ world' = Disturbed
    /\ sup' = FreshSupervisor
    /\ \E readable \in BOOLEAN : svc' = Initialized(Restored(readable))
    /\ cmd' = Quiet
    /\ UNCHANGED disk

\* A first start, or a start with the pairing of an earlier run.
Init ==
    /\ \E url \in Servers, paired \in BOOLEAN :
         LET connection == IF paired THEN [server |-> url, ref |-> MaxCommands + 1] ELSE NoConnection
         IN  /\ disk = [connection |-> connection, url |-> url, legacy |-> NoRecord,
                        keys |-> {connection.ref} \ {0}]
             /\ world = [registered |-> {connection} \ {NoConnection}, sent |-> {},
                         commands |-> 0, disturbances |-> 0]
    /\ sup = FreshSupervisor
    /\ \E readable \in BOOLEAN : svc = Initialized(Restored(readable))
    /\ cmd = Quiet

-----------------------------------------------------------------------------
SupervisorStep ==
    \/ Top \/ PausedControl \/ PausedReport \/ DelayElapsed \/ DelayControl \/ ReadConfiguration
    \/ Discover \/ EnterConnecting \/ Connect \/ CheckConnected \/ Announce \/ ReceiveChallenge
    \/ SendResponse \/ ReceiveVerdict \/ SendHello \/ SendHelloFails \/ HelloTimeout
    \/ ReceiveReport \/ SessionControl \/ HandleTimeout \/ HandleFailure \/ HandlePublish
    \/ HandleReport \/ HandleHello \/ HandleMessage \/ EndConnection
    \/ \E error \in ConnectErrors : ConnectFails(error)

PeerStep ==
    \/ \E message \in Messages : ReceiveMessage(message)
    \/ \E error \in ReceiveErrors : ReceiveFails(error)

CommandStep ==
    \/ PairDiscover \/ GenerateKey \/ RedeemCode \/ StoreConnection \/ AdoptConnection
    \/ DeleteKey \/ ClearConnection \/ BumpGeneration \/ StoreConfiguration
    \/ SignalSupervisor \/ SignalShutdown

UserStep ==
    \/ PairServer \/ Reconnect \/ PublishInventory \/ Report \/ Shutdown
    \/ \E url \in Servers : ForgetServer(url)

Next == SupervisorStep \/ PeerStep \/ CommandStep \/ UserStep \/ LegacyExpires \/ Restart

\* tokio runs ready tasks, hands the lock over in FIFO order and picks at random among the
\* ready branches of a select!; awaits on the network are bounded by timeouts.  Nothing is
\* assumed of users, peers or crashes.
Fairness ==
    /\ SF_vars(SupervisorStep) /\ WF_vars(CommandStep)
    /\ SF_vars(PausedControl) /\ SF_vars(DelayControl) /\ SF_vars(SessionControl)

Spec == Init /\ [][Next]_vars /\ Fairness

-----------------------------------------------------------------------------
(***************************************************************************)
(* What must hold.                                                         *)
(***************************************************************************)
\* What an open session writes (inventory, job reports, heartbeat answers) goes to the
\* server the service is paired with, or was until a forget that has not finished: the
\* generation check under provider_operation stands between a changed pairing and the
\* socket that is still open to the old server.
FramesGoToPairedServer == \A pair \in world.sent : pair[2] \in {pair[1], "none"}

\* A pairing the service hands to the supervisor is complete: its private key is in the
\* credential store, it is the pairing on disk, and its server knows the key, whichever
\* step of pairing or forgetting failed and wherever the process was restarted.
ConnectionUsable ==
    svc.connection # NoConnection =>
        /\ svc.connection.ref \in disk.keys
        /\ svc.connection = disk.connection
        /\ svc.connection \in world.registered

\* At most two connection attempts are made between two delays (the back-off's, or the one
\* a server.disconnect asks for) or user requests: the first one and the immediate second
\* offer of the base protocol.
NoHotLoop == sup.free <= 2

\* An open session belongs to the current provider generation, or the notice that it
\* does not is still to be read by the supervisor or sent by the command.
StaleSessionIsTold ==
    sup.pc \in {"session", "busy"} /\ ~SameGeneration =>
        \/ cmd.step = "signal"
        \/ \E i \in 1..Len(svc.controls) : svc.controls[i] = "ConfigurationChanged"

\* Quitting ends the supervisor, wherever it is and whatever command is under way.
ShutdownFinishes == svc.shutdown # "no" ~> (sup.pc = "done" \/ svc.shutdown = "no")

=============================================================================
