------------------------- MODULE Supervisor_proofs -------------------------
(***************************************************************************)
(* Proofs about the connection supervisor for any set of servers, any      *)
(* protocol versions they speak, any channel capacity and any number of    *)
(* commands, failures and restarts.                                        *)
(*                                                                         *)
(* The supervisor and the commands share svc.  Each of the four safety     *)
(* properties rests on an invariant that says what the other side may have *)
(* done meanwhile, at every step at which one of them is suspended.        *)
(***************************************************************************)
EXTENDS Supervisor, TLAPS

Connections == [server : Servers \cup {"none"}, ref : Nat]

\* The steps of an iteration that has read the pairing and has no open session yet.
Attempting == {"discover", "enter", "connect", "connected", "announce", "challenge", "respond",
               "verdict", "hello"}

Pcs == Attempting \cup {"top", "paused", "delay", "redial", "read", "session", "busy", "ending",
                        "done"}

\* The steps at which the iteration holds a snapshot of the pairing.
Holding == Attempting \cup {"session", "busy"}
Active == sup.pc \in Holding

Planners == [offered : SUBSET {Base, Extended}, had_record : BOOLEAN, may_fall_back : BOOLEAN,
             fell_back : BOOLEAN]

Events == Messages \cup {"none", "timeout", "failed_retryable", "failed_final", "report",
                          "publish"}

Supervisors ==
  [pc : Pcs,
   auto : BOOLEAN, retry : {"none", "backoff", "zero"},
   planner : Planners,
   connection : Connections, generation : Nat,
   link : {"none", "open", "authenticated", "greeted"}, handshaken : BOOLEAN,
   event : Events,
   parked : Nat, free : Nat]

SupType == sup \in Supervisors

AgentStates == Live \cup {"unconfigured", "pairing", "disconnected", "shutting_down"}

Controls == {"Reconnect", "ConfigurationChanged", "PublishInventory", "Shutdown"}

Phases == {"paired", "unpaired", "pairing", "connecting", "authenticating", "connected",
           "discovery_failed", "authentication_failed", "credential_revoked"}

Services ==
  [connection : Connections, url : Servers, generation : Nat, agentId : BOOLEAN,
   phase : Phases,
   agent : AgentStates,
   controls : Seq(Controls),
   outbound : Nat, shutdown : {"no", "cancelled", "sent"}]

SvcType == svc \in Services

Unconfigured == {"unconfigured", "pairing"}

PairSteps == {"discover", "generate", "redeem", "store", "adopt"}
ForgetSteps == {"delete", "clear", "bump", "configure"}

Commands ==
  [op : {"none", "pair", "forget", "apply"},
   step : PairSteps \cup ForgetSteps \cup {"none", "signal"},
   ref : Nat, url : Servers \cup {"none"}]

CmdType == cmd \in Commands

Disks ==
  [connection : Connections, url : Servers,
   legacy : [server : Servers \cup {"none"}, current : BOOLEAN], keys : SUBSET Nat]

DiskType == disk \in Disks

Worlds ==
  [registered : SUBSET Connections,
   sent : SUBSET ((Servers \cup {"none"}) \X (Servers \cup {"none"})),
   commands : Nat, disturbances : Nat]

WorldType == world \in Worlds

TypeOK == SupType /\ SvcType /\ CmdType /\ DiskType /\ WorldType

Command == [server |-> cmd.url, ref |-> cmd.ref]

CmdShape ==
  /\ cmd.step = "none" => cmd = Quiet
  /\ cmd.step \in PairSteps => cmd.op = "pair" /\ cmd.url \in Servers
  /\ cmd.step \in ForgetSteps => cmd.op \in {"forget", "apply"} /\ cmd.url \in Servers

\* A command that is changing the pairing has taken it out of use, and what pairing has
\* established so far is there.
PairingProgress ==
  /\ disk.connection \in world.registered \cup {NoConnection}
  /\ cmd.step \in PairSteps \cup ForgetSteps => svc.connection = NoConnection
  /\ cmd.step \in {"redeem", "store", "adopt"} => cmd.ref \in disk.keys
  /\ cmd.step \in {"store", "adopt"} => Command \in world.registered
  /\ cmd.step = "adopt" => disk.connection = Command

Spare == sup.free = 0 \/ (sup.free = 1 /\ sup.planner.fell_back)

\* The second free attempt is paid for by the planner's one fall-back.
AttemptBudget ==
  /\ sup.event # "none" => sup.pc = "busy"
  /\ sup.free <= 2
  /\ sup.pc = "paused" => ~sup.auto
  /\ sup.pc \in {"top", "ending"} /\ sup.auto /\ sup.retry # "backoff" => Spare
  /\ sup.pc \in {"delay", "read"} => Spare
  /\ sup.pc = "redial" => sup.free = 0
  /\ sup.pc \in Attempting => sup.free <= 1 \/ sup.planner.fell_back
  /\ sup.pc \in {"session", "busy"} => sup.free <= 1 \/ sup.handshaken \/ sup.planner.fell_back

Told == \E i \in 1..Len(svc.controls) : svc.controls[i] = "ConfigurationChanged"

\* A notice is on its way to every iteration whose snapshot is out of date.
NoticeOnItsWay ==
  Active /\ ~SameGeneration => (cmd.step = "signal" /\ cmd.op # "pair") \/ Told

\* While the generation stands, the pairing in use is the snapshot or none: a new pairing
\* needs an unconfigured agent, which only the end of a forget brings about.
SnapshotStands ==
  /\ sup.generation <= svc.generation
  /\ svc.connection # NoConnection => svc.agent \notin Unconfigured
  /\ Active /\ SameGeneration =>
       /\ svc.connection \in {sup.connection, NoConnection}
       /\ cmd.step \notin {"bump", "configure"} => svc.agent \notin Unconfigured
       /\ cmd.step \notin PairSteps
  /\ cmd.step \in PairSteps => svc.agent \in {"pairing", "shutting_down"}

-----------------------------------------------------------------------------
(***************************************************************************)
(* The supervisor's own state: its type and the budget of free attempts.   *)
(***************************************************************************)
Retries == {"none", "backoff", "zero"}

SupInvariant == SupType /\ AttemptBudget

\* What a step does to the iteration's snapshot: kept, taken under the lock, or dropped.
SnapshotKept ==
  /\ sup'.generation \in {0, sup.generation}
  /\ sup'.pc \in Holding =>
       sup.pc \in Holding /\ sup'.generation = sup.generation /\ sup'.connection = sup.connection

SnapshotTaken ==
  /\ LockFree /\ svc.connection # NoConnection
  /\ sup'.pc = "discover" /\ sup'.connection = svc.connection
  /\ sup'.generation = svc.generation

Kept == SupInvariant' /\ (SnapshotKept \/ SnapshotTaken)

\* No planner (`planner: None` at the start of run_connection_supervisor) has not fallen back.
LEMMA NoPlannerType == NoPlanner \in Planners /\ ~NoPlanner.fell_back
BY DEF NoPlanner, Planners

\* No pairing is a pairing value.
LEMMA NoConnectionType == NoConnection \in Connections
BY DEF NoConnection, Connections

\* Leaving the loop's scope forgets the snapshot and nothing of the reconnection state.
LEMMA OutOfScopeType ==
  ASSUME NEW s \in Supervisors
  PROVE  /\ OutOfScope(s) \in Supervisors
         /\ OutOfScope(s).free = s.free
         /\ OutOfScope(s).planner = s.planner
         /\ OutOfScope(s).event = s.event
         /\ OutOfScope(s).auto = s.auto
         /\ OutOfScope(s).retry = s.retry
         /\ OutOfScope(s).generation = 0
BY NoConnectionType DEF Supervisors, OutOfScope

\* `continue` keeps the budget when it stops reconnecting or asks for a back-off.
LEMMA LoopKeeps ==
  ASSUME SupInvariant, NEW auto \in BOOLEAN, NEW retry \in Retries, auto => retry = "backoff",
         sup.event = "none", Loop(auto, retry)
  PROVE  Kept
<1> DEFINE s == OutOfScope(sup)
<1>1. s \in Supervisors /\ s.free = sup.free /\ s.planner = sup.planner /\ s.event = sup.event
      /\ s.generation = 0
  BY OutOfScopeType DEF SupInvariant, SupType
<1>2. sup' = [s EXCEPT !.pc = "top", !.auto = auto, !.retry = retry]
  BY DEF Loop
<1> HIDE DEF s
<1> QED
  BY <1>1, <1>2
     DEF Kept, SnapshotKept, Holding, SupInvariant, SupType, Supervisors, AttemptBudget, Pcs,
         Attempting, Retries

\* So does the end of a session.
LEMMA EndKeeps ==
  ASSUME SupInvariant, NEW auto \in BOOLEAN, NEW retry \in Retries, auto => retry = "backoff",
         End(auto, retry)
  PROVE  Kept
BY DEF Kept, SnapshotKept, Holding, SupInvariant, SupType, Supervisors, AttemptBudget, Pcs,
       Attempting, Retries, End, Events

\* The locals at the start of the task.
LEMMA FreshType ==
  ASSUME NEW pc \in Pcs
  PROVE  /\ [FreshSupervisor EXCEPT !.pc = pc] \in Supervisors
         /\ [FreshSupervisor EXCEPT !.pc = pc].pc = pc
         /\ [FreshSupervisor EXCEPT !.pc = pc].free = 0
         /\ [FreshSupervisor EXCEPT !.pc = pc].event = "none"
         /\ [FreshSupervisor EXCEPT !.pc = pc].generation = 0
BY NoPlannerType, NoConnectionType DEF Supervisors, FreshSupervisor, Events, Pcs

\* A task that has returned makes no attempts.
LEMMA ExitKeeps ==
  ASSUME Exit PROVE Kept
<1>1. sup' = [FreshSupervisor EXCEPT !.pc = "done"]
  BY DEF Exit
<1>2. sup' \in Supervisors /\ sup'.pc = "done" /\ sup'.free = 0 /\ sup'.event = "none"
      /\ sup'.generation = 0
  BY <1>1, FreshType DEF Pcs
<1> QED
  BY <1>2 DEF Kept, SnapshotKept, Holding, SupInvariant, SupType, AttemptBudget, Attempting

\* A new process starts with a full budget.
LEMMA FreshKeeps ==
  ASSUME sup' = FreshSupervisor PROVE Kept
<1>1. /\ FreshSupervisor \in Supervisors /\ FreshSupervisor.pc = "top"
      /\ FreshSupervisor.free = 0 /\ FreshSupervisor.event = "none"
      /\ FreshSupervisor.generation = 0
  BY NoPlannerType, NoConnectionType DEF Supervisors, FreshSupervisor, Events, Pcs
<1> QED
  BY <1>1 DEF Kept, SnapshotKept, Holding, SupInvariant, SupType, AttemptBudget, Attempting, Spare

\* Between the read of the pairing and the hello nothing is spent.
LEMMA AttemptKeeps ==
  ASSUME SupInvariant, sup.pc \in Attempting, NEW pc \in Attempting,
         NEW link \in {"none", "open", "authenticated", "greeted"},
         sup' = [sup EXCEPT !.pc = pc] \/ sup' = [sup EXCEPT !.pc = pc, !.link = link]
  PROVE  Kept
<1>1. /\ sup' \in Supervisors /\ sup'.pc = pc /\ sup'.free = sup.free
      /\ sup'.planner = sup.planner /\ sup'.event = sup.event
      /\ sup'.generation = sup.generation /\ sup'.connection = sup.connection
  <2>1. CASE sup' = [sup EXCEPT !.pc = pc]
    BY <2>1 DEF SupInvariant, SupType, Supervisors, Pcs
  <2>2. CASE sup' = [sup EXCEPT !.pc = pc, !.link = link]
    BY <2>2 DEF SupInvariant, SupType, Supervisors, Pcs
  <2> QED
    BY <2>1, <2>2
<1> QED
  BY <1>1 DEF Kept, SnapshotKept, Holding, SupInvariant, SupType, AttemptBudget, Attempting

\* Within a session nothing is spent either.
LEMMA SessionKeeps ==
  ASSUME SupInvariant, sup.pc \in {"session", "busy"}, sup' \in Supervisors,
         sup'.pc \in {"session", "busy"}, sup'.free = sup.free, sup'.planner = sup.planner,
         sup'.handshaken = sup.handshaken, sup'.event # "none" => sup'.pc = "busy",
         sup'.generation = sup.generation, sup'.connection = sup.connection
  PROVE  Kept
BY DEF Kept, SnapshotKept, Holding, SupInvariant, SupType, AttemptBudget, Attempting

-----------------------------------------------------------------------------
\* The head of run_connection_supervisor's loop.
LEMMA TopKeeps == ASSUME SupInvariant, Top PROVE Kept
<1> DEFINE next == IF sup.retry = "none" THEN "read" ELSE "delay"
           kept == IF sup.retry = "backoff" THEN 0 ELSE sup.free
<1>1. sup.pc = "top" /\ sup.auto \in BOOLEAN
  BY DEF Top, SupInvariant, SupType, Supervisors
<1>2. \/ Exit
      \/ ~sup.auto /\ sup' = [sup EXCEPT !.pc = "paused"]
      \/ sup.auto /\ sup' = [sup EXCEPT !.pc = next, !.free = kept]
  BY DEF Top
<1>3. CASE ~sup.auto /\ sup' = [sup EXCEPT !.pc = "paused"]
  BY <1>1, <1>3
     DEF Kept, SnapshotKept, Holding, SupInvariant, SupType, Supervisors, AttemptBudget, Pcs,
         Attempting
<1>4. CASE sup.auto /\ sup' = [sup EXCEPT !.pc = next, !.free = kept]
  <2>1. /\ sup' \in Supervisors /\ sup'.pc = next /\ sup'.free = kept
        /\ sup'.planner = sup.planner /\ sup'.event = sup.event
        /\ sup'.generation = sup.generation
    BY <1>4 DEF SupInvariant, SupType, Supervisors, Pcs
  <2> QED
    BY <1>1, <1>4, <2>1
       DEF Kept, SnapshotKept, Holding, SupInvariant, SupType, AttemptBudget, Attempting, Spare
<1> QED
  BY <1>2, <1>3, <1>4, ExitKeeps

\* wait_for_reconnect: only a user's Reconnect goes on, with a full budget.
LEMMA PausedKeeps == ASSUME SupInvariant, PausedControl PROVE Kept
<1> DEFINE next == IF sup.retry = "none" THEN "read" ELSE "delay"
<1>1. \/ Exit
      \/ sup' = [sup EXCEPT !.pc = "top"]
      \/ sup' = [sup EXCEPT !.auto = TRUE, !.free = 0, !.pc = next]
  BY DEF PausedControl
<1>2. sup.pc = "paused" /\ ~sup.auto /\ sup.event = "none"
  BY DEF PausedControl, SupInvariant, AttemptBudget
<1>3. CASE sup' = [sup EXCEPT !.pc = "top"]
  BY <1>2, <1>3
     DEF Kept, SnapshotKept, Holding, SupInvariant, SupType, Supervisors, AttemptBudget, Pcs,
         Attempting
<1>4. CASE sup' = [sup EXCEPT !.auto = TRUE, !.free = 0, !.pc = next]
  <2>1. /\ sup' \in Supervisors /\ sup'.pc = next /\ sup'.free = 0 /\ sup'.event = sup.event
        /\ sup'.generation = sup.generation
    BY <1>4 DEF SupInvariant, SupType, Supervisors, Pcs
  <2> QED
    BY <1>2, <2>1
       DEF Kept, SnapshotKept, Holding, SupInvariant, SupType, AttemptBudget, Attempting, Spare
<1> QED
  BY <1>1, <1>3, <1>4, ExitKeeps

\* wait_delay_or_control.
LEMMA DelayKeeps == ASSUME SupInvariant, DelayElapsed \/ DelayControl PROVE Kept
<1>1. sup.pc \in {"delay", "redial"} /\ sup.event = "none" /\ AfterDelay \in {"read", "top"}
  BY DEF DelayElapsed, DelayControl, SupInvariant, AttemptBudget, AfterDelay
<1>2. \/ Exit \/ Loop(FALSE, "none") \/ sup' = sup
      \/ sup' = [sup EXCEPT !.pc = AfterDelay, !.retry = "none"]
      \/ sup' = [sup EXCEPT !.pc = AfterDelay, !.retry = "none", !.free = 0]
  BY DEF DelayElapsed, DelayControl
<1>3. CASE sup' = [sup EXCEPT !.pc = AfterDelay, !.retry = "none"]
  <2>1. /\ sup' \in Supervisors /\ sup'.pc = AfterDelay /\ sup'.free = sup.free
        /\ sup'.planner = sup.planner /\ sup'.event = sup.event
        /\ sup'.generation = sup.generation
    BY <1>1, <1>3 DEF SupInvariant, SupType, Supervisors, Pcs
  <2> QED
    BY <1>1, <2>1
       DEF Kept, SnapshotKept, Holding, SupInvariant, SupType, AttemptBudget, Attempting, Spare,
           AfterDelay
<1>4. CASE sup' = [sup EXCEPT !.pc = AfterDelay, !.retry = "none", !.free = 0]
  <2>1. /\ sup' \in Supervisors /\ sup'.pc = AfterDelay /\ sup'.free = 0
        /\ sup'.event = sup.event /\ sup'.generation = sup.generation
    BY <1>1, <1>4 DEF SupInvariant, SupType, Supervisors, Pcs
  <2> QED
    BY <1>1, <2>1
       DEF Kept, SnapshotKept, Holding, SupInvariant, SupType, AttemptBudget, Attempting, Spare
<1>5. CASE sup' = sup
  BY <1>5 DEF Kept, SnapshotKept, Holding, SupInvariant, SupType, AttemptBudget, Spare
<1>6. CASE Loop(FALSE, "none")
  BY <1>1, <1>6, LoopKeeps DEF Retries
<1> QED
  BY <1>2, <1>3, <1>4, <1>5, <1>6, ExitKeeps

\* The read of the pairing spends one attempt.
LEMMA ReadKeeps == ASSUME SupInvariant, SvcType, ReadConfiguration PROVE Kept
<1> DEFINE connection == svc.connection
           generation == svc.generation
           free == sup.free + 1
<1>1. sup.pc = "read" /\ sup.event = "none" /\ sup \in Supervisors /\ LockFree
  BY DEF ReadConfiguration, SupInvariant, SupType, AttemptBudget
<1>2. connection \in Connections /\ generation \in Nat /\ free \in Nat
  BY DEF SvcType, Services, SupInvariant, SupType, Supervisors
<1>3. \/ sup' = [sup EXCEPT !.pc = "top", !.auto = FALSE]
      \/ /\ svc.connection # NoConnection
         /\ sup' = [sup EXCEPT !.pc = "discover", !.connection = connection,
                               !.generation = generation, !.free = free]
  BY DEF ReadConfiguration
<1>4. CASE sup' = [sup EXCEPT !.pc = "top", !.auto = FALSE]
  BY <1>1, <1>4
     DEF Kept, SnapshotKept, Holding, SupInvariant, SupType, Supervisors, AttemptBudget, Pcs,
         Attempting
<1>5. CASE /\ svc.connection # NoConnection
           /\ sup' = [sup EXCEPT !.pc = "discover", !.connection = connection,
                                 !.generation = generation, !.free = free]
  <2>1. /\ sup' \in Supervisors /\ sup'.pc = "discover" /\ sup'.free = free
        /\ sup'.planner = sup.planner /\ sup'.event = sup.event
        /\ sup'.generation = generation /\ sup'.connection = connection
    <3> HIDE DEF connection, generation, free
    <3> QED
      BY <1>1, <1>2, <1>5 DEF Supervisors, Pcs, Attempting
  <2>2. sup.free \in Nat
    BY <1>1 DEF Supervisors
  <2> QED
    BY <1>1, <1>5, <2>1, <2>2
       DEF Kept, SnapshotTaken, Holding, SupInvariant, SupType, AttemptBudget, Attempting, Spare
<1> QED
  BY <1>3, <1>4, <1>5

\* What is shared by the steps of an attempt.
LEMMA AttemptFacts ==
  ASSUME SupInvariant, sup.pc \in Attempting
  PROVE  sup.event = "none" /\ sup.auto \in BOOLEAN /\ sup.retry \in Retries
BY DEF SupInvariant, SupType, Supervisors, AttemptBudget, Attempting, Retries

\* Discovery, authentication: an attempt goes on, stops, or backs off.
LEMMA AuthenticationKeeps ==
  ASSUME SupInvariant,
         Discover \/ EnterConnecting \/ Connect \/ CheckConnected \/ Announce
           \/ ReceiveChallenge \/ SendResponse \/ ReceiveVerdict
  PROVE  Kept
<1>1. sup.pc \in Attempting
  BY DEF Discover, EnterConnecting, Connect, CheckConnected, Announce, ReceiveChallenge,
         SendResponse, ReceiveVerdict, Attempting
<1>2. \/ Loop(sup.auto, "backoff") \/ Loop(FALSE, sup.retry)
      \/ \E pc \in Attempting : sup' = [sup EXCEPT !.pc = pc]
      \/ \E pc \in Attempting, link \in {"open", "authenticated"} :
            sup' = [sup EXCEPT !.pc = pc, !.link = link]
  BY DEF Discover, EnterConnecting, Connect, CheckConnected, Announce, ReceiveChallenge,
         SendResponse, ReceiveVerdict, Attempting
<1>3. sup.event = "none" /\ sup.auto \in BOOLEAN /\ sup.retry \in Retries
  BY <1>1, AttemptFacts
<1>4. CASE Loop(sup.auto, "backoff")
  BY <1>3, <1>4, LoopKeeps DEF Retries
<1>5. CASE Loop(FALSE, sup.retry)
  BY <1>3, <1>5, LoopKeeps
<1>6. ASSUME NEW pc \in Attempting, NEW link \in {"open", "authenticated"},
             sup' = [sup EXCEPT !.pc = pc] \/ sup' = [sup EXCEPT !.pc = pc, !.link = link]
      PROVE  Kept
  BY <1>1, <1>6, AttemptKeeps
<1> QED
  BY <1>2, <1>4, <1>5, <1>6

\* A failed connect waits, which restores the budget, or stops.
LEMMA ConnectFailsKeeps ==
  ASSUME SupInvariant, NEW error, ConnectFails(error) PROVE Kept
<1> DEFINE s == OutOfScope(sup)
<1>1. sup.pc \in Attempting
  BY DEF ConnectFails, Attempting
<1>2. sup.event = "none" /\ sup.auto \in BOOLEAN /\ sup.retry \in Retries
  BY <1>1, AttemptFacts
<1>3. Loop(FALSE, sup.retry) \/ sup' = [s EXCEPT !.pc = "redial", !.free = 0]
  BY DEF ConnectFails
<1>4. s \in Supervisors /\ s.event = "none" /\ s.generation = 0
  BY <1>2, OutOfScopeType DEF SupInvariant, SupType
<1> HIDE DEF s
<1>5. CASE sup' = [s EXCEPT !.pc = "redial", !.free = 0]
  <2>1. /\ sup' \in Supervisors /\ sup'.pc = "redial" /\ sup'.free = 0 /\ sup'.event = "none"
        /\ sup'.generation = 0
    BY <1>4, <1>5 DEF Supervisors, Pcs
  <2> QED
    BY <2>1 DEF Kept, SnapshotKept, Holding, SupInvariant, SupType, AttemptBudget, Attempting
<1> QED
  BY <1>2, <1>3, <1>5, LoopKeeps
-----------------------------------------------------------------------------
\* The planner an attempt uses is the one that survived, or a new one for the known server.
LEMMA PlannerToUseType ==
  ASSUME SupInvariant, DiskType
  PROVE  PlannerToUse \in Planners /\ (sup.planner.fell_back => PlannerToUse = sup.planner)
<1>1. sup.planner \in Planners
  BY DEF SupInvariant, SupType, Supervisors
<1>2. \A known, current \in BOOLEAN : NewPlanner(known, current) \in Planners
  BY DEF NewPlanner, Planners, BaseOffer, ExtendedOffer
<1>3. disk.legacy.current \in BOOLEAN
  BY DEF DiskType, Disks
<1>4. \/ PlannerToUse = sup.planner
      \/ \E known, current \in BOOLEAN : PlannerToUse = NewPlanner(known, current)
  BY <1>3 DEF PlannerToUse
<1>5. sup.planner.fell_back => sup.planner # NoPlanner
  BY NoPlannerType
<1> QED
  BY <1>1, <1>2, <1>4, <1>5 DEF PlannerToUse

\* Sending the hello opens the session or backs off.
LEMMA HelloKeeps ==
  ASSUME SupInvariant, DiskType, SendHello \/ SendHelloFails PROVE Kept
<1> DEFINE planner == PlannerToUse
           s == OutOfScope(sup)
           auto == IF SameGeneration THEN sup.auto ELSE FALSE
           retry == IF SameGeneration THEN "backoff" ELSE sup.retry
<1>1. sup.pc = "hello" /\ sup \in Supervisors
  BY DEF SendHello, SendHelloFails, SupInvariant, SupType
<1>2. sup.event = "none" /\ sup.auto \in BOOLEAN /\ sup.retry \in Retries
  BY <1>1, AttemptFacts DEF Attempting
<1>3. planner \in Planners /\ (sup.planner.fell_back => planner = sup.planner)
  BY PlannerToUseType
<1>4. /\ s \in Supervisors /\ s.event = "none" /\ s.free = sup.free /\ s.auto = sup.auto
      /\ s.retry = sup.retry /\ s.generation = 0
  BY <1>1, <1>2, OutOfScopeType
<1>5. auto \in BOOLEAN /\ retry \in Retries /\ (auto => retry = "backoff")
  BY <1>2 DEF Retries
<1>6. \/ sup' = [sup EXCEPT !.pc = "session", !.planner = planner, !.link = "greeted",
                            !.handshaken = FALSE]
      \/ sup' = [s EXCEPT !.pc = "top", !.planner = planner, !.auto = auto, !.retry = retry]
  BY <1>4 DEF SendHello, SendHelloFails
<1> HIDE DEF planner, s, auto, retry
<1>7. CASE sup' = [sup EXCEPT !.pc = "session", !.planner = planner, !.link = "greeted",
                              !.handshaken = FALSE]
  <2>1. /\ sup' \in Supervisors /\ sup'.pc = "session" /\ sup'.free = sup.free
        /\ sup'.planner = planner /\ sup'.event = sup.event
        /\ sup'.generation = sup.generation /\ sup'.connection = sup.connection
    BY <1>1, <1>3, <1>7 DEF Supervisors, Pcs
  <2> QED
    BY <1>1, <1>2, <1>3, <2>1
       DEF Kept, SnapshotKept, Holding, SupInvariant, SupType, AttemptBudget, Attempting
<1>8. CASE sup' = [s EXCEPT !.pc = "top", !.planner = planner, !.auto = auto, !.retry = retry]
  <2>1. /\ sup' \in Supervisors /\ sup'.pc = "top" /\ sup'.free = s.free
        /\ sup'.auto = auto /\ sup'.retry = retry /\ sup'.event = "none"
        /\ sup'.generation = 0
    BY <1>3, <1>4, <1>5, <1>8 DEF Supervisors, Pcs, Retries
  <2> QED
    BY <1>4, <1>5, <2>1
       DEF Kept, SnapshotKept, Holding, SupInvariant, SupType, AttemptBudget, Attempting
<1> QED
  BY <1>6, <1>7, <1>8

\* What is shared by the steps of a session.
LEMMA SessionFacts ==
  ASSUME SupInvariant
  PROVE  /\ sup \in Supervisors /\ sup.auto \in BOOLEAN /\ sup.retry \in Retries
         /\ sup.event # "none" => sup.pc = "busy"
BY DEF Kept, SnapshotKept, Holding, SupInvariant, SupType, Supervisors, AttemptBudget, Retries

\* An event is taken up.
LEMMA CommitKeeps ==
  ASSUME SupInvariant, sup.pc = "session", NEW event \in Events,
         \/ Commit(event)
         \/ sup' = [sup EXCEPT !.pc = "busy", !.link = "none", !.event = event]
  PROVE  Kept
<1>1. /\ sup' \in Supervisors /\ sup'.pc = "busy" /\ sup'.free = sup.free
      /\ sup'.planner = sup.planner /\ sup'.handshaken = sup.handshaken
      /\ sup'.generation = sup.generation /\ sup'.connection = sup.connection
  <2>1. CASE Commit(event)
    BY <2>1, SessionFacts DEF Supervisors, Pcs, Commit
  <2>2. CASE sup' = [sup EXCEPT !.pc = "busy", !.link = "none", !.event = event]
    BY <2>2, SessionFacts DEF Supervisors, Pcs
  <2> QED
    BY <2>1, <2>2
<1> QED
  BY <1>1, SessionKeeps

\* The branches of the session's select!.
LEMMA SelectKeeps ==
  ASSUME SupInvariant,
         \/ HelloTimeout \/ ReceiveReport
         \/ \E message \in Messages : ReceiveMessage(message)
         \/ \E error \in ReceiveErrors : ReceiveFails(error)
  PROVE  Kept
<1>1. sup.pc = "session"
  BY DEF HelloTimeout, ReceiveReport, ReceiveMessage, ReceiveFails
<1>2. \/ \E event \in Events : Commit(event)
      \/ \E event \in Events : sup' = [sup EXCEPT !.pc = "busy", !.link = "none", !.event = event]
  <2>1. CASE HelloTimeout \/ ReceiveReport
    BY <2>1 DEF HelloTimeout, ReceiveReport, Events
  <2>2. ASSUME NEW message \in Messages, ReceiveMessage(message)
        PROVE  \E event \in Events : Commit(event)
    BY <2>2, Zenon DEF ReceiveMessage, Events
  <2>3. ASSUME NEW error, ReceiveFails(error)
        PROVE  \E event \in Events :
                 sup' = [sup EXCEPT !.pc = "busy", !.link = "none", !.event = event]
    BY <2>3 DEF ReceiveFails, Events
  <2> QED
    BY <2>1, <2>2, <2>3
<1> QED
  BY <1>1, <1>2, CommitKeeps

\* Controls in a session: a Reconnect restores the budget, ConfigurationChanged stops.
LEMMA SessionControlKeeps == ASSUME SupInvariant, SessionControl PROVE Kept
<1>1. sup.pc = "session" /\ sup.event = "none"
  BY DEF SessionControl, SupInvariant, AttemptBudget
<1>2. \/ sup' = [sup EXCEPT !.pc = "ending", !.parked = 0, !.free = 0]
      \/ End(FALSE, sup.retry) \/ Commit("publish") \/ sup' = sup \/ Exit
  BY DEF SessionControl
<1>3. CASE sup' = [sup EXCEPT !.pc = "ending", !.parked = 0, !.free = 0]
  <2>1. /\ sup' \in Supervisors /\ sup'.pc = "ending" /\ sup'.free = 0
        /\ sup'.event = sup.event /\ sup'.generation = sup.generation
    BY <1>3, SessionFacts DEF Supervisors, Pcs
  <2> QED
    BY <1>1, <2>1
       DEF Kept, SnapshotKept, Holding, SupInvariant, SupType, AttemptBudget, Attempting, Spare
<1>4. CASE End(FALSE, sup.retry)
  BY <1>4, SessionFacts, EndKeeps
<1>5. CASE Commit("publish")
  BY <1>1, <1>5, CommitKeeps DEF Events
<1>6. CASE sup' = sup
  BY <1>6 DEF Kept, SnapshotKept, Holding, SupInvariant, SupType, AttemptBudget, Spare
<1> QED
  BY <1>2, <1>3, <1>4, <1>5, <1>6, ExitKeeps

-----------------------------------------------------------------------------
\* Back in the session after an event.
LEMMA ResumeKeeps ==
  ASSUME SupInvariant, sup.pc = "busy", NEW parked \in Nat,
         \/ sup' = [sup EXCEPT !.pc = "session", !.event = "none"]
         \/ sup' = [sup EXCEPT !.pc = "session", !.event = "none", !.parked = parked]
  PROVE  Kept
<1>1. /\ sup' \in Supervisors /\ sup'.pc = "session" /\ sup'.free = sup.free
      /\ sup'.planner = sup.planner /\ sup'.handshaken = sup.handshaken /\ sup'.event = "none"
      /\ sup'.generation = sup.generation /\ sup'.connection = sup.connection
  <2>1. CASE sup' = [sup EXCEPT !.pc = "session", !.event = "none"]
    BY <2>1, SessionFacts DEF Supervisors, Pcs, Events
  <2>2. CASE sup' = [sup EXCEPT !.pc = "session", !.event = "none", !.parked = parked]
    BY <2>2, SessionFacts DEF Supervisors, Pcs, Events
  <2> QED
    BY <2>1, <2>2
<1> QED
  BY <1>1, SessionKeeps

\* Events after which the session goes on, stops or backs off.
LEMMA EventKeeps ==
  ASSUME SupInvariant, HandleTimeout \/ HandlePublish \/ HandleReport \/ HandleMessage
  PROVE  Kept
<1> DEFINE parked == IF sup.parked < ParkCapacity THEN sup.parked + 1 ELSE sup.parked
<1>1. sup.pc = "busy"
  BY SessionFacts DEF HandleTimeout, HandlePublish, HandleReport, HandleMessage, Messages, Hellos
<1>2. sup.parked \in Nat /\ parked \in Nat
  BY SessionFacts DEF Supervisors
<1>3. \/ End(sup.auto, "backoff") \/ End(FALSE, sup.retry)
      \/ sup' = [sup EXCEPT !.pc = "session", !.event = "none"]
      \/ sup' = [sup EXCEPT !.pc = "session", !.event = "none", !.parked = parked]
  BY DEF HandleTimeout, HandlePublish, HandleReport, HandleMessage
<1> HIDE DEF parked
<1>4. CASE End(sup.auto, "backoff")
  BY <1>4, SessionFacts, EndKeeps DEF Retries
<1>5. CASE End(FALSE, sup.retry)
  BY <1>5, SessionFacts, EndKeeps
<1>6. CASE \/ sup' = [sup EXCEPT !.pc = "session", !.event = "none"]
           \/ sup' = [sup EXCEPT !.pc = "session", !.event = "none", !.parked = parked]
  BY <1>1, <1>2, <1>6, ResumeKeeps
<1> QED
  BY <1>3, <1>4, <1>5, <1>6

\* A planner falls back once.
LEMMA FallBackType ==
  ASSUME NEW planner \in Planners
  PROVE  /\ OnClosedBeforeHello(planner) \in Planners
         /\ FallsBack(planner) => ~planner.fell_back /\ OnClosedBeforeHello(planner).fell_back
BY DEF OnClosedBeforeHello, FallsBack, Planners, BaseOffer

\* The immediate second attempt needs a fall-back that had not happened yet.
LEMMA FailureKeeps == ASSUME SupInvariant, HandleFailure PROVE Kept
<1> DEFINE falls == ~sup.handshaken /\ FallsBack(sup.planner)
           planner == IF SameGeneration /\ falls THEN OnClosedBeforeHello(sup.planner)
                      ELSE sup.planner
           retry == IF ~SameGeneration THEN sup.retry
                    ELSE IF falls THEN "zero"
                    ELSE IF sup.event = "failed_retryable" THEN "backoff" ELSE sup.retry
           auto == IF SameGeneration /\ (falls \/ sup.event = "failed_retryable")
                   THEN sup.auto ELSE FALSE
<1>1. sup.pc = "busy" /\ sup \in Supervisors /\ sup.planner \in Planners
  BY SessionFacts DEF HandleFailure, Supervisors
<1>2. sup' = [sup EXCEPT !.pc = "ending", !.event = "none", !.parked = 0, !.planner = planner,
                         !.retry = retry, !.auto = auto]
  BY DEF HandleFailure
<1>3. planner \in Planners /\ retry \in Retries /\ auto \in BOOLEAN
  BY <1>1, FallBackType, SessionFacts DEF Retries
<1>4. auto /\ retry # "backoff" => sup.free <= 1 /\ planner.fell_back
  <2>1. auto /\ retry # "backoff" => SameGeneration /\ falls
    OBVIOUS
  <2>2. SameGeneration /\ falls => ~sup.handshaken /\ ~sup.planner.fell_back /\ planner.fell_back
    BY <1>1, FallBackType
  <2> QED
    BY <1>1, <2>1, <2>2 DEF SupInvariant, AttemptBudget
<1>5. /\ sup' \in Supervisors /\ sup'.pc = "ending" /\ sup'.free = sup.free /\ sup'.auto = auto
      /\ sup'.retry = retry /\ sup'.planner = planner /\ sup'.event = "none"
      /\ sup'.generation = sup.generation
  <2> HIDE DEF falls, planner, retry, auto
  <2> QED
    BY <1>1, <1>2, <1>3 DEF Supervisors, Pcs, Events, Retries
<1>6. sup.free \in Nat
  BY <1>1 DEF Supervisors
<1> QED
  BY <1>4, <1>5, <1>6
     DEF Kept, SnapshotKept, Holding, SupInvariant, SupType, AttemptBudget, Attempting, Spare

\* The server's hello ends the need to fall back.
LEMMA ServerHelloKeeps == ASSUME SupInvariant, HandleHello PROVE Kept
<1>1. sup.pc = "busy" /\ sup \in Supervisors
  BY SessionFacts DEF HandleHello, Hellos
<1>2. \/ End(sup.auto, "backoff") \/ End(FALSE, sup.retry)
      \/ sup' = [sup EXCEPT !.pc = "session", !.retry = @, !.event = "none", !.parked = 0,
                            !.handshaken = TRUE, !.planner = NoPlanner]
      \/ sup' = [sup EXCEPT !.pc = "ending", !.retry = "backoff", !.event = "none", !.parked = 0,
                            !.handshaken = TRUE, !.planner = NoPlanner]
  BY DEF HandleHello
<1>3. CASE End(sup.auto, "backoff")
  BY <1>3, SessionFacts, EndKeeps DEF Retries
<1>4. CASE End(FALSE, sup.retry)
  BY <1>4, SessionFacts, EndKeeps
<1>5. CASE sup' = [sup EXCEPT !.pc = "session", !.retry = @, !.event = "none", !.parked = 0,
                              !.handshaken = TRUE, !.planner = NoPlanner]
  <2>1. /\ sup' \in Supervisors /\ sup'.pc = "session" /\ sup'.free = sup.free
        /\ sup'.handshaken /\ sup'.event = "none"
        /\ sup'.generation = sup.generation /\ sup'.connection = sup.connection
    BY <1>1, <1>5, NoPlannerType DEF Supervisors, Pcs, Events
  <2> QED
    BY <1>1, <2>1
       DEF Kept, SnapshotKept, Holding, SupInvariant, SupType, AttemptBudget, Attempting
<1>6. CASE sup' = [sup EXCEPT !.pc = "ending", !.retry = "backoff", !.event = "none",
                              !.parked = 0, !.handshaken = TRUE, !.planner = NoPlanner]
  <2>1. /\ sup' \in Supervisors /\ sup'.pc = "ending" /\ sup'.free = sup.free
        /\ sup'.retry = "backoff" /\ sup'.event = "none" /\ sup'.generation = sup.generation
    BY <1>1, <1>6, NoPlannerType DEF Supervisors, Pcs, Events
  <2> QED
    BY <1>1, <2>1
       DEF Kept, SnapshotKept, Holding, SupInvariant, SupType, AttemptBudget, Attempting
<1> QED
  BY <1>2, <1>3, <1>4, <1>5, <1>6

\* The end of a session hands its reconnection state to the loop.
LEMMA EndConnectionKeeps == ASSUME SupInvariant, EndConnection PROVE Kept
<1> DEFINE s == OutOfScope(sup)
<1>1. sup.pc = "ending" /\ sup.event = "none" /\ sup' = [s EXCEPT !.pc = "top"]
  BY SessionFacts DEF EndConnection
<1>2. /\ s \in Supervisors /\ s.free = sup.free /\ s.planner = sup.planner
      /\ s.event = sup.event /\ s.auto = sup.auto /\ s.retry = sup.retry
      /\ s.generation = 0
  BY SessionFacts, OutOfScopeType
<1>3. /\ sup' \in Supervisors /\ sup'.pc = "top" /\ sup'.free = sup.free
      /\ sup'.planner = sup.planner /\ sup'.event = "none" /\ sup'.auto = sup.auto
      /\ sup'.retry = sup.retry /\ sup'.generation = 0
  <2> HIDE DEF s
  <2> QED
    BY <1>1, <1>2 DEF Supervisors, Pcs
<1> QED
  BY <1>1, <1>3
     DEF Kept, SnapshotKept, Holding, SupInvariant, SupType, AttemptBudget, Attempting, Spare

\* Every step of the supervisor and of its peer keeps the type and the budget.
LEMMA SupInvariantStep ==
  ASSUME SupInvariant, SvcType, DiskType, [Next]_vars PROVE Kept
<1>1. CASE UNCHANGED sup
  BY <1>1 DEF Kept, SnapshotKept, Holding, SupInvariant, SupType, AttemptBudget, Spare
<1>2. CASE SupervisorStep
  BY <1>1, <1>2, TopKeeps, PausedKeeps, DelayKeeps, ReadKeeps, AuthenticationKeeps,
     ConnectFailsKeeps, HelloKeeps, SelectKeeps, SessionControlKeeps, EventKeeps, FailureKeeps,
     ServerHelloKeeps, EndConnectionKeeps DEF SupervisorStep, PausedReport
<1>3. CASE PeerStep
  BY <1>3, SelectKeeps DEF PeerStep
<1>4. CASE CommandStep \/ UserStep \/ LegacyExpires
  BY <1>1, <1>4 DEF CommandStep, PairDiscover, GenerateKey, RedeemCode, StoreConnection,
     AdoptConnection, DeleteKey, ClearConnection, BumpGeneration, StoreConfiguration,
     SignalSupervisor, SignalShutdown, UserStep, PairServer, Reconnect, PublishInventory, Report,
     Shutdown, ForgetServer, LegacyExpires
<1>5. CASE Restart
  BY <1>5, FreshKeeps DEF Restart
<1> QED
  BY <1>1, <1>2, <1>3, <1>4, <1>5 DEF Next, vars


-----------------------------------------------------------------------------
(***************************************************************************)
(* What a step of the supervisor may do to the shared state.               *)
(***************************************************************************)
SharedFrame ==
  /\ svc' \in Services
  /\ svc'.connection = svc.connection /\ svc'.generation = svc.generation
  /\ \/ svc'.agent = svc.agent
     \/ svc'.agent \notin Unconfigured /\ (LockFree \/ svc.agent \in Live)
  /\ \/ svc'.controls = svc.controls
     \/ /\ svc.controls # <<>> /\ svc'.controls = Tail(svc.controls)
        /\ Head(svc.controls) = "ConfigurationChanged" => sup'.pc \notin Holding

\* Nothing shared changes.
LEMMA SameFrame == ASSUME SvcType, svc' = svc PROVE SharedFrame
BY DEF SvcType, SharedFrame

\* A control is taken off the channel; ConfigurationChanged ends the iteration.
LEMMA ReceivedFrame ==
  ASSUME SvcType, NEW control, HeadIs(control), svc' = Received,
         control = "ConfigurationChanged" => sup'.pc \notin Holding
  PROVE  SharedFrame
<1> DEFINE controls == svc.controls
           rest == Tail(controls)
<1>1. controls \in Seq(Controls) /\ controls # <<>> /\ Head(controls) = control
  BY DEF SvcType, Services, HeadIs
<1>2. rest \in Seq(Controls)
  BY <1>1
<1>3. svc' = [svc EXCEPT !.controls = rest]
  BY DEF Received
<1>4. svc' \in Services /\ svc'.connection = svc.connection /\ svc'.generation = svc.generation
      /\ svc'.agent = svc.agent /\ svc'.controls = rest
  <2> HIDE DEF rest, controls
  <2> QED
    BY <1>2, <1>3 DEF SvcType, Services
<1> QED
  BY <1>1, <1>4 DEF SharedFrame

\* Reports are taken or answered.
LEMMA OutboundFrame ==
  ASSUME SvcType, NEW n \in Nat, svc' = [svc EXCEPT !.outbound = n] PROVE SharedFrame
BY DEF SvcType, Services, SharedFrame

\* The task's return answers what is queued.
LEMMA ExitFrame == ASSUME SvcType, Exit PROVE SharedFrame
<1>1. svc' = [svc EXCEPT !.outbound = 0]
  BY DEF Exit
<1> QED
  BY <1>1, OutboundFrame

\* The displayed phase changes.
LEMMA PhaseFrame ==
  ASSUME SvcType, NEW phase \in Phases, svc' = [svc EXCEPT !.phase = phase] PROVE SharedFrame
BY DEF SvcType, Services, SharedFrame

\* A transition the supervisor makes does not take the agent to an unpaired state.
LEMMA TransitionTarget ==
  ASSUME NEW from \in AgentStates, NEW to \in {"connecting", "connected", "disconnected"}
  PROVE  /\ Transition(from, to) \in AgentStates
         /\ Transition(from, to) = from \/ Transition(from, to) \notin Unconfigured
BY DEF Transition, AgentStates, Live, Unconfigured

\* The agent's state and its display change together.
LEMMA AgentFrame ==
  ASSUME SvcType, NEW agent \in AgentStates, NEW phase \in Phases,
         agent = svc.agent \/ (agent \notin Unconfigured /\ (LockFree \/ svc.agent \in Live)),
         \/ svc' = [svc EXCEPT !.agent = agent]
         \/ svc' = [svc EXCEPT !.agent = agent, !.phase = phase]
         \/ svc' = [svc EXCEPT !.phase = phase, !.agent = agent]
         \/ svc' = [svc EXCEPT !.agentId = TRUE, !.phase = phase, !.agent = agent]
  PROVE  SharedFrame
<1>1. /\ svc' \in Services /\ svc'.connection = svc.connection
      /\ svc'.generation = svc.generation /\ svc'.agent = agent /\ svc'.controls = svc.controls
  <2>1. CASE svc' = [svc EXCEPT !.agent = agent]
    BY <2>1 DEF SvcType, Services
  <2>2. CASE svc' = [svc EXCEPT !.agent = agent, !.phase = phase]
    BY <2>2 DEF SvcType, Services
  <2>3. CASE svc' = [svc EXCEPT !.phase = phase, !.agent = agent]
    BY <2>3 DEF SvcType, Services
  <2>4. CASE svc' = [svc EXCEPT !.agentId = TRUE, !.phase = phase, !.agent = agent]
    BY <2>4 DEF SvcType, Services
  <2> QED
    BY <2>1, <2>2, <2>3, <2>4
<1> QED
  BY <1>1 DEF SharedFrame

\* authentication_failed disconnects a live agent.
LEMMA AuthenticationFailedFrame ==
  ASSUME SvcType, NEW revoked, svc' = AuthenticationFailed(revoked) PROVE SharedFrame
<1> DEFINE agent == IF svc.agent \in Live THEN Transition(svc.agent, "disconnected") ELSE svc.agent
           phase == IF revoked THEN "credential_revoked" ELSE "authentication_failed"
<1>1. svc' = [svc EXCEPT !.agent = agent, !.phase = phase]
  BY DEF AuthenticationFailed
<1>2. svc.agent \in AgentStates
  BY DEF SvcType, Services
<1>3. /\ agent \in AgentStates
      /\ agent = svc.agent \/ (agent \notin Unconfigured /\ svc.agent \in Live)
  BY <1>2, TransitionTarget
<1>4. phase \in Phases
  BY DEF Phases
<1> HIDE DEF agent, phase
<1> QED
  BY <1>1, <1>3, <1>4, AgentFrame

\* Steps of the loop outside a session.
LEMMA WaitingFrame ==
  ASSUME SupInvariant, SvcType,
         Top \/ PausedControl \/ PausedReport \/ DelayElapsed \/ DelayControl
           \/ ReadConfiguration \/ Connect \/ CheckConnected \/ SendResponse \/ SendHello
  PROVE  SharedFrame
<1>1. CASE PausedReport
  <2>1. svc.outbound - 1 \in Nat
    BY <1>1 DEF PausedReport, SvcType, Services
  <2> QED
    BY <1>1, <2>1, OutboundFrame DEF PausedReport
<1>2. CASE Top
  BY <1>2, ExitFrame, SameFrame DEF Top
<1>3. CASE PausedControl
  <2>1. ASSUME NEW control \in {"Reconnect", "ConfigurationChanged", "PublishInventory"},
               HeadIs(control), svc' = Received,
               control # "Reconnect" => sup' = [sup EXCEPT !.pc = "top"]
        PROVE  SharedFrame
    <3>1. control # "Reconnect" => sup'.pc = "top"
      BY <2>1, SessionFacts DEF Supervisors
    <3> QED
      BY <2>1, <3>1, ReceivedFrame DEF Holding, Attempting
  <2> QED
    BY <1>3, <2>1, ExitFrame DEF PausedControl
<1>4. CASE DelayControl
  <2>1. ASSUME NEW control \in {"Reconnect", "PublishInventory"}, HeadIs(control),
               svc' = Received
        PROVE  SharedFrame
    BY <2>1, ReceivedFrame
  <2>2. ASSUME HeadIs("ConfigurationChanged"), Loop(FALSE, "none"), svc' = Received
        PROVE  SharedFrame
    <3>1. sup'.pc = "top"
      BY <2>2, SessionFacts, OutOfScopeType DEF Loop, Supervisors
    <3> QED
      BY <2>2, <3>1, ReceivedFrame DEF Holding, Attempting
  <2> QED
    BY <1>4, <2>1, <2>2, ExitFrame DEF DelayControl
<1>5. CASE DelayElapsed \/ ReadConfiguration \/ Connect \/ CheckConnected \/ SendResponse
             \/ SendHello
  BY <1>5, SameFrame
     DEF DelayElapsed, ReadConfiguration, Connect, CheckConnected, SendResponse, SendHello
<1> QED
  BY <1>1, <1>2, <1>3, <1>4, <1>5

\* Steps of an attempt.
LEMMA AttemptFrame ==
  ASSUME SvcType,
         \/ Discover \/ EnterConnecting \/ Announce \/ ReceiveChallenge \/ ReceiveVerdict
         \/ SendHelloFails \/ \E error \in ConnectErrors : ConnectFails(error)
  PROVE  SharedFrame
<1>1. svc.agent \in AgentStates /\ svc.phase \in Phases
  BY DEF SvcType, Services
<1>2. CASE Discover
  BY <1>2, SameFrame, PhaseFrame, AuthenticationFailedFrame DEF Discover, Phases
<1>3. CASE EnterConnecting
  <2>1. CASE svc' = [svc EXCEPT !.agentId = TRUE, !.phase = "connecting",
                                !.agent = Transition(@, "connecting")]
    <3> DEFINE agent == Transition(svc.agent, "connecting")
    <3>1. agent \in AgentStates /\ (agent = svc.agent \/ agent \notin Unconfigured)
      BY <1>1, TransitionTarget
    <3>2. svc' = [svc EXCEPT !.agentId = TRUE, !.phase = "connecting", !.agent = agent] /\ LockFree
      BY <1>3, <2>1 DEF EnterConnecting
    <3> HIDE DEF agent
    <3> QED
      BY <3>1, <3>2, AgentFrame DEF Phases
  <2> QED
    BY <1>3, <2>1, SameFrame DEF EnterConnecting
<1>4. CASE Announce
  BY <1>4, PhaseFrame DEF Announce, Phases
<1>5. CASE ReceiveChallenge \/ ReceiveVerdict
  BY <1>5, SameFrame, AuthenticationFailedFrame DEF ReceiveChallenge, ReceiveVerdict
<1>6. CASE SendHelloFails \/ \E error \in ConnectErrors : ConnectFails(error)
  <2> DEFINE agent == Transition(svc.agent, "disconnected")
  <2>1. agent \in AgentStates /\ (agent = svc.agent \/ agent \notin Unconfigured)
    BY <1>1, TransitionTarget
  <2>2. LockFree /\ (svc' = svc \/ svc' = [svc EXCEPT !.agent = agent])
    BY <1>6 DEF SendHelloFails, ConnectFails
  <2> HIDE DEF agent
  <2> QED
    BY <1>1, <2>1, <2>2, SameFrame, AgentFrame
<1> QED
  BY <1>2, <1>3, <1>4, <1>5, <1>6

\* Steps of a session.
LEMMA SessionFrame ==
  ASSUME SupInvariant, SvcType,
         \/ HelloTimeout \/ ReceiveReport \/ SessionControl \/ HandleTimeout \/ HandleFailure
         \/ HandlePublish \/ HandleReport \/ HandleHello \/ HandleMessage \/ EndConnection
         \/ PeerStep
  PROVE  SharedFrame
<1>1. svc.agent \in AgentStates /\ svc.phase \in Phases
  BY DEF SvcType, Services
<1>2. CASE ReceiveReport
  <2>1. svc.outbound - 1 \in Nat
    BY <1>2 DEF ReceiveReport, SvcType, Services
  <2> QED
    BY <1>2, <2>1, OutboundFrame DEF ReceiveReport
<1>3. CASE SessionControl
  <2>1. ASSUME NEW control \in {"Reconnect", "PublishInventory"}, HeadIs(control),
               svc' = Received
        PROVE  SharedFrame
    BY <2>1, ReceivedFrame
  <2>2. ASSUME HeadIs("ConfigurationChanged"), End(FALSE, sup.retry), svc' = Received
        PROVE  SharedFrame
    <3>1. sup'.pc = "ending"
      BY <2>2, SessionFacts DEF End, Supervisors
    <3> QED
      BY <2>2, <3>1, ReceivedFrame DEF Holding, Attempting
  <2> QED
    BY <1>3, <2>1, <2>2, ExitFrame DEF SessionControl
<1>4. CASE HandleHello
  <2> DEFINE agent == Transition(svc.agent, "connected")
  <2>1. agent \in AgentStates /\ (agent = svc.agent \/ agent \notin Unconfigured)
    BY <1>1, TransitionTarget
  <2>2. LockFree /\ (svc' = svc \/ svc' = [svc EXCEPT !.phase = "connected", !.agent = agent])
    BY <1>4 DEF HandleHello
  <2> HIDE DEF agent
  <2> QED
    BY <2>1, <2>2, SameFrame, AgentFrame DEF Phases
<1>5. CASE EndConnection
  <2> DEFINE agent == Transition(svc.agent, "disconnected")
             phase == IF svc.phase \in {"connecting", "authenticating", "connected"}
                      THEN "paired" ELSE svc.phase
  <2>1. agent \in AgentStates /\ (agent = svc.agent \/ agent \notin Unconfigured)
    BY <1>1, TransitionTarget
  <2>2. LockFree /\ (svc' = svc \/ svc' = [svc EXCEPT !.agent = agent, !.phase = phase])
    BY <1>5 DEF EndConnection
  <2>3. phase \in Phases
    BY <1>1 DEF Phases
  <2> HIDE DEF agent, phase
  <2> QED
    BY <2>1, <2>2, <2>3, SameFrame, AgentFrame
<1>6. CASE HelloTimeout \/ HandleTimeout \/ HandleFailure \/ HandlePublish \/ HandleReport
             \/ HandleMessage \/ PeerStep
  <2>1. svc' = svc
    BY <1>6 DEF HelloTimeout, HandleTimeout, HandleFailure, HandlePublish, HandleReport,
                HandleMessage, PeerStep, ReceiveMessage, ReceiveFails
  <2> QED
    BY <2>1, SameFrame
<1> QED
  BY <1>2, <1>3, <1>4, <1>5, <1>6

\* No step of the supervisor touches the command, the stored pairing or the keys.
LEMMA SupervisorFrame ==
  ASSUME SupInvariant, SvcType, SupervisorStep \/ PeerStep
  PROVE  SharedFrame /\ UNCHANGED cmd
<1>1. SharedFrame
  BY WaitingFrame, AttemptFrame, SessionFrame DEF SupervisorStep
<1>2. UNCHANGED cmd
  BY DEF SupervisorStep, PeerStep, Top, PausedControl, PausedReport, DelayElapsed, DelayControl,
     ReadConfiguration, Discover, EnterConnecting, Connect, ConnectFails, CheckConnected,
     Announce, ReceiveChallenge, SendResponse, ReceiveVerdict, SendHello, SendHelloFails,
     HelloTimeout, ReceiveMessage, ReceiveFails, ReceiveReport, SessionControl, HandleTimeout,
     HandleFailure, HandlePublish, HandleReport, HandleHello, HandleMessage, EndConnection
<1> QED
  BY <1>1, <1>2

\* What the supervisor remembers of a server keeps its type.
LEMMA LegacyType ==
  ASSUME NEW planner, NEW selected, NEW server \in Servers \cup {"none"},
         NEW record \in [server : Servers \cup {"none"}, current : BOOLEAN]
  PROVE  OnAccepted(planner, selected, server, record)
           \in [server : Servers \cup {"none"}, current : BOOLEAN]
BY DEF OnAccepted, NoRecord

DiskFrame ==
  DiskType' /\ disk'.connection = disk.connection /\ disk'.keys = disk.keys

\* On disk, the supervisor changes the record of legacy servers only.
LEMMA SupervisorDisk ==
  ASSUME SupInvariant, DiskType, SupervisorStep \/ PeerStep \/ LegacyExpires PROVE DiskFrame
<1>1. CASE UNCHANGED disk
  BY <1>1 DEF DiskFrame, DiskType, Disks
<1>2. CASE HandleHello
  <2> DEFINE server == sup.connection.server
             selected == SelectProtocolVersion(Speaks[server], sup.planner.offered)
             legacy == OnAccepted(sup.planner, selected, server, disk.legacy)
  <2>1. disk' = disk \/ disk' = [disk EXCEPT !.legacy = legacy]
    BY <1>2 DEF HandleHello
  <2>2. legacy \in [server : Servers \cup {"none"}, current : BOOLEAN]
    <3>1. sup.connection.server \in Servers \cup {"none"}
      BY SessionFacts DEF Supervisors, Connections
    <3>2. disk.legacy \in [server : Servers \cup {"none"}, current : BOOLEAN]
      BY DEF DiskType, Disks
    <3> QED
      BY <3>1, <3>2, LegacyType
  <2> HIDE DEF legacy
  <2> QED
    BY <1>1, <2>1, <2>2 DEF DiskFrame, DiskType, Disks
<1>3. CASE LegacyExpires
  BY <1>3 DEF LegacyExpires, DiskFrame, DiskType, Disks
<1>4. CASE (SupervisorStep \/ PeerStep) /\ ~HandleHello
  <2>1. UNCHANGED disk
    BY <1>4 DEF SupervisorStep, PeerStep, Top, PausedControl, PausedReport, DelayElapsed,
     DelayControl, ReadConfiguration, Discover, EnterConnecting, Connect, ConnectFails,
     CheckConnected, Announce, ReceiveChallenge, SendResponse, ReceiveVerdict, SendHello,
     SendHelloFails, HelloTimeout, ReceiveMessage, ReceiveFails, ReceiveReport, SessionControl,
     HandleTimeout, HandleFailure, HandlePublish, HandleReport, HandleMessage, EndConnection
  <2> QED
    BY <1>1, <2>1
<1> QED
  BY <1>2, <1>3, <1>4

\* What is sent, is sent in a session whose generation is current, while no command holds
\* the lock.
LEMMA SupervisorWorld ==
  ASSUME SupInvariant, SupervisorStep \/ PeerStep
  PROVE  UNCHANGED world \/ (world' = SentNow /\ Active /\ LockFree /\ SameGeneration)
<1>1. CASE HandlePublish \/ HandleReport \/ HandleHello \/ HandleMessage
  <2>1. sup.pc = "busy"
    BY <1>1, SessionFacts DEF HandlePublish, HandleReport, HandleHello, HandleMessage, Messages,
       Hellos
  <2>2. LockFree /\ (UNCHANGED world \/ (world' = SentNow /\ SameGeneration))
    BY <1>1 DEF HandlePublish, HandleReport, HandleHello, HandleMessage
  <2> QED
    BY <2>1, <2>2 DEF Active, Holding
<1>2. CASE /\ SupervisorStep \/ PeerStep
           /\ ~(HandlePublish \/ HandleReport \/ HandleHello \/ HandleMessage)
  BY <1>2 DEF SupervisorStep, PeerStep, Top, PausedControl, PausedReport, DelayElapsed,
     DelayControl, ReadConfiguration, Discover, EnterConnecting, Connect, ConnectFails,
     CheckConnected, Announce, ReceiveChallenge, SendResponse, ReceiveVerdict, SendHello,
     SendHelloFails, HelloTimeout, ReceiveMessage, ReceiveFails, ReceiveReport, SessionControl,
     HandleTimeout, HandleFailure, EndConnection
<1> QED
  BY <1>1, <1>2

-----------------------------------------------------------------------------
(***************************************************************************)
(* The invariant, and the supervisor's steps.                              *)
(***************************************************************************)
Invariant ==
  /\ TypeOK /\ AttemptBudget /\ CmdShape /\ PairingProgress /\ ConnectionUsable
  /\ NoticeOnItsWay /\ SnapshotStands /\ FramesGoToPairedServer

\* Taking a control off the channel loses no notice but one that is being obeyed.
LEMMA TailTold ==
  ASSUME NEW controls \in Seq(Controls), controls # <<>>,
         Head(controls) # "ConfigurationChanged",
         \E i \in 1..Len(controls) : controls[i] = "ConfigurationChanged"
  PROVE  \E i \in 1..Len(Tail(controls)) : Tail(controls)[i] = "ConfigurationChanged"
<1>1. PICK i \in 1..Len(controls) : controls[i] = "ConfigurationChanged"
  OBVIOUS
<1>2. i # 1
  BY <1>1
<1>3. i - 1 \in 1..Len(Tail(controls)) /\ Tail(controls)[i - 1] = controls[i]
  BY <1>1, <1>2
<1> QED
  BY <1>1, <1>3

\* A step of the supervisor keeps the invariant.
LEMMA SupervisorKeeps ==
  ASSUME Invariant, SupervisorStep \/ PeerStep PROVE Invariant'
<1>1. SupInvariant /\ SvcType /\ CmdType /\ DiskType /\ WorldType
  BY DEF Invariant, TypeOK, SupInvariant
<1>2. Kept
  BY <1>1, SupInvariantStep DEF Next
<1>3. SharedFrame /\ cmd' = cmd
  BY <1>1, SupervisorFrame
<1>4. DiskFrame
  BY <1>1, SupervisorDisk
<1>5. \/ world' = world
      \/ world' = SentNow /\ Active /\ LockFree /\ SameGeneration
  BY <1>1, SupervisorWorld
<1>6. WorldType' /\ world'.registered = world.registered
  <2>1. CASE world' = world
    BY <1>1, <2>1 DEF WorldType
  <2>2. CASE world' = SentNow
    <3> DEFINE pair == <<sup.connection.server, svc.connection.server>>
    <3>1. pair \in (Servers \cup {"none"}) \X (Servers \cup {"none"})
      BY <1>1 DEF SupInvariant, SupType, Supervisors, SvcType, Services, Connections
    <3>2. world' = [world EXCEPT !.sent = @ \cup {pair}]
      BY <2>2 DEF SentNow
    <3> HIDE DEF pair
    <3> QED
      BY <1>1, <3>1, <3>2 DEF WorldType, Worlds
  <2> QED
    BY <1>5, <2>1, <2>2
<1>7. TypeOK' /\ AttemptBudget'
  BY <1>1, <1>2, <1>3, <1>4, <1>6
     DEF TypeOK, Kept, SupInvariant, SharedFrame, SvcType, CmdType, DiskFrame
<1>8. CmdShape' /\ PairingProgress' /\ ConnectionUsable'
  BY <1>3, <1>4, <1>6
     DEF Invariant, CmdShape, PairingProgress, ConnectionUsable, SharedFrame, DiskFrame, Command
<1>9. NoticeOnItsWay'
  <2> SUFFICES ASSUME Active', ~SameGeneration'
               PROVE  (cmd.step = "signal" /\ cmd.op # "pair") \/ Told'
    BY <1>3 DEF NoticeOnItsWay
  <2>1. Active /\ ~SameGeneration
    BY <1>2, <1>3 DEF Kept, SnapshotKept, SnapshotTaken, SharedFrame, Active, SameGeneration
  <2>2. CASE svc'.controls = svc.controls
    BY <2>1, <2>2 DEF Invariant, NoticeOnItsWay, Told
  <2>3. CASE /\ svc.controls # <<>> /\ svc'.controls = Tail(svc.controls)
             /\ Head(svc.controls) # "ConfigurationChanged"
    <3>1. svc.controls \in Seq(Controls)
      BY <1>1 DEF SvcType, Services
    <3> QED
      BY <2>1, <2>3, <3>1, TailTold DEF Invariant, NoticeOnItsWay, Told
  <2> QED
    BY <1>3, <2>2, <2>3 DEF SharedFrame, Active
<1>10. SnapshotStands'
  <2>1. sup.generation \in Nat /\ svc.generation \in Nat
    BY <1>1 DEF SupInvariant, SupType, Supervisors, SvcType, Services
  <2>2. sup'.generation <= svc'.generation
    BY <1>2, <1>3, <2>1
       DEF Kept, SnapshotKept, SnapshotTaken, SharedFrame, Invariant, SnapshotStands
  <2>3. svc'.agent \in Unconfigured => svc.agent \in Unconfigured
    BY <1>3 DEF SharedFrame
  <2>4. cmd.step \in PairSteps => svc'.agent = svc.agent
    BY <1>3 DEF SharedFrame, LockFree, Quiet, PairSteps, Invariant, SnapshotStands, Live
  <2>5. ASSUME Active', SameGeneration'
        PROVE  /\ svc'.connection \in {sup'.connection, NoConnection}
               /\ cmd.step \notin {"bump", "configure"} => svc'.agent \notin Unconfigured
               /\ cmd.step \notin PairSteps
    <3>1. CASE SnapshotKept
      BY <1>3, <2>3, <2>5, <3>1
         DEF SnapshotKept, SharedFrame, Invariant, SnapshotStands, Active, SameGeneration
    <3>2. CASE SnapshotTaken
      BY <1>3, <2>3, <2>5, <3>2
         DEF SnapshotTaken, SharedFrame, Invariant, SnapshotStands, LockFree, Quiet, PairSteps
    <3> QED
      BY <1>2, <3>1, <3>2 DEF Kept
  <2> QED
    BY <1>3, <2>2, <2>3, <2>4, <2>5 DEF SharedFrame, Invariant, SnapshotStands
<1>11. FramesGoToPairedServer'
  <2>1. CASE world' = world
    BY <2>1 DEF Invariant, FramesGoToPairedServer
  <2>2. CASE world' = SentNow /\ Active /\ LockFree /\ SameGeneration
    <3>1. svc.connection \in {sup.connection, NoConnection}
      BY <2>2 DEF Invariant, SnapshotStands
    <3>2. world'.sent = world.sent \cup {<<sup.connection.server, svc.connection.server>>}
      BY <1>1, <2>2 DEF SentNow, WorldType, Worlds
    <3> QED
      BY <3>1, <3>2 DEF Invariant, FramesGoToPairedServer, NoConnection
  <2> QED
    BY <1>5, <2>1, <2>2
<1> QED
  BY <1>7, <1>8, <1>9, <1>10, <1>11 DEF Invariant

-----------------------------------------------------------------------------
(***************************************************************************)
(* The steps of commands and users.                                        *)
(***************************************************************************)
\* Steps that leave the supervisor alone keep its part of the invariant.
LEMMA SupUnchanged ==
  ASSUME Invariant, sup' = sup PROVE SupType' /\ AttemptBudget' /\ (Active' <=> Active)
BY DEF Invariant, TypeOK, SupType, AttemptBudget, Spare, Active

\* What is left to show for a step that keeps the supervisor and the socket's history.
CommandGoal ==
  /\ svc' \in Services /\ cmd' \in Commands /\ disk' \in Disks /\ world' \in Worlds
  /\ CmdShape' /\ PairingProgress' /\ ConnectionUsable' /\ NoticeOnItsWay' /\ SnapshotStands'

\* The supervisor's part and the history are kept by such a step.
LEMMA CommandGoalSuffices ==
  ASSUME Invariant, sup' = sup, world'.sent = world.sent, CommandGoal PROVE Invariant'
<1>1. FramesGoToPairedServer'
  BY DEF Invariant, FramesGoToPairedServer
<1> QED
  BY <1>1, SupUnchanged
     DEF CommandGoal, Invariant, TypeOK, SvcType, CmdType, DiskType, WorldType

\* Counting a command or a disturbance changes nothing else.
LEMMA CountedType ==
  ASSUME WorldType
  PROVE  /\ Counted \in Worlds /\ Counted.registered = world.registered
         /\ Counted.sent = world.sent
         /\ Disturbed \in Worlds /\ Disturbed.registered = world.registered
         /\ Disturbed.sent = world.sent
<1>1. world.commands + 1 \in Nat /\ world.disturbances + 1 \in Nat
  BY DEF WorldType, Worlds
<1> QED
  BY <1>1 DEF Counted, Disturbed, WorldType, Worlds

\* No command.
LEMMA QuietType == Quiet \in Commands /\ Quiet.step = "none" /\ Quiet.op = "none"
BY DEF Quiet, Commands

\* The next step of the same command.
LEMMA StepType ==
  ASSUME CmdType, NEW step \in PairSteps \cup ForgetSteps \cup {"none", "signal"}, Step(step)
  PROVE  /\ cmd' \in Commands /\ cmd'.step = step /\ cmd'.op = cmd.op /\ cmd'.ref = cmd.ref
         /\ cmd'.url = cmd.url
BY DEF CmdType, Commands, Step

\* A control is queued unless the supervisor has returned; no notice is lost.
LEMMA SendingType ==
  ASSUME SvcType, NEW control \in Controls
  PROVE  /\ Sending(control) \in Services
         /\ Sending(control).connection = svc.connection
         /\ Sending(control).generation = svc.generation
         /\ Sending(control).agent = svc.agent
         /\ LET sent == Sending(control).controls
            IN  /\ Told => \E i \in 1..Len(sent) : sent[i] = "ConfigurationChanged"
                /\ control = "ConfigurationChanged" /\ sup.pc # "done" =>
                     \E i \in 1..Len(sent) : sent[i] = "ConfigurationChanged"
<1> DEFINE controls == svc.controls
           more == Append(controls, control)
           sent == IF sup.pc = "done" THEN controls ELSE more
<1>1. controls \in Seq(Controls)
  BY DEF SvcType, Services
<1>2. more \in Seq(Controls) /\ Len(more) = Len(controls) + 1 /\ more[Len(controls) + 1] = control
      /\ \A i \in 1..Len(controls) : more[i] = controls[i]
  BY <1>1
<1>3. sent \in Seq(Controls)
  BY <1>1, <1>2
<1>4. Told => \E i \in 1..Len(sent) : sent[i] = "ConfigurationChanged"
  <2> SUFFICES ASSUME NEW i \in 1..Len(controls), controls[i] = "ConfigurationChanged"
               PROVE  \E j \in 1..Len(sent) : sent[j] = "ConfigurationChanged"
    BY DEF Told
  <2>1. i \in 1..Len(sent) /\ sent[i] = controls[i]
    BY <1>1, <1>2
  <2> QED
    BY <2>1
<1>5. control = "ConfigurationChanged" /\ sup.pc # "done" =>
        \E i \in 1..Len(sent) : sent[i] = "ConfigurationChanged"
  <2> SUFFICES ASSUME control = "ConfigurationChanged", sup.pc # "done"
               PROVE  \E i \in 1..Len(sent) : sent[i] = "ConfigurationChanged"
    OBVIOUS
  <2>1. Len(controls) + 1 \in 1..Len(sent) /\ sent[Len(controls) + 1] = control
    BY <1>1, <1>2
  <2> QED
    BY <2>1
<1>6. Sending(control) = [svc EXCEPT !.controls = sent]
  BY DEF Sending
<1> HIDE DEF sent
<1>7. /\ Sending(control) \in Services
      /\ Sending(control).connection = svc.connection
      /\ Sending(control).generation = svc.generation
      /\ Sending(control).agent = svc.agent
      /\ Sending(control).controls = sent
  BY <1>3, <1>6 DEF SvcType, Services
<1> QED
  BY <1>4, <1>5, <1>7

\* Steps that leave the pairing, the command and the disk alone.
LEMMA BystanderKeeps ==
  ASSUME Invariant, sup' = sup, cmd' = cmd, disk' = disk, svc' \in Services, world' \in Worlds,
         world'.sent = world.sent, world'.registered = world.registered,
         svc'.connection = svc.connection, svc'.generation = svc.generation,
         svc'.agent \in {svc.agent, "shutting_down"}, Told => Told'
  PROVE  Invariant'
<1>1. CmdShape' /\ PairingProgress' /\ ConnectionUsable'
  BY DEF Invariant, CmdShape, PairingProgress, ConnectionUsable, Command
<1>2. NoticeOnItsWay'
  BY DEF Invariant, NoticeOnItsWay, Active, SameGeneration
<1>3. SnapshotStands'
  BY DEF Invariant, SnapshotStands, Active, SameGeneration, Unconfigured
<1>4. cmd \in Commands /\ disk \in Disks
  BY DEF Invariant, TypeOK, CmdType, DiskType
<1> QED
  BY <1>1, <1>2, <1>3, <1>4, CommandGoalSuffices DEF CommandGoal

\* Requests, reports and the shutdown (service.rs reconnect, publish_inventory, shutdown).
LEMMA RequestsKeep ==
  ASSUME Invariant,
         Reconnect \/ PublishInventory \/ Report \/ Shutdown \/ SignalShutdown
  PROVE  Invariant'
<1>1. SvcType /\ WorldType
  BY DEF Invariant, TypeOK
<1>2. /\ Disturbed \in Worlds /\ Disturbed.registered = world.registered
      /\ Disturbed.sent = world.sent /\ world \in Worlds
  BY <1>1, CountedType DEF WorldType
<1>3. CASE Reconnect \/ PublishInventory
  <2>1. PICK control \in Controls : svc' = Sending(control)
    BY <1>3 DEF Reconnect, PublishInventory, Controls
  <2>2. svc' \in Services /\ svc'.connection = svc.connection
        /\ svc'.generation = svc.generation /\ svc'.agent = svc.agent /\ (Told => Told')
    BY <1>1, <2>1, SendingType DEF Told
  <2> QED
    BY <1>2, <1>3, <2>2, BystanderKeeps DEF Reconnect, PublishInventory
<1>4. CASE Report
  <2>1. svc.outbound + 1 \in Nat
    BY <1>1 DEF SvcType, Services
  <2>2. svc' \in Services /\ svc'.connection = svc.connection /\ svc'.controls = svc.controls
        /\ svc'.generation = svc.generation /\ svc'.agent = svc.agent
    BY <1>1, <1>4, <2>1 DEF Report, SvcType, Services
  <2> QED
    BY <1>2, <1>4, <2>2, BystanderKeeps DEF Report, Told
<1>5. CASE Shutdown
  <2>1. svc' \in Services /\ svc'.connection = svc.connection /\ svc'.controls = svc.controls
        /\ svc'.generation = svc.generation /\ svc'.agent = svc.agent
    BY <1>1, <1>5 DEF Shutdown, SvcType, Services
  <2> QED
    BY <1>2, <1>5, <2>1, BystanderKeeps DEF Shutdown, Told
<1>6. CASE SignalShutdown
  <2> DEFINE s == Sending("Shutdown")
  <2>1. /\ s \in Services /\ s.connection = svc.connection /\ s.generation = svc.generation
        /\ Told => \E i \in 1..Len(s.controls) : s.controls[i] = "ConfigurationChanged"
    BY <1>1, SendingType DEF Controls
  <2>2. svc' = [s EXCEPT !.shutdown = "sent", !.agent = "shutting_down"]
    BY <1>6 DEF SignalShutdown
  <2> HIDE DEF s
  <2>3. svc' \in Services /\ svc'.connection = s.connection /\ svc'.controls = s.controls
        /\ svc'.generation = s.generation /\ svc'.agent = "shutting_down"
    BY <2>1, <2>2 DEF Services, AgentStates
  <2> QED
    BY <1>2, <1>6, <2>1, <2>3, BystanderKeeps DEF SignalShutdown, Told
<1> QED
  BY <1>3, <1>4, <1>5, <1>6

\* pair_server begins: no iteration has a current snapshot, since the agent is unconfigured.
LEMMA PairServerKeeps == ASSUME Invariant, PairServer PROVE Invariant'
<1> DEFINE n == world.commands + 1
<1>1. SvcType /\ WorldType /\ cmd.step = "none" /\ svc.connection = NoConnection
      /\ svc.agent = "unconfigured" /\ svc.url \in Servers
  BY QuietType DEF Invariant, TypeOK, PairServer, LockFree, SvcType, Services
<1>2. n \in Nat
  BY <1>1 DEF WorldType, Worlds
<1>3. /\ cmd' \in Commands /\ cmd'.step = "discover" /\ cmd'.op = "pair" /\ cmd'.url = svc.url
  BY <1>1, <1>2 DEF PairServer, Commands, PairSteps
<1>4. /\ svc' \in Services /\ svc'.connection = svc.connection
      /\ svc'.generation = svc.generation /\ svc'.agent = "pairing"
      /\ svc'.controls = svc.controls
  BY <1>1 DEF PairServer, SvcType, Services, AgentStates, Phases
<1>5. world' \in Worlds /\ world'.sent = world.sent /\ world'.registered = world.registered
  BY <1>1, CountedType DEF PairServer
<1>6. sup' = sup /\ disk' = disk /\ disk \in Disks
  BY DEF PairServer, Invariant, TypeOK, DiskType
<1>7. CmdShape' /\ PairingProgress' /\ ConnectionUsable'
  BY <1>1, <1>3, <1>4, <1>5, <1>6
     DEF Invariant, CmdShape, PairingProgress, ConnectionUsable, PairSteps, ForgetSteps, Quiet
<1>8. NoticeOnItsWay'
  BY <1>1, <1>3, <1>4, <1>6 DEF Invariant, NoticeOnItsWay, Active, SameGeneration, Told
<1>9. SnapshotStands'
  BY <1>1, <1>3, <1>4, <1>6
     DEF Invariant, SnapshotStands, Active, SameGeneration, Unconfigured, PairSteps
<1> QED
  BY <1>3, <1>4, <1>5, <1>6, <1>7, <1>8, <1>9, CommandGoalSuffices DEF CommandGoal

\* The typed parts of the invariant.
LEMMA TypeFacts ==
  ASSUME Invariant
  PROVE  /\ SupType /\ SvcType /\ CmdType /\ DiskType /\ WorldType
         /\ svc \in Services /\ cmd \in Commands /\ disk \in Disks /\ world \in Worlds
         /\ svc.agent \in AgentStates /\ svc.generation \in Nat /\ sup.generation \in Nat
BY DEF Invariant, TypeOK, SupType, Supervisors, SvcType, Services, CmdType, DiskType, WorldType

\* A pairing that stops gives the lock back with nothing in use, whatever becomes of its key.
LEMMA PairingStopsKeeps ==
  ASSUME Invariant, NEW phase \in Phases, PairingStops(phase), cmd.step \in PairSteps,
         sup' = sup, disk' \in Disks, disk'.connection = disk.connection, world' \in Worlds,
         world'.sent = world.sent, world'.registered = world.registered
  PROVE  Invariant'
<1> DEFINE agent == Transition(svc.agent, "unconfigured")
<1>1. agent \in AgentStates
  BY TypeFacts DEF Transition, AgentStates
<1>2. svc' = [svc EXCEPT !.agent = agent, !.phase = phase] /\ cmd' = Quiet
  BY DEF PairingStops
<1> HIDE DEF agent
<1>3. /\ svc' \in Services /\ svc'.connection = svc.connection
      /\ svc'.generation = svc.generation /\ svc'.controls = svc.controls
  BY <1>1, <1>2, TypeFacts DEF Services
<1>4. svc.connection = NoConnection
  BY DEF Invariant, PairingProgress
<1>5. cmd' \in Commands /\ cmd'.step = "none" /\ CmdShape'
  BY <1>2, QuietType DEF CmdShape, PairSteps, ForgetSteps
<1>6. PairingProgress' /\ ConnectionUsable'
  BY <1>3, <1>4, <1>5
     DEF Invariant, PairingProgress, ConnectionUsable, PairSteps, ForgetSteps
<1>7. NoticeOnItsWay'
  BY <1>3 DEF Invariant, NoticeOnItsWay, Active, SameGeneration, Told, PairSteps
<1>8. SnapshotStands'
  BY <1>3, <1>4, <1>5 DEF Invariant, SnapshotStands, Active, SameGeneration, PairSteps
<1> QED
  BY <1>3, <1>5, <1>6, <1>7, <1>8, CommandGoalSuffices DEF CommandGoal

\* A pairing that goes on has established what its next step relies on.
LEMMA PairingGoesOn ==
  ASSUME Invariant, NEW step \in PairSteps, Step(step), cmd.step \in PairSteps,
         sup' = sup, svc' = svc, disk' \in Disks, world' \in Worlds, world'.sent = world.sent,
         disk'.connection \in world'.registered \cup {NoConnection},
         step \in {"redeem", "store", "adopt"} => cmd.ref \in disk'.keys,
         step \in {"store", "adopt"} => Command \in world'.registered,
         step = "adopt" => disk'.connection = Command
  PROVE  Invariant'
<1>1. cmd' \in Commands /\ cmd'.step = step /\ cmd'.op = cmd.op /\ cmd'.url = cmd.url
      /\ cmd'.ref = cmd.ref /\ Command' = Command
  BY TypeFacts, StepType DEF Command
<1>2. svc.connection = NoConnection
  BY DEF Invariant, PairingProgress
<1>3. CmdShape' /\ PairingProgress' /\ ConnectionUsable'
  BY <1>1, <1>2
     DEF Invariant, CmdShape, PairingProgress, ConnectionUsable, PairSteps, ForgetSteps
<1>4. NoticeOnItsWay'
  BY DEF Invariant, NoticeOnItsWay, Active, SameGeneration, Told, PairSteps
<1>5. SnapshotStands'
  BY <1>1 DEF Invariant, SnapshotStands, Active, SameGeneration, PairSteps
<1> QED
  BY <1>1, <1>3, <1>4, <1>5, TypeFacts, CommandGoalSuffices DEF CommandGoal

\* Discovery, the key and the code of pair_server.
LEMMA PairingKeeps ==
  ASSUME Invariant, PairDiscover \/ GenerateKey \/ RedeemCode \/ StoreConnection
  PROVE  Invariant'
<1>1. cmd.step \in PairSteps /\ sup' = sup
  BY DEF PairDiscover, GenerateKey, RedeemCode, StoreConnection, PairSteps
<1>2. /\ Disturbed \in Worlds /\ Disturbed.registered = world.registered
      /\ Disturbed.sent = world.sent /\ cmd.ref \in Nat /\ disk.keys \in SUBSET Nat
      /\ disk.connection \in world.registered \cup {NoConnection}
      /\ Command \in Connections
  BY TypeFacts, CountedType DEF Commands, Disks, Invariant, PairingProgress, Command, Connections
<1>3. ASSUME NEW keys \in SUBSET Nat, disk' = [disk EXCEPT !.keys = keys]
      PROVE  disk' \in Disks /\ disk'.connection = disk.connection /\ disk'.keys = keys
  BY <1>3, TypeFacts DEF Disks
<1>4. ASSUME NEW phase \in Phases, PairingStops(phase),
             disk' = disk \/ disk' = [disk EXCEPT !.keys = @ \ {cmd.ref}],
             world' \in {world, Disturbed}
      PROVE  Invariant'
  <2>1. disk.keys \ {cmd.ref} \in SUBSET Nat
    BY <1>2
  <2>2. disk' \in Disks /\ disk'.connection = disk.connection
    BY <1>3, <1>4, <2>1, TypeFacts
  <2> QED
    BY <1>1, <1>2, <1>4, <2>2, TypeFacts, PairingStopsKeeps
<1>5. CASE PairDiscover
  <2>1. CASE Step("generate") /\ UNCHANGED svc
    BY <1>1, <1>2, <1>5, <2>1, TypeFacts, PairingGoesOn DEF PairDiscover, PairSteps
  <2>2. CASE PairingStops("discovery_failed")
    BY <1>4, <1>5, <2>2 DEF PairDiscover, Phases
  <2> QED
    BY <1>5, <2>1, <2>2 DEF PairDiscover
<1>6. CASE GenerateKey
  <2>1. CASE /\ Step("redeem") /\ UNCHANGED <<svc, world>>
             /\ disk' = [disk EXCEPT !.keys = @ \cup {cmd.ref}]
    <3>1. disk.keys \cup {cmd.ref} \in SUBSET Nat
      BY <1>2
    <3>2. disk' \in Disks /\ disk'.connection = disk.connection /\ cmd.ref \in disk'.keys
      BY <1>3, <2>1, <3>1
    <3> QED
      BY <1>1, <1>2, <2>1, <3>2, TypeFacts, PairingGoesOn DEF PairSteps
  <2>2. CASE PairingStops("unpaired") /\ world' = Disturbed /\ UNCHANGED disk
    BY <1>4, <2>2 DEF Phases
  <2> QED
    BY <1>6, <2>1, <2>2 DEF GenerateKey
<1>7. CASE RedeemCode
  <2>1. CASE /\ Step("store") /\ UNCHANGED <<svc, disk>>
             /\ world' = [world EXCEPT !.registered = @ \cup {Command}]
    <3>1. world.registered \in SUBSET Connections
      BY TypeFacts DEF Worlds
    <3>2. world.registered \cup {Command} \in SUBSET Connections
      BY <1>2, <3>1
    <3>3. world' \in Worlds /\ world'.sent = world.sent
          /\ world'.registered = world.registered \cup {Command}
      BY <2>1, <3>2, TypeFacts DEF Worlds
    <3>4. cmd.ref \in disk.keys
      BY <1>7 DEF RedeemCode, Invariant, PairingProgress
    <3> QED
      BY <1>1, <1>2, <2>1, <3>3, <3>4, TypeFacts, PairingGoesOn DEF PairSteps
  <2>2. CASE PairingStops("unpaired") /\ DropNewKey
    BY <1>4, <2>2 DEF DropNewKey, Phases
  <2> QED
    BY <1>7, <2>1, <2>2 DEF RedeemCode, Command
<1>8. CASE StoreConnection
  <2>1. CASE /\ Step("adopt") /\ UNCHANGED <<svc, world>>
             /\ disk' = [disk EXCEPT !.connection = Command]
    <3>1. disk' \in Disks /\ disk'.connection = Command /\ disk'.keys = disk.keys
      BY <1>2, <2>1, TypeFacts DEF Disks
    <3>2. cmd.ref \in disk.keys /\ Command \in world.registered
      BY <1>8 DEF StoreConnection, Invariant, PairingProgress
    <3> QED
      BY <1>1, <1>2, <2>1, <3>1, <3>2, TypeFacts, PairingGoesOn DEF PairSteps
  <2>2. ASSUME NEW cleaned \in BOOLEAN, PairingStops("unpaired"), world' = Disturbed,
               disk' = [disk EXCEPT !.keys = IF cleaned THEN @ \ {cmd.ref} ELSE @]
        PROVE  Invariant'
    <3> DEFINE keys == IF cleaned THEN disk.keys \ {cmd.ref} ELSE disk.keys
    <3>1. keys \in SUBSET Nat /\ disk' = [disk EXCEPT !.keys = keys]
      BY <1>2, <2>2
    <3>2. disk' \in Disks /\ disk'.connection = disk.connection
      BY <1>3, <3>1
    <3> QED
      BY <1>1, <1>2, <2>2, <3>2, PairingStopsKeeps DEF Phases
  <2> QED
    BY <1>8, <2>1, <2>2 DEF StoreConnection, Command
<1> QED
  BY <1>5, <1>6, <1>7, <1>8

\* The end of pair_server puts the complete pairing in use.
LEMMA AdoptKeeps == ASSUME Invariant, AdoptConnection PROVE Invariant'
<1> DEFINE agent == Transition(svc.agent, "disconnected")
<1>1. cmd.step = "adopt" /\ cmd.op = "pair" /\ sup' = sup /\ disk' = disk /\ world' = world
  BY DEF AdoptConnection, Invariant, CmdShape, PairSteps
<1>2. /\ cmd.ref \in disk.keys /\ Command \in world.registered /\ disk.connection = Command
      /\ svc.agent \in {"pairing", "shutting_down"} /\ ~(Active /\ SameGeneration)
  BY <1>1 DEF Invariant, PairingProgress, SnapshotStands, PairSteps
<1>3. agent \in AgentStates /\ agent \notin Unconfigured
  BY <1>2 DEF Transition, CanTransition, AgentStates, Unconfigured, Live
<1>4. svc' = [svc EXCEPT !.agentId = TRUE, !.phase = "paired", !.connection = Command,
                         !.agent = agent]
  BY DEF AdoptConnection, Command
<1>5. Command \in Connections
  BY <1>2, TypeFacts DEF Disks
<1> HIDE DEF agent
<1>6. /\ svc' \in Services /\ svc'.connection = Command /\ svc'.generation = svc.generation
      /\ svc'.agent = agent /\ svc'.controls = svc.controls
  BY <1>3, <1>4, <1>5, TypeFacts DEF Services, Phases
<1>7. cmd' \in Commands /\ (cmd' = Quiet \/ (cmd'.step = "signal" /\ cmd'.op = "pair"))
  BY <1>1, QuietType, TypeFacts, StepType DEF AdoptConnection
<1>8. cmd'.step \in {"none", "signal"} /\ CmdShape'
  BY <1>7, QuietType DEF CmdShape, PairSteps, ForgetSteps
<1>9. PairingProgress' /\ ConnectionUsable'
  BY <1>1, <1>2, <1>6, <1>8
     DEF Invariant, PairingProgress, ConnectionUsable, PairSteps, ForgetSteps, Command
<1>10. NoticeOnItsWay'
  BY <1>1, <1>2, <1>6 DEF Invariant, NoticeOnItsWay, Active, SameGeneration, Told
<1>11. SnapshotStands'
  BY <1>1, <1>2, <1>3, <1>6, <1>8 DEF Invariant, SnapshotStands, Active, SameGeneration, PairSteps
<1> QED
  BY <1>1, <1>6, <1>7, <1>8, <1>9, <1>10, <1>11, TypeFacts, CommandGoalSuffices DEF CommandGoal

\* forget_server and apply_server_configuration take the pairing out of use first.
LEMMA ForgetServerKeeps ==
  ASSUME Invariant, NEW url \in Servers, ForgetServer(url) PROVE Invariant'
<1>1. cmd.step = "none" /\ sup' = sup /\ disk' = disk
  BY QuietType DEF ForgetServer, LockFree
<1>2. svc.connection.ref \in Nat
  BY TypeFacts DEF Services, Connections
<1>3. /\ cmd' \in Commands /\ cmd'.step \in {"clear", "delete"} /\ cmd'.url = url
      /\ cmd'.op \in {"forget", "apply"}
  BY <1>2 DEF ForgetServer, Commands, ForgetSteps
<1>4. /\ svc' \in Services /\ svc'.connection = NoConnection
      /\ svc'.generation = svc.generation /\ svc'.agent = svc.agent
      /\ svc'.controls = svc.controls
  BY TypeFacts, NoConnectionType DEF ForgetServer, Services
<1>5. world' \in Worlds /\ world'.sent = world.sent /\ world'.registered = world.registered
  BY TypeFacts, CountedType DEF ForgetServer
<1>6. CmdShape' /\ PairingProgress' /\ ConnectionUsable'
  BY <1>1, <1>3, <1>4, <1>5
     DEF Invariant, CmdShape, PairingProgress, ConnectionUsable, PairSteps, ForgetSteps
<1>7. NoticeOnItsWay'
  BY <1>1, <1>4 DEF Invariant, NoticeOnItsWay, Active, SameGeneration, Told
<1>8. SnapshotStands'
  BY <1>1, <1>3, <1>4 DEF Invariant, SnapshotStands, Active, SameGeneration, PairSteps
<1> QED
  BY <1>1, <1>3, <1>4, <1>5, <1>6, <1>7, <1>8, TypeFacts, CommandGoalSuffices DEF CommandGoal

\* The key goes before the stored pairing, which is unusable without it.
LEMMA DeleteKeyKeeps == ASSUME Invariant, DeleteKey PROVE Invariant'
<1>1. cmd.step = "delete" /\ cmd.op \in {"forget", "apply"} /\ cmd.url \in Servers /\ sup' = sup
      /\ svc' = svc /\ svc.connection = NoConnection
  BY DEF DeleteKey, Invariant, CmdShape, PairingProgress, ForgetSteps
<1>2. /\ cmd' \in Commands /\ cmd'.step \in {"clear", "none"} /\ CmdShape'
  <2>1. CASE Step("clear")
    BY <1>1, <2>1, TypeFacts, StepType DEF CmdShape, PairSteps, ForgetSteps
  <2>2. CASE cmd' = Quiet
    BY <2>2, QuietType DEF CmdShape, PairSteps, ForgetSteps
  <2> QED
    BY <2>1, <2>2 DEF DeleteKey
<1>3. disk' \in Disks /\ disk'.connection = disk.connection
  <2>1. disk.keys \ {cmd.ref} \in SUBSET Nat
    BY TypeFacts DEF Disks
  <2>2. disk' = disk \/ disk' = [disk EXCEPT !.keys = disk.keys \ {cmd.ref}]
    BY DEF DeleteKey
  <2> QED
    BY <2>1, <2>2, TypeFacts DEF Disks
<1>4. world' \in Worlds /\ world'.sent = world.sent /\ world'.registered = world.registered
  BY TypeFacts, CountedType DEF DeleteKey
<1>5. PairingProgress' /\ ConnectionUsable'
  BY <1>1, <1>2, <1>3, <1>4
     DEF Invariant, PairingProgress, ConnectionUsable, PairSteps, ForgetSteps
<1>6. NoticeOnItsWay' /\ SnapshotStands'
  BY <1>1, <1>2
     DEF Invariant, NoticeOnItsWay, SnapshotStands, Active, SameGeneration, Told, PairSteps
<1> QED
  BY <1>1, <1>2, <1>3, <1>4, <1>5, <1>6, TypeFacts, CommandGoalSuffices DEF CommandGoal

\* force_unconfigured ends in some state of the agent and touches nothing else.
LEMMA ForceUnconfiguredType ==
  ASSUME NEW s \in Services
  PROVE  /\ ForceUnconfigured(s) \in Services
         /\ ForceUnconfigured(s).connection = s.connection
         /\ ForceUnconfigured(s).generation = s.generation
         /\ ForceUnconfigured(s).controls = s.controls
<1> DEFINE halted == IF s.agent \in Live THEN Transition(s.agent, "disconnected") ELSE s.agent
           agent == Transition(halted, "unconfigured")
<1>1. s.agent \in AgentStates
  BY DEF Services
<1>2. halted \in AgentStates
  BY <1>1 DEF Transition, AgentStates
<1>3. agent \in AgentStates
  BY <1>2 DEF Transition, AgentStates
<1>4. ForceUnconfigured(s) = [s EXCEPT !.agentId = FALSE, !.agent = agent]
  BY DEF ForceUnconfigured
<1> HIDE DEF agent
<1> QED
  BY <1>3, <1>4 DEF Services

\* Clearing the stored pairing.
LEMMA ClearConnectionKeeps == ASSUME Invariant, ClearConnection PROVE Invariant'
<1>1. cmd.step = "clear" /\ cmd.op \in {"forget", "apply"} /\ cmd.url \in Servers /\ sup' = sup
      /\ svc.connection = NoConnection
  BY DEF ClearConnection, Invariant, CmdShape, PairingProgress, ForgetSteps
<1>2. CASE cmd' = Quiet /\ world' = Disturbed /\ UNCHANGED <<svc, disk>>
  <2>1. cmd' \in Commands /\ cmd'.step = "none" /\ CmdShape'
    BY <1>2, QuietType DEF CmdShape, PairSteps, ForgetSteps
  <2>2. world' \in Worlds /\ world'.sent = world.sent /\ world'.registered = world.registered
    BY <1>2, TypeFacts, CountedType
  <2>3. PairingProgress' /\ ConnectionUsable' /\ NoticeOnItsWay' /\ SnapshotStands'
    BY <1>1, <1>2, <2>1, <2>2
       DEF Invariant, PairingProgress, ConnectionUsable, NoticeOnItsWay, SnapshotStands, Active,
           SameGeneration, Told, PairSteps, ForgetSteps
  <2> QED
    BY <1>1, <1>2, <2>1, <2>2, <2>3, TypeFacts, CommandGoalSuffices DEF CommandGoal
<1>3. CASE /\ Step(IF cmd.op = "forget" THEN "bump" ELSE "configure")
           /\ disk' = [disk EXCEPT !.connection = NoConnection]
           /\ svc' = ForceUnconfigured([svc EXCEPT !.phase = "unpaired"])
           /\ UNCHANGED world
  <2>1. /\ cmd' \in Commands /\ cmd'.step \in {"bump", "configure"} /\ cmd'.op = cmd.op
        /\ cmd'.url = cmd.url
    BY <1>3, TypeFacts, StepType DEF ForgetSteps
  <2>2. CmdShape'
    BY <1>1, <2>1 DEF CmdShape, PairSteps, ForgetSteps
  <2>3. disk' \in Disks /\ disk'.connection = NoConnection
    BY <1>3, TypeFacts, NoConnectionType DEF Disks
  <2> DEFINE s == [svc EXCEPT !.phase = "unpaired"]
  <2>4. /\ s \in Services /\ s.connection = svc.connection /\ s.generation = svc.generation
        /\ s.controls = svc.controls
    BY TypeFacts DEF Services, Phases
  <2>5. svc' = ForceUnconfigured(s)
    BY <1>3
  <2> HIDE DEF s
  <2>6. /\ svc' \in Services /\ svc'.connection = svc.connection
        /\ svc'.generation = svc.generation /\ svc'.controls = svc.controls
    BY <2>4, <2>5, ForceUnconfiguredType
  <2>7. PairingProgress' /\ ConnectionUsable'
    BY <1>1, <2>1, <2>3, <2>6
       DEF Invariant, PairingProgress, ConnectionUsable, PairSteps, ForgetSteps
  <2>8. NoticeOnItsWay' /\ SnapshotStands'
    BY <1>1, <2>1, <2>6
       DEF Invariant, NoticeOnItsWay, SnapshotStands, Active, SameGeneration, Told, PairSteps
  <2> QED
    BY <1>1, <1>3, <2>1, <2>2, <2>3, <2>6, <2>7, <2>8, TypeFacts, CommandGoalSuffices
       DEF CommandGoal
<1> QED
  BY <1>2, <1>3 DEF ClearConnection

\* A new generation outdates every snapshot; the command still has to say so.
LEMMA GenerationKeeps ==
  ASSUME Invariant, cmd.step \in {"bump", "configure"}, Step("signal"), sup' = sup,
         svc' \in Services, svc'.connection = svc.connection,
         svc'.generation = svc.generation + 1, disk' \in Disks,
         disk'.connection = disk.connection, world' \in Worlds, world'.sent = world.sent,
         world'.registered = world.registered
  PROVE  Invariant'
<1>1. cmd.op \in {"forget", "apply"} /\ svc.connection = NoConnection
  BY DEF Invariant, CmdShape, PairingProgress, ForgetSteps
<1>2. cmd' \in Commands /\ cmd'.step = "signal" /\ cmd'.op = cmd.op
  BY TypeFacts, StepType
<1>3. sup.generation < svc'.generation
  BY TypeFacts DEF Invariant, SnapshotStands
<1>4. CmdShape' /\ PairingProgress' /\ ConnectionUsable'
  BY <1>1, <1>2
     DEF Invariant, CmdShape, PairingProgress, ConnectionUsable, PairSteps, ForgetSteps
<1>5. NoticeOnItsWay'
  BY <1>1, <1>2 DEF NoticeOnItsWay
<1>6. SnapshotStands'
  <2>1. sup.generation <= svc'.generation /\ ~SameGeneration'
    BY <1>3, TypeFacts DEF SameGeneration
  <2> QED
    BY <1>1, <1>2, <2>1 DEF SnapshotStands, PairSteps
<1> QED
  BY <1>2, <1>4, <1>5, <1>6, CommandGoalSuffices DEF CommandGoal

\* The last step of a forget, and of a new server URL.
LEMMA BumpKeeps == ASSUME Invariant, BumpGeneration \/ StoreConfiguration PROVE Invariant'
<1> DEFINE next == svc.generation + 1
<1>1. next \in Nat /\ cmd.step \in {"bump", "configure"} /\ Step("signal") /\ sup' = sup
  BY TypeFacts DEF BumpGeneration, StoreConfiguration
<1>2. world' \in Worlds /\ world'.sent = world.sent /\ world'.registered = world.registered
  BY TypeFacts, CountedType DEF BumpGeneration, StoreConfiguration
<1>3. CASE BumpGeneration
  <2>1. svc' = [svc EXCEPT !.generation = next] /\ disk' = disk
    BY <1>3 DEF BumpGeneration
  <2>2. svc' \in Services /\ svc'.connection = svc.connection /\ svc'.generation = next
    <3> HIDE DEF next
    <3> QED
      BY <1>1, <2>1, TypeFacts DEF Services
  <2> QED
    BY <1>1, <1>2, <2>1, <2>2, TypeFacts, GenerationKeeps
<1>4. CASE StoreConfiguration
  <2>1. cmd.url \in Servers
    BY <1>4 DEF StoreConfiguration, Invariant, CmdShape, ForgetSteps
  <2>2. disk' \in Disks /\ disk'.connection = disk.connection
    BY <1>4, <2>1, TypeFacts DEF StoreConfiguration, Disks
  <2>3. PICK s : /\ svc' = ForceUnconfigured(s)
                 /\ \/ s = [svc EXCEPT !.url = cmd.url, !.generation = next]
                    \/ s = [svc EXCEPT !.generation = next]
    BY <1>4 DEF StoreConfiguration
  <2>4. s \in Services /\ s.connection = svc.connection /\ s.generation = next
    <3> HIDE DEF next
    <3> QED
      BY <1>1, <2>1, <2>3, TypeFacts DEF Services
  <2>5. svc' \in Services /\ svc'.connection = svc.connection /\ svc'.generation = next
    BY <2>3, <2>4, ForceUnconfiguredType
  <2> QED
    BY <1>1, <1>2, <2>2, <2>5, GenerationKeeps
<1> QED
  BY <1>3, <1>4

\* The notice reaches the channel, or nobody is left to read it.
LEMMA SignalKeeps == ASSUME Invariant, SignalSupervisor PROVE Invariant'
<1> DEFINE control == IF cmd.op = "pair" THEN "Reconnect" ELSE "ConfigurationChanged"
<1>1. cmd.step = "signal" /\ cmd' = Quiet /\ sup' = sup /\ disk' = disk /\ world' = world
      /\ control \in Controls /\ svc' = Sending(control)
  BY DEF SignalSupervisor, Controls
<1>2. /\ svc' \in Services /\ svc'.connection = svc.connection
      /\ svc'.generation = svc.generation /\ svc'.agent = svc.agent
      /\ Told => Told'
      /\ control = "ConfigurationChanged" /\ sup.pc # "done" => Told'
  <2> HIDE DEF control
  <2> QED
    BY <1>1, TypeFacts, SendingType DEF Told
<1>3. cmd' \in Commands /\ cmd'.step = "none" /\ CmdShape'
  BY <1>1, QuietType DEF CmdShape, PairSteps, ForgetSteps
<1>4. PairingProgress' /\ ConnectionUsable'
  BY <1>1, <1>2, <1>3 DEF Invariant, PairingProgress, ConnectionUsable, PairSteps, ForgetSteps
<1>5. NoticeOnItsWay'
  <2>1. Active => sup.pc # "done"
    BY DEF Active, Holding, Attempting
  <2> QED
    BY <1>1, <1>2, <2>1 DEF Invariant, NoticeOnItsWay, Active, SameGeneration
<1>6. SnapshotStands'
  BY <1>1, <1>2, <1>3 DEF Invariant, SnapshotStands, Active, SameGeneration, PairSteps
<1> QED
  BY <1>1, <1>2, <1>3, <1>4, <1>5, <1>6, TypeFacts, CommandGoalSuffices DEF CommandGoal

-----------------------------------------------------------------------------
(***************************************************************************)
(* Time, restarts, the start, and the theorems.                            *)
(***************************************************************************)
\* The record of a legacy server expires.
LEMMA LegacyKeeps == ASSUME Invariant, LegacyExpires PROVE Invariant'
<1>1. DiskFrame
  BY TypeFacts, SupervisorDisk DEF Invariant, SupInvariant
<1>2. sup' = sup /\ svc' = svc /\ cmd' = cmd /\ world' = world
  BY DEF LegacyExpires
<1>3. CmdShape' /\ PairingProgress' /\ ConnectionUsable'
  BY <1>1, <1>2 DEF Invariant, DiskFrame, CmdShape, PairingProgress, ConnectionUsable, Command
<1>4. NoticeOnItsWay' /\ SnapshotStands'
  BY <1>2 DEF Invariant, NoticeOnItsWay, SnapshotStands, Active, SameGeneration, Told
<1> QED
  BY <1>1, <1>2, <1>3, <1>4, TypeFacts, CommandGoalSuffices DEF CommandGoal, DiskFrame, DiskType

\* A process that starts uses a stored pairing only with its key and its URL.
LEMMA InitializedKeeps ==
  ASSUME disk \in Disks, disk.connection \in world.registered \cup {NoConnection},
         NEW readable \in BOOLEAN
  PROVE  LET s == Initialized(Restored(readable))
         IN  /\ s \in Services /\ s.generation = 0
             /\ s.connection # NoConnection =>
                  /\ s.connection.ref \in disk.keys /\ s.connection = disk.connection
                  /\ s.connection \in world.registered /\ s.agent \notin Unconfigured
<1> DEFINE connection == Restored(readable)
<1>1. /\ connection \in Connections
      /\ connection # NoConnection =>
           /\ connection.ref \in disk.keys /\ connection = disk.connection
           /\ connection \in world.registered
  BY NoConnectionType DEF Restored, Disks
<1>2. disk.url \in Servers
  BY DEF Disks
<1>3. <<>> \in Seq(Controls)
  OBVIOUS
<1> HIDE DEF connection
<1>4. LET s == Initialized(connection)
      IN  /\ s \in Services /\ s.generation = 0 /\ s.connection = connection
          /\ connection # NoConnection => s.agent = "disconnected"
  BY <1>1, <1>2, <1>3 DEF Initialized, Services, Phases, AgentStates
<1> QED
  BY <1>1, <1>4 DEF connection, Unconfigured

\* A restart between any two steps of a command leaves a usable pairing or none.
LEMMA RestartKeeps == ASSUME Invariant, Restart PROVE Invariant'
<1>1. cmd' = Quiet /\ disk' = disk /\ disk \in Disks
      /\ disk.connection \in world.registered \cup {NoConnection}
  BY TypeFacts DEF Restart, Invariant, PairingProgress
<1>2. world' \in Worlds /\ world'.sent = world.sent /\ world'.registered = world.registered
  BY TypeFacts, CountedType DEF Restart
<1>3. sup' = FreshSupervisor /\ SupType' /\ AttemptBudget'
  BY FreshKeeps DEF Restart, Kept, SupInvariant
<1>4. sup'.pc = "top" /\ sup'.generation = 0
  BY <1>3 DEF FreshSupervisor
<1>5. /\ svc' \in Services /\ svc'.generation = 0
      /\ svc'.connection # NoConnection =>
           /\ svc'.connection.ref \in disk.keys /\ svc'.connection = disk.connection
           /\ svc'.connection \in world.registered /\ svc'.agent \notin Unconfigured
  BY <1>1, InitializedKeeps DEF Restart
<1>6. cmd' \in Commands /\ cmd'.step = "none" /\ CmdShape'
  BY <1>1, QuietType DEF CmdShape, PairSteps, ForgetSteps
<1>7. PairingProgress' /\ ConnectionUsable'
  BY <1>1, <1>2, <1>5, <1>6
     DEF PairingProgress, ConnectionUsable, PairSteps, ForgetSteps
<1>8. ~Active'
  BY <1>4 DEF Active, Holding, Attempting
<1>9. NoticeOnItsWay' /\ SnapshotStands'
  BY <1>4, <1>5, <1>6, <1>8 DEF NoticeOnItsWay, SnapshotStands, PairSteps
<1>10. FramesGoToPairedServer'
  BY <1>2 DEF Invariant, FramesGoToPairedServer
<1> QED
  BY <1>1, <1>2, <1>3, <1>5, <1>6, <1>7, <1>9, <1>10
     DEF Invariant, TypeOK, SvcType, CmdType, DiskType, WorldType

\* A first start, or one with an earlier pairing, satisfies the invariant.
LEMMA InitKeeps == Init => Invariant
<1> SUFFICES ASSUME Init PROVE Invariant
  OBVIOUS
<1>1. PICK url \in Servers, paired \in BOOLEAN :
        LET connection == IF paired THEN [server |-> url, ref |-> MaxCommands + 1]
                          ELSE NoConnection
        IN  /\ disk = [connection |-> connection, url |-> url, legacy |-> NoRecord,
                       keys |-> {connection.ref} \ {0}]
            /\ world = [registered |-> {connection} \ {NoConnection}, sent |-> {},
                        commands |-> 0, disturbances |-> 0]
  BY DEF Init
<1> DEFINE connection == IF paired THEN [server |-> url, ref |-> MaxCommands + 1] ELSE NoConnection
<1>2. connection \in Connections
  BY SupervisorAssumption, NoConnectionType DEF Connections
<1>3. /\ disk = [connection |-> connection, url |-> url, legacy |-> NoRecord,
                 keys |-> {connection.ref} \ {0}]
      /\ world = [registered |-> {connection} \ {NoConnection}, sent |-> {},
                  commands |-> 0, disturbances |-> 0]
  BY <1>1
<1> HIDE DEF connection
<1>4. connection.ref \in Nat
  BY <1>2 DEF Connections
<1>5. disk \in Disks /\ world \in Worlds
      /\ disk.connection \in world.registered \cup {NoConnection} /\ world.sent = {}
  BY <1>2, <1>3, <1>4 DEF Disks, Worlds, NoRecord
<1>6. sup = FreshSupervisor /\ cmd = Quiet
  BY DEF Init
<1>7. FreshSupervisor \in Supervisors /\ AttemptBudget
  BY <1>6, NoPlannerType, NoConnectionType
     DEF Supervisors, FreshSupervisor, Events, Pcs, AttemptBudget, Attempting, Spare
<1>8. sup.pc = "top" /\ sup.generation = 0
  BY <1>6 DEF FreshSupervisor
<1>9. /\ svc \in Services /\ svc.generation = 0
      /\ svc.connection # NoConnection =>
           /\ svc.connection.ref \in disk.keys /\ svc.connection = disk.connection
           /\ svc.connection \in world.registered /\ svc.agent \notin Unconfigured
  BY <1>5, InitializedKeeps DEF Init
<1>10. cmd \in Commands /\ cmd.step = "none" /\ CmdShape
  BY <1>6, QuietType DEF CmdShape, PairSteps, ForgetSteps
<1>11. PairingProgress /\ ConnectionUsable
  BY <1>5, <1>9, <1>10 DEF PairingProgress, ConnectionUsable, PairSteps, ForgetSteps
<1>12. NoticeOnItsWay /\ SnapshotStands
  BY <1>8, <1>9, <1>10 DEF NoticeOnItsWay, SnapshotStands, PairSteps, Active, Holding, Attempting
<1>13. FramesGoToPairedServer
  BY <1>5 DEF FramesGoToPairedServer
<1> QED
  BY <1>5, <1>6, <1>7, <1>9, <1>10, <1>11, <1>12, <1>13
     DEF Invariant, TypeOK, SupType, SvcType, CmdType, DiskType, WorldType

\* Every step of the specification keeps the invariant.
LEMMA StepKeeps == Invariant /\ [Next]_vars => Invariant'
<1> SUFFICES ASSUME Invariant, [Next]_vars PROVE Invariant'
  OBVIOUS
<1>1. CASE SupervisorStep \/ PeerStep
  BY <1>1, SupervisorKeeps
<1>2. CASE CommandStep
  BY <1>2, PairingKeeps, AdoptKeeps, DeleteKeyKeeps, ClearConnectionKeeps, BumpKeeps, SignalKeeps,
     RequestsKeep DEF CommandStep
<1>3. CASE UserStep
  BY <1>3, PairServerKeeps, RequestsKeep, ForgetServerKeeps DEF UserStep
<1>4. CASE UNCHANGED vars
  BY <1>4, BystanderKeeps, TypeFacts DEF vars, Told
<1> QED
  BY <1>1, <1>2, <1>3, <1>4, LegacyKeeps, RestartKeeps DEF Next

\* The invariant holds throughout, whatever the supervisor, the commands, the server and the
\* users do, in whatever order, and wherever the process is restarted.
THEOREM SupervisorInvariant == Spec => []Invariant
<1> QED
  BY InitKeeps, StepKeeps, PTL DEF Spec

\* Inventory, reports and heartbeat answers are written only to the server the service is
\* paired with, or was until a forget still under way (connection.rs, the generation checks).
THEOREM FramesTheorem == Spec => []FramesGoToPairedServer
<1>1. Invariant => FramesGoToPairedServer
  BY DEF Invariant
<1> QED
  BY <1>1, SupervisorInvariant, PTL

\* A pairing in use has its key, is the stored one and is known to its server (service.rs
\* pair_server, forget_server, initialize).
THEOREM ConnectionTheorem == Spec => []ConnectionUsable
<1>1. Invariant => ConnectionUsable
  BY DEF Invariant
<1> QED
  BY <1>1, SupervisorInvariant, PTL

\* The supervisor makes at most two attempts without a delay or a user's request between
\* them (connection.rs, retry_after and the planner's fall-back).
THEOREM HotLoopTheorem == Spec => []NoHotLoop
<1>1. Invariant => NoHotLoop
  BY DEF Invariant, AttemptBudget, NoHotLoop
<1> QED
  BY <1>1, SupervisorInvariant, PTL

\* A session of an old provider generation is told of it, or is about to be
\* (service.rs signals after the bump; connection.rs reads the controls).
THEOREM StaleSessionTheorem == Spec => []StaleSessionIsTold
<1>1. Invariant => StaleSessionIsTold
  BY DEF Invariant, NoticeOnItsWay, StaleSessionIsTold, Told, Active, Holding
<1> QED
  BY <1>1, SupervisorInvariant, PTL

=============================================================================
