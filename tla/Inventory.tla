------------------------------ MODULE Inventory ------------------------------
(***************************************************************************)
(* The desktop printer catalog: discovery passes over operating-system     *)
(* queues, manual network printers and virtual printers, the commands that *)
(* change the catalog, the copies of it kept on disk, in the agent's       *)
(* printer resolver and in the virtual spooler, and the inventory the      *)
(* session sends to the server with a revision.                            *)
(*                                                                         *)
(* A scan reads the catalog, waits for the providers without the mutation  *)
(* lock and then merges what they observed into the catalog of that later  *)
(* moment.  A command holds the lock over one await per copy it updates.   *)
(*                                                                         *)
(* Abstractions: a printer has an identifier, a connection (via, addr), a  *)
(* fingerprint, the providers that reported it, its submission mode, what  *)
(* a virtual one emulates (profile) and whether that is switched offline.  *)
(* Names, widths and the other capabilities only travel with it.  A hash   *)
(* of a fingerprint key is the key itself.  USB is never discovered, and   *)
(* observations are merged in provider order: the order by name the code   *)
(* uses differs only between printers that share no evidence.              *)
(***************************************************************************)
EXTENDS Naturals, Sequences, SequencesExt

CONSTANTS QueueCount,   \* system queue names: they are numbered in name order
          Uris,         \* device URIs a queue can print to
          Installed,    \* the queues a start can find: a URI or "none" for each queue
          Fresh,        \* names of the identifiers users' printers get
          Features,     \* the connection kinds the product is built with
          Scans,        \* refresh calls that can run at once
          Capacity,     \* room in the connection_control channel
          MaxCommands,  \* user commands
          MaxChanges    \* changes outside: queues, requests, failing writes, restarts

Queues == 1 .. QueueCount

ASSUME InventoryAssumption ==
    /\ QueueCount \in Nat /\ "none" \notin Uris /\ "old" \notin Fresh
    /\ Installed \subseteq [Queues -> Uris \cup {"none"}]
    /\ Features \subseteq {"queue", "network", "virtual"}
    /\ Capacity \in Nat \ {0} /\ {MaxCommands, MaxChanges} \subseteq Nat

VARIABLES state,     \* PersistedCatalog in memory: printers and suppressed identifiers
          disk,      \* the copy in the settings table
          resolver,  \* references the agent prints to
          spoolers,  \* identifiers registered with the virtual spooler
          revision,
          mutation,  \* the command that holds the mutation lock
          scans,     \* the snapshot each running scan started from
          link,      \* the session: notices, descriptors read, what the server stored
          world      \* visible queues with their URIs, removed identifiers, bounds

vars == <<state, disk, resolver, spoolers, revision, mutation, scans, link, world>>

Made(x) == <<"made", x>>
NoId == <<"none">>

\* The elements of s at the positions in keep, in their order.
Kept(s, keep) ==
    LET kept[n \in 0 .. Len(s)] ==
            IF n = 0 THEN <<>>
            ELSE IF n \in keep THEN Append(kept[n - 1], s[n]) ELSE kept[n - 1]
    IN  kept[Len(s)]

First(indices) == CHOOSE i \in indices : \A j \in indices : i <= j

-----------------------------------------------------------------------------
(***************************************************************************)
(* Printers, fingerprints and observations.                                *)
(***************************************************************************)
NoFingerprint == [uri |-> "none", host |-> "none", queue |-> 0]

\* PrinterFingerprint::identity_keys, strongest first.
IdentityKeys(fp) ==
    (IF fp.uri = "none" THEN <<>> ELSE <<<<"uri", fp.uri>>>>)
        \o (IF fp.host = "none" THEN <<>> ELSE <<<<"network", fp.host>>>>)
        \o (IF fp.queue = 0 THEN <<>> ELSE <<<<"queue", ToString(fp.queue)>>>>)

MergeMissing(fp, other) ==
    [uri |-> IF fp.uri = "none" THEN other.uri ELSE fp.uri,
     host |-> IF fp.host = "none" THEN other.host ELSE fp.host,
     queue |-> IF fp.queue = 0 THEN other.queue ELSE fp.queue]

FingerprintForConnection(via, addr) ==
    [NoFingerprint EXCEPT !.host = IF via = "network" THEN addr ELSE @]

\* SystemQueueProvider: no identifier yet, driver capabilities.
QueueObservation(queue, uri) ==
    [id |-> NoId, via |-> "queue", addr |-> ToString(queue), online |-> TRUE,
     fp |-> [NoFingerprint EXCEPT !.uri = uri, !.queue = queue],
     providers |-> {<<"system-queue", ToString(queue)>>}]

\* ManualNetworkProvider and VirtualPrinterProvider repeat what the snapshot holds.
ManualObservation(printer, reachable) ==
    [id |-> printer.id, via |-> "network", addr |-> printer.addr, online |-> reachable,
     fp |-> FingerprintForConnection("network", printer.addr),
     providers |-> {<<"manual-network", printer.id[2]>>}]

VirtualObservation(printer) ==
    [id |-> printer.id, via |-> "virtual", addr |-> printer.addr, online |-> ~printer.offline,
     fp |-> NoFingerprint, providers |-> {<<"virtual", printer.id[2]>>}]

DiscoveredPrinterId(observation) ==
    IF observation.id # NoId THEN observation.id
    ELSE Head(IdentityKeys(observation.fp))

ObservedKeys(observation) ==
    Range(IdentityKeys(observation.fp)) \cup {<<observation.via, observation.addr>>}

\* merge_observation: the earlier observation keeps its connection.
MergeObservation(into, from) ==
    [into EXCEPT !.fp = MergeMissing(@, from.fp),
                 !.id = IF @ = NoId THEN from.id ELSE @,
                 !.online = @ \/ from.online,
                 !.providers = @ \cup from.providers]

\* DiscoveryManager: an observation that shares a key with an earlier one joins it.
AddObservation(merged, o) ==
    LET same == {i \in 1 .. Len(merged) : ObservedKeys(merged[i]) \cap ObservedKeys(o) # {}}
    IN  IF same = {} THEN Append(merged, o)
        ELSE [merged EXCEPT ![First(same)] = MergeObservation(@, o)]

Deduplicate(observations) ==
    LET merged[n \in 0 .. Len(observations)] ==
            IF n = 0 THEN <<>> ELSE AddObservation(merged[n - 1], observations[n])
    IN  merged[Len(observations)]

\* matching_printer_index, 0 when nothing matches.
MatchingPrinterIndex(printers, id, observation) ==
    LET byId == {i \in 1..Len(printers) : printers[i].id = id}
        byEvidence == {i \in 1..Len(printers) :
                         \/ Range(IdentityKeys(printers[i].fp))
                              \cap Range(IdentityKeys(observation.fp)) # {}
                         \/ printers[i].providers \cap observation.providers # {}}
    IN  IF byId # {} THEN First(byId) ELSE IF byEvidence # {} THEN First(byEvidence) ELSE 0

\* new_printer_submission_mode: only queues start on the driver path.
NewPrinter(id, o) ==
    [id |-> id, via |-> o.via, addr |-> o.addr, fp |-> o.fp, providers |-> o.providers,
     enabled |-> TRUE, mode |-> IF o.via = "queue" THEN "driver" ELSE "raw", online |-> o.online, offline |-> FALSE,
     profile |-> IF o.via = "virtual" THEN "receipt" ELSE "none"]

Updated(printer, o) ==
    [printer EXCEPT !.via = o.via, !.addr = o.addr, !.online = o.online,
                    !.fp = MergeMissing(o.fp, @), !.providers = o.providers]

\* Mutant: a printer that is seen again starts with the default settings.
ReconcileReplacing(printers, o) ==
    LET id == DiscoveredPrinterId(o)
        i == MatchingPrinterIndex(printers, id, o)
    IN  IF i = 0 THEN Append(printers, NewPrinter(id, o))
        ELSE [printers EXCEPT ![i] = NewPrinter(printers[i].id, o)]

\* An observation updates the printer it matches or becomes a new printer.
Reconcile(printers, o) ==
    LET id == DiscoveredPrinterId(o)
        i == MatchingPrinterIndex(printers, id, o)
    IN  IF i = 0 THEN Append(printers, NewPrinter(id, o))
        ELSE [printers EXCEPT ![i] = Updated(@, o)]

ReconcileAll(printers, observations) ==
    LET reconciled[n \in 0 .. Len(observations)] ==
            IF n = 0 THEN printers ELSE Reconcile(reconciled[n - 1], observations[n])
    IN  reconciled[Len(observations)]

\* Mutant: the suppressed identifiers are not left out.
ApplyObservationsUnfiltered(catalog, observations) ==
    [catalog EXCEPT !.printers = ReconcileAll(catalog.printers, observations)]

\* The second half of refresh: queues are offline unless they were observed just now.
ApplyObservations(catalog, observations) ==
    LET faded == [i \in DOMAIN catalog.printers |->
                    [catalog.printers[i] EXCEPT !.online = @ /\ catalog.printers[i].via # "queue"]]
        wanted == {i \in DOMAIN observations :
                     DiscoveredPrinterId(observations[i]) \notin catalog.suppressed}
    IN  [catalog EXCEPT !.printers = ReconcileAll(faded, Kept(observations, wanted))]

-----------------------------------------------------------------------------
(***************************************************************************)
(* What others see of the catalog.                                         *)
(***************************************************************************)
IsActive(printer) == printer.via \in Features
Active(catalog) == {p \in Range(catalog.printers) : IsActive(p)}

\* PrinterRef
Reference(p) ==
    [id |-> p.id, via |-> p.via, addr |-> p.addr, mode |-> p.mode, profile |-> p.profile, enabled |-> p.enabled]

\* PrinterRef::validate
ValidReference(r) ==
    IF r.via = "virtual" THEN <<r.profile, r.mode>> \in {<<"receipt", "raw">>, <<"page", "driver">>}
    ELSE r.profile = "none" /\ r.mode \in {"raw", "driver"}

\* protocol_descriptors: identity, fingerprint, connection, capabilities, state.
ProtocolDescriptor(p) ==
    [id |-> p.id, via |-> p.via, addr |-> p.addr, enabled |-> p.enabled, online |-> p.online,
     fingerprint |-> IF IdentityKeys(p.fp) = <<>> THEN <<p.via, p.addr>>
                     ELSE Head(IdentityKeys(p.fp)),
     esc_pos |-> p.mode = "raw" \/ p.via = "network"]
Descriptors == {ProtocolDescriptor(p) : p \in Active(state)}

\* list and summary fail for a virtual printer the spooler does not know.
Listable(printers) == \A p \in printers : p.via = "virtual" => p.id \in spoolers

-----------------------------------------------------------------------------
(***************************************************************************)
(* Commands under the mutation lock.                                       *)
(***************************************************************************)
Free == [op |-> "none", todo |-> <<>>, next |-> [printers |-> <<>>, suppressed |-> {}],
         id |-> NoId]
CommandsLeft == world.commands < MaxCommands
ChangesLeft == world.changes < MaxChanges
Commanded == [world EXCEPT !.commands = @ + 1]
Changed == [world EXCEPT !.changes = @ + 1]

PositionOf(id) == CHOOSE i \in 1..Len(state.printers) : state.printers[i].id = id
Known == {p.id : p \in Range(state.printers)}
Unused == {x \in Fresh : x \notin world.used}

Begin(op, id, printers, suppressed, rest) ==
    /\ mutation = Free
    /\ mutation' = [op |-> op, id |-> id, todo |-> <<"persist", "publish">> \o rest,
                    next |-> [printers |-> printers, suppressed |-> suppressed]]
    /\ UNCHANGED <<state, disk, resolver, spoolers, revision, link>>

\* configure: the user renames, enables or disables a printer or, for a queue, its mode.
Configure(id, enabled, mode) ==
    /\ CommandsLeft /\ id \in Known
    /\ LET i == PositionOf(id)
       IN  /\ IsActive(state.printers[i])
           /\ mode # state.printers[i].mode => state.printers[i].via = "queue"
           /\ Begin("configure", id,
                    [state.printers EXCEPT ![i] = [@ EXCEPT !.enabled = enabled, !.mode = mode]],
                    state.suppressed, <<"resolve">>)
    /\ world' = Commanded
    /\ UNCHANGED scans

AddManual(x) ==
    /\ CommandsLeft /\ "network" \in Features /\ x \in Unused
    /\ Begin("add", Made(x),
             Append(state.printers,
                    [id |-> Made(x), via |-> "network", addr |-> "host",
                     fp |-> FingerprintForConnection("network", "host"),
                     providers |-> {<<"manual-network", x>>}, enabled |-> TRUE, mode |-> "raw",
                     online |-> FALSE, offline |-> FALSE, profile |-> "none"]),
             state.suppressed, <<"resolve">>)
    /\ world' = [Commanded EXCEPT !.used = @ \cup {x}]
    /\ UNCHANGED scans

ModeForVirtualProfile(profile) == IF profile = "receipt" THEN "raw" ELSE "driver"

\* Mutant: the new printer is not registered with the virtual spooler.
CreateVirtualUnregistered(x, profile) ==
    /\ CommandsLeft /\ "virtual" \in Features /\ x \in Unused
    /\ Begin("create", Made(x),
             Append(state.printers,
                    [id |-> Made(x), via |-> "virtual", addr |-> x, fp |-> NoFingerprint,
                     providers |-> {<<"virtual", x>>}, enabled |-> TRUE, profile |-> profile,
                     mode |-> ModeForVirtualProfile(profile), online |-> TRUE, offline |-> FALSE]),
             state.suppressed, <<"resolve">>)
    /\ world' = [Commanded EXCEPT !.used = @ \cup {x}]
    /\ UNCHANGED scans

CreateVirtual(x, profile) ==
    /\ CommandsLeft /\ "virtual" \in Features /\ x \in Unused
    /\ Begin("create", Made(x),
             Append(state.printers,
                    [id |-> Made(x), via |-> "virtual", addr |-> x, fp |-> NoFingerprint,
                     providers |-> {<<"virtual", x>>}, enabled |-> TRUE, profile |-> profile,
                     mode |-> ModeForVirtualProfile(profile), online |-> TRUE, offline |-> FALSE]),
             state.suppressed, <<"register", "resolve">>)
    /\ world' = [Commanded EXCEPT !.used = @ \cup {x}]
    /\ UNCHANGED scans

UpdateVirtual(id, offline) ==
    /\ CommandsLeft /\ "virtual" \in Features /\ id \in Known
    /\ LET i == PositionOf(id)
       IN  /\ state.printers[i].via = "virtual"
           /\ Begin("update", id,
                    [state.printers EXCEPT ![i] = [@ EXCEPT !.offline = offline,
                                                            !.online = ~offline]],
                    state.suppressed, <<"register">>)
    /\ world' = Commanded
    /\ UNCHANGED scans

\* remove: a system queue is also suppressed, so that the next scan does not bring it back.
RemovePrinter(id) ==
    /\ CommandsLeft /\ id \in Known
    /\ LET printer == state.printers[PositionOf(id)]
       IN  Begin("remove", id,
                 Kept(state.printers, {i \in DOMAIN state.printers : state.printers[i].id # id}),
                 IF printer.via = "queue" THEN state.suppressed \cup {id} ELSE state.suppressed,
                 <<"resolve">> \o (IF printer.via = "virtual" THEN <<"forget">> ELSE <<>>))
    /\ world' = [Commanded EXCEPT !.removed = @ \cup {id}]
    /\ UNCHANGED scans

\* refresh, up to the wait for the providers.
StartScan(s) ==
    /\ CommandsLeft /\ scans[s].running = FALSE
    /\ scans' = [scans EXCEPT ![s] = [running |-> TRUE, printers |-> state.printers]]
    /\ world' = Commanded
    /\ UNCHANGED <<state, disk, resolver, spoolers, revision, mutation, link>>

\* The queue query may fail as a whole; each network printer is reachable or not.
Observations(snapshot, queried, reachable) ==
    LET System == Kept([q \in Queues |-> QueueObservation(q, world.uri[q])],
                       {q \in Queues : world.uri[q] # "none"})
        Provided(via) == Kept(snapshot, {i \in DOMAIN snapshot : snapshot[i].via = via})
        Manual == Provided("network")
        Virtual == Provided("virtual")
    IN  (IF queried /\ "queue" \in Features THEN System ELSE <<>>)
        \o (IF "network" \in Features
            THEN [i \in DOMAIN Manual |-> ManualObservation(Manual[i], reachable)] ELSE <<>>)
        \o (IF "virtual" \in Features
            THEN [i \in DOMAIN Virtual |-> VirtualObservation(Virtual[i])] ELSE <<>>)

\* refresh, once the providers have answered and the mutation lock is taken.
FinishScan(s, queried, reachable) ==
    /\ scans[s].running
    /\ LET next == ApplyObservations(
                       state, Deduplicate(Observations(scans[s].printers, queried, reachable)))
       IN  Begin("refresh", NoId, next.printers, next.suppressed, <<"resolve">>)
    /\ scans' = [scans EXCEPT ![s] = [running |-> FALSE, printers |-> <<>>]]
    /\ UNCHANGED world

-----------------------------------------------------------------------------
(***************************************************************************)
(* The awaits of a command.  The last one bumps the revision and tells the *)
(* session, unless the summary the command returns cannot be built.        *)
(***************************************************************************)
Step == Head(mutation.todo)
LastStep == Len(mutation.todo) = 1

\* publish_inventory drops the notice when the channel is full.
Noticed ==
    [link EXCEPT !.notices = IF link.open /\ @ < Capacity THEN @ + 1 ELSE @]

\* Mutant: the session is not told.
AdvanceSilently(listable) ==
    /\ UNCHANGED link
    /\ IF LastStep THEN mutation' = Free /\ revision' = revision + 1
       ELSE mutation' = [mutation EXCEPT !.todo = Tail(@)] /\ UNCHANGED revision

Advance(listable) ==
    IF LastStep
    THEN /\ mutation' = Free /\ revision' = revision + 1
         /\ link' = IF listable THEN Noticed ELSE link
    ELSE mutation' = [mutation EXCEPT !.todo = Tail(@)] /\ UNCHANGED <<revision, link>>

\* Mutant: a failed write is ignored.
PersistBestEffort ==
    /\ mutation.todo # <<>> /\ Step = "persist"
    /\ mutation' = [mutation EXCEPT !.todo = Tail(@)]
    /\ \/ disk' = mutation.next /\ UNCHANGED world
       \/ ChangesLeft /\ world' = Changed /\ UNCHANGED disk
    /\ UNCHANGED <<state, resolver, spoolers, revision, scans, link>>

Persist ==
    /\ mutation.todo # <<>> /\ Step = "persist"
    /\ \/ /\ disk' = mutation.next
          /\ mutation' = [mutation EXCEPT !.todo = Tail(@)]
          /\ UNCHANGED world
       \/ /\ ChangesLeft /\ world' = Changed
          /\ mutation' = Free /\ UNCHANGED disk
    /\ UNCHANGED <<state, resolver, spoolers, revision, scans, link>>

Publish ==
    /\ mutation.todo # <<>> /\ Step = "publish"
    /\ state' = mutation.next
    /\ mutation' = [mutation EXCEPT !.todo = Tail(@)]
    /\ UNCHANGED <<disk, resolver, spoolers, revision, scans, link, world>>

Register ==
    /\ mutation.todo # <<>> /\ Step = "register"
    /\ spoolers' = spoolers \cup {mutation.id}
    /\ Advance(TRUE)
    /\ UNCHANGED <<state, disk, resolver, scans, world>>

\* One reference for a command; refresh brings every reference up to date.
Resolve ==
    /\ mutation.todo # <<>> /\ Step = "resolve"
    /\ LET touched == IF mutation.op = "refresh" THEN Range(state.printers)
                      ELSE {p \in Range(state.printers) : p.id = mutation.id}
           gone == {mutation.id} \cup {p.id : p \in touched}
       IN  /\ resolver' = {r \in resolver : r.id \notin gone}
                            \cup {Reference(p) : p \in {t \in touched : IsActive(t)}}
           /\ Advance(CASE mutation.op = "refresh" -> Listable(Active(state))
                        [] mutation.op = "remove" -> TRUE
                        [] OTHER -> Listable(touched))
    /\ UNCHANGED <<state, disk, spoolers, scans, world>>

Forget ==
    /\ mutation.todo # <<>> /\ Step = "forget"
    /\ spoolers' = spoolers \ {mutation.id}
    /\ Advance(TRUE)
    /\ UNCHANGED <<state, disk, resolver, scans, world>>

-----------------------------------------------------------------------------
(***************************************************************************)
(* The session sends the inventory after the hello, on a notice and on     *)
(* request: send_inventory reads the descriptors and then the revision.    *)
(***************************************************************************)
NoInventory == [revision |-> 0, printers |-> {}]
Closed == [open |-> FALSE, due |-> FALSE, notices |-> 0, reading |-> FALSE, read |-> {},
           server |-> NoInventory, refused |-> FALSE]

OpenSession ==
    /\ ~link.open
    /\ link' = [Closed EXCEPT !.open = TRUE, !.due = TRUE]
    /\ UNCHANGED <<state, disk, resolver, spoolers, revision, mutation, scans, world>>

RequestInventory ==
    /\ link.open /\ ~link.due /\ ~link.reading /\ ChangesLeft
    /\ link' = [link EXCEPT !.due = TRUE]
    /\ world' = Changed
    /\ UNCHANGED <<state, disk, resolver, spoolers, revision, mutation, scans>>

ReadDescriptors ==
    /\ link.open /\ ~link.reading
    /\ \/ link.due /\ link' = [link EXCEPT !.due = FALSE, !.reading = TRUE, !.read = Descriptors]
       \/ /\ link.notices > 0 /\ ~link.due
          /\ link' = [link EXCEPT !.notices = @ - 1, !.reading = TRUE, !.read = Descriptors]
    /\ UNCHANGED <<state, disk, resolver, spoolers, revision, mutation, scans, world>>

\* The server refuses a revision that goes back and a change under an unchanged revision;
\* it then disconnects the agent for good.
Accepts(server, printers) ==
    \/ revision > server.revision
    \/ revision = server.revision /\ printers = server.printers

SendInventory ==
    /\ link.open /\ link.reading
    /\ link' = IF Accepts(link.server, link.read)
               THEN [link EXCEPT !.reading = FALSE, !.read = {},
                                 !.server = [revision |-> revision, printers |-> link.read]]
               ELSE [Closed EXCEPT !.refused = TRUE]
    /\ UNCHANGED <<state, disk, resolver, spoolers, revision, mutation, scans, world>>

-----------------------------------------------------------------------------
(***************************************************************************)
(* The machine and the process.                                            *)
(***************************************************************************)
ChangeQueue(q, uri) ==
    /\ ChangesLeft /\ world.uri[q] # uri
    /\ world' = [Changed EXCEPT !.uri[q] = uri]
    /\ UNCHANGED <<state, disk, resolver, spoolers, revision, mutation, scans, link>>

Idle == [s \in Scans |-> [running |-> FALSE, printers |-> <<>>]]

\* PrinterCatalog::load refuses a stored catalog with a duplicate or invalid printer.
Loadable(catalog) ==
    /\ \A i, j \in DOMAIN catalog.printers :
         catalog.printers[i].id = catalog.printers[j].id => i = j
    /\ \A p \in Range(catalog.printers) : ValidReference(Reference(p))

Loaded(catalog) ==
    /\ Loadable(catalog)
    /\ state' = catalog
    /\ resolver' = {Reference(p) : p \in Active(catalog)}
    /\ spoolers' = {p.id : p \in {a \in Active(catalog) : a.via = "virtual"}}
    /\ revision' = 1

Restart ==
    /\ ChangesLeft /\ world' = Changed
    /\ Loaded(disk)
    /\ mutation' = Free /\ scans' = Idle /\ link' = Closed
    /\ UNCHANGED disk

\* migrate_legacy_printer_config: rows written before submission modes and profiles.
Migrated(p) ==
    LET mode == IF p.mode # "absent" THEN p.mode ELSE IF p.via = "queue" THEN "driver" ELSE "raw"
    IN  [p EXCEPT !.mode = mode,
                  !.profile = IF p.via # "virtual" \/ @ # "absent" THEN @
                              ELSE IF mode = "driver" THEN "page" ELSE "receipt"]

LegacyRow(o) == [NewPrinter(DiscoveredPrinterId(o), o) EXCEPT
    !.mode = "absent", !.profile = IF o.via = "virtual" THEN "absent" ELSE "none"]

\* A first start, or the first start after an update from a version without modes.
OldPrinter(addr) == [id |-> Made("old"), addr |-> addr, offline |-> FALSE]
StoredCatalogs ==
    {<<>>, <<LegacyRow(VirtualObservation(OldPrinter("old")))>>,
     <<LegacyRow(ManualObservation(OldPrinter("host"), TRUE))>>}
        \cup {<<LegacyRow(QueueObservation(q, u))>> : q \in Queues, u \in Uris}

Init ==
    /\ \E rows \in StoredCatalogs :
         /\ state = [printers |-> [i \in DOMAIN rows |-> Migrated(rows[i])], suppressed |-> {}]
         /\ disk = state
    /\ resolver = {Reference(p) : p \in Active(state)}
    /\ spoolers = {p.id : p \in {a \in Active(state) : a.via = "virtual"}}
    /\ revision = 1
    /\ mutation = Free /\ scans = Idle /\ link = Closed
    /\ \E uri \in Installed :
         world = [uri |-> uri, removed |-> {}, used |-> {}, commands |-> 0, changes |-> 0]

Command ==
    \/ \E id \in Known, enabled \in BOOLEAN, mode \in {"raw", "driver"} : Configure(id, enabled, mode)
    \/ \E x \in Fresh : AddManual(x)
    \/ \E x \in Fresh, profile \in {"receipt", "page"} : CreateVirtual(x, profile)
    \/ \E id \in Known, offline \in BOOLEAN : UpdateVirtual(id, offline)
    \/ \E id \in Known : RemovePrinter(id)
    \/ \E s \in Scans : StartScan(s)

Progress ==
    \/ \E s \in Scans, queried, reachable \in BOOLEAN : FinishScan(s, queried, reachable)
    \/ Persist \/ Publish \/ Register \/ Resolve \/ Forget
    \/ ReadDescriptors \/ SendInventory

Environment ==
    \/ OpenSession \/ RequestInventory \/ Restart
    \/ \E q \in Queues, uri \in Uris \cup {"none"} : ChangeQueue(q, uri)

Next == Command \/ Progress \/ Environment

Spec == Init /\ [][Next]_vars

-----------------------------------------------------------------------------
(***************************************************************************)
(* What must hold.                                                         *)
(***************************************************************************)
\* Between two commands, whichever write failed: the agent prints to exactly the active
\* printers of the catalog, the stored catalog is the current one, and load would accept
\* it, which refuses to start the application on a duplicate or an invalid printer.
CopiesAgree ==
    mutation = Free =>
        /\ disk = state /\ Loadable(disk)
        /\ resolver = {Reference(p) : p \in Active(state)}

\* A removed system queue does not come back under its identifier, also when a scan that
\* saw it was already running.
SuppressedStaysOut == {p.id : p \in Range(state.printers)} \cap state.suppressed = {}

\* The list of printers can be shown: every virtual printer is registered with the
\* virtual spooler, except one a scan brought back after its removal.
ListingWorks ==
    mutation = Free =>
        \A p \in Active(state) : p.via = "virtual" => p.id \in spoolers \cup world.removed

\* When nothing is under way, an open session has told the server the current inventory:
\* a notice dropped by the full channel, or an inventory read before a change, is always
\* followed by another one.  (A printer brought back makes refresh fail before it tells.)
ServerIsCurrent ==
    (/\ link.open /\ ~link.due /\ ~link.reading /\ link.notices = 0
     /\ mutation = Free /\ world.removed \cap {p.id : p \in Range(state.printers)} = {})
        => link.server = [revision |-> revision, printers |-> Descriptors]

\* A scan leaves what the user chose for a printer alone: only configuring it changes its
\* mode or whether it is enabled, as long as it is in the catalog.
ScanKeepsChoices ==
    [][\A p \in Range(state.printers), q \in Range(state'.printers) :
          p.id = q.id /\ mutation.op # "configure"
              => <<p.enabled, p.mode, p.profile>> = <<q.enabled, q.mode, q.profile>>]_vars

\* The server accepts every inventory it is sent.
InventoryAccepted == ~link.refused

=============================================================================
