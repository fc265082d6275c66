# OPPA verification project

TLA+ models of OPPA, the local print agent, and of the gateway side of its
protocol (`packages/server`), checked with TLC on small instances and, where the
argument is worth having for every instance, proved with TLAPS.

A server hands print jobs to an agent over a WebSocket. The agent stores each
job, acknowledges it, prints it at most once per attempt and reports the
outcome. Deliveries may be repeated, connections drop, the process dies between
any two steps and a printer does not say what it has already put on paper. The
models ask what of "stored, printed, reported" survives that.

## 1. Inventory

### Agent side (Rust)

| Component | State | Operations | Interacts with |
| --- | --- | --- | --- |
| `oppa-storage` job tables (`lib.rs`, migrations 1 and 3) | `print_jobs`, `outbound_status_outbox` | `insert_received`, `mark_submitting/submitted/failed/cancelled`, `recover_interrupted`, `pending`, `pending_outbound_statuses`, `acknowledge_outbound_status`, retention, opening | one SQL transaction per call under one connection mutex; called by the processor, the runtime and the start-up code |
| `oppa-storage` settings, bindings, connection metadata, diagnostics | key/value and singleton rows | upserts and reads | desktop service, catalog, ledger |
| `oppa-agent` processor (`processor.rs`) | the active map with cancellation tokens, the drain lock | `receive_print_job`, `process_pending`, `submit`, `cancel_job`, `pending_receipts` | store, renderer, document source, spooler |
| `oppa-agent` runtime (`runtime.rs`) | the flow lock and the outbox lock | `handle_print_job`, `process_pending`, `recover`, `replay_outbound_reports`, `report_outcomes` | processor; `AgentReporter` given by the host |
| `oppa-core` | none | `JobState`, `AgentState`, identifiers, error categories | everyone |
| `oppa-spooler` | history and simulation of a virtual printer | registry; raw TCP, CUPS, Windows and virtual submission; PDF rasterising | printers, `lp`, the Windows spooler |
| `oppa-windows-print` | a device context | start/end document and pages | GDI |
| `oppa-renderer` | none | document to layout, ESC/POS and raster; ESC/POS back to a layout; PDF pages | processor, spoolers |
| `oppa-documents` | none | authenticated fetch with size, type and digest checks | processor |
| `oppa-discovery` | none between passes | three providers, merging of observations | catalog |
| `oppa-protocol` | handshake planner | validation, codec, version negotiation and fallback | transport, supervisor |
| `oppa-transport` | socket, heartbeat deadline, back-off | connect, authenticate, read, write, next delay | supervisor |
| `oppa-auth` | key pairs in the credential store | pairing, rotation, signing | desktop service |
| desktop connection supervisor (`connection.rs`) | session, retry timer, planner, outbound channel | command, retry, message, report, inventory | runtime (spawned tasks), transport, ledger, catalog |
| desktop service (`service.rs`) | pairing, server URL, provider generation, the `provider_operation` lock, the control channel | initialise, pair, forget, change the server, reconnect, shut down, printer commands | all of the above |
| desktop job ledger (`job_ledger.rs`) | list of job summaries, stored as one setting | apply event, merge delivery, persist | supervisor, user interface |
| desktop printer catalog (`printer_catalog.rs`) | printers, suppressed identifiers, revision; copies on disk, in the resolver and in the virtual spooler | load, refresh, configure, add, create, update, remove | discovery, supervisor, virtual spooler |
| desktop virtual spooler, documents, server configuration | a device per virtual printer, the document identity, the server URL | register, remove, submit, clear, fetch | processor, service |

### Gateway side (TypeScript)

| Component | State | Operations |
| --- | --- | --- |
| `packages/server` session (`session.ts`) | state, identity, hello, timers, two promise chains, pending heartbeats, inventory | `receive`, `send` and its wrappers, `disconnect`, `transportClosed`, four timers, host callbacks |
| `packages/server` server, storage, documents | pairing grants, credentials, document tokens | create and redeem pairings, find and revoke credentials |
| `packages/protocol`, `packages/sdk` | none | schemas, codecs, HTTP client |

### What is hard here

* **Interleaving.** Every print job, cancellation and completed handshake is a
  task of its own on the agent; they meet at three locks and at the store. On the
  gateway `disconnect()`, `send()` and the heartbeat timers run beside the
  processing chain and resume after awaits in states they did not leave.
* **Crash and restart** between acceptance by the printer, the durable outcome,
  the report and its acknowledgement.
* **Unreliable delivery.** A job is delivered again, under the same or another
  identity; a receipt is lost with its connection.
* **Partial failure.** A transaction fails after the printer has the bytes; one
  report of several fails; a farewell cannot be written.
* **Limits.** Queue limit, retention with cascade, replay in pages.
* **Timers** that fire while the event they wait for is being handled.
* **Stale state.** A drain works on a snapshot of rows; a handshake planner
  outlives the server it was made for; a session outlives the pairing it was
  opened for; a scan applies what it saw before a command changed the catalog; an
  inventory is read in two awaits.
* **Two channels and a lock.** The supervisor reads a bounded channel that the
  commands write while they hold the lock the supervisor waits for.
* **Two tables that must agree.** What the processor prepares and what a backend
  admits; what the encoder writes and what the interpreter reads; the height a
  page reserves and the height it draws.

`PROJECT.json` lists each of these as a hazard at the line where it bites, with
the property that watches it or the reason there is none.

## 2. Modules

| Module | Models | Uses |
| --- | --- | --- |
| `PrintLifecycle` | the promise about one job: its phases, and the report owed for it | |
| `JobStore` | the two tables of `oppa-storage` | `PrintLifecycle` as refinement target |
| `AgentRuntime` | `processor.rs` and `runtime.rs` over `JobStore`, with the spawned tasks of `connection.rs` and the start-up of `service.rs` that drive them | EXTENDS `JobStore` |
| `RuntimeWork` | what a handler that ended with an error leaves behind, and what becomes of accepted work | EXTENDS `AgentRuntime` |
| `ServerSession` | one gateway session, `session.ts` | |
| `Handshake` | version selection and fallback, retryable transport errors, agent states | |
| `Supervisor` | the reconnect loop of `connection.rs`, the pairing and provider commands of `service.rs` | EXTENDS `Handshake` |
| `Inventory` | `printer_catalog.rs`, discovery, the sending of the inventory and its acceptance by the session | |
| `PdfPages` | print settings, page selection and page geometry of PDF jobs | |
| `Printing` | preparation of a job, the spoolers and their backends, the outcome | EXTENDS `PdfPages` |
| `Receipt` | the receipt renderer: layout, ESC/POS encoder and interpreter, pages | |
| `MC...` | instances for TLC | |
| `Lists` | the total of a list of lengths | EXTENDED by `PdfPages` and `Receipt` |
| `AgentRuntime_proofs`, `ServerSession_proofs`, `Supervisor_proofs`, `Inventory_proofs`, `Printing_proofs`, `Receipt_proofs` | theorems | EXTEND the component; `AgentRuntime_proofs` has those about `JobStore` too |
| `Lists_proofs` | induction over positions and over sequences, totals, joined lists | EXTENDED by the proofs about lists |

### JobStore

A job id maps to its row or to `NoRow`. Every public operation of
`SqliteStorage` runs one transaction under the connection mutex and is one
action; `Open` is the maintenance on opening followed by the recovery the
desktop service runs before anything else. Payloads are model values; their
SHA-256 is represented by the payload itself, so the hash is taken to be free of
collisions. `clock` is what `now_millis` would return, and it may step back.
`inserts` is auxiliary: it numbers the generations of a row, and stands for the
fresh message id of a status. Bounds: `MaxTime`, `MaxInserts`, `MaxRecoveries`.

### AgentRuntime

One record per spawned task holds its program counter and locals; a step of a
task is the code between two awaits at which another task could matter: taking a
lock, a transaction, a report, the spooler. `drain_lock` is only taken under
`flow_lock` and is not a variable. `Spool` gives every result the raw TCP backend
can give: accepted, failed or cancelled, the last two with or without the bytes
having crossed. A drain decides
whether a failure is uncertain by the recovery counts it read with its list
(`seen`), as the code does. `crossed`, `interrupted`, `acked` and `reported` are
auxiliary history; `interrupted` counts the attempts that were cut off after the
document went out. `Hello`
completes a handshake and owes a recovery task; `Drop`, `RejectReport`,
`StorageFault` and `Restart` are the failures, each drawing on `budget`. A report
is complete when the transport has taken the frame. What happens inside a
submission is `Printing`.

`RuntimeWork` adds the history variable `left`: the jobs that were pending, or had
a status to send, when a handler of a session that stays up ended with an error
(the `?` after `process_pending`, `report_outcomes` and
`replay_outbound_reports`). Nothing comes back to them by itself: recovery and
replay are spawned by a handshake only, and a drain by a delivery or a recovery.

### ServerSession

JavaScript switches only at an await, so a thread is idle or suspended in one of
a few awaits, and an action is the code from one await to the next. `Queue` is
the chain `#processing`; the members of `Calls` are the calls that do not go
through it. `outbound` is the chain `#outbound`. Timers are a set of armed
timers, any of which may fire at any moment. Frames are reduced to how the
session classifies them, so that the codec, the signature check, the version
selection and the inventory's revision checks become "accepted" or "refused".
`connects` and `disconnects` count the host's two lifecycle callbacks, `goodbye`
records that `server.disconnect` was handed over.

### Supervisor and Handshake

`sup` holds the locals of `run_connection_supervisor` and its program counter,
`svc` the shared fields of `DesktopService` with the control channel and the
queue of reports, `cmd` the command that holds `provider_operation` (`pair_server`,
`forget_server`, `apply_server_configuration`), await by await, `disk` the
settings and the credential store, `world` what the servers know. An await of the
lock and the code under it are one step, enabled while no command holds the lock.
The `select!` of a session chooses an event in one step (`ReceiveMessage`,
`ReceiveFails`, `ReceiveReport`, `SessionControl`, `HelloTimeout`) and handles it
in another, so that a command can get the lock in between, which is what the
generation check is there for. Every step of pairing and forgetting can fail, and
`Restart` may come anywhere, with a credential store that can or cannot be read.
`world.sent` records which server a frame reached and which server the service
was paired with at that moment; `sup.free` counts the attempts since the last
delay. `Handshake` holds the rules without state: the planner and its record, the
selection, `is_retryable`, and the legal transitions of the agent state.

### Inventory

`state` is the catalog in memory; `disk`, `resolver` and `spoolers` are its
copies. A command takes the mutation lock and walks through the copies in the
code's order (persist, publish, register, resolve, advance the revision), one
await per step, and stops at a failing write. A scan takes a snapshot of the
catalog when it starts, waits for the providers without the lock, and merges what
they saw into the catalog it finds afterwards (`Reconcile`). Identity is the
evidence the code uses: identity keys by strength, merged fingerprints, derived
identifiers. The operating system's queues appear, vanish and change their device
(`ChangeQueue`, external). `link` is the session's side: notices in the channel,
the two awaits of `send_inventory`, and the inventory the server stored;
`Accepts` is the revision check of `session.ts`. `Init` starts from an empty, a
stored or a migrated catalog.

### Printing and PdfPages

One submission at a time, as the flow lock has it, from `process_stored_job` or a
local test to the recorded outcome: printer, render target or PDF route, document
retrieval with its length and digest, claim, admission by the spooler, the
backend. Beside it run the `lp` process, the network printer, the Windows print
worker, which lives on in `detached` after a submission stopped waiting for it,
cancellations, and the user who changes, clears or removes the virtual printer.
`handed` says how much of the document a backend was given: the socket, the
scheduler, the print spooler or the driver. What a printer then makes of it the
agent does not know, and the model does not claim; a raw TCP success means that
the kernel took every byte. A failing `lp`, a failing write and a rejection by the
Windows spooler may come when nothing, a part or all has been handed over.
The module is about a first attempt, never a recovered one; the other kind is
`FailureIsHonest` of `AgentRuntime`.
`WorkerStep` is the print sequence of `oppa-windows-print` with a failure at every
stage. `PdfPages` computes what is drawn: the selection of pages, the paper in
pixels, scaling and the limits; floating point products are exact fractions.

### Receipt

A document goes through `Validate`, `FromDocument`, `Encode`, `Interpret` and
`Draw`, one element or token per step, for three targets: the preview of a virtual
receipt printer, a virtual page printer, and a driver page. A word is its origin,
its width in columns, the number of characters in each column (more than one with
combining marks), whether it is printable and whether it is made of dashes. A cell
of a row is a sequence of words, runs of spaces and tabs, and goes into the stream
as it stands when the row fits, so that the interpreter, which splits a line at
its last run of two spaces or more, may find another gap than the encoder's. A line
of as many dashes as the paper has columns is read as a divider, whatever it was
written as; a control character passes `require_ascii` and stops the interpreter.
Wrapping counts columns, drawing counts characters. Lengths in the stream keep
their two bytes; a drawn element is the rectangle it covers. Spaces inside a row
that was read back are not kept, since what is done with it wraps it; characters
two columns wide, and ESC, GS or a line end inside a word, are left out. The kinds of sections are those of `PrintSection`, with what the
external decoders and code libraries make of a value as part of the section: the
size of an image, the modules of a code (0: the library refuses the value). The
one fact assumed of a library is `DigitsEncoded`: what it encodes as EAN or UPC
has at most 13 digits.

## 3. Runs

Passing runs (two workers, each below five minutes; distinct states in brackets):

| Run | Instance | What it shows |
| --- | --- | --- |
| `store_tables` (0.6 M) | 3 jobs, the third also under the first one's key, queue limit 2, retention 2, two clock values, one recovery | The tables are well typed, keys stay unique, claims are explained by recoveries, a pending row keeps its payload, both limits hold, the outbox agrees with the rows, eviction takes the oldest, and the whole implements `PrintLifecycle`. |
| `runtime_faults` (0.7 M) | 2 jobs, 2 tasks; 2 deliveries and any two of a cancellation, a connection loss, a crash and a failing transaction | The row and the active map agree while a backend works; no outcome is lost; every copy beyond the first is paid for by a counted recovery; no plain failure is reported of a job of which an interrupted attempt handed a copy to a backend. |
| `runtime_eviction` (2.2 M) | retention 1, pages of 1, deliveries that conflict in key or contents, a clock that steps | A receipt names what is stored; the gateway never hears an outcome that was not committed or two outcomes of one stored job. |
| `runtime_live` (0.1 M) | a row this build cannot parse in the queue, pages of one row; one of a cancellation, a connection loss, a crash and a failing transaction, or a cancellation and a connection loss | Every received job settles and every status leaves the outbox, except what a handler that failed leaves behind in a session after which no drain and no other session comes. |
| `session` (0.6 M) | 2 concurrent calls, 3 frames of every class, 1 `disconnect()`, 1 `send()`, under fairness | The host's registry is right, nothing is sent after the farewell, and a session that asked for its transport to be closed ends for good and is reported. |
| `supervisor` (2.0 M) | a server of both versions and a base-only one, 2 commands, 1 failure, restart, report or shutdown | Frames reach only the server the service is paired with; a pairing in use has its key, its stored record and its server's agreement; no more than two attempts without a delay; a session of an older generation is told. |
| `inventory` (1.9 M) | 2 queues on one device or one yet to come, 1 fresh printer, 1 scan, 2 commands, 2 changes outside | The copies agree between commands; a removed queue stays out; the list can be shown; the server holds the current inventory once nothing is under way; a scan keeps the user's choices. |
| `receipt` (0.14 M) | every document of up to 2 of 31 sections, both widths, every target, pages from 72 DPI | The interpreter reads back the words, feeds, codes, images and styles that were encoded, or stops where the property says; a preview never overflows its estimate; what a page shows is whole, with the exceptions below. |
| `printing` (1.0 M) | 7 printers, 7 documents, both systems, 2 submissions, 1 command of the user | Routes agree with admission; a success was handed over whole, and anything handed over without success is recorded as a cancellation, a timeout, a lost connection or a rejection of a real backend; the driver is released; the pages are those asked for, once per copy; the history's accounting is right; every submission ends. |

Runs that refute what the repository says:

| Run | Statement | What happens |
| --- | --- | --- |
| `shutdown` | `agent-lifecycle.mdx`: "Shutdown stops new delivery, ... then releases resources" | A command that waits for room in the full control channel holds `provider_operation`; the supervisor, the only reader, waits for that lock; `shutdown` waits for room as well. The channel is scaled to one place; with eight, seven more notices have to be queued. |
| `inventory_torn` | `session.ts`: "The printer inventory changed without advancing its revision." | The agent advanced it, but sent the old printers under the new revision: `send_inventory` reads the two in separate awaits. The next notice is then a protocol violation, answered with `reconnect: false`. |
| `print_certainty` | `idempotency.mdx:41`: where a backend cannot prove whether a write crossed its irreversible boundary, "the agent records an explicit uncertain failure" | A raw TCP write whose deadline passes with part of the document in the socket is recorded as the plain, retryable `spooler.failed` (`processor.rs:1165`); only a recovered job is ever called uncertain. |

**Further observations** made while modelling, which no run states any more or
which no document contradicts:

* `oppa-agent/README.md:67` says recovery re-sends receipts "before claiming any
  of them"; recovery is spawned (`connection.rs:728`), and a delivery that arrives
  first drains the queue.
* `job-delivery.mdx:63` says a cancellation means the job "stopped before an
  irreversible submission boundary"; a real backend that is cancelled while bytes
  are on their way reports the job cancelled. `HonestOutcome` states what is kept:
  a cancellation, a timeout, a lost connection or a rejection by a real backend
  leaves open what was handed over, and nothing else does.
* `processor.rs:567` says "Processes every currently received job"; a cancellation
  that overtakes the write of a preparation failure ends the drain (`:666`), and
  the jobs behind it wait for another delivery or for the recovery of another
  session, which need not come. `WorkSettles` and `OutboxDrains` name this case:
  without the exception both fail.
* The handshake timer of `session.ts:401` is queued behind a hello that is already
  waiting and then closes the connected session as one that "did not send
  agent.hello before the timeout".
* `types.ts:329` calls `onAgentConnected` "negotiated and ready for commands";
  `disconnect()` during the write of the hello closes the transport first, and
  `session.ts:518` announces the session afterwards.
* A virtual printer that is removed while a scan runs is brought back by the scan
  without being registered with the virtual spooler; listing and refreshing the
  printers then fail until it is removed again. `ListingWorks` and
  `ServerIsCurrent` except it.
* The planner of one server survives a change to another (`connection.rs:386`).
* A QR value may have 4096 characters, the interpreter takes 4096 bytes: a longer
  encoding prints on a real printer and is refused by a virtual one.
* Three marks on a receipt are not bounded by its width. Text with combining marks
  is wrapped by its columns and drawn with a glyph for each character; a QR code of
  version 40 on a page of 72 DPI has more modules than the strip has pixels and is
  drawn one pixel wide each; the human-readable line of a Code 128 or Code 39 value
  is drawn at a fixed glyph size, neither wrapped nor measured. `DrawnWhole` names
  all three.
* A row that fits is written with its cells as they stand. With a run of two spaces
  inside the right cell the interpreter splits there, and a virtual printer shows
  part of the right column on the left; with nothing but spaces in the left cell,
  the row is read as a text. `ContentSurvives` promises the columns only for cells
  whose words are separated by single spaces. A text of exactly as many dashes as
  the paper has columns is shown as a divider.
* `require_ascii` accepts tabs and other control characters. A real printer gets
  them; the interpreter stops there, so the preview of a virtual printer ends
  before the line and a driver page is refused. `ReadWhole` names the case.
* `server.disconnect` may name a delay of zero, which the supervisor honours.

**Why the bounds are enough.** Two jobs are the least at which a drain has a job
behind the one that fails, a retention has a choice, and a key can be reused;
three are used where eviction order is checked. Two tasks are the least at which
a delivery and a recovery overlap; the locks admit no more than one holder, and a
third task could only wait. One of each failure is enough to meet every step of
every task, since the failure may come at any step; combinations of two different
failures are covered by `runtime_faults`. Two clock values give equal, later and
earlier timestamps. For the session, three frames are response, hello and one
more; two calls are the least at which a closer, a sender and the chain overlap.
For the supervisor, two servers and two commands are the least at which a session
outlives a forget and a new pairing; three places in the channel hold what two
commands and one disturbance send, so that the passing run asks its question apart
from the deadlock, which has a run of its own with one place. For the catalog, two
queues on one device are the least with shared evidence, and two commands during
one scan the least at which the scan is stale twice; a second scan would repeat
the first's steps under the mutation lock. The documents and printers of `printing` and the sections
of `receipt` stand at the limits of the code, each named in the MC module; two
submissions are the least at which a detached worker and the next job overlap or
a history evicts; two sections the least at which a style, a gap or a page's rest
carries over. Symmetry is used for tasks and for calls, which no definition tells
apart, and only in runs without liveness. Deadlock checking is off where the
bounds or the system let a behaviour end: a closed session, a finished supervisor,
a drawn page, a used-up number of commands.

**Fairness.** `AgentRuntime`: strong fairness for each task, because tokio runs
tasks that are ready and its mutexes hand over in FIFO order, and for the start of
a recovery that was spawned; weak fairness for `Hello`, because the connection
actor keeps retrying and, which is an assumption about the outside, some attempt
succeeds: the server stays reachable often enough and accepts the device; and weak
fairness for a cancellation that holds the lock. `ServerSession`: the event loop runs what
is ready, timers fire, writes, closes and callbacks are bounded by the session's
own deadlines, and a host reports the end of a transport it was asked to close.
`Supervisor`: weak fairness for commands, strong fairness for the supervisor,
which competes for a FIFO lock, and for the control branch of each wait, since
`select!` picks at random among ready branches. `Printing`: weak fairness for the
agent's own task and for its timers, none for `lp`, the driver, the network or the
document server: `SubmissionEnds` holds by the deadlines alone. Nothing else is assumed of servers, peers, users, crashes, or the host's credential store, for which the
session has no deadline.

## 4. Proofs

The theorems hold for every value of the constants that satisfies the named
assumption of the component's module: finite sets where something is counted,
positive limits, an initial queue within its limit, a reserved name that is not
one of the values it is used beside. Each property follows from an inductive
invariant, proved as `Init => Invariant` and `Invariant /\ [Next]_vars =>
Invariant'` with a lemma for each action; the last step of a theorem combines them
by temporal logic. The invariants were run through TLC on the instances of
section 3 before they were proved.

### The store and the job flow

* The store (first part of `AgentRuntime_proofs`): `StoreInvariant` is the conjunction of typing, unique keys,
  claim accounting, payload retention and outbox integrity. The outbox part needs
  the others: that no row has two statuses follows from a terminal row not being
  finished again, and that an evicted row takes its status along from the cascade.
  Each transaction is a lemma on the row function it installs (transition,
  recovery, retention). `StoreTypeCorrect`, `KeysAlwaysUnique`,
  `ClaimsAlwaysAccounted`, `PayloadAlwaysKept` and `OutboxAlwaysMatches` follow.
  From the same invariant come `TerminalStatesAreFinal`, and
  `StoreImplementsLifecycle`: each transaction is a step of `PrintLifecycle` or
  leaves it unchanged.
* Its bounds: `HistoryIsBounded`, `QueueIsBounded` and `EvictionTheorem`.
  The first is a counting argument: retention evicts the candidates of rank below
  the excess, and a finite linearly ordered set has exactly that many of them; the
  row just finished is not a candidate, which is harmless because the limit is
  positive. The third uses that the rank of an older candidate is smaller.
* The tasks (second part): `TaskOK` says what a task relies on at each of its
  labels: the row it claimed is `submitting`, its entry is in the active map, the
  receipt it is about to send is backed by the store. Every label at which it
  relies on a row lies under `flow_lock`, so a step of another task either cannot
  happen or leaves the rows alone; `cancel_job`, which writes rows without that
  lock, is kept off claimed rows by the active map and its mutex. `BooksOK` adds
  what the rows say of copies, outcomes and reports. Together with
  `StoreInvariant` they are inductive, and `ActiveMatchesClaims`, `NoStatusLost`,
  `CopiesExplained`, `FailureIsHonest`, `ReceiptNamesStoredJob` and
  `ReportsAreCommitted` follow for any number of tasks, jobs, crashes and faults.
  `RuntimeTransacts` shows that every step of the agent is a transaction of the
  store or leaves the tables alone. The store's own step lemmas are stated for a
  transaction, not for `JobStore`'s next-state relation, so that they carry over:
  `RuntimeLifecycle`, `RuntimeFinal`, `RuntimeQueue`, `RuntimeHistory` and
  `RuntimeEviction` state of the whole agent what was proved of the tables.

### The gateway session

`SessionInvariant` is inductive for any number of concurrent calls and frames;
`RegistryAlwaysMatches` follows. Most steps are *tame*: they leave the callbacks
alone, take the session no further than closing, and suspend a thread inside the
handshake only on the processing chain and before the hello. The three that are
not (`AcceptanceSent`, `HelloSent`, `Finalize`) are treated one by one. The
conjunct on handshake frames is what the code relies on without stating it: a
resumed handshake step may overwrite `closed`, but only in a session that has made
neither callback yet. `FarewellTheorem` (`NothingFollowsGoodbye`) is a second
invariant over the first: once the farewell is on the chain `#outbound`, whatever a
sender queues behind it meets a session that is closing when its turn comes.

### The supervisor

The supervisor and the commands share `svc`, and each of them is suspended while
the other runs. The invariant says, for every step at which one is suspended, what
the other may have done meanwhile. `FramesTheorem` (`FramesGoToPairedServer`): a
session's snapshot of the pairing is the pairing in use until the generation moves
on. `ConnectionTheorem` (`ConnectionUsable`): what each step of a command has
already stored or taken out of use. `HotLoopTheorem` (`NoHotLoop`): the second
attempt without a delay is paid for by the planner's single fall-back.
`StaleSessionTheorem` (`StaleSessionIsTold`): between the moment the generation
moves on and the moment its notice is in the channel, a command holds the lock
that the session needs for its next message.

### The printer catalog

A scan is made of functions over sequences: filtering (`Kept`), merging
(`Deduplicate`) and reconciliation (`ReconcileAll`). They are recursive functions
over positions, and what is needed of them is shown by induction: a non-empty set
of naturals has a least element, hence a set with zero and every successor holds
all of them (`EveryNatural`), applied to the set of positions up to which a claim
holds. `KeptProperties` (what is kept, and in which order), `DeduplicateOK` (a
merged observation keeps its kind, and an identifier comes from an observation)
and `ReconcileAllOK` (printers keep their places, identifiers, kinds and the
user's choices; whatever is added was observed) are the results;
`SharedEvidence` says why evidence is never shared across connection kinds.

The inductive invariant has five parts. `Typed`: every list of printers is well
formed, with unique identifiers and none suppressed. `Identified`: an identifier
stands for one connection kind wherever it is found, also in the snapshot of a
scan that is still running; without it a scan could turn a printer into another
under the same identifier, since a snapshot may be older than any number of
commands. `Copies`: which of `disk`, `resolver`, `mutation.next` agree with
`state`, by the awaits the command still has before it, and what the prepared list
has to do with the current one (`Prepared`). `Listed`: every virtual printer in
the catalog, the prepared list or a snapshot is registered, or about to be, or was
removed at some time. `Told`: an open session has an inventory or a notice before
it, or a command is past its publication and will tell it, or what the session
read or sent last is current. The theorems are `CopiesTheorem`,
`SuppressedTheorem`, `ListingTheorem`, `CurrentTheorem` and `ChoicesTheorem`
(`ScanKeepsChoices`, an action property: the catalog changes only when a command
publishes what it prepared and when a restart loads the stored one, and both keep
the choices unless the command is a configuration).

### A submission

`PrintingInvariant`: what the preparation established still holds at the
backend; what is on the paper agrees with the submission's place in the
backend; the calls to the driver come in their order in every print worker, also
in those that outlive their submission; and the retained bytes of the virtual
printer are the sum over its history. `RoutesTheorem`, `OutcomeTheorem`,
`DriverTheorem` and `HistoryTheorem` follow. The selection of pages and the sum
over the history are recursive functions and use the same induction.

`PagesTheorem` (`PagesAsAsked`) is a second invariant over the first: what a worker
has drawn, followed by what it has left to draw, is the raster of its PDF, as long
as it is before the end of the document, and a receipt never meets the pages of a
PDF. Below it is the arithmetic: `SelectionFacts` (the marks are read once each, in
document order, whatever the ranges), `FlattenCopies` (a copy repeats the one
before), and `RenderedWell`: a page that rendered without an error is turned as
asked, and fitted content lies within the paper in both directions, because the
factor is the smaller of two fractions and rounding cannot pass a whole number
that the fraction does not pass (`FactorFits`, `RoundedBelow`).

### The receipt renderer

The functions first, each for all inputs. A wrapped line is no wider than the width
it was wrapped to (`WrapLineFits`), by induction over the words, with the pieces of
a word that is cut. The strip of a receipt holds the characters that `MaxChars`
counts, on every page and preview (`StripFacts`). `FitDimensions` keeps its limits,
and a higher limit changes nothing for an image that did not reach the lower one
(`FitsDimensions`). With these, `ElementDrawnWell`: an element is drawn within the
strip, and at 203 DPI, the resolution of a preview, within its own estimate. Rows
are the delicate case there: the estimate counts the lines of the right column at
two fifths of the line, the drawing at what the left column and a space leave, and
the two agree because a preview has 29 or 39 characters. Since the estimates add up
to the height of the canvas, what is left of it covers the estimates of the elements
still to come (`PreviewInv`), and `PreviewNeverOverflows` (`PreviewFits`) follows.
`PageIsWhole` (`DrawnWhole`): an image is fitted into what is left of the page, and
one that was squeezed takes all of it and leaves no room for the gap below, so the
page overflows and is never finished.

`StreamIsRead` (`ReadWhole`, the first conjunct of `ContentSurvives`) is about the
stream. Every token of the encoder is one the interpreter knows or a control
character of the document (`StreamOK`), and unless a QR value is over its limit each declares the length of its payload, within the limits (`StreamReadable`):
an image of at most 2048 pixels a side, scaled to the paper, has a raster below the
interpreter's limit and a width and height of two bytes each (`ImageShrunk`,
`BytesRead`). The print of a QR code is read only when a code is stored, so the
stream has a store before every print, and the interpreter holds a code as long as
the next token may print it. `IInv` is the conjunction: `DocumentOK`, `LayoutOK`,
`StreamInv`, `ParserInv`, `CanvasInv`, `PreviewInv`, `RefusalInv`.

### Only model-checked

* Liveness, which the prover cannot express under fairness: `WorkSettles`,
  `OutboxDrains`, `EndsForGood`, `DisconnectIsReported`, `SubmissionEnds`.
* That what is read has the contents and the style of the document, the second and
  third conjuncts of `ContentSurvives`; its first, `ReadWhole`, is proved.
* The three statements refuted in section 3.

## 5. Plan

Of the proofs, the contents of a receipt after its
encoding and its styles are left, besides liveness, which is out of the prover's
reach. Of the models, the job ledger with its persistence, the grants and credentials of
`server.ts`, and a timed variant of the session's heartbeats are left.

## 6. Not modelled

Codecs, most field validation, cryptography, the image, font and PDF decoders,
operating-system services, the parsing of command output, product configuration,
user interface, website, examples and the HTTP client: data transformation or
presentation without a state machine. The job ledger is a projection for the user
interface; its one hazard is listed. Heartbeat deadlines need a model of time: in
`ServerSession` they may fire at any moment. The reasons are given per component
in `PROJECT.json`.
