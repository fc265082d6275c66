------------------------------ MODULE Printing ------------------------------
(***************************************************************************)
(* From a print job to its printer: the preparation that the job processor *)
(* makes before it claims a job (printer, rendering, document retrieval),  *)
(* the spooler that the registry selects, the backend (raw TCP, CUPS, the  *)
(* Windows spooler and GDI driver, a virtual printer) and the outcome that *)
(* the processor records.  A local test print takes the same way without a *)
(* claim and without a cancellation.                                       *)
(*                                                                         *)
(* The agent's flow lock allows one submission at a time.  What runs beside*)
(* it: the lp process, the print worker of Windows, which outlives a       *)
(* submission that was cancelled or timed out, the network, cancellations  *)
(* and the user, who changes, clears or removes the virtual printer.       *)
(*                                                                         *)
(* Rendering a receipt is Receipt's subject: here it succeeds or fails.    *)
(* The claim and the durable outcome are AgentRuntime's.                   *)
(***************************************************************************)
EXTENDS PdfPages, FiniteSets

CONSTANTS
  Printers,         \* the configured printers
  Documents,        \* the receipts and PDFs that are printed
  Platforms,        \* the systems of the build: "unix", "windows"
  MaxHistory,       \* DEFAULT_MAX_VIRTUAL_HISTORY
  MaxHistoryBytes,  \* MAX_VIRTUAL_HISTORY_BYTES
  MaxJobs,          \* bound: submissions
  MaxCommands       \* bound: commands of the user

VARIABLES
  platform,   \* the system
  job,        \* the submission that is in progress, or the last one
  detached,   \* the print workers that outlived their submission
  device,     \* the virtual printer: policy, history, retained bytes
  spent       \* the submissions and the commands so far

vars == <<platform, job, detached, device, spent>>

MaxSubmissionBytes == 4 * 1024 * 1024
DriverPdfDpi == 300
VirtualPreviewDpi == 100
Policies == {"AlwaysSucceed", "FailNext", "AlwaysFail", "Delay", "Offline"}

-----------------------------------------------------------------------------
(* Printers *)

\* PrinterRef::validate: a profile for virtual printers only, and its mode.
ValidPrinter(p) ==
  IF p.connection = "virtual"
  THEN <<p.profile, p.mode>> \in {<<"receipt", "raw">>, <<"page", "driver">>}
  ELSE p.profile = "none"

\* The catalog validates every printer it stores.
ASSUME PrintingAssumption ==
  /\ Printers \subseteq [connection : {"queue", "network", "virtual"}, mode : {"raw", "driver"},
                         profile : {"none", "receipt", "page"}, enabled : BOOLEAN]
  /\ \A p \in Printers : ValidPrinter(p)
  /\ Documents \subseteq [kind : {"receipt"}, bytes : Nat] \cup PdfDocuments
  /\ Platforms \subseteq {"unix", "windows"}
  /\ MaxHistory \in Nat \ {0} /\ {MaxHistoryBytes, MaxJobs, MaxCommands} \subseteq Nat

\* printer_render_target: what a receipt is rendered to, or "none".
RenderTarget(p) ==
  CASE p.connection = "virtual" /\ p.mode = "raw" /\ p.profile = "receipt"    -> "escpos"
    [] p.connection # "virtual" /\ p.mode = "raw" /\ p.profile = "none"       -> "escpos"
    [] p.connection = "virtual" /\ p.mode = "driver" /\ p.profile = "page"    -> "raster"
    [] p.connection = "queue" /\ p.mode = "driver" /\ p.profile = "none"      -> "raster"
    [] OTHER                                                                  -> "none"

\* Mutant: every queue takes PDFs, whatever its mode.
PdfRouteAnyMode(p) == p.connection \in {"queue", "virtual"} /\ p.profile \in {"none", "page"}

\* pdf_route: where a PDF can be printed.
PdfRoute(p) ==
  /\ p.connection \in {"queue", "virtual"} /\ p.mode = "driver"
  /\ p.profile \in {"none", "page"}

-----------------------------------------------------------------------------
(* The submission and its end *)

\* How much of the document the backend was handed: the socket of a raw TCP
\* printer, the scheduler, the print spooler or the driver.  What a printer
\* makes of it is not known to the agent and is not modelled.
Handed == {"none", "part", "whole"}
More(handed) == IF handed = "none" THEN "part" ELSE "whole"

NoWorker ==
  [stage |-> "none", todo |-> << >>, drawn |-> << >>, open |-> FALSE, document |-> "none",
   handed |-> "none", result |-> "none"]

NoJob ==
  [printer |-> [connection |-> "none"], doc |-> [kind |-> "none"], local |-> FALSE, pc |-> "done",
   kind |-> "none", bytes |-> 0, exact |-> TRUE, lp |-> "none", worker |-> NoWorker,
   simulation |-> "none", preview |-> << >>, orphan |-> FALSE,
   cancelled |-> FALSE, handed |-> "none", error |-> "none", told |-> "none"]

Fresh == [registered |-> TRUE, policy |-> "AlwaysSucceed", history |-> << >>, retained |-> 0]

Update(j) == job' = j /\ UNCHANGED <<platform, detached, device, spent>>

\* What is left of a submission once its task returned.
Returned(j, error, told) ==
  [NoJob EXCEPT !.printer = j.printer, !.local = j.local, !.exact = j.exact,
                !.handed = j.handed, !.error = error, !.told = told]

\* A failure before the claim.  A job that was cancelled meanwhile stays so.
Refused(j, error) == Returned(j, error, IF j.cancelled THEN "Cancelled" ELSE "Failed")

\* The registry returned: processor submit, submit_rendered_local.
Settled(j, error) ==
  Returned(j, error, IF error = "none" THEN "Submitted"
                     ELSE IF error = "Cancelled" \/ j.cancelled THEN "Cancelled" ELSE "Failed")

Begin(p, d, local) ==
  /\ job.pc = "done" /\ spent.jobs < MaxJobs
  /\ job' = [NoJob EXCEPT !.printer = p, !.doc = d, !.local = local, !.pc = "resolve"]
  /\ spent' = [spent EXCEPT !.jobs = @ + 1]
  /\ UNCHANGED <<platform, detached, device>>

\* cancel_job: the row of a queued job, the token of a claimed one.
Cancel ==
  /\ job.pc # "done" /\ ~job.local /\ ~job.cancelled
  /\ Update([job EXCEPT !.cancelled = TRUE])

-----------------------------------------------------------------------------
(* Preparation: resolve_enabled_printer, render_receipt, render_pdf_job *)

Resolve ==
  /\ job.pc = "resolve"
  /\ \/ Update(Refused(job, "NotFound"))
     \/ /\ ~job.printer.enabled
        /\ Update(Refused(job, "Disabled"))
     \/ /\ job.printer.enabled
        /\ Update([job EXCEPT !.pc = IF job.doc.kind = "pdf" THEN "route" ELSE "render"])

RenderReceipt ==
  /\ job.pc = "render"
  /\ \/ /\ RenderTarget(job.printer) = "none"
        /\ Update(Refused(job, "ModeUnsupported"))
     \/ /\ RenderTarget(job.printer) # "none"
        /\ Update(Refused(job, "RenderFailed"))
     \/ /\ RenderTarget(job.printer) # "none"
        /\ Update([job EXCEPT !.pc = "claim", !.kind = RenderTarget(job.printer),
                              !.bytes = job.doc.bytes])

Route ==
  /\ job.pc = "route"
  /\ Update(IF PdfRoute(job.printer)
            THEN [job EXCEPT !.pc = IF job.local THEN "validate" ELSE "fetch"]
            ELSE Refused(job, "FormatUnsupported"))

\* What the server answers to the signed request: the declared bytes, other
\* bytes of the same length, or a body of another length.
Bodies == {"exact", "altered", "short", "long"}

\* Mutant: the digest of the body is not compared.
FetchErrorWithoutDigest(body) == IF body \in {"short", "long"} THEN "LengthMismatch" ELSE "none"

\* read_bounded and verify_digest.
FetchError(body) ==
  CASE body \in {"short", "long"} -> "LengthMismatch"
    [] body = "altered"           -> "IntegrityMismatch"
    [] OTHER                      -> "none"

\* fetch_pdf: no identity or key, a refusal, a transport error, or a body.
Fetch ==
  /\ job.pc = "fetch"
  /\ \/ \E error \in {"Authorization", "Refused", "Gone", "FetchFailed"} : Update(Refused(job, error))
     \/ \E body \in Bodies :
          Update(IF FetchError(body) = "none"
                 THEN [job EXCEPT !.pc = "validate", !.exact = (body = "exact")]
                 ELSE Refused(job, FetchError(body)))

Validated ==
  /\ job.pc = "validate"
  /\ Update(IF ValidatePdf(job.doc) # "none" THEN Refused(job, ValidatePdf(job.doc))
            ELSE [job EXCEPT !.pc = "claim", !.kind = "pdf", !.bytes = job.doc.bytes])

\* A local test is not claimed; a job that was cancelled meanwhile is skipped.
Claim ==
  /\ job.pc = "claim"
  /\ Update(IF job.cancelled THEN Returned(job, "none", "Cancelled")
            ELSE [job EXCEPT !.pc = "submit"])

-----------------------------------------------------------------------------
(* SpoolerRegistry::submit and the backends' admission *)

\* Why a backend refuses the document before anything leaves, or "none".
AdmissionError(j) ==
  LET p == j.printer
  IN  CASE ~ValidPrinter(p)                                            -> "InvalidTarget"
        [] ~p.enabled                                                  -> "PrinterDisabled"
        [] p.connection = "network" /\ p.mode # "raw"                  -> "InvalidSubmissionMode"
        [] p.connection \in {"network", "queue"} /\ p.mode = "raw" /\ j.kind = "raster"
                                                                       -> "UnsupportedDocument"
        [] p.connection = "network" /\ j.kind = "pdf"                  -> "UnsupportedDocument"
        [] p.connection = "queue" /\ j.kind = "pdf" /\ p.mode # "driver"
                                                                       -> "InvalidSubmissionMode"
        [] p.connection = "queue" /\ j.kind = "pdf" /\ platform = "windows"
             /\ j.doc.settings.duplex                                  -> "UnsupportedOption"
        [] p.connection # "virtual" /\ j.kind # "pdf" /\ j.bytes > MaxSubmissionBytes
                                                                       -> "DocumentTooLarge"
        [] OTHER                                                       -> "none"

\* The raster of every PDF at the resolutions of the driver and the preview.
Raster ==
  [d \in {d \in Documents : d.kind = "pdf"} |->
     [dpi \in {DriverPdfDpi, VirtualPreviewDpi} |->
        [error |-> RasterError(d, dpi), pages |-> RasterizePdf(d, dpi)]]]

\* The pages of a driver submission: one for a receipt.
PageList(j, dpi) ==
  IF j.kind = "pdf" THEN Raster[j.doc][dpi].pages
  ELSE <<[number |-> 1, width |-> 0, height |-> 0, content |-> <<0, 0>>]>>

FirstStage(j) ==
  CASE j.kind = "pdf" -> "raster" [] j.printer.mode = "raw" -> "raw" [] OTHER -> "open"

NewWorker(j) ==
  [NoWorker EXCEPT !.stage = FirstStage(j),
                   !.todo = IF FirstStage(j) = "open" THEN PageList(j, DriverPdfDpi) ELSE << >>]

Submit ==
  /\ job.pc = "submit"
  /\ LET p == job.printer
     IN  Update(IF AdmissionError(job) # "none" THEN Settled(job, AdmissionError(job))
                ELSE CASE p.connection = "network" -> [job EXCEPT !.pc = "connect"]
                       [] p.connection = "virtual" -> [job EXCEPT !.pc = "device"]
                       [] OTHER ->
                            IF platform = "unix" THEN [job EXCEPT !.pc = "spawn"]
                            ELSE [job EXCEPT !.pc = "worker", !.worker = NewWorker(job)])

-----------------------------------------------------------------------------
(* RawTcpSpooler *)

Connect ==
  /\ job.pc = "connect"
  /\ \/ Update(Settled(job, "Connectivity"))
     \/ Update([job EXCEPT !.pc = "write"])

\* write_all hands the bytes over as the socket takes them.
WriteMore ==
  /\ job.pc = "write" /\ job.handed # "whole"
  /\ Update([job EXCEPT !.handed = More(@)])

\* write_all, flush and shutdown returned, or one of them failed.
Written ==
  /\ job.pc = "write"
  /\ \/ Update(Settled(job, "Connectivity"))
     \/ /\ job.handed = "whole"
        /\ Update(Settled(job, "none"))

-----------------------------------------------------------------------------
(* CUPS: submit_cups_raw, submit_cups_driver, submit_cups_pdf *)

\* Temporary files and the lp process; dropping the future kills lp.
Spawn ==
  /\ job.pc = "spawn"
  /\ \/ \E error \in {"BackendUnavailable", "Connectivity"} : Update(Settled(job, error))
     \/ Update([job EXCEPT !.pc = "lp", !.lp = "running"])

\* lp hands the document to the scheduler.  It may fail at any point, also
\* after the scheduler has everything; its success is taken at its word.
LpStep ==
  /\ job.pc = "lp" /\ job.lp = "running"
  /\ \/ job.handed # "whole" /\ Update([job EXCEPT !.handed = More(@)])
     \/ job.handed = "whole" /\ Update([job EXCEPT !.lp = "exited"])
     \/ Update([job EXCEPT !.lp = "failed"])

\* lp_receipt.
LpExited ==
  /\ job.pc = "lp"
  /\ \/ job.lp = "exited" /\ Update(Settled(job, "none"))
     \/ job.lp = "failed" /\ Update(Settled(job, "Rejected"))
     \/ job.lp = "failed" /\ job.printer.mode = "raw" /\ Update(Settled(job, "Connectivity"))

-----------------------------------------------------------------------------
(* Windows: windows_print_raw, windows_print_pdf, print_with_api *)

Gone(w, result) == [w EXCEPT !.stage = "gone", !.result = result]

\* Mutant: a failure after the start of the document is not aborted.
GdiFailedWithoutAbort(w) == [w EXCEPT !.stage = "close", !.result = "Rejected"]

\* A started document is aborted.
GdiFailed(w) == [w EXCEPT !.stage = "abort", !.result = "Rejected"]

\* start_page, draw_page and end_page of the next page, or end_document.
Drawn(w) == [w EXCEPT !.drawn = Append(@, Head(w.todo)), !.handed = "part"]
PageDone(w) ==
  [Drawn(w) EXCEPT !.todo = Tail(@), !.stage = IF Len(w.todo) = 1 THEN "endDocument" ELSE "page"]
DocumentEnded(w) ==
  [w EXCEPT !.stage = "close", !.document = "ended", !.handed = "whole", !.result = "none"]

\* The raw route: no such queue, or the spooler's answer.  What a failing
\* WritePrinter or EndDocPrinter left with it is not known.
PrintedRaw(w) ==
  {Gone(w, "Connectivity"), [Gone(w, "none") EXCEPT !.handed = "whole"]}
    \cup {[Gone(w, "Rejected") EXCEPT !.handed = h] : h \in Handed}

\* What the worker may do next, for a document d.
WorkerSteps(w, d) ==
  CASE w.stage = "raw" -> PrintedRaw(w)
    [] w.stage = "raster" ->
         {Gone(w, "Timeout"),
          IF Raster[d][DriverPdfDpi].error THEN Gone(w, "DocumentRender")
          ELSE [w EXCEPT !.stage = "open", !.todo = Raster[d][DriverPdfDpi].pages]}
    [] w.stage = "open" ->
         {Gone(w, "Rejected")}
           \cup (IF w.todo = << >> THEN {} ELSE {[w EXCEPT !.stage = "startDocument", !.open = TRUE]})
    [] w.stage = "startDocument" ->
         {[w EXCEPT !.stage = "close", !.result = "Rejected"],
          [w EXCEPT !.stage = "page", !.document = "started"]}
    [] w.stage = "page" -> {GdiFailed(w), GdiFailed(Drawn(w)), PageDone(w)}
    [] w.stage = "endDocument" -> {GdiFailed(w), DocumentEnded(w)}
    [] w.stage = "abort" -> {[w EXCEPT !.stage = "close", !.document = "aborted"]}
    [] w.stage = "close" -> {[w EXCEPT !.stage = "gone", !.open = FALSE]}
    [] OTHER -> {}

WorkerStep ==
  /\ job.pc = "worker"
  /\ \E w \in WorkerSteps(job.worker, job.doc) : Update([job EXCEPT !.worker = w])

\* What the backend was handed is what the worker handed it.
AtWorker(j) == [j EXCEPT !.handed = j.worker.handed]

\* The await of the worker.
WorkerDone ==
  /\ job.pc = "worker" /\ job.worker.stage = "gone"
  /\ Update(Settled(AtWorker(job), job.worker.result))

\* A worker that nobody waits for goes on; its thread ends after it.
DetachedStep ==
  \E i \in 1..Len(detached) :
    /\ \/ \E w \in WorkerSteps(detached[i].worker, detached[i].doc) :
            detached' = [detached EXCEPT ![i].worker = w]
       \/ /\ detached[i].worker.stage = "gone"
          /\ detached' = RemoveAt(detached, i)
    /\ UNCHANGED <<platform, job, device, spent>>

-----------------------------------------------------------------------------
(* Deadlines and cancellation of a submission in progress *)

\* Ends the wait of the submission; the blocking worker cannot be stopped.
Abandon(error) ==
  /\ job' = Settled(IF job.pc = "worker" THEN AtWorker(job) ELSE job, error)
  /\ detached' = IF job.pc # "worker" THEN detached
                 ELSE Append(detached, [worker |-> job.worker, doc |-> job.doc])
  /\ UNCHANGED <<platform, device, spent>>

\* Mutant: no deadline for the platform queue.
DeadlineNetworkOnly == job.pc \in {"connect", "write"} /\ Abandon("Timeout")

\* connect_timeout, write_timeout, submission_timeout.
Deadline == job.pc \in {"connect", "write", "lp", "worker"} /\ Abandon("Timeout")

CancelWins ==
  /\ job.cancelled /\ job.pc \in {"connect", "write", "lp", "worker"}
  /\ Abandon("Cancelled")

FetchDeadline == job.pc = "fetch" /\ Update(Refused(job, "FetchFailed"))

-----------------------------------------------------------------------------
(* PerPrinterVirtualSpooler and VirtualSpooler *)

\* The device of the printer, its submission lock and its policy.
TakeDevice ==
  /\ job.pc = "device"
  /\ IF ~device.registered THEN Update(Settled(job, "BackendUnavailable"))
     ELSE /\ job' = [job EXCEPT !.pc = "preview", !.simulation = device.policy]
          /\ device' = [device EXCEPT !.policy = IF @ = "FailNext" THEN "AlwaysSucceed" ELSE @]
          /\ UNCHANGED <<platform, detached, spent>>

\* virtual_preview: the blocking worker interprets the document.
PreviewError(j) ==
  CASE j.bytes > MaxSubmissionBytes                              -> "DocumentTooLarge"
    [] j.printer.profile = "receipt" /\ j.kind # "escpos"        -> "UnsupportedDocument"
    [] j.kind = "pdf" /\ Raster[j.doc][VirtualPreviewDpi].error  -> "DocumentRender"
    [] OTHER                                                     -> "none"

Preview ==
  /\ job.pc = "preview"
  /\ \/ /\ PreviewError(job) # "none"
        /\ Update(Settled(job, PreviewError(job)))
     \/ /\ PreviewError(job) = "none"
        /\ \E error \in {"DocumentRender", "BackendUnavailable"} :   \* interpreter or deadline; panic
             Update(Settled(job, error))
     \/ /\ PreviewError(job) = "none"
        /\ Update([job EXCEPT !.preview = PageList(job, VirtualPreviewDpi),
                              !.pc = IF job.simulation = "Delay" THEN "delay" ELSE "record"])

Delay ==
  /\ job.pc = "delay"
  /\ Update(IF job.cancelled THEN Settled(job, "Cancelled") ELSE [job EXCEPT !.pc = "record"])

Entry(j) == [bytes |-> j.bytes + RasterBytes(j.preview)]
Total(history) == SumOf([i \in 1..Len(history) |-> history[i].bytes])

\* The oldest entries leave until the new one fits, or none is left.
Evicted(history, size) ==
  LET fits(k) == /\ Len(history) - k < MaxHistory
                 /\ Total(SubSeq(history, k + 1, Len(history))) + size <= MaxHistoryBytes
      k == Min({n \in 0..Len(history) : n = Len(history) \/ fits(n)})
  IN  SubSeq(history, k + 1, Len(history))

\* Mutant: the bytes of the evicted entries stay counted.
RecordKeepsBytes(dev, entry) ==
  [dev EXCEPT !.history = Append(Evicted(@, entry.bytes), entry), !.retained = @ + entry.bytes]

\* VirtualSpooler::record.
Record(dev, entry) ==
  LET kept == Evicted(dev.history, entry.bytes)
  IN  [dev EXCEPT !.history = Append(kept, entry),
                  !.retained = @ - (Total(dev.history) - Total(kept)) + entry.bytes]

SimulatedError(simulation) ==
  CASE simulation \in {"AlwaysSucceed", "Delay"}     -> "none"
    [] simulation \in {"FailNext", "AlwaysFail"}     -> "SimulatedFailure"
    [] simulation = "Offline"                        -> "Connectivity"

\* The last look at the token, then the record and its outcome.
RecordOutcome ==
  /\ job.pc = "record"
  /\ IF job.cancelled THEN Update(Settled(job, "Cancelled"))
     ELSE LET error == SimulatedError(job.simulation)
              handed == IF error = "none" THEN "whole" ELSE "none"
          IN  /\ job' = Settled([job EXCEPT !.handed = handed], error)
              /\ device' = IF job.orphan THEN device ELSE Record(device, Entry(job))
              /\ UNCHANGED <<platform, detached, spent>>

\* The user: update_virtual, clear_history, remove, and register once more.
Command(dev) ==
  /\ spent.commands < MaxCommands
  /\ device' = dev
  /\ spent' = [spent EXCEPT !.commands = @ + 1]

SetPolicy ==
  \E policy \in Policies :
    /\ Command([device EXCEPT !.registered = TRUE, !.policy = policy])
    /\ UNCHANGED <<platform, job, detached>>

ClearHistory ==
  /\ Command([device EXCEPT !.history = << >>, !.retained = 0])
  /\ UNCHANGED <<platform, job, detached>>

\* A submission that holds the device keeps it until its end.
RemoveDevice ==
  /\ Command([Fresh EXCEPT !.registered = FALSE])
  /\ job' = [job EXCEPT !.orphan = job.pc \in {"preview", "delay", "record"} \/ @]
  /\ UNCHANGED <<platform, detached>>

-----------------------------------------------------------------------------
\* The virtual printer has printed before.
Init ==
  /\ platform \in Platforms
  /\ job = NoJob /\ detached = << >>
  /\ device = Record(Fresh, [bytes |-> 1000])
  /\ spent = [jobs |-> 0, commands |-> 0]

\* What the submitting task does by itself.
Task ==
  \/ Resolve \/ RenderReceipt \/ Route \/ Validated \/ Claim \/ Submit
  \/ Spawn \/ LpExited \/ WorkerDone \/ TakeDevice \/ Preview \/ Delay \/ RecordOutcome

Timers == Deadline \/ FetchDeadline

Outside ==
  \/ \E p \in Printers, d \in Documents, local \in BOOLEAN : Begin(p, d, local)
  \/ Cancel \/ CancelWins \/ Fetch \/ Connect \/ WriteMore \/ Written \/ LpStep
  \/ WorkerStep \/ DetachedStep \/ SetPolicy \/ ClearHistory \/ RemoveDevice

Next == Task \/ Timers \/ Outside

\* The runtime schedules the task and fires its timers.  Nothing is assumed
\* of lp, of the print worker, of the network and of the server.
Spec == Init /\ [][Next]_vars /\ WF_vars(Task) /\ WF_vars(Timers)

-----------------------------------------------------------------------------
(* Properties *)

(* What the processor prepares is never refused for its kind: the render   *)
(* target and pdf_route agree with the admission of every spooler, so no   *)
(* claimed job fails because it went to the wrong backend.                 *)
RoutesAgree ==
  job.error \notin {"InvalidTarget", "InvalidSubmissionMode", "UnsupportedDocument"}

(* The recorded outcome tells what is known of the document: a submitted   *)
(* one was handed over whole; one of which the backend has anything was    *)
(* the exact document that was declared, and it was submitted, or its      *)
(* backend is a real one and the record says that it was cancelled, timed  *)
(* out, lost its connection or was rejected.  Every other failure, and any *)
(* but success of a virtual printer, is certain: nothing was handed over.  *)
HonestOutcome ==
  job.pc = "done" =>
    /\ job.told = "Submitted" => job.handed = "whole"
    /\ job.handed # "none" =>
         /\ job.exact
         /\ \/ job.told = "Submitted"
            \/ /\ job.printer.connection # "virtual"
               /\ \/ job.told = "Cancelled"
                  \/ job.error \in {"Timeout", "Connectivity", "Rejected"}

(* idempotency.mdx:41: where a backend cannot prove whether a write        *)
(* crossed its irreversible boundary, the agent records an explicit        *)
(* uncertain failure.  The plain failure of a job that was never recovered *)
(* (spooler_failure) would then mean that nothing was handed over.         *)
FailureIsCertain ==
  job.pc = "done" /\ job.told = "Failed" /\ ~job.local => job.handed = "none"

Workers == {job.worker} \cup {detached[i].worker : i \in 1..Len(detached)}

(* However a driver submission ends, also one whose deadline passed: its   *)
(* device context is released, its document is either ended or aborted,    *)
(* and it succeeded exactly when it was ended.                             *)
DriverReleased ==
  \A w \in Workers :
    w.stage = "gone" =>
      /\ ~w.open /\ w.document # "started"
      /\ w.document = "ended" => w.todo = << >> /\ w.result = "none"
      /\ w.drawn # << >> /\ w.result = "none" => w.document = "ended"

\* The pages that were asked for.
Chosen(d) ==
  {p \in 1..Len(d.pages) :
     \/ d.settings.ranges = AllPages
     \/ \E i \in 1..Len(d.settings.ranges) :
          p \in d.settings.ranges[i][1]..d.settings.ranges[i][2]}

\* Each of them once and in document order, and that once per copy.
Asked(numbers, d) ==
  \E n \in 0..Len(numbers) :
    /\ Len(numbers) = n * d.settings.copies
    /\ {numbers[i] : i \in 1..n} = Chosen(d)
    /\ \A i, j \in 1..n : i < j => numbers[i] < numbers[j]
    /\ \A i \in 1..Len(numbers) : i > n => numbers[i] = numbers[i - n]

\* A page on the paper asked for; fitted content lies inside it.
WellPlaced(p, s) ==
  /\ s.paper.kind # "none" /\ s.orientation = "landscape" => p.width >= p.height
  /\ s.paper.kind # "none" /\ s.orientation = "portrait" => p.width <= p.height
  /\ s.paper.kind # "none" /\ s.scaling.kind = "fit" =>
       p.content[1] <= p.width /\ p.content[2] <= p.height
  /\ p.width * p.height <= MaxPixelsPerPage

PrintedAsAsked(pages, d) ==
  d.kind = "pdf" =>
    /\ Asked([i \in 1..Len(pages) |-> pages[i].number], d)
    /\ \A i \in 1..Len(pages) : WellPlaced(pages[i], d.settings)

(* A committed PDF has every selected page once per copy, in document      *)
(* order whatever the order and overlap of the ranges, on the paper that   *)
(* was asked for: on the driver and in the preview of a virtual printer.   *)
PagesAsAsked ==
  /\ job.worker.document = "ended" => PrintedAsAsked(job.worker.drawn, job.doc)
  /\ \A i \in 1..Len(detached) :
       detached[i].worker.document = "ended" =>
         PrintedAsAsked(detached[i].worker.drawn, detached[i].doc)
  /\ job.preview # << >> => PrintedAsAsked(job.preview, job.doc)

(* The accounting of a virtual printer's history: the retained bytes are   *)
(* those of its entries, and both limits hold; only a single entry may be  *)
(* over the limit of bytes.                                                *)
HistoryAccounted ==
  /\ device.retained = Total(device.history)
  /\ Len(device.history) <= MaxHistory
  /\ Len(device.history) > 1 => device.retained <= MaxHistoryBytes

(* Every submission ends, though lp, the driver, the network and the       *)
(* server may hang: each wait has its deadline.                            *)
SubmissionEnds == job.pc # "done" ~> job.pc = "done"

=============================================================================
