----------------------------- MODULE MCPrinting -----------------------------
(***************************************************************************)
(* Instance of Printing for TLC.  The printers are every combination that  *)
(* the catalog can hold, one of them disabled.  The documents stand at the *)
(* limits of the code: overlapping ranges out of order with copies, a turn *)
(* and a fit onto other paper, a raster that is too large for the driver   *)
(* but not for a preview, too many output pages, duplex, an encrypted      *)
(* file, a file that only the virtual printer finds too large.             *)
(***************************************************************************)
EXTENDS Printing

Printer(connection, mode, profile) ==
  [connection |-> connection, mode |-> mode, profile |-> profile, enabled |-> TRUE]

MCPrinters ==
  { Printer("queue", "raw", "none"), Printer("queue", "driver", "none"),
    Printer("network", "raw", "none"), Printer("network", "driver", "none"),
    Printer("virtual", "raw", "receipt"), Printer("virtual", "driver", "page"),
    [Printer("queue", "driver", "none") EXCEPT !.enabled = FALSE] }

Portrait == <<595, 842>>
Landscape == <<842, 595>>
Paper(kind, size) == [kind |-> kind, width |-> size, height |-> size]
Plain ==
  [copies |-> 1, paper |-> Paper("none", 0), orientation |-> "none",
   scaling |-> [kind |-> "none", percent |-> 0], ranges |-> AllPages, duplex |-> FALSE]
Pdf(bytes, pages, settings) ==
  [kind |-> "pdf", bytes |-> bytes, content |-> "pdf", pages |-> pages, settings |-> settings]

MCDocuments ==
  { [kind |-> "receipt", bytes |-> 1000],
    Pdf(4000000, <<Portrait, Landscape, Portrait>>,
        [Plain EXCEPT !.ranges = <<<<3, 3>>, <<2, 3>>>>]),
    Pdf(5000000, <<Portrait>>,
        [Plain EXCEPT !.copies = 2, !.paper = Paper("a5", 0), !.orientation = "landscape",
                      !.scaling = [kind |-> "fit", percent |-> 0]]),
    Pdf(2000000, <<Portrait>>, [Plain EXCEPT !.copies = 16, !.paper = Paper("custom", 500)]),
    [Pdf(1000, << >>, Plain) EXCEPT !.content = "EncryptedPdf"],
    Pdf(1000, <<Portrait, Portrait, Portrait>>, [Plain EXCEPT !.copies = 99]),
    Pdf(1000, <<Portrait>>, [Plain EXCEPT !.copies = 2, !.duplex = TRUE, !.orientation = "portrait",
                               !.scaling = [kind |-> "percent", percent |-> 50]]) }

MCPlatforms == {"unix", "windows"}

\* Where a write is raced against its deadline.
RawTcpPrinter == { Printer("network", "raw", "none") }

=============================================================================
