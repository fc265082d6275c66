------------------------------ MODULE PdfPages ------------------------------
(***************************************************************************)
(* The page arithmetic of PDF jobs (oppa-protocol pdf.rs, oppa-renderer    *)
(* pdf.rs): print settings, page selection, page geometry and the raster   *)
(* that a driver or a virtual page printer receives.                       *)
(*                                                                         *)
(* A source page is its size <<width, height>> in points; a raster page is *)
(* the number of its source page, its size and the size of the content on  *)
(* it, in pixels.  Paper is measured in tenths of a millimetre.  Page      *)
(* ranges are pairs of numbers, already parsed.  The 32-bit floating point *)
(* products of the source are exact fractions here.                        *)
(***************************************************************************)
EXTENDS Lists, SequencesExt, FiniteSetsExt

Greater(a, b) == IF a > b THEN a ELSE b
DivUp(a, b) == (a + b - 1) \div b
DivRound(a, b) == (2 * a + b) \div (2 * b)

MaxPdfBytes == 20 * 1024 * 1024
MaxPdfPages == 2000
MaxRasterOutputPages == 200
MaxRasterTotal == 64 * 1024 * 1024
MaxPixelsPerPage == 42000000
MaxPagePoints == 14400

-----------------------------------------------------------------------------
(* Settings: copies, paper, orientation, scaling, ranges, duplex *)

AllPages == << >>   \* no range given

PrintSettings ==
  [copies : Nat, duplex : BOOLEAN, ranges : Seq(Nat \X Nat),
   paper : [kind : {"none", "a4", "a5", "letter", "legal", "custom"}, width : Nat, height : Nat],
   orientation : {"none", "portrait", "landscape"},
   scaling : [kind : {"none", "fit", "actual", "percent"}, percent : Nat]]

\* A PDF: its size, what the parser makes of it, its pages and how to print it.
PdfDocuments ==
  [kind : {"pdf"}, bytes : Nat, content : {"pdf", "InvalidPdf", "EncryptedPdf"},
   pages : Seq(Int \X Int), settings : PrintSettings]

ValidPaper(paper) ==
  paper.kind = "custom" => paper.width \in 10..1000 /\ paper.height \in 10..1000

ValidScaling(scaling) == scaling.kind = "percent" => scaling.percent \in 10..400

\* Page numbers start at 1, have at most five digits, and ascend.
ValidRanges(ranges) ==
  \A i \in 1..Len(ranges) :
    /\ ranges[i][1] \in 1..99999
    /\ ranges[i][2] \in ranges[i][1]..99999

ValidSettings(s) ==
  /\ s.copies \in 1..99
  /\ ValidPaper(s.paper)
  /\ ValidScaling(s.scaling)
  /\ ValidRanges(s.ranges)

-----------------------------------------------------------------------------
(* resolve_page_selection: marks the pages of every range, then reads the  *)
(* marks in document order *)

\* Mutant: overlapping ranges repeat their pages.
SelectionRepeats(ranges, count) ==
  IF ranges = AllPages THEN [i \in 1..count |-> i]
  ELSE FlattenSeq([r \in 1..Len(ranges) |->
         [i \in 1..(ranges[r][2] - ranges[r][1] + 1) |-> ranges[r][1] + i - 1]])

Selection(ranges, count) ==
  LET marked == UNION {ranges[i][1]..ranges[i][2] : i \in 1..Len(ranges)}
      read[p \in 0..count] == IF p = 0 THEN << >>
                              ELSE IF p \in marked THEN Append(read[p - 1], p) ELSE read[p - 1]
  IN  IF ranges = AllPages THEN [i \in 1..count |-> i] ELSE read[count]

SelectionError(ranges, count) == \E i \in 1..Len(ranges) : ranges[i][2] > count

-----------------------------------------------------------------------------
(* validate_pdf *)

\* Why a PDF is refused before it is submitted, or "none".
ValidatePdf(doc) ==
  CASE ~ValidSettings(doc.settings)                    -> "InvalidDocument"
    [] doc.bytes > MaxPdfBytes                          -> "PdfLimitExceeded"
    [] doc.content # "pdf"                              -> doc.content
    [] Len(doc.pages) = 0                               -> "InvalidPdf"
    [] Len(doc.pages) > MaxPdfPages                     -> "PdfLimitExceeded"
    [] SelectionError(doc.settings.ranges, Len(doc.pages)) -> "InvalidPageRange"
    [] Len(Selection(doc.settings.ranges, Len(doc.pages))) * doc.settings.copies
         > MaxRasterOutputPages                         -> "PdfLimitExceeded"
    [] OTHER                                            -> "none"

-----------------------------------------------------------------------------
(* render_page *)

PaperTenths(paper) ==
  CASE paper.kind = "a4"     -> <<2100, 2970>>
    [] paper.kind = "a5"     -> <<1480, 2100>>
    [] paper.kind = "letter" -> <<2159, 2794>>
    [] paper.kind = "legal"  -> <<2159, 3556>>
    [] paper.kind = "custom" -> <<10 * paper.width, 10 * paper.height>>

Swapped(size) == <<size[2], size[1]>>

\* The paper turned to the requested orientation, in pixels.
TargetPixels(s, dpi) ==
  LET size   == PaperTenths(s.paper)
      turned == \/ s.orientation = "landscape" /\ size[1] < size[2]
                \/ s.orientation = "portrait" /\ size[1] > size[2]
      pixels(tenths) == DivRound(tenths * dpi, 254)
      placed == IF turned THEN Swapped(size) ELSE size
  IN  <<pixels(placed[1]), pixels(placed[2])>>

WithinBudget(size) == size[1] > 0 /\ size[2] > 0 /\ size[1] * size[2] <= MaxPixelsPerPage

\* The page in pixels, turned when it does not have the orientation asked for.
PagePixels(page, s, dpi) ==
  LET size == <<Greater(DivRound(page[1] * dpi, 72), 1), Greater(DivRound(page[2] * dpi, 72), 1)>>
      turn == s.orientation # "none" /\ (s.orientation = "landscape") # (size[1] > size[2])
  IN  IF turn THEN Swapped(size) ELSE size

\* The scaling factor as a fraction.
Factor(s, size, target) ==
  LET across == <<target[1], size[1]>>
      down   == <<target[2], size[2]>>
      least  == IF across[1] * down[2] <= down[1] * across[2] THEN across ELSE down
  IN  CASE s.scaling.kind = "percent" -> <<s.scaling.percent, 100>>
        [] s.scaling.kind = "fit" /\ s.paper.kind # "none" ->
             IF least[1] < least[2] THEN least ELSE <<1, 1>>
        [] OTHER -> <<1, 1>>

PageError(page, s, dpi) ==
  LET raw == <<DivUp(page[1] * dpi, 72), DivUp(page[2] * dpi, 72)>>
  IN  \/ page[1] \notin 1..MaxPagePoints \/ page[2] \notin 1..MaxPagePoints
      \/ ~WithinBudget(raw)
      \/ s.paper.kind # "none" /\ ~WithinBudget(TargetPixels(s, dpi))

RenderPage(number, page, s, dpi) ==
  LET size   == PagePixels(page, s, dpi)
      target == IF s.paper.kind = "none" THEN <<0, 0>> ELSE TargetPixels(s, dpi)
      factor == Factor(s, size, target)
      scaled(n) == Greater(DivRound(n * factor[1], factor[2]), 1)
      content == <<scaled(size[1]), scaled(size[2])>>
      canvas  == IF s.paper.kind = "none" THEN content ELSE target
  IN  [number |-> number, width |-> canvas[1], height |-> canvas[2], content |-> content]

PageBytes(p) == DivUp(p.width, 8) * p.height

RasterBytes(pages) == SumOf([i \in 1..Len(pages) |-> PageBytes(pages[i])])

(* rasterize_pdf: the selected pages, then the whole selection once per copy *)
SelectedPages(doc, dpi) ==
  LET selected == Selection(doc.settings.ranges, Len(doc.pages))
  IN  [i \in 1..Len(selected) |-> RenderPage(selected[i], doc.pages[selected[i]], doc.settings, dpi)]

RasterError(doc, dpi) ==
  LET selected == Selection(doc.settings.ranges, Len(doc.pages))
      rendered == SelectedPages(doc, dpi)
  IN  \/ \E i \in 1..Len(selected) : PageError(doc.pages[selected[i]], doc.settings, dpi)
      \/ \E i \in 1..Len(rendered) : ~WithinBudget(<<rendered[i].width, rendered[i].height>>)
      \/ RasterBytes(rendered) * doc.settings.copies > MaxRasterTotal

RasterizePdf(doc, dpi) ==
  FlattenSeq([c \in 1..doc.settings.copies |-> SelectedPages(doc, dpi)])

=============================================================================
