----------------------------- MODULE MCReceipt -----------------------------
(***************************************************************************)
(* Instance of Receipt for TLC.  The sections are chosen around the limits *)
(* of the code: a word wider than the paper, rows that fit with one space, *)
(* that wrap on one side and that have an empty side, cells with runs of   *)
(* spaces inside, before and after their words, cells of spaces only, a    *)
(* tab, control characters, lines of dashes as wide as the paper and wider,*)
(* combining marks, a QR value over the interpreter's limit, an image wider*)
(* than the paper and one that meets the bottom of the page, a feed that   *)
(* fills a page.                                                           *)
(***************************************************************************)
EXTENDS Receipt

W(width) == [width |-> width, stack |-> 1, plain |-> TRUE, dashes |-> FALSE]
Dashes(width) == [W(width) EXCEPT !.dashes = TRUE]
Garbled(width) == [W(width) EXCEPT !.plain = FALSE]
Accented(width) == [W(width) EXCEPT !.stack = 2]

\* Words joined by single spaces.
Cell(widths) == WordTokens([i \in 1..Len(widths) |-> W(widths[i])])

Text(lines, align, bold) ==
  [kind |-> "text", lines |-> lines, align |-> align, bold |-> bold, ascii |-> TRUE, at |-> 0]
Row(left, right) == [kind |-> "row", left |-> left, right |-> right, ascii |-> TRUE, at |-> 0]
Image(w, h) ==
  [kind |-> "image", width |-> w, height |-> h, stride |-> 0, decodes |-> TRUE, at |-> 0]
Qr(units, bytes, modules) ==
  [kind |-> "qr", units |-> units, bytes |-> bytes, modules |-> modules, at |-> 0]
Barcode(format, length, modules) ==
  [kind |-> "barcode", format |-> format, length |-> length, modules |-> modules,
   plain |-> TRUE, digits |-> TRUE, height |-> 0, readable |-> FALSE, at |-> 0]

MCSections ==
  { Text(<< <<W(20), W(20), W(10)>>, << >>, <<W(5)>> >>, "center", TRUE),
    Text(<< <<W(4), W(100), W(3)>> >>, "right", FALSE),
    Text(<< <<Dashes(32)>>, <<Dashes(100)>> >>, "center", TRUE),
    Text(<< <<W(3)>>, <<W(4), Garbled(5)>> >>, "left", FALSE),
    [Text(<< <<Accented(3)>>, <<W(40), Accented(40)>> >>, "left", FALSE) EXCEPT !.ascii = FALSE],
    Row(Cell(<<6>>), Cell(<<5>>)), Row(Cell(<<26>>), Cell(<<5>>)),
    Row(Cell(<<20, 20>>), Cell(<<12, 12, 12, 12>>)),
    Row(<< >>, Cell(<<7>>)), Row(Cell(<<10, 10, 10, 10>>), << >>),
    Row(Cell(<<6>>), <<Word(W(1)), Spaces(1), Word(W(1)), Spaces(2), Word(W(5))>>),
    Row(<<Spaces(1)>> \o Cell(<<6>>), Cell(<<5>>) \o <<Spaces(2)>>),
    Row(<<Word(Dashes(48)), Spaces(3), Word(W(2))>>, <<Spaces(60)>>),
    Row(<<Spaces(2)>>, <<Spaces(1)>>), Row(<<Word(W(4)), Tab, Word(W(4))>>, Cell(<<5>>)),
    [kind |-> "divider", at |-> 0],
    Image(1200, 300), Image(8, 100), [Image(8, 8) EXCEPT !.decodes = FALSE],
    Qr(300, 300, 61), Qr(2300, 2300, 177), Qr(4096, 8192, 0), Qr(4000, 4000, 0),
    Barcode("code128", 20, 255), Barcode("code128", 36, 431), Barcode("code128", 254, 0),
    Barcode("code39", 40, 672), Barcode("ean13", 12, 95),
    [kind |-> "feed", lines |-> 120, at |-> 0], [kind |-> "feed", lines |-> 0, at |-> 0],
    [kind |-> "cut", at |-> 0] }

\* A small label page, one whose raster exceeds the output limit, one whose
\* area exceeds the pixel limit, one that is too narrow, one of so few dots
\* that a large QR code is wider than the receipt.
MCPages ==
  { [width |-> 100, height |-> 100, dpi |-> 203], [width |-> 500, height |-> 500, dpi |-> 300],
    [width |-> 500, height |-> 500, dpi |-> 600], [width |-> 99, height |-> 100, dpi |-> 203],
    [width |-> 210, height |-> 297, dpi |-> 72] }

=============================================================================
