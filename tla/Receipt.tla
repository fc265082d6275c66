------------------------------ MODULE Receipt ------------------------------
(***************************************************************************)
(* The receipt renderer of oppa-renderer: a validated document becomes a   *)
(* layout, the layout an ESC/POS stream or a page, and the ESC/POS stream  *)
(* is interpreted again for the preview of a virtual receipt printer and   *)
(* for driver pages.                                                       *)
(*                                                                         *)
(* Abstractions.  A word is its origin, its width in columns, the number   *)
(* of characters in each column (more than one with combining marks),      *)
(* whether it is all printable and whether it is made of dashes.  A text is*)
(* a sequence of lines of words; what separates them is not told apart,    *)
(* and a line of white space only, which leaves no line, is left out.  A   *)
(* cell of a row is a sequence of words, runs of spaces and tabs.          *)
(* The stream is a sequence of commands, words, runs of spaces, tabs and   *)
(* line ends instead of bytes; the lengths that ESC/POS writes before a    *)
(* payload keep their two bytes.  Pixels are left out: a drawn element is  *)
(* the rectangle that it covers.  The QR and bar code libraries are the    *)
(* number of modules of each value (0: it does not fit), the image decoder *)
(* the size of each image.  Not modelled: characters two columns wide, and *)
(* ESC, GS or a line end inside a word or a cell.                          *)
(***************************************************************************)
EXTENDS Lists, SequencesExt, FiniteSetsExt

CONSTANTS
  Sections,      \* the sections a document is made of
  MaxSections,   \* bound: sections of one document
  Pages,         \* the page profiles of the virtual page printers
  MaxOutput      \* DEFAULT_MAX_OUTPUT_BYTES

VARIABLES
  doc,     \* [width, sections]: the structured document
  target,  \* [kind, page]: "preview", "page" or "driver", and the page's profile
  pc,      \* the stage of the pipeline
  layout,  \* the layout that is encoded or drawn next
  stream,  \* the ESC/POS stream
  parser,  \* the interpreter
  canvas   \* the page: its size, the cursor y, the rectangles drawn

vars == <<doc, target, pc, layout, stream, parser, canvas>>

Widths == {58, 80}

-----------------------------------------------------------------------------
(* Text: columns, wrap_text, layout_row *)

Larger(a, b) == IF a > b THEN a ELSE b
Smaller(a, b) == IF a < b THEN a ELSE b
CeilDiv(a, b) == (a + b - 1) \div b

Columns(width) == IF width = 58 THEN 32 ELSE 48

LineWidth(words) ==
  SumOf([i \in 1..Len(words) |-> words[i].width]) + Larger(Len(words) - 1, 0)

\* The parts of a cell and of a line of the stream.
Word(w)   == [op |-> "word", word |-> w]
Spaces(n) == [op |-> "spaces", n |-> n]
Tab       == [op |-> "tab"]

WordsOf(tokens) ==
  FlattenSeq([i \in 1..Len(tokens) |->
    IF tokens[i].op = "word" THEN <<tokens[i].word>> ELSE << >>])

\* The words of a wrapped line, joined by single spaces.
WordTokens(words) ==
  FlattenSeq([i \in 1..Len(words) |->
    IF i = 1 THEN <<Word(words[1])>> ELSE <<Spaces(1), Word(words[i])>>])

\* The columns of a cell as it stands.
CellWidth(cell) ==
  SumOf([i \in 1..Len(cell) |-> CASE cell[i].op = "word"   -> cell[i].word.width
                                  [] cell[i].op = "spaces" -> cell[i].n
                                  [] OTHER                 -> 1])

\* A word wider than the line is cut into full lines; the rest stays open.
CutWord(word, width) ==
  LET full == (word.width - 1) \div width
  IN  [i \in 1..(full + 1) |->
        <<[word EXCEPT !.width = IF i <= full THEN width ELSE word.width - full * width]>>]

WrapWord(acc, word, width) ==
  LET ends  == acc.open # << >> /\ LineWidth(acc.open) + 1 + word.width > width
      lines == IF ends THEN Append(acc.lines, acc.open) ELSE acc.lines
      open  == IF ends THEN << >> ELSE acc.open
      cut   == CutWord(word, width)
  IN  IF word.width > width
      THEN [lines |-> lines \o Front(cut), open |-> Last(cut)]
      ELSE [lines |-> lines, open |-> Append(open, word)]

WrapLine(words, width) ==
  LET upTo[n \in 0..Len(words)] ==
        IF n = 0 THEN [lines |-> << >>, open |-> << >>]
        ELSE WrapWord(upTo[n - 1], words[n], width)
      acc == upTo[Len(words)]
  IN  IF words = << >> THEN << << >> >>
      ELSE IF acc.open = << >> THEN acc.lines ELSE Append(acc.lines, acc.open)

WrapText(lines, width) ==
  FlattenSeq([i \in 1..Len(lines) |-> WrapLine(lines[i], width)])

\* A cell of white space only has no line, an empty one an empty line.
WrapCell(cell, width) ==
  IF cell # << >> /\ WordsOf(cell) = << >> THEN << >> ELSE WrapLine(WordsOf(cell), width)

LineAt(lines, i) == IF i <= Len(lines) THEN lines[i] ELSE << >>

\* The lines of a row: the left part, spaces, the right part.  The cells of
\* a row that fits stay as they are, the others are wrapped.
LayoutRow(left, right, width) ==
  LET leftWidth == (width * 3) \div 5
      lefts  == WrapCell(left, Larger(leftWidth, 1))
      rights == WrapCell(right, Larger(width - leftWidth - 1, 1))
  IN  IF CellWidth(left) + CellWidth(right) < width
      THEN << [left |-> left, right |-> right,
               spaces |-> width - CellWidth(left) - CellWidth(right)] >>
      ELSE [i \in 1..Larger(Len(lefts), Len(rights)) |->
             [left |-> WordTokens(LineAt(lefts, i)), right |-> WordTokens(LineAt(rights, i)),
              spaces |-> Larger(width - LineWidth(LineAt(lefts, i))
                                      - LineWidth(LineAt(rights, i)), 1)]]

-----------------------------------------------------------------------------
(* The sections of a document, PrintSection, and what the decoders, the QR *)
(* library and the bar code library make of their contents                 *)

MaxImageDimension == 2048
MaxQrModules == 177   \* version 40

Alignments == {"left", "center", "right"}
Formats == {"code128", "code39", "ean13", "upca"}

\* A word of a section: its columns, the characters in each of them, whether
\* it is free of control characters, whether it is made of dashes.
Glyphs  == [width : Nat, stack : Nat, plain : BOOLEAN, dashes : BOOLEAN]
Pieces  == [op : {"word"}, word : Glyphs] \cup [op : {"spaces"}, n : Nat \ {0}] \cup {Tab}

TextSections ==
  [kind : {"text"}, lines : Seq(Seq(Glyphs)), align : Alignments, bold : BOOLEAN,
   ascii : BOOLEAN, at : Nat]
RowSections ==
  [kind : {"row"}, left : Seq(Pieces), right : Seq(Pieces), ascii : BOOLEAN, at : Nat]
PlainSections == [kind : {"divider", "cut"}, at : Nat]
ImageSections ==
  [kind : {"image"}, width : 1..MaxImageDimension, height : 1..MaxImageDimension,
   stride : Nat, decodes : BOOLEAN, at : Nat]
QrSections == [kind : {"qr"}, units : Nat, bytes : Nat, modules : 0..MaxQrModules, at : Nat]
BarcodeSections ==
  [kind : {"barcode"}, format : Formats, length : Nat, modules : Nat, plain : BOOLEAN,
   digits : BOOLEAN, height : Nat, readable : BOOLEAN, at : Nat]
FeedSections == [kind : {"feed"}, lines : Nat, at : Nat]

\* An EAN or UPC value that can be encoded has at most 13 digits.
DigitsEncoded(s) ==
  (s.kind = "barcode" /\ s.format \in {"ean13", "upca"} /\ s.modules # 0) => s.length <= 13

\* ASCII text has one character in each column.
Stacked(s) == \/ /\ s.kind = "text"
                 /\ \E l \in 1..Len(s.lines) : \E i \in 1..Len(s.lines[l]) : s.lines[l][i].stack # 1
              \/ /\ s.kind = "row"
                 /\ \E w \in ToSet(WordsOf(s.left)) \cup ToSet(WordsOf(s.right)) : w.stack # 1

ASSUME SectionsAssumption ==
  /\ Sections \subseteq TextSections \cup RowSections \cup PlainSections \cup ImageSections
                        \cup QrSections \cup BarcodeSections \cup FeedSections
  /\ \A s \in Sections : DigitsEncoded(s) /\ (Stacked(s) => ~s.ascii)

ASSUME PagesAssumption == Pages \subseteq [width : Nat, height : Nat, dpi : Nat]

ASSUME BoundsAssumption == MaxSections \in Nat /\ MaxOutput \in Nat

-----------------------------------------------------------------------------
(* From the document to the layout: PrintLayout::from_document *)

MmToPixels(mm, dpi) == (mm * dpi * 10 + 127) \div 254

ValidSection(s) ==
  CASE s.kind = "qr"      -> s.units \in 1..4096
    [] s.kind = "barcode" -> s.length \in 1..256
    [] s.kind = "feed"    -> s.lines \in 1..255
    [] OTHER              -> TRUE

\* An image wider than the paper is scaled down to it.
Shrunk(image, width) ==
  LET most == MmToPixels(width, 203)
  IN  IF image.width > most
      THEN [image EXCEPT !.width = most,
                         !.height = Larger((image.height * most) \div image.width, 1)]
      ELSE image

\* ReceiptImage::from_gray packs eight pixels into a byte.
FromGray(image) == [image EXCEPT !.stride = CeilDiv(image.width, 8)]

\* A divider is a word of dashes as wide as the paper.
Rule(width) == [width |-> Columns(width), stack |-> 1, plain |-> TRUE, dashes |-> TRUE]

Element(s, width) ==
  CASE s.kind = "image"   -> FromGray(Shrunk(s, width))
    [] s.kind = "barcode" -> [s EXCEPT !.height = 80, !.readable = TRUE]
    [] s.kind = "divider" -> [kind |-> "divider", word |-> Rule(width), at |-> 0]
    [] OTHER              -> s

\* Names every word after its section and its place there.
NamedWord(w, id) ==
  [id |-> id, width |-> w.width, stack |-> w.stack, plain |-> w.plain, dashes |-> w.dashes]

NamedLine(words, at, column) ==
  [i \in 1..Len(words) |-> NamedWord(words[i], <<at, column, i>>)]

NamedCell(cell, at, column) ==
  [i \in 1..Len(cell) |->
     IF cell[i].op = "word" THEN Word(NamedWord(cell[i].word, <<at, column, i>>)) ELSE cell[i]]

Named(s, at) ==
  CASE s.kind = "text" ->
         [s EXCEPT !.lines = [l \in 1..Len(s.lines) |-> NamedLine(s.lines[l], at, l)]]
    [] s.kind = "row" ->
         [s EXCEPT !.left = NamedCell(s.left, at, 1), !.right = NamedCell(s.right, at, 2)]
    [] s.kind = "divider" -> [s EXCEPT !.word = NamedWord(@, <<at, 1, 1>>)]
    [] OTHER -> s

-----------------------------------------------------------------------------
(* The ESC/POS encoder: escpos::render_layout, render_qr, render_barcode *)

NewLine      == [op |-> "nl"]
Command(c)   == [op |-> c]
Setting(c, v) == [op |-> c, value |-> v]

\* A 16-bit length as the two bytes ESC/POS carries.
LowByte(n)  == n % 256
HighByte(n) == (n \div 256) % 256

AlignmentCode(alignment) ==
  CASE alignment = "left" -> 0 [] alignment = "center" -> 1 [] alignment = "right" -> 2

\* Mutant: the weight is not reset after a text.
EncodeTextKeepsWeight(e, width) ==
  LET lines == WrapText(e.lines, Columns(width))
  IN  <<Setting("align", AlignmentCode(e.align)), Setting("bold", IF e.bold THEN 1 ELSE 0)>>
        \o FlattenSeq([i \in 1..Len(lines) |-> Append(WordTokens(lines[i]), NewLine)])

EncodeText(e, width) ==
  LET lines == WrapText(e.lines, Columns(width))
  IN  <<Setting("align", AlignmentCode(e.align)), Setting("bold", IF e.bold THEN 1 ELSE 0)>>
        \o FlattenSeq([i \in 1..Len(lines) |-> Append(WordTokens(lines[i]), NewLine)])
        \o <<Setting("bold", 0)>>

EncodeRow(e, width) ==
  LET lines == LayoutRow(e.left, e.right, Columns(width))
  IN  <<Setting("align", 0)>>
        \o FlattenSeq([i \in 1..Len(lines) |->
             lines[i].left \o <<Spaces(lines[i].spaces)>> \o lines[i].right \o <<NewLine>>])

EncodeImage(e) ==
  << [op |-> "raster", low |-> LowByte(e.stride), high |-> HighByte(e.stride),
      heightLow |-> LowByte(e.height), heightHigh |-> HighByte(e.height),
      payload |-> e.stride * e.height, at |-> e.at] >>

QrFunction(fn, length, payload) ==
  [op |-> "qr", function |-> fn, low |-> LowByte(length), high |-> HighByte(length),
   payload |-> payload, stored |-> << >>]

EncodeQr(e) ==
  << QrFunction("model", 4, 4), QrFunction("size", 3, 3), QrFunction("level", 3, 3),
     [QrFunction("store", e.bytes + 3, e.bytes + 3) EXCEPT !.stored = <<e>>],
     QrFunction("print", 3, 3) >>

\* The characters and the lengths that each symbology allows.
BarcodeValid(e) ==
  CASE e.format = "code128" -> e.length <= 253
    [] e.format = "code39"  -> e.plain
    [] e.format = "ean13"   -> e.digits /\ e.length \in {12, 13}
    [] e.format = "upca"    -> e.digits /\ e.length \in {11, 12}

BarcodePayload(e) == IF e.format = "code128" THEN e.length + 2 ELSE e.length

EncodeBarcode(e) ==
  << Setting("hri", IF e.readable THEN 2 ELSE 0), Setting("height", e.height),
     [op |-> "barcode", length |-> BarcodePayload(e), payload |-> BarcodePayload(e), value |-> e] >>

EncodeElement(e, width) ==
  CASE e.kind = "text"    -> EncodeText(e, width)
    [] e.kind = "row"     -> EncodeRow(e, width)
    [] e.kind = "divider" -> <<Word(e.word), NewLine>>
    [] e.kind = "image"   -> EncodeImage(e)
    [] e.kind = "qr"      -> EncodeQr(e)
    [] e.kind = "barcode" -> EncodeBarcode(e)
    [] e.kind = "feed"    -> <<Setting("feed", e.lines)>>
    [] e.kind = "cut"     -> <<Setting("cut", 0)>>

\* Why the encoder refuses an element, or "none".
EncodeError(e) ==
  CASE e.kind \in {"text", "row"} /\ ~e.ascii       -> "UnicodeRequiresRasterization"
    [] e.kind = "barcode" /\ ~BarcodeValid(e)        -> "InvalidBarcode"
    [] e.kind = "barcode" /\ BarcodePayload(e) > 255 -> "InvalidBarcode"
    [] OTHER                                         -> "none"

TokenBytes(t) ==
  CASE t.op = "word"    -> t.word.width
    [] t.op = "spaces"  -> t.n
    [] t.op \in {"tab", "nl"} -> 1
    [] t.op = "raster"  -> 8 + t.payload
    [] t.op = "qr"      -> 5 + t.payload
    [] t.op = "barcode" -> 4 + t.payload
    [] OTHER            -> 3

StreamBytes == SumOf([i \in 1..Len(stream) |-> TokenBytes(stream[i])])

-----------------------------------------------------------------------------
(* The ESC/POS interpreter: Parser *)

MaxRasterBytes == 2 * 1024 * 1024
MaxQrBytes == 4096

FreshParser(width) ==
  [columns |-> Columns(width), offset |-> 1, align |-> "left", bold |-> FALSE, text |-> << >>,
   qr |-> << >>, height |-> 80, readable |-> TRUE, elements |-> << >>, error |-> "none"]

Push(p, e) == [p EXCEPT !.elements = Append(@, e), !.text = << >>]
Stop(p, error) == [p EXCEPT !.error = error]

\* A text of spaces only has no line to draw; an empty one has a line.
TextElement(p) ==
  [kind |-> "text", align |-> p.align, bold |-> p.bold, ascii |-> TRUE, at |-> 0,
   lines |-> IF WordsOf(p.text) = << >> THEN << >> ELSE <<WordsOf(p.text)>>]

FlushText(p) == IF p.text = << >> THEN p ELSE Push(p, TextElement(p))

\* A run of two spaces or more, written as one token or as several.
Wide(tokens, i) ==
  /\ tokens[i].op = "spaces"
  /\ \/ tokens[i].n >= 2
     \/ i > 1 /\ tokens[i - 1].op = "spaces"
     \/ i < Len(tokens) /\ tokens[i + 1].op = "spaces"

\* The last such run separates the columns of a row.  Spaces inside them are
\* not kept: what is done with a row from here on wraps it.
SplitEmittedRow(tokens) ==
  LET gaps  == {i \in 1..Len(tokens) : Wide(tokens, i)}
      left  == WordsOf(SubSeq(tokens, 1, Max(gaps) - 1))
      right == WordsOf(SubSeq(tokens, Max(gaps) + 1, Len(tokens)))
  IN  IF gaps = {} \/ left = << >> THEN << >>
      ELSE << [kind |-> "row", left |-> WordTokens(left), right |-> WordTokens(right),
               ascii |-> TRUE, at |-> 0] >>

\* A line that is nothing but as many dashes as the paper has columns.
IsRule(p) ==
  /\ Len(p.text) = 1 /\ p.text[1].op = "word"
  /\ p.text[1].word.dashes /\ p.text[1].word.width = p.columns

FinishTextLine(p) ==
  CASE p.text = << >> -> Push(p, [kind |-> "feed", lines |-> 1, at |-> 0])
    [] IsRule(p)      -> Push(p, [kind |-> "divider", word |-> p.text[1].word, at |-> 0])
    [] OTHER -> LET row == SplitEmittedRow(p.text)
                IN  Push(p, IF row = << >> THEN TextElement(p) ELSE row[1])

\* A declared length other than the payload's takes the wrong bytes.
ParseRaster(p, t) ==
  LET row    == t.low + 256 * t.high
      height == t.heightLow + 256 * t.heightHigh
  IN  IF row = 0 \/ height = 0 \/ row * height > MaxRasterBytes \/ row * height # t.payload
      THEN Stop(p, "invalid")
      ELSE Push(p, [kind |-> "image", width |-> row * 8, height |-> height,
                    stride |-> row, decodes |-> TRUE, at |-> t.at])

ParseQr(p, t) ==
  LET length == t.low + 256 * t.high
  IN  IF length = 0 \/ length > MaxQrBytes + 3 \/ length # t.payload
      THEN Stop(p, "invalid")
      ELSE CASE t.function = "store" -> [p EXCEPT !.qr = t.stored]
             [] t.function = "print" ->
                  IF p.qr = << >> THEN Stop(p, "unsupported")
                  ELSE [Push(p, p.qr[1]) EXCEPT !.qr = << >>]
             [] OTHER                -> p

ParseBarcode(p, t) ==
  IF t.length # t.payload THEN Stop(p, "invalid")
  ELSE Push(p, [t.value EXCEPT !.height = p.height, !.readable = p.readable])

AlignmentOf == [code \in 0..2 |-> <<"left", "center", "right">>[code + 1]]

ParseCommand(p, t) ==
  CASE t.op = "init"    -> [p EXCEPT !.align = "left", !.bold = FALSE, !.qr = << >>]
    [] t.op = "align"   -> [p EXCEPT !.align = AlignmentOf[t.value]]
    [] t.op = "bold"    -> [p EXCEPT !.bold = (t.value = 1)]
    [] t.op = "feed"    -> IF t.value = 0 THEN Stop(p, "unsupported")
                           ELSE Push(p, [kind |-> "feed", lines |-> t.value, at |-> 0])
    [] t.op = "hri"     -> [p EXCEPT !.readable = (t.value # 0)]
    [] t.op = "height"  -> [p EXCEPT !.height = t.value]
    [] t.op = "cut"     -> Push(p, [kind |-> "cut", at |-> 0])
    [] t.op = "raster"  -> ParseRaster(p, t)
    [] t.op = "qr"      -> ParseQr(p, t)
    [] t.op = "barcode" -> ParseBarcode(p, t)

\* A control character in the text.
Control(t) == t.op = "tab" \/ (t.op = "word" /\ ~t.word.plain)

\* The text before a control character is not flushed.
ParseToken(p, t) ==
  LET next == [p EXCEPT !.offset = @ + 1]
  IN  CASE Control(t)                -> Stop(next, "unsupported")
        [] t.op \in {"word", "spaces"} /\ ~Control(t) -> [next EXCEPT !.text = Append(@, t)]
        [] t.op = "nl"               -> FinishTextLine(next)
        [] OTHER                     -> ParseCommand(FlushText(next), t)

-----------------------------------------------------------------------------
(* The page: render_layout_page, render_layout_receipt, render_elements *)

MaxPagePixels == 42000000
MaxReceiptImageHeight == 8192
TopMarginMm == 12

Scale(dpi) == Larger((dpi * 3) \div 300, 1)
LineHeight(dpi) == 9 * Scale(dpi)
MaxChars(strip, dpi) == Larger(strip \div (8 * Scale(dpi)), 1)

\* fit_dimensions: the rounded size under the smaller of the two ratios.
RoundDiv(a, b) == (2 * a + b) \div (2 * b)
FitDimensions(w, h, maxW, maxH) ==
  IF maxW = 0 \/ maxH = 0 THEN <<0, 0>>
  ELSE IF w <= maxW /\ h <= maxH THEN <<w, h>>
  ELSE IF maxW * h <= maxH * w THEN <<maxW, Larger(RoundDiv(h * maxW, w), 1)>>
  ELSE <<Larger(RoundDiv(w * maxH, h), 1), maxH>>

ImageAt(e, dpi) ==
  <<Larger((e.width * dpi) \div 203, 1), Larger((e.height * dpi) \div 203, 1)>>

QrModule(e, strip, dpi) ==
  Larger(Smaller(Larger((dpi * 6) \div 203, 1), strip \div (e.modules + 8)), 1)

BarcodeHeight(e, dpi) == Larger((dpi * e.height) \div 203, 1)
BarcodeModule(e, strip, dpi) ==
  LET fits == Larger(strip - 20, 1) \div e.modules
  IN  Larger(Smaller(fits, Larger(dpi \div 100, 1)), 1)

\* Why drawing an element fails, or "none".
DrawError(e, strip) ==
  CASE e.kind = "qr" /\ e.modules = 0                              -> "InvalidImage"
    [] e.kind = "barcode" /\ e.modules = 0                         -> "BarcodeRender"
    [] e.kind = "barcode" /\ e.modules > Larger(strip - 20, 1)     -> "BarcodeRender"
    [] OTHER                                                       -> "none"

RowLines(e, chars) ==
  LET leftChars == (chars * 3) \div 5
  IN  [left  |-> WrapCell(e.left, Larger(leftChars, 1)),
       right |-> WrapCell(e.right, Larger(chars - leftChars - 1, 1))]

\* The size of the image on this canvas, given the height that is left.
PlacedImage(c, e) ==
  FitDimensions(ImageAt(e, c.dpi)[1], ImageAt(e, c.dpi)[2], c.strip,
                Smaller(MaxReceiptImageHeight, c.height - c.y))

\* Mutant: no gap below an image.
AdvanceWithoutGap(c, e) ==
  LET line == LineHeight(c.dpi)
      rows == RowLines(e, MaxChars(c.strip, c.dpi))
  IN  CASE e.kind = "text"    -> line * Len(WrapText(e.lines, MaxChars(c.strip, c.dpi)))
        [] e.kind = "row"     -> line * Larger(Len(rows.left), Len(rows.right))
        [] e.kind = "image"   -> PlacedImage(c, e)[2]
        [] e.kind = "feed"    -> e.lines * line
        [] OTHER              -> 0

\* How far an element moves the cursor.
Advance(c, e) ==
  LET line  == LineHeight(c.dpi)
      gap   == 2 * Scale(c.dpi)
      chars == MaxChars(c.strip, c.dpi)
      rows  == RowLines(e, chars)
  IN  CASE e.kind = "text"    -> line * Len(WrapText(e.lines, chars))
        [] e.kind = "row"     -> line * Larger(Len(rows.left), Len(rows.right))
        [] e.kind = "divider" -> line
        [] e.kind = "image"   -> PlacedImage(c, e)[2] + gap
        [] e.kind = "qr"      -> (e.modules + 8) * QrModule(e, c.strip, c.dpi) + gap
        [] e.kind = "barcode" -> BarcodeHeight(e, c.dpi) + gap + (IF e.readable THEN line ELSE 0)
        [] e.kind = "feed"    -> e.lines * line
        [] e.kind = "cut"     -> 0

\* The characters of a line: draw_text gives each of them a glyph.
GlyphCount(words) ==
  SumOf([i \in 1..Len(words) |-> words[i].width * words[i].stack]) + Larger(Len(words) - 1, 0)

\* The widths of what an element draws.
Drawn(c, e) ==
  LET glyph == 8 * Scale(c.dpi)
      chars == MaxChars(c.strip, c.dpi)
      rows  == RowLines(e, chars)
      wide(lines) == {GlyphCount(lines[i]) * glyph : i \in 1..Len(lines)}
  IN  CASE e.kind = "text"    -> wide(WrapText(e.lines, chars))
        [] e.kind = "row"     -> wide(rows.left) \cup wide(rows.right)
        [] e.kind = "divider" -> {c.strip}
        [] e.kind = "image"   -> {PlacedImage(c, e)[1]}
        [] e.kind = "qr"      -> {(e.modules + 8) * QrModule(e, c.strip, c.dpi)}
        [] e.kind = "barcode" -> {e.modules * BarcodeModule(e, c.strip, c.dpi)}
        [] OTHER              -> {}

\* The human-readable line below a bar code, one glyph per character; it is
\* neither wrapped nor measured against the strip.
HriGlyphScale == 2
CaptionWidth(c, e) ==
  IF e.kind = "barcode" /\ e.readable
  THEN e.length * 8 * Smaller(HriGlyphScale, Scale(c.dpi)) ELSE 0

\* Mutant: the lines are counted before they are wrapped.
EstimateLinesUnwrapped(e, chars) == IF e.kind = "text" THEN Larger(Len(e.lines), 1) ELSE 1

\* The lines that estimate_layout_height counts for a text or a row.
EstimateLines(e, chars) ==
  IF e.kind = "text" THEN Larger(Len(WrapText(e.lines, chars)), 1)
  ELSE Larger(Larger(Len(WrapCell(e.left, Larger((chars * 3) \div 5, 1))),
                     Len(WrapCell(e.right, Larger((chars * 2) \div 5, 1)))), 1)

\* estimate_layout_height: the height reserved for an element.
Estimate(e, strip, dpi) ==
  LET line == LineHeight(dpi)
      gap  == 2 * Scale(dpi)
  IN  CASE e.kind \in {"text", "row"} -> line * EstimateLines(e, MaxChars(strip, dpi))
        [] e.kind = "divider" -> line
        [] e.kind = "image"   -> Smaller((e.height * dpi) \div 203, MaxReceiptImageHeight) + gap
        [] e.kind = "qr"      -> (e.modules + 8) * Larger((dpi * 6) \div 203, 1) + gap
        [] e.kind = "barcode" ->
             (dpi * e.height) \div 203 + (IF e.readable THEN line ELSE 0) + gap
        [] e.kind = "feed"    -> e.lines * line
        [] e.kind = "cut"     -> 0

EstimateHeight(elements, strip, dpi) ==
  4 * Scale(dpi) + SumOf([i \in 1..Len(elements) |-> Estimate(elements[i], strip, dpi)])

NoCanvas ==
  [width |-> 0, height |-> 0, dpi |-> 0, strip |-> 0, y |-> 0, drawn |-> << >>]

\* The options of an installed driver.
A4Portrait == [width |-> 210, height |-> 297, dpi |-> 300]

ValidPage(page) ==
  page.width \in 100..500 /\ page.height \in 100..500 /\ page.dpi \in 72..600

\* The receipt is centred below the top margin.
PageCanvas(page) ==
  LET pixels(mm) == MmToPixels(mm, page.dpi)
  IN  [width |-> pixels(page.width), height |-> pixels(page.height), dpi |-> page.dpi,
       strip |-> Smaller(pixels(doc.width), pixels(page.width)),
       y |-> pixels(TopMarginMm), drawn |-> << >>]

\* A canvas as tall as the estimate, at 203 DPI.
PreviewCanvas(elements) ==
  LET strip == MmToPixels(doc.width, 203)
  IN  [width |-> strip, height |-> EstimateHeight(elements, strip, 203), dpi |-> 203,
       strip |-> strip, y |-> 0, drawn |-> << >>]

-----------------------------------------------------------------------------
(* The pipeline *)

Fail(error) == pc' = error /\ UNCHANGED <<doc, target, layout, stream, parser, canvas>>

Validate ==
  /\ pc = "validate"
  /\ IF \A i \in 1..Len(doc.sections) : ValidSection(doc.sections[i])
     THEN pc' = "layout" /\ UNCHANGED <<doc, target, layout, stream, parser, canvas>>
     ELSE Fail("InvalidDocument")

Elements ==
  [i \in 1..Len(doc.sections) |-> Named(Element(doc.sections[i], doc.width), i)]

FromDocument ==
  /\ pc = "layout"
  /\ IF \E i \in 1..Len(doc.sections) : doc.sections[i].kind = "image" /\ ~doc.sections[i].decodes
     THEN Fail("InvalidImage")
     ELSE /\ layout' = Elements
          /\ pc' = IF target.kind = "page" THEN "canvas" ELSE "encode"
          /\ stream' = IF target.kind = "page" THEN << >> ELSE <<Command("init")>>
          /\ UNCHANGED <<doc, target, parser, canvas>>

Encode ==
  /\ pc = "encode" /\ layout # << >>
  /\ IF EncodeError(Head(layout)) # "none" THEN Fail(EncodeError(Head(layout)))
     ELSE /\ stream' = stream \o EncodeElement(Head(layout), doc.width)
          /\ layout' = Tail(layout)
          /\ UNCHANGED <<doc, target, pc, parser, canvas>>

FinishEncode ==
  /\ pc = "encode" /\ layout = << >>
  /\ IF StreamBytes > MaxOutput THEN Fail("OutputTooLarge")
     ELSE pc' = "interpret" /\ UNCHANGED <<doc, target, layout, stream, parser, canvas>>

Interpret ==
  /\ pc = "interpret" /\ parser.offset <= Len(stream) /\ parser.error = "none"
  /\ parser' = ParseToken(parser, stream[parser.offset])
  /\ UNCHANGED <<doc, target, pc, layout, stream, canvas>>

\* A preview keeps what came before an unsupported command; a driver page
\* is refused.
FinishInterpret ==
  /\ pc = "interpret" /\ (parser.offset > Len(stream) \/ parser.error # "none")
  /\ IF parser.error = "invalid" \/ (parser.error = "unsupported" /\ target.kind = "driver")
     THEN Fail("InvalidEscPos")
     ELSE LET read == IF parser.error = "none" THEN FlushText(parser) ELSE parser
          IN  /\ parser' = read
              /\ layout' = read.elements
              /\ pc' = "canvas"
              /\ UNCHANGED <<doc, target, stream, canvas>>

\* The estimate of a preview encodes every code to learn its height.
NewCanvas ==
  /\ pc = "canvas"
  /\ LET strip == MmToPixels(doc.width, 203)
         codes == {i \in 1..Len(layout) : layout[i].kind \in {"qr", "barcode"} /\ layout[i].modules = 0}
         made  == IF target.kind = "preview" THEN PreviewCanvas(layout) ELSE PageCanvas(target.page)
     IN  IF target.kind = "preview" /\ codes # {}
         THEN Fail(DrawError(layout[Min(codes)], strip))
         ELSE IF target.kind # "preview" /\ ~ValidPage(target.page) THEN Fail("InvalidPageOptions")
         ELSE IF made.width * made.height > MaxPagePixels THEN Fail("OutputTooLarge")
         ELSE /\ canvas' = made
              /\ pc' = "draw"
              /\ UNCHANGED <<doc, target, layout, stream, parser>>

Draw ==
  /\ pc = "draw" /\ layout # << >>
  /\ LET e == Head(layout)
         y == canvas.y + Advance(canvas, e)
     IN  IF DrawError(e, canvas.strip) # "none" THEN Fail(DrawError(e, canvas.strip))
         ELSE IF y > canvas.height THEN Fail("PageOverflow")
         ELSE /\ canvas' = [canvas EXCEPT !.y = y,
                  !.drawn = Append(@, [widths |-> Drawn(canvas, e), caption |-> CaptionWidth(canvas, e),
                                       height |-> y - canvas.y, element |-> e])]
              /\ layout' = Tail(layout)
              /\ UNCHANGED <<doc, target, pc, stream, parser>>

\* A page counts as output of the renderer; a preview is cut to its content.
FinishDraw ==
  /\ pc = "draw" /\ layout = << >>
  /\ IF target.kind = "page" /\ CeilDiv(canvas.width, 8) * canvas.height > MaxOutput
     THEN Fail("OutputTooLarge")
     ELSE /\ pc' = "done"
          /\ canvas' = IF target.kind = "preview"
                       THEN [canvas EXCEPT !.height = Smaller(Larger(canvas.y, 1), canvas.height)]
                       ELSE canvas
          /\ UNCHANGED <<doc, target, layout, stream, parser>>

Init ==
  /\ doc \in [width : Widths, sections : UNION {[1..n -> Sections] : n \in 1..MaxSections}]
  /\ target \in [kind : {"preview", "driver"}, page : {A4Portrait}]
                 \cup [kind : {"page"}, page : Pages \cup {A4Portrait}]
  /\ pc = "validate"
  /\ layout = << >> /\ stream = << >> /\ parser = FreshParser(doc.width) /\ canvas = NoCanvas

Next == \/ Validate \/ FromDocument \/ Encode \/ FinishEncode
        \/ Interpret \/ FinishInterpret \/ NewCanvas \/ Draw \/ FinishDraw

Spec == Init /\ [][Next]_vars

-----------------------------------------------------------------------------
(* Properties *)

Words(e) ==
  CASE e.kind = "text" -> FlattenSeq(e.lines)
    [] e.kind = "row"  -> WordsOf(e.left) \o WordsOf(e.right)
    [] e.kind = "divider" -> <<e.word>>
    [] OTHER           -> << >>

AllWords(elements) == FlattenSeq([i \in 1..Len(elements) |-> Words(elements[i])])

\* How many columns each word of a layout takes, over all its pieces.
Ids(words) == {words[i].id : i \in 1..Len(words)}
InkOf(words, id) == SumOf([i \in 1..Len(words) |-> IF words[i].id = id THEN words[i].width ELSE 0])
Ink(elements) == [id \in Ids(AllWords(elements)) |-> InkOf(AllWords(elements), id)]

\* The lines that are fed: feeds, and the empty lines of texts.
BlankLines(lines) == SumOf([l \in 1..Len(lines) |-> IF lines[l] = << >> THEN 1 ELSE 0])
Fed(e) ==
  CASE e.kind = "feed" -> e.lines
    [] e.kind = "text" -> BlankLines(e.lines)
    [] OTHER           -> 0
Feeds(elements) == SumOf([i \in 1..Len(elements) |-> Fed(elements[i])])

\* What a layout draws besides words, in its order; the width of an image is
\* rounded up to whole bytes in the stream.
Mark(e) ==
  CASE e.kind = "image"            -> << <<e.kind, e.stride, e.height>> >>
    [] e.kind \in {"qr", "barcode"} -> << <<e.kind, e>> >>
    [] e.kind = "cut"               -> << <<e.kind>> >>
    [] OTHER                        -> << >>
Marks(elements) == FlattenSeq([i \in 1..Len(elements) |-> Mark(elements[i])])

\* The words of one column of one section stay in their order, and sections
\* do not overtake each other.
Before(a, b) == a[1] < b[1] \/ (a[1] = b[1] /\ (a[2] # b[2] \/ a[3] <= b[3]))
Ordered(words) == \A i, j \in 1..Len(words) : i < j => Before(words[i].id, words[j].id)
InOrder(elements) == Ordered(AllWords(elements))

\* A cell whose words are separated by single spaces and by nothing else.
Tight(cell) == cell = WordTokens(WordsOf(cell))

\* Text keeps its alignment and weight, a row is plain, a divider stays one.
\* What is read as a row was one, and has its columns where the document has
\* them if its cells are tight: a run of spaces inside a cell may be read as
\* the gap between the columns.
StyleKept(e) ==
  \A i \in 1..Len(Words(e)) :
    LET from == doc.sections[Words(e)[i].id[1]]
    IN  /\ (e.kind = "text" /\ from.kind = "text") => (e.align = from.align /\ e.bold = from.bold)
        /\ (e.kind = "text" /\ from.kind = "row") => (e.align = "left" /\ ~e.bold)
        /\ from.kind = "divider" => e.kind = "divider"
        /\ e.kind = "row" =>
             /\ from.kind = "row"
             /\ Tight(from.left) /\ Tight(from.right) =>
                  Words(e)[i].id[2] = IF i <= Len(WordsOf(e.left)) THEN 1 ELSE 2

\* A QR value over the interpreter's limit.
LongQr == \E i \in 1..Len(doc.sections) :
            doc.sections[i].kind = "qr" /\ doc.sections[i].bytes > MaxQrBytes

\* A control character in a text or a row.
HasControl(s) ==
  \/ /\ s.kind = "text"
     /\ \E l \in 1..Len(s.lines) : \E i \in 1..Len(s.lines[l]) : ~s.lines[l][i].plain
  \/ s.kind = "row" /\ \E i \in 1..Len(s.left) : Control(s.left[i])
  \/ s.kind = "row" /\ \E i \in 1..Len(s.right) : Control(s.right[i])
Unprintable == \E i \in 1..Len(doc.sections) : HasControl(doc.sections[i])

(* The interpreter reads every stream of the encoder to its end; only a QR *)
(* value over its limit is refused (escpos.rs against lib.rs), and then    *)
(* nothing is drawn from the part that was read, and only at a control     *)
(* character, which the encoder lets pass, it stops.                       *)
ReadWhole ==
  /\ (target.kind # "page" /\ pc \in {"canvas", "draw", "done"}) =>
       parser.error = "none" \/ Unprintable
  /\ pc = "InvalidEscPos" => LongQr \/ Unprintable

\* The interpreter came to the end of the stream and its elements are drawn.
DrawsStream ==
  target.kind # "page" /\ pc \in {"canvas", "draw", "done"} /\ parser.error = "none"

(* No word is lost, doubled or reordered however lines were wrapped and    *)
(* rows were split, as many lines are fed, and codes, images and cuts are  *)
(* the same.                                                               *)
ContentKept ==
  DrawsStream =>
    /\ Ink(parser.elements) = Ink(Elements) /\ InOrder(parser.elements)
    /\ Feeds(parser.elements) = Feeds(Elements)
    /\ Marks(parser.elements) = Marks(Elements)

(* Interpreting the stream that the encoder wrote gives the document back: *)
(* it is read whole, its contents are kept, and the style does not leak    *)
(* from one section into the next.  A line of dashes as wide as the paper  *)
(* and a divider are the same thing.                                       *)
ContentSurvives ==
  /\ ReadWhole
  /\ ContentKept
  /\ DrawsStream => \A i \in 1..Len(parser.elements) : StyleKept(parser.elements[i])

(* The height that estimate_layout_height reserves is enough for what      *)
(* render_elements draws: the preview of an accepted submission never      *)
(* fails with PageOverflow.                                                *)
PreviewFits == target.kind = "preview" => pc # "PageOverflow"

\* No combining marks: one character in each column.
Unmarked(e) == \A k \in 1..Len(Words(e)) : Words(e)[k].stack = 1

(* A finished page shows every element whole: nothing is wider than the    *)
(* receipt, and no image is squeezed into the rest of the page.  The code  *)
(* does not bound three marks by the strip: text with combining marks is   *)
(* wrapped by its columns and drawn by its characters, a QR code with more *)
(* modules than the strip has pixels gets one pixel for each, and the      *)
(* human-readable line of a Code 128 or Code 39 value can be wider than    *)
(* its bars.                                                               *)
DrawnWhole ==
  pc = "done" =>
    \A i \in 1..Len(canvas.drawn) :
      LET d == canvas.drawn[i]
          most == IF d.element.kind = "qr" THEN Larger(canvas.strip, d.element.modules + 8)
                  ELSE canvas.strip
      IN  /\ Unmarked(d.element) => \A w \in d.widths : w <= most
          /\ (d.element.kind = "barcode" /\ d.element.format \in {"ean13", "upca"})
               => d.caption <= canvas.strip
          /\ d.element.kind = "image" =>
               d.height - 2 * Scale(canvas.dpi)
                 = FitDimensions(ImageAt(d.element, canvas.dpi)[1],
                                 ImageAt(d.element, canvas.dpi)[2],
                                 canvas.strip, MaxReceiptImageHeight)[2]

=============================================================================
