------------------------------- MODULE EscPos --------------------------------
(***************************************************************************)
(* The encoders of receipts (src/internal/adapters/printing/encoder/       *)
(* escpos): raster pages or plain text to ESC/POS commands, and the        *)
(* printer at the other end, which folds the commands onto paper.          *)
(*                                                                         *)
(* A bitmap is a width and its rows, a row the bytes Binarizer!pack makes. *)
(* Commands keep the numbers the code writes into bytes, so a length that  *)
(* does not fit is cut off.                                                *)
(***************************************************************************)
EXTENDS Integers, SequencesExt

bandRows             == 128
defaultCutFeedDots   == 232
defaultTopMarginDots == 16
escJMax              == 255
maxFeedDots          == 2000

\* MonoBitmap.Stride: the bytes of one row.
Stride(mb) == (mb.width + 7) \div 8

Blank(row) == \A b \in DOMAIN row : row[b] = 0

------------------------------------------------------------------------------
(* The command stream *)

Byte(n) == n % 256

CmdInit       == [op |-> "init"]
CmdDrawer     == [op |-> "drawer"]
CmdFullCut    == [op |-> "cut"]
Feed(n)       == [op |-> "feed", n |-> Byte(n)]
Text(body)    == [op |-> "text", body |-> body]

\* One GS v 0 block: the header's four bytes and the data that follows it.
Block(stride, rows) ==
  [op |-> "raster",
   x |-> <<Byte(stride), Byte(stride \div 256)>>,
   y |-> <<Byte(Len(rows)), Byte(Len(rows) \div 256)>>,
   rows |-> rows]

\* One ESC J per escJMax dots; the last one carries the rest.
chain[dots \in 0 .. maxFeedDots] ==
  IF dots = 0 THEN <<>>
  ELSE LET n == IF dots > escJMax THEN escJMax ELSE dots
       IN  <<Feed(n)>> \o chain[dots - n]

resolveCutFeed(dots) ==
  IF dots <= 0 THEN defaultCutFeedDots
  ELSE IF dots > maxFeedDots THEN maxFeedDots ELSE dots

escJFeed(dots) == chain[resolveCutFeed(dots)]

resolveTopMargin(dots) == IF dots <= 0 THEN defaultTopMarginDots ELSE dots

\* The loops count blank rows from one end and stop at the first with ink.
LeadingBlank(rows) ==
  LET ink == SelectInSeq(rows, LAMBDA row : ~Blank(row))
  IN  IF ink = 0 THEN Len(rows) ELSE ink - 1

TrailingBlank(rows) == LeadingBlank(Reverse(rows))

trimTrailingBlank(mb) ==
  [mb EXCEPT !.rows = SubSeq(@, 1, Len(@) - TrailingBlank(@))]

trimLeadingBlankTo(mb, keep) ==
  LET blank == LeadingBlank(mb.rows)
  IN  IF blank <= keep THEN mb
      ELSE [mb EXCEPT !.rows = SubSeq(@, blank - keep + 1, Len(@))]

\* Mutant: a last band that is not full is never sent.
writeRaster_WholeBands(mb) ==
  [b \in 1 .. Len(mb.rows) \div bandRows |->
     Block(Stride(mb), SubSeq(mb.rows, (b - 1) * bandRows + 1, b * bandRows))]

\* Bands of bandRows rows, the last one shorter.
writeRaster(mb) ==
  LET height == Len(mb.rows)
      bands == (height + bandRows - 1) \div bandRows
      last(b) == IF b * bandRows > height THEN height ELSE b * bandRows
  IN  [b \in 1 .. bands |->
         Block(Stride(mb), SubSeq(mb.rows, (b - 1) * bandRows + 1, last(b)))]

Finish(opts) ==
  (IF opts.drawer THEN <<CmdDrawer>> ELSE <<>>)
  \o (IF opts.cut THEN escJFeed(opts.cutFeed) \o <<CmdFullCut>> ELSE <<>>)

\* Raster.Encode of the binarized pages.
EncodeRaster(pages, opts) ==
  LET trimmed(i) ==
        LET mb == trimTrailingBlank(pages[i])
        IN  IF i = 1 THEN trimLeadingBlankTo(mb, resolveTopMargin(opts.topMargin)) ELSE mb
  IN  <<CmdInit>>
      \o FlattenSeq([i \in DOMAIN pages |-> writeRaster(trimmed(i))])
      \o Finish(opts)

\* Text.Encode: an empty body is a job that only opens the drawer.
EncodeText(body, opts) ==
  <<CmdInit>> \o (IF body # <<>> THEN <<Text(body)>> ELSE <<>>) \o Finish(opts)

------------------------------------------------------------------------------
(* The printer (external): what a stream of commands leaves on paper *)

Fresh == [rows |-> <<>>, text |-> <<>>, fed |-> 0, cuts |-> <<>>, kicks |-> 0, sane |-> TRUE]

\* A block is read by its header: a header that disagrees with the data, or a
\* feed of no dots, leaves the printer out of step with the stream.
Obey(paper, cmd) ==
  CASE cmd.op = "init"   -> paper
    [] cmd.op = "text"   -> [paper EXCEPT !.text = @ \o cmd.body, !.fed = 0]
    [] cmd.op = "drawer" -> [paper EXCEPT !.kicks = @ + 1]
    [] cmd.op = "feed"   -> [paper EXCEPT !.fed = @ + cmd.n, !.sane = @ /\ cmd.n > 0]
    [] cmd.op = "cut"    -> [paper EXCEPT !.cuts = Append(@, paper.fed)]
    [] cmd.op = "raster" ->
         LET height == cmd.y[1] + 256 * cmd.y[2]
             width  == cmd.x[1] + 256 * cmd.x[2]
         IN  [paper EXCEPT !.rows = @ \o cmd.rows, !.fed = 0,
                           !.sane = /\ @
                                    /\ height = Len(cmd.rows)
                                    /\ height <= bandRows
                                    /\ \A y \in DOMAIN cmd.rows : Len(cmd.rows[y]) = width]

Printed(stream) ==
  LET paper[n \in 0 .. Len(stream)] == IF n = 0 THEN Fresh ELSE Obey(paper[n - 1], stream[n])
  IN  paper[Len(stream)]
=============================================================================
