------------------------------- MODULE Devices -------------------------------
(***************************************************************************)
(* What the last stages of the print path make of a page: the encoders of  *)
(* receipts and the printer they drive, the binarizer, the container       *)
(* between the raster encoder and the GDI driver, and the driver's page.   *)
(* Each conversion is one call; work holds its arguments and what came     *)
(* out, and the invariants compare the two with what a device does.        *)
(***************************************************************************)
EXTENDS EscPos, GdiRaster
CONSTANTS None,
          Receipts,    \* sequences of bitmaps: the pages of a receipt, binarized
          Bodies,      \* texts
          Options,     \* EncodeOptions: cut, drawer, cutFeed, topMargin
          Pictures,    \* gray pages for the binarizer
          Containers,  \* sequences of pages for the container
          Pages,       \* pages for the GDI driver
          Levels,      \* how often the printer has rejected the page's bitmap
          Areas,       \* geometries printers report
          Margins      \* page margins, in tenths of a millimetre

PNG == INSTANCE MultiPNG

\* A container counts its pages, and their bytes, with 32 bits.
Counted(n) == n \div 65536 < 65536

\* A bitmap's rows are as long as its width says, and the two bytes of a raster
\* header count the bytes of a row.
Framed(mb) == Stride(mb) < 65536 /\ \A y \in 1 .. Len(mb.rows) : Len(mb.rows[y]) = Stride(mb)

ASSUME DevicesAssumption ==
  /\ None \notin Seq(Seq(Nat)) \cup [off : Nat, pages : Seq(Seq(Nat))]
  /\ \A pages \in Receipts :
       /\ pages \in Seq([width : Nat, rows : Seq(Seq(Nat))])
       /\ \A i \in 1 .. Len(pages) : Framed(pages[i])
  /\ Bodies \subseteq Seq(STRING)
  /\ Options \subseteq [cut : BOOLEAN, drawer : BOOLEAN, cutFeed : Int, topMargin : Int]
  /\ \A pic \in Pictures :
       pic.width \in Nat /\ pic.rows \in Seq([1 .. pic.width -> 0 .. 255])
  /\ \A pages \in Containers :
       /\ pages \in Seq(Seq(Nat)) /\ Counted(Len(pages))
       /\ \A i \in 1 .. Len(pages) : Counted(Len(pages[i]))
  /\ \A pic \in Pages :
       /\ pic.width \in Nat \ {0} /\ pic.rows # <<>>
       /\ pic.rows \in Seq([1 .. pic.width -> [1 .. 3 -> 0 .. 255]])
  /\ \A a \in Areas :
       /\ a.printW \in Nat \ {0} /\ a.printH \in Nat \ {0}
       /\ {a.physW, a.physH, a.offX, a.offY, a.dpiX, a.dpiY} \subseteq Int
  /\ Margins \subseteq Int

VARIABLE work

Nothing == [task |-> "none"]

DevicesInit == work = Nothing

Start == work = Nothing

\* Raster.Encode.
EncodeReceipt ==
  /\ Start
  /\ \E pages \in Receipts, opts \in Options :
       work' = [task |-> "receipt", pages |-> pages, body |-> <<>>, opts |-> opts,
                stream |-> EncodeRaster(pages, opts)]

\* Text.Encode.
EncodeSlip ==
  /\ Start
  /\ \E body \in Bodies, opts \in Options :
       work' = [task |-> "receipt", pages |-> <<>>, body |-> body, opts |-> opts,
                stream |-> EncodeText(body, opts)]

\* Otsu.Binarize with the bias of a density.
BinarizePage ==
  /\ Start
  /\ \E pic \in Pictures, density \in Densities :
     \E threshold \in otsuThreshold(Pixels(pic)) :
       work' = [task |-> "binarize", pic |-> pic, density |-> density, threshold |-> threshold,
                bitmap |-> pack(pic, Level(threshold, densityBias(density)))]

\* MultiPNG.Encode.
PackPages ==
  /\ Start
  /\ \E pages \in Containers :
       work' = [task |-> "container", pages |-> pages, data |-> PNG!Encode(pages)]

\* Driver.drawPage.
DrawPage ==
  /\ Start
  /\ \E pic \in Pages, level \in Levels, area \in Areas, margin \in Margins :
     \E drawn \in drawPage(pic, level, 0, area, margin) :
       work' = [task |-> "draw", pic |-> pic, area |-> area, margin |-> margin, drawn |-> drawn]

\* The caller has what it asked for.
Return == work # Nothing /\ work' = Nothing

DevicesNext ==
  \/ EncodeReceipt \/ EncodeSlip \/ BinarizePage \/ PackPages \/ DrawPage \/ Return

DevicesSpec == DevicesInit /\ [][DevicesNext]_work
------------------------------------------------------------------------------
(* Receipts *)

\* What should be left of page i: no blank row after its last ink, and on the first
\* page at most margin of them before its first.
Wanted(pages, i, margin) ==
  LET rows == pages[i].rows
      ink  == {y \in DOMAIN rows : ~Blank(rows[y])}
      from == IF i = 1 /\ Min(ink) > margin THEN Min(ink) - margin ELSE 1
  IN  IF ink = {} THEN <<>> ELSE SubSeq(rows, from, Max(ink))

\* On the paper of a receipt stands every row of every page in order, with only
\* blank rows left out and no block or feed a printer would misread; one cut, if
\* asked for, comes after the last row with the whole feed below it, and the drawer
\* opens once, if asked for; a job without a body moves no paper but for its cut
\* (Raster.Encode and Text.Encode; docs/CORTE.md).
ReceiptOnPaper ==
  work.task = "receipt" =>
    LET paper  == Printed(work.stream)
        opts   == work.opts
        margin == IF opts.topMargin <= 0 THEN 16 ELSE opts.topMargin
        feed   == IF opts.cutFeed <= 0 THEN 232 ELSE Min({opts.cutFeed, 2000})
    IN  /\ paper.sane
        /\ paper.rows = FlattenSeq([i \in DOMAIN work.pages |-> Wanted(work.pages, i, margin)])
        /\ paper.text = work.body
        /\ paper.kicks = IF opts.drawer THEN 1 ELSE 0
        /\ paper.cuts = IF opts.cut THEN <<feed>> ELSE <<>>
        /\ ~opts.cut => paper.fed = 0
------------------------------------------------------------------------------
(* Black and white *)

\* How far the pixels of a part of the scale are from their own mean, squared and
\* summed, times their number.
Around(pixels, part) ==
  Tally(pixels, [v \in 0 .. 255 |-> IF v \in part THEN v * v ELSE 0]) * Weight(pixels, part)
  - Total(pixels, part) * Total(pixels, part)

\* The same on both sides of a split, added up as the fraction num / den.
Spread(pixels, i) ==
  LET wB == Weight(pixels, Dark(i))
      wF == Weight(pixels, Light(i))
  IN  [num |-> Around(pixels, Dark(i)) * wF + Around(pixels, Light(i)) * wB, den |-> wB * wF]

\* At the normal density a page of two gray values or more keeps both ink and paper,
\* and where one split makes the two sides more alike within themselves than every
\* other, the code makes that one.  A higher density inks the pixels of a lower one
\* and maybe more.  The bitmap's bits are those pixels, the bits past the width clear
\* (Otsu.Binarize, otsuThreshold, pack).
InkFromPaper ==
  work.task = "binarize" =>
    LET pixels == Pixels(work.pic)
        rows   == work.pic.rows
        inked(density) == {v \in Range(pixels) : v <= Level(work.threshold, densityBias(density))}
        at   == (1 .. work.pic.width) \X DOMAIN rows
        dots == {d \in at : Dot(work.bitmap.rows[d[2]], d[1])}
        best == {v \in Splits(pixels) :
                   \A w \in Splits(pixels) : AtLeast(Spread(pixels, w), Spread(pixels, v))}
    IN  /\ Cardinality(best) = 1 =>
             inked(3) = {v \in Range(pixels) : \A b \in best : v <= b}
        /\ best # {} => inked(3) # {} /\ inked(3) # Range(pixels)
        /\ \A d \in Densities : d >= work.density => inked(work.density) \subseteq inked(d)
        /\ dots = {d \in at : rows[d[2]][d[1]] \in inked(work.density)}
        /\ \A y \in DOMAIN rows :
             /\ Len(work.bitmap.rows[y]) = Stride(work.bitmap)
             /\ \A x \in work.pic.width + 1 .. 8 * Stride(work.bitmap) :
                  ~Dot(work.bitmap.rows[y], x)
------------------------------------------------------------------------------
(* The container *)

\* The driver gets back the pages the encoder packed, whatever follows them, and
\* refuses every container that was cut short; there is none without a page
\* (MultiPNG.Encode, DecodeMultiPNG).
ContainerWholeOrRefused ==
  work.task = "container" =>
    IF work.pages = <<>> THEN work.data = None
    ELSE /\ PNG!DecodeMultiPNG(work.data) = work.pages
         /\ PNG!DecodeMultiPNG(work.data \o <<0, 0, 0, 1>>) = work.pages
         /\ \A n \in 0 .. Len(work.data) - 1 :
              PNG!DecodeMultiPNG(SubSeq(work.data, 1, n)) = None
------------------------------------------------------------------------------
(* The GDI driver's page *)

\* The pixels of the page that are averaged into pixel dx, dy (from 0).
Box(dx, dy, dstW, dstH, pic) ==
  LET xs == span(dx, dstW, Width(pic))
      ys == span(dy, dstH, Height(pic))
  IN  {Nth(xs, ys, k) : k \in 0 .. Count(xs, ys) - 1}

\* Every pixel of the page is averaged into exactly one pixel of the reduced page.
EveryPixelOnce(pic, small) ==
  LET box(d) == Box(d[1], d[2], Width(small), Height(small), pic)
      dest   == (0 .. Width(small) - 1) \X (0 .. Height(small) - 1)
  IN  /\ UNION {box(d) : d \in dest} = (0 .. Width(pic) - 1) \X (0 .. Height(pic) - 1)
      /\ \A d, e \in dest : d # e => box(d) \cap box(e) = {}

\* The bitmap Windows reads is the page, right way up and in its colours, or its
\* black and white.
Shows(dib, page, gray) ==
  LET at == (1 .. Width(page)) \X (1 .. Height(page))
      pixel(d) == page.rows[d[2]][d[1]]
  IN  IF gray
      THEN \E level \in otsuThreshold(Pixels(Gray(page))) : \A d \in at :
             ReadDIB(dib, d[1], d[2]) = IF pixel(d)[1] <= level THEN Black ELSE White
      ELSE \A d \in at : ReadDIB(dib, d[1], d[2]) = pixel(d)

\* The sheet less the margin, or the printable area where that is all the driver
\* knows or the margin leaves nothing.
Sheet(a, margin) ==
  LET mx == mmToPx(margin, a.dpiX)
      my == mmToPx(margin, a.dpiY)
  IN  IF valid(a) /\ 2 * mx < a.physW /\ 2 * my < a.physH
      THEN [x |-> mx - a.offX, y |-> my - a.offY, w |-> a.physW - 2 * mx, h |-> a.physH - 2 * my]
      ELSE [x |-> 0, y |-> 0, w |-> a.printW, h |-> a.printH]

Near(a, b, slack) == a - b <= slack /\ b - a <= slack

\* Inside the sheet, centred, reaching two opposite sides but for a pixel of
\* rounding, and in the proportions of the page.
Fits(at, page, sheet) ==
  /\ at.x >= sheet.x /\ at.x + at.w <= sheet.x + sheet.w
  /\ at.y >= sheet.y /\ at.y + at.h <= sheet.y + sheet.h
  /\ Near(2 * (at.x - sheet.x), sheet.w - at.w, 1)
  /\ Near(2 * (at.y - sheet.y), sheet.h - at.h, 1)
  /\ at.w >= sheet.w - 1 \/ at.h >= sheet.h - 1
  /\ Near(at.w * Height(page), at.h * Width(page), 2 * (Width(page) + Height(page)))

\* Every pixel of the page is in the reduced one, Windows reads that one from the
\* bitmap, and it stands where it should on the sheet (drawPage, targetRect, fitRect,
\* downscale and the two packers).
DrawsWholePage ==
  work.task = "draw" =>
    LET drawn == work.drawn
    IN  /\ EveryPixelOnce(work.pic, drawn.small)
        /\ Shows(drawn.dib, drawn.small, isGrayscale(work.pic))
        /\ Fits(drawn.at, drawn.small, Sheet(work.area, work.margin))
=============================================================================
