------------------------------ MODULE GdiRaster ------------------------------
(***************************************************************************)
(* How the GDI driver prepares a page (src/internal/adapters/printing/     *)
(* driver/gdi): the scale of an attempt, the reduced picture, the bitmap   *)
(* handed to Windows and the rectangle of the sheet it is stretched over.  *)
(*                                                                         *)
(* A page is a picture whose pixels are <<red, green, blue>>.  The code    *)
(* computes scales as floats: they are fractions here, and where a product *)
(* is exactly an integer its truncation may come out one lower.            *)
(***************************************************************************)
EXTENDS Binarizer

CONSTANTS firstDIBCap,  \* largest bitmap of a first attempt, in bytes
          inch          \* 254: the tenths of a millimetre of an inch

ASSUME GdiRasterAssumption == firstDIBCap \in Nat \ {0} /\ inch \in Nat \ {0}

stride24(w) == ((w * 3 + 3) \div 4) * 4
stride1(w)  == ((w + 31) \div 32) * 4

dibBytes(w, h, mono) == (IF mono THEN stride1(w) ELSE stride24(w)) * h

Width(pic)  == pic.width
Height(pic) == Len(pic.rows)

isGrayscale(pic) ==
  \A y \in DOMAIN pic.rows : \A x \in DOMAIN pic.rows[y] :
    LET p == pic.rows[y][x] IN p[1] = p[2] /\ p[2] = p[3]

\* int() of n / d computed in floats.
Truncated(n, d) == IF n % d = 0 THEN {n \div d, (n \div d) - 1} ELSE {n \div d}

AtLeastOne(n) == IF n < 1 THEN 1 ELSE n

------------------------------------------------------------------------------
(* The reduced picture *)

\* The square of the factor of the attempt after level rejections: it brings the
\* native size down to firstDIBCap, never up, and 0.8 comes off per rejection.
initialScale(w, h, mono) ==
  LET native == dibBytes(w, h, mono)
  IN  IF native <= firstDIBCap THEN [num |-> 1, den |-> 1]
      ELSE [num |-> firstDIBCap, den |-> native]

\* A side times the factor, truncated, one pixel at least.
ScaledSide(n, scale, level) ==
  Max({1} \cup {m \in 1 .. n :
    m * m * scale.den * 25 ^ level <= n * n * scale.num * 16 ^ level})

\* [lo, hi) of the source that goes into pixel idx of an axis.
span(idx, dstN, srcN) ==
  LET lo == (idx * srcN) \div dstN
      hi == ((idx + 1) * srcN) \div dstN
  IN  <<lo, IF hi <= lo THEN lo + 1 ELSE hi>>

\* How many pixels two spans cover, and the k-th of them, row by row (all from 0).
Count(xs, ys)  == (xs[2] - xs[1]) * (ys[2] - ys[1])
Nth(xs, ys, k) == LET n == xs[2] - xs[1] IN <<xs[1] + (k % n), ys[1] + (k \div n)>>

\* The sums over those pixels, and their average.
SumOver(pic, xs, ys) ==
  LET sum[k \in 0 .. Count(xs, ys)] ==
        IF k = 0 THEN <<0, 0, 0>>
        ELSE LET at == Nth(xs, ys, k - 1)
             IN  [c \in 1 .. 3 |-> sum[k - 1][c] + pic.rows[at[2] + 1][at[1] + 1][c]]
  IN  sum[Count(xs, ys)]

Average(pic, xs, ys) == [c \in 1 .. 3 |-> SumOver(pic, xs, ys)[c] \div Count(xs, ys)]

downscale(pic, dstW, dstH) ==
  IF dstW >= Width(pic) /\ dstH >= Height(pic) THEN pic
  ELSE [width |-> dstW,
        rows |-> [y \in 1 .. dstH |-> [x \in 1 .. dstW |->
                    Average(pic, span(x - 1, dstW, Width(pic)), span(y - 1, dstH, Height(pic)))]]]

Attempt(pic, level) ==
  LET scale == initialScale(Width(pic), Height(pic), isGrayscale(pic))
  IN  downscale(pic, ScaledSide(Width(pic), scale, level), ScaledSide(Height(pic), scale, level))

Gray(pic) ==
  [width |-> pic.width,
   rows |-> [y \in DOMAIN pic.rows |-> [x \in DOMAIN pic.rows[y] |-> pic.rows[y][x][1]]]]

------------------------------------------------------------------------------
(* The bitmap: the header's fields and the bytes *)

Padded(bytes, stride) == bytes \o [i \in 1 .. stride - Len(bytes) |-> 0]

\* 1 bpp, the first row first, index 1 of the palette black.
packMono1bpp(mono) ==
  [bits |-> 1, width |-> mono.width, height |-> - Len(mono.rows),
   data |-> FlattenSeq([y \in DOMAIN mono.rows |-> Padded(mono.rows[y], stride1(mono.width))])]

\* Mutant: the rows in their natural order under a header that says otherwise.
buildBandDIB_TopDown(pic) ==
  [bits |-> 24, width |-> Width(pic), height |-> Height(pic),
   data |-> FlattenSeq([y \in 1 .. Height(pic) |->
              Padded(FlattenSeq([x \in 1 .. Width(pic) |-> Reverse(pic.rows[y][x])]),
                     stride24(Width(pic)))])]

\* 24 bpp, the last row first, blue before green before red.
buildBandDIB(pic) ==
  LET row(y) == FlattenSeq([x \in 1 .. Width(pic) |-> Reverse(pic.rows[y][x])])
  IN  [bits |-> 24, width |-> Width(pic), height |-> Height(pic),
       data |-> FlattenSeq([i \in 1 .. Height(pic) |->
                  Padded(row(Height(pic) + 1 - i), stride24(Width(pic)))])]

\* What Windows reads from a bitmap (external): the pixel at x, y from the top left.
Black == <<0, 0, 0>>
White == <<255, 255, 255>>

ReadDIB(dib, x, y) ==
  LET stride == IF dib.bits = 1 THEN stride1(dib.width) ELSE stride24(dib.width)
      line   == IF dib.height < 0 THEN y - 1 ELSE dib.height - y
      bytes  == SubSeq(dib.data, line * stride + 1, (line + 1) * stride)
  IN  IF dib.bits = 1 THEN IF Dot(bytes, x) THEN Black ELSE White
      ELSE <<bytes[3 * x], bytes[3 * x - 1], bytes[3 * x - 2]>>

------------------------------------------------------------------------------
(* Where on the sheet *)

\* mm in tenths.
mmToPx(mm, dpi) == IF mm <= 0 \/ dpi <= 0 THEN 0 ELSE (2 * mm * dpi + inch) \div (2 * inch)

valid(a) ==
  /\ a.physW > 0 /\ a.physH > 0 /\ a.dpiX > 0 /\ a.dpiY > 0
  /\ a.physW >= a.printW /\ a.physH >= a.printH

\* In the coordinates of the printable area, whose origin is at offX, offY.
targetRect(a, margin) ==
  LET mx == mmToPx(margin, a.dpiX)
      my == mmToPx(margin, a.dpiY)
      w  == a.physW - 2 * mx
      h  == a.physH - 2 * my
  IN  IF ~valid(a) \/ w <= 0 \/ h <= 0
      THEN [x |-> 0, y |-> 0, w |-> a.printW, h |-> a.printH]
      ELSE [x |-> mx - a.offX, y |-> my - a.offY, w |-> w, h |-> h]

\* The places the picture may end up in: as large as the target allows in its
\* proportions, and centred.
fitRect(srcW, srcH, target) ==
  LET byWidth == target.w * srcH <= target.h * srcW
      num == IF byWidth THEN target.w ELSE target.h
      den == IF byWidth THEN srcW ELSE srcH
  IN  {LET w == AtLeastOne(w0)
           h == AtLeastOne(h0)
       IN  [x |-> target.x + ((target.w - w) \div 2), y |-> target.y + ((target.h - h) \div 2),
            w |-> w, h |-> h] :
         w0 \in Truncated(srcW * num, den), h0 \in Truncated(srcH * num, den)}

\* drawPage, every outcome: the reduced page of an attempt, its bitmap and the
\* rectangle the bitmap is stretched over.
drawPage(pic, level, bias, area, margin) ==
  LET small == Attempt(pic, level)
      dibs  == IF isGrayscale(pic) THEN {packMono1bpp(m) : m \in Binarize(Gray(small), bias)}
               ELSE {buildBandDIB(small)}
  IN  [small : {small}, dib : dibs,
       at : fitRect(Width(small), Height(small), targetRect(area, margin))]
=============================================================================
