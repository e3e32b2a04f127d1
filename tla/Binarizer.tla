------------------------------ MODULE Binarizer ------------------------------
(***************************************************************************)
(* Black or white (src/internal/adapters/printing/binarizer): the Otsu     *)
(* threshold of a page, shifted by the density of the command line, and    *)
(* the bitmap packed from it.  The encoder of receipts and the GDI driver  *)
(* share it.                                                               *)
(*                                                                         *)
(* A picture is a width and its rows of gray values.  The variances are    *)
(* compared as exact fractions; where two of them are equal, the rounding  *)
(* of the code's floats decides, and the threshold is a set of outcomes.   *)
(***************************************************************************)
EXTENDS Integers, SequencesExt

Densities == 1 .. 5

densityBias(density) == IF density = 0 THEN 0 ELSE (density - 3) * 20

\* The gray values of a picture in one sequence: what the histogram counts.
Pixels(pic) == FlattenSeq(pic.rows)

\* What the loops over the histogram add up: worth[v] for every pixel of gray v.
Tally(pixels, worth) ==
  LET sum[k \in 0 .. Len(pixels)] == IF k = 0 THEN 0 ELSE sum[k - 1] + worth[pixels[k]]
  IN  sum[Len(pixels)]

\* How many pixels have their gray value in a part of the scale, and their sum.
Weight(pixels, part) == Tally(pixels, [v \in 0 .. 255 |-> IF v \in part THEN 1 ELSE 0])
Total(pixels, part)  == Tally(pixels, [v \in 0 .. 255 |-> IF v \in part THEN v ELSE 0])

\* The scale to each side of the split after gray value i.
Dark(i)  == 0 .. i
Light(i) == i + 1 .. 255

\* Mutant: the classes are compared by their sums, not by their means.
Between_Sums(pixels, i) ==
  LET gap == Total(pixels, Light(i)) - Total(pixels, Dark(i))
  IN  [num |-> gap * gap, den |-> 1]

\* Between-class variance times a constant of the picture, for the split after
\* gray value i, as the fraction num / den: wB * wF * (mB - mF)^2.
Between(pixels, i) ==
  LET wB  == Weight(pixels, Dark(i))
      wF  == Weight(pixels, Light(i))
      gap == Total(pixels, Dark(i)) * wF - Total(pixels, Light(i)) * wB
  IN  [num |-> gap * gap, den |-> wB * wF]

AtLeast(a, b) == a.num * b.den >= b.num * a.den

\* The splits with pixels on both sides, each named by the darkest threshold that
\* makes it; the other thresholds of its plateau end before the next gray value.
Splits(pixels) == {v \in Range(pixels) : \E w \in Range(pixels) : w > v}

PlateauEnd(pixels, v) == Min({w \in Range(pixels) : w > v}) - 1

otsuThreshold(pixels) ==
  LET splits == Splits(pixels)
      best == {v \in splits : \A w \in splits : AtLeast(Between(pixels, v), Between(pixels, w))}
  IN  IF splits = {} THEN {128}
      ELSE {(Min(top) + PlateauEnd(pixels, Max(top))) \div 2 : top \in (SUBSET best) \ {{}}}

\* The level Otsu.Binarize compares with: biased, and clamped to a gray value.
Level(threshold, bias) ==
  LET t == threshold + bias
  IN  IF t < 0 THEN 0 ELSE IF t > 255 THEN 255 ELSE t

\* A bitmap has Stride bytes a row, the most significant bit of each the leftmost
\* of its eight pixels; the bits past the width stay clear.
RowBytes(width) == (width + 7) \div 8

PackRow(row, level) ==
  LET bit(x)  == IF x <= Len(row) /\ row[x] <= level THEN 1 ELSE 0
      byte(x) == 128 * bit(x + 1) + 64 * bit(x + 2) + 32 * bit(x + 3) + 16 * bit(x + 4)
                 + 8 * bit(x + 5) + 4 * bit(x + 6) + 2 * bit(x + 7) + bit(x + 8)
  IN  [b \in 1 .. RowBytes(Len(row)) |-> byte(8 * (b - 1))]

pack(pic, level) ==
  [width |-> pic.width, rows |-> [y \in DOMAIN pic.rows |-> PackRow(pic.rows[y], level)]]

Binarize(pic, bias) == {pack(pic, Level(t, bias)) : t \in otsuThreshold(Pixels(pic))}

\* What a reader of the format takes for pixel x (from 1) of a row: TRUE is black.
Weights == <<128, 64, 32, 16, 8, 4, 2, 1>>

Dot(bytes, x) ==
  (bytes[((x - 1) \div 8) + 1] \div Weights[((x - 1) % 8) + 1]) % 2 = 1
=============================================================================
