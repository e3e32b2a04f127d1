------------------------------ MODULE MCDevices ------------------------------
(***************************************************************************)
(* Arguments for module Devices, and the log file of module LogRotate,     *)
(* which no printer sees: the two are run one beside the other, each while *)
(* the other is where it began.                                            *)
(***************************************************************************)
EXTENDS Devices, LogRotate

------------------------------------------------------------------------------
(* Receipts: heights around one and two bands, margins around the 16 rows kept *)

Rows(n, byte, stride) == [y \in 1 .. n |-> [b \in 1 .. stride |-> byte]]

\* lead blank rows, ink, a blank gap, ink of another pattern, blank rows.
Shape(lead, first, gap, second, tail) ==
  [width |-> 8, rows |-> Rows(lead, 0, 1) \o Rows(first, 129, 1) \o Rows(gap, 0, 1)
                         \o Rows(second, 3, 1) \o Rows(tail, 0, 1)]

Tall == {Shape(lead, 1, gap, 1, tail) :
           lead \in {0, 16, 17, 40}, gap \in {0, 125, 126, 127, 254, 300}, tail \in {0, 3}}
Short == {Shape(0, 2, 0, 0, 0), Shape(20, 1, 1, 1, 2), Shape(5, 0, 0, 0, 0), Shape(0, 0, 0, 0, 0)}
Wide  == [width |-> 2049, rows |-> Rows(2, 255, 257)]

MCReceipts == {<<>>, <<Wide>>} \cup {<<page>> : page \in Tall} \cup (Short \X Short)

MCBodies == {<<>>, <<"line">>}

Opt(cut, drawer, cutFeed, topMargin) ==
  [cut |-> cut, drawer |-> drawer, cutFeed |-> cutFeed, topMargin |-> topMargin]

MCOptions == {Opt(FALSE, FALSE, 0, 0), Opt(FALSE, TRUE, 0, 4), Opt(TRUE, FALSE, 0, 200),
              Opt(TRUE, TRUE, 255, 1), Opt(TRUE, FALSE, -5, -1)} \cup {Opt(TRUE, FALSE, feed, 17) : feed \in {1, 256, 510, 2000, 9999}}
------------------------------------------------------------------------------
(* Gray pages: every one of four pixels in two rows or in one, and a row of ten *)

Grays == {0, 100, 110, 180, 255}

MCPictures ==
  {[width |-> 2, rows |-> <<<<a, b>>, <<c, d>>>>] : a, b, c, d \in Grays}
  \cup {[width |-> 10, rows |-> <<<<a, b, c, b, b, a, c, c, d, a>>>>] : a, b, c, d \in Grays}
  \cup {[width |-> 0, rows |-> <<>>]}

MCContainers == {<<>>, <<<<7>>>>, <<<<7, 7>>, <<>>>>, <<<<0, 0, 0, 1>>, <<84>>, <<9, 9, 9>>>>,
                 <<[i \in 1 .. 258 |-> i % 256]>>}
------------------------------------------------------------------------------
(* Pages of the GDI driver, from one pixel to more than a first attempt takes.  The *)
(* gray ones have few pixels or few grays: TLC's integers hold 32 bits.             *)

Gray3(v) == <<v, v, v>>

Plain(w, h) == [width |-> w, rows |-> [y \in 1 .. h |-> [x \in 1 .. w |-> Gray3((x + 2 * y) % 3)]]]
Fade(w, h)  == [width |-> w, rows |-> [y \in 1 .. h |-> [x \in 1 .. w |-> Gray3(255 - 60 * x + 20 * y)]]]
Color(w, h) == [width |-> w, rows |-> [y \in 1 .. h |-> [x \in 1 .. w |->
                  <<(40 * x) % 256, (30 * y) % 256, 5>>]]]

MCPages == {Plain(1, 1), Plain(33, 1), Plain(9, 4), Plain(5, 8), Fade(3, 3), Fade(4, 2),
            Color(1, 6), Color(2, 3), Color(7, 5), Color(6, 9)}

Area(physW, physH, printW, printH, offX, offY, dpiX, dpiY) ==
  [physW |-> physW, physH |-> physH, printW |-> printW, printH |-> printH,
   offX |-> offX, offY |-> offY, dpiX |-> dpiX, dpiY |-> dpiY]

\* A sheet with unequal margins, a label printer of unequal resolutions, a driver
\* that reports no sheet, one that reports a sheet smaller than its printable area.
MCAreas == {Area(83, 117, 79, 110, 1, 4, 100, 100), Area(40, 30, 40, 30, 0, 0, 50, 100),
            Area(0, 0, 79, 110, 0, 0, 100, 100), Area(20, 90, 30, 80, 2, 2, 100, 100)}
------------------------------------------------------------------------------
MCLine(n) == IF n % 3 = 0 THEN 2 ELSE 1

MCInit == DevicesInit /\ LogInit
MCNext ==
  \/ LogInit /\ DevicesNext /\ UNCHANGED logVars
  \/ LogNext /\ work = Nothing /\ UNCHANGED work
=============================================================================
