------------------------------ MODULE MultiPNG -------------------------------
(***************************************************************************)
(* The container of raster pages (src/internal/adapters/printing/encoder/  *)
(* raster/multipng.go), written by the encoder and read by the GDI driver: *)
(* a header, then the length and the bytes of each page.  A page is the    *)
(* bytes its PNG takes; an error is None.                                  *)
(***************************************************************************)
EXTENDS Integers, SequencesExt

CONSTANT None
magic   == <<84, 71, 68, 82>>
version == 1

\* Four bytes, the most significant first.
PutUint32(n) ==
  LET high == n \div 65536
  IN  <<(high \div 256) % 256, high % 256, (n \div 256) % 256, n % 256>>

Uint32(b) == 65536 * (256 * b[1] + b[2]) + 256 * b[3] + b[4]

Encode(pages) ==
  IF pages = <<>> THEN None
  ELSE magic \o <<version, 0, 0, 0>> \o PutUint32(Len(pages))
       \o FlattenSeq([i \in DOMAIN pages |-> PutUint32(Len(pages[i])) \o pages[i]])

\* Mutant: a body that goes past the end is taken as far as it goes.
TakePage_Lenient(data, st) ==
  IF st = None \/ st.off + 4 > Len(data) THEN None
  ELSE LET body == st.off + 4
           end == Min({Len(data), body + Uint32(SubSeq(data, st.off + 1, body))})
       IN  [off |-> end, pages |-> Append(st.pages, SubSeq(data, body + 1, end))]

\* One turn of the decoder's loop: the next page, unless its length or its body
\* goes past the end of the data.
TakePage(data, st) ==
  IF st = None \/ st.off + 4 > Len(data) THEN None
  ELSE LET pl == Uint32(SubSeq(data, st.off + 1, st.off + 4))
           body == st.off + 4
       IN  IF body + pl > Len(data) THEN None
           ELSE [off |-> body + pl, pages |-> Append(st.pages, SubSeq(data, body + 1, body + pl))]

\* Where the loop is after its turns, one for each page the header counts.
Taken(data, turns) ==
  LET st[i \in 0 .. turns] ==
        IF i = 0 THEN [off |-> 12, pages |-> <<>>] ELSE TakePage(data, st[i - 1])
  IN  st[turns]

DecodeMultiPNG(data) ==
  IF Len(data) < 12 \/ SubSeq(data, 1, 4) # magic \/ data[5] # version THEN None
  ELSE LET end == Taken(data, Uint32(SubSeq(data, 9, 12)))
       IN  IF end = None THEN None ELSE end.pages
=============================================================================
