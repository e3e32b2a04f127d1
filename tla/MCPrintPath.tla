---------------------------- MODULE MCPrintPath -----------------------------
EXTENDS PrintClaims
CONSTANTS p1, p2, r1

M(name, role, enabled, kind, mode) ==
  [name |-> name, role |-> role, enabled |-> enabled, kind |-> kind, mode |-> mode]

\* p1 is a receipt printer, p2 a page printer that is turned off.
MCInstalled == [printers |-> <<M(p2, r1, FALSE, "pdf", "vector"),
                               M(p1, r1, TRUE, "thermal", "vector")>>,
                default |-> None]

\* p1 becomes a page printer in image mode, p2 is turned on and the default.
MCSaves == {[printers |-> <<M(p1, r1, TRUE, "pdf", "image"),
                            M(p2, r1, TRUE, "pdf", "vector")>>,
             default |-> p2]}

P(formats, width) == [formats |-> formats, width |-> width, drawer |-> FALSE]

MCFrames == {[type |-> "sync", profiles |-> (p1 :> P(<<"pdf", "gdi-raster">>, 0))],
             [type |-> "update", profiles |-> (p1 :> P(<<>>, 576))],
             [type |-> "update", profiles |-> (p2 :> P(<<"gdi-raster">>, 576))],
             [type |-> "update", profiles |-> (p2 :> P(<<"zpl", "png", "pdf">>, 0))]}

MCDocuments == {<<8192, 100>>, <<200>>}
=============================================================================
