------------------------------ MODULE Pipeline ------------------------------
(***************************************************************************)
(* How a printer is chosen for a role, how its profile is prepared for the *)
(* operating system, and how the resolver composes renderer, encoder and   *)
(* driver for a document (app/print, adapters/printing/platform).          *)
(*                                                                         *)
(* A profile is [formats, width, drawer]; a platform is [windows,          *)
(* available, utf8ACP]; a configuration is [printers, default], printers a *)
(* sequence of [name, role, enabled, kind, mode].                          *)
(***************************************************************************)
EXTENDS Integers, SequencesExt

CONSTANTS Printer,
          NonAscii,   \* the printers whose name is not ASCII
          Role,
          None        \* "", nil, not found

Device == {"escpos", "zpl", "epl", "pdf", "png", "raw", "gdi-raster"}
Source == {"pdf", "png", "jpeg", "text", "escpos", "zpl"}
Kind == {"raster", "text", "bytes"}

Profile == [formats : Seq(Device), width : Nat, drawer : BOOLEAN]
Managed == [name : Printer, role : Role \cup {None}, enabled : BOOLEAN,
            kind : {"thermal", "pdf"}, mode : {"vector", "image"}]
Config == [printers : Seq(Managed), default : Printer \cup {None}]

\* What the resolver returns: the three stages of a print.
Pipe ==
  [renderer : [reads : SUBSET Source, produces : Kind],
   encoder : [accepts : Kind, produces : Device],
   driver : [name : {"spooler", "pdfvector", "gdi", "cupsRaw", "cupsNative"},
             accepts : SUBSET Device]]

ASSUME PipelineAssumption ==
  NonAscii \subseteq Printer /\ None \notin Printer \cup Role \cup Pipe

minRasterWidthDots == 4960

-----------------------------------------------------------------------------
(* Config.                                                                 *)

\* The setting a managed printer has, or the one an unknown printer gets.
Setting(c, p, field, default) ==
  LET i == SelectInSeq(c.printers, LAMBDA m : m.name = p)
  IN  IF i = 0 THEN default ELSE c.printers[i][field]

KindOf(c, p) == Setting(c, p, "kind", "thermal")
PageModeOf(c, p) == Setting(c, p, "mode", "vector")

\* Slip: printers that are turned off are considered too.
RoleResolve_Disabled(c, role) ==
  LET matches == {i \in DOMAIN c.printers : c.printers[i].role = role}
  IN  IF role = None \/ matches = {} THEN c.default ELSE c.printers[Min(matches)].name

\* RoleResolver.Resolve.
RoleResolve(c, role) ==
  LET matches == {i \in DOMAIN c.printers : /\ c.printers[i].role = role
                                            /\ c.printers[i].enabled}
  IN  IF \/ role = None \/ matches = {}
         \/ \E i \in matches : c.printers[i].name = c.default
      THEN c.default
      ELSE c.printers[Min(matches)].name

-----------------------------------------------------------------------------
(* Profiles.                                                               *)

\* mapProfile: a profile without formats is a thermal printer's.
mapProfile(prof) ==
  [prof EXCEPT !.formats = IF @ = <<>> THEN <<"escpos">> ELSE @]

escposProfile == [formats |-> <<"escpos">>, width |-> 576, drawer |-> TRUE]
pdfProfile == [formats |-> <<"pdf">>, width |-> 0, drawer |-> FALSE]

profileIsPDF(prof) == {"pdf", "gdi-raster"} \cap ToSet(prof.formats) # {}

\* The sequence without the repetitions: the first of equal formats stays.
Distinct(s) ==
  LET out[i \in 0..Len(s)] == IF i = 0 THEN <<>>
                              ELSE IF Contains(out[i - 1], s[i]) THEN out[i - 1]
                              ELSE Append(out[i - 1], s[i])
  IN  out[Len(s)]

\* Slip: the width is raised only where a pdf was replaced.
NormalizeForGDIRaster_PdfOnly(prof) ==
  LET out == Distinct(ReplaceAll(prof.formats, "pdf", "gdi-raster"))
  IN  [prof EXCEPT !.formats = out,
                   !.width = IF Contains(prof.formats, "pdf")
                                /\ @ < minRasterWidthDots
                             THEN minRasterWidthDots ELSE @]

\* pdf becomes gdi-raster, and a printer that gets rasters gets them at a width that
\* is not blurred.
NormalizeForGDIRaster(prof) ==
  LET out == Distinct(ReplaceAll(prof.formats, "pdf", "gdi-raster"))
  IN  [prof EXCEPT !.formats = out,
                   !.width = IF Contains(out, "gdi-raster")
                                /\ @ < minRasterWidthDots
                             THEN minRasterWidthDots ELSE @]

\* Slip: in vector mode the pdf takes the place of the raster.
NormalizeForWindows_VectorOnly(prof, mode) ==
  LET out == NormalizeForGDIRaster(prof)
  IN  IF mode = "image" THEN out
      ELSE [out EXCEPT !.formats = ReplaceAll(@, "gdi-raster", "pdf")]

\* In vector mode the pdf goes right before the raster.
NormalizeForWindows(prof, mode) ==
  LET out == NormalizeForGDIRaster(prof)
      AfterPdf(f) == IF f = "gdi-raster" THEN <<"pdf", f>> ELSE <<f>>
  IN  IF mode = "image" THEN out
      ELSE [out EXCEPT !.formats =
              FlattenSeq([i \in DOMAIN out.formats |-> AfterPdf(out.formats[i])])]

\* Slip: the name of the printer is not looked at.
EffectivePageMode_AnyName(configured, p, utf8ACP) == configured

\* pdftocairo is given the printer's name in the ANSI code page.
EffectivePageMode(configured, p, utf8ACP) ==
  IF configured = "image" \/ (~utf8ACP /\ p \in NonAscii)
  THEN "image" ELSE "vector"

\* ProfileNormalizerForOS: nothing to do outside Windows.
normalize(os, configured, p, prof) ==
  IF os.windows
  THEN NormalizeForWindows(prof, EffectivePageMode(configured, p, os.utf8ACP))
  ELSE prof

-----------------------------------------------------------------------------
(* Components, in the order they are registered, and the resolver.         *)

Renderers == <<[reads |-> {"pdf"}, produces |-> "raster"],
               [reads |-> {"png", "jpeg"}, produces |-> "raster"],
               [reads |-> {"text"}, produces |-> "text"]>>

Encoders == <<[accepts |-> "raster", produces |-> "escpos"],
              [accepts |-> "text", produces |-> "escpos"],
              [accepts |-> "raster", produces |-> "gdi-raster"]>>

Raw == {"escpos", "zpl", "epl", "raw"}

Drivers(os) ==
  IF os.windows
  THEN <<[name |-> "spooler", accepts |-> Raw],
         [name |-> "pdfvector", accepts |-> IF os.available THEN {"pdf"} ELSE {}],
         [name |-> "gdi", accepts |-> {"gdi-raster"}]>>
  ELSE <<[name |-> "cupsRaw", accepts |-> Raw],
         [name |-> "cupsNative", accepts |-> {"pdf", "png"}]>>

deviceOfSource == [pdf |-> "pdf", png |-> "png", escpos |-> "escpos", zpl |-> "zpl"]

SourceIsDevice(source, device) ==
  source \in DOMAIN deviceOfSource /\ deviceOfSource[source] = device

\* Slip: the renderer is not matched with what the encoder reads.
Chains_AnyKind(format, target) ==
  {c \in (DOMAIN Encoders) \X (DOMAIN Renderers) :
     Encoders[c[1]].produces = target /\ format \in Renderers[c[2]].reads}

\* The encoders and renderers that lead from the source to the target.
Chains(format, target) ==
  {c \in (DOMAIN Encoders) \X (DOMAIN Renderers) :
     /\ Encoders[c[1]].produces = target
     /\ format \in Renderers[c[2]].reads
     /\ Renderers[c[2]].produces = Encoders[c[1]].accepts}

\* The first encoder that has a renderer, and the first of its renderers.
First(chains) ==
  CHOOSE c \in chains : \A d \in chains : c[1] < d[1] \/ (c[1] = d[1] /\ c[2] <= d[2])

\* The pipeline for one target, None if there is no driver or no way to it.
Compose(format, target, os) ==
  LET d == SelectInSeq(Drivers(os), LAMBDA drv : target \in drv.accepts)
      chains == Chains(format, target)
      With(ren, enc) == [renderer |-> ren, encoder |-> enc, driver |-> Drivers(os)[d]]
  IN  CASE d = 0 -> None
        [] d # 0 /\ SourceIsDevice(format, target) ->
             With([reads |-> Source, produces |-> "bytes"],
                  [accepts |-> "bytes", produces |-> target])
        [] d # 0 /\ ~SourceIsDevice(format, target) ->
             IF chains = {} THEN None
             ELSE With(Renderers[First(chains)[2]], Encoders[First(chains)[1]])

\* resolver.Resolve: the first format of the profile that can be reached.
Resolve(format, prof, os) ==
  LET i == SelectInSeq(prof.formats, LAMBDA t : Compose(format, t, os) # None)
  IN  IF i = 0 THEN None ELSE Compose(format, prof.formats[i], os)
=============================================================================
