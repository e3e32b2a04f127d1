-------------------------- MODULE PrintPath_proofs --------------------------
(***************************************************************************)
(* Printing, for every set of printers and roles, every configuration the  *)
(* panel may save, every sequence of frames the Backend may send, every    *)
(* document and every number of prints, on every platform.                 *)
(***************************************************************************)
EXTENDS PrintPath, SequenceFacts

-----------------------------------------------------------------------------
(* The formats of a profile.                                               *)

IsDistinct(s, g, n) ==
  g = [i \in 0..n |-> IF i = 0 THEN <<>>
                      ELSE IF Contains(g[i - 1], s[i]) THEN g[i - 1]
                      ELSE Append(g[i - 1], s[i])]

\* The function by which Distinct is defined exists.
LEMMA DistinctExists ==
  ASSUME NEW S, NEW s \in Seq(S)
  PROVE  \E g : IsDistinct(s, g, Len(s))
<1> DEFINE T == {n \in Nat : \E g : IsDistinct(s, g, n)}
<1>1. 0 \in T
  <2>1. IsDistinct(s, [i \in 0..0 |-> <<>>], 0)
    BY DEF IsDistinct
  <2>2. QED
    BY <2>1
<1>2. ASSUME NEW n \in T PROVE n + 1 \in T
  <2>1. PICK g : IsDistinct(s, g, n)
    OBVIOUS
  <2> DEFINE Grown(f, i) == IF i = 0 THEN <<>>
                           ELSE IF Contains(f[i - 1], s[i]) THEN f[i - 1]
                           ELSE Append(f[i - 1], s[i])
             h == [i \in 0..n + 1 |-> IF i <= n THEN g[i] ELSE Grown(g, i)]
  <2>2. \A i \in 0..n : g[i] = Grown(g, i)
    BY <2>1 DEF IsDistinct
  <2>3. ASSUME NEW i \in 0..n + 1 PROVE h[i] = Grown(h, i)
    <3>1. h[i] = Grown(g, i)
      <4>1. CASE i <= n
        <5>1. i \in 0..n /\ h[i] = g[i]
          BY <4>1
        <5>2. QED
          BY <2>2, <5>1
      <4>2. CASE ~ (i <= n)
        BY <4>2
      <4>3. QED
        BY <4>1, <4>2
    <3>2. i # 0 => h[i - 1] = g[i - 1]
      OBVIOUS
    <3> HIDE DEF h
    <3>3. QED
      BY <3>1, <3>2
  <2>4. IsDistinct(s, h, n + 1)
    <3>1. h = [i \in 0..n + 1 |-> h[i]]
      OBVIOUS
    <3> HIDE DEF h
    <3>2. QED
      BY <2>3, <3>1 DEF IsDistinct
  <2>5. QED
    BY <2>4
<1>3. T = Nat
  <2>1. T \in SUBSET Nat
    OBVIOUS
  <2> HIDE DEF T
  <2>2. QED
    BY <1>1, <1>2, <2>1, EveryNatural
<1>4. QED
  BY <1>3, LenProperties

\* Distinct keeps every element.
LEMMA DistinctIs ==
  ASSUME NEW S, NEW s \in Seq(S)
  PROVE  Distinct(s) \in Seq(S) /\ ToSet(Distinct(s)) = ToSet(s)
<1> DEFINE out == CHOOSE g : g = [i \in 0..Len(s) |->
                                    IF i = 0 THEN <<>>
                                    ELSE IF Contains(g[i - 1], s[i]) THEN g[i - 1]
                                    ELSE Append(g[i - 1], s[i])]
<1>1. Distinct(s) = out[Len(s)]
  BY DEF Distinct
<1>2. IsDistinct(s, out, Len(s))
  BY DistinctExists DEF IsDistinct
<1> HIDE DEF out
<1>3. \A i \in 0..Len(s) : out[i] = IF i = 0 THEN <<>>
                                    ELSE IF Contains(out[i - 1], s[i]) THEN out[i - 1]
                                    ELSE Append(out[i - 1], s[i])
  BY <1>2 DEF IsDistinct
<1> DEFINE T == {n \in Nat : n \in 0..Len(s) =>
                   /\ out[n] \in Seq(S)
                   /\ \A x : x \in ToSet(out[n]) <=> \E i \in 1..n : s[i] = x}
<1>4. 0 \in T
  <2>1. out[0] = <<>>
    BY <1>3, LenProperties
  <2>2. ToSet(<<>>) = {} /\ \A i : i \notin 1..0
    BY DEF ToSet
  <2>3. out[0] \in Seq(S) /\ \A x : x \in ToSet(out[0]) <=> \E i \in 1..0 : s[i] = x
    BY <2>1, <2>2
  <2>4. QED
    BY <2>3
<1>5. ASSUME NEW n \in T PROVE n + 1 \in T
  <2>1. SUFFICES ASSUME n + 1 \in 0..Len(s)
                 PROVE  /\ out[n + 1] \in Seq(S)
                        /\ \A x : x \in ToSet(out[n + 1]) <=> \E i \in 1..n + 1 : s[i] = x
    OBVIOUS
  <2> DEFINE m == n + 1
  <2>2. m \in 0..Len(s) /\ m # 0 /\ m - 1 = n /\ m \in 1..Len(s)
    BY <2>1
  <2>3. /\ out[n] \in Seq(S)
        /\ \A x : x \in ToSet(out[n]) <=> \E i \in 1..n : s[i] = x
    BY <2>1, LenProperties
  <2>4. 1..m = (1..n) \cup {m}
    OBVIOUS
  <2> HIDE DEF m
  <2>5. out[m] = IF Contains(out[n], s[m]) THEN out[n] ELSE Append(out[n], s[m])
    BY <1>3, <2>2
  <2>6. s[m] \in S
    BY <2>2, ElementOfSeq
  <2>7. CASE Contains(out[n], s[m])
    <3>1. s[m] \in ToSet(out[n])
      BY <2>3, <2>7, LenProperties DEF Contains, ToSet
    <3>2. QED
      BY <2>3, <2>4, <2>5, <2>7, <3>1 DEF m
  <2>8. CASE ~ Contains(out[n], s[m])
    <3>1. out[m] = Append(out[n], s[m])
      BY <2>5, <2>8
    <3>2. out[m] \in Seq(S) /\ ToSet(out[m]) = ToSet(out[n]) \cup {s[m]}
      <4>1. /\ out[m] \in Seq(S) /\ Len(out[m]) = Len(out[n]) + 1
            /\ \A i \in 1..Len(out[n]) : out[m][i] = out[n][i]
            /\ out[m][Len(out[n]) + 1] = s[m]
        BY <2>3, <2>6, <3>1, AppendProperties
      <4>2. DOMAIN out[m] = DOMAIN out[n] \cup {Len(out[n]) + 1}
        BY <2>3, <4>1, LenProperties
      <4>3. DOMAIN out[n] = 1..Len(out[n])
        BY <2>3, LenProperties
      <4>4. QED
        BY <4>1, <4>2, <4>3 DEF ToSet
    <3>3. QED
      BY <2>3, <2>4, <3>2 DEF m
  <2>9. QED
    BY <2>7, <2>8
<1>6. T = Nat
  <2>1. T \in SUBSET Nat
    OBVIOUS
  <2> HIDE DEF T
  <2>2. QED
    BY <1>4, <1>5, <2>1, EveryNatural
<1>7. /\ out[Len(s)] \in Seq(S)
      /\ \A x : x \in ToSet(out[Len(s)]) <=> \E i \in 1..Len(s) : s[i] = x
  <2>1. Len(s) \in 0..Len(s)
    BY LenProperties
  <2>2. Len(s) \in T
    <3>1. Len(s) \in Nat
      BY LenProperties
    <3> HIDE DEF T
    <3>2. QED
      BY <1>6, <3>1
  <2>3. QED
    BY <2>1, <2>2
<1>8. \A x : x \in ToSet(s) <=> \E i \in 1..Len(s) : s[i] = x
  <2>1. DOMAIN s = 1..Len(s)
    BY LenProperties
  <2>2. QED
    BY <2>1 DEF ToSet
<1>9. QED
  BY <1>1, <1>7, <1>8

\* Contains and ToSet agree.
LEMMA ContainsIs ==
  ASSUME NEW S, NEW s \in Seq(S), NEW x
  PROVE  Contains(s, x) <=> x \in ToSet(s)
<1>1. DOMAIN s = 1..Len(s)
  BY LenProperties
<1>2. QED
  BY <1>1 DEF Contains, ToSet

\* What replacing pdf leaves.
LEMMA ReplaceIs ==
  ASSUME NEW s \in Seq(Device)
  PROVE  LET r == ReplaceAll(s, "pdf", "gdi-raster") IN
         /\ r \in Seq(Device) /\ Len(r) = Len(s)
         /\ \A x : x \in ToSet(r) <=> \/ x # "pdf" /\ x \in ToSet(s)
                                      \/ x = "gdi-raster" /\ "pdf" \in ToSet(s)
<1> DEFINE r == ReplaceAll(s, "pdf", "gdi-raster")
<1>1. DOMAIN s = 1..Len(s) /\ Len(s) \in Nat /\ \A i \in 1..Len(s) : s[i] \in Device
  BY LenProperties, ElementOfSeq
<1>2. r = [i \in 1..Len(s) |-> IF s[i] = "pdf" THEN "gdi-raster" ELSE s[i]]
  BY DEF ReplaceAll
<1>3. r \in Seq(Device) /\ Len(r) = Len(s) /\ DOMAIN r = 1..Len(s)
  <2>1. r \in [1..Len(s) -> Device]
    BY <1>1, <1>2 DEF Device
  <2>2. QED
    BY <1>1, <2>1, IsASeq, LenProperties
<1>4. ASSUME NEW x
      PROVE  x \in ToSet(r) <=> \/ x # "pdf" /\ x \in ToSet(s)
                                \/ x = "gdi-raster" /\ "pdf" \in ToSet(s)
  BY <1>1, <1>2, <1>3 DEF ToSet
<1>5. QED
  BY <1>3, <1>4

\* A sequence of formats is empty when its set is.
LEMMA SomeFormat ==
  ASSUME NEW s \in Seq(Device)
  PROVE  s # <<>> <=> \E x \in Device : x \in ToSet(s)
<1>1. DOMAIN s = 1..Len(s) /\ Len(s) \in Nat /\ \A i \in 1..Len(s) : s[i] \in Device
  BY LenProperties, ElementOfSeq
<1>2. s # <<>> <=> Len(s) # 0
  BY EmptySeq
<1>3. Len(s) # 0 <=> 1 \in 1..Len(s)
  BY <1>1
<1>4. QED
  BY <1>1, <1>2, <1>3 DEF ToSet

\* mapProfile makes a profile the engine can print with.
LEMMA MapProfileReady ==
  ASSUME NEW prof \in Profile
  PROVE  mapProfile(prof) \in ReadyProfile
<1>1. <<"escpos">> \in Seq(Device) /\ <<"escpos">> # <<>>
  BY DEF Device
<1>2. QED
  BY <1>1 DEF mapProfile, ReadyProfile, Profile

\* The profile of a page printer in image mode: no pdf, and rasters at a width that
\* is not blurred.
LEMMA GDIRasterIs ==
  ASSUME NEW prof \in ReadyProfile
  PROVE  LET out == NormalizeForGDIRaster(prof) IN
         /\ out \in ReadyProfile
         /\ "pdf" \notin ToSet(out.formats)
         /\ "gdi-raster" \in ToSet(out.formats) => out.width >= minRasterWidthDots
<1> DEFINE out == NormalizeForGDIRaster(prof)
           r == ReplaceAll(prof.formats, "pdf", "gdi-raster")
<1>1. prof.formats \in Seq(Device) /\ prof.formats # <<>> /\ prof.width \in Nat
  BY DEF ReadyProfile, Profile
<1>2. /\ r \in Seq(Device)
      /\ \A x : x \in ToSet(r) <=> \/ x # "pdf" /\ x \in ToSet(prof.formats)
                                   \/ x = "gdi-raster" /\ "pdf" \in ToSet(prof.formats)
  BY <1>1, ReplaceIs
<1> HIDE DEF r
<1>3. Distinct(r) \in Seq(Device) /\ ToSet(Distinct(r)) = ToSet(r)
  BY <1>2, DistinctIs
<1>4. out = [prof EXCEPT !.formats = Distinct(r),
                         !.width = IF Contains(Distinct(r), "gdi-raster")
                                      /\ @ < minRasterWidthDots
                                   THEN minRasterWidthDots ELSE @]
  BY DEF NormalizeForGDIRaster, r
<1>5. Distinct(r) # <<>>
  <2>1. \E x \in Device : x \in ToSet(prof.formats)
    BY <1>1, SomeFormat
  <2>2. \E x \in Device : x \in ToSet(r)
    BY <1>2, <2>1 DEF Device
  <2>3. QED
    BY <1>3, <2>2, SomeFormat
<1>6. out.formats = Distinct(r) /\ out.width \in Nat
  BY <1>1, <1>4 DEF ReadyProfile, Profile, minRasterWidthDots
<1>7. out \in ReadyProfile
  BY <1>3, <1>4, <1>5, <1>6 DEF ReadyProfile, Profile
<1>8. "gdi-raster" \in ToSet(out.formats) => out.width >= minRasterWidthDots
  <2>1. Contains(Distinct(r), "gdi-raster") <=> "gdi-raster" \in ToSet(Distinct(r))
    BY <1>3, ContainsIs
  <2>2. QED
    BY <1>1, <1>4, <1>6, <2>1 DEF ReadyProfile, Profile, minRasterWidthDots
<1>9. QED
  BY <1>2, <1>3, <1>6, <1>7, <1>8

\* The profile of a page printer in vector mode: the pdf is added where the raster is.
LEMMA VectorIs ==
  ASSUME NEW prof \in ReadyProfile
  PROVE  LET out == NormalizeForGDIRaster(prof)
             win == NormalizeForWindows(prof, "vector") IN
         /\ win \in ReadyProfile /\ win.width = out.width
         /\ \A x : x \in ToSet(win.formats) <=>
                     \/ x \in ToSet(out.formats)
                     \/ x = "pdf" /\ "gdi-raster" \in ToSet(out.formats)
<1> DEFINE out == NormalizeForGDIRaster(prof)
           win == NormalizeForWindows(prof, "vector")
           AfterPdf(f) == IF f = "gdi-raster" THEN <<"pdf", f>> ELSE <<f>>
           parts == [i \in DOMAIN out.formats |-> AfterPdf(out.formats[i])]
<1>1. out \in ReadyProfile /\ out.formats \in Seq(Device) /\ out.formats # <<>>
  BY GDIRasterIs DEF ReadyProfile, Profile
<1>2. win = [out EXCEPT !.formats = FlattenSeq(parts)]
  BY DEF NormalizeForWindows
<1> HIDE DEF out, win
<1>3. /\ DOMAIN out.formats = 1..Len(out.formats) /\ Len(out.formats) \in Nat
      /\ \A i \in DOMAIN out.formats : out.formats[i] \in Device
  BY <1>1, LenProperties, ElementOfSeq
<1>4. parts \in Seq(Seq(Device))
  <2>1. \A f \in Device : <<"pdf", f>> \in Seq(Device) /\ <<f>> \in Seq(Device)
    BY DEF Device
  <2>2. \A f \in Device : AfterPdf(f) \in Seq(Device)
    BY <2>1
  <2>3. parts \in [1..Len(out.formats) -> Seq(Device)]
    BY <1>3, <2>2
  <2>4. QED
    BY <1>3, <2>3, IsASeq
<1>5. \A f, x : x \in ToSet(AfterPdf(f)) <=> x = f \/ (x = "pdf" /\ f = "gdi-raster")
  BY DEF ToSet
<1>6. \A x : x \in ToSet(FlattenSeq(parts))
               <=> \E i \in DOMAIN out.formats : x \in ToSet(AfterPdf(out.formats[i]))
  <2>1. DOMAIN parts = DOMAIN out.formats
    OBVIOUS
  <2>2. \A i \in DOMAIN out.formats : parts[i] = AfterPdf(out.formats[i])
    OBVIOUS
  <2> HIDE DEF parts, AfterPdf
  <2>3. \A x : x \in ToSet(FlattenSeq(parts))
                 <=> \E i \in DOMAIN parts : x \in ToSet(parts[i])
    BY <1>4, FlattenIs
  <2>4. QED
    BY <2>1, <2>2, <2>3
<1>7. FlattenSeq(parts) \in Seq(Device)
  BY <1>4, FlattenIs
<1> HIDE DEF parts, AfterPdf
<1>8. ASSUME NEW x
      PROVE  x \in ToSet(FlattenSeq(parts)) <=>
               \/ x \in ToSet(out.formats)
               \/ x = "pdf" /\ "gdi-raster" \in ToSet(out.formats)
  <2>1. x \in ToSet(FlattenSeq(parts))
          <=> \E i \in DOMAIN out.formats :
                x = out.formats[i] \/ (x = "pdf" /\ out.formats[i] = "gdi-raster")
    BY <1>5, <1>6
  <2>2. \A y : y \in ToSet(out.formats) <=> \E i \in DOMAIN out.formats : y = out.formats[i]
    BY DEF ToSet
  <2>3. QED
    BY <2>1, <2>2
<1>9. win.formats = FlattenSeq(parts) /\ win.width = out.width
  BY <1>1, <1>2 DEF ReadyProfile, Profile
<1>10. FlattenSeq(parts) # <<>>
  <2>1. PICK x \in Device : x \in ToSet(out.formats)
    BY <1>1, SomeFormat
  <2>2. x \in ToSet(FlattenSeq(parts))
    BY <1>8, <2>1
  <2>3. QED
    BY <1>7, <2>2, SomeFormat
<1>11. win \in ReadyProfile
  BY <1>1, <1>2, <1>7, <1>9, <1>10 DEF ReadyProfile, Profile
<1>12. QED
  BY <1>8, <1>9, <1>11 DEF out, win

\* What the normaliser of the operating system promises: on Windows a pdf among the
\* formats means that pdftocairo may be used, rasters have their width, and what
\* prints pages takes rasters.
LEMMA NormalizeIs ==
  ASSUME NEW prof \in ReadyProfile, NEW platform \in Platform,
         NEW mode, NEW p
  PROVE  LET n == normalize(platform, mode, p, prof) IN
         /\ n \in ReadyProfile
         /\ platform.windows =>
              /\ "pdf" \in ToSet(n.formats) =>
                   mode # "image" /\ (platform.utf8ACP \/ p \notin NonAscii)
              /\ "gdi-raster" \in ToSet(n.formats) => n.width >= minRasterWidthDots
              /\ profileIsPDF(n) => "gdi-raster" \in ToSet(n.formats)
<1> DEFINE n == normalize(platform, mode, p, prof)
           out == NormalizeForGDIRaster(prof)
           effective == EffectivePageMode(mode, p, platform.utf8ACP)
<1>1. /\ out \in ReadyProfile
      /\ "pdf" \notin ToSet(out.formats)
      /\ "gdi-raster" \in ToSet(out.formats) => out.width >= minRasterWidthDots
  BY GDIRasterIs
<1>2. CASE ~platform.windows
  BY <1>2 DEF normalize
<1>3. CASE platform.windows /\ effective = "image"
  <2>1. n = out
    BY <1>3 DEF normalize, NormalizeForWindows
  <2>2. QED
    BY <1>1, <2>1 DEF profileIsPDF
<1>4. CASE platform.windows /\ effective # "image"
  <2>1. /\ effective = "vector"
        /\ mode # "image" /\ (platform.utf8ACP \/ p \notin NonAscii)
    BY <1>4 DEF EffectivePageMode
  <2>2. n = NormalizeForWindows(prof, "vector")
    BY <1>4, <2>1 DEF normalize
  <2>3. /\ n \in ReadyProfile /\ n.width = out.width
        /\ \A x : x \in ToSet(n.formats) <=>
                    \/ x \in ToSet(out.formats)
                    \/ x = "pdf" /\ "gdi-raster" \in ToSet(out.formats)
    BY <2>2, VectorIs
  <2> HIDE DEF n, out
  <2>4. profileIsPDF(n) => "gdi-raster" \in ToSet(n.formats)
    BY <1>1, <2>3 DEF profileIsPDF
  <2>5. QED
    BY <1>1, <2>1, <2>3, <2>4 DEF n, out
<1>5. QED
  BY <1>2, <1>3, <1>4

-----------------------------------------------------------------------------
(* The resolver.                                                           *)

\* First returns one of the chains.
LEMMA FirstIs ==
  ASSUME NEW chains, chains \subseteq (1..3) \X (1..3), chains # {}
  PROVE  First(chains) \in chains
<1>1. PICK a \in {c[1] : c \in chains} : \A b \in {c[1] : c \in chains} : a <= b
  <2>1. {c[1] : c \in chains} \in SUBSET Nat /\ {c[1] : c \in chains} # {}
    OBVIOUS
  <2>2. QED
    BY <2>1, LeastElement
<1> DEFINE seconds == {c[2] : c \in {d \in chains : d[1] = a}}
<1>2. PICK b \in seconds : \A e \in seconds : b <= e
  <2>1. seconds \in SUBSET Nat /\ seconds # {}
    BY <1>1
  <2> HIDE DEF seconds
  <2>2. QED
    BY <2>1, LeastElement
<1>3. PICK c \in chains : c[1] = a /\ c[2] = b
  BY <1>2
<1>4. ASSUME NEW d \in chains
      PROVE  c[1] < d[1] \/ (c[1] = d[1] /\ c[2] <= d[2])
  <2>1. a \in Nat /\ b \in Nat /\ d[1] \in Nat /\ d[2] \in Nat
    BY <1>3
  <2>2. a <= d[1]
    BY <1>1
  <2>3. d[1] = a => b <= d[2]
    BY <1>2
  <2>4. QED
    BY <1>3, <2>1, <2>2, <2>3
<1>5. QED
  BY <1>3, <1>4 DEF First

\* The first driver that takes the target, 0 if there is none.
DriverFor(target, platform) ==
  SelectInSeq(Drivers(platform), LAMBDA drv : target \in drv.accepts)

\* A driver is found when one takes the target, and it takes it.
LEMMA DriverIs ==
  ASSUME NEW target, NEW platform \in Platform
  PROVE  LET d == DriverFor(target, platform) IN
         /\ d # 0 => d \in DOMAIN Drivers(platform) /\ target \in Drivers(platform)[d].accepts
         /\ d = 0 => \A i \in DOMAIN Drivers(platform) :
                       target \notin Drivers(platform)[i].accepts
<1> DEFINE I == {i \in 1..Len(Drivers(platform)) : target \in Drivers(platform)[i].accepts}
<1>1. DOMAIN Drivers(platform) = 1..Len(Drivers(platform)) /\ Len(Drivers(platform)) \in Nat
  <2>1. CASE platform.windows
    BY <2>1 DEF Drivers
  <2>2. CASE ~platform.windows
    BY <2>2 DEF Drivers
  <2>3. QED
    BY <2>1, <2>2
<1>2. DriverFor(target, platform) = IF I # {} THEN Min(I) ELSE 0
  BY DEF DriverFor, SelectInSeq
<1>3. I # {} => Min(I) \in I
  <2>1. I \in SUBSET Nat
    BY <1>1
  <2> HIDE DEF I
  <2>2. QED
    BY <2>1, MinIs
<1>4. QED
  BY <1>1, <1>2, <1>3

\* What a stage of a pipeline is.
LEMMA DriverTypes ==
  ASSUME NEW platform \in Platform, NEW d \in DOMAIN Drivers(platform)
  PROVE  /\ Drivers(platform)[d] \in
              [name : {"spooler", "pdfvector", "gdi", "cupsRaw", "cupsNative"},
               accepts : SUBSET Device]
         /\ Drivers(platform)[d].name = "pdfvector" =>
              platform.windows /\ Drivers(platform)[d].accepts \subseteq {"pdf"}
         /\ Drivers(platform)[d].name = "gdi" =>
              platform.windows /\ Drivers(platform)[d].accepts \subseteq {"gdi-raster"}
<1>1. CASE platform.windows
  <2>1. d \in 1..3
    BY <1>1 DEF Drivers
  <2>2. QED
    BY <1>1, <2>1 DEF Drivers, Raw, Device
<1>2. CASE ~platform.windows
  <2>1. d \in 1..2
    BY <1>2 DEF Drivers
  <2>2. QED
    BY <1>2, <2>1 DEF Drivers, Raw, Device
<1>3. QED
  BY <1>1, <1>2

\* Renderers and encoders are stages.
LEMMA StageTypes ==
  /\ DOMAIN Encoders = 1..3 /\ DOMAIN Renderers = 1..3
  /\ \A e \in 1..3 : Encoders[e] \in [accepts : Kind, produces : Device]
  /\ \A r \in 1..3 : Renderers[r] \in [reads : SUBSET Source, produces : Kind]
<1>1. DOMAIN Encoders = 1..3 /\ DOMAIN Renderers = 1..3
  BY DEF Encoders, Renderers
<1>2. \A e \in 1..3 : Encoders[e] \in [accepts : Kind, produces : Device]
  BY DEF Encoders, Kind, Device
<1>3. \A r \in 1..3 : Renderers[r] \in [reads : SUBSET Source, produces : Kind]
  BY DEF Renderers, Kind, Source
<1>4. QED
  BY <1>1, <1>2, <1>3

\* The pipeline for one target, when there is one: its stages fit, and only a pdf
\* reaches the vector driver, only a raster the GDI driver.
Fits(pipe, format, target, platform) ==
  /\ pipe \in Pipe
  /\ format \in pipe.renderer.reads
  /\ pipe.renderer.produces = pipe.encoder.accepts
  /\ pipe.encoder.produces = target /\ target \in pipe.driver.accepts
  /\ pipe.driver.name = "pdfvector" => platform.windows /\ target = "pdf"
  /\ pipe.driver.name = "gdi" => platform.windows /\ target = "gdi-raster"

LEMMA ComposeFits ==
  ASSUME NEW format \in Source, NEW target \in Device, NEW platform \in Platform,
         Compose(format, target, platform) # None
  PROVE  Fits(Compose(format, target, platform), format, target, platform)
<1> DEFINE d == DriverFor(target, platform)
           driver == Drivers(platform)[d]
           chains == Chains(format, target)
           pipe == Compose(format, target, platform)
           With(ren, enc) == [renderer |-> ren, encoder |-> enc, driver |-> driver]
<1>1. pipe = CASE d = 0 -> None
               [] d # 0 /\ SourceIsDevice(format, target) ->
                    With([reads |-> Source, produces |-> "bytes"],
                         [accepts |-> "bytes", produces |-> target])
               [] d # 0 /\ ~SourceIsDevice(format, target) ->
                    IF chains = {} THEN None
                    ELSE With(Renderers[First(chains)[2]], Encoders[First(chains)[1]])
  BY DEF Compose, DriverFor
<1>2. d # 0
  BY <1>1
<1>3. d \in DOMAIN Drivers(platform) /\ target \in driver.accepts
  BY <1>2, DriverIs
<1>4. /\ driver \in [name : {"spooler", "pdfvector", "gdi", "cupsRaw", "cupsNative"},
                     accepts : SUBSET Device]
      /\ driver.name = "pdfvector" => platform.windows /\ target = "pdf"
      /\ driver.name = "gdi" => platform.windows /\ target = "gdi-raster"
  BY <1>3, DriverTypes
<1> HIDE DEF driver, d
<1>5. CASE SourceIsDevice(format, target)
  <2>1. pipe = With([reads |-> Source, produces |-> "bytes"],
                    [accepts |-> "bytes", produces |-> target])
    BY <1>1, <1>2, <1>5
  <2> HIDE DEF pipe
  <2>2. pipe \in Pipe
    BY <1>4, <2>1 DEF Pipe, Kind
  <2>3. /\ pipe.renderer.reads = Source /\ pipe.renderer.produces = "bytes"
        /\ pipe.encoder.accepts = "bytes" /\ pipe.encoder.produces = target
        /\ pipe.driver = driver
    BY <2>1
  <2>4. Fits(pipe, format, target, platform)
    BY <1>3, <1>4, <2>2, <2>3 DEF Fits
  <2>5. QED
    BY <2>4 DEF pipe
<1>6. CASE ~SourceIsDevice(format, target)
  <2> DEFINE c == First(chains)
  <2>1. chains # {} /\ pipe = With(Renderers[c[2]], Encoders[c[1]])
    BY <1>1, <1>2, <1>6
  <2>2. /\ c[1] \in 1..3 /\ c[2] \in 1..3
        /\ Encoders[c[1]].produces = target
        /\ format \in Renderers[c[2]].reads
        /\ Renderers[c[2]].produces = Encoders[c[1]].accepts
    <3>1. chains \subseteq (1..3) \X (1..3)
      BY StageTypes DEF Chains
    <3>2. c \in chains
      <4> HIDE DEF chains
      <4>1. QED
        BY <2>1, <3>1, FirstIs
    <3>3. QED
      BY <3>1, <3>2 DEF Chains
  <2>3. /\ Encoders[c[1]] \in [accepts : Kind, produces : Device]
        /\ Renderers[c[2]] \in [reads : SUBSET Source, produces : Kind]
    BY <2>2, StageTypes
  <2> HIDE DEF pipe, c, chains
  <2>4. pipe \in Pipe
    BY <1>4, <2>1, <2>3 DEF Pipe
  <2>5. /\ pipe.renderer = Renderers[c[2]] /\ pipe.encoder = Encoders[c[1]]
        /\ pipe.driver = driver
    BY <2>1
  <2>6. Fits(pipe, format, target, platform)
    BY <1>3, <1>4, <2>2, <2>4, <2>5 DEF Fits
  <2>7. QED
    BY <2>6 DEF pipe
<1>7. QED
  BY <1>5, <1>6

\* The resolver finds a pipeline for one of the formats of the profile, and finds one
\* whenever one of them has one.
LEMMA ResolveFits ==
  ASSUME NEW format \in Source, NEW prof \in ReadyProfile, NEW platform \in Platform
  PROVE  LET pipe == Resolve(format, prof, platform) IN
         /\ pipe # None => \E t \in ToSet(prof.formats) : Fits(pipe, format, t, platform)
         /\ pipe = None => \A t \in ToSet(prof.formats) :
                             Compose(format, t, platform) = None
<1> DEFINE formats == prof.formats
           I == {i \in 1..Len(formats) : Compose(format, formats[i], platform) # None}
           pipe == Resolve(format, prof, platform)
<1>1. /\ DOMAIN formats = 1..Len(formats) /\ Len(formats) \in Nat
      /\ \A i \in DOMAIN formats : formats[i] \in Device
  BY LenProperties, ElementOfSeq DEF ReadyProfile, Profile
<1>2. pipe = IF (IF I # {} THEN Min(I) ELSE 0) = 0 THEN None
             ELSE Compose(format, formats[IF I # {} THEN Min(I) ELSE 0], platform)
  BY DEF Resolve, SelectInSeq
<1>3. I # {} => Min(I) \in I
  <2>1. I \in SUBSET Nat
    BY <1>1
  <2> HIDE DEF I
  <2>2. QED
    BY <2>1, MinIs
<1>4. CASE I = {}
  <2>1. pipe = None
    BY <1>2, <1>4
  <2>2. QED
    BY <1>1, <1>4, <2>1 DEF ToSet
<1>5. CASE I # {}
  <2> DEFINE i == Min(I)
  <2>1. i \in 1..Len(formats) /\ Compose(format, formats[i], platform) # None
    BY <1>3, <1>5
  <2>2. pipe = Compose(format, formats[i], platform)
    <3> HIDE DEF I
    <3>1. QED
      BY <1>2, <1>5, <2>1
  <2> HIDE DEF i, I
  <2>3. Fits(pipe, format, formats[i], platform)
    BY <1>1, <2>1, <2>2, ComposeFits
  <2>4. formats[i] \in ToSet(formats)
    BY <1>1, <2>1 DEF ToSet
  <2>5. QED
    BY <2>1, <2>2, <2>3, <2>4
<1>6. QED
  BY <1>4, <1>5

\* On Windows a PDF or an image has a way to the GDI driver.
LEMMA RasterHasAWay ==
  ASSUME NEW format \in {"pdf", "png", "jpeg"}, NEW platform \in Platform,
         platform.windows
  PROVE  Compose(format, "gdi-raster", platform) # None
<1> DEFINE d == DriverFor("gdi-raster", platform)
           chains == Chains(format, "gdi-raster")
           pipe == Compose(format, "gdi-raster", platform)
<1>1. d # 0
  <2>1. 3 \in DOMAIN Drivers(platform) /\ "gdi-raster" \in Drivers(platform)[3].accepts
    BY DEF Drivers
  <2>2. QED
    BY <2>1, DriverIs
<1>2. ~SourceIsDevice(format, "gdi-raster")
  BY DEF SourceIsDevice, deviceOfSource
<1>3. chains # {}
  <2>1. CASE format = "pdf"
    <3>1. <<3, 1>> \in chains
      BY <2>1 DEF Chains, Encoders, Renderers
    <3>2. QED
      BY <3>1
  <2>2. CASE format # "pdf"
    <3>1. <<3, 2>> \in chains
      BY <2>2 DEF Chains, Encoders, Renderers
    <3>2. QED
      BY <3>1
  <2>3. QED
    BY <2>1, <2>2
<1>4. d \in DOMAIN Drivers(platform)
  BY <1>1, DriverIs
<1>5. pipe = [renderer |-> Renderers[First(chains)[2]],
              encoder |-> Encoders[First(chains)[1]], driver |-> Drivers(platform)[d]]
  BY <1>1, <1>2, <1>3 DEF Compose, DriverFor
<1>6. First(chains) \in (1..3) \X (1..3)
  <2>1. chains \subseteq (1..3) \X (1..3)
    BY StageTypes DEF Chains
  <2> HIDE DEF chains
  <2>2. QED
    BY <1>3, <2>1, FirstIs
<1>7. pipe \in Pipe
  <2>1. /\ Encoders[First(chains)[1]] \in [accepts : Kind, produces : Device]
        /\ Renderers[First(chains)[2]] \in [reads : SUBSET Source, produces : Kind]
    BY <1>6, StageTypes
  <2>2. Drivers(platform)[d] \in
          [name : {"spooler", "pdfvector", "gdi", "cupsRaw", "cupsNative"},
           accepts : SUBSET Device]
    BY <1>4, DriverTypes
  <2> HIDE DEF pipe, d, chains
  <2>3. QED
    BY <1>5, <2>1, <2>2 DEF Pipe
<1>8. QED
  BY <1>7, PipelineAssumption

-----------------------------------------------------------------------------
(* Type correctness.                                                       *)

\* The settings, in the order they are installed.
LEMMA ApplyOrderIs ==
  /\ Len(ApplyOrder) = 4
  /\ ApplyOrder[1] = "tuning" /\ ApplyOrder[2] = "margin"
  /\ ApplyOrder[3] = "mode" /\ ApplyOrder[4] = "roles"
  /\ ToSet(ApplyOrder) = {"tuning", "margin", "mode", "roles"}
<1>1. DOMAIN ApplyOrder = {1, 2, 3, 4}
  BY DEF ApplyOrder
<1>2. QED
  BY <1>1 DEF ApplyOrder, ToSet

\* A role resolves to a printer that is turned on for it, if there is one; to the
\* default when it is one of several.
Serves(c, role, p) ==
  \E i \in DOMAIN c.printers :
    c.printers[i].name = p /\ c.printers[i].role = role /\ c.printers[i].enabled

LEMMA RoleResolveIs ==
  ASSUME NEW c \in Config, NEW role
  PROVE  LET p == RoleResolve(c, role) IN
         /\ p \in Printer \cup {None}
         /\ role # None =>
              /\ Serves(c, role, p) \/ \A q \in Printer : ~Serves(c, role, q)
              /\ Serves(c, role, c.default) => p = c.default
<1> DEFINE I == {i \in DOMAIN c.printers : c.printers[i].role = role /\ c.printers[i].enabled}
           p == RoleResolve(c, role)
           isDefault == \E i \in I : c.printers[i].name = c.default
<1>1. /\ c.default \in Printer \cup {None}
      /\ DOMAIN c.printers \in SUBSET Nat
      /\ \A i \in DOMAIN c.printers : c.printers[i].name \in Printer
  <2>1. c.printers \in Seq(Managed) /\ c.default \in Printer \cup {None}
    BY DEF Config
  <2>2. DOMAIN c.printers = 1..Len(c.printers) /\ Len(c.printers) \in Nat
    BY <2>1, LenProperties
  <2>3. \A i \in 1..Len(c.printers) : c.printers[i] \in Managed
    BY <2>1, ElementOfSeq
  <2>4. QED
    BY <2>1, <2>2, <2>3 DEF Managed
<1>2. p = IF role = None \/ I = {} \/ isDefault THEN c.default
          ELSE c.printers[Min(I)].name
  BY DEF RoleResolve
<1>3. I # {} => Min(I) \in I
  <2>1. I \in SUBSET Nat
    BY <1>1
  <2> HIDE DEF I
  <2>2. QED
    BY <2>1, MinIs
<1>4. \A q : Serves(c, role, q) <=> \E i \in I : c.printers[i].name = q
  BY DEF Serves
<1>5. I \subseteq DOMAIN c.printers
  OBVIOUS
<1> HIDE DEF I, p
<1>6. CASE role = None \/ I = {} \/ isDefault
  BY <1>1, <1>2, <1>4, <1>6 DEF p
<1>7. CASE ~ (role = None \/ I = {} \/ isDefault)
  <2>1. Min(I) \in I /\ p = c.printers[Min(I)].name
    BY <1>2, <1>3, <1>7
  <2>2. p \in Printer /\ Serves(c, role, p) /\ ~Serves(c, role, c.default)
    BY <1>1, <1>4, <1>5, <1>7, <2>1
  <2>3. QED
    BY <2>2 DEF p
<1>8. QED
  BY <1>6, <1>7

\* The print record of one actor changes and nothing else.
LEMMA UpdateType ==
  ASSUME TypeOK, NEW a \in Actor, NEW rec \in Printing,
         Update(a, rec), cache' = cache, StepOK(rec),
         \A u \in rec.used : u[2] \in DOMAIN conf
  PROVE  TypeOK'
<1>1. UNCHANGED <<os, conf, installed, applying, cache, frames, jobs>>
  BY DEF Update, settings
<1>2. print' = [print EXCEPT ![a] = rec]
  BY DEF Update
<1>3. print' \in [Actor -> Printing]
  BY <1>2 DEF TypeOK
<1>4. ASSUME NEW b \in Actor
      PROVE  StepOK(print'[b]) /\ \A u \in print'[b].used : u[2] \in DOMAIN conf
  <2>1. CASE b = a
    BY <1>2, <2>1 DEF TypeOK
  <2>2. CASE b # a
    BY <1>2, <2>2 DEF TypeOK
  <2>3. QED
    BY <2>1, <2>2
<1>5. QED
  BY <1>1, <1>3, <1>4 DEF TypeOK, StepOK

\* The print of one actor ends.
LEMMA EndedType ==
  ASSUME NEW rec \in Printing, StepOK(rec), rec.at # "idle",
         NEW n \in Nat, NEW why \in Errors \cup {None}
  PROVE  /\ Ended(rec, n, why) \in Printing
         /\ StepOK(Ended(rec, n, why))
         /\ Ended(rec, n, why).used = rec.used
<1>1. Ended(rec, n, why) \in Printing
  <2>1. rec.docs \in Nat /\ rec.docs + n \in Nat
    BY DEF Printing
  <2>2. [[[[rec EXCEPT !.at = "done"] EXCEPT !.docs = rec.docs + n] EXCEPT !.why = why]
           EXCEPT !.own = None] \in Printing
    BY <2>1 DEF Printing
  <2>3. QED
    BY <2>2 DEF Ended
<1>2. /\ Ended(rec, n, why).at = "done" /\ Ended(rec, n, why).op = rec.op
      /\ Ended(rec, n, why).source = rec.source
      /\ Ended(rec, n, why).used = rec.used
  BY DEF Ended, Printing
<1>3. QED
  BY <1>1, <1>2 DEF StepOK, Early, Sending

\* Two records of one print, at one step of one document, which may differ in what
\* became of the document in the queue.
SameAttempt(rec, pr) ==
  /\ rec.at = pr.at /\ rec.op = pr.op /\ rec.printer = pr.printer /\ rec.role = pr.role
  /\ rec.source = pr.source /\ rec.prof = pr.prof /\ rec.pipe = pr.pipe
  /\ rec.since = pr.since /\ rec.used = pr.used /\ rec.why = pr.why
  /\ rec.doc.pages = pr.doc.pages /\ rec.doc.level = pr.doc.level
  /\ rec.doc.page = pr.doc.page /\ rec.doc.margin = pr.doc.margin
  /\ rec.doc.drawn = pr.doc.drawn

LEMMA AttemptStepOK ==
  ASSUME NEW pr, NEW rec, StepOK(pr), pr.at = "page", SameAttempt(rec, pr)
  PROVE  StepOK(rec)
BY DEF StepOK, SameAttempt, Early, Sending

\* A document that is given up is gone, or it is one of those left in the queue.
LEMMA AbortDocIs ==
  ASSUME NEW pr \in Printing, NEW rec \in AbortDoc(pr)
  PROVE  /\ rec \in Printing /\ SameAttempt(rec, pr)
         /\ \E n \in {0, 1} : rec.docs = pr.docs + n /\ rec.doc.left = pr.doc.left + n
         /\ rec.doc.lost = pr.doc.lost
<1> DEFINE doc == [pr.doc EXCEPT !.left = @ + 1]
           kept == [pr EXCEPT !.docs = @ + 1, !.doc = doc]
<1>1. pr.doc \in Doc /\ pr.docs \in Nat
  BY DEF Printing
<1>2. /\ doc \in Doc /\ doc.left = pr.doc.left + 1 /\ doc.lost = pr.doc.lost
      /\ doc.pages = pr.doc.pages /\ doc.level = pr.doc.level /\ doc.page = pr.doc.page
      /\ doc.margin = pr.doc.margin /\ doc.drawn = pr.doc.drawn
  BY <1>1 DEF Doc
<1>3. rec = pr \/ rec = kept
  BY DEF AbortDoc
<1> HIDE DEF doc
<1>4. CASE rec = pr
  <2>1. pr.docs = pr.docs + 0 /\ pr.doc.left = pr.doc.left + 0
    BY <1>1 DEF Doc
  <2>2. SameAttempt(rec, pr)
    BY <1>4 DEF SameAttempt
  <2>3. QED
    BY <1>4, <2>1, <2>2
<1>5. CASE rec = kept
  <2>0. [[pr EXCEPT !.docs = pr.docs + 1] EXCEPT !.doc = doc] \in Printing
    <3>1. [pr EXCEPT !.docs = pr.docs + 1] \in Printing
      BY <1>1 DEF Printing
    <3>2. QED
      BY <1>2, <3>1 DEF Printing
  <2>1. kept \in Printing /\ kept.docs = pr.docs + 1 /\ kept.doc = doc
    BY <2>0 DEF Printing
  <2>2. SameAttempt(kept, pr)
    BY <1>2 DEF SameAttempt, Printing
  <2> HIDE DEF kept
  <2>3. QED
    BY <1>2, <1>5, <2>1, <2>2
<1>6. QED
  BY <1>3, <1>4, <1>5

\* A document that is ended is in the queue, or it is lost.
LEMMA EndDocIs ==
  ASSUME NEW pr \in Printing, NEW rec \in EndDoc(pr)
  PROVE  /\ rec \in Printing /\ SameAttempt(rec, pr)
         /\ rec.docs + rec.doc.lost = pr.docs + pr.doc.lost + 1
         /\ rec.doc.left = pr.doc.left
<1> DEFINE doc == [pr.doc EXCEPT !.lost = @ + 1]
           queued == [pr EXCEPT !.docs = @ + 1]
           gone == [pr EXCEPT !.doc = doc]
<1>1. pr.doc \in Doc /\ pr.docs \in Nat /\ pr.doc.lost \in Nat
  BY DEF Printing, Doc
<1>2. /\ doc \in Doc /\ doc.lost = pr.doc.lost + 1 /\ doc.left = pr.doc.left
      /\ doc.pages = pr.doc.pages /\ doc.level = pr.doc.level /\ doc.page = pr.doc.page
      /\ doc.margin = pr.doc.margin /\ doc.drawn = pr.doc.drawn
  BY <1>1 DEF Doc
<1>3. rec = queued \/ rec = gone
  BY DEF EndDoc
<1> HIDE DEF doc
<1>4. CASE rec = queued
  <2>1. queued \in Printing /\ queued.docs = pr.docs + 1 /\ queued.doc = pr.doc
    BY <1>1 DEF Printing
  <2>2. SameAttempt(queued, pr)
    BY DEF SameAttempt, Printing
  <2> HIDE DEF queued
  <2>3. QED
    BY <1>1, <1>4, <2>1, <2>2
<1>5. CASE rec = gone
  <2>1. gone \in Printing /\ gone.docs = pr.docs /\ gone.doc = doc
    BY <1>2 DEF Printing
  <2>2. SameAttempt(gone, pr)
    BY <1>2 DEF SameAttempt, Printing
  <2> HIDE DEF gone
  <2>3. QED
    BY <1>1, <1>2, <1>5, <2>1, <2>2
<1>6. QED
  BY <1>3, <1>4, <1>5

\* A print that is under way is well typed.
LEMMA PrintType ==
  ASSUME TypeOK, NEW a \in Actor
  PROVE  /\ print[a] \in Printing /\ StepOK(print[a])
         /\ \A u \in print[a].used : u[2] \in DOMAIN conf
         /\ print[a].doc \in Doc
         /\ \A s \in {"tuning", "margin", "mode", "roles"} :
              installed[s] \in DOMAIN conf /\ installed[s] \in Nat
         /\ \A n \in DOMAIN conf : conf[n] \in Config
<1>1. DOMAIN conf = 1..Len(conf) /\ \A n \in DOMAIN conf : conf[n] \in Config
  BY LenProperties, ElementOfSeq DEF TypeOK
<1>2. QED
  BY <1>1, ApplyOrderIs DEF TypeOK, Printing

\* An actor that prints nothing is well typed.
LEMMA IdleType == Idle \in Printing /\ StepOK(Idle) /\ Idle.used = {}
<1>1. NoDoc \in Doc
  BY DEF NoDoc, Doc
<1>2. QED
  BY <1>1 DEF Idle, Printing, StepOK, Early, Sending, Taken

\* A print that begins is well typed.
LEMMA StartType ==
  ASSUME TypeOK, NEW a \in Actor, NEW rec \in Printing, StepOK(rec),
         Start(a, rec), \A u \in rec.used : u[2] \in DOMAIN conf
  PROVE  TypeOK'
<1>1. /\ UNCHANGED <<os, conf, installed, applying, cache, frames>>
      /\ jobs' \in 0..MaxJobs
  BY PrintPathAssumption DEF Start, settings, TypeOK
<1>2. Answered \in Nat
  BY DEF Answered, TypeOK
<1> DEFINE new == [rec EXCEPT !.since = Answered]
<1>3. new \in Printing
  BY <1>2 DEF Printing
<1>4. StepOK(new) /\ new.used = rec.used
  <2>1. /\ new.at = rec.at /\ new.op = rec.op /\ new.source = rec.source
        /\ new.pipe = rec.pipe /\ new.why = rec.why /\ new.docs = rec.docs
        /\ new.printer = rec.printer /\ new.prof = rec.prof /\ new.doc = rec.doc
        /\ new.used = rec.used
    BY DEF Printing
  <2> HIDE DEF new
  <2>2. QED
    BY <2>1 DEF StepOK
<1>5. Idle \in Printing /\ StepOK(Idle) /\ Idle.used = {}
  BY IdleType
<1>6. print' = [b \in Actor |-> IF b = a THEN new
                                ELSE IF Free(b) THEN Idle ELSE print[b]]
  BY DEF Start
<1> HIDE DEF new
<1>7. \A b \in Actor : /\ print'[b] \in Printing /\ StepOK(print'[b])
                       /\ \A u \in print'[b].used : u[2] \in DOMAIN conf
  <2> TAKE b \in Actor
  <2>1. CASE b = a
    BY <1>3, <1>4, <1>6, <2>1
  <2>2. CASE b # a /\ Free(b)
    BY <1>5, <1>6, <2>2
  <2>3. CASE b # a /\ ~Free(b)
    BY <1>6, <2>3 DEF TypeOK
  <2>4. QED
    BY <2>1, <2>2, <2>3
<1>8. print' \in [Actor -> Printing]
  BY <1>6, <1>7
<1>9. QED
  BY <1>1, <1>7, <1>8 DEF TypeOK

LEMMA ProfilesType ==
  /\ escposProfile \in ReadyProfile /\ pdfProfile \in ReadyProfile
  /\ \A width \in Nat : [escposProfile EXCEPT !.width = width] \in ReadyProfile
<1>1. /\ <<"escpos">> \in Seq(Device) /\ <<"pdf">> \in Seq(Device)
      /\ <<"escpos">> # <<>> /\ <<"pdf">> # <<>>
  BY DEF Device
<1>2. pdfProfile \in ReadyProfile
  BY <1>1 DEF pdfProfile, ReadyProfile, Profile
<1>3. escposProfile \in ReadyProfile
  BY <1>1 DEF escposProfile, ReadyProfile, Profile
<1>4. \A width \in Nat : [escposProfile EXCEPT !.width = width] \in ReadyProfile
  BY <1>3 DEF ReadyProfile, Profile
<1>5. QED
  BY <1>2, <1>3, <1>4

LEMMA BeginType ==
  ASSUME TypeOK, Begin
  PROVE  TypeOK'
<1>1. DOMAIN conf = 1..Len(conf) /\ Len(conf) \in Nat \ {0}
  BY LenProperties DEF TypeOK
<1>2. JobFormats \subseteq Source /\ Widths \subseteq Nat
  BY PrintPathAssumption
<1>3. Idle \in Printing /\ Idle.used = {}
  BY IdleType
<1>4. ASSUME NEW role \in Role \cup {None}, NEW format \in JobFormats,
             BeginJob(None, role, format)
      PROVE  TypeOK'
  <2> DEFINE rec == [Idle EXCEPT !.at = "role", !.op = "job", !.printer = None,
                                 !.role = role, !.source = format]
  <2>1. rec \in Printing /\ StepOK(rec) /\ rec.used = {}
    <3>1. NoDoc \in Doc
      BY DEF NoDoc, Doc
    <3>2. QED
      BY <1>2, <3>1 DEF Idle, Printing, StepOK, Early, Sending, Taken
  <2>2. Start("session", rec)
    BY <1>4 DEF BeginJob
  <2> HIDE DEF rec
  <2>3. QED
    BY <2>1, <2>2, StartType DEF Actor
<1>5. ASSUME NEW p \in Printer, NEW format \in JobFormats, BeginJob(p, None, format)
      PROVE  TypeOK'
  <2> DEFINE rec == [Idle EXCEPT !.at = "profile", !.op = "job", !.printer = p,
                                 !.role = None, !.source = format]
  <2>1. rec \in Printing /\ StepOK(rec) /\ rec.used = {}
    <3>1. NoDoc \in Doc
      BY DEF NoDoc, Doc
    <3>2. QED
      BY <1>2, <3>1 DEF Idle, Printing, StepOK, Early, Sending, Taken
  <2>2. Start("session", rec)
    BY <1>5, PipelineAssumption DEF BeginJob
  <2> HIDE DEF rec
  <2>3. QED
    BY <2>1, <2>2, StartType DEF Actor
<1>6. ASSUME NEW p \in Printer, NEW op \in {"test", "drawer"}, NEW n \in DOMAIN conf,
             NEW own \in ReadyProfile, NEW a \in Actor,
             Start(a, [Idle EXCEPT !.at = "profile", !.op = op, !.printer = p,
                                   !.own = own, !.used = {<<"cfg", n>>}])
      PROVE  TypeOK'
  <2> DEFINE used == {<<"cfg", n>>}
             rec == [Idle EXCEPT !.at = "profile", !.op = op, !.printer = p,
                                 !.own = own, !.used = used]
  <2>1. rec \in Printing /\ StepOK(rec) /\ rec.used = used
    <3>1. NoDoc \in Doc
      BY DEF NoDoc, Doc
    <3>2. used \in Taken
      BY <1>1 DEF Taken
    <3> HIDE DEF used
    <3>3. QED
      BY <3>1, <3>2 DEF Idle, Printing, StepOK, Early, Sending
  <2>2. Start(a, rec)
    BY <1>6
  <2> HIDE DEF rec
  <2>3. QED
    BY <2>1, <2>2, StartType
<1>7. ASSUME NEW p \in Printer, NEW op \in {"test", "drawer"}, PanelBegin(p, op)
      PROVE  TypeOK'
  <2>1. Len(conf) \in DOMAIN conf /\ Fallback(conf[Len(conf)], p) \in ReadyProfile
    BY <1>1, ProfilesType DEF Fallback
  <2>2. QED
    BY <1>6, <1>7, <2>1 DEF PanelBegin, CfgNumber, Actor
<1>8. ASSUME NEW p \in Printer, TrayBegin(p) PROVE TypeOK'
  <2>1. 1 \in DOMAIN conf /\ Fallback(conf[1], p) \in ReadyProfile
    BY <1>1, ProfilesType DEF Fallback
  <2>2. QED
    BY <1>6, <1>8, <2>1 DEF TrayBegin, CfgNumber, Actor
<1>9. ASSUME NEW p \in Printer, NEW format \in JobFormats, NEW width \in Widths,
             HTTPBegin(p, format, width)
      PROVE  TypeOK'
  <2> DEFINE own == [escposProfile EXCEPT !.width = width]
             rec == [Idle EXCEPT !.at = "profile", !.op = "job", !.printer = p,
                                 !.source = format, !.own = own]
  <2>1. own \in ReadyProfile
    BY <1>2, ProfilesType
  <2>2. Start("http", rec)
    BY <1>9 DEF HTTPBegin
  <2> HIDE DEF own
  <2>3. rec \in Printing /\ StepOK(rec) /\ rec.used = {}
    <3>1. NoDoc \in Doc
      BY DEF NoDoc, Doc
    <3>2. QED
      BY <1>2, <2>1, <3>1 DEF Idle, Printing, StepOK, Early, Sending, Taken
  <2> HIDE DEF rec
  <2>4. QED
    BY <2>2, <2>3, StartType DEF Actor
<1>10. QED
  BY <1>4, <1>5, <1>7, <1>8, <1>9 DEF Begin

\* Every step of a print keeps it well typed.
LEMMA StepType ==
  ASSUME TypeOK, NEW a \in Actor, Step(a)
  PROVE  TypeOK'
<1> DEFINE pr == print[a]
<1>1. /\ pr \in Printing /\ StepOK(pr)
      /\ \A u \in pr.used : u[2] \in DOMAIN conf
      /\ pr.doc \in Doc
      /\ \A s \in {"tuning", "margin", "mode", "roles"} :
           installed[s] \in DOMAIN conf /\ installed[s] \in Nat
      /\ \A n \in DOMAIN conf : conf[n] \in Config
  <2> HIDE DEF pr
  <2>1. QED
    BY PrintType DEF pr
<1> HIDE DEF pr
\* A setting joins the settings a print took.
<1>2. ASSUME NEW s \in {"tuning", "margin", "mode", "roles"}
      PROVE  LET used == pr.used \cup {<<s, installed[s]>>} IN
             /\ used \in Taken
             /\ \A u \in used : u[2] \in DOMAIN conf
  BY <1>1, ApplyOrderIs DEF Printing, Taken
<1>3. ASSUME pr.at # "idle", NEW n \in Nat, NEW why \in Errors \cup {None},
             Update(a, Ended(pr, n, why)), cache' = cache
      PROVE  TypeOK'
  <2>1. /\ Ended(pr, n, why) \in Printing /\ StepOK(Ended(pr, n, why))
        /\ Ended(pr, n, why).used = pr.used
    BY <1>1, <1>3, EndedType
  <2>2. QED
    BY <1>1, <1>3, <2>1, UpdateType
<1>4. CASE ResolveRole(a)
  <2> DEFINE p == RoleResolve(conf[installed.roles], pr.role)
             used == pr.used \cup {<<"roles", installed.roles>>}
             rec == [pr EXCEPT !.printer = p, !.used = used]
  <2>1. p \in Printer \cup {None}
    BY <1>1, RoleResolveIs
  <2>2. pr.at = "role" /\ cache' = cache
    BY <1>4 DEF ResolveRole, At, pr
  <2>3. Update(a, IF p = None THEN Ended(rec, 0, "no printer")
                  ELSE [rec EXCEPT !.at = "profile"])
    BY <1>4 DEF ResolveRole, pr
  <2>4. /\ used \in Taken
        /\ \A u \in used : u[2] \in DOMAIN conf
    BY <1>2
  <2> HIDE DEF p, used
  <2>5. CASE p # None
    <3> DEFINE next == [rec EXCEPT !.at = "profile"]
    <3>0. /\ next \in Printing
          /\ next.at = "profile" /\ next.printer = p /\ next.used = used
          /\ next.op = pr.op /\ next.source = pr.source /\ next.pipe = pr.pipe
          /\ next.why = pr.why /\ next.docs = pr.docs
      BY <1>1, <2>1, <2>4 DEF Printing, Early
    <3>1. next \in Printing /\ StepOK(next) /\ next.used = used
      <4> HIDE DEF next
      <4>1. QED
        BY <1>1, <2>1, <2>2, <2>5, <3>0 DEF StepOK, Early, Sending
    <3>2. Update(a, next)
      BY <2>3, <2>5
    <3> HIDE DEF next
    <3>3. QED
      BY <2>2, <2>4, <3>1, <3>2, UpdateType
  <2>6. CASE p = None
    <3> DEFINE next == Ended(rec, 0, "no printer")
    <3>0. /\ rec \in Printing
          /\ rec.at = pr.at /\ rec.printer = p /\ rec.used = used
          /\ rec.op = pr.op /\ rec.source = pr.source /\ rec.pipe = pr.pipe
          /\ rec.why = pr.why /\ rec.docs = pr.docs
      <4>1. rec \in Printing
        BY <1>1, <2>1, <2>4 DEF Printing
      <4>2. QED
        BY <1>1, <4>1 DEF Printing
    <3>1. rec \in Printing /\ StepOK(rec) /\ rec.used = used /\ rec.at = "role"
      <4> HIDE DEF rec
      <4>1. QED
        BY <1>1, <2>1, <2>2, <2>6, <3>0 DEF StepOK, Early, Sending
    <3>2. Update(a, next)
      BY <2>3, <2>6
    <3> HIDE DEF rec
    <3>3. next \in Printing /\ StepOK(next) /\ next.used = used
      BY <3>1, EndedType DEF Errors
    <3> HIDE DEF next
    <3>4. QED
      BY <2>2, <2>4, <3>2, <3>3, UpdateType
  <2>7. QED
    BY <2>5, <2>6
<1>5. CASE ReadProfile(a)
  <2> DEFINE cached == cache[pr.printer]
             prof == IF cached # None THEN cached ELSE pr.own
             next == [pr EXCEPT !.prof = prof, !.at = "mode"]
  <2>1. pr.at = "profile" /\ cache' = cache /\ pr.printer \in Printer
    BY <1>1, <1>5 DEF ReadProfile, At, StepOK, pr
  <2>2. Update(a, IF prof = None THEN Ended(pr, 0, "no profile") ELSE next)
    BY <1>5 DEF ReadProfile, pr
  <2>3. prof \in ReadyProfile \cup {None}
    BY <1>1, <2>1 DEF TypeOK, Printing
  <2> HIDE DEF prof
  <2>4. CASE prof = None
    BY <1>3, <2>1, <2>2, <2>4 DEF Errors
  <2>5. CASE prof # None
    <3>1. next \in Printing /\ StepOK(next) /\ next.used = pr.used
      BY <1>1, <2>1, <2>3, <2>5 DEF Printing, StepOK, Early, Sending
    <3>2. Update(a, next)
      BY <2>2, <2>5
    <3> HIDE DEF next
    <3>3. QED
      BY <1>1, <2>1, <3>1, <3>2, UpdateType
  <2>6. QED
    BY <2>4, <2>5
<1>6. CASE Prepare(a)
  <2> DEFINE mode == PageModeOf(conf[installed.mode], pr.printer)
             prof == normalize(os, mode, pr.printer, pr.prof)
             source == SourceOf(pr, prof)
             pipe == Resolve(source, prof, os)
             why == Refused(pr, prof, pipe)
             used == IF os.windows THEN pr.used \cup {<<"mode", installed.mode>>}
                                   ELSE pr.used
             ready == IF why = None THEN pipe ELSE None
             rec == [pr EXCEPT !.prof = prof, !.source = source, !.at = "encode",
                               !.pipe = ready, !.used = used]
  <2>1. pr.at = "mode" /\ cache' = cache
    BY <1>6 DEF Prepare, At, pr
  <2>2. Update(a, IF why = None THEN rec ELSE Ended(rec, 0, why))
    BY <1>6 DEF Prepare, pr
  <2>3. /\ pr.prof \in ReadyProfile /\ pr.printer \in Printer
        /\ pr.pipe = None /\ pr.why = None /\ pr.docs = 0
        /\ pr.op \in {"job", "test", "drawer"} /\ (pr.op = "job" => pr.source \in Source)
    BY <1>1, <2>1 DEF StepOK, Early, Sending
  <2>4. prof \in ReadyProfile
    <3>1. os \in Platform
      BY DEF TypeOK
    <3>2. QED
      BY <2>3, <3>1, NormalizeIs
  <2>5. used \in Taken /\ \A u \in used : u[2] \in DOMAIN conf
    <3>1. pr.used \in Taken
      BY <1>1 DEF Printing
    <3>2. QED
      BY <1>1, <1>2, <3>1
  <2> HIDE DEF mode, prof
  <2>6. source \in Source
    BY <2>3 DEF SourceOf, Source
  <2> HIDE DEF source
  <2>7. pipe \in Pipe \cup {None}
    <3>1. os \in Platform
      BY DEF TypeOK
    <3>2. QED
      BY <2>4, <2>6, <3>1, ResolveFits DEF Fits
  <2> HIDE DEF pipe
  <2>8. why \in Errors \cup {None} /\ (why = None => pipe # None)
    BY PrintPathAssumption DEF Refused, Errors
  <2> HIDE DEF why, used
  <2>9. ready \in Pipe \cup {None} /\ (why = None => ready \in Pipe)
    BY <2>7, <2>8
  <2> HIDE DEF ready
  <2>10. rec \in Printing
    BY <1>1, <2>4, <2>5, <2>6, <2>9 DEF Printing
  <2>11. /\ rec.at = "encode" /\ rec.prof = prof /\ rec.source = source
         /\ rec.pipe = ready /\ rec.used = used /\ rec.printer = pr.printer
         /\ rec.op = pr.op /\ rec.why = pr.why /\ rec.docs = pr.docs
    BY <1>1 DEF Printing
  <2> HIDE DEF rec
  <2>12. CASE why = None
    <3>1. StepOK(rec)
      BY <2>3, <2>4, <2>6, <2>9, <2>11, <2>12 DEF StepOK, Early, Sending
    <3>2. QED
      BY <2>1, <2>2, <2>5, <2>10, <2>11, <2>12, <3>1, UpdateType
  <2>13. CASE why # None
    <3> DEFINE next == Ended(rec, 0, why)
    <3>1. /\ next \in Printing /\ next.used = used /\ next.at = "done"
          /\ next.op = pr.op /\ next.source = source
      <4>1. next \in Printing
        <5>1. rec.docs + 0 \in Nat
          BY <2>10 DEF Printing
        <5>2. QED
          BY <2>8, <2>10, <5>1 DEF Ended, Printing
      <4>2. /\ next.used = rec.used /\ next.at = "done"
            /\ next.op = rec.op /\ next.source = rec.source
        BY <2>10 DEF Ended, Printing
      <4>3. QED
        BY <2>11, <4>1, <4>2
    <3> HIDE DEF next
    <3>2. StepOK(next)
      BY <2>3, <2>6, <3>1 DEF StepOK, Early, Sending
    <3>3. Update(a, next)
      BY <2>2, <2>13 DEF next
    <3>4. QED
      BY <2>1, <2>5, <3>1, <3>2, <3>3, UpdateType
  <2>14. QED
    BY <2>12, <2>13
<1>7. CASE Encode(a)
  <2> DEFINE used == pr.used \cup {<<"tuning", installed.tuning>>}
             rec == [pr EXCEPT !.used = used]
             next == [rec EXCEPT !.at = "send"]
  <2>1. pr.at = "encode" /\ cache' = cache
    BY <1>7 DEF Encode, At, pr
  <2>2. Update(a, next) \/ Update(a, Ended(pr, 0, "render"))
    BY <1>7 DEF Encode, pr
  <2>3. used \in Taken /\ \A u \in used : u[2] \in DOMAIN conf
    BY <1>2
  <2> HIDE DEF used
  <2>4. next \in Printing
    BY <1>1, <2>3 DEF Printing, Sending
  <2>5. /\ next.at = "send" /\ next.used = used /\ next.prof = pr.prof
        /\ next.source = pr.source /\ next.pipe = pr.pipe /\ next.printer = pr.printer
        /\ next.op = pr.op /\ next.why = pr.why /\ next.docs = pr.docs
    BY <1>1 DEF Printing
  <2> HIDE DEF next
  <2>6. StepOK(next)
    BY <1>1, <2>1, <2>5 DEF StepOK, Early, Sending
  <2>7. CASE Update(a, next)
    BY <2>1, <2>3, <2>4, <2>5, <2>6, <2>7, UpdateType
  <2>8. CASE Update(a, Ended(pr, 0, "render"))
    BY <1>3, <2>1, <2>8 DEF Errors
  <2>9. QED
    BY <2>2, <2>7, <2>8
<1>8. CASE SendRaw(a) \/ SendCups(a) \/ SendVector(a)
  <2>1. /\ pr.at = "send" /\ cache' = cache
        /\ Hands(a) \/ Update(a, Ended(pr, 0, None))
    BY <1>8 DEF SendRaw, SendCups, SendVector, At, Hands, pr
  <2>2. pr.at = "send" /\ cache' = cache
    BY <2>1
  <2>3. \/ \E n \in {0, 1} : Update(a, Ended(pr, n, None))
        \/ \E n \in {0, 1} : Update(a, Ended(pr, n, "send"))
    BY <2>1 DEF Hands, pr
  <2>4. QED
    BY <1>3, <2>2, <2>3 DEF Errors
<1>9. ASSUME NEW pages \in Documents, NEW limit \in Limits, SendPages(a, pages, limit)
      PROVE  TypeOK'
  <2> DEFINE doc == [NoDoc EXCEPT !.pages = pages, !.limit = limit]
             next == [pr EXCEPT !.at = "open", !.doc = doc]
  <2>1. pr.at = "send" /\ pr.pipe.driver.name = "gdi" /\ Update(a, next) /\ cache' = cache
    BY <1>9 DEF SendPages, At, pr
  <2>2. doc \in Doc /\ doc.pages = pages /\ pages # <<>>
    BY PrintPathAssumption DEF NoDoc, Doc
  <2> HIDE DEF doc
  <2>3. next \in Printing
    BY <1>1, <2>2 DEF Printing, Sending
  <2>4. /\ next.at = "open" /\ next.doc = doc /\ next.used = pr.used /\ next.prof = pr.prof
        /\ next.source = pr.source /\ next.pipe = pr.pipe /\ next.printer = pr.printer
        /\ next.op = pr.op /\ next.why = pr.why /\ next.docs = pr.docs
    BY <1>1 DEF Printing
  <2> HIDE DEF next
  <2>5. StepOK(next)
    BY <1>1, <2>1, <2>2, <2>4 DEF StepOK, Early, Sending
  <2>6. QED
    BY <1>1, <2>1, <2>3, <2>4, <2>5, UpdateType
<1>10. CASE OpenDoc(a)
  <2> DEFINE doc == [pr.doc EXCEPT !.page = 1, !.drawn = {}, !.margin = installed.margin]
             used == pr.used \cup {<<"margin", installed.margin>>}
             next == [pr EXCEPT !.at = "page", !.doc = doc, !.used = used]
  <2>1. /\ pr.at = "open" /\ cache' = cache
        /\ Update(a, next) \/ Update(a, Ended(pr, 0, "send"))
    BY <1>10 DEF OpenDoc, At, pr
  <2>2. pr.doc.pages # <<>> /\ pr.pipe.driver.name = "gdi"
    BY <1>1, <2>1 DEF StepOK
  <2>3. doc \in Doc /\ doc.pages = pr.doc.pages /\ doc.page = 1
    <3>1. pr.doc \in Doc /\ installed.margin \in Nat
      BY <1>1
    <3>2. QED
      BY <3>1 DEF Doc
  <2>4. 1 \in DOMAIN doc.pages
    <3>1. doc.pages \in Seq(0..firstDIBCap)
      BY <2>2, <2>3, PrintPathAssumption DEF Doc
    <3>2. Len(doc.pages) \in Nat \ {0} /\ DOMAIN doc.pages = 1..Len(doc.pages)
      BY <2>2, <2>3, <3>1, LenProperties, EmptySeq
    <3>3. QED
      BY <3>2
  <2>5. used \in Taken /\ \A u \in used : u[2] \in DOMAIN conf
    BY <1>2
  <2> HIDE DEF doc, used
  <2>6. next \in Printing
    BY <1>1, <2>3, <2>5 DEF Printing, Sending
  <2>7. /\ next.at = "page" /\ next.doc = doc /\ next.used = used /\ next.prof = pr.prof
        /\ next.source = pr.source /\ next.pipe = pr.pipe /\ next.printer = pr.printer
        /\ next.op = pr.op /\ next.why = pr.why /\ next.docs = pr.docs
    BY <1>1 DEF Printing
  <2> HIDE DEF next
  <2>8. StepOK(next)
    BY <1>1, <2>1, <2>2, <2>3, <2>4, <2>7 DEF StepOK, Early, Sending
  <2>9. CASE Update(a, next)
    BY <2>1, <2>5, <2>6, <2>7, <2>8, <2>9, UpdateType
  <2>10. CASE Update(a, Ended(pr, 0, "send"))
    BY <1>3, <2>1, <2>10 DEF Errors
  <2>11. QED
    BY <2>1, <2>9, <2>10
<1>11. CASE DrawPage(a)
  <2> DEFINE doc == pr.doc
             drawnDoc == [doc EXCEPT !.drawn = @ \cup {doc.margin}]
             drawn == [pr EXCEPT !.doc = drawnDoc]
             nextDoc == [drawnDoc EXCEPT !.page = @ + 1]
             next == [drawn EXCEPT !.doc = nextDoc]
             Again(rec) == [rec EXCEPT !.at = "open", !.doc.level = doc.level + 1]
  <2>1. pr.at = "page" /\ cache' = cache
    BY <1>11 DEF DrawPage, At, pr
  <2>2. \/ \E rec \in AbortDoc(pr), why \in {"floor", "attempts", "send"} :
             Update(a, Ended(rec, 0, why))
        \/ \E rec \in AbortDoc(pr) : Update(a, Again(rec))
        \/ \E rec \in EndDoc(drawn) : Update(a, Ended(rec, 0, None))
        \/ doc.page # Len(doc.pages) /\ Update(a, next)
    <3> DEFINE drawn0 == [pr EXCEPT !.doc.drawn = @ \cup {PageMargin(doc)}]
    <3>1. \/ \E rec \in AbortDoc(pr), why \in {"floor", "attempts", "send"} :
               Update(a, Ended(rec, 0, why))
          \/ \E rec \in AbortDoc(pr) : Update(a, Again(rec))
          \/ \E rec \in EndDoc(drawn0) : Update(a, Ended(rec, 0, None))
          \/ doc.page # Len(doc.pages) /\ Update(a, [drawn0 EXCEPT !.doc.page = @ + 1])
      BY <1>11 DEF DrawPage, pr
    <3>2. drawn0 = drawn /\ [drawn0 EXCEPT !.doc.page = @ + 1] = next
      BY <1>1 DEF PageMargin, Printing
    <3> HIDE DEF drawn0, drawn, next, Again
    <3>3. QED
      BY <3>1, <3>2
  <2>3. /\ doc \in Doc /\ doc.pages # <<>> /\ doc.page \in DOMAIN doc.pages
        /\ pr.pipe.driver.name = "gdi"
    BY <1>1, <2>1 DEF StepOK, Sending
  <2>4. drawnDoc \in Doc /\ drawnDoc.pages = doc.pages /\ drawnDoc.page = doc.page
    BY <2>3 DEF Doc
  <2>5. CASE \E rec \in AbortDoc(pr), why \in {"floor", "attempts", "send"} :
               Update(a, Ended(rec, 0, why))
    <3>1. PICK rec \in AbortDoc(pr), why \in {"floor", "attempts", "send"} :
                 Update(a, Ended(rec, 0, why))
      BY <2>5
    <3>2. /\ rec \in Printing /\ StepOK(rec) /\ rec.at = "page" /\ rec.used = pr.used
          /\ why \in Errors \cup {None}
      BY <1>1, <2>1, AbortDocIs, AttemptStepOK DEF SameAttempt, Errors
    <3>3. /\ Ended(rec, 0, why) \in Printing /\ StepOK(Ended(rec, 0, why))
          /\ Ended(rec, 0, why).used = pr.used
      BY <3>2, EndedType
    <3>4. QED
      BY <1>1, <2>1, <3>1, <3>3, UpdateType
  <2>6. CASE \E rec \in AbortDoc(pr) : Update(a, Again(rec))
    <3>1. PICK rec \in AbortDoc(pr) : Update(a, Again(rec))
      BY <2>6
    <3> DEFINE back == [rec.doc EXCEPT !.level = doc.level + 1]
               again == [rec EXCEPT !.at = "open", !.doc = back]
    <3>2. rec \in Printing /\ SameAttempt(rec, pr) /\ rec.doc \in Doc
      BY <1>1, AbortDocIs DEF Printing
    <3>3. back \in Doc /\ back.pages = doc.pages
      BY <2>3, <3>2 DEF Doc, SameAttempt
    <3>4. Update(a, again)
      BY <3>1
    <3> HIDE DEF back
    <3>5. again \in Printing
      BY <3>2, <3>3 DEF Printing, Sending
    <3>6. /\ again.at = "open" /\ again.doc = back /\ again.used = pr.used
          /\ again.prof = pr.prof /\ again.source = pr.source /\ again.pipe = pr.pipe
          /\ again.printer = pr.printer /\ again.op = pr.op /\ again.why = pr.why
      BY <3>2 DEF Printing, SameAttempt
    <3> HIDE DEF again
    <3>7. StepOK(again)
      BY <1>1, <2>1, <2>3, <3>3, <3>6 DEF StepOK, Early, Sending
    <3>8. QED
      BY <1>1, <2>1, <3>4, <3>5, <3>6, <3>7, UpdateType
  <2>9. CASE \E rec \in EndDoc(drawn) : Update(a, Ended(rec, 0, None))
    <3> HIDE DEF drawnDoc
    <3>1. drawn \in Printing
      BY <1>1, <2>4 DEF Printing
    <3>2. /\ drawn.at = "page" /\ drawn.doc = drawnDoc /\ drawn.used = pr.used
          /\ drawn.prof = pr.prof /\ drawn.source = pr.source /\ drawn.pipe = pr.pipe
          /\ drawn.printer = pr.printer /\ drawn.op = pr.op /\ drawn.why = pr.why
      BY <1>1, <2>1 DEF Printing
    <3> HIDE DEF drawn
    <3>3. StepOK(drawn)
      BY <1>1, <2>1, <2>3, <2>4, <3>2 DEF StepOK, Early, Sending
    <3>4. PICK rec \in EndDoc(drawn) : Update(a, Ended(rec, 0, None))
      BY <2>9
    <3>5. rec \in Printing /\ StepOK(rec) /\ rec.at = "page" /\ rec.used = pr.used
      BY <3>1, <3>2, <3>3, EndDocIs, AttemptStepOK DEF SameAttempt
    <3>6. /\ Ended(rec, 0, None) \in Printing /\ StepOK(Ended(rec, 0, None))
          /\ Ended(rec, 0, None).used = pr.used
      BY <3>5, EndedType
    <3>7. QED
      BY <1>1, <2>1, <3>4, <3>6, UpdateType
  <2>7. CASE doc.page # Len(doc.pages) /\ Update(a, next)
    <3>1. nextDoc \in Doc /\ nextDoc.pages = doc.pages /\ nextDoc.page = doc.page + 1
      <4> HIDE DEF drawnDoc
      <4>1. drawnDoc.page + 1 \in Nat
        BY <2>4 DEF Doc
      <4>2. nextDoc \in Doc
        BY <2>4, <4>1 DEF Doc
      <4>3. QED
        BY <2>4, <4>2 DEF Doc
    <3>2. doc.page + 1 \in DOMAIN doc.pages
      <4>1. doc.pages \in Seq(0..firstDIBCap)
        BY <2>3, PrintPathAssumption DEF Doc
      <4>2. Len(doc.pages) \in Nat /\ DOMAIN doc.pages = 1..Len(doc.pages)
        BY <4>1, LenProperties
      <4>3. QED
        BY <2>3, <2>7, <4>2
    <3>3. next = [pr EXCEPT !.doc = nextDoc]
      <4> HIDE DEF drawnDoc, nextDoc
      <4>1. QED
        BY <1>1 DEF Printing
    <3> HIDE DEF next, nextDoc
    <3>4. next \in Printing
      BY <1>1, <3>1, <3>3 DEF Printing
    <3>5. /\ next.at = "page" /\ next.doc = nextDoc /\ next.used = pr.used
          /\ next.prof = pr.prof /\ next.source = pr.source /\ next.pipe = pr.pipe
          /\ next.printer = pr.printer /\ next.op = pr.op /\ next.why = pr.why
      BY <1>1, <2>1, <3>3 DEF Printing
    <3>6. StepOK(next)
      BY <1>1, <2>1, <2>3, <3>1, <3>2, <3>5 DEF StepOK, Early, Sending
    <3>7. QED
      BY <1>1, <2>1, <2>7, <3>4, <3>5, <3>6, UpdateType
  <2>8. QED
    BY <2>2, <2>5, <2>6, <2>7, <2>9
<1>12. QED
  BY <1>4, <1>5, <1>6, <1>7, <1>8, <1>9, <1>10, <1>11 DEF Step

\* Every reachable state of the print path is well typed.
THEOREM PrintTypeCorrect == Spec => []TypeOK
<1>1. Init => TypeOK
  <2> SUFFICES ASSUME Init PROVE TypeOK
    OBVIOUS
  <2>1. conf \in Seq(Config) /\ Len(conf) = 1 /\ DOMAIN conf = {1}
    BY PrintPathAssumption DEF Init
  <2>2. /\ os \in Platform /\ installed \in [ToSet(ApplyOrder) -> DOMAIN conf]
        /\ applying \in 0..Len(ApplyOrder) /\ Len(conf) \in 1..MaxSaves + 1
    BY <2>1, PrintPathAssumption, ApplyOrderIs DEF Init
  <2>3. /\ cache \in [Printer -> ReadyProfile \cup {None}]
        /\ frames \in Seq(Frames) /\ jobs \in 0..MaxJobs
    BY PrintPathAssumption DEF Init
  <2>4. print = [a \in Actor |-> Idle]
    BY DEF Init
  <2>5. QED
    BY <2>1, <2>2, <2>3, <2>4, IdleType DEF TypeOK
<1>2. TypeOK /\ [Next]_vars => TypeOK'
  <2> SUFFICES ASSUME TypeOK, [Next]_vars PROVE TypeOK'
    OBVIOUS
  <2>1. ASSUME NEW c \in Saves, Save(c) PROVE TypeOK'
    <3>1. c \in Config
      BY PrintPathAssumption
    <3>2. /\ conf' = Append(conf, c) /\ Len(conf) <= MaxSaves /\ applying' = 1
          /\ UNCHANGED <<os, installed, cache, print, frames, jobs>>
      BY <2>1 DEF Save
    <3>3. /\ conf' \in Seq(Config) /\ Len(conf') = Len(conf) + 1
          /\ DOMAIN conf \subseteq DOMAIN conf'
      <4>1. conf \in Seq(Config)
        BY DEF TypeOK
      <4>2. conf' \in Seq(Config) /\ Len(conf') = Len(conf) + 1
        BY <3>1, <3>2, <4>1, AppendProperties
      <4>3. DOMAIN conf = 1..Len(conf) /\ DOMAIN conf' = 1..Len(conf')
        BY <4>1, <4>2, LenProperties
      <4>4. QED
        BY <4>1, <4>2, <4>3, LenProperties
    <3>4. Len(conf') \in 1..MaxSaves + 1 /\ applying' \in 0..Len(ApplyOrder)
      BY <3>2, <3>3, PrintPathAssumption, ApplyOrderIs DEF TypeOK
    <3>5. installed' \in [ToSet(ApplyOrder) -> DOMAIN conf']
      BY <3>2, <3>3 DEF TypeOK
    <3>6. \A a \in Actor : /\ StepOK(print'[a])
                           /\ \A u \in print'[a].used : u[2] \in DOMAIN conf'
      BY <3>2, <3>3 DEF TypeOK
    <3>7. QED
      BY <3>2, <3>3, <3>4, <3>5, <3>6 DEF TypeOK
  <2>2. CASE Apply
    <3>1. /\ installed' = [installed EXCEPT ![ApplyOrder[applying]] = Len(conf)]
          /\ applying' = IF applying = Len(ApplyOrder) THEN 0 ELSE applying + 1
          /\ applying # 0 /\ UNCHANGED <<os, conf, cache, print, frames, jobs>>
      BY <2>2 DEF Apply
    <3>2. Len(conf) \in DOMAIN conf
      BY LenProperties DEF TypeOK
    <3>3. /\ installed' \in [ToSet(ApplyOrder) -> DOMAIN conf]
          /\ applying' \in 0..Len(ApplyOrder)
      BY <3>1, <3>2, ApplyOrderIs DEF TypeOK
    <3>4. QED
      BY <3>1, <3>3 DEF TypeOK
  <2>3. ASSUME NEW f \in Frames, ReceiveProfiles(f) PROVE TypeOK'
    <3>1. /\ frames' = Append(frames, f)
          /\ cache' = IF f.type = "sync" THEN SetAll(cache, f.profiles)
                                         ELSE Set(cache, f.profiles)
          /\ UNCHANGED <<os, conf, installed, applying, print, jobs>>
      BY <2>3 DEF ReceiveProfiles, settings
    <3>2. \A p \in DOMAIN f.profiles : mapProfile(f.profiles[p]) \in ReadyProfile
      BY PrintPathAssumption, MapProfileReady
    <3>3. cache' \in [Printer -> ReadyProfile \cup {None}]
      BY <3>1, <3>2 DEF SetAll, Set, TypeOK
    <3>4. frames' \in Seq(Frames)
      BY <3>1, AppendProperties DEF TypeOK
    <3>5. QED
      BY <3>1, <3>3, <3>4 DEF TypeOK
  <2>4. CASE Begin
    BY <2>4, BeginType
  <2>5. ASSUME NEW a \in Actor, Step(a) PROVE TypeOK'
    BY <2>5, StepType
  <2>6. CASE UNCHANGED vars
    BY <2>6 DEF vars, settings, TypeOK
  <2>7. QED
    BY <2>1, <2>2, <2>3, <2>4, <2>5, <2>6 DEF Next
<1>3. QED
  BY <1>1, <1>2, PTL DEF Spec

-----------------------------------------------------------------------------
(* What the steps of a print change.                                       *)

Setting4 == {"tuning", "margin", "mode", "roles"}

\* Only the record of the actor, and of what it took only settings of the moment are
\* new.
Keeps(a) ==
  LET pr == print[a]  next == print'[a] IN
  /\ UNCHANGED <<os, conf, installed, applying, frames, jobs>>
  /\ \A b \in Actor \ {a} : print'[b] = print[b]
  /\ next.since = pr.since /\ next.role = pr.role
  /\ \A u \in next.used : u \in pr.used \/ \E s \in Setting4 : u = <<s, installed[s]>>

\* The print has its pipeline and keeps it.
SamePipeline(a) ==
  LET pr == print[a]  next == print'[a] IN
  /\ pr.pipe \in Pipe /\ pr.why = None
  /\ next.printer = pr.printer /\ next.prof = pr.prof /\ next.source = pr.source
  /\ next.pipe = pr.pipe

LEMMA Updated ==
  ASSUME TypeOK, NEW a \in Actor, NEW rec, Update(a, rec)
  PROVE  /\ UNCHANGED <<os, conf, installed, applying, frames, jobs>>
         /\ \A b \in Actor \ {a} : print'[b] = print[b]
         /\ print'[a] = rec
  BY DEF Update, settings, TypeOK

LEMMA EndedIs ==
  ASSUME NEW rec \in Printing, NEW n \in Nat, NEW why
  PROVE  LET e == Ended(rec, n, why) IN
         /\ e.at = "done" /\ e.why = why /\ e.docs = rec.docs + n
         /\ e.since = rec.since /\ e.role = rec.role /\ e.used = rec.used
         /\ e.printer = rec.printer /\ e.prof = rec.prof /\ e.source = rec.source
         /\ e.pipe = rec.pipe /\ e.doc = rec.doc
  BY DEF Ended, Printing

\* The steps before there is a pipeline.
LEMMA RoleStep ==
  ASSUME TypeOK, NEW a \in Actor, ResolveRole(a)
  PROVE  /\ Keeps(a) /\ print[a].at = "role"
         /\ print'[a].printer = RoleResolve(conf[installed.roles], print[a].role)
         /\ print'[a].pipe = None /\ print'[a].why \in {None, "no printer"}
         /\ print'[a].doc = print[a].doc
<1> DEFINE pr == print[a]
           p == RoleResolve(conf[installed.roles], pr.role)
           rec == [pr EXCEPT !.printer = p,
                             !.used = pr.used \cup {<<"roles", installed.roles>>}]
           next == IF p = None THEN Ended(rec, 0, "no printer")
                               ELSE [rec EXCEPT !.at = "profile"]
<1>1. pr \in Printing /\ StepOK(pr) /\ pr.at = "role" /\ Update(a, next)
  BY PrintType DEF ResolveRole, At
<1>2. pr.pipe = None /\ pr.why = None
  BY <1>1 DEF StepOK, Early
<1>3. /\ next.since = pr.since /\ next.role = pr.role /\ next.printer = p
      /\ next.pipe = pr.pipe /\ next.why \in {pr.why, "no printer"}
      /\ next.used = pr.used \cup {<<"roles", installed.roles>>}
      /\ next.doc = pr.doc
  <2> HIDE DEF p
  <2>1. CASE p = None
    BY <1>1, <2>1 DEF Printing, Ended
  <2>2. CASE p # None
    BY <1>1, <2>2 DEF Printing
  <2>3. QED
    BY <2>1, <2>2
<1> HIDE DEF next
<1>4. print'[a] = next
  BY <1>1, Updated
<1>5. Keeps(a)
  BY <1>1, <1>3, <1>4, Updated DEF Keeps, Setting4
<1>6. QED
  BY <1>1, <1>2, <1>3, <1>4, <1>5

LEMMA ProfileStep ==
  ASSUME TypeOK, NEW a \in Actor, ReadProfile(a)
  PROVE  /\ Keeps(a) /\ print[a].at = "profile"
         /\ print'[a].printer = print[a].printer
         /\ print'[a].pipe = None /\ print'[a].why \in {None, "no profile"}
         /\ print'[a].doc = print[a].doc
<1> DEFINE pr == print[a]
           cached == cache[pr.printer]
           prof == IF cached # None THEN cached ELSE pr.own
           next == IF prof = None THEN Ended(pr, 0, "no profile")
                                  ELSE [pr EXCEPT !.prof = prof, !.at = "mode"]
<1>1. pr \in Printing /\ StepOK(pr) /\ pr.at = "profile" /\ Update(a, next)
  BY PrintType DEF ReadProfile, At
<1>2. pr.pipe = None /\ pr.why = None
  BY <1>1 DEF StepOK, Early
<1>3. /\ next.since = pr.since /\ next.role = pr.role /\ next.printer = pr.printer
      /\ next.pipe = pr.pipe /\ next.why \in {pr.why, "no profile"}
      /\ next.used = pr.used /\ next.doc = pr.doc
  <2> HIDE DEF prof
  <2>1. CASE prof = None
    BY <1>1, <2>1 DEF Printing, Ended
  <2>2. CASE prof # None
    BY <1>1, <2>2 DEF Printing
  <2>3. QED
    BY <2>1, <2>2
<1> HIDE DEF next
<1>4. print'[a] = next
  BY <1>1, Updated
<1>5. Keeps(a)
  BY <1>1, <1>3, <1>4, Updated DEF Keeps
<1>6. QED
  BY <1>1, <1>2, <1>3, <1>4, <1>5

\* Preparing a print: the profile is normalised, and the pipeline is the resolver's.
LEMMA PrepareStep ==
  ASSUME TypeOK, NEW a \in Actor, Prepare(a)
  PROVE  LET pr == print[a]  next == print'[a]
             pipe == Resolve(next.source, next.prof, os) IN
         /\ Keeps(a) /\ pr.at = "mode"
         /\ next.printer = pr.printer /\ next.source \in Source
         /\ next.prof = normalize(os, PageModeOf(conf[installed.mode], pr.printer),
                                  pr.printer, pr.prof)
         /\ next.pipe = pipe \/ next.pipe = None
         /\ next.why = "no pipeline" => pipe = None
         /\ next.why \in {None, "no drawer", "no pipeline"}
         /\ next.docs = 0 /\ next.doc = pr.doc
         /\ next.at = "encode" \/ (next.at = "done" /\ next.why # None)
<1> DEFINE pr == print[a]
           mode == PageModeOf(conf[installed.mode], pr.printer)
           prof == normalize(os, mode, pr.printer, pr.prof)
           source == SourceOf(pr, prof)
           pipe == Resolve(source, prof, os)
           why == Refused(pr, prof, pipe)
           used == IF os.windows THEN pr.used \cup {<<"mode", installed.mode>>}
                                 ELSE pr.used
           ready == IF why = None THEN pipe ELSE None
           rec == [pr EXCEPT !.prof = prof, !.source = source, !.at = "encode",
                             !.pipe = ready, !.used = used]
           next == IF why = None THEN rec ELSE Ended(rec, 0, why)
<1>1. pr \in Printing /\ StepOK(pr) /\ pr.at = "mode" /\ Update(a, next)
  BY PrintType DEF Prepare, At
<1>2. /\ pr.docs = 0 /\ pr.why = None
      /\ pr.op \in {"job", "test", "drawer"} /\ (pr.op = "job" => pr.source \in Source)
  BY <1>1 DEF StepOK, Early
<1> HIDE DEF mode, prof
<1>3. source \in Source
  BY <1>2 DEF SourceOf, Source
<1> HIDE DEF source, pipe
<1>4. /\ (why = "no pipeline" => pipe = None) /\ "no pipeline" # None
      /\ why \in {None, "no drawer", "no pipeline"}
  BY PrintPathAssumption DEF Refused, Errors
<1> HIDE DEF why, used
<1>5. ready = pipe \/ ready = None
  OBVIOUS
<1> HIDE DEF ready
<1>6. /\ next.since = pr.since /\ next.role = pr.role /\ next.printer = pr.printer
      /\ next.prof = prof /\ next.source = source /\ next.pipe = ready
      /\ next.why = (IF why = None THEN pr.why ELSE why) /\ next.docs = 0
      /\ next.used = used /\ next.doc = pr.doc
      /\ next.at = "encode" \/ (next.at = "done" /\ next.why # None)
  <2>1. CASE why = None
    BY <1>1, <1>2, <2>1 DEF Printing
  <2>2. CASE why # None
    BY <1>1, <1>2, <2>2 DEF Printing, Ended
  <2>3. QED
    BY <2>1, <2>2
<1> HIDE DEF next
<1>7. print'[a] = next
  BY <1>1, Updated
<1>8. \A u \in used : u \in pr.used \/ u = <<"mode", installed.mode>>
  BY DEF used
<1>9. Keeps(a)
  BY <1>1, <1>6, <1>7, <1>8, Updated DEF Keeps, Setting4
<1>10. QED
  BY <1>1, <1>2, <1>3, <1>4, <1>5, <1>6, <1>7, <1>9 DEF prof, mode, pipe

\* A print that has its pipeline ends.
EndsWith(a, n, why) ==
  LET next == print'[a] IN
  /\ next.at = "done" /\ next.docs = print[a].docs + n /\ next.why = why
  /\ next.doc = print[a].doc

LEMMA EndStep ==
  ASSUME TypeOK, NEW a \in Actor, print[a].at \in {"encode"} \cup Sending,
         NEW n \in Nat, NEW why, Update(a, Ended(print[a], n, why))
  PROVE  Keeps(a) /\ SamePipeline(a) /\ EndsWith(a, n, why)
<1> DEFINE pr == print[a]
<1>1. pr \in Printing /\ pr.pipe \in Pipe /\ pr.why = None
  BY PrintType DEF StepOK
<1>2. print'[a] = Ended(pr, n, why)
  BY Updated
<1> HIDE DEF pr
<1>4. Keeps(a) /\ SamePipeline(a) /\ EndsWith(a, n, why)
  BY <1>1, <1>2, EndedIs, Updated DEF Keeps, SamePipeline, EndsWith, pr
<1>5. QED
  BY <1>4

\* A print goes on with its pipeline.
GoesOn(a, at) ==
  LET next == print'[a] IN next.at = at /\ next.docs = print[a].docs /\ next.why = None

LEMMA EncodeStep ==
  ASSUME TypeOK, NEW a \in Actor, Encode(a)
  PROVE  /\ print[a].at = "encode" /\ Keeps(a) /\ SamePipeline(a)
         /\ print'[a].doc = print[a].doc
         /\ GoesOn(a, "send") \/ EndsWith(a, 0, "render")
<1> DEFINE pr == print[a]
           used == pr.used \cup {<<"tuning", installed.tuning>>}
           next == [pr EXCEPT !.used = used, !.at = "send"]
<1>1. /\ pr \in Printing /\ StepOK(pr) /\ pr.at = "encode"
      /\ Update(a, [[pr EXCEPT !.used = used] EXCEPT !.at = "send"])
           \/ Update(a, Ended(pr, 0, "render"))
  BY PrintType DEF Encode, At
<1>2. pr.pipe \in Pipe /\ pr.why = None
  BY <1>1 DEF StepOK
<1>3. CASE Update(a, Ended(pr, 0, "render"))
  BY <1>1, <1>3, EndStep DEF EndsWith
<1>4. CASE Update(a, [[pr EXCEPT !.used = used] EXCEPT !.at = "send"])
  <2> DEFINE rec == [[pr EXCEPT !.used = used] EXCEPT !.at = "send"]
  <2>1. /\ rec.since = pr.since /\ rec.role = pr.role /\ rec.printer = pr.printer
        /\ rec.prof = pr.prof /\ rec.source = pr.source /\ rec.pipe = pr.pipe
        /\ rec.docs = pr.docs /\ rec.why = pr.why /\ rec.doc = pr.doc
        /\ rec.used = used /\ rec.at = "send"
    BY <1>1 DEF Printing
  <2>2. print'[a] = rec
    BY <1>4, Updated
  <2> HIDE DEF rec
  <2>3. Keeps(a)
    BY <1>4, <2>1, <2>2, Updated DEF Keeps, Setting4
  <2>4. SamePipeline(a) /\ GoesOn(a, "send")
    BY <1>2, <2>1, <2>2 DEF SamePipeline, GoesOn
  <2>5. QED
    BY <1>1, <2>1, <2>2, <2>3, <2>4
<1>5. QED
  BY <1>1, <1>3, <1>4

\* The drivers that hand the document over at once.
LEMMA HandStep ==
  ASSUME TypeOK, NEW a \in Actor, SendRaw(a) \/ SendCups(a) \/ SendVector(a)
  PROVE  /\ print[a].at = "send" /\ print[a].pipe.driver.name # "gdi"
         /\ Keeps(a) /\ SamePipeline(a)
         /\ \E n \in {0, 1} : EndsWith(a, n, None) \/ EndsWith(a, n, "send")
<1>1. /\ print[a].at = "send" /\ print[a].pipe.driver.name # "gdi"
      /\ Hands(a) \/ Update(a, Ended(print[a], 0, None))
  BY DEF SendRaw, SendCups, SendVector, At
<1>2. print[a].at \in {"encode"} \cup Sending
  BY <1>1 DEF Sending
<1>3. ASSUME NEW n \in {0, 1}, NEW why \in {None, "send"}, Update(a, Ended(print[a], n, why))
      PROVE  Keeps(a) /\ SamePipeline(a) /\ EndsWith(a, n, why)
  BY <1>2, <1>3, EndStep
<1>4. \E n \in {0, 1}, why \in {None, "send"} : Update(a, Ended(print[a], n, why))
  BY <1>1 DEF Hands
<1>5. QED
  BY <1>1, <1>3, <1>4

\* A document goes to the GDI driver, at full scale and with nothing drawn.
LEMMA PagesStep ==
  ASSUME TypeOK, NEW a \in Actor, NEW pages \in Documents, NEW limit \in Limits,
         SendPages(a, pages, limit)
  PROVE  /\ print[a].at = "send" /\ Keeps(a) /\ SamePipeline(a) /\ GoesOn(a, "open")
         /\ print'[a].doc.pages = pages /\ print'[a].doc.level = 0
         /\ print'[a].doc.drawn = {} /\ print'[a].docs = 0
         /\ print'[a].doc.left = 0 /\ print'[a].doc.lost = 0
<1> DEFINE pr == print[a]
           doc == [NoDoc EXCEPT !.pages = pages, !.limit = limit]
           rec == [pr EXCEPT !.at = "open", !.doc = doc]
<1>1. pr \in Printing /\ StepOK(pr) /\ pr.at = "send" /\ Update(a, rec)
  BY PrintType DEF SendPages, At
<1>2. pr.pipe \in Pipe /\ pr.docs = 0 /\ pr.why = None
  BY <1>1 DEF StepOK, Sending
<1>3. /\ doc.pages = pages /\ doc.level = 0 /\ doc.drawn = {}
      /\ doc.left = 0 /\ doc.lost = 0
  BY DEF NoDoc
<1> HIDE DEF doc
<1>4. /\ rec.since = pr.since /\ rec.role = pr.role /\ rec.printer = pr.printer
      /\ rec.prof = pr.prof /\ rec.source = pr.source /\ rec.pipe = pr.pipe
      /\ rec.docs = pr.docs /\ rec.why = pr.why /\ rec.doc = doc
      /\ rec.used = pr.used /\ rec.at = "open"
  BY <1>1 DEF Printing
<1>5. print'[a] = rec
  BY <1>1, Updated
<1> HIDE DEF rec
<1>6. Keeps(a)
  BY <1>1, <1>4, <1>5, Updated DEF Keeps
<1>7. SamePipeline(a) /\ GoesOn(a, "open")
  BY <1>2, <1>4, <1>5 DEF SamePipeline, GoesOn
<1>8. QED
  BY <1>1, <1>2, <1>3, <1>4, <1>5, <1>6, <1>7

\* An attempt begins: nothing is drawn, and the margin is read.
LEMMA OpenStep ==
  ASSUME TypeOK, NEW a \in Actor, OpenDoc(a)
  PROVE  LET doc == print[a].doc IN
         /\ print[a].at = "open" /\ Keeps(a) /\ SamePipeline(a)
         /\ \/ /\ GoesOn(a, "page")
               /\ print'[a].doc.pages = doc.pages /\ print'[a].doc.level = doc.level
               /\ print'[a].doc.drawn = {} /\ print'[a].doc.left = doc.left
               /\ print'[a].doc.lost = doc.lost
            \/ EndsWith(a, 0, "send")
<1> DEFINE pr == print[a]
           doc == [pr.doc EXCEPT !.page = 1, !.drawn = {}, !.margin = installed.margin]
           used == pr.used \cup {<<"margin", installed.margin>>}
           rec == [pr EXCEPT !.at = "page", !.doc = doc, !.used = used]
<1>1. /\ pr \in Printing /\ StepOK(pr) /\ pr.at = "open" /\ pr.doc \in Doc
      /\ Update(a, rec) \/ Update(a, Ended(pr, 0, "send"))
  BY PrintType DEF OpenDoc, At
<1>2. pr.pipe \in Pipe /\ pr.why = None
  BY <1>1 DEF StepOK, Sending
<1>3. /\ doc.pages = pr.doc.pages /\ doc.level = pr.doc.level /\ doc.drawn = {}
      /\ doc.left = pr.doc.left /\ doc.lost = pr.doc.lost
  BY <1>1 DEF Doc
<1> HIDE DEF doc
<1>4. CASE Update(a, Ended(pr, 0, "send"))
  <2>1. pr.at \in {"encode"} \cup Sending
    BY <1>1 DEF Sending
  <2>2. QED
    BY <1>1, <1>4, <2>1, EndStep
<1>5. CASE Update(a, rec)
  <2>1. /\ rec.since = pr.since /\ rec.role = pr.role /\ rec.printer = pr.printer
        /\ rec.prof = pr.prof /\ rec.source = pr.source /\ rec.pipe = pr.pipe
        /\ rec.docs = pr.docs /\ rec.why = pr.why /\ rec.doc = doc
        /\ rec.used = used /\ rec.at = "page"
    BY <1>1 DEF Printing
  <2>2. print'[a] = rec
    BY <1>5, Updated
  <2> HIDE DEF rec
  <2>3. Keeps(a)
    BY <1>5, <2>1, <2>2, Updated DEF Keeps, Setting4
  <2>4. SamePipeline(a) /\ GoesOn(a, "page")
    BY <1>2, <2>1, <2>2 DEF SamePipeline, GoesOn
  <2>5. QED
    BY <1>1, <1>3, <2>1, <2>2, <2>3, <2>4
<1>6. QED
  BY <1>1, <1>4, <1>5

\* The document is given up, whatever AbortDoc does; nothing of it is drawn.
GaveUp(a) ==
  LET pr == print[a]  next == print'[a] IN
  /\ next.doc.pages = pr.doc.pages /\ next.doc.drawn = pr.doc.drawn
  /\ next.doc.lost = pr.doc.lost
  /\ \E n \in {0, 1} : next.docs = pr.docs + n /\ next.doc.left = pr.doc.left + n

\* The document is done, whatever EndDoc does.
DidEnd(a) ==
  LET pr == print[a]  next == print'[a] IN
  /\ next.at = "done" /\ next.why = None /\ next.doc.left = pr.doc.left
  /\ next.docs + next.doc.lost = pr.docs + pr.doc.lost + 1

\* A record of the attempt, when it ends or is tried again.
LEMMA AttemptEnds ==
  ASSUME TypeOK, NEW a \in Actor, print[a].at \in {"encode"} \cup Sending,
         NEW pr \in Printing, SameAttempt(pr, [print[a] EXCEPT !.doc = pr.doc]),
         NEW rec \in Printing, SameAttempt(rec, pr), NEW why, Update(a, Ended(rec, 0, why))
  PROVE  /\ Keeps(a) /\ SamePipeline(a)
         /\ print'[a].at = "done" /\ print'[a].why = why
         /\ print'[a].docs = rec.docs /\ print'[a].doc = rec.doc
<1>1. /\ print[a] \in Printing /\ print[a].pipe \in Pipe /\ print[a].why = None
      /\ rec.docs \in Nat
  BY PrintType DEF StepOK, Printing
<1>2. print'[a] = Ended(rec, 0, why)
  BY Updated
<1>3. /\ rec.printer = print[a].printer /\ rec.role = print[a].role
      /\ rec.source = print[a].source /\ rec.prof = print[a].prof
      /\ rec.pipe = print[a].pipe /\ rec.since = print[a].since /\ rec.used = print[a].used
  BY <1>1 DEF SameAttempt, Printing
<1>4. QED
  BY <1>1, <1>2, <1>3, EndedIs, Updated DEF Keeps, SamePipeline

\* A page is refused, and the next attempt is smaller or there is none; or it is
\* drawn; or it fails.
LEMMA DrawStep ==
  ASSUME TypeOK, NEW a \in Actor, DrawPage(a)
  PROVE  LET doc == print[a].doc  next == print'[a]  new == print'[a].doc IN
         /\ print[a].at = "page" /\ Keeps(a) /\ SamePipeline(a)
         /\ \/ /\ GaveUp(a) /\ next.at = "done" /\ new.level = doc.level
               /\ \/ next.why = "floor" /\ belowFloor(doc.pages, doc.level + 1)
                  \/ /\ next.why = "attempts" /\ ~belowFloor(doc.pages, doc.level + 1)
                     /\ doc.level + 1 = MaxAttempts
                  \/ next.why = "send"
            \/ /\ GaveUp(a) /\ next.at = "open" /\ next.why = None
               /\ doc.level + 1 # MaxAttempts /\ new.level = doc.level + 1
            \/ /\ \/ /\ GoesOn(a, "page")
                     /\ new.left = doc.left /\ new.lost = doc.lost
                  \/ DidEnd(a)
               /\ new.level = doc.level /\ new.pages = doc.pages
               /\ new.margin = doc.margin /\ new.drawn = doc.drawn \cup {doc.margin}
<1> DEFINE pr == print[a]
           doc == pr.doc
           drawnDoc == [doc EXCEPT !.drawn = @ \cup {doc.margin}]
           drawn == [pr EXCEPT !.doc = drawnDoc]
           nextDoc == [drawnDoc EXCEPT !.page = @ + 1]
           next == [drawn EXCEPT !.doc = nextDoc]
           drawn0 == [pr EXCEPT !.doc.drawn = @ \cup {PageMargin(doc)}]
           Again(rec) == [rec EXCEPT !.at = "open", !.doc.level = doc.level + 1]
           GaveUpFor(why) ==
             \/ why = "floor" /\ belowFloor(doc.pages, doc.level + 1)
             \/ /\ why = "attempts" /\ ~belowFloor(doc.pages, doc.level + 1)
                /\ doc.level + 1 = MaxAttempts
             \/ why = "send"
<1>1. /\ pr \in Printing /\ StepOK(pr) /\ pr.at = "page" /\ doc \in Doc
      /\ pr.at \in {"encode"} \cup Sending
  BY PrintType DEF DrawPage, At, Sending
<1>2. pr.pipe \in Pipe /\ pr.why = None
  BY <1>1 DEF StepOK
<1>3. \/ \E rec \in AbortDoc(pr), why \in {"floor", "attempts", "send"} :
           GaveUpFor(why) /\ Update(a, Ended(rec, 0, why))
      \/ \E rec \in AbortDoc(pr) : Update(a, Again(rec)) /\ doc.level + 1 # MaxAttempts
      \/ \E rec \in EndDoc(drawn) : Update(a, Ended(rec, 0, None))
      \/ Update(a, next)
  <2>1. drawn0 = drawn /\ [drawn0 EXCEPT !.doc.page = @ + 1] = next
    BY <1>1 DEF PageMargin, Printing
  <2>2. \/ \E rec \in AbortDoc(pr), why \in {"floor", "attempts", "send"} :
             GaveUpFor(why) /\ Update(a, Ended(rec, 0, why))
        \/ \E rec \in AbortDoc(pr) : Update(a, Again(rec)) /\ doc.level + 1 # MaxAttempts
        \/ \E rec \in EndDoc(drawn0) : Update(a, Ended(rec, 0, None))
        \/ Update(a, [drawn0 EXCEPT !.doc.page = @ + 1])
    BY DEF DrawPage
  <2> HIDE DEF drawn0, drawn, next
  <2>3. QED
    BY <2>1, <2>2
<1>4. ASSUME NEW rec \in AbortDoc(pr), NEW why, GaveUpFor(why), Update(a, Ended(rec, 0, why))
      PROVE  /\ Keeps(a) /\ SamePipeline(a) /\ GaveUp(a) /\ print'[a].at = "done"
             /\ print'[a].why = why /\ print'[a].doc.level = doc.level
  <2>1. /\ rec \in Printing /\ SameAttempt(rec, pr) /\ rec.doc.lost = pr.doc.lost
        /\ \E n \in {0, 1} : rec.docs = pr.docs + n /\ rec.doc.left = pr.doc.left + n
    BY <1>1, AbortDocIs
  <2>2. /\ Keeps(a) /\ SamePipeline(a) /\ print'[a].at = "done" /\ print'[a].why = why
        /\ print'[a].docs = rec.docs /\ print'[a].doc = rec.doc
    BY <1>1, <1>4, <2>1, AttemptEnds DEF SameAttempt
  <2>3. QED
    BY <2>1, <2>2 DEF GaveUp, SameAttempt
<1>5. ASSUME NEW rec \in AbortDoc(pr), Update(a, Again(rec)), doc.level + 1 # MaxAttempts
      PROVE  /\ Keeps(a) /\ SamePipeline(a) /\ GaveUp(a) /\ print'[a].at = "open"
             /\ print'[a].why = None /\ print'[a].doc.level = doc.level + 1
  <2> DEFINE back == [rec.doc EXCEPT !.level = doc.level + 1]
             again == [rec EXCEPT !.at = "open", !.doc = back]
  <2>1. /\ rec \in Printing /\ SameAttempt(rec, pr) /\ rec.doc.lost = pr.doc.lost
        /\ \E n \in {0, 1} : rec.docs = pr.docs + n /\ rec.doc.left = pr.doc.left + n
    BY <1>1, AbortDocIs
  <2>2. /\ back.level = doc.level + 1 /\ back.pages = doc.pages /\ back.drawn = doc.drawn
        /\ back.left = rec.doc.left /\ back.lost = rec.doc.lost
    BY <2>1 DEF Doc, Printing, SameAttempt
  <2>3. print'[a] = again
    BY <1>5, Updated
  <2> HIDE DEF back
  <2>4. /\ again.since = pr.since /\ again.role = pr.role /\ again.printer = pr.printer
        /\ again.prof = pr.prof /\ again.source = pr.source /\ again.pipe = pr.pipe
        /\ again.docs = rec.docs /\ again.why = None /\ again.doc = back
        /\ again.used = pr.used /\ again.at = "open"
    BY <1>2, <2>1 DEF Printing, SameAttempt
  <2> HIDE DEF again
  <2>5. Keeps(a) /\ SamePipeline(a)
    BY <1>2, <1>5, <2>3, <2>4, Updated DEF Keeps, SamePipeline
  <2>6. QED
    BY <2>1, <2>2, <2>3, <2>4, <2>5 DEF GaveUp
<1>6. \A new \in {drawnDoc, nextDoc} :
        /\ new.level = doc.level /\ new.pages = doc.pages
        /\ new.margin = doc.margin /\ new.drawn = doc.drawn \cup {doc.margin}
        /\ new.left = doc.left /\ new.lost = doc.lost
  BY <1>1 DEF Doc
<1>7. drawnDoc \in Doc
  BY <1>1 DEF Doc
<1> HIDE DEF drawnDoc, nextDoc
<1>8. CASE Update(a, next)
  <2>1. /\ next.since = pr.since /\ next.role = pr.role /\ next.printer = pr.printer
        /\ next.prof = pr.prof /\ next.source = pr.source /\ next.pipe = pr.pipe
        /\ next.docs = pr.docs /\ next.why = pr.why /\ next.doc = nextDoc
        /\ next.used = pr.used /\ next.at = "page"
    BY <1>1 DEF Printing
  <2>2. print'[a] = next
    BY <1>8, Updated
  <2> HIDE DEF next
  <2>3. Keeps(a)
    BY <1>8, <2>1, <2>2, Updated DEF Keeps
  <2>4. SamePipeline(a) /\ GoesOn(a, "page")
    BY <1>2, <2>1, <2>2 DEF SamePipeline, GoesOn
  <2>5. QED
    BY <1>1, <1>6, <2>1, <2>2, <2>3, <2>4
<1>9. ASSUME NEW rec \in EndDoc(drawn), Update(a, Ended(rec, 0, None))
      PROVE  /\ Keeps(a) /\ SamePipeline(a) /\ DidEnd(a)
             /\ LET new == print'[a].doc IN
                /\ new.level = doc.level /\ new.pages = doc.pages
                /\ new.margin = doc.margin /\ new.drawn = doc.drawn \cup {doc.margin}
  <2>1. /\ drawn \in Printing /\ drawn.doc = drawnDoc /\ drawn.docs = pr.docs
        /\ SameAttempt(drawn, [pr EXCEPT !.doc = drawn.doc])
    BY <1>1, <1>7 DEF Printing, SameAttempt
  <2> HIDE DEF drawn
  <2>2. /\ rec \in Printing /\ SameAttempt(rec, drawn) /\ rec.doc.left = drawn.doc.left
        /\ rec.docs + rec.doc.lost = drawn.docs + drawn.doc.lost + 1
    BY <2>1, EndDocIs
  <2>3. /\ Keeps(a) /\ SamePipeline(a) /\ print'[a].at = "done" /\ print'[a].why = None
        /\ print'[a].docs = rec.docs /\ print'[a].doc = rec.doc
    BY <1>1, <1>9, <2>1, <2>2, AttemptEnds
  <2>4. QED
    BY <1>6, <2>1, <2>2, <2>3 DEF DidEnd, SameAttempt
<1> HIDE DEF pr, next
<1>10. CASE \E rec \in AbortDoc(pr), why \in {"floor", "attempts", "send"} :
              GaveUpFor(why) /\ Update(a, Ended(rec, 0, why))
  BY <1>1, <1>4, <1>10 DEF pr
<1>11. QED
  BY <1>1, <1>3, <1>5, <1>8, <1>9, <1>10 DEF pr

\* A print begins: it has taken at most the number of a configuration, the panel's
\* last one.
Begun(a) ==
  LET next == print'[a] IN
  /\ UNCHANGED <<os, conf, installed, applying, cache, frames>>
  /\ \A b \in Actor \ {a} : print'[b] \in {print[b], Idle}
  /\ next.at \in {"role", "profile"} /\ next.since = Answered
  /\ next.pipe = None /\ next.why = None /\ next.docs = 0 /\ next.doc = NoDoc
  /\ next.role # None => next.printer = None
  /\ \A u \in next.used : u[1] = "cfg" /\ (a = "panel" => u[2] = Len(conf))

FromIdle(rec) ==
  /\ DOMAIN rec = DOMAIN Idle
  /\ rec.at \in {"role", "profile"} /\ rec.pipe = None /\ rec.why = None
  /\ rec.docs = 0 /\ rec.doc = NoDoc

LEMMA StartStep ==
  ASSUME TypeOK, NEW a \in Actor, NEW rec, Start(a, rec),
         FromIdle(rec), rec.role # None => rec.printer = None,
         \A u \in rec.used : u[1] = "cfg" /\ (a = "panel" => u[2] = Len(conf))
  PROVE  Begun(a)
<1> DEFINE new == [rec EXCEPT !.since = Answered]
<1>1. /\ UNCHANGED <<os, conf, installed, applying, cache, frames>>
      /\ print' = [b \in Actor |-> IF b = a THEN new
                                   ELSE IF Free(b) THEN Idle ELSE print[b]]
  BY DEF Start, settings
<1>2. /\ new.at = rec.at /\ new.since = Answered /\ new.pipe = None /\ new.why = None
      /\ new.docs = 0 /\ new.doc = NoDoc /\ new.role = rec.role
      /\ new.printer = rec.printer /\ new.used = rec.used
  BY DEF Idle, FromIdle
<1> HIDE DEF new
<1>3. print'[a] = new /\ \A b \in Actor \ {a} : print'[b] \in {print[b], Idle}
  BY <1>1
<1>4. QED
  BY <1>1, <1>2, <1>3 DEF Begun, FromIdle

LEMMA BeginStep ==
  ASSUME TypeOK, Begin
  PROVE  \E a \in Actor : Begun(a)
<1>1. ASSUME NEW role \in Role \cup {None}, NEW format \in JobFormats,
             BeginJob(None, role, format)
      PROVE  Begun("session")
  <2> DEFINE rec == [Idle EXCEPT !.at = "role", !.op = "job", !.printer = None,
                                 !.role = role, !.source = format]
  <2>1. Start("session", rec)
    BY <1>1 DEF BeginJob
  <2>2. FromIdle(rec) /\ rec.printer = None /\ rec.used = {}
    BY DEF Idle, FromIdle
  <2> HIDE DEF rec
  <2>3. QED
    BY <2>1, <2>2, StartStep DEF Actor
<1>2. ASSUME NEW p \in Printer, NEW format \in JobFormats, BeginJob(p, None, format)
      PROVE  Begun("session")
  <2> DEFINE rec == [Idle EXCEPT !.at = "profile", !.op = "job", !.printer = p,
                                 !.role = None, !.source = format]
  <2>1. Start("session", rec)
    BY <1>2, PipelineAssumption DEF BeginJob
  <2>2. FromIdle(rec) /\ rec.role = None /\ rec.used = {}
    BY DEF Idle, FromIdle
  <2> HIDE DEF rec
  <2>3. QED
    BY <2>1, <2>2, StartStep DEF Actor
<1>3. ASSUME NEW a \in Actor, NEW op, NEW p, NEW own, NEW n,
             a = "panel" => n = Len(conf),
             Start(a, [Idle EXCEPT !.at = "profile", !.op = op, !.printer = p,
                                   !.own = own, !.used = {<<"cfg", n>>}])
      PROVE  Begun(a)
  <2> DEFINE used == {<<"cfg", n>>}
             rec == [Idle EXCEPT !.at = "profile", !.op = op, !.printer = p,
                                 !.own = own, !.used = used]
  <2>1. Start(a, rec)
    BY <1>3
  <2>2. \A u \in used : u[1] = "cfg" /\ (a = "panel" => u[2] = Len(conf))
    BY <1>3
  <2> HIDE DEF used
  <2>3. FromIdle(rec) /\ rec.role = None /\ rec.used = used
    BY DEF Idle, FromIdle
  <2> HIDE DEF rec
  <2>4. QED
    BY <2>1, <2>2, <2>3, StartStep
<1>4. ASSUME NEW p \in Printer, NEW op \in {"test", "drawer"}, PanelBegin(p, op)
      PROVE  Begun("panel")
  BY <1>3, <1>4 DEF PanelBegin, CfgNumber, Actor
<1>5. ASSUME NEW p \in Printer, TrayBegin(p)
      PROVE  Begun("tray")
  BY <1>3, <1>5 DEF TrayBegin, CfgNumber, Actor
<1>6. ASSUME NEW p \in Printer, NEW format \in JobFormats, NEW width \in Widths,
             HTTPBegin(p, format, width)
      PROVE  Begun("http")
  <2> DEFINE own == [escposProfile EXCEPT !.width = width]
             rec == [Idle EXCEPT !.at = "profile", !.op = "job", !.printer = p,
                                 !.source = format, !.own = own]
  <2>1. Start("http", rec)
    BY <1>6 DEF HTTPBegin
  <2> HIDE DEF own
  <2>2. FromIdle(rec) /\ rec.role = None /\ rec.used = {}
    BY DEF Idle, FromIdle
  <2> HIDE DEF rec
  <2>3. QED
    BY <2>1, <2>2, StartStep DEF Actor
<1>7. QED
  BY <1>1, <1>2, <1>4, <1>5, <1>6 DEF Begin, Actor

-----------------------------------------------------------------------------
(* Settings.                                                               *)

\* What ApplyTuning has installed is the last configuration, what it has not is the one
\* before; every print began when the last answered configuration, or an older one,
\* was the last answered.
SettingsInv ==
  /\ Answered >= 1
  /\ \A s \in Setting4 : installed[s] >= Answered
  /\ \A i \in 1..4 : i < applying => installed[ApplyOrder[i]] = Len(conf)
  /\ \A a \in Actor : print[a].since <= Answered

FreshInv == SettingsInv /\ SettingsAreFresh

\* Steps of a print leave the settings as they are and take those of the moment.
LEMMA StepKeeps ==
  ASSUME TypeOK, NEW a \in Actor, Step(a)
  PROVE  Keeps(a)
  BY RoleStep, ProfileStep, PrepareStep, EncodeStep, HandStep, PagesStep, OpenStep,
     DrawStep DEF Step

LEMMA FreshInductive ==
  ASSUME TypeOK, FreshInv, [Next]_vars
  PROVE  FreshInv'
<1> USE DEF FreshInv
<1>1. /\ Len(conf) \in Nat \ {0} /\ applying \in 0..4
      /\ \A a \in Actor : print[a].since \in Nat
      /\ \A a \in Actor : \A u \in print[a].used : u[2] \in Nat
      /\ \A s \in Setting4 : installed[s] \in 1..Len(conf)
      /\ \A a \in Actor : print[a] \in Printing
  <2>1. DOMAIN conf = 1..Len(conf) /\ Len(conf) \in Nat \ {0}
    BY LenProperties DEF TypeOK
  <2>2. ToSet(ApplyOrder) = Setting4 /\ Len(ApplyOrder) = 4
    BY ApplyOrderIs DEF Setting4
  <2>3. \A a \in Actor : print[a] \in Printing /\ \A u \in print[a].used : u[2] \in DOMAIN conf
    BY DEF TypeOK
  <2>4. installed \in [Setting4 -> DOMAIN conf] /\ applying \in 0..4
    BY <2>2 DEF TypeOK
  <2>5. \A a \in Actor : print[a].since \in Nat
    BY <2>3 DEF Printing
  <2>6. QED
    BY <2>1, <2>3, <2>4, <2>5
<1>2. Answered \in Nat
  BY <1>1 DEF Answered
<1>3. ASSUME NEW c \in Saves, Save(c) PROVE FreshInv'
  <2>1. /\ applying = 0 /\ applying' = 1 /\ conf' = Append(conf, c)
        /\ installed' = installed /\ print' = print
    BY <1>3 DEF Save
  <2>2. Len(conf') = Len(conf) + 1
    BY <2>1 DEF TypeOK
  <2>3. Answered' = Answered
    BY <1>1, <2>1, <2>2 DEF Answered
  <2>4. SettingsInv'
    BY <2>1, <2>3 DEF SettingsInv
  <2>5. SettingsAreFresh'
    BY <2>1 DEF SettingsAreFresh
  <2>6. QED
    BY <2>4, <2>5
<1>4. CASE Apply
  <2> DEFINE s == ApplyOrder[applying]
  <2>1. /\ applying # 0 /\ installed' = [installed EXCEPT ![s] = Len(conf)]
        /\ applying' = IF applying = 4 THEN 0 ELSE applying + 1
        /\ conf' = conf /\ print' = print
    BY <1>4, ApplyOrderIs DEF Apply
  <2>2. /\ s \in Setting4 /\ applying \in 1..4
        /\ \A i \in 1..4 : ApplyOrder[i] \in Setting4
    BY <1>1, <2>1, ApplyOrderIs DEF Setting4
  <2>3. DOMAIN installed = Setting4
    BY ApplyOrderIs DEF TypeOK, Setting4
  <2>4. /\ installed'[s] = Len(conf)
        /\ \A t \in Setting4 : t # s => installed'[t] = installed[t]
    BY <2>1, <2>2, <2>3
  <2>5. Answered = Len(conf) - 1
    BY <2>1 DEF Answered
  <2>6. \A i \in 1..4 : i <= applying => installed'[ApplyOrder[i]] = Len(conf)
    <3> SUFFICES ASSUME NEW i \in 1..4, i <= applying
                 PROVE  installed'[ApplyOrder[i]] = Len(conf)
      OBVIOUS
    <3>1. CASE i = applying
      BY <2>4, <3>1
    <3>2. CASE i # applying
      <4>1. installed[ApplyOrder[i]] = Len(conf) /\ ApplyOrder[i] \in Setting4
        BY <1>1, <2>2, <3>2 DEF SettingsInv
      <4> HIDE DEF s
      <4>2. QED
        BY <2>4, <4>1
    <3>3. QED
      BY <3>1, <3>2
  <2>7. CASE applying = 4
    <3>1. Answered' = Len(conf) /\ applying' = 0
      BY <2>1, <2>7 DEF Answered
    <3>2. \A t \in Setting4 : installed'[t] = Len(conf)
      <4>1. \A t \in Setting4 : \E i \in 1..4 : t = ApplyOrder[i]
        BY ApplyOrderIs DEF Setting4
      <4>2. QED
        BY <2>6, <2>7, <4>1
    <3>3. SettingsInv'
      BY <1>1, <2>1, <2>5, <3>1, <3>2 DEF SettingsInv
    <3>4. QED
      BY <2>1, <3>3 DEF SettingsAreFresh
  <2>8. CASE applying # 4
    <3>1. applying' = applying + 1 /\ Answered' = Answered
      BY <1>1, <2>1, <2>8 DEF Answered
    <3>2. \A t \in Setting4 : installed'[t] >= Answered
      BY <1>1, <2>4, <2>5 DEF SettingsInv
    <3>3. \A i \in 1..4 : i < applying' => installed'[ApplyOrder[i]] = Len(conf)'
      BY <2>1, <2>2, <2>6, <3>1
    <3>4. SettingsInv'
      BY <2>1, <3>1, <3>2, <3>3 DEF SettingsInv
    <3>5. QED
      BY <2>1, <3>4 DEF SettingsAreFresh
  <2>9. QED
    BY <2>7, <2>8
<1>5. ASSUME UNCHANGED <<conf, installed, applying>>, print' = print PROVE FreshInv'
  BY <1>5 DEF SettingsInv, SettingsAreFresh, Answered
<1>6. ASSUME NEW a \in Actor, Begun(a) PROVE FreshInv'
  <2>1. UNCHANGED <<conf, installed, applying>> /\ Answered' = Answered
    BY <1>6 DEF Begun, Answered
  <2>2. ASSUME NEW b \in Actor
        PROVE  /\ print'[b].since <= Answered
               /\ \A u \in print'[b].used :
                    u[1] # "cfg" \/ b = "panel" => u[2] >= print'[b].since
    <3>1. CASE b = a
      <4>1. Len(conf) >= Answered
        BY <1>1 DEF Answered
      <4>2. QED
        BY <1>2, <1>6, <3>1, <4>1 DEF Begun
    <3>2. CASE b # a /\ print'[b] = Idle
      BY <3>2 DEF Idle, SettingsInv
    <3>3. CASE b # a /\ print'[b] = print[b]
      BY <3>3 DEF SettingsInv, SettingsAreFresh
    <3>4. QED
      BY <1>6, <3>1, <3>2, <3>3 DEF Begun
  <2>3. SettingsInv'
    BY <2>1, <2>2 DEF SettingsInv
  <2>4. SettingsAreFresh'
    BY <2>2 DEF SettingsAreFresh
  <2>5. QED
    BY <2>3, <2>4
<1>7. ASSUME NEW a \in Actor, Step(a) PROVE FreshInv'
  <2>1. Keeps(a)
    BY <1>7, StepKeeps
  <2>2. UNCHANGED <<conf, installed, applying>> /\ Answered' = Answered
    BY <2>1 DEF Keeps, Answered
  <2>3. ASSUME NEW b \in Actor
        PROVE  /\ print'[b].since <= Answered
               /\ \A u \in print'[b].used :
                    u[1] # "cfg" \/ b = "panel" => u[2] >= print'[b].since
    <3>1. CASE b = a
      <4>1. print'[b].since = print[b].since
        BY <2>1, <3>1 DEF Keeps
      <4>2. ASSUME NEW u \in print'[b].used, u[1] # "cfg" \/ b = "panel"
            PROVE  u[2] >= print[b].since
        <5>1. CASE u \in print[b].used
          BY <4>2, <5>1 DEF SettingsAreFresh
        <5>2. CASE \E s \in Setting4 : u = <<s, installed[s]>>
          <6>1. PICK s \in Setting4 : u[2] = installed[s]
            BY <5>2
          <6>2. QED
            BY <1>1, <1>2, <6>1 DEF SettingsInv
        <5>3. QED
          BY <2>1, <3>1, <5>1, <5>2 DEF Keeps
      <4>3. QED
        BY <4>1, <4>2 DEF SettingsInv
    <3>2. CASE b # a
      <4>1. print'[b] = print[b]
        BY <2>1, <3>2 DEF Keeps
      <4>2. QED
        BY <4>1 DEF SettingsInv, SettingsAreFresh
    <3>3. QED
      BY <3>1, <3>2
  <2>4. SettingsInv'
    BY <2>2, <2>3 DEF SettingsInv
  <2>5. SettingsAreFresh'
    BY <2>3 DEF SettingsAreFresh
  <2>6. QED
    BY <2>4, <2>5
<1>8. ASSUME NEW f \in Frames, ReceiveProfiles(f) PROVE FreshInv'
  BY <1>5, <1>8 DEF ReceiveProfiles, settings
<1>9. CASE UNCHANGED vars
  BY <1>5, <1>9 DEF vars, settings
<1>10. CASE Begin
  BY <1>6, <1>10, BeginStep
<1>11. QED
  BY <1>3, <1>4, <1>7, <1>8, <1>9, <1>10 DEF Next

LEMMA FreshAlways == Spec => []FreshInv
<1>1. Init => FreshInv
  <2> SUFFICES ASSUME Init PROVE FreshInv
    OBVIOUS
  <2>1. /\ Answered = 1 /\ applying = 0
        /\ \A s \in Setting4 : installed[s] = 1
        /\ \A a \in Actor : print[a].since = 1 /\ print[a].used = {}
    BY ApplyOrderIs DEF Init, Answered, Setting4, Idle
  <2>2. QED
    BY <2>1 DEF FreshInv, SettingsInv, SettingsAreFresh
<1>2. TypeOK /\ FreshInv /\ [Next]_vars => FreshInv'
  BY FreshInductive
<1>3. QED
  BY <1>1, <1>2, PrintTypeCorrect, PTL DEF Spec

\* Once the panel has answered, the next print takes every setting from that
\* configuration or a later one, the actors that read the panel's copy included.
THEOREM FreshSettings == Spec => []SettingsAreFresh
<1>1. FreshInv => SettingsAreFresh
  BY DEF FreshInv
<1>2. QED
  BY <1>1, FreshAlways, PTL

-----------------------------------------------------------------------------
(* The pipeline.                                                           *)

\* A print that does not change its pipeline keeps what is true of it while
\* configurations are added.
PipelineInv == StagesFit /\ PageModeObeyed /\ PagesArePrintable

\* What PipelineInv says of one print.
FitOne(pr) ==
  pr.pipe # None => /\ pr.source \in pr.pipe.renderer.reads
                    /\ pr.pipe.renderer.produces = pr.pipe.encoder.accepts
                    /\ pr.pipe.encoder.produces \in pr.pipe.driver.accepts
                    /\ Contains(pr.prof.formats, pr.pipe.encoder.produces)

ModeOne(pr) ==
  /\ pr.pipe # None /\ pr.pipe.driver.name = "pdfvector" =>
       /\ \E n \in DOMAIN conf : During(pr, n) /\ PageModeOf(conf[n], pr.printer) = "vector"
       /\ os.utf8ACP \/ pr.printer \notin NonAscii
  /\ pr.pipe # None /\ pr.pipe.driver.name = "gdi" => pr.prof.width >= minRasterWidthDots

PagesOne(pr) ==
  os.windows /\ pr.source \in {"pdf", "png", "jpeg"} /\ pr.why = "no pipeline"
    => ~profileIsPDF(pr.prof)

LEMMA PipelineByPrint ==
  PipelineInv <=> \A a \in Actor : FitOne(print[a]) /\ ModeOne(print[a]) /\ PagesOne(print[a])
  BY DEF PipelineInv, StagesFit, PageModeObeyed, PagesArePrintable, FitOne, ModeOne, PagesOne

\* The mode of a printer is vector or image.
LEMMA PageModeIs ==
  ASSUME NEW c \in Config, NEW p
  PROVE  PageModeOf(c, p) \in {"vector", "image"}
<1> DEFINE I == {i \in 1..Len(c.printers) : c.printers[i].name = p}
<1>1. PageModeOf(c, p) = IF (IF I # {} THEN Min(I) ELSE 0) = 0 THEN "vector"
                         ELSE c.printers[IF I # {} THEN Min(I) ELSE 0]["mode"]
  BY DEF PageModeOf, Setting, SelectInSeq
<1>2. c.printers \in Seq(Managed)
  BY DEF Config
<1>3. \A i \in 1..Len(c.printers) : c.printers[i] \in Managed
  BY <1>2, ElementOfSeq
<1>4. I # {} => Min(I) \in I
  <2>1. I \in SUBSET Nat
    BY <1>2, LenProperties
  <2> HIDE DEF I
  <2>2. QED
    BY <2>1, MinIs
<1>5. CASE I = {}
  BY <1>1, <1>5
<1>6. CASE I # {}
  <2>1. Min(I) \in 1..Len(c.printers)
    BY <1>4, <1>6
  <2>2. c.printers[Min(I)].mode \in {"vector", "image"} /\ Min(I) # 0
    <3> HIDE DEF I
    <3>1. c.printers[Min(I)] \in Managed
      BY <1>3, <2>1
    <3>2. QED
      BY <2>1, <3>1 DEF Managed
  <2>3. PageModeOf(c, p) = c.printers[Min(I)].mode
    <3> HIDE DEF I
    <3>1. QED
      BY <1>1, <1>6, <2>2
  <2>4. QED
    BY <2>2, <2>3
<1>7. QED
  BY <1>5, <1>6

\* A print that is prepared fits the profile, the mode and the platform.
LEMMA PrepareFits ==
  ASSUME TypeOK, FreshInv, NEW a \in Actor, Prepare(a)
  PROVE  FitOne(print'[a]) /\ ModeOne(print'[a]) /\ PagesOne(print'[a])
<1> DEFINE pr == print[a]
           next == print'[a]
           mode == PageModeOf(conf[installed.mode], pr.printer)
           pipe == Resolve(next.source, next.prof, os)
<1>1. /\ Keeps(a) /\ pr.at = "mode"
      /\ next.printer = pr.printer /\ next.source \in Source
      /\ next.prof = normalize(os, mode, pr.printer, pr.prof)
      /\ next.pipe = pipe \/ next.pipe = None
      /\ next.why = "no pipeline" => pipe = None
  BY PrepareStep
<1>2. pr.prof \in ReadyProfile /\ os \in Platform
  BY <1>1, PrintType DEF StepOK, TypeOK
<1>3. /\ next.prof \in ReadyProfile
      /\ os.windows =>
           /\ "pdf" \in ToSet(next.prof.formats) =>
                mode # "image" /\ (os.utf8ACP \/ pr.printer \notin NonAscii)
           /\ "gdi-raster" \in ToSet(next.prof.formats) =>
                next.prof.width >= minRasterWidthDots
           /\ profileIsPDF(next.prof) => "gdi-raster" \in ToSet(next.prof.formats)
  BY <1>1, <1>2, NormalizeIs
<1>4. /\ pipe # None => \E t \in ToSet(next.prof.formats) : Fits(pipe, next.source, t, os)
      /\ pipe = None => \A t \in ToSet(next.prof.formats) :
                          Compose(next.source, t, os) = None
  BY <1>1, <1>2, <1>3, ResolveFits
<1>5. installed.mode \in DOMAIN conf /\ During(next, installed.mode)
  <2>1. installed.mode \in 1..Len(conf) /\ DOMAIN conf = 1..Len(conf) /\ Len(conf) \in Nat
    BY PrintType, LenProperties DEF TypeOK
  <2>2. pr.since <= Answered /\ installed.mode >= Answered
    BY DEF FreshInv, SettingsInv, Setting4
  <2>3. pr.since \in Nat /\ Answered \in Nat /\ next.since = pr.since
    <3>1. pr.since \in Nat
      BY PrintType DEF Printing
    <3>2. Answered \in Nat
      BY <2>1, <2>2 DEF Answered, FreshInv, SettingsInv
    <3>3. QED
      BY <1>1, <3>1, <3>2 DEF Keeps
  <2>4. QED
    BY <2>1, <2>2, <2>3 DEF During
<1>6. mode \in {"vector", "image"}
  BY <1>5, PrintType, PageModeIs
<1> HIDE DEF pipe, mode
<1>7. CASE next.pipe = None
  <2>1. PagesOne(next)
    <3> SUFFICES ASSUME os.windows, next.source \in {"pdf", "png", "jpeg"},
                        next.why = "no pipeline", profileIsPDF(next.prof)
                 PROVE  FALSE
      BY DEF PagesOne
    <3>1. Compose(next.source, "gdi-raster", os) = None
      BY <1>1, <1>3, <1>4
    <3>2. QED
      BY <1>2, <3>1, RasterHasAWay
  <2>2. QED
    BY <1>7, <2>1 DEF FitOne, ModeOne
<1>8. CASE next.pipe # None
  <2>1. next.pipe = pipe /\ pipe # None
    BY <1>1, <1>8
  <2>2. PICK t \in ToSet(next.prof.formats) : Fits(next.pipe, next.source, t, os)
    BY <1>4, <2>1
  <2>3. Contains(next.prof.formats, t)
    BY <1>3, <2>2, ContainsIs DEF ReadyProfile, Profile
  <2>4. FitOne(next)
    BY <2>2, <2>3 DEF FitOne, Fits
  <2>5. ModeOne(next)
    <3>1. CASE next.pipe.driver.name = "pdfvector"
      <4>1. os.windows /\ t = "pdf"
        BY <2>2, <3>1 DEF Fits
      <4>2. mode = "vector" /\ (os.utf8ACP \/ next.printer \notin NonAscii)
        BY <1>1, <1>3, <1>6, <4>1
      <4>3. PageModeOf(conf[installed.mode], next.printer) = "vector"
        BY <1>1, <4>2 DEF mode
      <4>4. QED
        BY <1>5, <3>1, <4>2, <4>3 DEF ModeOne
    <3>2. CASE next.pipe.driver.name = "gdi"
      <4>1. os.windows /\ t = "gdi-raster"
        BY <2>2, <3>2 DEF Fits
      <4>2. QED
        BY <1>3, <3>2, <4>1 DEF ModeOne
    <3>3. QED
      BY <3>1, <3>2 DEF ModeOne
  <2>6. PagesOne(next)
    BY <1>1, <2>1 DEF PagesOne
  <2>7. QED
    BY <2>4, <2>5, <2>6
<1>9. os' = os /\ conf' = conf
  BY <1>1 DEF Keeps
<1>10. QED
  BY <1>7, <1>8

\* Configurations are never taken away.
LEMMA ConfGrows ==
  ASSUME TypeOK, [Next]_vars
  PROVE  /\ os' = os /\ Len(conf) <= Len(conf') /\ DOMAIN conf \subseteq DOMAIN conf'
         /\ \A n \in DOMAIN conf : conf'[n] = conf[n]
<1>1. CASE UNCHANGED <<os, conf>>
  BY <1>1 DEF TypeOK
<1>2. ASSUME NEW c \in Saves, Save(c)
      PROVE  /\ os' = os /\ Len(conf) <= Len(conf') /\ DOMAIN conf \subseteq DOMAIN conf'
             /\ \A n \in DOMAIN conf : conf'[n] = conf[n]
  <2>1. conf \in Seq(Config) /\ c \in Config /\ conf' = Append(conf, c) /\ os' = os
    BY <1>2, PrintPathAssumption DEF Save, TypeOK
  <2>2. /\ conf' \in Seq(Config) /\ Len(conf') = Len(conf) + 1 /\ Len(conf) \in Nat
        /\ \A n \in 1..Len(conf) : conf'[n] = conf[n]
    BY <2>1, AppendProperties
  <2>3. DOMAIN conf = 1..Len(conf) /\ DOMAIN conf' = 1..Len(conf')
    BY <2>1, <2>2, LenProperties
  <2>4. QED
    BY <2>1, <2>2, <2>3
<1>3. ASSUME NEW a \in Actor, Step(a) PROVE UNCHANGED <<os, conf>>
  BY <1>3, StepKeeps DEF Keeps
<1>4. Begin => UNCHANGED <<os, conf>>
  BY BeginStep DEF Begun
<1>5. ASSUME NEW f \in Frames, ReceiveProfiles(f) PROVE UNCHANGED <<os, conf>>
  BY <1>5 DEF ReceiveProfiles, settings
<1>6. Apply => UNCHANGED <<os, conf>>
  BY DEF Apply
<1>7. UNCHANGED vars => UNCHANGED <<os, conf>>
  BY DEF vars, settings
<1>8. QED
  BY <1>1, <1>2, <1>3, <1>4, <1>5, <1>6, <1>7 DEF Next

\* How the record of an actor changes in a step of the system.
LEMMA PrintChanges ==
  ASSUME TypeOK, [Next]_vars, NEW b \in Actor
  PROVE  \/ print'[b] = print[b] \/ print'[b] = Idle
         \/ Begun(b) \/ Step(b)
<1>1. ASSUME NEW c \in Saves, Save(c) PROVE print' = print
  BY <1>1 DEF Save
<1>2. Apply => print' = print
  BY DEF Apply
<1>3. ASSUME NEW f \in Frames, ReceiveProfiles(f) PROVE print' = print
  BY <1>3 DEF ReceiveProfiles
<1>4. CASE Begin
  BY <1>4, BeginStep DEF Begun
<1>5. ASSUME NEW a \in Actor, Step(a) PROVE a = b \/ print'[b] = print[b]
  BY <1>5, StepKeeps DEF Keeps
<1>6. UNCHANGED vars => print' = print
  BY DEF vars
<1>7. QED
  BY <1>1, <1>2, <1>3, <1>4, <1>5, <1>6 DEF Next

LEMMA PipelineInductive ==
  ASSUME TypeOK, FreshInv, PipelineInv, [Next]_vars
  PROVE  PipelineInv'
<1> SUFFICES ASSUME NEW b \in Actor
             PROVE  (FitOne(print[b]) /\ ModeOne(print[b]) /\ PagesOne(print[b]))'
  BY DEF PipelineInv, StagesFit, PageModeObeyed, PagesArePrintable,
     FitOne, ModeOne, PagesOne
<1>1. /\ os' = os /\ Len(conf) <= Len(conf') /\ DOMAIN conf \subseteq DOMAIN conf'
      /\ \A n \in DOMAIN conf : conf'[n] = conf[n]
  BY ConfGrows
<1>2. FitOne(print[b]) /\ ModeOne(print[b]) /\ PagesOne(print[b])
  BY PipelineByPrint
<1>3. "no pipeline" # None /\ {"no printer", "no profile", "render", "send", "floor", "attempts"}
                               \cap {"no pipeline"} = {}
  BY PrintPathAssumption DEF Errors
<1>4. Len(conf) \in Nat /\ Len(conf') \in Nat /\ Len(conf) \in Nat \ {0}
  BY <1>1, LenProperties DEF TypeOK
<1>5. CASE print'[b] = print[b]
  <2>1. print[b].since \in Nat
    BY PrintType DEF Printing
  <2>2. \A n \in DOMAIN conf : During(print[b], n) => During(print[b], n)'
    BY <1>1, <1>4, <1>5, <2>1 DEF During
  <2>3. ModeOne(print[b])'
    <3>1. \A n \in DOMAIN conf : conf'[n] = conf[n] /\ n \in DOMAIN conf'
      BY <1>1
    <3>2. ASSUME NEW n \in DOMAIN conf, During(print[b], n),
                 PageModeOf(conf[n], print[b].printer) = "vector"
          PROVE  (\E m \in DOMAIN conf : /\ During(print[b], m)
                                         /\ PageModeOf(conf[m], print[b].printer) = "vector")'
      BY <1>5, <2>2, <3>1, <3>2
    <3>3. QED
      BY <1>1, <1>2, <1>5, <3>2 DEF ModeOne
  <2>4. FitOne(print[b])' /\ PagesOne(print[b])'
    BY <1>1, <1>2, <1>5 DEF FitOne, PagesOne
  <2>5. QED
    BY <2>3, <2>4
<1>6. CASE print'[b].pipe = None /\ print'[b].why # "no pipeline"
  BY <1>6 DEF FitOne, ModeOne, PagesOne
<1>7. CASE print'[b] = Idle \/ Begun(b)
  <2>1. print'[b].pipe = None /\ print'[b].why = None
    BY <1>7 DEF Idle, Begun
  <2>2. QED
    BY <1>3, <1>6, <2>1
<1>8. CASE ResolveRole(b) \/ ReadProfile(b)
  BY <1>3, <1>6, <1>8, RoleStep, ProfileStep
<1>9. CASE Prepare(b)
  <2>1. FitOne(print'[b]) /\ ModeOne(print'[b]) /\ PagesOne(print'[b])
    BY <1>9, PrepareFits
  <2>2. conf' = conf
    BY <1>9, PrepareStep DEF Keeps
  <2>3. QED
    BY <1>1, <2>1, <2>2 DEF FitOne, ModeOne, PagesOne, During
<1>10. CASE /\ Keeps(b) /\ SamePipeline(b) /\ print'[b].why # "no pipeline"
  BY <1>1, <1>2, <1>10 DEF FitOne, ModeOne, PagesOne, During, Keeps, SamePipeline
<1>11. ASSUME Step(b), ~ResolveRole(b), ~ReadProfile(b), ~Prepare(b)
       PROVE  Keeps(b) /\ SamePipeline(b) /\ print'[b].why # "no pipeline"
  BY <1>3, <1>11, EncodeStep, HandStep, PagesStep, OpenStep, DrawStep
     DEF Step, EndsWith, GoesOn, DidEnd
<1>12. QED
  BY <1>5, <1>7, <1>8, <1>9, <1>10, <1>11, PrintChanges

LEMMA PipelineInit == Init => PipelineInv
<1>1. Init => \A a \in Actor : print[a].pipe = None /\ print[a].why = None
  BY DEF Init, Idle
<1>2. "no pipeline" # None
  BY PrintPathAssumption DEF Errors
<1>3. QED
  BY <1>1, <1>2 DEF PipelineInv, StagesFit, PageModeObeyed, PagesArePrintable

LEMMA PipelineAlways == Spec => []PipelineInv
<1>1. TypeOK /\ FreshInv /\ PipelineInv /\ [Next]_vars => PipelineInv'
  BY PipelineInductive
<1>2. QED
  BY <1>1, PipelineInit, FreshAlways, PrintTypeCorrect, PTL DEF Spec

\* Each stage of a print reads what the one before it makes, and what reaches the
\* printer is one of the formats of its profile.
THEOREM PipelineFits == Spec => []StagesFit
<1>1. PipelineInv => StagesFit
  BY DEF PipelineInv
<1>2. QED
  BY <1>1, PipelineAlways, PTL

\* Only a printer that is set to it gets vector documents, and rasters are never
\* blurred.
THEOREM ModeObeyed == Spec => []PageModeObeyed
<1>1. PipelineInv => PageModeObeyed
  BY DEF PipelineInv
<1>2. QED
  BY <1>1, PipelineAlways, PTL

\* On Windows a PDF or an image for a page printer always has a way to paper.
THEOREM PagesPrintable == Spec => []PagesArePrintable
<1>1. PipelineInv => PagesArePrintable
  BY DEF PipelineInv
<1>2. QED
  BY <1>1, PipelineAlways, PTL

-----------------------------------------------------------------------------
(* Roles.                                                                  *)

\* The printer serves the role in that configuration, or nobody does; the default
\* comes first.
ServedBy(c, role, p) ==
  /\ Serves(c, role, p) \/ \A q \in Printer : ~Serves(c, role, q)
  /\ Serves(c, role, c.default) => p = c.default

LEMMA RoleInductive ==
  ASSUME TypeOK, FreshInv, RoleObeyed, [Next]_vars
  PROVE  RoleObeyed'
<1> DEFINE pr == print["session"]
           next == print'["session"]
<1>1. /\ Len(conf) <= Len(conf') /\ DOMAIN conf \subseteq DOMAIN conf'
      /\ \A n \in DOMAIN conf : conf'[n] = conf[n]
      /\ Len(conf) \in Nat /\ pr.since \in Nat
  BY ConfGrows, PrintType, LenProperties DEF TypeOK, Printing, Actor
<1>2. RoleObeyed <=> (pr.role # None /\ pr.printer # None =>
                        \E n \in DOMAIN conf : During(pr, n) /\ ServedBy(conf[n], pr.role, pr.printer))
  BY DEF RoleObeyed, ServedBy, Serves
<1>3. SUFFICES ASSUME next.role # None, next.printer # None
               PROVE  \E n \in DOMAIN conf' : /\ n \in next.since..Len(conf')
                                              /\ ServedBy(conf'[n], next.role, next.printer)
  BY DEF RoleObeyed, ServedBy, Serves, During
<1>4. Len(conf') \in Nat
  BY <1>1, ConfGrows DEF TypeOK
<1>5. CASE next.since = pr.since /\ next.role = pr.role /\ next.printer = pr.printer
  <2>1. PICK n \in DOMAIN conf : During(pr, n) /\ ServedBy(conf[n], pr.role, pr.printer)
    BY <1>2, <1>3, <1>5
  <2>2. n \in next.since..Len(conf') /\ n \in DOMAIN conf' /\ conf'[n] = conf[n]
    BY <1>1, <1>4, <1>5, <2>1 DEF During
  <2>3. QED
    BY <1>5, <2>1, <2>2
<1>6. CASE next = Idle
  BY <1>3, <1>6 DEF Idle
<1>7. CASE Begun("session")
  BY <1>3, <1>7 DEF Begun
<1>8. CASE ResolveRole("session")
  <2> DEFINE n == installed.roles
  <2>1. /\ next.since = pr.since /\ next.role = pr.role
        /\ next.printer = RoleResolve(conf[n], pr.role)
        /\ UNCHANGED <<conf, installed>>
    BY <1>8, RoleStep DEF Keeps, Actor
  <2>2. n \in DOMAIN conf /\ conf[n] \in Config
    BY PrintType DEF Actor
  <2>3. n \in pr.since..Len(conf)
    <3>1. n \in 1..Len(conf)
      BY <2>2, LenProperties DEF TypeOK
    <3>2. pr.since <= Answered /\ n >= Answered /\ Answered \in Nat
      BY <1>1 DEF FreshInv, SettingsInv, Setting4, Actor, Answered
    <3>3. QED
      BY <1>1, <3>1, <3>2
  <2>4. ServedBy(conf[n], pr.role, next.printer)
    BY <1>3, <2>1, <2>2, RoleResolveIs DEF ServedBy
  <2>5. QED
    BY <2>1, <2>2, <2>3, <2>4
<1>9. CASE Step("session") /\ ~ResolveRole("session")
  <2>1. Keeps("session")
    BY <1>9, StepKeeps DEF Actor
  <2>2. next.printer = pr.printer
    BY <1>9, ProfileStep, PrepareStep, EncodeStep, HandStep, PagesStep, OpenStep, DrawStep
       DEF Step, SamePipeline, Actor
  <2>3. QED
    BY <1>5, <2>1, <2>2 DEF Keeps
<1>10. CASE next = pr
  BY <1>5, <1>10
<1>11. "session" \in Actor
  BY DEF Actor
<1>12. QED
  BY <1>6, <1>7, <1>8, <1>9, <1>10, <1>11, PrintChanges

\* A job for a role goes to a printer that is turned on for it in a configuration of
\* its moment, or to the default; the default comes first among several.
THEOREM RoleAlwaysObeyed == Spec => []RoleObeyed
<1>1. Init => RoleObeyed
  BY DEF Init, Idle, RoleObeyed, Actor
<1>2. TypeOK /\ FreshInv /\ RoleObeyed /\ [Next]_vars => RoleObeyed'
  BY RoleInductive
<1>3. QED
  BY <1>1, <1>2, FreshAlways, PrintTypeCorrect, PTL DEF Spec
-----------------------------------------------------------------------------
(* The GDI driver.                                                         *)

\* What holds of one print: what is in the queue and what was lost are the document
\* that ended well and those that were left there; what is drawn of the attempt has the
\* margin the attempt began with.
PaperOne(pr) ==
  /\ IF pr.pipe # None /\ pr.pipe.driver.name = "gdi"
     THEN pr.docs + pr.doc.lost =
            (IF pr.at = "done" /\ pr.why = None THEN 1 ELSE 0) + pr.doc.left
     ELSE pr.doc.left = 0 /\ pr.doc.lost = 0
  /\ \A m, n \in pr.doc.drawn : m = n
  /\ pr.at = "page" => \A m \in pr.doc.drawn : m = pr.doc.margin

PaperInv == \A a \in Actor : PaperOne(print[a])

LEMMA PaperInductive ==
  ASSUME TypeOK, TypeOK', PaperInv, [Next]_vars
  PROVE  PaperInv'
<1> SUFFICES ASSUME NEW b \in Actor PROVE PaperOne(print[b])'
  BY DEF PaperInv
<1> DEFINE pr == print[b]
           next == print'[b]
<1>1. /\ PaperOne(pr)
      /\ pr.docs \in Nat /\ pr.doc.left \in Nat /\ pr.doc.lost \in Nat
  BY PrintType DEF PaperInv, Printing, Doc
<1>2. None \notin Errors /\ "send" \in Errors /\ "render" \in Errors
      /\ "floor" \in Errors /\ "attempts" \in Errors
  BY PrintPathAssumption DEF Errors
<1>3. CASE next = pr
  BY <1>1, <1>3 DEF PaperOne
<1>4. CASE next = Idle \/ Begun(b)
  <2>1. /\ next.pipe = None /\ next.doc.drawn = {}
        /\ next.doc.left = 0 /\ next.doc.lost = 0
    BY <1>4 DEF Idle, Begun, NoDoc
  <2>2. QED
    BY <2>1 DEF PaperOne
<1>5. CASE ResolveRole(b) \/ ReadProfile(b)
  <2>1. next.pipe = None /\ next.doc = pr.doc /\ pr.pipe = None
    BY <1>5, PrintType, RoleStep, ProfileStep DEF StepOK, Early
  <2>2. StepOK(print[b])'
    BY DEF TypeOK
  <2>3. next.at # "page"
    BY <2>1, <2>2, PipelineAssumption DEF StepOK, Sending
  <2>4. QED
    BY <1>1, <2>1, <2>3 DEF PaperOne
<1>6. CASE Prepare(b)
  <2>1. /\ next.docs = 0 /\ next.doc = pr.doc /\ pr.pipe = None
        /\ next.at = "encode" \/ (next.at = "done" /\ next.why # None)
    BY <1>6, PrintType, PrepareStep DEF StepOK, Early
  <2>2. QED
    BY <1>1, <2>1 DEF PaperOne
<1>7. CASE Encode(b)
  <2>1. /\ next.doc = pr.doc /\ next.docs = pr.docs /\ next.at \in {"send", "done"}
        /\ next.at = "done" => next.why # None
        /\ pr.at = "encode" /\ next.pipe = pr.pipe
    BY <1>1, <1>2, <1>7, EncodeStep DEF GoesOn, EndsWith, SamePipeline
  <2>2. QED
    BY <1>1, <2>1 DEF PaperOne
<1>8. CASE SendRaw(b) \/ SendCups(b) \/ SendVector(b)
  <2>1. /\ next.doc = pr.doc /\ next.at = "done"
        /\ next.pipe = pr.pipe /\ pr.pipe.driver.name # "gdi"
    BY <1>8, HandStep DEF EndsWith, SamePipeline
  <2>2. QED
    BY <1>1, <2>1 DEF PaperOne
<1>9. ASSUME NEW pages \in Documents, NEW limit \in Limits, SendPages(b, pages, limit)
      PROVE  PaperOne(next)
  BY <1>9, PagesStep DEF PaperOne, GoesOn
<1>10. CASE OpenDoc(b)
  <2>1. \/ GoesOn(b, "page") /\ next.doc.drawn = {}
           /\ next.doc.left = pr.doc.left /\ next.doc.lost = pr.doc.lost
        \/ EndsWith(b, 0, "send")
    BY <1>10, OpenStep
  <2>2. pr.at = "open" /\ next.pipe = pr.pipe
    BY <1>10, OpenStep DEF SamePipeline
  <2>3. QED
    BY <1>1, <1>2, <2>1, <2>2 DEF PaperOne, GoesOn, EndsWith
<1>11. CASE DrawPage(b)
  <2>1. /\ \A m \in pr.doc.drawn : m = pr.doc.margin
        /\ pr.at = "page" /\ next.pipe = pr.pipe
        /\ pr.pipe # None /\ pr.pipe.driver.name = "gdi"
    BY <1>1, <1>11, PrintType, DrawStep, PipelineAssumption DEF PaperOne, SamePipeline, StepOK
  <2>2. pr.docs + pr.doc.lost = pr.doc.left
    BY <1>1, <2>1 DEF PaperOne
  <2>3. CASE /\ GaveUp(b)
             /\ \/ next.at = "done" /\ next.why \in {"send", "floor", "attempts"}
                \/ next.at = "open"
    <3>1. PICK n \in {0, 1} : next.docs = pr.docs + n /\ next.doc.left = pr.doc.left + n
      BY <2>3 DEF GaveUp
    <3>2. next.docs + next.doc.lost = next.doc.left
      BY <1>1, <2>2, <2>3, <3>1 DEF GaveUp
    <3>3. QED
      BY <1>1, <1>2, <2>1, <2>3, <3>2 DEF PaperOne, GaveUp
  <2>4. CASE /\ \/ /\ GoesOn(b, "page")
                   /\ next.doc.left = pr.doc.left /\ next.doc.lost = pr.doc.lost
                \/ DidEnd(b)
             /\ next.doc.margin = pr.doc.margin
             /\ next.doc.drawn = pr.doc.drawn \cup {pr.doc.margin}
    <3>1. next.docs + next.doc.lost =
            (IF next.at = "done" /\ next.why = None THEN 1 ELSE 0) + next.doc.left
      BY <1>1, <2>2, <2>4 DEF GoesOn, DidEnd
    <3>2. QED
      BY <2>1, <2>4, <3>1 DEF PaperOne, GoesOn, DidEnd
  <2>5. QED
    BY <1>11, <2>3, <2>4, DrawStep
<1>12. PaperOne(next)
  BY <1>3, <1>4, <1>5, <1>6, <1>7, <1>8, <1>9, <1>10, <1>11, PrintChanges DEF Step
<1>13. QED
  BY <1>12 DEF PaperOne

\* A document of the GDI driver is in the queue once if its print succeeded and not at
\* all otherwise, after any number of attempts, but for exactly the documents Windows
\* would not end and those it would not take back; its pages have one margin.
THEOREM GdiPaper == Spec => []GdiPaperMatchesVerdict
<1>1. Init => PaperInv
  BY DEF Init, Idle, NoDoc, PaperInv, PaperOne
<1>2. TypeOK /\ TypeOK' /\ PaperInv /\ [Next]_vars => PaperInv'
  BY PaperInductive
<1>3. PaperInv => GdiPaperMatchesVerdict
  BY DEF PaperInv, PaperOne, GdiPaperMatchesVerdict
<1>4. QED
  BY <1>1, <1>2, <1>3, PrintTypeCorrect, PTL DEF Spec

-----------------------------------------------------------------------------
(* The driver gives up where nothing it could draw would be of use.        *)

IsSize(base, n, g) ==
  g = [k \in 0..n |-> IF k = 0 THEN base ELSE (g[k - 1] * 64) \div 100]

\* The function by which Size is defined exists.
LEMMA SizeExists ==
  ASSUME NEW base \in Nat, NEW n \in Nat
  PROVE  \E g : IsSize(base, n, g)
<1> DEFINE T == {k \in Nat : \E g : IsSize(base, k, g)}
<1>1. 0 \in T
  <2>1. IsSize(base, 0, [k \in 0..0 |-> base])
    BY DEF IsSize
  <2>2. QED
    BY <2>1
<1>2. ASSUME NEW m \in T PROVE m + 1 \in T
  <2>1. PICK g : IsSize(base, m, g)
    OBVIOUS
  <2> DEFINE h == [k \in 0..m + 1 |-> IF k <= m THEN g[k] ELSE (g[m] * 64) \div 100]
  <2>2. \A k \in 0..m : g[k] = IF k = 0 THEN base ELSE (g[k - 1] * 64) \div 100
    BY <2>1 DEF IsSize
  <2>3. ASSUME NEW k \in 0..m + 1
        PROVE  h[k] = IF k = 0 THEN base ELSE (h[k - 1] * 64) \div 100
    <3>1. CASE k = 0
      BY <2>2, <3>1
    <3>2. CASE k # 0
      <4>1. k - 1 \in 0..m + 1 /\ k - 1 <= m
        BY <3>2
      <4>2. h[k - 1] = g[k - 1]
        BY <4>1
      <4>3. h[k] = (g[k - 1] * 64) \div 100
        <5>1. CASE k <= m
          <6>1. k \in 0..m /\ h[k] = g[k]
            BY <5>1
          <6>2. QED
            BY <2>2, <3>2, <6>1
        <5>2. CASE ~ (k <= m)
          <6>1. k - 1 = m /\ h[k] = (g[m] * 64) \div 100
            BY <5>2
          <6>2. QED
            BY <6>1
        <5>3. QED
          BY <5>1, <5>2
      <4> HIDE DEF h
      <4>4. QED
        BY <3>2, <4>2, <4>3
    <3>3. QED
      BY <3>1, <3>2
  <2>4. IsSize(base, m + 1, h)
    <3>1. h = [k \in 0..m + 1 |-> h[k]]
      OBVIOUS
    <3> HIDE DEF h
    <3>2. QED
      BY <2>3, <3>1 DEF IsSize
  <2>5. QED
    BY <2>4
<1>3. T = Nat
  <2>1. T \in SUBSET Nat
    OBVIOUS
  <2> HIDE DEF T
  <2>2. QED
    BY <1>1, <1>2, <2>1, EveryNatural
<1>4. QED
  BY <1>3

\* Where two of them are both defined, they agree.
LEMMA SizeAgrees ==
  ASSUME NEW base \in Nat, NEW n \in Nat, NEW g, IsSize(base, n, g),
         NEW h, IsSize(base, n + 1, h)
  PROVE  \A k \in 0..n : g[k] = h[k] /\ g[k] \in Nat
<1> DEFINE T == {k \in Nat : k <= n => g[k] = h[k] /\ g[k] \in Nat}
<1>1. /\ \A k \in 0..n : g[k] = IF k = 0 THEN base ELSE (g[k - 1] * 64) \div 100
      /\ \A k \in 0..n + 1 : h[k] = IF k = 0 THEN base ELSE (h[k - 1] * 64) \div 100
  BY DEF IsSize
<1>2. 0 \in T
  <2>1. 0 \in 0..n /\ 0 \in 0..n + 1
    OBVIOUS
  <2>2. QED
    BY <1>1, <2>1
<1>3. ASSUME NEW k \in T PROVE k + 1 \in T
  <2>1. CASE k + 1 <= n
    <3> DEFINE m == k + 1
    <3>1. m \in 0..n /\ m \in 0..n + 1 /\ m # 0 /\ m - 1 = k /\ k <= n
      BY <2>1
    <3>2. g[k] = h[k] /\ g[k] \in Nat
      BY <3>1
    <3> HIDE DEF m
    <3>3. g[m] = (g[k] * 64) \div 100 /\ h[m] = (h[k] * 64) \div 100
      BY <1>1, <3>1
    <3>4. (g[k] * 64) \div 100 \in Nat
      BY <3>2
    <3>5. g[m] = h[m] /\ g[m] \in Nat
      BY <3>2, <3>3, <3>4
    <3>6. QED
      BY <3>5 DEF m
  <2>2. CASE ~ (k + 1 <= n)
    BY <2>2
  <2>3. QED
    BY <2>1, <2>2
<1>4. T = Nat
  <2>1. T \in SUBSET Nat
    OBVIOUS
  <2> HIDE DEF T
  <2>2. QED
    BY <1>2, <1>3, <2>1, EveryNatural
<1>5. QED
  BY <1>4

\* A level takes both sides to 0.8, and the product to 0.64.
LEMMA SizeIs ==
  ASSUME NEW base \in Nat, NEW n \in Nat
  PROVE  /\ Size(base, 0) = base /\ Size(base, n) \in Nat
         /\ Size(base, n + 1) = (Size(base, n) * 64) \div 100
<1> DEFINE size(m) == CHOOSE g : IsSize(base, m, g)
<1>1. \A m \in Nat : Size(base, m) = size(m)[m] /\ IsSize(base, m, size(m))
  <2>1. \A m \in Nat : Size(base, m) = size(m)[m]
    BY DEF Size, IsSize
  <2>2. \A m \in Nat : IsSize(base, m, size(m))
    BY SizeExists
  <2>3. QED
    BY <2>1, <2>2
<1> HIDE DEF size
<1>2. \A k \in 0..n : size(n)[k] = size(n + 1)[k] /\ size(n)[k] \in Nat
  BY <1>1, SizeAgrees
<1>3. size(0)[0] = base
  BY <1>1 DEF IsSize
<1>4. size(n + 1)[n + 1] = (size(n + 1)[n] * 64) \div 100
  <2> DEFINE m == n + 1
  <2>1. m \in 0..m /\ m # 0 /\ m - 1 = n /\ IsSize(base, m, size(m))
    BY <1>1
  <2> HIDE DEF m
  <2>2. size(m)[m] = (size(m)[n] * 64) \div 100
    BY <2>1 DEF IsSize
  <2>3. QED
    BY <2>2 DEF m
<1>5. n \in 0..n /\ n + 1 \in Nat
  OBVIOUS
<1>6. QED
  BY <1>1, <1>2, <1>3, <1>4, <1>5

\* Eight levels take the largest page of a first attempt below 256 KiB, and no level
\* makes a page larger.
LEMMA SizeFalls ==
  ASSUME NEW base \in 0..firstDIBCap, NEW n \in Nat, n >= 8
  PROVE  Size(base, n) < 256
<1> DEFINE S(k) == Size(base, k)
<1>1. /\ S(0) = base
      /\ \A k \in Nat : S(k) \in Nat /\ S(k + 1) = (S(k) * 64) \div 100
  <2>1. base \in Nat /\ 0 \in Nat
    BY DEF firstDIBCap
  <2>2. QED
    BY <2>1, SizeIs
<1> HIDE DEF S
<1>2. S(1) <= 5242
  <2>1. S(0 + 1) = (S(0) * 64) \div 100 /\ 0 + 1 = 1
    BY <1>1
  <2>2. base \in Nat /\ base <= 8192
    BY DEF firstDIBCap
  <2>3. S(1) = (base * 64) \div 100
    BY <1>1, <2>1
  <2>4. QED
    BY <2>2, <2>3
<1>3. S(2) <= 3354
  BY <1>1, <1>2
<1>4. S(3) <= 2146
  BY <1>1, <1>3
<1>5. S(4) <= 1373
  BY <1>1, <1>4
<1>6. S(5) <= 878
  BY <1>1, <1>5
<1>7. S(6) <= 561
  BY <1>1, <1>6
<1>8. S(7) <= 359
  BY <1>1, <1>7
<1>9. S(8) <= 229
  BY <1>1, <1>8
<1> DEFINE T == {k \in Nat : S(k + 8) < 256}
<1>10. 0 \in T
  <2>1. S(0 + 8) \in Nat /\ 0 + 8 = 8 /\ S(8) \in Nat
    BY <1>1
  <2>2. S(0 + 8) < 256
    BY <1>9, <2>1
  <2>3. QED
    BY <2>2
<1>11. ASSUME NEW k \in T PROVE k + 1 \in T
  <2>1. S(k + 8) \in Nat /\ S((k + 8) + 1) = (S(k + 8) * 64) \div 100 /\ S(k + 8) < 256
    BY <1>1
  <2>2. S((k + 8) + 1) < 256
    BY <2>1
  <2>3. (k + 8) + 1 = (k + 1) + 8
    OBVIOUS
  <2>4. QED
    BY <2>2, <2>3
<1>12. T = Nat
  <2>1. T \in SUBSET Nat
    OBVIOUS
  <2> HIDE DEF T
  <2>2. QED
    BY <1>10, <1>11, <2>1, EveryNatural
<1>13. n - 8 \in Nat /\ (n - 8) + 8 = n
  OBVIOUS
<1>14. S(n) < 256
  <2>1. n - 8 \in T
    BY <1>12, <1>13
  <2>2. S((n - 8) + 8) < 256
    BY <2>1
  <2>3. QED
    BY <1>13, <2>2
<1>15. QED
  BY <1>14 DEF S

LEMMA FloorReached ==
  ASSUME minDIB >= 256, NEW pages \in Documents, NEW level \in Nat, level >= 8
  PROVE  belowFloor(pages, level)
<1> SUFFICES ASSUME NEW i \in DOMAIN pages
             PROVE  Size(pages[i], level) < minDIB
  BY DEF belowFloor
<1>1. pages \in Seq(0..firstDIBCap)
  BY PrintPathAssumption
<1> DEFINE base == pages[i]
<1>2. base \in 0..firstDIBCap
  BY <1>1, ElementOfSeq, LenProperties
<1> HIDE DEF base
<1>3. Size(base, level) < 256
  BY <1>2, SizeFalls
<1>4. Size(base, level) \in Nat /\ minDIB \in Nat
  <2>1. base \in Nat
    BY <1>2 DEF firstDIBCap
  <2>2. QED
    BY <2>1, SizeIs, PrintPathAssumption
<1>5. QED
  BY <1>3, <1>4 DEF base

FloorOne(pr) ==
  /\ pr.why # "attempts"
  /\ pr.why = "floor" => belowFloor(pr.doc.pages, pr.doc.level + 1)

FloorInv == \A a \in Actor : FloorOne(print[a])

LEMMA FloorInductive ==
  ASSUME TypeOK, FloorInv, [Next]_vars, minDIB >= 256, MaxAttempts >= 8
  PROVE  FloorInv'
<1> SUFFICES ASSUME NEW b \in Actor PROVE FloorOne(print[b])'
  BY DEF FloorInv
<1> DEFINE pr == print[b]
           next == print'[b]
<1>1. FloorOne(pr) /\ None \notin Errors /\ "floor" \in Errors /\ "attempts" \in Errors
  BY PrintPathAssumption DEF FloorInv, Errors
<1>2. CASE next = pr
  BY <1>1, <1>2 DEF FloorOne
<1>3. CASE next.why \in {None, "no printer", "no profile", "no drawer", "no pipeline",
                        "render", "send"}
  BY <1>1, <1>3 DEF FloorOne
<1>4. CASE next = Idle \/ Begun(b)
  <2>1. next.why = None
    BY <1>4 DEF Idle, Begun
  <2>2. QED
    BY <1>3, <2>1
<1>5. CASE ResolveRole(b) \/ ReadProfile(b) \/ Prepare(b)
  BY <1>3, <1>5, RoleStep, ProfileStep, PrepareStep
<1>6. CASE Encode(b) \/ SendRaw(b) \/ SendCups(b) \/ SendVector(b) \/ OpenDoc(b)
  BY <1>3, <1>6, EncodeStep, HandStep, OpenStep DEF GoesOn, EndsWith
<1>7. ASSUME NEW pages \in Documents, NEW limit \in Limits, SendPages(b, pages, limit)
      PROVE  FloorOne(next)
  BY <1>3, <1>7, PagesStep DEF GoesOn, FloorOne
<1>8. CASE DrawPage(b)
  <2> DEFINE doc == pr.doc
  <2>1. doc.pages \in Documents /\ doc.level \in Nat
    BY <1>8, PrintType, DrawStep DEF StepOK, Doc
  <2>2. MaxAttempts \in Nat
    BY PrintPathAssumption
  <2>3. doc.level + 1 = MaxAttempts => belowFloor(doc.pages, doc.level + 1)
    BY <2>1, <2>2, FloorReached
  <2>4. CASE /\ next.why = "floor" /\ belowFloor(doc.pages, doc.level + 1)
             /\ next.doc.pages = doc.pages /\ next.doc.level = doc.level
    BY <1>1, <2>4 DEF FloorOne
  <2>5. CASE next.why \in {None, "send"}
    BY <1>3, <2>5
  <2>6. QED
    BY <1>8, <2>3, <2>4, <2>5, DrawStep DEF GaveUp, DidEnd, GoesOn
<1>9. FloorOne(next)
  BY <1>2, <1>3, <1>4, <1>5, <1>6, <1>7, <1>8, PrintChanges DEF Step, FloorOne
<1>10. QED
  BY <1>9 DEF FloorOne

\* The driver gives up only where no page is of use, and gets there within its
\* attempts: the first attempt has at most 8 MiB, the floor is 256 KiB or more, and
\* eight attempts are enough, of the twelve there are.
THEOREM GivesUp ==
  ASSUME minDIB >= 256, MaxAttempts >= 8
  PROVE  Spec => []GivesUpAtFloor
<1>1. Init => FloorInv
  <2>1. Init => \A a \in Actor : print[a].why = None
    BY DEF Init, Idle
  <2>2. None # "attempts" /\ None # "floor"
    BY PrintPathAssumption DEF Errors
  <2>3. QED
    BY <2>1, <2>2 DEF FloorInv, FloorOne
<1>2. TypeOK /\ FloorInv /\ [Next]_vars => FloorInv'
  BY FloorInductive
<1>3. FloorInv => GivesUpAtFloor
  BY DEF FloorInv, FloorOne, GivesUpAtFloor, belowFloor
<1>4. QED
  BY <1>1, <1>2, <1>3, PrintTypeCorrect, PTL DEF Spec

-----------------------------------------------------------------------------
(* Profiles.                                                               *)

Concerns(f, p) == f.type = "sync" \/ p \in DOMAIN f.profiles

\* What a frame leaves a printer it concerns with.
Leaves(f, p) == IF p \in DOMAIN f.profiles THEN mapProfile(f.profiles[p]) ELSE None

LastOf(fs, p) ==
  LET I == {i \in 1..Len(fs) : Concerns(fs[i], p)}
  IN  IF I = {} THEN None ELSE Leaves(fs[Max(I)], p)

\* LastSent looks for the last frame that concerns the printer.
LEMMA LastSentIs ==
  ASSUME NEW p \in Printer, NEW fs \in Seq(Frames)
  PROVE  LET i == SelectLastInSeq(fs, LAMBDA f : f.type = "sync" \/ p \in DOMAIN f.profiles)
         IN  (IF i = 0 THEN None
              ELSE IF p \in DOMAIN fs[i].profiles THEN mapProfile(fs[i].profiles[p])
              ELSE None) = LastOf(fs, p)
<1> DEFINE I == {i \in 1..Len(fs) : Concerns(fs[i], p)}
           last == SelectLastInSeq(fs, LAMBDA f : f.type = "sync" \/ p \in DOMAIN f.profiles)
<1>1. last = IF I # {} THEN Max(I) ELSE 0
  BY DEF SelectLastInSeq, Concerns
<1>2. I # {} => Max(I) \in I
  <2>1. Len(fs) \in Nat /\ I \in SUBSET (0..Len(fs))
    BY LenProperties
  <2> HIDE DEF I
  <2>2. QED
    BY <2>1, MaxIs
<1>3. I # {} => Max(I) # 0
  BY <1>2
<1>4. \A i : i = (IF I # {} THEN Max(I) ELSE 0) =>
        (IF i = 0 THEN None
         ELSE IF p \in DOMAIN fs[i].profiles THEN mapProfile(fs[i].profiles[p])
         ELSE None) = LastOf(fs, p)
  <2>1. LastOf(fs, p) = IF I = {} THEN None ELSE Leaves(fs[Max(I)], p)
    BY DEF LastOf
  <2> HIDE DEF I
  <2>2. QED
    BY <1>3, <2>1 DEF Leaves
<1> HIDE DEF I
<1>5. QED
  BY <1>1, <1>4

\* One more frame decides for the printers it concerns and for no others.
LEMMA LastOfAppend ==
  ASSUME NEW p \in Printer, NEW fs \in Seq(Frames), NEW f \in Frames
  PROVE  LastOf(Append(fs, f), p) = IF Concerns(f, p) THEN Leaves(f, p) ELSE LastOf(fs, p)
<1> DEFINE gs == Append(fs, f)
           I == {i \in 1..Len(fs) : Concerns(fs[i], p)}
           J == {i \in 1..Len(gs) : Concerns(gs[i], p)}
           n == Len(fs)
<1>1. /\ n \in Nat /\ Len(gs) = n + 1 /\ gs[n + 1] = f
      /\ \A i \in 1..n : gs[i] = fs[i]
  BY AppendProperties, LenProperties
<1> HIDE DEF gs, n
<1>2. I \in SUBSET (0..n) /\ J \in SUBSET (0..n + 1) /\ I \subseteq 1..n
  BY <1>1 DEF n
<1>3. CASE Concerns(f, p)
  <2>1. n + 1 \in J
    BY <1>1, <1>3
  <2>2. Max(J) = n + 1
    <3> HIDE DEF I, J
    <3>1. n + 1 \in Nat /\ J # {} /\ J \in SUBSET (0..(n + 1))
      BY <1>1, <1>2, <2>1
    <3>2. Max(J) \in J /\ \A m \in J : m <= Max(J)
      BY <3>1, MaxIs
    <3>3. Max(J) \in 0..(n + 1) /\ n + 1 <= Max(J)
      BY <2>1, <3>1, <3>2
    <3>4. QED
      BY <1>1, <3>3
  <2>4. LastOf(gs, p) = Leaves(f, p)
    BY <1>1, <2>1, <2>2 DEF LastOf
  <2>5. QED
    BY <1>3, <2>4 DEF gs
<1>4. CASE ~ Concerns(f, p)
  <2>1. J = I
    BY <1>1, <1>4 DEF n
  <2>2. I # {} => Max(I) \in I
    <3> HIDE DEF I
    <3>1. QED
      BY <1>1, <1>2, MaxIs
  <2>3. I # {} => gs[Max(I)] = fs[Max(I)]
    BY <1>1, <1>2, <2>2
  <2>4. LastOf(gs, p) = LastOf(fs, p)
    BY <2>1, <2>3 DEF LastOf
  <2>5. QED
    BY <1>4, <2>4 DEF gs
<1>5. QED
  BY <1>3, <1>4

\* Only a frame changes what the cache holds.
LEMMA CacheStep ==
  ASSUME TypeOK, [Next]_vars
  PROVE  \/ cache' = cache /\ frames' = frames
         \/ \E f \in Frames : ReceiveProfiles(f)
<1>1. ASSUME NEW a \in Actor, Step(a) PROVE cache' = cache /\ frames' = frames
  <2>1. cache' = cache
    BY <1>1 DEF Step, ResolveRole, ReadProfile, Prepare, Encode, SendRaw, SendCups,
       SendVector, Hands, SendPages, OpenDoc, DrawPage
  <2>2. QED
    BY <1>1, <2>1, StepKeeps DEF Keeps
<1>2. Begin => cache' = cache /\ frames' = frames
  BY BeginStep DEF Begun
<1>3. ASSUME NEW c \in Saves, Save(c) PROVE cache' = cache /\ frames' = frames
  BY <1>3 DEF Save
<1>4. Apply => cache' = cache /\ frames' = frames
  BY DEF Apply
<1>5. UNCHANGED vars => cache' = cache /\ frames' = frames
  BY DEF vars
<1>6. QED
  BY <1>1, <1>2, <1>3, <1>4, <1>5 DEF Next

\* The cache holds the profiles the Backend sent last, whatever the panel, the tray and
\* the requests print meanwhile.
THEOREM BackendOwnsProfiles == Spec => []BackendProfileKept
<1>1. ASSUME NEW fs \in Seq(Frames), frames = fs
      PROVE  BackendProfileKept <=> \A p \in Printer : cache[p] = LastOf(fs, p)
  BY <1>1, LastSentIs DEF BackendProfileKept, LastSent
<1> DEFINE Kept == \A p \in Printer : cache[p] = LastOf(frames, p)
<1>2. TypeOK => (BackendProfileKept <=> Kept)
  BY <1>1 DEF TypeOK
<1>3. Init => Kept
  <2>1. \A p \in Printer : LastOf(<<>>, p) = None
    BY DEF LastOf
  <2>2. QED
    BY <2>1 DEF Init
<1>4. TypeOK /\ Kept /\ [Next]_vars => Kept'
  <2> SUFFICES ASSUME TypeOK, Kept, [Next]_vars PROVE Kept'
    OBVIOUS
  <2>1. CASE cache' = cache /\ frames' = frames
    BY <2>1
  <2>2. ASSUME NEW f \in Frames, ReceiveProfiles(f) PROVE Kept'
    <3>1. /\ frames' = Append(frames, f) /\ frames \in Seq(Frames)
          /\ cache' = IF f.type = "sync" THEN SetAll(cache, f.profiles)
                                         ELSE Set(cache, f.profiles)
      BY <2>2 DEF ReceiveProfiles, TypeOK
    <3>2. ASSUME NEW p \in Printer PROVE cache'[p] = LastOf(Append(frames, f), p)
      <4>1. cache'[p] = IF Concerns(f, p) THEN Leaves(f, p) ELSE cache[p]
        BY <3>1 DEF SetAll, Set, Concerns, Leaves
      <4>2. QED
        BY <3>1, <4>1, LastOfAppend
    <3>3. QED
      BY <3>1, <3>2
  <2>3. QED
    BY <2>1, <2>2, CacheStep
<1>5. QED
  BY <1>2, <1>3, <1>4, PrintTypeCorrect, PTL DEF Spec
=============================================================================
