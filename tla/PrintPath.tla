----------------------------- MODULE PrintPath ------------------------------
(***************************************************************************)
(* Documents on their way to paper while the Backend sends profiles and    *)
(* the panel changes settings.  Four goroutines print: the session, which  *)
(* handles profiles and jobs one frame after the other; the panel, for a   *)
(* test page or the drawer; the test of the Windows tray; and, without a   *)
(* Backend, the HTTP service.  Each takes the role, the profile, the page  *)
(* mode, the calibration and the margin from where it finds them, each at  *)
(* its own moment.                                                         *)
(*                                                                         *)
(* conf holds every configuration the panel has had, the one the process   *)
(* loaded first; a setting installed in the engine is the number of the    *)
(* configuration it was taken from.  Module Panel has requests that        *)
(* overlap and saves that fail; here one request saves at a time.          *)
(*                                                                         *)
(* The GDI driver draws at falling scales: sizes are in KiB, and one level *)
(* takes a factor 0.8 off both sides.                                      *)
(***************************************************************************)
EXTENDS Pipeline

CONSTANTS Installed,   \* the configuration the process loaded
          Saves,       \* the configurations the panel may save
          JobFormats,  \* the formats the jobs of the Backend have
          Frames,      \* what the Backend may send about profiles
          Widths,      \* the widths HTTP requests ask for
          Documents,   \* sizes of the pages of a raster document, first attempt
          Limits,      \* the largest bitmap a printer's driver takes
          minDIB,      \* minDIBBytes
          MaxAttempts, \* attempts of Driver.Send
          MaxLeft,     \* bound: how often AbortDoc fails in one print
          MaxSaves, MaxFrames, MaxJobs   \* bounds

Actor == {"session", "panel", "tray", "http"}

\* A profiles_sync brings a profile for each of some printers, a
\* profile_update one for one of them.
Frame == [type : {"sync", "update"}, profiles : UNION {[P -> Profile] : P \in SUBSET Printer}]

\* A page bigger than that, in KiB, is drawn smaller from the first attempt on.
firstDIBCap == 8192

Errors == {"no printer", "no profile", "no drawer", "no pipeline", "render",
           "send", "floor", "attempts"}

ASSUME PrintPathAssumption ==
  /\ None \notin Errors
  /\ {Installed} \cup Saves \subseteq Config
  /\ JobFormats \subseteq Source
  /\ Widths \subseteq Nat
  /\ \A f \in Frames : /\ f.type \in {"sync", "update"}
                       /\ DOMAIN f.profiles \subseteq Printer
                       /\ \A p \in DOMAIN f.profiles : f.profiles[p] \in Profile
  /\ Documents \subseteq Seq(0..firstDIBCap) \ {<<>>}
  /\ Limits \subseteq Nat /\ minDIB \in Nat
  /\ MaxAttempts \in Nat \ {0}
  /\ MaxLeft \in Nat /\ MaxSaves \in Nat /\ MaxFrames \in Nat /\ MaxJobs \in Nat

VARIABLES
  os,         \* platform and mode, fixed when the process starts
  conf,       \* the configurations so far; the last is Server.d.Cfg
  installed,  \* tuning, margin, mode, roles: numbers in conf
  applying,   \* the step of ApplyTuning a save is at, 0 if none
  cache,      \* memoryCache: the profile of each printer, or None
  print,      \* per actor: the document it is printing, or printed last
  frames,     \* history: the frames with profiles, in the order received
  jobs        \* the bounded counter

settings == <<conf, installed, applying>>
vars == <<os, settings, cache, print, frames, jobs>>

\* local: no Backend is configured, and the HTTP service runs in place of the session.
Platform ==
  [windows : {FALSE}, available : {FALSE}, utf8ACP : {TRUE}, local : BOOLEAN]
  \cup [windows : {TRUE}, available : BOOLEAN, utf8ACP : BOOLEAN, local : BOOLEAN]

\* The settings ApplyTuning installs, in its order.
ApplyOrder == <<"tuning", "margin", "mode", "roles">>

\* left: documents that were given up and that AbortDoc failed to take out of the
\* queue.  lost: documents that EndDoc failed to put there.
NoDoc == [pages |-> <<>>, limit |-> 0, level |-> 0, page |-> 0, margin |-> 0,
          drawn |-> {}, left |-> 0, lost |-> 0]

\* at: the next step.  op: job, test or drawer.  own: the profile a local action
\* falls back to.  since: the configuration whose save was answered last when the
\* print began.  used: which settings it took, from which configuration.  docs:
\* how many documents of it reached the queue.
Idle == [at |-> "idle", op |-> None, printer |-> None, role |-> None,
         source |-> None, own |-> None, prof |-> None, pipe |-> None,
         since |-> 1, used |-> {}, doc |-> NoDoc, docs |-> 0, why |-> None]

Answered == IF applying = 0 THEN Len(conf) ELSE Len(conf) - 1

Init ==
  /\ os \in Platform
  /\ conf = <<Installed>>
  /\ installed = [s \in ToSet(ApplyOrder) |-> 1]
  /\ applying = 0
  /\ cache = [p \in Printer |-> None]
  /\ print = [a \in Actor |-> Idle]
  /\ frames = <<>> /\ jobs = 0

-----------------------------------------------------------------------------
(* The panel saves a configuration and ApplyTuning installs it.            *)

Save(c) ==
  /\ applying = 0 /\ Len(conf) <= MaxSaves
  /\ conf' = Append(conf, c) /\ applying' = 1
  /\ UNCHANGED <<os, installed, cache, print, frames, jobs>>

\* Slip: the resolver of roles is left as it was.
Apply_NoRoles ==
  /\ applying # 0
  /\ installed' = [installed EXCEPT ![ApplyOrder[applying]] = Len(conf)]
  /\ applying' = IF applying = Len(ApplyOrder) - 1 THEN 0 ELSE applying + 1
  /\ UNCHANGED <<os, conf, cache, print, frames, jobs>>

Apply ==
  /\ applying # 0
  /\ installed' = [installed EXCEPT ![ApplyOrder[applying]] = Len(conf)]
  /\ applying' = IF applying = Len(ApplyOrder) THEN 0 ELSE applying + 1
  /\ UNCHANGED <<os, conf, cache, print, frames, jobs>>

-----------------------------------------------------------------------------
(* Profiles from the Backend, in the goroutine of the session.             *)

Free(a) == print[a].at \in {"idle", "done"}

\* Slip: a sync adds to what is there.
SetAll_Merges(c, ps) ==
  [p \in Printer |-> IF p \in DOMAIN ps THEN mapProfile(ps[p]) ELSE c[p]]

\* memoryCache.SetAll drops the printers the sync does not name.
SetAll(c, ps) ==
  [p \in Printer |-> IF p \in DOMAIN ps THEN mapProfile(ps[p]) ELSE None]

Set(c, ps) ==
  [p \in Printer |-> IF p \in DOMAIN ps THEN mapProfile(ps[p]) ELSE c[p]]

ReceiveProfiles(f) ==
  /\ ~os.local
  /\ Free("session") /\ Len(frames) < MaxFrames
  /\ frames' = Append(frames, f)
  /\ cache' = IF f.type = "sync" THEN SetAll(cache, f.profiles)
                                 ELSE Set(cache, f.profiles)
  /\ UNCHANGED <<os, settings, print, jobs>>

-----------------------------------------------------------------------------
(* Where a print begins.                                                   *)

\* What is left of prints that ended is history and is dropped here.
Start(a, rec) ==
  /\ Free(a) /\ jobs < MaxJobs /\ jobs' = jobs + 1
  /\ print' = [b \in Actor |-> IF b = a THEN [rec EXCEPT !.since = Answered]
                               ELSE IF Free(b) THEN Idle ELSE print[b]]
  /\ UNCHANGED <<os, settings, cache, frames>>

\* JobHandler.Handle: a job names its printer or only a role.
BeginJob(p, role, format) ==
  /\ ~os.local
  /\ Start("session", [Idle EXCEPT !.at = IF p = None THEN "role" ELSE "profile",
                                   !.op = "job", !.printer = p, !.role = role,
                                   !.source = format])

\* The configuration a local action reads: the panel has its own copy, which the
\* requests change; the tray has the one the process loaded.
CfgNumber(a) == IF a = "panel" THEN Len(conf) ELSE 1

\* What a local action falls back to: localProfile.
Fallback(c, p) == IF KindOf(c, p) = "pdf" THEN pdfProfile ELSE escposProfile

\* testPrint and printersDrawer name the printer or take the default; without
\* either, a test takes the first that is discovered.
PanelBegin(p, op) ==
  LET n == CfgNumber("panel") IN
  Start("panel", [Idle EXCEPT !.at = "profile", !.op = op, !.printer = p,
                              !.own = Fallback(conf[n], p),
                              !.used = {<<"cfg", n>>}])

\* trayTestPrint.
TrayBegin(p) ==
  LET n == CfgNumber("tray") IN
  /\ os.windows
  /\ p = conf[n].default \/ conf[n].default = None
  /\ Start("tray", [Idle EXCEPT !.at = "profile", !.op = "test", !.printer = p,
                                !.own = Fallback(conf[n], p),
                                !.used = {<<"cfg", n>>}])

\* handlePrint: the request names the printer, and describes a receipt printer in
\* case the cache has no profile.  s.mu makes the next request wait, which changes
\* nothing that a print reads.
HTTPBegin(p, format, width) ==
  /\ os.local
  /\ Start("http", [Idle EXCEPT !.at = "profile", !.op = "job", !.printer = p,
                                !.source = format,
                                !.own = [escposProfile EXCEPT !.width = width]])

-----------------------------------------------------------------------------
(* The way to the driver.                                                  *)

At(a, step) == print[a].at = step

Update(a, rec) ==
  /\ print' = [print EXCEPT ![a] = rec]
  /\ UNCHANGED <<os, settings, frames, jobs>>

\* The print returns: why is None, or the error.
Ended(rec, docs, why) ==
  [rec EXCEPT !.at = "done", !.docs = @ + docs, !.why = why, !.own = None]

ResolveRole(a) ==
  LET p == RoleResolve(conf[installed.roles], print[a].role)
      rec == [print[a] EXCEPT !.printer = p,
                              !.used = @ \cup {<<"roles", installed.roles>>}]
  IN  /\ At(a, "role")
      /\ Update(a, IF p = None THEN Ended(rec, 0, "no printer")
                               ELSE [rec EXCEPT !.at = "profile"])
      /\ UNCHANGED cache

\* Slip: the profile a local action falls back to is installed, as it once was.
ReadProfile_Installs(a) ==
  LET pr == print[a]
      cached == cache[pr.printer]
      prof == IF cached # None THEN cached ELSE pr.own
  IN  /\ At(a, "profile")
      /\ cache' = [cache EXCEPT ![pr.printer] = prof]
      /\ Update(a, IF prof = None THEN Ended(pr, 0, "no profile")
                                  ELSE [pr EXCEPT !.prof = prof, !.at = "mode"])

\* memoryCache.Profile and ProfileOr.
ReadProfile(a) ==
  LET pr == print[a]
      cached == cache[pr.printer]
      prof == IF cached # None THEN cached ELSE pr.own
  IN  /\ At(a, "profile")
      /\ Update(a, IF prof = None THEN Ended(pr, 0, "no profile")
                                  ELSE [pr EXCEPT !.prof = prof, !.at = "mode"])
      /\ UNCHANGED cache

\* The document of a local action, from the prepared profile.
SourceOf(pr, prof) ==
  CASE pr.op = "job" -> pr.source
    [] pr.op = "drawer" -> "text"
    [] pr.op = "test" -> IF profileIsPDF(prof) THEN "pdf" ELSE "text"

\* Slip: the error of the resolver is not looked at.
Refused_NoError(pr, prof, pipe) ==
  IF pr.op = "drawer" /\ ~prof.drawer THEN "no drawer" ELSE None

\* Why nothing is rendered: the printer has no drawer, or there is no way to it.
Refused(pr, prof, pipe) ==
  IF pr.op = "drawer" /\ ~prof.drawer THEN "no drawer"
  ELSE IF pipe = None THEN "no pipeline" ELSE None

\* The profile is prepared with the mode of the moment and the pipeline composed:
\* normalizingCache, printersDrawer, PrintTestPage, resolver.Resolve.
Prepare(a) ==
  LET pr == print[a]
      prof == normalize(os, PageModeOf(conf[installed.mode], pr.printer),
                        pr.printer, pr.prof)
      source == SourceOf(pr, prof)
      pipe == Resolve(source, prof, os)
      why == Refused(pr, prof, pipe)
      rec == [pr EXCEPT !.prof = prof, !.source = source, !.at = "encode",
                        !.pipe = IF why = None THEN pipe ELSE None,
                        !.used = IF os.windows
                                 THEN @ \cup {<<"mode", installed.mode>>} ELSE @]
  IN  /\ At(a, "mode")
      /\ Update(a, IF why = None THEN rec ELSE Ended(rec, 0, why))
      /\ UNCHANGED cache

\* Renderer and encoder; the calibration is read between them.
Encode(a) ==
  LET pr == print[a]
      rec == [pr EXCEPT !.used = @ \cup {<<"tuning", installed.tuning>>}]
  IN  /\ At(a, "encode")
      /\ \/ Update(a, [rec EXCEPT !.at = "send"])
         \/ /\ pr.pipe.renderer.produces = "raster"
            /\ Update(a, Ended(pr, 0, "render"))
      /\ UNCHANGED cache

\* The driver returns: the document is in the queue, or the send failed with it or
\* part of it there, or with none.
Hands(a) ==
  /\ \/ Update(a, Ended(print[a], 1, None))
     \/ \E n \in {0, 1} : Update(a, Ended(print[a], n, "send"))
  /\ UNCHANGED cache

\* The spooler: from StartDocPrinter on, EndDocPrinter is deferred, so a page or a
\* write that fails, or writes less, leaves a document.  Whether it was ended nobody
\* looks at: Send succeeds with nothing in the queue.
SendRaw(a) ==
  /\ At(a, "send") /\ print[a].pipe.driver.name = "spooler"
  /\ Hands(a) \/ (Update(a, Ended(print[a], 0, None)) /\ UNCHANGED cache)

\* lp, which may fail after it queued the document.
SendCups(a) ==
  At(a, "send") /\ print[a].pipe.driver.name \in {"cupsRaw", "cupsNative"} /\ Hands(a)

\* pdftocairo, which is killed when its time is up, with pages in the queue or none.
SendVector(a) == At(a, "send") /\ print[a].pipe.driver.name = "pdfvector" /\ Hands(a)

-----------------------------------------------------------------------------
(* The GDI driver.                                                         *)

\* The size of a page's bitmap at a level: both sides shrink to 0.8.
Size(base, level) ==
  LET size[k \in 0..level] == IF k = 0 THEN base ELSE (size[k - 1] * 64) \div 100
  IN  size[level]

\* Slip: the smallest page decides.
belowFloor_Smallest(pages, level) ==
  \E i \in DOMAIN pages : Size(pages[i], level) < minDIB

\* belowFloor: the largest page would be too poor to be of use.
belowFloor(pages, level) == \A i \in DOMAIN pages : Size(pages[i], level) < minDIB

SendPages(a, pages, limit) ==
  /\ At(a, "send") /\ print[a].pipe.driver.name = "gdi"
  /\ print[a].source # "pdf" => Len(pages) = 1
  /\ Update(a, [print[a] EXCEPT !.at = "open",
                                !.doc = [NoDoc EXCEPT !.pages = pages, !.limit = limit]])
  /\ UNCHANGED cache

\* renderDoc up to StartDoc; the margin is read once per attempt.
OpenDoc(a) ==
  LET pr == print[a]
      rec == [pr EXCEPT !.at = "page",
                        !.doc = [@ EXCEPT !.page = 1, !.drawn = {},
                                          !.margin = installed.margin],
                        !.used = @ \cup {<<"margin", installed.margin>>}]
  IN  /\ At(a, "open")
      /\ \/ Update(a, rec)
         \/ Update(a, Ended(pr, 0, "send"))
      /\ UNCHANGED cache

\* EndDoc puts the document in the queue.  Its result is not looked at: where it
\* fails there is none, and the print goes on as if there were.
EndDoc(pr) == {[pr EXCEPT !.docs = @ + 1], [pr EXCEPT !.doc.lost = @ + 1]}

\* Slip: the document is ended whatever happened.
AbortDoc_Ends(pr) == EndDoc(pr)

\* AbortDoc takes a document that is given up out of the queue.  Where it fails, and
\* again nobody looks, the document may stay there.
AbortDoc(pr) ==
  {pr} \cup {rec \in {[pr EXCEPT !.docs = @ + 1, !.doc.left = @ + 1]} : rec.doc.left <= MaxLeft}

\* Slip: each page asks for the margin again.
PageMargin_Now(doc) == installed.margin

\* drawPage is given the rectangle renderDoc computed.
PageMargin(doc) == doc.margin

\* drawPage, the deferred end of renderDoc, and the retry of Driver.Send at the next
\* level when the printer's driver refuses the bitmap.
DrawPage(a) ==
  LET pr == print[a]
      doc == pr.doc
      next == doc.level + 1
      Retried(rec) == CASE belowFloor(doc.pages, next) -> Ended(rec, 0, "floor")
                        [] ~belowFloor(doc.pages, next) /\ next = MaxAttempts ->
                             Ended(rec, 0, "attempts")
                        [] OTHER -> [rec EXCEPT !.at = "open", !.doc.level = next]
      drawn == [pr EXCEPT !.doc.drawn = @ \cup {PageMargin(doc)}]
      fits == Size(doc.pages[doc.page], doc.level) <= doc.limit
      last == doc.page = Len(doc.pages)
  IN  /\ At(a, "page")
      /\ \/ ~fits /\ \E rec \in AbortDoc(pr) : Update(a, Retried(rec))
         \/ fits /\ ~last /\ Update(a, [drawn EXCEPT !.doc.page = @ + 1])
         \/ fits /\ last /\ \E rec \in EndDoc(drawn) : Update(a, Ended(rec, 0, None))
         \/ \E rec \in AbortDoc(pr) : Update(a, Ended(rec, 0, "send"))
      /\ UNCHANGED cache

Step(a) ==
  \/ ResolveRole(a) \/ ReadProfile(a) \/ Prepare(a) \/ Encode(a)
  \/ SendRaw(a) \/ SendCups(a) \/ SendVector(a)
  \/ \E pages \in Documents, limit \in Limits : SendPages(a, pages, limit)
  \/ OpenDoc(a) \/ DrawPage(a)

Begin ==
  \/ \E role \in Role \cup {None}, format \in JobFormats : BeginJob(None, role, format)
  \/ \E p \in Printer, format \in JobFormats : BeginJob(p, None, format)
  \/ \E p \in Printer, op \in {"test", "drawer"} : PanelBegin(p, op)
  \/ \E p \in Printer : TrayBegin(p)
  \/ \E p \in Printer, format \in JobFormats, width \in Widths : HTTPBegin(p, format, width)

Next ==
  \/ \E c \in Saves : Save(c)
  \/ Apply
  \/ \E f \in Frames : ReceiveProfiles(f)
  \/ Begin
  \/ \E a \in Actor : Step(a)

Spec == Init /\ [][Next]_vars

-----------------------------------------------------------------------------
ReadyProfile == {prof \in Profile : prof.formats # <<>>}

Doc == [pages : Documents \cup {<<>>}, limit : Limits \cup {0}, level : Nat, page : Nat,
        margin : Nat, drawn : SUBSET Nat, left : Nat, lost : Nat]

\* Settings a print took: their names with the numbers of their configurations.
Taken == SUBSET (({"cfg"} \cup ToSet(ApplyOrder)) \X Nat)

Early == {"idle", "role", "profile", "mode"}
Sending == {"send", "open", "page"}

Printing ==
  [at : Early \cup {"encode"} \cup Sending \cup {"done"},
   op : {"job", "test", "drawer", None}, printer : Printer \cup {None},
   role : Role \cup {None}, source : Source \cup {None},
   own : ReadyProfile \cup {None}, prof : ReadyProfile \cup {None}, pipe : Pipe \cup {None},
   since : Nat, used : Taken,
   doc : Doc, docs : Nat, why : Errors \cup {None}]

\* What a print knows at each of its steps: nothing of the pipeline before there is
\* one, and a printer and a profile from where they are read on.
StepOK(pr) ==
  /\ pr.at # "idle" => /\ pr.op \in {"job", "test", "drawer"}
                       /\ pr.op = "job" => pr.source \in Source
  /\ pr.at \in Early => pr.pipe = None /\ pr.why = None /\ pr.docs = 0
  /\ pr.at = "role" => pr.printer = None
  /\ pr.at \in {"profile", "mode", "encode"} \cup Sending => pr.printer \in Printer
  /\ pr.at \in {"mode", "encode"} \cup Sending => pr.prof \in ReadyProfile
  /\ pr.at \in {"encode"} \cup Sending =>
       pr.pipe \in Pipe /\ pr.source \in Source /\ pr.why = None
  /\ pr.at \in {"encode", "send"} => pr.docs = 0
  /\ pr.at \in {"open", "page"} => pr.pipe.driver.name = "gdi" /\ pr.doc.pages # <<>>
  /\ pr.at = "page" => pr.doc.page \in DOMAIN pr.doc.pages

\* Profiles have formats and keep their form through the normaliser, a print in the
\* engine has a pipeline, and settings are numbers of configurations there have been.
TypeOK ==
  /\ os \in Platform
  /\ conf \in Seq(Config) /\ Len(conf) \in 1..MaxSaves + 1
  /\ installed \in [ToSet(ApplyOrder) -> DOMAIN conf]
  /\ applying \in 0..Len(ApplyOrder)
  /\ cache \in [Printer -> ReadyProfile \cup {None}]
  /\ frames \in Seq(Frames) /\ jobs \in 0..MaxJobs
  /\ print \in [Actor -> Printing]
  /\ \A a \in Actor :
       /\ StepOK(print[a])
       /\ \A u \in print[a].used : u[2] \in DOMAIN conf

\* The profile the last frame that concerns p left it with.
LastSent(p) ==
  LET i == SelectLastInSeq(frames, LAMBDA f : f.type = "sync" \/ p \in DOMAIN f.profiles)
  IN  IF i = 0 THEN None
      ELSE IF p \in DOMAIN frames[i].profiles THEN mapProfile(frames[i].profiles[p])
      ELSE None

\* The Backend owns the profiles: whatever the panel, the tray and HTTP requests
\* print and change meanwhile, the cache holds what was sent last (profile.go, "las acciones locales
\* usan ProfileOr y no escriben aqui").
BackendProfileKept == \A p \in Printer : cache[p] = LastSent(p)

\* Each stage reads what the one before it makes and the driver takes it; the
\* target is one of the formats of the profile.
StagesFit ==
  \A a \in Actor :
    LET pr == print[a]  pipe == pr.pipe IN
    pipe # None => /\ pr.source \in pipe.renderer.reads
                   /\ pipe.renderer.produces = pipe.encoder.accepts
                   /\ pipe.encoder.produces \in pipe.driver.accepts
                   /\ Contains(pr.prof.formats, pipe.encoder.produces)

\* A configuration that was current at some moment of the print.
During(pr, n) == n \in pr.since..Len(conf)

\* No document goes to the vector driver unless the printer was set to it at some
\* moment of its print, nor to a printer pdftocairo cannot name; rasters for a
\* page printer are never blurred.
PageModeObeyed ==
  \A a \in Actor :
    LET pr == print[a] IN
    /\ pr.pipe # None /\ pr.pipe.driver.name = "pdfvector" =>
         /\ \E n \in DOMAIN conf : During(pr, n) /\ PageModeOf(conf[n], pr.printer) = "vector"
         /\ os.utf8ACP \/ pr.printer \notin NonAscii
    /\ pr.pipe # None /\ pr.pipe.driver.name = "gdi" =>
         pr.prof.width >= minRasterWidthDots

\* On Windows a PDF or an image for a page printer has a way to paper, with
\* pdftocairo installed or not, whatever the mode (normalize.go, "el resolver cae
\* al modo imagen").
PagesArePrintable ==
  \A a \in Actor :
    LET pr == print[a] IN
    os.windows /\ pr.source \in {"pdf", "png", "jpeg"} /\ pr.why = "no pipeline"
      => ~profileIsPDF(pr.prof)

\* A job for a role goes to a printer that is turned on for it in a configuration
\* of the moment; the default gets what nobody else is turned on for, and comes
\* first among several.
RoleObeyed ==
  LET pr == print["session"]
      Serves(c, p) == \E i \in DOMAIN c.printers :
                        c.printers[i].name = p /\ c.printers[i].role = pr.role
                        /\ c.printers[i].enabled
  IN  pr.role # None /\ pr.printer # None =>
        \E n \in DOMAIN conf :
          LET c == conf[n] IN
          /\ During(pr, n)
          /\ Serves(c, pr.printer) \/ \A p \in Printer : ~Serves(c, p)
          /\ Serves(c, c.default) => pr.printer = c.default

\* Once the panel has answered, the next print takes every setting from that
\* configuration or a later one (main.go, ApplyTuning; tray: see PrintClaims).
SettingsAreFresh ==
  \A a \in Actor : \A u \in print[a].used :
    u[1] # "cfg" \/ a = "panel" => u[2] >= print[a].since

\* However many attempts a document of the GDI driver takes, it is in the queue once
\* if the print succeeded and not at all if it failed, but for exactly the documents
\* Windows would not end and those it would not take back, whose failures renderDoc
\* does not look at; its pages have one margin.
GdiPaperMatchesVerdict ==
  \A a \in Actor :
    LET pr == print[a] IN
    pr.pipe # None /\ pr.pipe.driver.name = "gdi" =>
      /\ pr.docs + pr.doc.lost =
           (IF pr.at = "done" /\ pr.why = None THEN 1 ELSE 0) + pr.doc.left
      /\ \A m, n \in pr.doc.drawn : m = n

\* The driver gives up only where every page is too poor to be of use, and gets
\* there before it runs out of attempts.
GivesUpAtFloor ==
  \A a \in Actor :
    LET pr == print[a] IN
    /\ pr.why # "attempts"
    /\ pr.why = "floor" => \A i \in DOMAIN pr.doc.pages :
                             Size(pr.doc.pages[i], pr.doc.level + 1) < minDIB
=============================================================================
