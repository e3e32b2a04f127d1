------------------------------- MODULE Panel --------------------------------
(***************************************************************************)
(* The configuration behind the desktop panel (adapters/ui/server.go).     *)
(* Server.d.Cfg is one struct that every HTTP handler reads and writes     *)
(* without a lock; net/http runs each request in its own goroutine.  A     *)
(* handler assigns field by field, saves a copy of the struct through      *)
(* config.Save (truncate, then write), and hands a copy to ApplyTuning,    *)
(* which installs it in the engine while jobs are printing.  A change of   *)
(* connection ends the process 700 ms after the answer, whatever the other *)
(* handlers are doing, and the next process reads the file again.          *)
(*                                                                         *)
(* Printers is a slice: an array of the heap and a length, because the     *)
(* resolvers given to the engine keep the array the panel had.  The cut    *)
(* feed stands for every calibration field; a copy of the struct is one    *)
(* step.  Requests that are refused change nothing and are left out.       *)
(***************************************************************************)
EXTENDS Integers, Sequences, FiniteSets

CONSTANTS Handler,       \* requests served at the same time
          Printer, URL, Token,
          None,          \* "" in a string field
          Absent,        \* a field the body of a request does not have
          Empty, Garbled,    \* a file truncated, or left by two writers
          Requests,      \* the requests the panel may send
          Installed,     \* the configuration the first process finds
          MaxFeed,       \* maxCutFeedDots
          SaveFails,     \* TRUE if the file may fail to open or to be written
          MaxRequests, MaxCrashes   \* bounds

Managed == [name : Printer, feed : 0..MaxFeed]

\* What the file holds once it is written.
Saved == [url : URL \cup {None}, token : Token \cup {None},
          default : Printer \cup {None}, feed : 0..MaxFeed,
          printers : Seq(Managed)]

\* The bodies the handlers decode; numbers come as the panel sends them.
Request ==
  [op : {"manage"}, name : Printer, feed : Int]
  \cup [op : {"remove", "default"}, name : Printer]
  \cup [op : {"config"}, url : URL \cup {None, Absent},
        token : Token \cup {Absent}, feed : Int \cup {Absent}]
  \cup [op : {"register"}, url : URL \cup {Absent}, token : Token]
  \cup [op : {"unregister"}]

ASSUME PanelAssumption ==
  /\ Requests \subseteq Request
  /\ Installed \in Saved
  /\ None # Absent /\ {None, Absent} \cap (URL \cup Token \cup Printer) = {}
  /\ {Empty, Garbled} \cap Saved = {}
  /\ MaxFeed \in Nat /\ SaveFails \in BOOLEAN
  /\ MaxRequests \in Nat /\ MaxCrashes \in Nat

VARIABLES
  up,        \* the process runs
  readOnly,  \* ConnReadOnly: it runs as a service
  cfg,       \* Server.d.Cfg
  heap,      \* the arrays Printers slices point to
  file,      \* a Saved, Empty or Garbled
  inUse,     \* url and token the process connects with, read when it started
  tuning,    \* Engine.tuning: the feed and the Printers its resolver captured
  roles,     \* RoleResolver: its own copy of the printers, and the default
  req, at,   \* per handler: its request and the statement it is at, 0 if idle
  changed,   \* per handler: it will end in applyConnectionChange
  buf,       \* per handler: the slice upsertManaged or removeManaged made
  snap,      \* per handler: the copy of cfg it passed on last
  exiting,   \* a goroutine of applyConnectionChange is sleeping
  job,       \* a job in the engine, inside Config.PrinterTuning
  requests, crashes,     \* the bounded counters
  own,       \* history: the overrides each printer had in cfg, 0 for none
  alone, saved   \* history: no two requests overlapped, no save failed, since
                 \* the process started

handlers == <<req, at, changed, buf, snap>>
engine == <<tuning, roles>>
vars == <<up, readOnly, cfg, heap, file, inUse, engine, handlers, exiting, job,
          requests, crashes, own, alone, saved>>

Nil == [arr |-> 0, len |-> 0]
NoJob == [printer |-> None, list |-> Nil, i |-> 0, found |-> -1]

\* The elements a slice shows.
Deref(list) == IF list = Nil THEN <<>> ELSE SubSeq(heap[list.arr], 1, list.len)
Value(c) == [c EXCEPT !.printers = Deref(c.printers)]
Conn(c) == [url |-> c.url, token |-> c.token]

\* Slip: only negative numbers are brought back.
clamp_Below(v) == IF v < 0 THEN 0 ELSE v

clamp(v) == IF v < 0 THEN 0 ELSE IF v > MaxFeed THEN MaxFeed ELSE v

\* What PrinterTuning finds for p in the printers, 0 for no override.
Override(list, p) ==
  LET I == {i \in DOMAIN list : list[i].name = p}
  IN  IF I = {} THEN 0 ELSE list[CHOOSE i \in I : \A k \in I : i <= k].feed

\* Load: an empty file parses as a configuration with nothing set.
Load(f) ==
  IF f = Empty
  THEN [url |-> None, token |-> None, default |-> None, feed |-> 0,
        printers |-> <<>>]
  ELSE f

Init ==
  LET list == [arr |-> 1, len |-> Len(Installed.printers)]
  IN  /\ up = TRUE /\ readOnly \in BOOLEAN
      /\ file = Installed
      /\ heap = <<Installed.printers>>
      /\ cfg = [Installed EXCEPT !.printers = list]
      /\ inUse = Conn(Installed)
      /\ tuning = [feed |-> Installed.feed, list |-> list]
      /\ roles = [printers |-> Installed.printers, default |-> Installed.default]
      /\ req = [h \in Handler |-> Absent]
      /\ at = [h \in Handler |-> 0]
      /\ changed = [h \in Handler |-> FALSE]
      /\ buf = [h \in Handler |-> Nil]
      /\ snap = [h \in Handler |-> Absent]
      /\ exiting = FALSE /\ job = NoJob
      /\ requests = 0 /\ crashes = 0
      /\ own = [p \in Printer |-> {Override(Installed.printers, p)}]
      /\ alone = TRUE /\ saved = TRUE

-----------------------------------------------------------------------------
\* Slip: the default printer is cleared after the configuration was passed on.
Steps_ClearsLate(op) ==
  CASE op = "manage"     -> <<"read", "assign", "save", "write", "tuning", "roles">>
    [] op = "remove"     -> <<"read", "assign", "save", "write", "tuning", "roles",
                              "undefault">>
    [] op = "default"    -> <<"default", "save", "write", "tuning", "roles">>
    [] op = "config"     -> <<"url", "token", "feed", "tuning", "roles", "save",
                              "write">>
    [] op = "register"   -> <<"url", "check", "token", "save", "write">>
    [] op = "unregister" -> <<"token", "url", "save", "write">>

\* The statements of each handler that touch what is modelled, in order.
Steps(op) ==
  CASE op = "manage"     -> <<"read", "assign", "save", "write", "tuning", "roles">>
    [] op = "remove"     -> <<"read", "assign", "undefault", "save", "write",
                              "tuning", "roles">>
    [] op = "default"    -> <<"default", "save", "write", "tuning", "roles">>
    [] op = "config"     -> <<"url", "token", "feed", "tuning", "roles", "save",
                              "write">>
    [] op = "register"   -> <<"url", "check", "token", "save", "write">>
    [] op = "unregister" -> <<"token", "url", "save", "write">>

At(h, step) == up /\ at[h] # 0 /\ Steps(req[h].op)[at[h]] = step

\* On to the next statement, or the answer, followed by applyConnectionChange
\* when the connection is to be applied.  ch: what changed[h] becomes.
Advance(h, ch) ==
  IF at[h] < Len(Steps(req[h].op))
  THEN /\ at' = [at EXCEPT ![h] = @ + 1]
       /\ changed' = [changed EXCEPT ![h] = ch]
       /\ UNCHANGED <<req, exiting>>
  ELSE /\ at' = [at EXCEPT ![h] = 0]
       /\ changed' = [changed EXCEPT ![h] = FALSE]
       /\ req' = [req EXCEPT ![h] = Absent]
       /\ exiting' = (exiting \/ ch)

\* The answer of a handler that met an error: no later statement runs.
Refuse(h) ==
  /\ at' = [at EXCEPT ![h] = 0]
  /\ changed' = [changed EXCEPT ![h] = FALSE]
  /\ req' = [req EXCEPT ![h] = Absent]
  /\ UNCHANGED exiting

-----------------------------------------------------------------------------
(* The handlers.                                                           *)

\* In service mode the connection is read only: register and unregister are
\* refused, and so is a body with a token or another URL; with the same URL the
\* two fields are dropped.
Admitted(r) ==
  readOnly => /\ r.op \notin {"register", "unregister"}
              /\ r.op = "config" => r.token = Absent /\ r.url \in {Absent, cfg.url}

Begin(h, r) ==
  /\ up /\ at[h] = 0
  /\ requests < MaxRequests /\ requests' = requests + 1
  /\ Admitted(r)
  /\ req' = [req EXCEPT ![h] = IF readOnly /\ r.op = "config"
                               THEN [r EXCEPT !.url = Absent] ELSE r]
  /\ at' = [at EXCEPT ![h] = 1]
  /\ changed' = [changed EXCEPT ![h] = r.op \in {"register", "unregister"}]
  /\ alone' = (alone /\ \A g \in Handler : at[g] = 0)
  /\ UNCHANGED <<up, readOnly, cfg, heap, file, inUse, engine, buf, snap,
                 exiting, job, crashes, own, saved>>

\* What an assignment to cfg leaves alone.
Elsewhere == UNCHANGED <<up, readOnly, heap, file, inUse, engine, buf, snap,
                         job, requests, crashes, own, alone, saved>>

upsertManaged(elems, mp) ==
  IF \E i \in DOMAIN elems : elems[i].name = mp.name
  THEN [i \in DOMAIN elems |-> IF elems[i].name = mp.name THEN mp ELSE elems[i]]
  ELSE Append(elems, mp)

removeManaged(elems, name) ==
  LET out[i \in 0..Len(elems)] == IF i = 0 THEN <<>>
                                  ELSE IF elems[i].name = name THEN out[i - 1]
                                  ELSE Append(out[i - 1], elems[i])
  IN  out[Len(elems)]

\* Slip: removeManaged compacts the array it was given.
ReadPrinters_InPlace(h) ==
  /\ At(h, "read")
  /\ LET elems == Deref(cfg.printers)
         new == IF req[h].op = "manage"
                THEN upsertManaged(elems, [name |-> req[h].name,
                                           feed |-> clamp(req[h].feed)])
                ELSE removeManaged(elems, req[h].name)
         arr == IF req[h].op = "manage" THEN Len(heap) + 1 ELSE cfg.printers.arr
     IN  /\ heap' = IF req[h].op = "manage"
                    THEN Append(heap, new)
                    ELSE [heap EXCEPT ![arr] = new \o SubSeq(@, Len(new) + 1, Len(@))]
         /\ buf' = [buf EXCEPT ![h] = [arr |-> arr, len |-> Len(new)]]
  /\ Advance(h, changed[h])
  /\ UNCHANGED <<up, readOnly, cfg, file, inUse, engine, snap, job, requests,
                 crashes, own, alone, saved>>

\* upsertManaged or removeManaged over the Printers read now, into a new array;
\* the assignment is a step of its own.
ReadPrinters(h) ==
  /\ At(h, "read")
  /\ LET elems == Deref(cfg.printers)
         new == IF req[h].op = "manage"
                THEN upsertManaged(elems, [name |-> req[h].name,
                                           feed |-> clamp(req[h].feed)])
                ELSE removeManaged(elems, req[h].name)
     IN  /\ heap' = Append(heap, new)
         /\ buf' = [buf EXCEPT ![h] = [arr |-> Len(heap) + 1, len |-> Len(new)]]
  /\ Advance(h, changed[h])
  /\ UNCHANGED <<up, readOnly, cfg, file, inUse, engine, snap, job,
                 requests, crashes, own, alone, saved>>

AssignPrinters(h) ==
  /\ At(h, "assign")
  /\ cfg' = [cfg EXCEPT !.printers = buf[h]]
  /\ own' = [p \in Printer |-> own[p] \cup {Override(Deref(buf[h]), p)}]
  /\ buf' = [buf EXCEPT ![h] = Nil]
  /\ Advance(h, changed[h])
  /\ UNCHANGED <<up, readOnly, heap, file, inUse, engine, snap, job,
                 requests, crashes, alone, saved>>

\* printers DELETE and printersDefault.
AssignDefault(h) ==
  /\ \/ At(h, "default") /\ cfg' = [cfg EXCEPT !.default = req[h].name]
     \/ /\ At(h, "undefault")
        /\ cfg' = [cfg EXCEPT !.default = IF @ = req[h].name THEN None ELSE @]
  /\ Advance(h, changed[h])
  /\ Elsewhere

\* Slip: a URL assigned by config does not count as a change of connection.
AssignURL_Quiet(h) ==
  /\ At(h, "url")
  /\ LET url == IF req[h].op = "unregister" THEN None ELSE req[h].url
     IN  /\ cfg' = [cfg EXCEPT !.url = IF url = Absent THEN @ ELSE url]
         /\ Advance(h, changed[h])
  /\ Elsewhere

\* config and register assign the URL the body has, unregister "".
AssignURL(h) ==
  /\ At(h, "url")
  /\ LET url == IF req[h].op = "unregister" THEN None ELSE req[h].url
     IN  /\ cfg' = [cfg EXCEPT !.url = IF url = Absent THEN @ ELSE url]
         /\ Advance(h, changed[h] \/ cfg'.url # cfg.url)
  /\ Elsewhere

\* register needs a URL, the one of the body or the one there was.
CheckURL(h) ==
  /\ At(h, "check")
  /\ IF cfg.url = None
     THEN Refuse(h)
     ELSE Advance(h, changed[h])
  /\ UNCHANGED <<up, readOnly, cfg, heap, file, inUse, engine, buf, snap, job,
                 requests, crashes, own, alone, saved>>

AssignToken(h) ==
  /\ At(h, "token")
  /\ LET token == IF req[h].op = "unregister" THEN None ELSE req[h].token
     IN  /\ cfg' = [cfg EXCEPT !.token = IF token = Absent THEN @ ELSE token]
         /\ Advance(h, changed[h] \/ cfg'.token # cfg.token)
  /\ Elsewhere

AssignFeed(h) ==
  /\ At(h, "feed")
  /\ cfg' = [cfg EXCEPT !.feed = IF req[h].feed = Absent THEN @
                                 ELSE clamp(req[h].feed)]
  /\ Advance(h, changed[h])
  /\ Elsewhere

-----------------------------------------------------------------------------
(* SaveConfig and ApplyTuning, from persist, config, register, unregister. *)

\* A copy of cfg is marshalled and the file truncated; or it does not open.
SaveOpen(h) ==
  /\ At(h, "save")
  /\ \/ /\ snap' = [snap EXCEPT ![h] = Value(cfg)]
        /\ file' = Empty
        /\ Advance(h, changed[h])
        /\ UNCHANGED saved
     \/ /\ SaveFails
        /\ Refuse(h) /\ saved' = FALSE
        /\ UNCHANGED <<snap, file>>
  /\ UNCHANGED <<up, readOnly, cfg, heap, inUse, engine, buf, job, requests,
                 crashes, own, alone>>

\* The write.  A file that is not empty was written by another handler since
\* this one truncated it: the longer of the two leaves its tail.
SaveWrite(h) ==
  /\ At(h, "write")
  /\ \/ /\ file' \in IF file \in {Empty, snap[h]} THEN {snap[h]}
                     ELSE {snap[h], Garbled}
        /\ Advance(h, changed[h])
        /\ UNCHANGED saved
     \/ /\ SaveFails
        /\ Refuse(h) /\ saved' = FALSE
        /\ UNCHANGED file
  /\ snap' = [snap EXCEPT ![h] = Absent]
  /\ UNCHANGED <<up, readOnly, cfg, heap, inUse, engine, buf, job, requests,
                 crashes, own, alone>>

\* ApplyTuning copies cfg; SetTuning, SetPageMargin and SetPageMode install a
\* resolver over the copy, here in one step ...
ApplyTuning(h) ==
  /\ At(h, "tuning")
  /\ tuning' = [feed |-> cfg.feed, list |-> cfg.printers]
  /\ snap' = [snap EXCEPT ![h] = Value(cfg)]
  /\ Advance(h, changed[h])
  /\ UNCHANGED <<up, readOnly, cfg, heap, file, inUse, roles, buf, job,
                 requests, crashes, own, alone, saved>>

\* ... and Roles.Update copies its printers.
UpdateRoles(h) ==
  /\ At(h, "roles")
  /\ roles' = [printers |-> snap[h].printers, default |-> snap[h].default]
  /\ snap' = [snap EXCEPT ![h] = Absent]
  /\ Advance(h, changed[h])
  /\ UNCHANGED <<up, readOnly, cfg, heap, file, inUse, tuning, buf, job,
                 requests, crashes, own, alone, saved>>

-----------------------------------------------------------------------------
(* A job: PrintWithProfile takes the resolver, then Config.PrinterTuning   *)
(* goes through the slice it captured.                                     *)

TakeTuning(p) ==
  /\ up /\ job = NoJob
  /\ job' = [printer |-> p, list |-> tuning.list, i |-> 1, found |-> -1]
  /\ UNCHANGED <<up, readOnly, cfg, heap, file, inUse, engine, handlers, exiting,
                 requests, crashes, own, alone, saved>>

LookAtPrinter ==
  /\ up /\ job # NoJob /\ job.found = -1
  /\ IF job.i > job.list.len
     THEN job' = [job EXCEPT !.found = 0]
     ELSE LET mp == heap[job.list.arr][job.i]
          IN  job' = IF mp.name = job.printer
                     THEN [job EXCEPT !.found = mp.feed]
                     ELSE [job EXCEPT !.i = @ + 1]
  /\ UNCHANGED <<up, readOnly, cfg, heap, file, inUse, engine, handlers, exiting,
                 requests, crashes, own, alone, saved>>

JobDone ==
  /\ up /\ job.found # -1
  /\ job' = NoJob
  /\ UNCHANGED <<up, readOnly, cfg, heap, file, inUse, engine, handlers, exiting,
                 requests, crashes, own, alone, saved>>

-----------------------------------------------------------------------------
(* The process.                                                            *)

\* os.Exit, 700 ms after the answer, or a crash: handlers and jobs stop where
\* they are.
Exit ==
  /\ up
  /\ \/ exiting /\ UNCHANGED crashes
     \/ crashes < MaxCrashes /\ crashes' = crashes + 1
  /\ up' = FALSE
  /\ req' = [h \in Handler |-> Absent]
  /\ at' = [h \in Handler |-> 0]
  /\ changed' = [h \in Handler |-> FALSE]
  /\ buf' = [h \in Handler |-> Nil]
  /\ snap' = [h \in Handler |-> Absent]
  /\ exiting' = FALSE /\ job' = NoJob
  /\ UNCHANGED <<readOnly, cfg, heap, file, inUse, engine, requests, own, alone, saved>>

\* The next process: Load, Build, and the panel's copy of the configuration.  A
\* file that does not parse ends it at once.
Start ==
  /\ ~up /\ file # Garbled
  /\ LET c == Load(file)
         list == [arr |-> 1, len |-> Len(c.printers)]
     IN  /\ heap' = <<c.printers>>
         /\ cfg' = [c EXCEPT !.printers = list]
         /\ inUse' = Conn(c)
         /\ tuning' = [feed |-> c.feed, list |-> list]
         /\ roles' = [printers |-> c.printers, default |-> c.default]
         /\ own' = [p \in Printer |-> {Override(c.printers, p)}]
  /\ up' = TRUE /\ alone' = TRUE /\ saved' = TRUE
  /\ UNCHANGED <<readOnly, file, handlers, exiting, job, requests, crashes>>

-----------------------------------------------------------------------------
Step(h) ==
  \/ ReadPrinters(h) \/ AssignPrinters(h) \/ AssignDefault(h)
  \/ AssignURL(h) \/ CheckURL(h) \/ AssignToken(h) \/ AssignFeed(h)
  \/ SaveOpen(h) \/ SaveWrite(h) \/ ApplyTuning(h) \/ UpdateRoles(h)

Next ==
  \/ \E h \in Handler : Step(h) \/ \E r \in Requests : Begin(h, r)
  \/ \E p \in Printer : TakeTuning(p)
  \/ LookAtPrinter \/ JobDone
  \/ Exit \/ Start

\* A handler's statements return, the goroutine of applyConnectionChange wakes,
\* and the service manager starts the process again.
Spec ==
  /\ Init /\ [][Next]_vars
  /\ \A h \in Handler : WF_vars(Step(h))
  /\ WF_vars(Exit /\ exiting) /\ WF_vars(Start)

-----------------------------------------------------------------------------
(* Properties.                                                             *)

List == [arr : Nat, len : Nat]

TypeOK ==
  /\ up \in BOOLEAN /\ readOnly \in BOOLEAN
  /\ heap \in Seq(Seq(Managed))
  /\ cfg.printers \in List /\ Value(cfg) \in Saved
  /\ file \in Saved \cup {Empty, Garbled}
  /\ inUse \in [url : URL \cup {None}, token : Token \cup {None}]
  /\ tuning \in [feed : 0..MaxFeed, list : List]
  /\ roles \in [printers : Seq(Managed), default : Printer \cup {None}]
  /\ req \in [Handler -> Requests \cup {[r EXCEPT !.url = Absent] :
                           r \in {q \in Requests : q.op = "config"}} \cup {Absent}]
  /\ at \in [Handler -> 0..7] /\ changed \in [Handler -> BOOLEAN]
  /\ buf \in [Handler -> List] /\ snap \in [Handler -> Saved \cup {Absent}]
  /\ exiting \in BOOLEAN
  /\ job \in [printer : Printer \cup {None}, list : List, i : Nat,
              found : {-1} \cup (0..MaxFeed)]
  /\ own \in [Printer -> SUBSET (0..MaxFeed)] /\ alone \in BOOLEAN
  /\ saved \in BOOLEAN

\* A job is cut with a calibration its own printer had, also while the panel
\* changes or removes printers: it never misses its printer in the list, nor
\* takes the settings of another one ("podia hacerle ver a un trabajo la
\* configuracion de otra impresora", upsertManaged).
JobUsesOwnSetting == job.found # -1 => job.found \in own[job.printer]

\* When no request is in progress, none failed and no two overlapped, the file,
\* the panel and the engine hold one configuration: no handler forgets to save,
\* to apply, or does so before its last assignment.
SettledAgrees ==
  up /\ alone /\ saved /\ (\A h \in Handler : at[h] = 0)
    => /\ Load(file) = Value(cfg)
       /\ tuning = [feed |-> cfg.feed, list |-> cfg.printers]
       /\ roles = [printers |-> Value(cfg).printers, default |-> cfg.default]

\* Again and again the process connects with what the file says: a change of
\* connection that reaches the file is followed by a restart, unless a save
\* failed before.
ConnInUse ==
  []<>(saved => file \in {Empty, Garbled} \/ inUse = Conn(file))

=============================================================================
