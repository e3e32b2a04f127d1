# Verification of tera-agent

TLA+ models of the printing agent in this repository, the TLC runs that check them and
the theorems that TLAPS proves about them. `PROJECT.json` maps every definition to the
lines it stands for.

## 1. The system

`tera-agent` runs on a shop's computer. It keeps one WebSocket session with the ERP
Backend, receives print jobs, turns them into what the printer understands, hands them
to the operating system's spooler and reports the result. A local web panel configures
it; without a Backend it serves a small HTTP print API instead.

| Component | State it keeps | Operations | Talks to |
|---|---|---|---|
| Lifecycle (`app/lifecycle`, `domain/agent/state.go`, `app/dispatcher`) | FSM state, backoff, the job in hand | Run, runOnce, authenticate, register, flushPending, serve, handleJob, emitResult | transport, store, dispatcher, profile cache |
| Job store (`adapters/store`) | processed ids with a second each, buffered results, `jobs.json` | Seen, MarkDone, AddPending, TakePending, load, persist, prune | the file |
| WebSocket transport | connection, inbox channel (32), done channel, write mutex | Connect, readPump, Send, Receive, Close | the network |
| Panel (`adapters/ui/server.go`) | one `Config` struct shared by all HTTP handlers | manage, remove, default, config, register, unregister | config file, engine, role resolver, process restart |
| Config file (`adapters/config/file.go`) | the YAML file | Load, Save | panel, next process |
| Print path (`app/print`, `adapters/printing/...`) | profiles, roles, tuning and page-mode resolvers | Handle, Resolve, Render, Encode, Send | profile cache, drivers |
| ESC/POS encoders (`encoder/escpos`) | none | Raster.Encode, Text.Encode | the receipt printer |
| Raster container (`encoder/raster`), binarizer (`binarizer`) | none | MultiPNG.Encode, DecodeMultiPNG; Otsu.Binarize | engine, GDI driver |
| GDI raster preparation (`driver/gdi/raster_prep.go`, `fit.go`) | none | drawPage: scale, reduce, pack, place | Windows |
| HTTP print service (`adapters/api/httpapi`) | a mutex | POST /print | engine |
| Self update (`app/update`, `adapters/update`) | last status | Check, Apply | nothing in the program calls it |
| Rotating log (`adapters/logger/rotate.go`) | open file, its size | Write, rotate | file system |
| Process control (`cmd/tera-agent`) | the process, the service's state, the panel's port | run, ui, Execute, restartSelf, register, service stop and start, setup-data | service manager, config file, panel |

What is hard here, and what makes each part correct:

- *Lifecycle with store and transport.* The link breaks at any moment and the first
  writes on a broken link still succeed; the Backend delivers at least once; the process
  is killed by power, by the service manager, or by `restartSelf`, which calls `os.Exit`
  under a running job. Correct means: a job on record is not printed again, a result is
  not lost nor overtaken by an older one, the displayed state is the state of the
  session, and every job is answered in the end.
- *Store.* The window of processed ids is ordered by whole seconds, and every file error
  is swallowed. Correct means: recent ids are remembered, restarts included.
- *Transport.* Two goroutines, a bounded channel, a mutex and a Close that takes no lock.
  Correct means: frames in order without gaps, no goroutine left behind, no Send stuck
  behind a full inbox.
- *Panel.* Handlers run concurrently over one struct without a lock while jobs print with
  resolvers that captured an older copy, and a change of connection ends the process 700
  ms later. Correct means: a job never sees another printer's calibration, file, panel
  and engine agree, and a connection that was saved comes into use.
- *Print path and drivers.* Three goroutines print, each taking role, profile, page mode,
  calibration and margin from a different place at a different moment, while the panel and
  the Backend change them. Correct means: the stages of a pipeline fit, a page always has a
  way to paper, no setting is older than the panel's last answer, profiles of the Backend
  survive local actions, and a document that is retried is in the queue once or not at all, as
  far as Windows does what `EndDoc` and `AbortDoc` ask.
- *Encoders and raster preparation.* Sequential, but full of boundaries: bands of 128 rows,
  feeds of more than one byte, lengths in a container, rows padded to four bytes, ranges of
  truncated divisions. Correct means: what the device makes of the bytes is the page.
- *Rotating log.* Every file error is ignored and the process may end between two renames.
  Correct means: what is on disk is in order, and complete while nothing failed.
- *Process control.* The service manager, the panel's restart, a crash and a console command
  each start or stop the process, and none of them sees the others; under the SCM a service
  counts as stopped before its process is gone. Correct means: no second agent but beside one
  that is leaving, an agent that ended unasked comes back, and a registration that was
  reported as applied is in use.

`PROJECT.json` lists the hazards one by one with the line where each bites and the
properties that cover it, or why none does yet.

## 2. Modules

```
AgentState     the FSM of domain/agent/state.go
JobStore       the job store: operators and the actions on its variables
  DedupeWindow     the store alone, under a clock and restarts   (MCDedupeWindow)
    Storage_proofs     the store under the clock, the log file, and all of Devices
  JobStore_proofs  type lemmas about the store's operations
Lifecycle      session + store + link + Backend + process        (MCLifecycle)
  Lifecycle_proofs
  ProtocolClaims   what docs/protocol says and the code does not keep
JobDelivery    abstract: what the agent promises about a job
FrameLink      abstract: an ordered link that may end
Transport      read pump, inbox, Send, Close; implements FrameLink
  Transport_proofs
Panel          the panel's handlers, config file, engine copies, restart (MCPanel)
  Panel_proofs
Pipeline       pure: roles, profiles, normalisation, resolver
  PrintPath        prints of session, panel and tray, GDI's retries (MCPrintPath)
    PrintPath_proofs
    PrintClaims      what comments say of the tray's test and the code does not keep
EscPos         pure: the ESC/POS encoders, and the printer that reads their bytes
Binarizer      pure: Otsu's threshold, the density's bias, packing
MultiPNG       pure: the container of the raster encoder
  GdiRaster        pure: drawPage (extends Binarizer)
    Devices          one call of any of these per step              (MCDevices)
LogRotate      the log file, run beside Devices
ServiceControl processes, service manager, console commands
  ServiceControl_proofs
SequenceFacts  lemmas on naturals and sequences that several proofs share
```

### Lifecycle
The agent is one goroutine, so `pc` names the statement it is about to execute; each
action is the code between two points where the world can change under it (a send, a
dispatch, a write of the store, a select). `Start..Backoff` are `Run`, `SendAuthenticate..
AuthTimeout` are `authenticate`, `Online, FlushSend, Rebuffer, FlushReturns` are
`flushPending`, `ContextDone, ConnectionClosed, Heartbeat, HandleOther, ReceiveJob,
DispatchOK, DispatchFails, Mark, EmitResult` are `serve` and `handleJob`. `Crash` may come
between any two steps. The store's variables are those of `JobStore`; `disk` is what
`jobs.json` holds. `link = "cut"` is a broken connection no write has failed on yet:
`SendOK` on it loses the frame, `SendErr` makes it `"dead"`.

The Backend, the network and the clock are external: the Backend authenticates or
refuses, sends a job without a result once per session, redelivers while the result is
missing, and holds the last result it read. Frames that change nothing here (hello,
capabilities, job_received, heartbeat, acks) are not carried, but their `Send` is kept,
since it may be the one that finds the link dead. `prints` and `lapses` are history
variables: how often the driver reported a job as printed, or failed with it on paper (what
the drivers make of a job is `PrintPath`'s matter), and how often a print was left, or became,
unrecorded (a crash before `MarkDone`, a failed write, a pruned id, a file that was not
read, a driver that reported failure after paper came out).

### JobStore and DedupeWindow
Operators translate the methods one by one. `persist` may fail as a whole if `FileFails`
(the code writes a temporary file and renames it, so the old file stays); `load` may find
nothing readable. `prune` is nondeterministic among ids of the same second, as
`sort.Slice` is. `DedupeWindow` drives the store with a clock in seconds; `PerSecond`
bounds how many jobs one second can record, `since` holds the jobs recorded after one. The
clock may be set back only if `StepsBack`: then the job recorded last can be the one `prune`
forgets.

### Transport
`pump` is where the read pump is, `inbox` the channel, `sender` a caller inside `Send`
with the mutex held, `closer` a caller of `Close`. TCP buffers are the bounded sequences
`inNet` and `outNet`; the peer may send, read and end the connection.

### Panel
`cfg` is `Server.d.Cfg`. A handler is a sequence of statements (`Steps`); another handler
may run between any two. `Printers` is a slice: a reference into `heap` and a length,
because the resolvers installed in the engine keep the array. `SaveOpen`/`SaveWrite` are
the truncation and the write of `os.WriteFile`. A job takes the resolver (`TakeTuning`)
and then walks the slice it captured (`LookAtPrinter`) while handlers go on. `Exit` is
`restartSelf` or a crash, `Start` the next process. One calibration field (the cut feed)
stands for all of them; a struct copy is one step, so torn copies are not modelled.
`ApplyTuning` copies the struct and installs the calibration in one step and the roles in a
second, so in the model it is the roles that an overlap leaves old; in the code the
calibration, the margin and the page mode, installed from the same copy, can be left so too.

### Pipeline and PrintPath
`Pipeline` holds the pure functions under their names in the code: `RoleResolve`,
`NormalizeForGDIRaster`, `NormalizeForWindows`, `EffectivePageMode`, the components in the
order `newEngine` registers them, and `Resolve`, which follows `resolver.Resolve` target
by target. DPI follows width everywhere and is left out; Copies reaches the engine and is
ignored there, so it is left out too.

`PrintPath` has a print per goroutine (`print["session"]`, `"panel"`, `"tray"`, and `"http"`
in a process without a Backend), each at a step `at`: `ResolveRole` and `ReadProfile`
take what the session's frames left, `Prepare` reads the page mode and composes the pipeline,
`Encode` reads the calibration, `SendRaw`, `SendCups` and `SendVector` are the spooler, `lp`
and pdftocairo, and `SendPages, OpenDoc, DrawPage` are the GDI driver with its retries at
falling scales. `EndDoc` and `AbortDoc` may fail, and as in the code nobody notices: `docs`
counts the documents in the queue, `doc.lost` those that were not ended, `doc.left` those that
were not taken back (`MaxLeft` bounds them). `SendRaw` may likewise succeed with nothing in
the queue, since `EndDocPrinter` is deferred and its result dropped. `conf` keeps every configuration the panel has had,
so a setting installed in the engine is a number in `conf`, and `used` records which
setting a print took from which configuration. `Apply` installs one setting per step, in
the order of `ApplyTuning`. The platform is any of Linux/macOS and Windows with or without
pdftocairo and a UTF-8 code page, each with a Backend and without one (`os.local`).

### Devices: EscPos, Binarizer, MultiPNG, GdiRaster
Each conversion of these packages is an operator under the code's name, over bitmaps and
gray or coloured pages given pixel by pixel. `Devices` makes one call per step and keeps its
arguments and its result in `work`; the invariants read the result as a device does:
`Printed` is a printer that obeys the ESC/POS commands one after the other, `ReadDIB` is
Windows taking a pixel out of a device independent bitmap, `Spread` is the textbook form of
the variance that Otsu's loop maximises, `Box` is the set of pixels `downscale` averages,
`Sheet` is where a page belongs on the paper. `otsuThreshold`
returns a set where the code compares floating point numbers that are equal in exact
arithmetic. `firstDIBCap` and the number of units in an inch are constants, so that a page
of fifty bytes meets what a page of 8 MiB meets. The bytes of one PNG are opaque. The decoder's
loop is the recursive function in `Taken`, one turn of it `TakePage`; the loops that sum up pixels
are `SumOver`, without the 32 bits of the code's counters, which 16 million pixels averaged into one would
overflow. What Otsu's loop adds up over the histogram is `Tally`, over the pixels themselves:
`Weight` and `Total` are the `wB`, `wF` and the sums of one split, which the code carries from one split
to the next.

### LogRotate
`step` is the file operation `rotate` is about to make: close, remove, the renames one by
one, open, and the write that caused it. Every one may fail, as the code ignores the error,
and `Relaunch` may come between any two. It shares the run of `Devices`, each while the
other stands where it began.

### ServiceControl
`how` is the way the installer set the agent up: `scm` (`run --scope service` under the
Windows SCM), `systemd` (`ui --config` under systemd), `ui` and `tray` (in a user's session).
Each slot of `proc` is a process: `booting` (prepareForRun and `di.Build`, which read the
file once, into `loaded`), `serving`, `leaving` (Execute has returned; the goroutine of the
run loop goes on printing, or begins a print, until `main` ends), `exiting` (inside
`restartSelf`). Under the SCM the service is stopped as soon as Execute returns, under systemd
only when the process has ended. `service`, `due` and `asked` belong to the service manager, which is
external: the state it reports, whether it owes a start after an exit nobody asked for
(`recoveryActions`, `Restart=always`), and a history of whether the last exit was asked for.
`command` is a console command with its next step: `register` reads the file, asks, saves,
stops the service and waits (`stopAndWait`, which may time out), starts it, reports; `stop`
and `start` are the subcommands of `service`. `PanelSaves` is any handler of `Panel` that
writes the file; here only the number of the write matters. One assumption on the manager
goes beyond what the code shows: it also recovers a service whose process refused to run
before it reported to the SCM.

## 3. Runs

| Run | Question | Bounds |
|---|---|---|
| `session` | safety of sessions, store and results; every step is a step of `JobDelivery` | 2 jobs (symmetric), store of 1 id, 2 faults, 1 redelivery or other frame |
| `session_live` | every job answered, buffered results leave | 1 job, 3 faults, a file that fails |
| `window` | how long an id is remembered | 5 jobs, window of 3, 2 per second, 6 seconds |
| `transport` | order, completeness, end of the pump, progress of Send; implements `FrameLink` | inbox of 2, 4 frames, output buffer of 1 |
| `panel` | calibration of a job, agreement, connection in use | 2 handlers, 2 requests, 3 printers, 1 crash, saves that fail |
| `print_path` | a print from role to paper against profiles that arrive and settings that are saved | 2 printers, 5 platforms with or without a Backend, 4 kinds of frame of which 2 arrive, 1 save, 1 print |
| `devices` | what a device makes of receipts, gray pages, containers and GDI pages; the log file through rotations | see below |
| `process` | processes under the SCM, systemd or a user against restarts, crashes, recovery and the console | 3 processes, 2 writes of the file, 2 faults, 2 commands, 1 job |
| `exactly_once` | violated: a crash before `MarkDone` reprints | as `session`, 1 job |
| `one_verdict` | violated: a redelivery after a failure runs again | 1 job |
| `tray_test` | violated: the tray tests with the kind the process loaded | as `print_path` |
| `stop_holds` | violated: a successor serves while the process that leaves still prints | 2 processes, 1 command, 1 job |

Why the bounds suffice. Two jobs and a store of one id make the second record prune the
first, so "forgotten" happens; two faults let a break and a crash, or a break during the
flush of what a first break buffered, combine; one redelivery meets a job in every phase.
The window run lets a whole second of ties sit at the edge of the window. An inbox of two
is full with frames still to read. Two handlers are what an overlap takes, three printers
are what in-place compaction needs to shift one printer onto another. In `print_path` one
print at a time is enough: prints of different goroutines share only settings and
profiles, which no print writes. The one save changes the kind, the mode, the enabled
printers and the default at once; a sync, and updates with an empty, a raster and a
mixed list of formats, cover what `mapProfile` and the normaliser distinguish; a page of
8 MiB beside one of 100 KiB is refused down to the floor or accepted on the way there. Two
documents that `AbortDoc` leaves in the queue (`MaxLeft`) are one more than the document of the
verdict, so a count that is off shows.

In `devices` the receipts have 0 to 40 blank rows before the first ink and gaps of 125 to
300 rows after it, so that they end before, at and after a band of 128 rows and at a second one, beside
pages that are blank, empty, a pair, or wider than 2048 dots; the feeds run from unset
over 255, 256 and 510 to the cap of 2000 and past it; the margins lie around the 16 rows kept.
The gray pages are all pages of four pixels over five grays, in which plateaus, ties, one
colour and every density occur, and rows of ten, which end inside a byte. Containers are
cut at every length. GDI pages are gray and coloured, narrower and wider than the sheet,
and reduced at up to three falling levels; four geometries have unequal margins, unequal
resolutions, no sheet, and a sheet smaller than its printable area. The log holds lines of
one and two units in files of three with no backup or three, and eleven lines, so all
backups are replaced; two calls fail or processes end. In `process` three slots are what a process, its
successor and a third take; two writes let a panel's save fall between the steps of
`register`; two faults let a crash meet a wait that timed out.

Deadlock is checked where the system never stops. It is not in `transport` (a closed
connection with everything read is the end), in `panel` (a file that two handlers garbled
does not parse, the process does not come up and nothing answers), in `print_path`
(requests and frames are bounded), in `devices` (the log's lines are bounded), nor in
`process` and `stop_holds` (with the bounds spent nothing has to happen any more); `tray_test`
is as `print_path`.

Fairness. `session_live`: the agent's goroutine runs and the service manager restarts the
process (weak fairness of `AgentStep`); the Backend reads what arrives and offers each job
without a result in each session. No fault, heartbeat, redelivery or success of a write on
a broken link is assumed. `transport`: the goroutines run, and the peer reads or the
connection ends; the code sets no write deadline, so without the latter a `Send` may
block for ever. `panel`: handlers return, the goroutine of `applyConnectionChange` wakes,
the process is started again. `process`: a process that runs gets on with what it has
begun, and the service manager makes the start it owes; nobody has to print, to save or to
type a command.

What the properties say:

- `ReprintOnlyAfterLapse`, `PrintAccount`: a job reaches paper at most once more than its
  record lapsed. `PrintAccount` is the inductive form.
- `CompletedWasPrinted`: no `job_completed` on the wire, in the buffer, in the file or at
  the Backend for a job that no driver reported as printed.
- `NoFailureAfterCompletion`: results keep their order through buffer, file and reconnections.
- `BufferOnlyWhenDead`: during a session something is buffered only when its connection
  refuses every write, which is why results are not overtaken.
- `StateMatchesPhase`: no `setState` the session relies on is refused by the FSM.
- `EveryJobAnswered`, `BufferDrains`: liveness of jobs and of buffered results.
- `RecentSeen`, `WindowBounded`, `RestartKeepsAll`: the dedup window.
- `ImplementsLink`, `PumpEnds`, `SendReturns`: the transport.
- `JobUsesOwnSetting`, `SettledAgrees`, `ConnInUse`: the panel.
- `BackendProfileKept`: the cache holds what the last frames said, whatever is printed locally.
- `StagesFit`, `PagesArePrintable`, `PageModeObeyed`, `RoleObeyed`: every pipeline is
  coherent, a page printer on Windows always has one for pages, the vector driver is used
  only where the mode of the moment allows it, a role gets a printer turned on for it.
- `SettingsAreFresh`: a print begun after the panel answered uses that answer.
- `GdiPaperMatchesVerdict`: a document is in the queue once if its print succeeded and not at
  all if it failed, after any number of attempts, but for exactly the documents whose `EndDoc`
  or `AbortDoc` failed; one document has one margin.
- `GivesUpAtFloor`: the driver stops at its floor, before it runs out of attempts.
- `ReceiptOnPaper`: on the paper stands every row of every page, only the blank rows the
  code means to leave out are missing, one cut with its whole feed below the last row, one
  kick of the drawer.
- `InkFromPaper`: a page of two grays keeps ink and paper apart at the normal density, at
  the split Otsu's method defines; density is monotone; the packed bits are those pixels.
- `ContainerWholeOrRefused`: the driver gets the pages that were packed, or nothing.
- `DrawsWholePage`: the reduction uses every pixel once, the bitmap Windows reads is the
  page the right way up, placed inside the sheet, centred, as large as it can be, in
  proportion.
- `LogKeepsNewest`: the order of the log, its completeness while no call fails.
- `OneAgent`: under a service manager a second process is alive only beside one that has
  reported its stop to the SCM and is leaving. That one may still print (`stop_holds`), so it
  does not say that one process at a time has the printers.
- `RegisterTakesEffect`: `register` starts only what is stopped, and once it reports success
  nobody serves on the file of before.
- `AgentComesBack`: an agent that ended unasked is followed by one that runs.

Every property of a passing run has a mutant: an operator marked *Slip* or *Mutant* beside
the definition it replaces, a plausible mistake under which TLC finds the property violated.

### Disagreements with the docs
Four runs show where the code does not do what a doc or comment says:

- `exactly_once`: the effect is not exactly-once (`jobs.md:101`).
- `one_verdict`: a job can get two verdicts (`jobs.md:22`).
- `tray_test`: the tray's test does not behave like the panel's after a kind changed
  (`server.go:350`).
- `stop_holds`: a service is not "parado de verdad" when it says so (`service_windows.go:48`):
  the process that leaves still has the printers and `jobs.json` when its successor serves, and
  the two fight over them as `main.go:380-382` says they must not.

Met while modelling, and not runs of their own:

- `service_windows.go:99`: the process that leaves does not finish its jobs, as line 43 says; it
  ends with one half way to paper.
- `gdi_windows.go:239-241`, `spooler_windows.go:103`: the results of `EndDoc`, `AbortDoc` and
  `EndDocPrinter` are dropped. Where the first or the last fails, "print job submitted" is logged and
  `job_completed` sent with nothing in the queue; where the second fails, an attempt that
  failed may use paper after all (`gdi_windows.go:157` says it does not).
  `GdiPaperMatchesVerdict` is exact about which documents these are.
- `filestore.go:53`: with a full store and a clock that was set back, the id that `MarkDone` has
  just recorded is the one `prune` drops, and its redelivery prints again; `window` and its
  theorems assume a clock that is not set back.
- `server.go:431`: when two requests overlap, the one with the older copy may install it last, and
  the engine keeps it until the next change; `server.go:422` says that changes take effect
  immediately. `SettledAgrees` is about requests that do not overlap.
- `server.go:598,626`: a change of the connection, an unregistration included, whose own save
  failed is written by the next request that saves anything, and nothing reconnects, though
  `server.go:553` says one must; `ConnInUse` excuses it.
- `lifecycle.go:93`: the backoff is not reset on CONNECTED, as `websocket.md:101` says.
- `server.go:564`: an empty URL in the form still unlinks the machine.
- `server.go:412-415` says a width of 0 keeps a PDF's own page size; in image mode
  `NormalizeForGDIRaster` raises it to 4960.
- `docs/CORTE.md:58` gives a feed of at most 255, the code chains feeds up to 2000;
  `docs/CORTE.md:44` says the settings apply after a restart, they apply at once.
- `otsu.go:28,85`: the bias of density 5 inks a whole page whose lightest mark is 176 or
  more (density 4: 216), since the level saturates at 255; between two equal optima with others
  between them, the midpoint taken is neither.
- `gdi`'s `initialScale` says the first attempt stays below `firstDIBCap`; the padding of
  the rows is not counted (4960 by 13600 in black and white is 8,409,680 bytes of 8,388,608).
- A first page of a receipt that is blank altogether leaves the second its whole top margin.
- `filestore.go:70`: when `TakePending` cannot write the file, a crash after the flush sends the old
  results again; a `job_failed` may then follow the `job_completed` of a later delivery.
  `NoFailureAfterCompletion` holds while the file can be written, and `session` assumes that.
- `rotate.go:92`: while the reopen fails, every line rotates again and moves the backups on.
- `scope.go:172-212`: what the panel saves between the load and the save of `register` is
  lost, and a panel that saves between `register`'s save and its stop writes the old token
  back; `RegisterTakesEffect` is about which write of the file a process read, not about its content.
- A run loop that returns by itself leaves the service running without an agent.
- In a user's session the process `restartSelf` starts may find the panel's port still held and
  end, and two changes of the connection within 700 ms start two processes; `OneAgent` and
  `OneHolder` are stated for a service manager. Under the SCM the successor may meet the same port and runs
  without a panel. `ui` started by hand inside a systemd user session inherits
  `INVOCATION_ID`, takes itself for a service, and is not started again.

## 4. Proofs

| Theorem | For every |
|---|---|
| `TypeCorrect`, `PrintsAreAccounted`, `NeverReprintKnownJob`, `MachineFollowsSession` (`Lifecycle_proofs`) | set of jobs, size of the window, clock, number of faults, file that fails or not |
| `WindowTypeCorrect`, `RecentIsRemembered`, `MarkedIsRemembered`, `RestartLosesNothing` (`Storage_proofs`) | set of jobs, window and jobs per second |
| `WindowStaysBounded` (`Storage_proofs`) | the same, and every clock and failure of the file |
| `PutType` .. `LoadType` (`JobStore_proofs`) | store |
| `BufferedOnlyWhenDead`, `CompletedMeansPrinted` (`Lifecycle_proofs`) | as the first row |
| `NoFailureFollows`, `PromiseKept` (`Lifecycle_proofs`) | the same, with a file that does not fail |
| `PanelTypeCorrect`, `JobKeepsItsPrinter`, `RequestsSettle` (`Panel_proofs`) | set of handlers, printers, URLs and tokens, number of requests and crashes |
| `PrintTypeCorrect`, `FreshSettings`, `PipelineFits`, `ModeObeyed`, `PagesPrintable`, `RoleAlwaysObeyed`, `GdiPaper`, `BackendOwnsProfiles` (`PrintPath_proofs`) | set of printers, platform, number of frames, saves and prints, size of a page |
| `LogKeepsOrder` (`Storage_proofs`) | number of backups, size of the file, length of the lines, number of lines, failed calls and restarts |
| `ContainerSafe` (`Storage_proofs`) | number of pages and length of each that 32 bits count, place where the container is cut short |
| `PageIsWhole` (`Storage_proofs`) | page, number of rejections, geometry, margin, size of the first bitmap |
| `InkIsRight` (`Storage_proofs`) | picture of any size, density |
| `ReceiptIsRight` (`Storage_proofs`) | number of pages, height and width that two bytes count, text, feed and margin, drawer and cut |
| `GivesUp` (`PrintPath_proofs`) | the same, with a floor of 256 KiB or more and eight attempts or more |
| `TransportTypeCorrect`, `TransportIsLink` (`Transport_proofs`) | size of the inbox and of the buffer |
| `ProcessTypeCorrect`, `NeverTwoAgents`, `RegistrationIsInUse` (`ServiceControl_proofs`) | set of processes, number of writes, faults, commands and jobs |

*Lifecycle.* `TypeOK` is inductive with the type lemmas of the store. On top of it
`PrintAccount` is inductive: each `prints[j]` is covered by `lapses[j]` plus one if the
job is `Seen` or is the job `Mark` is about to record; it needs `JobInHand` (who may hold
`cur`) and that the job in hand is not `Seen`. `ReprintOnlyAfterLapse` follows from it.
`StateMatchesPhase` is inductive by itself over the edges of the FSM.

*Dedup window.* Under a clock that is not set back and a file that works, the invariant
relates the timestamps to the order of recording: an id recorded since another has a
timestamp at least as late. If a job is pruned, the `MaxDone` ids that stay are at least
as young, and at most `PerSecond - 1` of them can have been recorded before it within its
own second, which leaves `MaxDone - PerSecond + 1` recorded since. The assumptions
`~StepsBack` and `~FileFails` are in the statements: with either one the properties are
false, and the code does nothing against it.

*Results.* `Reported` strengthens `CompletedWasPrinted`: every place that can hold a result
(wire, frames at the Backend's end, buffer, file, the agent's hand, the Backend's verdict)
is `Honest` about the prints; a result moves only from one of these places to another, and
prints never decrease. `BufferOnlyWhenDead` needs `RebufferWhenDead`, that a flush gives
back what it took only when the write failed.

*The order of results, and the promise.* `NoFailureAfterCompletion` speaks of what the Backend
heard; what makes it true is the order of the results of a job everywhere they can wait.
`Ordered` says, of a job without a lapse, that no failure follows a completion within the
wire, the buffer or the hands of `flushPending`, nor from one of these to the next, nor after
what the Backend already holds. It is not inductive alone. A result emitted goes behind those in
the buffer only because of `BufferOnlyWhenDead`; what `TakePending` takes meets an empty hand
because of `Flushing`; a restart brings back what memory held because of `FileIsMemory`; and a
failure emitted now contradicts no earlier completion because of `FailsUnprinted`, which comes
from `RecordKept`: a job without a lapse that was printed is on record or about to be, so it is
not executed again. `FileIsMemory` is where the file must not fail, and it is the hypothesis
`~FileFails` of both theorems: when `TakePending` is not written the property is false (see
the disagreements). `PromiseKept` maps `DispatchOK` to `PutOnPaper`, `DispatchFails` with paper to
`SpoiledPrint`, `Mark` to `Record`, a crash before it to `LoseUnrecorded`, `Start` to `Reload`,
`HearResult` to `Complete` or `Fail`, and every other step to a stutter.

*Panel.* `TypeInv` says of every slice, in the panel, the engine, a job or a handler's hands, that its array
exists and is as long as the slice; it is inductive because arrays are only added, and the
result of `removeManaged`, a recursive function over the list, is typed by induction over the
list's length. `OwnInv` strengthens `JobUsesOwnSetting`: what the list of the panel and of the engine says
of a printer was said of it since the process started, and a job that is walking its list
has not passed its printer; it holds because no handler writes an array that someone may
hold. `SettledInv` strengthens `SettledAgrees` to the middle of a request: what does not agree is
what the one request under way still has to do, and `OrderOK` checks statement by statement, for each
handler, that what an assignment makes late is seen to before the handler ends.

*Print path.* `TypeOK` comes from the types `Resolve` and the steps of a print return. `SettingsInv` strengthens
`SettingsAreFresh`: no installed setting is older than the last answer, what `ApplyTuning` has
passed is the newest, and no print began after an answer it does not see. `StagesFit`,
`PageModeObeyed` and `PagesArePrintable` hold together as `PipelineInv`: `Resolve` walks the formats of a profile and its
components and returns only what fits, and a pipeline once composed changes no more.
`GdiPaperMatchesVerdict` follows from `PaperInv`, which counts the documents of one print by where it is,
together with those `EndDoc` lost and `AbortDoc` left; nothing is assumed of either call.
`GivesUpAtFloor` is arithmetic: a first attempt has at most 8 MiB, each rejection takes a factor of
0.64 off the bytes, and after eight of them less than 256 KiB is left. The
hypotheses `minDIB >= 256` and `MaxAttempts >= 8` are met by the code, which has 256 KiB and
twelve. `BackendProfileKept` compares the cache with a fold over all frames that came; the proof relates `LastOf` of a sequence
to that of its prefix.

*Window size.* `WindowBounded` is inductive with the bounds of `prune`; it assumes nothing of
the clock or the file.

*Log.* `LogInv` sees the files as a row, the newest first. Whatever fails, `InTime` holds: each file
is sorted and every line of an older file comes before those of a newer one; a step appends the next
line, drops a file, moves one up or leaves the row as it was, and none of them can turn that
round. The rest of `LogInv` is about a log no call of which has failed: `NoGap` (what came after a line that is
kept is kept, because only the oldest file goes), `Stacked` (the backups in use are the newest ones,
apart from the hole that a rotation moves down the row) and `LostOld` (the first line is gone only when
no place but the hole is free). The proof needs that no line is longer than the file may be
(`LogRotateAssumption`): a longer one would rotate an empty file.
The code does not check it; the file holds 1 MiB or more and a line is one log record. `OnDiskIs` then carries order and completeness over to
what `FlattenSeq` makes of the row.

*Container.* `DecodeIs` is the whole of it: of any data that starts as the container of some pages
does, as far as both go, the decoder makes those pages when the container is all there and refuses
otherwise; the three cases of `ContainerWholeOrRefused` are instances of it. `EncodeLayout` says where each
length and each page stand in what the encoder writes, from `FlattenLayout` in `SequenceFacts`; `TurnIs`
follows one turn of the decoder over such data, and an induction over the turns does the rest.
`DevicesAssumption` asks that an error is not a container and that the number of pages and their
lengths are below 2^32: the code casts them unchecked, and a PNG of 4 GiB would be given the wrong
length.

*GDI page.* `DrawnIsWhole` says of one call of `drawPage` what `DrawsWholePage` says of the state. Its three
parts are separate. The spans of an axis begin at rising pixels (`LoRises`), the first at 0 and the last
ends at the end, so every pixel is in one of them (`InOneSpan`, an induction over the spans), and
`NthIs` makes a rectangle of two; this needs that an attempt never enlarges a page (`ScaledSideIs`).
What Windows reads is found where `EvenLayout` says that rows of one length stand in the
bitmap: three bytes a pixel in colour (`ReadsColours`), one bit in black and white (`ReadsDots`), where the
level that was packed is the threshold itself since an Otsu threshold is a gray value
(`ThresholdIs`). The rectangle is arithmetic on truncated fractions (`Fills`, `Follows`,
`Proportions`). `DevicesAssumption` asks that a page has a pixel, as Go's PNG decoder does, that
colours are bytes, and that the printable area is not empty, which `renderDoc` checks before it draws;
nothing is asked of the sheet, its offset, the resolution or the margin.

*Binarizer.* The property measures a split by how far the pixels of a side are from their own mean,
the code by how far the means are apart. `VarianceIs` is the identity behind Otsu's method: with the
denominators multiplied out, the one plus the other is the same number for every split
of a picture, because the two sides have between them the pixels, the sum and the sum of squares of the
whole (`SidesAdd`, by induction over the pixels). So the split with most of the one has least of
the other (`SplitsAgree`, `TightestIsBest`). `ThresholdPlace` says where the midpoint of the plateau lies: not
darker than the first of the best splits, and below the next gray value after the last. It gives ink
and paper on every page of two grays, and the split itself where one is best. The arithmetic is
exact; what rounding may do to equal variances is the choice `otsuThreshold` has. `PackRowIs` says
which bits of a byte are set, also past the width.

*Receipts.* `Prints` says that a stream takes a printer from one paper to another, and streams are joined
with it (`PrintsOn`): `CmdInit`, the pages, the end. `BandsMeet` is the arithmetic of
`writeRaster`: no band is longer than 128 rows, each begins where the one before ended, the
last ends with the page; `BandsPrint` then follows the page band by band. `TrimmedIs` says that the
two functions that trim, the second called on what the first left, keep the rows between the
first ink less the margin and the last ink, and `PagesPrint` joins the pages by induction.
`ChainFeeds`, by induction over the dots, adds up the feeds of a cut. `sane` needs that a feed is never
0 (`FeedFits`) and that the header of a block counts its rows and bytes (`ObeyBlock`). The latter is why
`DevicesAssumption` asks that a row has less than 65536 bytes: the code casts the length unchecked;
a PDF comes as wide as its profile says, 576 dots for paper of 80 mm, but an image as wide as it is
(`renderer.go:56`), and one of half a million pixels a row would put the printer out of step. The options
may be any integers.

*Transport.* `LinkInv` has four parts: types, who holds the frame between wire and inbox, when
the connection counts as open, and that inbox, held frame and wire together are numbered
one after the other from the last frame received. With it each step of pump, session and
peer maps to a step of `FrameLink` or a stutter, for inboxes and buffers of every size.

*Process control.* `Exclusive` strengthens `OneAgent`: under a manager at most one process is
booting, serving, in `restartSelf` or, under systemd, leaving, and none of these while the
service is reported stopped. Every action that launches a process under a manager needs a
stopped service, and every action that makes it stopped takes the one process away or, where
Execute returns to the SCM, makes it a leaving one, of which the invariant says nothing. `Registering` strengthens `RegisterTakesEffect`: what the command
saved is at most the file's last write, a command that is about to start finds no stop under
way, and one that is done has only processes behind it that loaded its write or a later one.
The file's number never decreases and `Boot` reads the last one, so a process that boots
later cannot spoil it.

*Induction.* The library's induction theorems take a predicate as an operator, which no installed
prover instantiates. `SequenceFacts` states induction over a set instead (`EveryNatural`: a set of
naturals with 0 and closed under successor holds all), and `Distinct`, `FlattenSeq`, `LastOf`,
`removeManaged`, `Taken`, `SumOver`, `Tally`, `chain` and `Printed` are reasoned about with it.

*Only model-checked.* The liveness properties (`EveryJobAnswered`, `BufferDrains`, `PumpEnds`,
`SendReturns`, `ConnInUse`, `AgentComesBack`): liveness under fairness and ENABLED are out of the
proof system's reach. Every safety property of a passing run is a theorem.

## 5. Not modelled

- The rasterizer and the Poppler binaries: external programs and their files.
- Of the HTTP print service the parsing of requests and its other routes. Self update: only its own tests call it, and no applier exists.
- Discovery, guard, fsacl, apppath, agent info, the tray's menu, installing and removing the
  service: operating system queries, request checks and set-up without protocol state.
- The Atkinson and Threshold binarizers, which only tests reach; the file driver, which
  serves a command line option; the local transport, which drops every frame.
- Build tools, installer, mock server, the page of the panel.
- Of what is modelled: torn copies of the panel's struct (a data race), the state OFFLINE
  (declared, never entered), two processes over one `jobs.json`, a user's or under the SCM one
  that leaves and its successor (`ServiceControl` has the two processes, the store's modules have one).

## 6. Plan

Done: session, store, transport, panel, print path, encoders, container, binarizer, GDI
raster, log, process control; every safety property a passing run checks is a theorem. Left:

1. `Panel` composed with `ServiceControl`: the contents of the configuration file across
   `register`, instead of the number of its writes; the two hazards that no property covers
   (`server.go:259`, `scope.go:172`) are updates lost between two readers of one file or list.
