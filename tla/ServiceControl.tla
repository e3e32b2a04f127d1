---------------------------- MODULE ServiceControl ----------------------------
(***************************************************************************)
(* How the agent's process starts, stops and comes back (src/cmd/          *)
(* tera-agent): the four ways it is run, the panel that restarts it after  *)
(* a new connection, the console commands that register the machine and    *)
(* stop or start the service, and the service manager (external) that      *)
(* starts it again when it ends unasked.                                   *)
(*                                                                         *)
(* how: "scm" is `run --scope service` under the Service Control Manager   *)
(* of Windows, "systemd" is `ui --config` under systemd, "ui" and "tray"   *)
(* are `ui` and `run --tray` in the session of a user.                     *)
(***************************************************************************)
EXTENDS Integers, FiniteSets

CONSTANTS None,
          Process,   \* processes alive at a time
          MaxWrites, \* bound: how often the configuration file is written
          MaxFaults, \* bound: crashes, lost starts, waits that time out, ...
          MaxCommands, MaxJobs  \* bounds

ASSUME ServiceControlAssumption ==
  /\ None \notin Nat /\ IsFiniteSet(Process)
  /\ MaxWrites \in Nat /\ MaxFaults \in Nat /\ MaxCommands \in Nat /\ MaxJobs \in Nat

Managed(h) == h \in {"scm", "systemd"}

VARIABLES
  how,      \* the way of running, fixed by the installer
  secure,   \* whether only administrators may write to the data folder
  file,     \* config.yaml: the number of its last write, None before the first
  proc,     \* the processes
  service,  \* the state the service manager reports
  due,      \* the service manager owes a start
  asked,    \* history: the last agent of the manager to end was asked to
  command,  \* the console command: register, stop or start, and its next step
  faults, commands, jobs  \* the bounded counters

\* at: "free", "booting", "serving", "leaving" once it was asked to stop, "exiting"
\* inside restartSelf.  loaded: the write of the file it read.  loop: its run loop
\* has not returned.  panel: "bound" while it has the panel's port.  owed: goroutines
\* of applyConnectionChange about to restart it.  printing: a job is on its way to paper.
Newcomer(at, loaded, loop) ==
  [at |-> at, loaded |-> loaded, loop |-> loop, panel |-> "none", owed |-> 0, printing |-> FALSE]

Free == Newcomer("free", 0, FALSE)

Command(op, at, saved) == [op |-> op, at |-> at, saved |-> saved]

NoCommand == Command("none", "none", 0)

manager == <<service, due, asked>>
counters == <<faults, commands, jobs>>
vars == <<how, secure, file, proc, manager, command, counters>>

Alive   == {p \in Process : proc[p].at # "free"}
Serving == {p \in Process : proc[p].at = "serving"}
Written == IF file = None THEN 0 ELSE file

Init ==
  /\ how \in {"scm", "systemd", "ui", "tray"}
  /\ secure = FALSE
  /\ file \in IF how = "systemd" THEN {0} ELSE {None, 0}
  /\ proc = [p \in Process |-> Free]
  /\ service = "stopped" /\ due = FALSE /\ asked = TRUE
  /\ command = NoCommand
  /\ faults = 0 /\ commands = 0 /\ jobs = 0

Fault == faults < MaxFaults /\ faults' = faults + 1

\* EnsureDefault writes a configuration where there is none, and touches no other.
EnsureDefault == IF file = None THEN 0 ELSE file

------------------------------------------------------------------------------
(* Starting *)

\* A new process runs main.
Launched(ps, p) == [ps EXCEPT ![p] = Newcomer("booting", 0, FALSE)]

\* setup-data, which the installer runs before the service is there.
SetupData ==
  /\ file' = EnsureDefault
  /\ secure' = TRUE
  /\ UNCHANGED <<how, proc, manager, command, counters>>

\* The machine starts, or a user opens a session: the first process.
PowerOn ==
  /\ Alive = {} /\ service = "stopped" /\ ~due /\ command.at = "none"
  /\ \E p \in Process : proc' = Launched(proc, p)
  /\ service' = IF Managed(how) THEN "starting" ELSE service
  /\ UNCHANGED <<how, secure, file, due, asked, command, counters>>

\* The manager starts the process that ended unasked: recoveryActions, Restart=always.
Recover ==
  /\ due
  /\ due' = FALSE
  /\ IF service = "stopped"
     THEN /\ \E p \in Process \ Alive : proc' = Launched(proc, p)
          /\ service' = "starting"
     ELSE UNCHANGED <<proc, service>>
  /\ UNCHANGED <<how, secure, file, asked, command, counters>>

\* Mutant: only systemd starts again what ended with code zero.
EndsUnasked_CleanExit(p) ==
  /\ proc' = [proc EXCEPT ![p] = Free]
  /\ IF Managed(how)
     THEN service' = "stopped" /\ due' = (how = "systemd") /\ asked' = FALSE
     ELSE UNCHANGED manager

\* A process ends without the manager having asked it to.
EndsUnasked(p) ==
  /\ proc' = [proc EXCEPT ![p] = Free]
  /\ IF Managed(how)
     THEN service' = "stopped" /\ due' = TRUE /\ asked' = FALSE
     ELSE UNCHANGED manager

\* prepareForRun refuses a service whose folder others may write to.
Refused == how = "scm" /\ ~secure

\* prepareForRun and di.Build: the configuration is read once, here.
Boot(p) ==
  /\ proc[p].at = "booting" /\ ~Refused
  /\ file' = EnsureDefault
  /\ proc' = [proc EXCEPT ![p] = Newcomer("serving", file', TRUE)]
  /\ service' = IF Managed(how) THEN "running" ELSE service
  /\ UNCHANGED <<how, secure, due, asked, command, counters>>

BootRefused(p) ==
  /\ proc[p].at = "booting" /\ Refused
  /\ file' = EnsureDefault
  /\ EndsUnasked(p)
  /\ UNCHANGED <<how, secure, command, counters>>

\* Server.Run, after the run loop has started.  Where the port is taken `ui` ends,
\* and with --tray or as a service the panel is missing and the agent goes on.
PanelPortTaken(p) == \E q \in Alive \ {p} : proc[q].panel = "bound"

BindPanel(p) ==
  /\ proc[p].at = "serving" /\ proc[p].panel = "none"
  /\ IF ~PanelPortTaken(p)
     THEN proc' = [proc EXCEPT ![p].panel = "bound"] /\ UNCHANGED manager
     ELSE IF how \in {"systemd", "ui"} THEN EndsUnasked(p)
     ELSE proc' = [proc EXCEPT ![p].panel = "missing"] /\ UNCHANGED manager
  /\ UNCHANGED <<how, secure, file, command, counters>>

\* runLoop returns by itself, as with the port of the local print service taken.
RunLoopReturns(p) ==
  /\ proc[p].at = "serving" /\ proc[p].loop
  /\ Fault
  /\ proc' = [proc EXCEPT ![p].loop = FALSE]
  /\ UNCHANGED <<how, secure, file, manager, command, commands, jobs>>

Crash(p) ==
  /\ proc[p].at \in {"booting", "serving"}
  /\ Fault
  /\ EndsUnasked(p)
  /\ UNCHANGED <<how, secure, file, command, commands, jobs>>

------------------------------------------------------------------------------
(* The panel and the jobs of a process *)

\* A handler saves the whole configuration; one that changed the connection has the
\* process restarted later.  A service's panel may not change it.
PanelSaves(p) ==
  /\ proc[p].panel = "bound" /\ Written < MaxWrites
  /\ file' = Written + 1
  /\ \/ UNCHANGED proc
     \/ how # "scm" /\ proc[p].owed < 2 /\ proc' = [proc EXCEPT ![p].owed = @ + 1]
  /\ UNCHANGED <<how, secure, manager, command, counters>>

\* Mutant: restartSelf starts the next process itself, as it does for a user.
RestartByManager_Relaunches(p) ==
  /\ Managed(how) /\ proc[p].at = "serving" /\ proc[p].owed > 0
  /\ \E q \in Process \ Alive : proc' = [Launched(proc, q) EXCEPT ![p] = Free]
  /\ service' = "stopped" /\ due' = TRUE /\ asked' = FALSE
  /\ UNCHANGED <<how, secure, file, command, counters>>

\* restartSelf under a manager: the exit is all.
RestartByManager(p) ==
  /\ Managed(how) /\ proc[p].at = "serving" /\ proc[p].owed > 0
  /\ EndsUnasked(p)
  /\ UNCHANGED <<how, secure, file, command, counters>>

\* restartSelf of a user's process: it starts the next one, if that works, then exits.
RestartStartsNext(p) ==
  /\ ~Managed(how) /\ proc[p].at \in {"serving", "exiting"} /\ proc[p].owed > 0
  /\ LET leaving == [proc EXCEPT ![p].at = "exiting", ![p].owed = proc[p].owed - 1]
     IN  \/ /\ \E q \in Process \ Alive : proc' = Launched(leaving, q)
            /\ UNCHANGED faults
         \/ Fault /\ proc' = leaving
  /\ UNCHANGED <<how, secure, file, manager, command, commands, jobs>>

RestartExits(p) ==
  /\ proc[p].at = "exiting"
  /\ proc' = [proc EXCEPT ![p] = Free]
  /\ UNCHANGED <<how, secure, file, manager, command, counters>>

\* Once the context is cancelled serve may still take a job that waits beside it.
PrintStarts(p) ==
  /\ proc[p].at \in {"serving", "leaving"} /\ proc[p].loop /\ ~proc[p].printing /\ jobs < MaxJobs
  /\ proc' = [proc EXCEPT ![p].printing = TRUE]
  /\ jobs' = jobs + 1
  /\ UNCHANGED <<how, secure, file, manager, command, faults, commands>>

PrintEnds(p) ==
  /\ proc[p].printing
  /\ proc' = [proc EXCEPT ![p].printing = FALSE]
  /\ UNCHANGED <<how, secure, file, manager, command, counters>>

------------------------------------------------------------------------------
(* Stopping: Execute, and the end of main *)

\* The order cancels the context and waits for nothing: Execute returns, and svc.Run
\* reports the service stopped before its process is gone.  systemd waits for that.
Execute(p) ==
  /\ proc[p].at = "serving" /\ service = "stopping"
  /\ proc' = [proc EXCEPT ![p].at = "leaving"]
  /\ service' = IF how = "scm" THEN "stopped" ELSE service
  /\ asked' = TRUE
  /\ UNCHANGED <<how, secure, file, due, command, counters>>

\* main returns; what the process was doing ends with it.
ProcessEnds(p) ==
  /\ proc[p].at = "leaving"
  /\ proc' = [proc EXCEPT ![p] = Free]
  /\ service' = IF how = "systemd" THEN "stopped" ELSE service
  /\ UNCHANGED <<how, secure, file, due, asked, command, counters>>

------------------------------------------------------------------------------
(* The console: `register --scope service`, `service stop`, `service start` *)

At(step) == command.at = step
Goto(step) == command' = [command EXCEPT !.at = step]

Console == UNCHANGED <<how, secure, due, asked, counters>>

\* Only Windows has `service`; elsewhere `register` leaves the restart to the user.
NewCommand ==
  /\ At("none") /\ commands < MaxCommands /\ Managed(how)
  /\ commands' = commands + 1
  /\ \E op \in {"register", "stop", "start"} :
       /\ op # "register" => how = "scm"
       /\ command' = Command(op, op, 0)
  /\ UNCHANGED <<how, secure, file, proc, manager, faults, jobs>>

\* cmdRegister makes sure there is a file, reads it, asks, and saves; the questions
\* take their time.
RegisterReads ==
  /\ At("register") /\ Goto("asking")
  /\ file' = EnsureDefault
  /\ Console /\ UNCHANGED <<proc, service>>

RegisterSaves ==
  /\ At("asking") /\ Written < MaxWrites
  /\ file' = Written + 1
  /\ command' = Command("register", IF how = "scm" THEN "stop" ELSE "manual", file')
  /\ Console /\ UNCHANGED <<proc, service>>

\* It ends without having saved: no token, a URL it does not take, a failed write.
RegisterGivesUp ==
  /\ At("asking") /\ Goto("failed")
  /\ Console /\ UNCHANGED <<file, proc, service>>

\* What the command does once the service is stopped.
AfterStop == IF command.op = "register" THEN "start" ELSE "done"

\* stopAndWait: Query, and the order unless one is under way.
Stop ==
  /\ At("stop")
  /\ CASE service = "stopped"  -> Goto(AfterStop) /\ UNCHANGED service
       [] service = "starting" -> Goto("failed") /\ UNCHANGED service
       [] service = "running"  -> Goto("waiting") /\ service' = "stopping"
       [] service = "stopping" -> Goto("waiting") /\ UNCHANGED service
  /\ Console /\ UNCHANGED <<file, proc>>

\* Mutant: the order alone is taken for the stop.
StopSeen_AtOnce ==
  /\ At("waiting") /\ Goto(AfterStop)
  /\ Console /\ UNCHANGED <<file, proc, service>>

\* waitFor polls until the service is stopped, or gives up.
StopSeen ==
  /\ At("waiting") /\ service = "stopped" /\ Goto(AfterStop)
  /\ Console /\ UNCHANGED <<file, proc, service>>

StopTimesOut ==
  /\ At("waiting") /\ service # "stopped" /\ Goto("failed")
  /\ Fault
  /\ UNCHANGED <<how, secure, file, proc, manager, commands, jobs>>

\* The manager refuses to start what is not stopped.
Start ==
  /\ At("start")
  /\ IF service = "stopped"
     THEN /\ \E p \in Process \ Alive : proc' = Launched(proc, p)
          /\ service' = "starting" /\ Goto("done")
     ELSE Goto("failed") /\ UNCHANGED <<proc, service>>
  /\ Console /\ UNCHANGED file

\* The console is free for the next command.
CommandEnds ==
  /\ command.at \in {"done", "failed", "manual"}
  /\ command' = NoCommand
  /\ Console /\ UNCHANGED <<file, proc, service>>

------------------------------------------------------------------------------
ProcessStep(p) ==
  \/ Boot(p) \/ BootRefused(p) \/ BindPanel(p) \/ RestartByManager(p)
  \/ RestartStartsNext(p) \/ RestartExits(p) \/ PrintEnds(p) \/ Execute(p) \/ ProcessEnds(p)

CommandStep ==
  RegisterReads \/ RegisterSaves \/ RegisterGivesUp
  \/ Stop \/ StopSeen \/ StopTimesOut \/ Start \/ CommandEnds

Next ==
  \/ SetupData \/ PowerOn \/ Recover \/ NewCommand \/ CommandStep
  \/ \E p \in Process :
       ProcessStep(p) \/ RunLoopReturns(p) \/ Crash(p) \/ PanelSaves(p) \/ PrintStarts(p)

\* A process that is running gets on with what it has begun, and the manager with
\* what it owes; nobody has to print, to save, or to type.
Fairness ==
  /\ WF_vars(Recover)
  /\ \A p \in Process : WF_vars(ProcessStep(p))

Spec == Init /\ [][Next]_vars /\ Fairness
------------------------------------------------------------------------------
\* The states of a process, of the service and of a console command.
Slot     == [at : {"free", "booting", "serving", "leaving", "exiting"}, loaded : Nat,
             loop : BOOLEAN, panel : {"none", "bound", "missing"}, owed : Int, printing : BOOLEAN]
Services == {"stopped", "starting", "running", "stopping"}
Steps    == {"none", "register", "asking", "stop", "waiting", "start", "done", "failed", "manual"}
Ops      == {"none", "register", "stop", "start"}

TypeOK ==
  /\ how \in {"scm", "systemd", "ui", "tray"} /\ secure \in BOOLEAN
  /\ file \in Nat \cup {None}
  /\ proc \in [Process -> Slot]
  /\ service \in Services /\ due \in BOOLEAN /\ asked \in BOOLEAN
  /\ command \in [at : Steps, op : Ops, saved : Nat]

\* Under a service manager two processes are alive at once only where the SCM was told
\* that one of them has stopped (Execute returned) before it is gone; otherwise there
\* is one at most, however restarts by the panel, crashes, recovery and the console
\* meet (restartSelf, main.go:379-405; stopAndWait; Execute).
OneAgent ==
  Managed(how) =>
    \A p, q \in Alive :
      p = q \/ (how = "scm" /\ "leaving" \in {proc[p].at, proc[q].at})

\* `register` never asks for a start while the stop it waited for is under way, and
\* once it has reported the restart no process serves that read the file before
\* register wrote it (cmdRegister, restartServiceBestEffort, stopAndWait).
RegisterTakesEffect ==
  command.op = "register" =>
    /\ command.at = "start" => service # "stopping"
    /\ command.at = "done" => \A p \in Serving : proc[p].loaded >= command.saved

\* An agent that ended unasked is followed by one whose run loop runs, on a machine
\* that was set up (recoveryActions; Restart=always; restartSelf).
AgentComesBack ==
  (Managed(how) /\ service = "stopped" /\ ~asked /\ (how = "scm" => secure))
    ~> (\E p \in Serving : proc[p].loop)

\* The processes with the printers and the store in hand, one included that was asked
\* to stop and still prints.
Holders == Serving \cup {p \in Process : proc[p].printing}

\* A stop waits until the service is "parado de verdad" (service_windows.go:48-49), and
\* two processes "peleando por las mismas impresoras" are what a service must not leave
\* (main.go:380-382): of a managed agent one process at a time has the printers.
OneHolder == Managed(how) => \A p, q \in Holders : p = q
=============================================================================
