----------------------- MODULE ServiceControl_proofs ------------------------
(***************************************************************************)
(* The processes of an agent under a service manager, however many of them *)
(* and whatever the bounds: who may be alive beside an agent, and that a   *)
(* registration that is reported is in use.                                *)
(***************************************************************************)
EXTENDS ServiceControl, TLAPS

-----------------------------------------------------------------------------
(* What the helpers return.                                                *)

\* The configuration file is there once somebody made sure of it.
LEMMA FileThere ==
  ASSUME file \in Nat \cup {None}
  PROVE  EnsureDefault \in Nat /\ EnsureDefault = Written
BY ServiceControlAssumption DEF EnsureDefault, Written

\* A free slot, and that of a process that boots, that serves.
LEMMA FreshSlots ==
  /\ Free \in Slot
  /\ Newcomer("booting", 0, FALSE) \in Slot
  /\ Newcomer("booting", 0, FALSE).at = "booting"
  /\ \A n \in Nat : Newcomer("serving", n, TRUE) \in Slot
BY DEF Newcomer, Free, Slot

\* A slot with another count of restarts to come is a slot.
LEMMA OwedSlots ==
  ASSUME NEW ps \in [Process -> Slot], NEW p \in Process, NEW n \in Int
  PROVE  [ps EXCEPT ![p].owed = n] \in [Process -> Slot]
BY DEF Slot

\* A launched process is a process that boots; the others are as they were.
LEMMA LaunchedSlots ==
  ASSUME NEW ps \in [Process -> Slot], NEW p \in Process
  PROVE  /\ Launched(ps, p) \in [Process -> Slot]
         /\ Launched(ps, p)[p].at = "booting"
         /\ \A q \in Process \ {p} : Launched(ps, p)[q] = ps[q]
BY FreshSlots DEF Launched

\* A process that ends unasked leaves its place free.
LEMMA EndsUnaskedType ==
  ASSUME TypeOK, NEW p \in Process, EndsUnasked(p)
  PROVE  /\ proc' \in [Process -> Slot]
         /\ service' \in Services /\ due' \in BOOLEAN /\ asked' \in BOOLEAN
BY FreshSlots DEF TypeOK, EndsUnasked, Services, manager

-----------------------------------------------------------------------------
(* Types.                                                                  *)

LEMMA InitType == Init => TypeOK
<1> SUFFICES ASSUME Init PROVE TypeOK
  OBVIOUS
<1>1. proc \in [Process -> Slot]
  BY FreshSlots DEF Init
<1>2. file \in Nat \cup {None}
  BY DEF Init
<1>3. command \in [at : Steps, op : Ops, saved : Nat]
  BY DEF Init, NoCommand, Command, Steps, Ops
<1> QED BY <1>1, <1>2, <1>3 DEF Init, TypeOK, Services

LEMMA ProcessStepType ==
  ASSUME TypeOK, NEW p \in Process,
         ProcessStep(p) \/ RunLoopReturns(p) \/ Crash(p) \/ PanelSaves(p) \/ PrintStarts(p)
  PROVE  TypeOK'
<1> USE DEF TypeOK
<1>1. CASE Boot(p)
  BY <1>1, FileThere, FreshSlots DEF Boot, Services
<1>2. CASE BootRefused(p)
  BY <1>2, FileThere, EndsUnaskedType DEF BootRefused
<1>3. CASE BindPanel(p)
  BY <1>3, EndsUnaskedType DEF BindPanel, Slot, manager
<1>4. CASE RestartByManager(p)
  BY <1>4, EndsUnaskedType DEF RestartByManager
<1>5. CASE RestartStartsNext(p)
  <2>1. [proc EXCEPT ![p].at = "exiting"] \in [Process -> Slot]
    BY DEF Slot
  <2>2. proc[p].owed - 1 \in Int
    BY DEF Slot
  <2>3. [proc EXCEPT ![p].at = "exiting", ![p].owed = proc[p].owed - 1] \in [Process -> Slot]
    <3> HIDE DEF TypeOK
    <3> QED BY <2>1, <2>2, OwedSlots
  <2>4. proc' \in [Process -> Slot]
    <3> HIDE DEF TypeOK
    <3> DEFINE leaving == [proc EXCEPT ![p].at = "exiting", ![p].owed = proc[p].owed - 1]
    <3>1. \/ \E q \in Process \ Alive : proc' = Launched(leaving, q)
          \/ proc' = leaving
      BY <1>5 DEF RestartStartsNext
    <3>2. leaving \in [Process -> Slot]
      BY <2>3
    <3> HIDE DEF leaving
    <3> QED BY <3>1, <3>2, LaunchedSlots
  <2> QED BY <1>5, <2>4 DEF RestartStartsNext, manager
<1>6. CASE RestartExits(p)
  BY <1>6, FreshSlots DEF RestartExits, manager
<1>7. CASE PrintStarts(p)
  BY <1>7 DEF PrintStarts, Slot, manager
<1>12. CASE PrintEnds(p)
  BY <1>12 DEF PrintEnds, Slot, manager
<1>13. CASE RunLoopReturns(p)
  BY <1>13 DEF RunLoopReturns, Slot, manager
<1>8. CASE Execute(p)
  BY <1>8 DEF Execute, Slot, Services
<1>9. CASE ProcessEnds(p)
  BY <1>9, FreshSlots DEF ProcessEnds, Services
<1>10. CASE Crash(p)
  BY <1>10, EndsUnaskedType DEF Crash
<1>11. CASE PanelSaves(p)
  <2>1. Written \in Nat
    BY FileThere
  <2> QED BY <1>11, <2>1 DEF PanelSaves, Slot, manager
<1> QED
  BY <1>1, <1>2, <1>3, <1>4, <1>5, <1>6, <1>7, <1>8, <1>9, <1>10, <1>11, <1>12, <1>13 DEF ProcessStep

LEMMA CommandStepType ==
  ASSUME TypeOK, NewCommand \/ CommandStep
  PROVE  TypeOK'
<1> USE DEF TypeOK, Steps, Ops
<1>1. Written \in Nat /\ EnsureDefault \in Nat
  BY FileThere
<1>2. CASE NewCommand
  BY <1>2 DEF NewCommand, Command, manager
<1>3. CASE RegisterReads \/ RegisterSaves \/ RegisterGivesUp
  <2>1. CASE RegisterReads
    BY <1>1, <2>1 DEF RegisterReads, Goto, Console
  <2>2. CASE RegisterSaves
    <3>1. file' \in Nat
      BY <1>1, <2>2 DEF RegisterSaves
    <3>2. command' \in [at : Steps, op : Ops, saved : Nat]
      BY <2>2, <3>1 DEF RegisterSaves, Command
    <3> QED BY <2>2, <3>1, <3>2 DEF RegisterSaves, Console
  <2>3. CASE RegisterGivesUp
    BY <2>3 DEF RegisterGivesUp, Goto, Console
  <2> QED BY <1>3, <2>1, <2>2, <2>3
<1>4. CASE Stop
  BY <1>4 DEF Stop, Goto, AfterStop, Console, Services
<1>5. CASE StopSeen \/ StopTimesOut
  BY <1>5 DEF StopSeen, StopTimesOut, Goto, AfterStop, Console, manager
<1>6. CASE Start
  BY <1>6, LaunchedSlots DEF Start, Goto, Console, Services
<1>7. CASE CommandEnds
  BY <1>7 DEF CommandEnds, NoCommand, Command, Console
<1> QED
  BY <1>2, <1>3, <1>4, <1>5, <1>6, <1>7 DEF CommandStep

LEMMA NextType == TypeOK /\ [Next]_vars => TypeOK'
<1> SUFFICES ASSUME TypeOK, [Next]_vars PROVE TypeOK'
  OBVIOUS
<1>1. CASE SetupData
  BY <1>1, FileThere DEF TypeOK, SetupData, manager
<1>2. CASE PowerOn
  BY <1>2, LaunchedSlots DEF TypeOK, PowerOn, Services
<1>3. CASE Recover
  <2>1. proc' \in [Process -> Slot]
    BY <1>3, LaunchedSlots DEF TypeOK, Recover
  <2> QED BY <1>3, <2>1 DEF TypeOK, Recover, Services
<1>4. CASE UNCHANGED vars
  BY <1>4 DEF TypeOK, vars, manager
<1> QED
  BY <1>1, <1>2, <1>3, <1>4, ProcessStepType, CommandStepType DEF Next

\* Every reachable state has its type: no slot of a process, no state of the service
\* and no step of a command is outside the sets the code knows.
THEOREM ProcessTypeCorrect == Spec => []TypeOK
BY InitType, NextType, PTL DEF Spec

-----------------------------------------------------------------------------
(* One agent.                                                              *)

\* The processes the manager answers for: those alive, but one that the SCM was told
\* has stopped.
Agents == {p \in Process : \/ proc[p].at \in {"booting", "serving", "exiting"}
                           \/ proc[p].at = "leaving" /\ how # "scm"}

\* Why only a process that the SCM takes for stopped may be alive beside another: the
\* manager answers for one process at most, for none while the service is stopped, and
\* only a stopped service is started.
Exclusive ==
  Managed(how) =>
    /\ \A p, q \in Agents : p = q
    /\ service = "stopped" => Agents = {}

\* Why a registration takes effect: the file has what was saved, and nothing serves
\* while the service is stopped but what read the file after.
Registering ==
  /\ command.at \in {"stop", "waiting", "start"} => how = "scm"
  /\ command.op = "register" =>
       /\ command.saved <= Written
       /\ command.at = "start" => service # "stopping"
       /\ command.at = "done" => \A p \in Serving : proc[p].loaded >= command.saved

\* A step that makes no agent, and takes the service for stopped only when there is
\* none left.
LEMMA FewerAgents ==
  ASSUME Exclusive, UNCHANGED how, Agents' \subseteq Agents,
         service' = "stopped" => service = "stopped" \/ (Managed(how) => Agents' = {})
  PROVE  Exclusive'
BY DEF Exclusive, Managed

\* A launch where there was no agent, which is no longer a stopped service.
LEMMA FirstAgent ==
  ASSUME TypeOK, UNCHANGED how, Managed(how) => Agents = {} /\ service' # "stopped",
         NEW p \in Process, proc' = Launched(proc, p)
  PROVE  Exclusive'
<1>1. \A q \in Agents' : q = p \/ q \in Agents
  BY LaunchedSlots DEF TypeOK, Agents
<1> QED BY <1>1 DEF Exclusive, Managed

\* The end of an agent leaves no other.
LEMMA LastAgent ==
  ASSUME TypeOK, Exclusive, NEW p \in Agents, EndsUnasked(p), UNCHANGED how
  PROVE  Exclusive'
<1>1. Agents' \subseteq Agents /\ p \notin Agents'
  BY FreshSlots DEF TypeOK, Agents, EndsUnasked, Free, Newcomer
<1>2. Managed(how) => Agents' = {}
  BY <1>1 DEF Exclusive
<1> QED BY <1>1, <1>2, FewerAgents DEF EndsUnasked, manager

\* A step that touches neither the command nor, but for later writes, the file.
LEMMA RegisteringKept ==
  ASSUME TypeOK, Registering, UNCHANGED <<how, command>>, Written' \in Nat,
         Written <= Written', Written \in Nat,
         service' = "stopping" => service = "stopping",
         \A p \in Serving' : \/ p \in Serving /\ proc'[p].loaded = proc[p].loaded
                             \/ proc'[p].loaded \in Nat /\ proc'[p].loaded >= Written
  PROVE  Registering'
<1>1. command.saved \in Nat
  BY DEF TypeOK
<1>2. CASE command.op # "register"
  BY <1>2 DEF Registering
<1>3. CASE command.op = "register"
  <2>1. command.saved <= Written'
    BY <1>1, <1>3 DEF Registering
  <2>2. command.at = "done" => \A p \in Serving' : proc'[p].loaded >= command.saved
    BY <1>1, <1>3 DEF Registering
  <2> QED BY <1>3, <2>1, <2>2 DEF Registering
<1> QED BY <1>2, <1>3
-----------------------------------------------------------------------------
LEMMA ExclusiveStep ==
  ASSUME TypeOK, Exclusive, [Next]_vars
  PROVE  Exclusive'
<1>1. ASSUME SetupData \/ NewCommand \/ CommandEnds \/ RegisterReads \/ RegisterSaves
             \/ RegisterGivesUp \/ StopSeen \/ StopTimesOut \/ UNCHANGED vars
      PROVE  Exclusive'
  BY <1>1 DEF SetupData, NewCommand, CommandEnds, RegisterReads, RegisterSaves, RegisterGivesUp,
     StopSeen, StopTimesOut, Console, vars, manager, Exclusive, Agents
<1>2. CASE PowerOn
  <2>1. Agents = {}
    BY <1>2 DEF PowerOn, Agents, Alive
  <2> QED BY <1>2, <2>1, FirstAgent DEF PowerOn
<1>3. CASE Recover
  <2>1. CASE service = "stopped"
    BY <1>3, <2>1, FirstAgent DEF Recover, Exclusive
  <2>2. CASE service # "stopped"
    BY <1>3, <2>2 DEF Recover, Exclusive, Agents
  <2> QED BY <2>1, <2>2
<1>4. CASE Stop
  <2>1. service' = "stopped" => service = "stopped"
    BY <1>4 DEF Stop, TypeOK, Services
  <2>2. UNCHANGED <<how, proc>>
    BY <1>4 DEF Stop, Console
  <2> QED BY <2>1, <2>2 DEF Exclusive, Agents
<1>5. CASE Start
  <2>1. CASE service = "stopped"
    BY <1>5, <2>1, FirstAgent DEF Start, Console, Exclusive
  <2>2. CASE service # "stopped"
    BY <1>5, <2>2 DEF Start, Console, Exclusive, Agents
  <2> QED BY <2>1, <2>2
<1>6. ASSUME NEW p \in Process,
             ProcessStep(p) \/ RunLoopReturns(p) \/ Crash(p) \/ PanelSaves(p) \/ PrintStarts(p)
      PROVE  Exclusive'
  <2>1. CASE Boot(p)
    <3>1. Agents' = Agents
      BY <2>1 DEF Boot, TypeOK, Agents, Newcomer
    <3> QED BY <2>1, <3>1 DEF Boot, Exclusive
  <2>2. CASE BootRefused(p)
    BY <2>2, LastAgent DEF BootRefused, Agents
  <2>3. CASE BindPanel(p)
    <3>1. CASE EndsUnasked(p)
      BY <2>3, <3>1, LastAgent DEF BindPanel, Agents
    <3>2. CASE ~EndsUnasked(p)
      <4>1. Agents' = Agents
        BY <2>3, <3>2 DEF BindPanel, TypeOK, Slot, Agents
      <4> QED BY <2>3, <3>2, <4>1, FewerAgents DEF BindPanel, manager
    <3> QED BY <3>1, <3>2
  <2>4. CASE RestartByManager(p)
    BY <2>4, LastAgent DEF RestartByManager, Agents
  <2>5. CASE RestartStartsNext(p)
    BY <2>5 DEF RestartStartsNext, Exclusive
  <2>6. CASE RestartExits(p)
    <3>1. Agents' \subseteq Agents
      BY <2>6, FreshSlots DEF RestartExits, TypeOK, Agents, Free, Newcomer
    <3> QED BY <2>6, <3>1, FewerAgents DEF RestartExits, manager
  <2>10. CASE ProcessEnds(p)
    <3>1. Agents' \subseteq Agents /\ p \notin Agents'
      BY <2>10, FreshSlots DEF ProcessEnds, TypeOK, Agents, Free, Newcomer
    <3>2. how = "systemd" => Agents' = {}
      BY <2>10, <3>1 DEF ProcessEnds, Agents, Exclusive, Managed
    <3> QED BY <2>10, <3>1, <3>2, FewerAgents DEF ProcessEnds
  <2>7. CASE PrintEnds(p) \/ PrintStarts(p) \/ RunLoopReturns(p) \/ PanelSaves(p)
    <3>1. Agents' = Agents
      <4>1. CASE PrintEnds(p)
        BY <4>1 DEF PrintEnds, TypeOK, Slot, Agents
      <4>2. CASE PrintStarts(p)
        BY <4>2 DEF PrintStarts, TypeOK, Slot, Agents
      <4>3. CASE RunLoopReturns(p)
        BY <4>3 DEF RunLoopReturns, TypeOK, Slot, Agents
      <4>4. CASE PanelSaves(p)
        BY <4>4 DEF PanelSaves, TypeOK, Slot, Agents
      <4> QED BY <2>7, <4>1, <4>2, <4>3, <4>4
    <3> QED BY <2>7, <3>1, FewerAgents DEF PrintEnds, PrintStarts, RunLoopReturns, PanelSaves, manager
  <2>8. CASE Execute(p)
    <3>1. Agents' \subseteq Agents /\ p \in Agents
      BY <2>8 DEF Execute, TypeOK, Slot, Agents
    <3>2. how = "scm" => Agents' = {}
      <4>1. how = "scm" => p \notin Agents'
        BY <2>8 DEF Execute, TypeOK, Slot, Agents
      <4> QED BY <3>1, <4>1 DEF Exclusive, Managed
    <3> QED BY <2>8, <3>1, <3>2, FewerAgents DEF Execute
  <2>9. CASE Crash(p)
    BY <2>9, LastAgent DEF Crash, Agents
  <2> QED BY <1>6, <2>1, <2>2, <2>3, <2>4, <2>5, <2>6, <2>7, <2>8, <2>9, <2>10 DEF ProcessStep
<1> QED BY <1>1, <1>2, <1>3, <1>4, <1>5, <1>6 DEF Next, CommandStep

LEMMA ExclusiveInit == Init => Exclusive
BY DEF Init, Exclusive, Agents, Free, Newcomer

\* Under a service manager a second process is alive only beside one that has reported
\* its stop to the SCM and is still leaving (Execute); no restart by the panel, crash,
\* recovery or console command makes another, with any number of processes.
THEOREM NeverTwoAgents == Spec => []OneAgent
<1>1. TypeOK /\ Exclusive => OneAgent
  <2> SUFFICES ASSUME TypeOK, Exclusive, Managed(how), NEW p \in Alive, NEW q \in Alive, p # q
               PROVE  how = "scm" /\ "leaving" \in {proc[p].at, proc[q].at}
    BY DEF OneAgent
  <2>1. \A r \in Alive \ Agents : how = "scm" /\ proc[r].at = "leaving"
    BY DEF TypeOK, Slot, Alive, Agents
  <2>2. p \notin Agents \/ q \notin Agents
    BY DEF Exclusive
  <2> QED BY <2>1, <2>2
<1>2. TypeOK /\ Exclusive /\ [Next]_vars => Exclusive'
  BY ExclusiveStep
<1> QED BY ProcessTypeCorrect, ExclusiveInit, <1>1, <1>2, PTL DEF Spec
-----------------------------------------------------------------------------
(* A registration takes effect.                                            *)

\* The counter of writes of the file never goes back.
LEMMA FileForward ==
  ASSUME TypeOK,
         \/ file' = EnsureDefault
         \/ file' = Written + 1
         \/ UNCHANGED file
  PROVE  /\ Written \in Nat /\ Written' \in Nat
         /\ Written <= Written'
<1>1. file' \in Nat \cup {None} /\ file \in Nat \cup {None}
  BY FileThere DEF TypeOK
<1> QED BY <1>1, ServiceControlAssumption DEF Written, EnsureDefault

LEMMA ProcessStepRegistering ==
  ASSUME TypeOK, Registering, NEW p \in Process,
         ProcessStep(p) \/ RunLoopReturns(p) \/ Crash(p) \/ PanelSaves(p) \/ PrintStarts(p)
  PROVE  Registering'
<1> DEFINE Kept == \A q \in Serving' : q \in Serving /\ proc'[q].loaded = proc[q].loaded
<1>1. /\ UNCHANGED <<how, command>>
      /\ service' = "stopping" => service = "stopping"
  BY DEF ProcessStep, Boot, BootRefused, BindPanel, RestartByManager, RestartStartsNext,
     RestartExits, PrintEnds, Execute, ProcessEnds, RunLoopReturns, Crash, PanelSaves, PrintStarts,
     EndsUnasked, manager
<1>2. /\ Written \in Nat /\ Written' \in Nat
      /\ Written <= Written'
  <2>1. file' = EnsureDefault \/ file' = Written + 1 \/ UNCHANGED file
    BY DEF ProcessStep, Boot, BootRefused, BindPanel, RestartByManager, RestartStartsNext,
       RestartExits, PrintEnds, Execute, ProcessEnds, RunLoopReturns, Crash, PanelSaves, PrintStarts,
       EndsUnasked, manager
  <2> QED BY <2>1, FileForward
<1>3. CASE Boot(p)
  <2>1. \A q \in Serving' : \/ q \in Serving /\ proc'[q].loaded = proc[q].loaded
                            \/ proc'[q].loaded = file'
    BY <1>3 DEF Boot, TypeOK, Serving, Newcomer
  <2>2. file' \in Nat /\ file' = Written
    BY <1>3, FileThere DEF Boot, TypeOK
  <2> QED BY <1>1, <1>2, <2>1, <2>2, RegisteringKept
<1>4. ASSUME proc' = [proc EXCEPT ![p] = Free]
      PROVE  Kept
  BY <1>4, FreshSlots DEF TypeOK, Serving, Free, Newcomer
<1>5. CASE BootRefused(p) \/ RestartByManager(p) \/ RestartExits(p) \/ ProcessEnds(p) \/ Crash(p)
  <2>1. Kept
    BY <1>4, <1>5 DEF BootRefused, RestartByManager, RestartExits, ProcessEnds, Crash, EndsUnasked
  <2> QED BY <1>1, <1>2, <2>1, RegisteringKept
<1>6. CASE BindPanel(p)
  <2>1. Kept
    BY <1>4, <1>6 DEF BindPanel, EndsUnasked, TypeOK, Slot, Serving
  <2> QED BY <1>1, <1>2, <2>1, RegisteringKept
<1>7. CASE RestartStartsNext(p)
  <2>1. Kept
    <3> DEFINE leaving == [proc EXCEPT ![p].at = "exiting", ![p].owed = proc[p].owed - 1]
    <3>1. /\ leaving \in [Process -> Slot]
          /\ \A q \in Process : leaving[q].at = "serving" =>
               q \in Serving /\ leaving[q].loaded = proc[q].loaded
      <4>1. /\ [proc EXCEPT ![p].at = "exiting"] \in [Process -> Slot]
            /\ proc[p].owed - 1 \in Int
        BY DEF TypeOK, Slot
      <4>2. leaving \in [Process -> Slot]
        BY <4>1, OwedSlots
      <4>3. /\ \A q \in Process \ {p} : leaving[q] = proc[q]
            /\ leaving[p].at = "exiting"
        BY DEF TypeOK, Slot
      <4> HIDE DEF leaving
      <4> QED BY <4>2, <4>3 DEF Serving
    <3>2. \/ \E q \in Process \ Alive : proc' = Launched(leaving, q)
          \/ proc' = leaving
      BY <1>7 DEF RestartStartsNext
    <3> HIDE DEF leaving
    <3> QED BY <3>1, <3>2, LaunchedSlots DEF Serving
  <2> QED BY <1>1, <1>2, <2>1, RegisteringKept
<1>8. CASE PrintEnds(p)
  <2>1. Kept
    BY <1>8 DEF PrintEnds, TypeOK, Slot, Serving
  <2> QED BY <1>1, <1>2, <2>1, RegisteringKept
<1>9. CASE PrintStarts(p)
  <2>1. Kept
    BY <1>9 DEF PrintStarts, TypeOK, Slot, Serving
  <2> QED BY <1>1, <1>2, <2>1, RegisteringKept
<1>10. CASE RunLoopReturns(p)
  <2>1. Kept
    BY <1>10 DEF RunLoopReturns, TypeOK, Slot, Serving
  <2> QED BY <1>1, <1>2, <2>1, RegisteringKept
<1>11. CASE Execute(p)
  <2>1. Kept
    BY <1>11 DEF Execute, TypeOK, Slot, Serving
  <2> QED BY <1>1, <1>2, <2>1, RegisteringKept
<1>12. CASE PanelSaves(p)
  <2>1. Kept
    BY <1>12 DEF PanelSaves, TypeOK, Slot, Serving
  <2> QED BY <1>1, <1>2, <2>1, RegisteringKept
<1> QED
  BY <1>3, <1>5, <1>6, <1>7, <1>8, <1>9, <1>10, <1>11, <1>12 DEF ProcessStep
LEMMA CommandStepRegistering ==
  ASSUME TypeOK, Exclusive, Registering, NewCommand \/ CommandStep
  PROVE  Registering'
<1>1. /\ Written \in Nat
      /\ command.saved \in Nat
  BY FileThere DEF TypeOK
<1>2. CASE NewCommand
  BY <1>1, <1>2 DEF NewCommand, Command, Registering, Written
<1>3. CASE RegisterReads
  <2>1. Written' \in Nat /\ Written <= Written'
    BY <1>3, FileForward DEF RegisterReads
  <2>2. command' = [command EXCEPT !.at = "asking"]
    BY <1>3 DEF RegisterReads, Goto
  <2>3. command'.at = "asking" /\ command'.op = command.op /\ command'.saved = command.saved
    BY <2>2 DEF TypeOK
  <2> QED BY <1>1, <2>1, <2>3 DEF Registering
<1>4. CASE RegisterSaves
  <2>1. Written' = file' /\ file' \in Nat
    BY <1>1, <1>4, ServiceControlAssumption DEF RegisterSaves, Written
  <2>2. /\ command'.saved = file' /\ command'.at \in {"stop", "manual"}
        /\ command'.at = "stop" => how = "scm"
    BY <1>4 DEF RegisterSaves, Command
  <2> QED BY <1>4, <2>1, <2>2 DEF RegisterSaves, Registering, Console
<1>5. ASSUME NEW step \in Steps \ {"done"}, Goto(step), UNCHANGED <<how, file>>,
             step \in {"stop", "waiting", "start"} => how = "scm",
             step = "start" => service' # "stopping"
      PROVE  Registering'
  <2>1. command'.at = step /\ command'.op = command.op /\ command'.saved = command.saved
    BY <1>5 DEF Goto, TypeOK
  <2> QED BY <1>1, <1>5, <2>1 DEF Registering, Written
<1>6. ASSUME Goto("done"), UNCHANGED <<how, file>>,
             command.op = "register" => Serving' = {}
      PROVE  Registering'
  <2>1. command'.at = "done" /\ command'.op = command.op /\ command'.saved = command.saved
    BY <1>6 DEF Goto, TypeOK
  <2> QED BY <1>1, <1>6, <2>1 DEF Registering, Written
<1>7. CASE RegisterGivesUp \/ StopTimesOut
  BY <1>5, <1>7 DEF RegisterGivesUp, StopTimesOut, Console, Steps
<1>8. CASE Stop
  <2>1. how = "scm" /\ UNCHANGED <<how, file>>
    BY <1>8 DEF Stop, At, Console, Registering
  <2>2. \/ Goto(AfterStop) /\ service = "stopped" /\ UNCHANGED service
        \/ Goto("failed") \/ Goto("waiting")
    BY <1>8 DEF Stop, TypeOK, Services
  <2> QED BY <1>5, <1>6, <2>1, <2>2 DEF AfterStop, Steps
<1>9. CASE StopSeen
  BY <1>5, <1>6, <1>9 DEF StopSeen, At, AfterStop, Console, Registering, Steps
<1>10. CASE Start
  <2>1. how = "scm" /\ UNCHANGED <<how, file>>
    BY <1>10 DEF Start, At, Console, Registering
  <2>2. CASE service = "stopped"
    <3>1. Agents = {}
      BY <2>1, <2>2 DEF Exclusive, Managed
    <3>2. PICK p \in Process : proc' = Launched(proc, p)
      BY <1>10, <2>2 DEF Start
    <3>3. Serving' = {}
      BY <3>1, <3>2, LaunchedSlots DEF TypeOK, Agents, Serving
    <3> QED BY <1>6, <1>10, <2>1, <2>2, <3>3 DEF Start
  <2>3. CASE service # "stopped"
    BY <1>5, <1>10, <2>1, <2>3 DEF Start, Steps
  <2> QED BY <2>2, <2>3
<1>11. CASE CommandEnds
  BY <1>11 DEF CommandEnds, NoCommand, Command, Registering
<1> QED
  BY <1>2, <1>3, <1>4, <1>7, <1>8, <1>9, <1>10, <1>11 DEF CommandStep

LEMMA RegisteringStep ==
  ASSUME TypeOK, Exclusive, Registering, [Next]_vars
  PROVE  Registering'
<1> DEFINE Kept == \A q \in Serving' : q \in Serving /\ proc'[q].loaded = proc[q].loaded
<1>1. ASSUME NEW p \in Process, proc' = Launched(proc, p)
      PROVE  Kept
  BY <1>1, LaunchedSlots DEF TypeOK, Serving
<1>2. CASE SetupData
  <2>1. Written \in Nat /\ Written' \in Nat /\ Written <= Written'
    BY <1>2, FileForward DEF SetupData
  <2>2. Kept
    BY <1>2 DEF SetupData, Serving
  <2> QED BY <1>2, <2>1, <2>2, RegisteringKept DEF SetupData, manager
<1>3. CASE PowerOn \/ Recover
  <2>1. Written \in Nat /\ Written' \in Nat /\ Written <= Written'
    BY <1>3, FileForward DEF PowerOn, Recover
  <2>2. UNCHANGED <<how, command>> /\ (service' = "stopping" => service = "stopping")
    BY <1>3 DEF PowerOn, Recover
  <2>3. Kept
    BY <1>1, <1>3 DEF PowerOn, Recover, Serving
  <2> QED BY <2>1, <2>2, <2>3, RegisteringKept
<1>4. CASE UNCHANGED vars
  BY <1>4 DEF vars, manager, Registering, Written, Serving
<1> QED
  BY <1>2, <1>3, <1>4, ProcessStepRegistering, CommandStepRegistering DEF Next

LEMMA RegisteringInit == Init => Registering
BY DEF Init, Registering, NoCommand, Command

\* `register` starts the service only after it has seen it stopped, and what it
\* reports as restarted has read what it saved; for any number of processes, writes,
\* faults and commands.
THEOREM RegistrationIsInUse == Spec => []RegisterTakesEffect
<1>1. Registering => RegisterTakesEffect
  BY DEF Registering, RegisterTakesEffect
<1>2. TypeOK /\ Exclusive /\ [Next]_vars => Exclusive'
  BY ExclusiveStep
<1>3. TypeOK /\ Exclusive /\ Registering /\ [Next]_vars => Registering'
  BY RegisteringStep
<1> QED
  BY ProcessTypeCorrect, ExclusiveInit, RegisteringInit, <1>1, <1>2, <1>3, PTL DEF Spec
=============================================================================
