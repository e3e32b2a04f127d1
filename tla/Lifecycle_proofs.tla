-------------------------- MODULE Lifecycle_proofs --------------------------
(***************************************************************************)
(* The session of the agent for every set of jobs, every bound and every   *)
(* clock: its type invariant, the account behind "never reprint a known    *)
(* job", the agreement of the state machine with the session, and the      *)
(* results the agent reports: what is buffered and when, and that nothing  *)
(* is reported as completed that did not reach paper.                      *)
(***************************************************************************)
EXTENDS Lifecycle, JobStore_proofs

-----------------------------------------------------------------------------
(* What the helpers of the actions return.                                 *)

\* Machine.Transition leaves the machine in one of the states it may be in.
LEMMA TransitionType ==
  ASSUME NEW a \in State, NEW b \in State
  PROVE  Transition(a, b) \in State
BY DEF Transition

\* A prefix of a sequence is a sequence over the same set.
LEMMA PrefixType ==
  ASSUME NEW S, NEW s \in Seq(S), NEW n \in 0..Len(s)
  PROVE  SubSeq(s, 1, n) \in Seq(S)
OBVIOUS

\* The frames of both directions.
LEMMA FrameTypes ==
  /\ \A j \in Job : JobFrame(j) \in DownFrame
  /\ \A t \in {"authenticated", "auth_error", "other"} : Plain(t) \in DownFrame
  /\ Plain("authenticate") \in UpFrame
  /\ Result \subseteq UpFrame
  /\ Frame = Result
BY LifecycleAssumption DEF DownFrame, UpFrame, JobFrame, Plain

\* A frame read from the Backend that says "job" carries a job.
LEMMA JobFrameId ==
  ASSUME NEW f \in DownFrame, f.type = "job"
  PROVE  f.id \in Job
BY DEF DownFrame, JobFrame, Plain

\* Lapse counts up.
LEMMA LapseType ==
  ASSUME lapses \in [Job -> Nat], NEW S, Lapse(S)
  PROVE  lapses' \in [Job -> Nat]
BY DEF Lapse

\* A fault is counted and stays within its bound.
LEMMA FaultType ==
  ASSUME faults \in 0..MaxFaults, Fault
  PROVE  faults' \in 0..MaxFaults
BY LifecycleAssumption DEF Fault

\* What a Send leaves in flight is a sequence of the agent's frames.
LEMMA SendType ==
  ASSUME up \in Seq(UpFrame), link \in {"up", "cut", "dead", "none"},
         NEW f \in UpFrame, SendOK(f) \/ SendErr
  PROVE  up' \in Seq(UpFrame) /\ link' \in {"up", "cut", "dead", "none"}
BY DEF SendOK, SendErr

\* So is, of the Backend's, what a reply leaves.
LEMMA ReplyType ==
  ASSUME down \in Seq(DownFrame), NEW f \in DownFrame, Reply(f)
  PROVE  down' \in Seq(DownFrame)
BY DEF Reply


-----------------------------------------------------------------------------
(* Type correctness.                                                       *)

\* runOnce's return leaves every variable it touches well typed.
LEMMA EndSessionType ==
  ASSUME NEW from \in State, EndSession(from)
  PROVE  /\ pc' \in Place /\ machine' \in State
         /\ link' \in {"none", "up", "cut", "dead"}
         /\ down' \in Seq(DownFrame)
         /\ cur' \in Job \cup {NoJob} /\ frames' \in Seq(Result)
BY TransitionType DEF EndSession, Place, State

\* One step of the session keeps its types, whatever action takes it.
LEMMA TypeStep ==
  ASSUME TypeOK, JobInHand, [Next]_vars
  PROVE  TypeOK'
<1> USE LifecycleAssumption DEF TypeOK, JobInHand, Place, InSession, agentVars, wireVars, srvVars, boundVars,
            histVars
<1>0. UNCHANGED store => StoreTypeOK'
  BY DEF StoreTypeOK, store, IsDoneMap
<1>1. CASE Start
  <2>1. StoreTypeOK'
    BY <1>1, LoadType DEF Start
  <2>2. lapses' \in [Job -> Nat]
    BY <1>1, LapseType DEF Start
  <2>3. pc' \in Place /\ machine' \in State /\ backoff' \in 1..MaxBackoff
    BY <1>1 DEF Start, Goto, State
  <2>4. ctx' \in BOOLEAN
    BY <1>1, Zenon DEF Start
  <2>5. QED
    BY <1>1, <2>1, <2>2, <2>3, <2>4 DEF Start
<1>2. CASE BeginSession
  BY <1>2, <1>0, TransitionType DEF BeginSession, Goto, setState, State
<1>3. CASE Connect
  BY <1>3, <1>0 DEF Connect, Goto
<1>4. CASE ConnectFails
  BY <1>4, <1>0, EndSessionType, FaultType DEF ConnectFails
<1>5. CASE SessionOver
  BY <1>5, <1>0, TransitionType DEF SessionOver, setState, State
<1>6. CASE Backoff
  BY <1>6, <1>0, TransitionType, LifecycleAssumption DEF Backoff, setState, State
<1>7. CASE SendAuthenticate
  <2>1. Transition(machine, "AUTHENTICATING") \in State
    BY TransitionType DEF State
  <2>2. CASE /\ pc' = "auth" /\ setState("AUTHENTICATING")
             /\ SendOK(Plain("authenticate"))
             /\ UNCHANGED <<cur, frames, down>>
    BY <1>7, <1>0, <2>1, <2>2, SendType, FrameTypes
       DEF SendAuthenticate, setState
  <2>3. CASE EndSession(Transition(machine, "AUTHENTICATING")) /\ UNCHANGED up
    BY <1>7, <1>0, <2>1, <2>3, EndSessionType DEF SendAuthenticate
  <2>4. QED
    BY <1>7, <2>2, <2>3 DEF SendAuthenticate
<1>8. CASE Authenticated
  BY <1>8, <1>0 DEF Authenticated, Goto
<1>9. CASE AuthRejected
  BY <1>9, <1>0, TransitionType, EndSessionType DEF AuthRejected, State
<1>10. CASE AuthIgnored
  BY <1>10, <1>0 DEF AuthIgnored
<1>11. CASE AuthTimeout
  BY <1>11, <1>0, EndSessionType, FaultType DEF AuthTimeout
<1>12. CASE Register
  BY <1>12, <1>0, TransitionType DEF Register, Goto, setState, SendIgnored, State
<1>13. CASE Online
  <2>1. StoreTypeOK' /\ frames' \in Seq(Result)
    BY <1>13, TakePendingType, FrameTypes DEF Online, StoreTypeOK
  <2>2. machine' \in State
    BY <1>13, TransitionType DEF Online, setState, State
  <2>3. QED
    BY <1>13, <2>1, <2>2 DEF Online, Goto
<1>14. CASE FlushSend
  <2>1. Head(frames) \in UpFrame /\ Tail(frames) \in Seq(Result)
    BY <1>14, FrameTypes DEF FlushSend
  <2>2. up' \in Seq(UpFrame) /\ link' \in {"none", "up", "cut", "dead"}
    BY <1>14, <2>1, SendType DEF FlushSend
  <2>3. QED
    BY <1>14, <1>0, <2>1, <2>2 DEF FlushSend
<1>15. CASE Rebuffer
  BY <1>15, <1>0, AddPendingType, FrameTypes DEF Rebuffer
<1>16. CASE FlushReturns
  BY <1>16, <1>0 DEF FlushReturns
<1>17. CASE ContextDone
  BY <1>17, <1>0, EndSessionType DEF ContextDone
<1>18. CASE ConnectionClosed
  BY <1>18, <1>0, EndSessionType DEF ConnectionClosed
<1>19. CASE Heartbeat
  BY <1>19, <1>0 DEF Heartbeat, SendIgnored
<1>20. CASE HandleOther
  BY <1>20, <1>0 DEF HandleOther, SendIgnored
<1>21. CASE ReceiveJob
  BY <1>21, <1>0, JobFrameId DEF ReceiveJob, SendIgnored
<1>22. CASE DispatchOK
  BY <1>22, <1>0 DEF DispatchOK, Goto
<1>23. CASE DispatchFails
  <2>1. pc' \in Place /\ faults' \in 0..MaxFaults
    BY <1>23, FaultType DEF DispatchFails, Goto
  <2>2. CASE UNCHANGED <<histVars, faults>>
    BY <1>23, <1>0, <2>1, <2>2 DEF DispatchFails
  <2>3. CASE prints' = [prints EXCEPT ![cur] = @ + 1] /\ Lapse({cur})
    <3>1. cur \in Job
      BY <1>23 DEF DispatchFails, Goto
    <3>2. prints' \in [Job -> Nat]
      BY <2>3, <3>1
    <3>3. lapses' \in [Job -> Nat]
      BY <2>3, LapseType
    <3>4. QED
      BY <1>23, <1>0, <2>1, <3>2, <3>3 DEF DispatchFails
  <2>4. QED
    BY <1>23, <2>2, <2>3 DEF DispatchFails
<1>24. CASE Mark
  BY <1>24, <1>0, MarkDoneType, LapseType DEF Mark, Goto
<1>25. CASE EmitResult
  <2> DEFINE f == [type |-> pc, id |-> cur]
  <2>1. f \in Result /\ f \in UpFrame /\ f \in Frame
    BY <1>25, FrameTypes DEF EmitResult, Result
  <2>2. up' \in Seq(UpFrame) /\ link' \in {"none", "up", "cut", "dead"}
    BY <1>25, <2>1, SendType DEF EmitResult
  <2>3. StoreTypeOK'
    BY <1>25, <1>0, <2>1, AddPendingType DEF EmitResult
  <2>4. QED
    BY <1>25, <2>2, <2>3 DEF EmitResult
<1>26. CASE Cancel
  BY <1>26, <1>0, FaultType DEF Cancel
<1>27. CASE Crash
  BY <1>27, <1>0, LapseType, PrefixType, FaultType DEF Crash
<1>28. CASE Break
  BY <1>28, <1>0, PrefixType, FaultType DEF Break
<1>29. CASE Answer
  <2>1. /\ up' \in Seq(UpFrame) /\ down' \in Seq(DownFrame)
        /\ faults' \in 0..MaxFaults
    BY <1>29, FrameTypes, ReplyType, FaultType DEF Answer
  <2>2. QED
    BY <1>29, <1>0, <2>1 DEF Answer
<1>30. CASE HearResult
  BY <1>30, <1>0 DEF HearResult, Result
<1>31. ASSUME NEW j \in Job, SendJob(j) PROVE TypeOK'
  BY <1>31, <1>0, FrameTypes DEF SendJob
<1>32. ASSUME NEW j \in Job, Redeliver(j) PROVE TypeOK'
  BY <1>32, <1>0, FrameTypes DEF Redeliver
<1>33. CASE SendOther
  BY <1>33, <1>0, FrameTypes DEF SendOther
<1>34. CASE UNCHANGED vars
  BY <1>34, <1>0 DEF vars
<1>35. QED
  BY <1>1, <1>2, <1>3, <1>4, <1>5, <1>6, <1>7, <1>8, <1>9, <1>10,
     <1>11, <1>12, <1>13, <1>14, <1>15, <1>16, <1>17, <1>18, <1>19,
     <1>20, <1>21, <1>22, <1>23, <1>24, <1>25, <1>26, <1>27, <1>28,
     <1>29, <1>30, <1>31, <1>32, <1>33, <1>34
     DEF Next, AgentStep, BackendStep

\* A job is in hand from the moment it is received until its result is out.
LEMMA JobInHandStep ==
  ASSUME TypeOK, JobInHand, [Next]_vars
  PROVE  JobInHand'
BY JobFrameId, LifecycleAssumption
   DEF TypeOK, JobInHand, Next, AgentStep, BackendStep, EndSession, Goto, vars,
       agentVars, Start, BeginSession, Connect, SessionOver, Backoff,
       SendAuthenticate, Authenticated, AuthRejected, AuthIgnored, Register,
       Online, FlushSend, Rebuffer, FlushReturns, ContextDone, ConnectionClosed,
       HandleOther, ReceiveJob, DispatchOK, DispatchFails, Mark, EmitResult,
       Heartbeat, ConnectFails, AuthTimeout, Cancel, Crash, Break, Answer,
       HearResult, SendOther, SendJob, Redeliver

\* Every reachable state of the session is well typed.
THEOREM TypeCorrect == Spec => []TypeOK
<1>1. Init => TypeOK /\ JobInHand
  <2> SUFFICES ASSUME Init PROVE TypeOK /\ JobInHand
    OBVIOUS
  <2>1. StoreTypeOK
    BY DEF Init, StoreInit, StoreTypeOK, IsDoneMap
  <2>2. <<>> \in Seq(Result) /\ <<>> \in Seq(UpFrame) /\ <<>> \in Seq(DownFrame)
    OBVIOUS
  <2>3. /\ pc \in Place /\ machine \in State
        /\ backoff \in 1..MaxBackoff /\ faults \in 0..MaxFaults
        /\ extra \in 0..MaxExtra
    BY LifecycleAssumption DEF Init, Place, InSession, State
  <2>4. ctx \in BOOLEAN
    BY Zenon DEF Init
  <2>5. QED
    BY <2>1, <2>2, <2>3, <2>4 DEF Init, TypeOK, JobInHand
<1>2. TypeOK /\ JobInHand /\ [Next]_vars => (TypeOK /\ JobInHand)'
  BY TypeStep, JobInHandStep
<1>3. QED
  BY <1>1, <1>2, PTL DEF Spec

-----------------------------------------------------------------------------
(* Never reprint a known job.                                              *)

\* The two parts of PrintAccount that are not JobInHand.
Accounted ==
  \A j \in Job :
    prints[j] <= lapses[j] + IF Seen(j) \/ (pc = "mark" /\ cur = j)
                             THEN 1 ELSE 0

PrintsUnseen == pc \in {"print", "mark"} => ~Seen(cur)

\* A step that prints nothing, forgets nothing and leaves handleJob's job where
\* it was between its print and its record keeps the account.
LEMMA QuietStep ==
  ASSUME Accounted, PrintsUnseen,
         UNCHANGED <<prints, lapses>>, DOMAIN done' = DOMAIN done,
         pc = "mark" \/ pc' \in {"print", "mark"} => UNCHANGED <<pc, cur>>
  PROVE  Accounted' /\ PrintsUnseen'
BY DEF Accounted, PrintsUnseen, Seen

\* One step of the session keeps the account of the prints.
LEMMA PrintAccountStep ==
  ASSUME TypeOK, PrintAccount, [Next]_vars
  PROVE  PrintAccount'
<1>1. JobInHand /\ Accounted /\ PrintsUnseen
  BY DEF PrintAccount, Accounted, PrintsUnseen
<1>2. prints \in [Job -> Nat] /\ lapses \in [Job -> Nat]
  BY DEF TypeOK
<1> SUFFICES Accounted' /\ PrintsUnseen'
  BY <1>1, JobInHandStep DEF PrintAccount, Accounted, PrintsUnseen
<1>3. CASE Start
  BY <1>1, <1>2, <1>3 DEF Start, Goto, Lapse, Accounted, PrintsUnseen, Seen
<1>4. CASE ReceiveJob
  BY <1>1, <1>4
     DEF ReceiveJob, Accounted, PrintsUnseen, Seen, store, histVars
<1>5. CASE DispatchOK
  <2>1. cur \in Job
    BY <1>1, <1>5 DEF DispatchOK, Goto, JobInHand, TypeOK
  <2>2. QED
    BY <1>1, <1>2, <1>5, <2>1
       DEF DispatchOK, Goto, Accounted, PrintsUnseen, Seen, store
<1>6. CASE DispatchFails
  <2>1. cur \in Job
    BY <1>1, <1>6 DEF DispatchFails, Goto, JobInHand, TypeOK
  <2>2. CASE UNCHANGED <<histVars, faults>>
    BY <1>1, <1>6, <2>2
       DEF DispatchFails, Goto, Accounted, PrintsUnseen, Seen, store, histVars
  <2>3. CASE prints' = [prints EXCEPT ![cur] = @ + 1] /\ Lapse({cur})
    BY <1>1, <1>2, <1>6, <2>1, <2>3
       DEF DispatchFails, Goto, Lapse, Accounted, PrintsUnseen, Seen, store
  <2>4. QED
    BY <1>6, <2>2, <2>3 DEF DispatchFails
<1>7. CASE Mark
  BY <1>1, <1>2, <1>7 DEF Mark, Goto, Lapse, Accounted, PrintsUnseen, Seen
<1>8. CASE Crash
  BY <1>1, <1>2, <1>8
     DEF Crash, Lapse, Accounted, PrintsUnseen, Seen, store
<1>9. CASE Online \/ Rebuffer \/ EmitResult
  <2>1. UNCHANGED <<prints, lapses>> /\ DOMAIN done' = DOMAIN done
    BY <1>9 DEF Online, Rebuffer, EmitResult, TakePending, AddPending, store,
                histVars
  <2>2. pc # "mark" /\ pc' \notin {"print", "mark"}
    BY <1>9 DEF Online, Rebuffer, EmitResult, Goto
  <2>3. QED
    BY <1>1, <2>1, <2>2, QuietStep
<1>10. ASSUME [Next]_vars, ~Start, ~ReceiveJob, ~DispatchOK, ~DispatchFails,
              ~Mark, ~Crash, ~(Online \/ Rebuffer \/ EmitResult)
       PROVE  Accounted' /\ PrintsUnseen'
  <2>1. UNCHANGED <<prints, lapses>> /\ UNCHANGED done
    BY <1>10
       DEF Next, AgentStep, BackendStep, vars, histVars, store, BeginSession,
           Connect, SessionOver, Backoff, SendAuthenticate, Authenticated,
           AuthRejected, AuthIgnored, Register, FlushSend, FlushReturns,
           ContextDone, ConnectionClosed, HandleOther, Heartbeat, ConnectFails,
           AuthTimeout, Cancel, Break, Answer, HearResult, SendOther, SendJob,
           Redeliver
  <2>2. pc = "mark" \/ pc' \in {"print", "mark"} => UNCHANGED <<pc, cur>>
    BY <1>10
       DEF Next, AgentStep, BackendStep, vars, agentVars, Goto, EndSession,
           BeginSession, Connect, SessionOver, Backoff, SendAuthenticate,
           Authenticated, AuthRejected, AuthIgnored, Register, FlushSend,
           FlushReturns, ContextDone, ConnectionClosed, HandleOther, Heartbeat,
           ConnectFails, AuthTimeout, Cancel, Break, Answer, HearResult,
           SendOther, SendJob, Redeliver
  <2>3. QED
    BY <1>1, <2>1, <2>2, QuietStep
<1>11. QED
  BY <1>3, <1>4, <1>5, <1>6, <1>7, <1>8, <1>9, <1>10

\* Every print is recorded, about to be recorded, or covered by a lapse.
THEOREM PrintsAreAccounted == Spec => []PrintAccount
<1>1. Init => PrintAccount
  BY LifecycleAssumption DEF Init, StoreInit, PrintAccount, JobInHand, Seen
<1>2. TypeOK /\ PrintAccount /\ [Next]_vars => PrintAccount'
  BY PrintAccountStep
<1>3. QED
  BY <1>1, <1>2, TypeCorrect, PTL DEF Spec

\* Never reprint a known job: as many prints of a job as lapses, plus one.
THEOREM NeverReprintKnownJob == Spec => []ReprintOnlyAfterLapse
<1>1. TypeOK /\ PrintAccount => ReprintOnlyAfterLapse
  BY DEF TypeOK, PrintAccount, ReprintOnlyAfterLapse
<1>2. QED
  BY <1>1, TypeCorrect, PrintsAreAccounted, PTL
-----------------------------------------------------------------------------
(* The machine follows the session.                                        *)

\* Where the Backend has accepted the token, and where serve is reached.
Serving == {"flush", "rebuffer", "serve", "print", "mark", "job_completed",
            "job_failed"}
Accepted == Serving \cup {"register", "online"}

\* What the machine shows at each place of the session.
MachineAt ==
  /\ pc = "top" => machine \in {"STARTING", "RECONNECTING"}
  /\ pc \in {"dial", "hello"} => machine = "CONNECTING"
  /\ pc \in {"auth", "register"} => machine = "AUTHENTICATING"
  /\ pc = "online" => machine = "REGISTERING"
  /\ pc \in Serving => machine = "CONNECTED"
  /\ pc = "ended" => machine \in {"DISCONNECTED", "ERROR"}
  /\ pc = "backoff" => machine = "RECONNECTING"

\* There is a connection exactly inside runOnce, and there is one handshake on
\* it: the token is the first frame sent, the Backend decides once, and
\* authenticated reaches the agent only from a Backend that accepted.
Handshake ==
  /\ pc \in InSession <=> link # "none"
  /\ pc = "hello" => up = <<>> /\ srv = "open"
  /\ \A i \in 1..Len(up) :
       up[i] = Plain("authenticate") => i = 1 /\ srv = "open"
  /\ \A i \in 1..Len(down) :
       down[i] = Plain("authenticated") => srv = "accepted"
  /\ pc \in Accepted => srv = "accepted"

\* The moves of the machine the session relies on, and the one refused: an
\* authentication error is still shown once the session is over.
LEMMA Moves ==
  /\ Transition("STARTING", "CONNECTING") = "CONNECTING"
  /\ Transition("RECONNECTING", "CONNECTING") = "CONNECTING"
  /\ Transition("CONNECTING", "AUTHENTICATING") = "AUTHENTICATING"
  /\ Transition("AUTHENTICATING", "REGISTERING") = "REGISTERING"
  /\ Transition("AUTHENTICATING", "ERROR") = "ERROR"
  /\ Transition("REGISTERING", "CONNECTED") = "CONNECTED"
  /\ Transition("CONNECTING", "DISCONNECTED") = "DISCONNECTED"
  /\ Transition("AUTHENTICATING", "DISCONNECTED") = "DISCONNECTED"
  /\ Transition("CONNECTED", "DISCONNECTED") = "DISCONNECTED"
  /\ Transition("ERROR", "DISCONNECTED") = "ERROR"
  /\ Transition("DISCONNECTED", "RECONNECTING") = "RECONNECTING"
  /\ Transition("ERROR", "RECONNECTING") = "RECONNECTING"
BY DEF Transition, CanTransition, transitions
\* One step of the session keeps the machine where the session is.
LEMMA MachineStep ==
  ASSUME MachineAt, [Next]_vars
  PROVE  MachineAt'
<1> USE Moves DEF MachineAt, Serving
<1>1. CASE UNCHANGED <<pc, machine>>
  BY <1>1
<1>2. CASE Start \/ BeginSession \/ Connect \/ SessionOver \/ Backoff
  BY <1>2 DEF Start, BeginSession, Connect, SessionOver, Backoff, Goto, setState
<1>3. CASE SendAuthenticate
  BY <1>3 DEF SendAuthenticate, EndSession, setState
<1>4. CASE Authenticated \/ Register \/ Online
  BY <1>4 DEF Authenticated, Register, Online, Goto, setState
<1>5. CASE AuthRejected
  BY <1>5 DEF AuthRejected, EndSession
<1>6. CASE ConnectFails \/ AuthTimeout \/ ContextDone \/ ConnectionClosed
  BY <1>6 DEF ConnectFails, AuthTimeout, ContextDone, ConnectionClosed,
              EndSession
<1>7. CASE FlushSend \/ FlushReturns \/ ReceiveJob \/ DispatchOK
           \/ DispatchFails \/ Mark \/ EmitResult
  BY <1>7 DEF FlushSend, FlushReturns, ReceiveJob, DispatchOK, DispatchFails,
              Mark, EmitResult, Goto
<1>8. CASE Crash
  BY <1>8 DEF Crash
<1>9. QED
  BY <1>1, <1>2, <1>3, <1>4, <1>5, <1>6, <1>7, <1>8
     DEF Next, AgentStep, BackendStep, vars, agentVars, AuthIgnored, Rebuffer,
         HandleOther, Heartbeat, Cancel, Break, Answer, HearResult, SendOther,
         SendJob, Redeliver

\* The plain frames are told apart by their type, and none is a job or a result.
LEMMA FramesDiffer ==
  /\ Plain("authenticate") \notin Result
  /\ Plain("authenticated") # Plain("auth_error")
  /\ Plain("authenticated") # Plain("other")
  /\ \A j \in Job : JobFrame(j) # Plain("authenticated")
BY DEF Plain, JobFrame, Result

\* One step of the session keeps the handshake, by what the step does to the
\* link and to the two directions.
LEMMA HandshakeStep ==
  ASSUME TypeOK, JobInHand, Handshake, [Next]_vars
  PROVE  Handshake'
<1> USE FramesDiffer DEF Handshake, Accepted, Serving, InSession
<1>0. /\ up \in Seq(UpFrame) /\ down \in Seq(DownFrame) /\ frames \in Seq(Result)
      /\ link \in {"none", "up", "cut", "dead"}
  BY DEF TypeOK
<1>1. CASE /\ UNCHANGED <<link, up, down, srv>>
           /\ pc' = pc \/ /\ pc' # "hello" /\ (pc \in InSession <=> pc' \in InSession)
                          /\ pc' \in Accepted => pc \in Accepted
  BY <1>1
<1>2. ASSUME NEW from, EndSession(from), UNCHANGED <<up, srv>>
      PROVE  Handshake'
  BY <1>2 DEF EndSession
<1>3. CASE Connect
  BY <1>3 DEF Connect, Goto
<1>4. CASE pc' = "auth" /\ SendAuthenticate
  <2>1. up = <<>> /\ srv = "open" /\ UNCHANGED <<down, srv>>
    BY <1>4 DEF SendAuthenticate, EndSession, srvVars
  <2>2. up' = up \/ up' = Append(<<>>, Plain("authenticate"))
    BY <1>4, <2>1 DEF SendAuthenticate, EndSession, SendOK
  <2>3. link' = link
    BY <1>4 DEF SendAuthenticate, EndSession, SendOK
  <2>4. QED
    BY <1>4, <2>1, <2>2, <2>3 DEF SendAuthenticate
<1>5. CASE Authenticated
  BY <1>0, <1>5 DEF Authenticated, Goto, srvVars
<1>6. CASE AuthIgnored \/ HandleOther \/ ReceiveJob
  <2>1. /\ UNCHANGED <<up, srv>> /\ (link' = "none" <=> link = "none")
        /\ down # <<>> /\ down' = Tail(down)
    BY <1>6 DEF AuthIgnored, HandleOther, ReceiveJob, SendIgnored, srvVars
  <2>2. pc' = pc \/ (pc = "serve" /\ pc' \in {"print", "job_completed"})
    BY <1>6 DEF AuthIgnored, HandleOther, ReceiveJob, agentVars
  <2>3. QED
    BY <1>0, <2>1, <2>2
<1>7. CASE Register \/ Heartbeat
  BY <1>7 DEF Register, Heartbeat, SendIgnored, Goto, srvVars, agentVars
<1>8. CASE FlushSend \/ EmitResult
  <2>1. PICK f \in Result : SendOK(f) \/ SendErr
    <3>1. CASE FlushSend
      BY <1>0, <3>1 DEF FlushSend
    <3>2. CASE EmitResult
      <4>1. [type |-> pc, id |-> cur] \in Result
        BY <3>2 DEF EmitResult, Result, JobInHand, TypeOK
      <4>2. QED
        BY <3>2, <4>1 DEF EmitResult
    <3>3. QED
      BY <1>8, <3>1, <3>2
  <2>2. /\ UNCHANGED <<down, srv>> /\ pc \in Serving /\ pc' \in Serving
    BY <1>8 DEF FlushSend, EmitResult, srvVars
  <2>3. up' = up \/ up' = Append(up, f)
    BY <2>1 DEF SendOK, SendErr
  <2>4. link' = "none" <=> link = "none"
    BY <2>1 DEF SendOK, SendErr
  <2>5. \A i \in 1..Len(up') :
          up'[i] = Plain("authenticate") => i = 1 /\ srv = "open"
    <3>1. f \in UpFrame /\ f # Plain("authenticate")
      BY <2>1, FrameTypes
    <3>2. CASE up' = up
      BY <3>2
    <3>3. CASE up' = Append(up, f)
      <4>1. /\ Len(up') = Len(up) + 1 /\ Len(up) \in Nat
            /\ \A i \in 1..Len(up) : up'[i] = up[i]
            /\ up'[Len(up) + 1] = f
        BY <1>0, <3>1, <3>3
      <4>2. \A i \in 1..Len(up') : i \in 1..Len(up) \/ i = Len(up) + 1
        BY <4>1
      <4>3. QED
        BY <3>1, <4>1, <4>2
    <3>4. QED
      BY <2>3, <3>2, <3>3
  <2>6. QED
    BY <2>2, <2>4, <2>5
<1>9. CASE Crash
  <2>1. /\ pc' = "off" /\ link' = "none" /\ down' = <<>> /\ srv' = srv
        /\ \E n \in 0..Len(up) : up' = SubSeq(up, 1, n)
    BY <1>9 DEF Crash, srvVars
  <2>2. QED
    BY <1>0, <2>1
<1>10. CASE Break
  <2>1. /\ pc' = pc /\ link = "up" /\ link' = "cut" /\ srv' = srv
        /\ \E n \in 0..Len(up) : up' = SubSeq(up, 1, n)
        /\ \E n \in 0..Len(down) : down' = SubSeq(down, 1, n)
    BY <1>10 DEF Break, srvVars, agentVars
  <2>2. QED
    BY <1>0, <2>1
<1>11. CASE Answer
  <2>1. /\ srv = "open" /\ pc \notin Accepted /\ pc # "hello"
        /\ \A i \in 1..Len(down) : down[i] # Plain("authenticated")
    BY <1>0, <1>11 DEF Answer
  <2>2. /\ up # <<>> /\ up' = Tail(up) /\ pc' = pc /\ link' = link
        /\ \/ Reply(Plain("authenticated")) /\ srv' = "accepted"
           \/ Reply(Plain("auth_error"))
    BY <1>11 DEF Answer, agentVars
  <2>3. \A i \in 1..Len(up') : up'[i] # Plain("authenticate")
    BY <1>0, <2>2
  <2>4. \A i \in 1..Len(down') : down'[i] = Plain("authenticated") => srv' = "accepted"
    <3>1. CASE srv' = "accepted"
      BY <3>1
    <3>2. CASE down' = down
      BY <2>1, <3>2
    <3>3. CASE down' = Append(down, Plain("auth_error"))
      BY <1>0, <2>1, <3>3
    <3>4. QED
      BY <2>2, <3>1, <3>2, <3>3 DEF Reply
  <2>5. QED
    BY <2>1, <2>2, <2>3, <2>4
<1>12. CASE HearResult
  BY <1>0, <1>12 DEF HearResult, agentVars
<1>13. ASSUME NEW f \in {JobFrame(j) : j \in Job} \cup {Plain("other")},
              down' = Append(down, f), UNCHANGED <<pc, link, up, srv>>
       PROVE  Handshake'
  BY <1>0, <1>13
<1>14. QED
  <2>1. CASE \/ Start \/ BeginSession \/ SessionOver \/ Backoff \/ Online
             \/ Rebuffer \/ FlushReturns \/ DispatchOK \/ DispatchFails \/ Mark
             \/ Cancel \/ UNCHANGED vars
    BY <1>1, <2>1
       DEF Start, BeginSession, SessionOver, Backoff, Online, Rebuffer,
           FlushReturns, DispatchOK, DispatchFails, Mark, Cancel, Goto, vars,
           agentVars, wireVars, srvVars
  <2>2. CASE \/ ConnectFails \/ AuthRejected \/ AuthTimeout \/ ContextDone
             \/ ConnectionClosed \/ (SendAuthenticate /\ pc' # "auth")
    BY <1>2, <2>2 DEF ConnectFails, AuthRejected, AuthTimeout, ContextDone,
                      ConnectionClosed, SendAuthenticate, srvVars
  <2>3. CASE SendOther \/ \E j \in Job : SendJob(j) \/ Redeliver(j)
    BY <1>13, <2>3 DEF SendOther, SendJob, Redeliver, agentVars, srvVars
  <2>4. QED
    BY <1>3, <1>4, <1>5, <1>6, <1>7, <1>8, <1>9, <1>10, <1>11, <1>12, <2>1,
       <2>2, <2>3
       DEF Next, AgentStep, BackendStep

\* The machine is where the session is, in every reachable state.
THEOREM MachineFollowsSession == Spec => []StateMatchesPhase
<1>1. Init => MachineAt /\ Handshake
  BY DEF Init, MachineAt, Handshake, Serving, Accepted, InSession
<1>2. TypeOK /\ PrintAccount /\ MachineAt /\ Handshake /\ [Next]_vars
        => (MachineAt /\ Handshake)'
  BY MachineStep, HandshakeStep DEF PrintAccount
<1>3. TypeOK /\ MachineAt /\ Handshake => StateMatchesPhase
  BY DEF TypeOK, MachineAt, Handshake, StateMatchesPhase, Place, InSession,
         Serving, Accepted
<1>4. QED
  BY <1>1, <1>2, <1>3, TypeCorrect, PrintsAreAccounted, PTL DEF Spec

-----------------------------------------------------------------------------
(* The buffer.                                                             *)

\* Frames are buffered again only after a Send has failed, which the connection
\* then repeats.
RebufferWhenDead == pc = "rebuffer" => link = "dead"

\* One step of the session buffers nothing while the connection takes writes.
LEMMA BufferStep ==
  ASSUME RebufferWhenDead, BufferOnlyWhenDead, [Next]_vars
  PROVE  RebufferWhenDead' /\ BufferOnlyWhenDead'
<1> USE DEF RebufferWhenDead, BufferOnlyWhenDead, InSession
<1>1. CASE pc' = pc /\ UNCHANGED pending /\ (link = "dead" => link' = "dead")
  BY <1>1
<1>2. CASE pc' \in {"off", "top", "dial", "ended", "backoff", "hello", "auth", "register", "online"}
  BY <1>2
<1>3. CASE Online
  BY <1>3 DEF Online, Goto, TakePending
<1>4. CASE FlushSend
  BY <1>4 DEF FlushSend, SendOK, SendErr, store
<1>5. CASE Rebuffer
  BY <1>5 DEF Rebuffer, wireVars
<1>6. CASE FlushReturns
  BY <1>6 DEF FlushReturns, store, wireVars
<1>7. CASE ReceiveJob
  BY <1>7 DEF ReceiveJob, SendIgnored, store
<1>8. CASE DispatchOK \/ DispatchFails
  BY <1>8 DEF DispatchOK, DispatchFails, Goto, store, wireVars
<1>9. CASE Mark
  BY <1>9 DEF Mark, Goto, MarkDone, wireVars
<1>10. CASE EmitResult
  BY <1>10 DEF EmitResult, SendOK, SendErr, store
<1>11. CASE Heartbeat \/ HandleOther \/ AuthIgnored \/ Cancel \/ Break \/ Answer \/ HearResult
            \/ SendOther \/ UNCHANGED vars
  BY <1>1, <1>11 DEF Heartbeat, HandleOther, AuthIgnored, Cancel, Break, Answer, HearResult,
                     SendOther, SendIgnored, vars, agentVars, wireVars, store
<1>12. ASSUME NEW j \in Job, SendJob(j) \/ Redeliver(j) PROVE RebufferWhenDead' /\ BufferOnlyWhenDead'
  BY <1>1, <1>12 DEF SendJob, Redeliver, agentVars, store
<1>13. CASE \/ Start \/ BeginSession \/ Connect \/ ConnectFails \/ SessionOver \/ Backoff
            \/ SendAuthenticate \/ Authenticated \/ AuthRejected \/ AuthTimeout \/ Register
            \/ ContextDone \/ ConnectionClosed \/ Crash
  BY <1>2, <1>13 DEF Start, BeginSession, Connect, ConnectFails, SessionOver, Backoff,
       SendAuthenticate, Authenticated, AuthRejected, AuthTimeout, Register,
       ContextDone, ConnectionClosed, Crash, EndSession, Goto
<1>14. QED
  BY <1>3, <1>4, <1>5, <1>6, <1>7, <1>8, <1>9, <1>10, <1>11, <1>12, <1>13
     DEF Next, AgentStep, BackendStep

LEMMA BufferHolds == Spec => [](RebufferWhenDead /\ BufferOnlyWhenDead)
<1>1. Init => RebufferWhenDead /\ BufferOnlyWhenDead
  BY DEF Init, RebufferWhenDead, BufferOnlyWhenDead, InSession
<1>2. QED
  BY <1>1, BufferStep, PTL DEF Spec

\* While a session serves, a result is in the buffer only because the connection
\* refuses every write: on one that works, none is overtaken.
THEOREM BufferedOnlyWhenDead == Spec => []BufferOnlyWhenDead
BY BufferHolds, PTL

-----------------------------------------------------------------------------
(* What is reported as completed.                                          *)

\* The completed jobs s speaks of were printed, by the counts p.
Honest(s, p) == \A i \in 1 .. Len(s) : s[i].type = "job_completed" => p[s[i].id] > 0

\* Everything on its way to the Backend is honest, and everything that makes the
\* agent say "completed" later: the record, in memory and in the file, and the job
\* in hand once it is printed.
Reported ==
  /\ Honest(frames, prints) /\ Honest(pending, prints) /\ Honest(disk.pending, prints)
  /\ Honest(up, prints)
  /\ \A j \in DOMAIN done \cup DOMAIN disk.done : prints[j] > 0
  /\ \A j \in Job : verdict[j] = "job_completed" => prints[j] > 0
  /\ pc \in {"mark", "job_completed"} => prints[cur] > 0

\* Honest queues stay honest when they grow by an honest frame, lose frames at
\* either end, or when more is printed.
LEMMA HonestAppend ==
  ASSUME NEW S, NEW s \in Seq(S), NEW f \in S, NEW p, Honest(s, p),
         f.type = "job_completed" => p[f.id] > 0
  PROVE  Honest(Append(s, f), p)
<1>1. /\ Len(Append(s, f)) = Len(s) + 1 /\ Len(s) \in Nat
      /\ \A i \in 1 .. Len(s) : Append(s, f)[i] = s[i]
      /\ Append(s, f)[Len(s) + 1] = f
  OBVIOUS
<1>2. QED
  BY <1>1 DEF Honest

LEMMA HonestTail ==
  ASSUME NEW S, NEW s \in Seq(S), s # <<>>, NEW p, Honest(s, p)
  PROVE  Honest(Tail(s), p) /\ (Head(s).type = "job_completed" => p[Head(s).id] > 0)
<1>1. /\ Len(Tail(s)) = Len(s) - 1 /\ Len(s) \in Nat \ {0} /\ Head(s) = s[1]
      /\ \A i \in 1 .. Len(s) - 1 : Tail(s)[i] = s[i + 1]
  OBVIOUS
<1>2. QED
  BY <1>1 DEF Honest

LEMMA HonestPrefix ==
  ASSUME NEW S, NEW s \in Seq(S), NEW n \in 0 .. Len(s), NEW p, Honest(s, p)
  PROVE  Honest(SubSeq(s, 1, n), p)
<1>1. /\ Len(SubSeq(s, 1, n)) = n
      /\ \A i \in 1 .. n : SubSeq(s, 1, n)[i] = s[i]
  OBVIOUS
<1>2. QED
  BY <1>1 DEF Honest

LEMMA HonestEmpty ==
  ASSUME NEW p
  PROVE  Honest(<<>>, p)
BY DEF Honest

\* The frames of both queues that speak of a job, speak of one of Job.
LEMMA HonestGrows ==
  ASSUME NEW s \in Seq(UpFrame), NEW p \in [Job -> Nat], NEW q \in [Job -> Nat],
         \A j \in Job : p[j] <= q[j], Honest(s, p)
  PROVE  Honest(s, q)
<1>1. ASSUME NEW i \in 1 .. Len(s), s[i].type = "job_completed"
      PROVE  s[i].id \in Job
  <2>1. s[i] \in UpFrame
    OBVIOUS
  <2>2. QED
    BY <1>1, <2>1 DEF UpFrame, Result, Plain
<1>2. QED
  BY <1>1 DEF Honest

\* What an action may leave in each place a result can be in.
LEMMA FramesAfter ==
  ASSUME [Next]_vars
  PROVE  frames' \in {frames, pending, <<>>} \/ (frames # <<>> /\ frames' = Tail(frames))
BY DEF Next, AgentStep, BackendStep, EndSession, vars,
       agentVars, Start, BeginSession, Connect, SessionOver, Backoff,
       SendAuthenticate, Authenticated, AuthRejected, AuthIgnored, Register,
       Online, FlushSend, Rebuffer, FlushReturns, ContextDone, ConnectionClosed,
       HandleOther, ReceiveJob, DispatchOK, DispatchFails, Mark, EmitResult,
       Heartbeat, ConnectFails, AuthTimeout, Cancel, Crash, Break, Answer,
       HearResult, SendOther, SendJob, Redeliver

\* The result emitResult builds.
Emitted == [type |-> pc, id |-> cur]

LEMMA PendingAfter ==
  ASSUME [Next]_vars
  PROVE  /\ \/ pending' \in {pending, disk.pending, <<>>}
            \/ frames # <<>> /\ pending' = Append(pending, Head(frames))
            \/ pc \in {"job_completed", "job_failed"} /\ pending' = Append(pending, Emitted)
         /\ disk'.pending \in {disk.pending, pending'}
<1>1. CASE UNCHANGED store
  BY <1>1 DEF store
<1>2. CASE Start
  BY <1>2 DEF Start, load
<1>3. CASE Online
  BY <1>3 DEF Online, TakePending, persist
<1>4. CASE Rebuffer
  BY <1>4 DEF Rebuffer, AddPending, persist
<1>5. CASE Mark
  BY <1>5 DEF Mark, MarkDone, persist
<1>6. CASE EmitResult
  BY <1>6 DEF EmitResult, Emitted, AddPending, persist, store
<1>7. QED
  BY <1>1, <1>2, <1>3, <1>4, <1>5, <1>6
     DEF Next, AgentStep, BackendStep, vars, BeginSession, Connect, SessionOver, Backoff,
         SendAuthenticate, Authenticated, AuthRejected, AuthIgnored, Register,
         FlushSend, FlushReturns, ContextDone, ConnectionClosed,
         HandleOther, ReceiveJob, DispatchOK, DispatchFails,
         Heartbeat, ConnectFails, AuthTimeout, Cancel, Crash, Break, Answer,
         HearResult, SendOther, SendJob, Redeliver

LEMMA DoneAfter ==
  ASSUME TypeOK, JobInHand, [Next]_vars
  PROVE  /\ \/ DOMAIN done' \subseteq DOMAIN done \cup DOMAIN disk.done
            \/ pc = "mark" /\ DOMAIN done' \subseteq DOMAIN done \cup {cur}
         /\ disk'.done = disk.done \/ disk'.done = done'
<1>1. CASE UNCHANGED store
  BY <1>1 DEF store
<1>2. CASE Start
  BY <1>2 DEF Start, load
<1>3. CASE Online
  BY <1>3 DEF Online, TakePending, persist
<1>4. CASE Rebuffer
  BY <1>4 DEF Rebuffer, AddPending, persist
<1>5. CASE Mark
  <2>1. PICK now \in Clock : MarkDone(cur, now)
    BY <1>5 DEF Mark
  <2>2. cur \in Job /\ now \in Nat /\ StoreTypeOK
    BY <1>5, LifecycleAssumption DEF Mark, Goto, JobInHand, TypeOK
  <2>3. DOMAIN done' \subseteq DOMAIN done \cup {cur}
    BY <2>1, <2>2, MarkDoneType
  <2>4. disk'.done = disk.done \/ disk'.done = done'
    BY <2>1 DEF MarkDone, persist
  <2>5. QED
    BY <1>5, <2>3, <2>4 DEF Mark, Goto
<1>6. CASE EmitResult
  BY <1>6 DEF EmitResult, AddPending, persist, store
<1>7. QED
  BY <1>1, <1>2, <1>3, <1>4, <1>5, <1>6
     DEF Next, AgentStep, BackendStep, vars, BeginSession, Connect, SessionOver, Backoff,
         SendAuthenticate, Authenticated, AuthRejected, AuthIgnored, Register,
         FlushSend, FlushReturns, ContextDone, ConnectionClosed,
         HandleOther, ReceiveJob, DispatchOK, DispatchFails,
         Heartbeat, ConnectFails, AuthTimeout, Cancel, Crash, Break, Answer,
         HearResult, SendOther, SendJob, Redeliver

LEMMA UpAfter ==
  ASSUME [Next]_vars
  PROVE  \/ up' \in {up, <<>>}
         \/ up' = Append(up, Plain("authenticate"))
         \/ frames # <<>> /\ up' = Append(up, Head(frames))
         \/ pc \in {"job_completed", "job_failed"} /\ up' = Append(up, Emitted)
         \/ up # <<>> /\ up' = Tail(up)
         \/ \E n \in 0 .. Len(up) : up' = SubSeq(up, 1, n)
BY DEF Next, AgentStep, BackendStep, SendOK, SendErr, SendIgnored, Emitted, vars,
       wireVars, Start, BeginSession, Connect, SessionOver, Backoff,
       SendAuthenticate, Authenticated, AuthRejected, AuthIgnored, Register,
       Online, FlushSend, Rebuffer, FlushReturns, ContextDone, ConnectionClosed,
       HandleOther, ReceiveJob, DispatchOK, DispatchFails, Mark, EmitResult,
       Heartbeat, ConnectFails, AuthTimeout, Cancel, Crash, Break, Answer,
       HearResult, SendOther, SendJob, Redeliver

\* Prints are only added, and the one DispatchOK adds is that of the job in hand.
LEMMA PrintsAfter ==
  ASSUME TypeOK, JobInHand, [Next]_vars
  PROVE  \A j \in Job : prints[j] <= prints'[j]
<1>1. CASE UNCHANGED prints
  BY <1>1 DEF TypeOK
<1>2. CASE prints' = [prints EXCEPT ![cur] = @ + 1]
  BY <1>2 DEF TypeOK
<1>3. QED
  BY <1>1, <1>2
     DEF Next, AgentStep, BackendStep, vars, histVars, Start, BeginSession, Connect, SessionOver, Backoff,
         SendAuthenticate, Authenticated, AuthRejected, AuthIgnored, Register,
         Online, FlushSend, Rebuffer, FlushReturns, ContextDone, ConnectionClosed,
         HandleOther, ReceiveJob, DispatchOK, DispatchFails, Mark, EmitResult,
         Heartbeat, ConnectFails, AuthTimeout, Cancel, Crash, Break, Answer,
         HearResult, SendOther, SendJob, Redeliver

\* A job comes to be reported as completed on its record, or once it is printed.
LEMMA HandAfter ==
  ASSUME TypeOK, JobInHand, [Next]_vars, pc' \in {"mark", "job_completed"}
  PROVE  \/ pc \in {"mark", "job_completed"} /\ cur' = cur
         \/ cur' \in DOMAIN done
         \/ cur' = cur /\ cur \in Job /\ prints' = [prints EXCEPT ![cur] = @ + 1]
BY DEF Next, AgentStep, BackendStep, EndSession, vars, Goto, Seen, TypeOK, JobInHand,
       agentVars, Start, BeginSession, Connect, SessionOver, Backoff,
       SendAuthenticate, Authenticated, AuthRejected, AuthIgnored, Register,
       Online, FlushSend, Rebuffer, FlushReturns, ContextDone, ConnectionClosed,
       HandleOther, ReceiveJob, DispatchOK, DispatchFails, Mark, EmitResult,
       Heartbeat, ConnectFails, AuthTimeout, Cancel, Crash, Break, Answer,
       HearResult, SendOther, SendJob, Redeliver

\* The Backend completes a job when it reads that it is.
LEMMA VerdictAfter ==
  ASSUME TypeOK, [Next]_vars, NEW j \in Job, verdict'[j] = "job_completed"
  PROVE  \/ verdict[j] = "job_completed"
         \/ up # <<>> /\ Head(up).type = "job_completed" /\ Head(up).id = j
<1>1. CASE UNCHANGED verdict
  BY <1>1
<1>2. CASE HearResult
  BY <1>2 DEF HearResult, TypeOK
<1>3. QED
  BY <1>1, <1>2
     DEF Next, AgentStep, BackendStep, vars, srvVars, Start, BeginSession, Connect, SessionOver, Backoff,
         SendAuthenticate, Authenticated, AuthRejected, AuthIgnored, Register,
         Online, FlushSend, Rebuffer, FlushReturns, ContextDone, ConnectionClosed,
         HandleOther, ReceiveJob, DispatchOK, DispatchFails, Mark, EmitResult,
         Heartbeat, ConnectFails, AuthTimeout, Cancel, Crash, Break, Answer,
         SendOther, SendJob, Redeliver

\* One step of the session reports nothing that was not printed.
LEMMA ReportedStep ==
  ASSUME TypeOK, TypeOK', JobInHand, Reported, [Next]_vars
  PROVE  Reported'
<1>1. /\ frames \in Seq(Result) /\ pending \in Seq(Result) /\ disk.pending \in Seq(Result)
      /\ up \in Seq(UpFrame) /\ Result \subseteq UpFrame
      /\ prints \in [Job -> Nat] /\ prints' \in [Job -> Nat]
      /\ \A j \in Job : prints[j] <= prints'[j]
  BY PrintsAfter, FrameTypes DEF TypeOK, StoreTypeOK
<1>2. /\ Honest(frames, prints) /\ Honest(pending, prints) /\ Honest(disk.pending, prints)
      /\ Honest(up, prints) /\ Honest(<<>>, prints)
  BY HonestEmpty DEF Reported
<1>3. pc \in {"job_completed", "job_failed"} =>
        /\ Emitted \in Result
        /\ Emitted.type = "job_completed" => prints[Emitted.id] > 0
  BY DEF Emitted, Result, Reported, JobInHand, TypeOK
<1>4. frames # <<>> =>
        /\ Head(frames) \in Result /\ Honest(Tail(frames), prints)
        /\ Head(frames).type = "job_completed" => prints[Head(frames).id] > 0
  BY <1>1, <1>2, HonestTail
<1>5. Honest(frames', prints)
  BY <1>2, <1>4, FramesAfter
<1>6. Honest(pending', prints)
  <2>1. CASE pending' \in {pending, disk.pending, <<>>}
    BY <1>2, <2>1
  <2>2. CASE frames # <<>> /\ pending' = Append(pending, Head(frames))
    BY <1>1, <1>2, <1>4, <2>2, HonestAppend
  <2>3. CASE pc \in {"job_completed", "job_failed"} /\ pending' = Append(pending, Emitted)
    BY <1>1, <1>2, <1>3, <2>3, HonestAppend
  <2>4. QED
    BY <2>1, <2>2, <2>3, PendingAfter
<1>7. Honest(disk'.pending, prints)
  BY <1>2, <1>6, PendingAfter
<1>8. Honest(up', prints)
  <2>1. CASE up' \in {up, <<>>}
    BY <1>2, <2>1
  <2>2. CASE up' = Append(up, Plain("authenticate"))
    <3>1. Plain("authenticate") \in UpFrame /\ Plain("authenticate").type # "job_completed"
      BY FrameTypes DEF Plain
    <3>2. QED
      BY <1>1, <1>2, <2>2, <3>1, HonestAppend
  <2>3. CASE frames # <<>> /\ up' = Append(up, Head(frames))
    <3>1. Head(frames) \in UpFrame
      BY <1>1, <1>4, <2>3
    <3>2. QED
      BY <1>1, <1>2, <1>4, <2>3, <3>1, HonestAppend
  <2>4. CASE pc \in {"job_completed", "job_failed"} /\ up' = Append(up, Emitted)
    <3>1. Emitted \in UpFrame /\ (Emitted.type = "job_completed" => prints[Emitted.id] > 0)
      BY <1>1, <1>3, <2>4
    <3>2. QED
      BY <1>1, <1>2, <2>4, <3>1, HonestAppend
  <2>5. CASE up # <<>> /\ up' = Tail(up)
    BY <1>1, <1>2, <2>5, HonestTail
  <2>6. CASE \E n \in 0 .. Len(up) : up' = SubSeq(up, 1, n)
    BY <1>1, <1>2, <2>6, HonestPrefix
  <2>7. QED
    BY <2>1, <2>2, <2>3, <2>4, <2>5, <2>6, UpAfter
<1>9. /\ Honest(frames', prints') /\ Honest(pending', prints') /\ Honest(disk'.pending, prints')
      /\ Honest(up', prints')
  <2>1. /\ frames' \in Seq(UpFrame) /\ pending' \in Seq(UpFrame) /\ disk'.pending \in Seq(UpFrame)
        /\ up' \in Seq(UpFrame)
    <3>1. frames' \in Seq(Result) /\ pending' \in Seq(Result) /\ disk'.pending \in Seq(Result)
      BY FrameTypes DEF TypeOK, StoreTypeOK
    <3>2. \A s \in Seq(Result) : s \in Seq(UpFrame)
      BY <1>1
    <3>3. up' \in Seq(UpFrame)
      BY DEF TypeOK
    <3>4. QED
      BY <3>1, <3>2, <3>3
  <2>2. QED
    BY <1>1, <1>5, <1>6, <1>7, <1>8, <2>1, HonestGrows
<1>10. ASSUME NEW j \in DOMAIN done' \cup DOMAIN disk'.done PROVE prints'[j] > 0
  <2>1. /\ DOMAIN done \subseteq Job /\ DOMAIN disk.done \subseteq Job
        /\ \A k \in DOMAIN done \cup DOMAIN disk.done : prints[k] > 0
    BY DEF TypeOK, StoreTypeOK, IsDoneMap, Reported
  <2>2. j \in DOMAIN done \cup DOMAIN disk.done \/ (pc = "mark" /\ j = cur)
    BY <1>10, DoneAfter
  <2>3. pc = "mark" => cur \in Job /\ prints[cur] > 0
    BY DEF JobInHand, Reported, TypeOK
  <2>4. QED
    BY <1>1, <2>1, <2>2, <2>3
<1>11. ASSUME NEW j \in Job, verdict'[j] = "job_completed" PROVE prints'[j] > 0
  <2>1. prints[j] > 0
    BY <1>1, <1>2, <1>11, VerdictAfter, HonestTail DEF Reported
  <2>2. QED
    BY <1>1, <2>1
<1>12. ASSUME pc' \in {"mark", "job_completed"} PROVE prints'[cur'] > 0
  <2>1. CASE pc \in {"mark", "job_completed"} /\ cur' = cur
    BY <1>1, <2>1 DEF Reported, JobInHand, TypeOK
  <2>2. CASE cur' \in DOMAIN done
    <3>1. cur' \in Job /\ prints[cur'] > 0
      BY <2>2 DEF Reported, TypeOK, StoreTypeOK, IsDoneMap
    <3>2. prints[cur'] \in Nat /\ prints'[cur'] \in Nat /\ prints[cur'] <= prints'[cur']
      BY <1>1, <3>1
    <3>3. QED
      BY <3>1, <3>2
  <2>3. CASE cur' = cur /\ cur \in Job /\ prints' = [prints EXCEPT ![cur] = @ + 1]
    BY <1>1, <2>3
  <2>4. QED
    BY <1>12, <2>1, <2>2, <2>3, HandAfter
<1>13. QED
  BY <1>9, <1>10, <1>11, <1>12 DEF Reported

\* What is reported is honest in every reachable state.
LEMMA ReportedHolds == Spec => []Reported
<1>1. Init => Reported
  <2> SUFFICES ASSUME Init PROVE Reported
    OBVIOUS
  <2>1. /\ frames = <<>> /\ pending = <<>> /\ disk.pending = <<>> /\ up = <<>>
        /\ DOMAIN done = {} /\ DOMAIN disk.done = {} /\ pc = "off"
        /\ \A j \in Job : verdict[j] = "none"
    BY DEF Init, StoreInit
  <2>2. QED
    BY <2>1, HonestEmpty DEF Reported
<1>2. TypeOK /\ TypeOK' /\ PrintAccount /\ Reported /\ [Next]_vars => Reported'
  BY ReportedStep DEF PrintAccount
<1>3. QED
  BY <1>1, <1>2, TypeCorrect, PrintsAreAccounted, PTL DEF Spec

\* Nothing says "completed" of a job that did not reach paper: not on the wire, in
\* the buffer, in the file, in the agent's hand, or at the Backend.
THEOREM CompletedMeansPrinted == Spec => []CompletedWasPrinted
<1>1. TypeOK /\ Reported => CompletedWasPrinted
  <2> SUFFICES ASSUME TypeOK, Reported PROVE CompletedWasPrinted
    OBVIOUS
  <2>1. ASSUME NEW s \in {frames, pending, disk.pending, up},
               NEW i \in DOMAIN s, s[i].type = "job_completed"
        PROVE  prints[s[i].id] > 0
    <3>1. Honest(s, prints) /\ i \in 1 .. Len(s)
      BY <2>1, FrameTypes DEF Reported, TypeOK, StoreTypeOK
    <3>2. QED
      BY <2>1, <3>1 DEF Honest
  <2>2. QED
    BY <2>1 DEF CompletedWasPrinted, Reported
<1>2. QED
  BY <1>1, TypeCorrect, ReportedHolds, PTL

-----------------------------------------------------------------------------
(* The order of the results of a job.                                      *)

\* s holds the result t of j; no failure of j follows its completion in s; ... nor in t
\* what s completes.
Has(s, t, j) == \E i \in 1 .. Len(s) : s[i].type = t /\ s[i].id = j
InOrder(s, j) ==
  \A i \in 1 .. Len(s) : \A k \in i .. Len(s) :
    ~ /\ s[i].type = "job_completed" /\ s[i].id = j
      /\ s[k].type = "job_failed" /\ s[k].id = j
Before(s, t, j) == Has(s, "job_completed", j) => ~ Has(t, "job_failed", j)

LEMMA HasAppend ==
  ASSUME NEW S, NEW s \in Seq(S), NEW f \in S, NEW j
  PROVE  /\ \A t : Has(Append(s, f), t, j) <=> Has(s, t, j) \/ (f.type = t /\ f.id = j)
         /\ InOrder(s, j)
              /\ (f.type = "job_failed" /\ f.id = j => ~ Has(s, "job_completed", j))
              => InOrder(Append(s, f), j)
<1>1. /\ Len(Append(s, f)) = Len(s) + 1 /\ Len(s) \in Nat
      /\ \A i \in 1 .. Len(s) : Append(s, f)[i] = s[i]
      /\ Append(s, f)[Len(s) + 1] = f
  OBVIOUS
<1>2. QED
  BY <1>1 DEF Has, InOrder

LEMMA HasTail ==
  ASSUME NEW S, NEW s \in Seq(S), s # <<>>, NEW j
  PROVE  /\ \A t : Has(Tail(s), t, j) => Has(s, t, j)
         /\ \A t : Head(s).type = t /\ Head(s).id = j => Has(s, t, j)
         /\ InOrder(s, j) =>
              /\ InOrder(Tail(s), j)
              /\ Head(s).type = "job_completed" /\ Head(s).id = j
                   => ~ Has(Tail(s), "job_failed", j)
<1>1. /\ Len(Tail(s)) = Len(s) - 1 /\ Len(s) \in Nat \ {0} /\ Head(s) = s[1]
      /\ \A i \in 1 .. Len(s) - 1 : Tail(s)[i] = s[i + 1]
  OBVIOUS
<1>2. QED
  BY <1>1 DEF Has, InOrder

LEMMA HasPrefix ==
  ASSUME NEW S, NEW s \in Seq(S), NEW n \in 0 .. Len(s), NEW j
  PROVE  /\ \A t : Has(SubSeq(s, 1, n), t, j) => Has(s, t, j)
         /\ InOrder(s, j) => InOrder(SubSeq(s, 1, n), j)
<1>1. /\ Len(SubSeq(s, 1, n)) = n /\ Len(s) \in Nat
      /\ \A i \in 1 .. n : SubSeq(s, 1, n)[i] = s[i]
  OBVIOUS
<1>2. QED
  BY <1>1 DEF Has, InOrder

LEMMA HasEmpty ==
  ASSUME NEW j
  PROVE  (\A t : ~ Has(<<>>, t, j)) /\ InOrder(<<>>, j)
BY DEF Has, InOrder

\* The results of a job without a lapse are in order through what is in flight, in the
\* buffer and in the hands of flushPending, and after what the Backend heard.
OrderOf(j) ==
  /\ InOrder(up, j) /\ InOrder(pending, j) /\ InOrder(frames, j)
  /\ Before(up, pending, j) /\ Before(up, frames, j) /\ Before(pending, frames, j)
  /\ verdict[j] = "job_completed" =>
       \A s \in {up, pending, frames} : ~ Has(s, "job_failed", j)

Ordered == \A j \in Job : lapses[j] = 0 => OrderOf(j)

\* flushPending starts with an empty buffer, and only it has frames in hand.
Flushing ==
  /\ frames # <<>> => pc \in {"flush", "rebuffer"}
  /\ pc = "flush" => pending = <<>>

FileIsMemory == disk = [done |-> done, pending |-> pending]

\* A job without a lapse is on record once it is printed, and reported as failed only if
\* it was not.
RecordKept ==
  \A j \in Job : lapses[j] = 0 /\ prints[j] > 0 => Seen(j) \/ (pc = "mark" /\ cur = j)
FailsUnprinted == pc = "job_failed" /\ lapses[cur] = 0 => prints[cur] = 0

\* Lapses only add up.
LEMMA LapsesAfter ==
  ASSUME TypeOK, [Next]_vars
  PROVE  \A j \in Job : lapses'[j] = 0 => lapses[j] = 0
<1>1. CASE UNCHANGED lapses
  BY <1>1
<1>2. ASSUME NEW S, Lapse(S) PROVE \A j \in Job : lapses'[j] = 0 => lapses[j] = 0
  BY <1>2 DEF Lapse, TypeOK
<1>3. CASE Start \/ Mark \/ Crash
  BY <1>2, <1>3 DEF Start, Mark, Crash
<1>4. CASE DispatchFails
  BY <1>1, <1>2, <1>4 DEF DispatchFails, histVars
<1>5. QED
  BY <1>1, <1>3, <1>4
     DEF Next, AgentStep, BackendStep, vars, histVars, BeginSession,
         Connect, SessionOver, Backoff, SendAuthenticate, Authenticated,
         AuthRejected, AuthIgnored, Register, Online, FlushSend, Rebuffer, FlushReturns,
         ContextDone, ConnectionClosed, HandleOther, ReceiveJob, DispatchOK, EmitResult,
         Heartbeat, ConnectFails,
         AuthTimeout, Cancel, Break, Answer, HearResult, SendOther, SendJob, Redeliver

LEMMA FlushingStep ==
  ASSUME Flushing, [Next]_vars
  PROVE  Flushing'
<1>1. CASE FlushSend
  BY <1>1 DEF FlushSend, Flushing, store
<1>2. CASE Online
  BY <1>2 DEF Online, Goto, TakePending, Flushing
<1>3. CASE Rebuffer
  BY <1>3 DEF Rebuffer, Flushing
<1>4. CASE Start \/ EmitResult \/ Mark
  BY <1>4 DEF Start, EmitResult, Mark, Goto, Flushing
<1>5. QED
  BY <1>1, <1>2, <1>3, <1>4
     DEF Flushing, Next, AgentStep, BackendStep, EndSession, Goto, vars, agentVars, store,
       BeginSession, Connect, SessionOver, Backoff,
       SendAuthenticate, Authenticated, AuthRejected, AuthIgnored, Register,
       FlushReturns, ContextDone, ConnectionClosed,
       HandleOther, ReceiveJob, DispatchOK, DispatchFails,
       Heartbeat, ConnectFails, AuthTimeout, Cancel, Crash, Break, Answer,
       HearResult, SendOther, SendJob, Redeliver

LEMMA FileStep ==
  ASSUME ~ FileFails, FileIsMemory, [Next]_vars
  PROVE  FileIsMemory'
<1>1. CASE UNCHANGED store
  BY <1>1 DEF store, FileIsMemory
<1>2. CASE Start
  BY <1>2 DEF Start, load, FileIsMemory
<1>3. CASE Online
  BY <1>3 DEF Online, TakePending, persist, FileIsMemory
<1>4. CASE Rebuffer
  BY <1>4 DEF Rebuffer, AddPending, persist, FileIsMemory
<1>5. CASE Mark
  BY <1>5 DEF Mark, MarkDone, persist, FileIsMemory
<1>6. CASE EmitResult
  BY <1>1, <1>6 DEF EmitResult, AddPending, persist, FileIsMemory
<1>7. QED
  BY <1>1, <1>2, <1>3, <1>4, <1>5, <1>6
     DEF Next, AgentStep, BackendStep, vars, BeginSession, Connect, SessionOver, Backoff,
         SendAuthenticate, Authenticated, AuthRejected, AuthIgnored, Register,
         FlushSend, FlushReturns, ContextDone, ConnectionClosed,
         HandleOther, ReceiveJob, DispatchOK, DispatchFails,
         Heartbeat, ConnectFails, AuthTimeout, Cancel, Crash, Break, Answer,
         HearResult, SendOther, SendJob, Redeliver

\* A print goes on record, or is a lapse.
LEMMA RecordStep ==
  ASSUME TypeOK, PrintAccount, RecordKept, [Next]_vars
  PROVE  RecordKept'
<1>1. prints \in [Job -> Nat] /\ lapses \in [Job -> Nat]
      /\ \A j \in Job : lapses'[j] = 0 => lapses[j] = 0
  BY LapsesAfter DEF TypeOK
<1>2. CASE Start
  BY <1>1, <1>2 DEF Start, Goto, Lapse, RecordKept, Seen
<1>3. CASE Mark
  BY <1>1, <1>3 DEF Mark, Goto, Lapse, RecordKept, Seen
<1>4. CASE Crash
  BY <1>1, <1>4 DEF Crash, Lapse, RecordKept, Seen, store
<1>5. CASE DispatchOK
  BY <1>1, <1>5 DEF DispatchOK, Goto, RecordKept, Seen, store
<1>6. CASE DispatchFails
  <2>1. CASE UNCHANGED <<histVars, faults>>
    BY <1>6, <2>1 DEF DispatchFails, Goto, RecordKept, Seen, store, histVars
  <2>2. CASE prints' = [prints EXCEPT ![cur] = @ + 1] /\ Lapse({cur})
    BY <1>1, <1>6, <2>2 DEF DispatchFails, Goto, Lapse, RecordKept, Seen, store
  <2>3. QED
    BY <1>6, <2>1, <2>2 DEF DispatchFails
<1>7. ASSUME [Next]_vars, ~Start, ~Mark, ~Crash, ~DispatchOK, ~DispatchFails
      PROVE  RecordKept'
  <2>1. UNCHANGED <<prints, lapses>> /\ DOMAIN done' = DOMAIN done
        /\ (pc = "mark" => UNCHANGED <<pc, cur>>)
    BY <1>7
       DEF Next, AgentStep, BackendStep, vars, agentVars, histVars, store, Goto, BeginSession,
           Connect, SessionOver, Backoff, SendAuthenticate, Authenticated,
           AuthRejected, AuthIgnored, Register, Online, TakePending, FlushSend, Rebuffer,
           AddPending, FlushReturns,
           ContextDone, ConnectionClosed, HandleOther, ReceiveJob, EmitResult, Heartbeat, ConnectFails,
           AuthTimeout, Cancel, Break, Answer, HearResult, SendOther, SendJob,
           Redeliver
  <2>2. QED
    BY <2>1 DEF RecordKept, Seen
<1>8. QED
  BY <1>2, <1>3, <1>4, <1>5, <1>6, <1>7

LEMMA FailsStep ==
  ASSUME TypeOK, PrintAccount, RecordKept, FailsUnprinted, [Next]_vars
  PROVE  FailsUnprinted'
<1>1. prints \in [Job -> Nat] /\ lapses \in [Job -> Nat]
  BY DEF TypeOK
<1>2. CASE DispatchFails
  <2>1. cur \in Job /\ ~ Seen(cur) /\ pc = "print" /\ cur' = cur
    BY <1>2 DEF DispatchFails, Goto, PrintAccount, JobInHand, TypeOK
  <2>2. lapses[cur] = 0 => prints[cur] = 0
    BY <1>1, <2>1 DEF RecordKept
  <2>3. CASE UNCHANGED <<histVars, faults>>
    BY <2>1, <2>2, <2>3 DEF histVars, FailsUnprinted
  <2>4. CASE prints' = [prints EXCEPT ![cur] = @ + 1] /\ Lapse({cur})
    BY <1>1, <2>1, <2>4 DEF Lapse, FailsUnprinted
  <2>5. QED
    BY <1>2, <2>3, <2>4 DEF DispatchFails
<1>3. CASE pc' # "job_failed"
  BY <1>3 DEF FailsUnprinted
<1>4. CASE UNCHANGED <<pc, cur, prints, lapses>>
  BY <1>4 DEF FailsUnprinted
<1>5. QED
  BY <1>2, <1>3, <1>4
     DEF Next, AgentStep, BackendStep, EndSession, Goto, vars, agentVars, histVars,
       Start, BeginSession, Connect, SessionOver, Backoff,
       SendAuthenticate, Authenticated, AuthRejected, AuthIgnored, Register,
       Online, FlushSend, Rebuffer, FlushReturns, ContextDone, ConnectionClosed,
       HandleOther, ReceiveJob, DispatchOK, Mark, EmitResult,
       Heartbeat, ConnectFails, AuthTimeout, Cancel, Crash, Break, Answer,
       HearResult, SendOther, SendJob, Redeliver

\* Losing results keeps the others in order.
LEMMA OrderShrinks ==
  ASSUME NEW j, OrderOf(j), UNCHANGED verdict,
         \A t \in {"job_completed", "job_failed"} : Has(up', t, j) => Has(up, t, j),
         InOrder(up', j), pending' \in {pending, <<>>}, frames' \in {frames, <<>>}
  PROVE  OrderOf(j)'
BY HasEmpty DEF OrderOf, Before

LEMMA OrderedStep ==
  ASSUME TypeOK, PrintAccount, Reported, BufferOnlyWhenDead, RebufferWhenDead, Flushing,
         FileIsMemory, RecordKept, FailsUnprinted, Ordered, ~ FileFails, [Next]_vars
  PROVE  Ordered'
<1> SUFFICES ASSUME NEW j \in Job, lapses'[j] = 0
             PROVE  OrderOf(j)'
  BY DEF Ordered
<1>1. lapses[j] = 0 /\ OrderOf(j)
  BY LapsesAfter DEF Ordered
<1>2. /\ up \in Seq(UpFrame) /\ pending \in Seq(Result) /\ frames \in Seq(Result)
      /\ Result \subseteq UpFrame
  BY FrameTypes DEF TypeOK, StoreTypeOK
<1>3. /\ InOrder(up, j) /\ InOrder(pending, j) /\ InOrder(frames, j)
      /\ Before(up, pending, j) /\ Before(up, frames, j) /\ Before(pending, frames, j)
      /\ verdict[j] = "job_completed" =>
           \A s \in {up, pending, frames} : ~ Has(s, "job_failed", j)
  BY <1>1 DEF OrderOf
<1>4. CASE HearResult
  <2>1. /\ up # <<>> /\ up' = Tail(up) /\ Head(up) \in Result
        /\ verdict' = [verdict EXCEPT ![Head(up).id] = Head(up).type]
        /\ UNCHANGED <<pending, frames>>
    BY <1>4 DEF HearResult, agentVars, store
  <2>2. /\ \A t : Has(Tail(up), t, j) => Has(up, t, j)
        /\ \A t : Head(up).type = t /\ Head(up).id = j => Has(up, t, j)
        /\ InOrder(Tail(up), j)
        /\ Head(up).type = "job_completed" /\ Head(up).id = j
             => ~ Has(Tail(up), "job_failed", j)
    BY <1>2, <1>3, <2>1, HasTail
  <2>3. verdict'[j] = "job_completed" =>
          verdict[j] = "job_completed" \/ (Head(up).type = "job_completed" /\ Head(up).id = j)
    BY VerdictAfter
  <2>4. QED
    BY <1>3, <2>1, <2>2, <2>3 DEF OrderOf, Before
<1>5. CASE FlushSend
  <2>1. frames # <<>> /\ pending = <<>> /\ UNCHANGED <<pending, verdict>>
    BY <1>5 DEF FlushSend, Flushing, store, srvVars
  <2>2. CASE frames' = Tail(frames) /\ up' = Append(up, Head(frames))
    <3>1. Head(frames) \in UpFrame
      BY <1>2, <2>1
    <3>2. /\ \A t : Has(Tail(frames), t, j) => Has(frames, t, j)
          /\ \A t : Head(frames).type = t /\ Head(frames).id = j => Has(frames, t, j)
          /\ InOrder(Tail(frames), j)
          /\ Head(frames).type = "job_completed" /\ Head(frames).id = j
               => ~ Has(Tail(frames), "job_failed", j)
      BY <1>2, <1>3, <2>1, HasTail
    <3>3. /\ \A t : Has(Append(up, Head(frames)), t, j)
                      <=> Has(up, t, j) \/ (Head(frames).type = t /\ Head(frames).id = j)
          /\ InOrder(Append(up, Head(frames)), j)
      <4>1. Head(frames).type = "job_failed" /\ Head(frames).id = j
              => ~ Has(up, "job_completed", j)
        BY <1>3, <3>2 DEF Before
      <4>2. QED
        BY <1>2, <1>3, <3>1, <4>1, HasAppend
    <3>4. \A t : ~ Has(pending, t, j)
      BY <2>1, HasEmpty
    <3>5. QED
      BY <1>3, <2>1, <2>2, <3>2, <3>3, <3>4 DEF OrderOf, Before
  <2>3. CASE frames' = Tail(frames) /\ up' = up
    <3>1. /\ \A t : Has(Tail(frames), t, j) => Has(frames, t, j)
          /\ InOrder(Tail(frames), j)
      BY <1>2, <1>3, <2>1, HasTail
    <3>2. QED
      BY <1>3, <2>1, <2>3, <3>1 DEF OrderOf, Before
  <2>4. CASE frames' = frames /\ up' = up
    BY <1>1, <1>3, <2>1, <2>4, OrderShrinks
  <2>5. QED
    BY <1>5, <2>2, <2>3, <2>4 DEF FlushSend, SendOK, SendErr
<1>6. CASE Rebuffer
  <2>1. /\ frames # <<>> /\ frames' = Tail(frames) /\ pending' = Append(pending, Head(frames))
        /\ UNCHANGED <<up, verdict>>
    BY <1>6 DEF Rebuffer, AddPending, wireVars, srvVars
  <2>2. Head(frames) \in Result
    BY <1>2, <2>1
  <2>3. /\ \A t : Has(Tail(frames), t, j) => Has(frames, t, j)
        /\ \A t : Head(frames).type = t /\ Head(frames).id = j => Has(frames, t, j)
        /\ InOrder(Tail(frames), j)
        /\ Head(frames).type = "job_completed" /\ Head(frames).id = j
             => ~ Has(Tail(frames), "job_failed", j)
    BY <1>2, <1>3, <2>1, HasTail
  <2>4. /\ \A t : Has(Append(pending, Head(frames)), t, j)
                    <=> Has(pending, t, j) \/ (Head(frames).type = t /\ Head(frames).id = j)
        /\ InOrder(Append(pending, Head(frames)), j)
    <3>1. Head(frames).type = "job_failed" /\ Head(frames).id = j
            => ~ Has(pending, "job_completed", j)
      BY <1>3, <2>3 DEF Before
    <3>2. QED
      BY <1>2, <1>3, <2>2, <3>1, HasAppend
  <2>5. QED
    BY <1>3, <2>1, <2>3, <2>4 DEF OrderOf, Before
<1>7. CASE EmitResult
  <2>1. /\ pc \in {"job_completed", "job_failed"} /\ UNCHANGED <<frames, verdict>>
        /\ \/ up' = Append(up, Emitted) /\ link = "up" /\ UNCHANGED pending
           \/ up' = up /\ UNCHANGED pending
           \/ up' = up /\ pending' = Append(pending, Emitted)
    BY <1>7 DEF EmitResult, Emitted, SendOK, SendErr, AddPending, store, srvVars
  <2>2. Emitted \in Result /\ Emitted.type = pc /\ Emitted.id = cur /\ cur \in Job
    BY <2>1 DEF Emitted, Result, PrintAccount, JobInHand, TypeOK
  <2>3. frames = <<>> /\ \A t : ~ Has(frames, t, j)
    BY <2>1, HasEmpty DEF Flushing
  <2>4. Emitted.type = "job_failed" /\ Emitted.id = j =>
          /\ ~ Has(up, "job_completed", j) /\ ~ Has(pending, "job_completed", j)
          /\ verdict[j] # "job_completed"
    <3>1. SUFFICES ASSUME prints[j] = 0
                   PROVE  /\ ~ Has(up, "job_completed", j) /\ ~ Has(pending, "job_completed", j)
                          /\ verdict[j] # "job_completed"
      BY <1>1, <2>1, <2>2 DEF FailsUnprinted
    <3>2. QED
      BY <3>1 DEF Reported, Honest, Has
  <2>5. CASE up' = up /\ UNCHANGED pending
    BY <1>1, <1>3, <2>1, <2>5, OrderShrinks
  <2>6. CASE up' = Append(up, Emitted) /\ link = "up" /\ UNCHANGED pending
    <3>1. pending = <<>> /\ \A t : ~ Has(pending, t, j)
      BY <2>1, <2>6, HasEmpty DEF BufferOnlyWhenDead, InSession
    <3>2. /\ \A t : Has(Append(up, Emitted), t, j)
                      <=> Has(up, t, j) \/ (Emitted.type = t /\ Emitted.id = j)
          /\ InOrder(Append(up, Emitted), j)
      BY <1>2, <1>3, <2>2, <2>4, HasAppend
    <3>3. QED
      BY <1>3, <2>1, <2>3, <2>4, <2>6, <3>1, <3>2 DEF OrderOf, Before
  <2>7. CASE up' = up /\ pending' = Append(pending, Emitted)
    <3>1. /\ \A t : Has(Append(pending, Emitted), t, j)
                      <=> Has(pending, t, j) \/ (Emitted.type = t /\ Emitted.id = j)
          /\ InOrder(Append(pending, Emitted), j)
      BY <1>2, <1>3, <2>2, <2>4, HasAppend
    <3>2. QED
      BY <1>3, <2>1, <2>3, <2>4, <2>7, <3>1 DEF OrderOf, Before
  <2>8. QED
    BY <2>1, <2>5, <2>6, <2>7
<1>8. CASE Online
  <2>1. frames = <<>> /\ frames' = pending /\ pending' = <<>> /\ UNCHANGED <<up, verdict>>
    BY <1>8 DEF Online, Goto, TakePending, Flushing, wireVars, srvVars
  <2>2. QED
    BY <1>3, <2>1, HasEmpty DEF OrderOf, Before
<1>9. CASE Start
  <2>1. pending' = pending /\ frames' = frames /\ up' = up /\ UNCHANGED verdict
    BY <1>9 DEF Start, load, FileIsMemory, wireVars, srvVars
  <2>2. QED
    BY <1>1, <1>3, <2>1, OrderShrinks
<1>10. CASE SendAuthenticate
  <2>1. /\ up' = up \/ up' = Append(up, Plain("authenticate"))
        /\ frames' \in {frames, <<>>} /\ UNCHANGED <<pending, verdict>>
    BY <1>10 DEF SendAuthenticate, SendOK, EndSession, store, srvVars
  <2>2. CASE up' = Append(up, Plain("authenticate"))
    <3>1. /\ Plain("authenticate") \in UpFrame
          /\ Plain("authenticate").type \notin {"job_completed", "job_failed"}
      BY FrameTypes DEF Plain
    <3>2. /\ \A t \in {"job_completed", "job_failed"} : Has(up', t, j) => Has(up, t, j)
          /\ InOrder(up', j)
      BY <1>2, <1>3, <2>2, <3>1, HasAppend
    <3>3. QED
      BY <1>1, <2>1, <3>2, OrderShrinks
  <2>3. QED
    BY <1>1, <1>3, <2>1, <2>2, OrderShrinks
<1>11. CASE Answer
  <2>1. up # <<>> /\ up' = Tail(up) /\ UNCHANGED <<pending, frames, verdict>>
    BY <1>11 DEF Answer, agentVars, store
  <2>2. (\A t : Has(up', t, j) => Has(up, t, j)) /\ InOrder(up', j)
    BY <1>2, <1>3, <2>1, HasTail
  <2>3. QED
    BY <1>1, <2>1, <2>2, OrderShrinks
<1>12. CASE Crash \/ Break
  <2>1. /\ \E n \in 0 .. Len(up) : up' = SubSeq(up, 1, n)
        /\ frames' \in {frames, <<>>} /\ UNCHANGED <<pending, verdict>>
    BY <1>12 DEF Crash, Break, agentVars, store, srvVars
  <2>2. (\A t : Has(up', t, j) => Has(up, t, j)) /\ InOrder(up', j)
    BY <1>2, <1>3, <2>1, HasPrefix
  <2>3. QED
    BY <1>1, <2>1, <2>2, OrderShrinks
<1>13. CASE up' \in {up, <<>>} /\ frames' \in {frames, <<>>} /\ UNCHANGED <<pending, verdict>>
  BY <1>1, <1>3, <1>13, HasEmpty, OrderShrinks
<1>14. CASE Mark
  BY <1>13, <1>14 DEF Mark, MarkDone, wireVars, srvVars
<1>15. QED
  BY <1>4, <1>5, <1>6, <1>7, <1>8, <1>9, <1>10, <1>11, <1>12, <1>13, <1>14
     DEF Next, AgentStep, BackendStep, EndSession, SendIgnored, Goto, vars, agentVars, store,
         wireVars, srvVars, BeginSession, Connect, SessionOver, Backoff,
         Authenticated, AuthRejected, AuthIgnored, Register,
         FlushReturns, ContextDone, ConnectionClosed,
         HandleOther, ReceiveJob, DispatchOK, DispatchFails,
         Heartbeat, ConnectFails, AuthTimeout, Cancel,
         SendOther, SendJob, Redeliver

\* What keeps the results in order, in one formula.
OrderInv ==
  Flushing /\ FileIsMemory /\ RecordKept /\ FailsUnprinted /\ Ordered

LEMMA OrderStep ==
  ASSUME TypeOK, PrintAccount, Reported, RebufferWhenDead, BufferOnlyWhenDead, ~ FileFails,
         OrderInv, [Next]_vars
  PROVE  OrderInv'
BY FlushingStep, FileStep, RecordStep, FailsStep, OrderedStep DEF OrderInv

LEMMA OrderHolds ==
  ASSUME ~ FileFails
  PROVE  Spec => []OrderInv
<1>1. Init => OrderInv
  <2> SUFFICES ASSUME Init PROVE OrderInv
    OBVIOUS
  <2>1. /\ pc = "off" /\ frames = <<>> /\ pending = <<>> /\ up = <<>>
        /\ disk = [done |-> done, pending |-> pending]
        /\ \A j \in Job : verdict[j] = "none" /\ prints[j] = 0
    BY DEF Init, StoreInit
  <2>2. Flushing /\ FileIsMemory /\ RecordKept /\ FailsUnprinted
    BY <2>1 DEF Flushing, FileIsMemory, RecordKept, FailsUnprinted
  <2>3. \A j : InOrder(<<>>, j) /\ \A t : ~ Has(<<>>, t, j)
    BY HasEmpty
  <2>4. Ordered
    BY <2>1, <2>3 DEF Ordered, OrderOf, Before
  <2>5. QED
    BY <2>2, <2>4 DEF OrderInv
<1>2. TypeOK /\ PrintAccount /\ Reported /\ (RebufferWhenDead /\ BufferOnlyWhenDead)
        /\ OrderInv /\ [Next]_vars => OrderInv'
  BY OrderStep
<1>3. QED
  BY <1>1, <1>2, TypeCorrect, PrintsAreAccounted, ReportedHolds, BufferHolds, PTL DEF Spec

\* A job heard of as failed is none the Backend may still hold to be completed.
LEMMA HeardInOrder ==
  ASSUME TypeOK, Ordered, HearResult, Head(up).type = "job_failed"
  PROVE  LET j == Head(up).id
         IN  j \in Job /\ (verdict[j] # "job_completed" \/ lapses[j] > 0)
<1> DEFINE j == Head(up).id
<1>1. up # <<>> /\ Head(up) \in Result
  BY DEF HearResult
<1>2. j \in Job /\ Head(up) = up[1] /\ 1 \in 1 .. Len(up)
  BY <1>1 DEF Result, TypeOK
<1>3. Has(up, "job_failed", j)
  BY <1>2 DEF Has
<1>4. lapses[j] = 0 => verdict[j] # "job_completed"
  BY <1>2, <1>3 DEF Ordered, OrderOf
<1>5. lapses[j] \in Nat
  BY <1>2 DEF TypeOK
<1>6. QED
  BY <1>2, <1>4, <1>5

LEMMA VerdictKept ==
  ASSUME TypeOK, Ordered, [Next]_vars,
         NEW j \in Job, verdict[j] = "job_completed", lapses[j] = 0
  PROVE  verdict'[j] = "job_completed"
<1>1. CASE UNCHANGED verdict
  BY <1>1
<1>2. CASE HearResult
  <2>1. /\ verdict' = [verdict EXCEPT ![Head(up).id] = Head(up).type]
        /\ Head(up).type \in {"job_completed", "job_failed"}
    BY <1>2 DEF HearResult, Result
  <2>2. Head(up).type = "job_failed" => Head(up).id # j
    BY <1>2, HeardInOrder
  <2>3. verdict \in [Job -> {"none", "job_completed", "job_failed"}]
    BY DEF TypeOK
  <2> HIDE DEF HearResult
  <2>4. QED
    BY <2>1, <2>2, <2>3
<1>3. QED
  BY <1>1, <1>2
     DEF Next, AgentStep, BackendStep, vars, srvVars, Start, BeginSession, Connect, SessionOver, Backoff,
         SendAuthenticate, Authenticated, AuthRejected, AuthIgnored, Register,
         Online, FlushSend, Rebuffer, FlushReturns, ContextDone, ConnectionClosed,
         HandleOther, ReceiveJob, DispatchOK, DispatchFails, Mark, EmitResult,
         Heartbeat, ConnectFails, AuthTimeout, Cancel, Crash, Break, Answer,
         SendOther, SendJob, Redeliver

\* On a file that can be written, a job that had no lapse is never heard of as failed
\* after it was completed: neither the buffer, nor a restart between TakePending and the
\* last send, nor a reconnection lets an older result of it overtake a newer one.
THEOREM NoFailureFollows ==
  ASSUME ~ FileFails
  PROVE  Spec => NoFailureAfterCompletion
<1>1. TypeOK /\ OrderInv /\ [Next]_vars =>
        [\A j \in Job : verdict[j] = "job_completed" /\ lapses[j] = 0
                          => verdict'[j] = "job_completed"]_vars
  BY VerdictKept DEF OrderInv
<1>2. QED
  BY <1>1, TypeCorrect, OrderHolds, PTL DEF Spec, NoFailureAfterCompletion

-----------------------------------------------------------------------------
(* The promise of JobDelivery.                                             *)

\* The job on paper and not yet on record, as the promise sees it.
InHand == IF pc = "mark" THEN cur ELSE NoJob

\* Nothing the promise speaks of changes.
Still == UNCHANGED <<prints, DOMAIN done, InHand, verdict, lapses>>

LEMMA StillStep ==
  ASSUME TypeOK, [Next]_vars, ~ Start, ~ DispatchOK, ~ DispatchFails, ~ Mark, ~ Crash, ~ HearResult
  PROVE  Still
<1>1. UNCHANGED <<prints, verdict, lapses>> /\ DOMAIN done' = DOMAIN done
  BY DEF Next, AgentStep, BackendStep, vars, histVars, srvVars, store, BeginSession,
         Connect, SessionOver, Backoff, SendAuthenticate, Authenticated,
         AuthRejected, AuthIgnored, Register, Online, TakePending, FlushSend, Rebuffer,
         AddPending, FlushReturns, ContextDone, ConnectionClosed, HandleOther, ReceiveJob,
         EmitResult, Heartbeat, ConnectFails,
         AuthTimeout, Cancel, Break, Answer, SendOther, SendJob, Redeliver
<1>2. (pc # "mark" /\ pc' # "mark") \/ UNCHANGED <<pc, cur>>
  BY DEF Next, AgentStep, BackendStep, vars, agentVars, Goto, EndSession, BeginSession,
         Connect, SessionOver, Backoff, SendAuthenticate, Authenticated,
         AuthRejected, AuthIgnored, Register, Online, FlushSend, Rebuffer,
         FlushReturns, ContextDone, ConnectionClosed, HandleOther, ReceiveJob,
         EmitResult, Heartbeat, ConnectFails,
         AuthTimeout, Cancel, Break, Answer, SendOther, SendJob, Redeliver
<1>3. QED
  BY <1>1, <1>2 DEF Still, InHand

\* The two counters grow alike.
LEMMA Counted ==
  ASSUME NEW S, Lapse(S)
  PROVE  lapses' = Delivery!Bump(lapses, S)
BY DEF Lapse, Delivery!Bump

LEMMA OneMore ==
  ASSUME NEW p \in [Job -> Nat], NEW j \in Job
  PROVE  [p EXCEPT ![j] = @ + 1] = Delivery!Bump(p, {j})
<1>1. \A k \in Job : [p EXCEPT ![j] = @ + 1][k] = p[k] + IF k \in {j} THEN 1 ELSE 0
  OBVIOUS
<1>2. [p EXCEPT ![j] = @ + 1] = [k \in Job |-> p[k] + IF k \in {j} THEN 1 ELSE 0]
  BY <1>1
<1>3. QED
  BY <1>2 DEF Delivery!Bump

\* One step of the session, the store and the link is a step of the promise.
LEMMA PromiseStep ==
  ASSUME TypeOK, PrintAccount, Reported, OrderInv, [Next]_vars
  PROVE  [Delivery!Next]_(Delivery!vars)
<1> USE DEF InHand
<1>1. prints \in [Job -> Nat] /\ lapses \in [Job -> Nat] /\ StoreTypeOK
      /\ verdict \in [Job -> {"none", "job_completed", "job_failed"}]
  BY DEF TypeOK
<1>2. CASE Start
  <2>1. InHand = NoJob /\ InHand' = NoJob /\ UNCHANGED <<prints, verdict>>
    BY <1>2 DEF Start, Goto, srvVars
  <2>2. DOMAIN done' \subseteq DOMAIN disk.done
    BY <1>2 DEF Start, load
  <2>3. DOMAIN done' \subseteq Job /\ \A j \in DOMAIN done' : prints[j] > 0
    BY <1>1, <2>2 DEF Reported, StoreTypeOK, IsDoneMap
  <2>4. lapses' = Delivery!Bump(lapses, DOMAIN done \ DOMAIN done')
    BY <1>2, Counted DEF Start
  <2>5. Delivery!Reload
    BY <2>1, <2>3, <2>4 DEF Delivery!Reload
  <2>6. QED
    BY <2>5 DEF Delivery!Next
<1>3. CASE DispatchOK
  <2>1. cur \in Job /\ cur \notin DOMAIN done
    BY <1>3 DEF DispatchOK, Goto, PrintAccount, JobInHand, TypeOK, Seen
  <2>2. /\ InHand = NoJob /\ InHand' = cur /\ DOMAIN done' = DOMAIN done
        /\ UNCHANGED <<verdict, lapses>> /\ prints' = [prints EXCEPT ![cur] = @ + 1]
    BY <1>3 DEF DispatchOK, Goto, store, srvVars
  <2>3. prints' = Delivery!Bump(prints, {cur})
    BY <1>1, <2>1, <2>2, OneMore
  <2>4. Delivery!PutOnPaper(cur)
    BY <2>1, <2>2, <2>3 DEF Delivery!PutOnPaper
  <2>5. QED
    BY <2>1, <2>4 DEF Delivery!Next
<1>4. CASE DispatchFails
  <2>1. cur \in Job /\ cur \notin DOMAIN done
    BY <1>4 DEF DispatchFails, Goto, PrintAccount, JobInHand, TypeOK, Seen
  <2>2. /\ InHand = NoJob /\ InHand' = NoJob /\ DOMAIN done' = DOMAIN done
        /\ UNCHANGED verdict
    BY <1>4 DEF DispatchFails, Goto, store, srvVars
  <2>3. CASE UNCHANGED <<histVars, faults>>
    BY <2>2, <2>3 DEF histVars, Delivery!vars
  <2>4. CASE prints' = [prints EXCEPT ![cur] = @ + 1] /\ Lapse({cur})
    <3>1. /\ prints' = Delivery!Bump(prints, {cur})
          /\ lapses' = Delivery!Bump(lapses, {cur})
      BY <1>1, <2>1, <2>4, OneMore, Counted
    <3>2. Delivery!SpoiledPrint(cur)
      BY <2>1, <2>2, <3>1 DEF Delivery!SpoiledPrint
    <3>3. QED
      BY <2>1, <3>2 DEF Delivery!Next
  <2>5. QED
    BY <1>4, <2>3, <2>4 DEF DispatchFails
<1>5. CASE Mark
  <2> DEFINE F == (DOMAIN done \cup {cur}) \ DOMAIN done'
  <2>1. cur \in Job /\ InHand = cur /\ InHand' = NoJob /\ UNCHANGED <<prints, verdict>>
    BY <1>5 DEF Mark, Goto, PrintAccount, JobInHand, TypeOK, srvVars
  <2>2. DOMAIN done' \subseteq DOMAIN done \cup {cur}
    <3>1. PICK now \in Clock : MarkDone(cur, now)
      BY <1>5 DEF Mark
    <3>2. now \in Nat
      BY LifecycleAssumption
    <3>3. QED
      BY <1>1, <2>1, <3>1, <3>2, MarkDoneType
  <2>3. lapses' = Delivery!Bump(lapses, F)
    BY <1>5, Counted DEF Mark
  <2>4. F \in SUBSET (DOMAIN done \cup {cur}) /\ DOMAIN done' = (DOMAIN done \cup {cur}) \ F
    BY <2>2
  <2> HIDE DEF F
  <2>5. Delivery!Record(cur)
    BY <2>1, <2>3, <2>4 DEF Delivery!Record
  <2>6. QED
    BY <2>1, <2>5 DEF Delivery!Next
<1>6. CASE Crash
  <2>1. /\ InHand' = NoJob /\ DOMAIN done' = DOMAIN done /\ UNCHANGED <<prints, verdict>>
    BY <1>6 DEF Crash, store, srvVars
  <2>2. CASE pc = "mark"
    <3>1. cur \in Job /\ InHand = cur
      BY <2>2 DEF PrintAccount, JobInHand, TypeOK
    <3>2. lapses' = Delivery!Bump(lapses, {cur})
      BY <1>6, <2>2, Counted DEF Crash
    <3>3. Delivery!LoseUnrecorded
      BY <2>1, <3>1, <3>2 DEF Delivery!LoseUnrecorded
    <3>4. QED
      BY <3>3 DEF Delivery!Next
  <2>3. CASE pc # "mark"
    <3>1. lapses' = lapses
      BY <1>1, <1>6, <2>3 DEF Crash, Lapse
    <3>2. InHand = NoJob
      BY <2>3
    <3>3. QED
      BY <2>1, <3>1, <3>2 DEF Delivery!vars
  <2>4. QED
    BY <2>2, <2>3
<1>7. CASE HearResult
  <2> DEFINE j == Head(up).id
  <2>1. /\ up # <<>> /\ Head(up) \in Result /\ j \in Job
        /\ verdict' = [verdict EXCEPT ![j] = Head(up).type]
        /\ DOMAIN done' = DOMAIN done /\ InHand' = InHand /\ UNCHANGED <<prints, lapses>>
    BY <1>7 DEF HearResult, Result, agentVars, store, histVars
  <2>2. CASE Head(up).type = "job_completed"
    <3>1. prints[j] > 0
      BY <2>1, <2>2, HonestTail DEF Reported, TypeOK
    <3>2. Delivery!Complete(j)
      BY <2>1, <2>2, <3>1 DEF Delivery!Complete
    <3>3. QED
      BY <2>1, <3>2 DEF Delivery!Next
  <2>3. CASE Head(up).type = "job_failed"
    <3>1. verdict[j] # "job_completed" \/ lapses[j] > 0
      BY <1>7, <2>3, HeardInOrder DEF OrderInv
    <3>2. Delivery!Fail(j)
      BY <2>1, <2>3, <3>1 DEF Delivery!Fail
    <3>3. QED
      BY <2>1, <3>2 DEF Delivery!Next
  <2>4. QED
    BY <2>1, <2>2, <2>3 DEF Result
<1>8. CASE Still
  BY <1>8 DEF Still, Delivery!vars
<1>9. QED
  BY <1>2, <1>3, <1>4, <1>5, <1>6, <1>7, <1>8, StillStep

\* The session, the store, the link and the crashes, on a file that can be written, keep
\* the promise of JobDelivery: paper only for a job that is not on record, the record
\* after the print, records lost only as counted lapses, "completed" only of what was
\* printed and not taken back without a lapse.
THEOREM PromiseKept ==
  ASSUME ~ FileFails
  PROVE  Spec => KeepsPromise
<1>1. Init => Delivery!Init
  BY DEF Init, StoreInit, Delivery!Init
<1>2. TypeOK /\ PrintAccount /\ Reported /\ OrderInv /\ [Next]_vars
        => [Delivery!Next]_(Delivery!vars)
  BY PromiseStep
<1>3. QED
  BY <1>1, <1>2, TypeCorrect, PrintsAreAccounted, ReportedHolds, OrderHolds, PTL
     DEF Spec, KeepsPromise, Delivery!Spec
=============================================================================
