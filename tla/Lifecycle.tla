----------------------------- MODULE Lifecycle ------------------------------
(***************************************************************************)
(* The session of the agent with the Backend: Lifecycle.Run and all it     *)
(* calls (internal/app/lifecycle/lifecycle.go), over the job store and one *)
(* transport per connection.  The agent is one goroutine; pc names the     *)
(* statement it is about to execute.  Around it: a link that may break at  *)
(* any moment, a Backend that delivers jobs at least once, a process that  *)
(* may be killed between any two steps (power, service manager, or         *)
(* restartSelf, which calls os.Exit under a running job) and started       *)
(* again.                                                                  *)
(*                                                                         *)
(* Frames that change nothing here are left out: hello, register,          *)
(* capabilities, job_received, heartbeat, acks (their Send is kept, since  *)
(* it may be the one that finds the link dead).  "other" stands for the    *)
(* frames of the Backend that serve consumes without touching the job path *)
(* (config, profiles, error, unknown types).                               *)
(***************************************************************************)
EXTENDS AgentState, JobStore

CONSTANTS NoJob,
          Clock,                \* the readings time.Now().Unix() may give
          MaxBackoff,           \* seconds; the first wait is 1
          MaxFaults,            \* bound: breaks, refusals, timeouts, stops
          MaxExtra              \* bound: redeliveries and "other" frames

Result == [type : {"job_completed", "job_failed"}, id : Job]

ASSUME LifecycleAssumption ==
  /\ Frame = Result
  /\ NoJob \notin Job
  /\ Clock \subseteq Nat
  /\ MaxBackoff \in Nat \ {0}
  /\ MaxFaults \in Nat /\ MaxExtra \in Nat

VARIABLES
  pc,        \* the agent: where Run / runOnce / serve / handleJob is
  machine,   \* Machine.current
  ctx,       \* TRUE once the context is cancelled
  backoff,   \* Run's backoff, in seconds
  cur,       \* the job in handleJob
  frames,    \* flushPending's frames[i:]
  link,      \* "none", "up", "cut" (broken, no write failed yet), "dead"
  down,      \* frames from the Backend not yet read by the agent
  up,        \* frames from the agent not yet read by the Backend
  srv,       \* the Backend's side of the session: "closed", "open",
             \* "accepted", "rejected"
  offered,   \* jobs the Backend has sent in this session
  verdict,   \* the last result the Backend holds for each job
  faults, extra,         \* the bounded counters
  prints,    \* history: how often the driver reported each job as printed, or
             \* failed with it on paper
  lapses     \* history: how often a print of the job was left, or became,
             \* unrecorded in the store

agentVars == <<pc, machine, ctx, backoff, cur, frames>>
wireVars  == <<link, down, up>>
srvVars   == <<srv, offered, verdict>>
boundVars == <<faults, extra>>
histVars  == <<prints, lapses>>
vars == <<agentVars, store, wireVars, srvVars, boundVars, histVars>>

JobFrame(j) == [type |-> "job", id |-> j]
Plain(t) == [type |-> t, id |-> NoJob]

UpFrame == Result \cup {Plain("authenticate")}
DownFrame == {JobFrame(j) : j \in Job}
               \cup {Plain(t) : t \in {"authenticated", "auth_error", "other"}}

\* Places inside runOnce between Connect and its deferred Close.
InSession == {"hello", "auth", "register", "online", "flush", "rebuffer",
              "serve", "print", "mark", "job_completed", "job_failed"}
Place == InSession \cup {"off", "top", "dial", "ended", "backoff"}

TypeOK ==
  /\ pc \in Place
  /\ machine \in State
  /\ ctx \in BOOLEAN
  /\ backoff \in 1..MaxBackoff
  /\ cur \in Job \cup {NoJob}
  /\ frames \in Seq(Result)
  /\ StoreTypeOK
  /\ link \in {"none", "up", "cut", "dead"}
  /\ down \in Seq(DownFrame)
  /\ up \in Seq(UpFrame)
  /\ srv \in {"closed", "open", "accepted", "rejected"}
  /\ offered \in SUBSET Job
  /\ verdict \in [Job -> {"none", "job_completed", "job_failed"}]
  /\ faults \in 0..MaxFaults
  /\ extra \in 0..MaxExtra
  /\ prints \in [Job -> Nat]
  /\ lapses \in [Job -> Nat]

Init ==
  /\ pc = "off" /\ machine = "STARTING" /\ ctx = FALSE
  /\ backoff = 1 /\ cur = NoJob /\ frames = <<>>
  /\ StoreInit
  /\ link = "none" /\ down = <<>> /\ up = <<>>
  /\ srv = "closed" /\ offered = {}
  /\ verdict = [j \in Job |-> "none"]
  /\ faults = 0 /\ extra = 0
  /\ prints = [j \in Job |-> 0]
  /\ lapses = [j \in Job |-> 0]

-----------------------------------------------------------------------------
(* Steps shared by the agent's actions.                                    *)

Goto(from, to) == pc = from /\ pc' = to

setState(s) == machine' = Transition(machine, s)

\* One more lapse for each job of S.
Lapse(S) == lapses' = [j \in Job |-> lapses[j] + IF j \in S THEN 1 ELSE 0]

Fault == faults < MaxFaults /\ faults' = faults + 1

\* Transport.Send returning nil: on a broken connection the first writes still
\* succeed into the kernel and are lost.
SendOK(f) ==
  /\ \/ link = "up" /\ up' = Append(up, f)
     \/ link = "cut" /\ UNCHANGED up
  /\ UNCHANGED link

\* Transport.Send returning an error, which the connection then repeats.
SendErr ==
  /\ link \in {"cut", "dead"}
  /\ link' = "dead"
  /\ UNCHANGED up

\* A Send of a frame the model does not carry, its error ignored.
SendIgnored ==
  /\ link' \in IF link = "cut" THEN {"cut", "dead"} ELSE {link}
  /\ UNCHANGED up

\* runOnce returning: its deferred Close and setState(DISCONNECTED), from the
\* state the last setState of the body left.
EndSession(from) ==
  /\ pc' = "ended"
  /\ machine' = Transition(from, "DISCONNECTED")
  /\ link' = "none"
  /\ down' = <<>>
  /\ cur' = NoJob
  /\ frames' = <<>>

-----------------------------------------------------------------------------
(* Run and runOnce.                                                        *)

\* The process starts: New loads the store, NewMachine is in STARTING.
Start ==
  /\ Goto("off", "top")
  /\ load
  /\ Lapse(DOMAIN done \ DOMAIN done')
  /\ machine' = "STARTING" /\ ctx' = FALSE /\ backoff' = 1
  /\ UNCHANGED <<cur, frames, wireVars, srvVars, boundVars, prints>>

BeginSession ==
  /\ Goto("top", "dial")
  /\ setState("CONNECTING")
  /\ UNCHANGED <<ctx, backoff, cur, frames, store, wireVars, srvVars,
                 boundVars, histVars>>

\* Connect succeeds: a new connection, nothing in flight, a new session.
Connect ==
  /\ Goto("dial", "hello")
  /\ link' = "up" /\ down' = <<>> /\ up' = <<>>
  /\ srv' = "open" /\ offered' = {}
  /\ UNCHANGED <<machine, ctx, backoff, cur, frames, store, verdict,
                 boundVars, histVars>>

ConnectFails ==
  /\ pc = "dial"
  /\ Fault \/ (ctx /\ UNCHANGED faults)
  /\ EndSession(machine)
  /\ UNCHANGED <<ctx, backoff, store, up, srvVars, extra, histVars>>

\* runOnce returned: stop if the context is cancelled, else wait.
SessionOver ==
  /\ pc = "ended"
  /\ \/ ctx /\ pc' = "off" /\ setState("SHUTTING_DOWN")
     \/ ~ctx /\ pc' = "backoff" /\ setState("RECONNECTING")
  /\ UNCHANGED <<ctx, backoff, cur, frames, store, wireVars, srvVars,
                 boundVars, histVars>>

\* Slip: the doubled wait is not capped.
Backoff_Uncapped ==
  /\ pc = "backoff"
  /\ \/ /\ pc' = "top"
        /\ backoff' = 2 * backoff
        /\ UNCHANGED machine
     \/ /\ ctx
        /\ pc' = "off"
        /\ setState("SHUTTING_DOWN")
        /\ UNCHANGED backoff
  /\ UNCHANGED <<ctx, cur, frames, store, wireVars, srvVars, boundVars,
                 histVars>>

\* The select of Run: the timer, after which the next wait doubles, or ctx.
Backoff ==
  /\ pc = "backoff"
  /\ \/ /\ pc' = "top"
        /\ backoff' = IF 2 * backoff > MaxBackoff THEN MaxBackoff ELSE 2 * backoff
        /\ UNCHANGED machine
     \/ /\ ctx
        /\ pc' = "off"
        /\ setState("SHUTTING_DOWN")
        /\ UNCHANGED backoff
  /\ UNCHANGED <<ctx, cur, frames, store, wireVars, srvVars, boundVars,
                 histVars>>

-----------------------------------------------------------------------------
(* authenticate, register and flushPending.                                *)

SendAuthenticate ==
  /\ pc = "hello"
  /\ \/ /\ pc' = "auth"
        /\ setState("AUTHENTICATING")
        /\ SendOK(Plain("authenticate"))
        /\ UNCHANGED <<cur, frames, down>>
     \/ /\ link \in {"cut", "dead"}
        /\ EndSession(Transition(machine, "AUTHENTICATING"))
        /\ UNCHANGED up
  /\ UNCHANGED <<ctx, backoff, store, srvVars, boundVars, histVars>>

\* The select of authenticate, its inbox case: one action per outcome.
Authenticated ==
  /\ Goto("auth", "register")
  /\ down # <<>> /\ Head(down) = Plain("authenticated")
  /\ down' = Tail(down)
  /\ UNCHANGED <<machine, ctx, backoff, cur, frames, store, link, up,
                 srvVars, boundVars, histVars>>

\* retryable is not read: every auth_error is retried after the backoff.
AuthRejected ==
  /\ pc = "auth"
  /\ down # <<>> /\ Head(down) = Plain("auth_error")
  /\ EndSession(Transition(machine, "ERROR"))
  /\ UNCHANGED <<ctx, backoff, store, up, srvVars, boundVars, histVars>>

\* Any other frame read while authenticating is dropped.
AuthIgnored ==
  /\ pc = "auth"
  /\ down # <<>> /\ Head(down).type \notin {"authenticated", "auth_error"}
  /\ down' = Tail(down)
  /\ UNCHANGED <<agentVars, store, link, up, srvVars, boundVars, histVars>>

\* The 30 s of authTimeout: a fault of the Backend when the link is up.
AuthTimeout ==
  /\ pc = "auth"
  /\ Fault
  /\ EndSession(machine)
  /\ UNCHANGED <<ctx, backoff, store, up, srvVars, extra, histVars>>

\* Errors of register's sends are ignored.
Register ==
  /\ Goto("register", "online")
  /\ setState("REGISTERING")
  /\ SendIgnored
  /\ UNCHANGED <<ctx, backoff, cur, frames, store, down, srvVars,
                 boundVars, histVars>>

\* Slip: a reconnect does not flush the buffered results.
Online_NoFlush ==
  /\ Goto("online", "flush")
  /\ setState("CONNECTED")
  /\ UNCHANGED <<ctx, backoff, cur, frames, store, wireVars, srvVars, boundVars,
                 histVars>>

\* CONNECTED, then TakePending: the frames are now only in memory.
Online ==
  /\ Goto("online", "flush")
  /\ setState("CONNECTED")
  /\ frames' = pending
  /\ TakePending
  /\ UNCHANGED <<ctx, backoff, cur, wireVars, srvVars, boundVars, histVars>>

FlushSend ==
  /\ pc = "flush" /\ frames # <<>>
  /\ \/ SendOK(Head(frames)) /\ frames' = Tail(frames) /\ UNCHANGED pc
     \/ SendErr /\ pc' = "rebuffer" /\ UNCHANGED frames
  /\ UNCHANGED <<machine, ctx, backoff, cur, store, down, srvVars,
                 boundVars, histVars>>

\* One AddPending per frame left, the one that failed first.
Rebuffer ==
  /\ pc = "rebuffer" /\ frames # <<>>
  /\ AddPending(Head(frames))
  /\ frames' = Tail(frames)
  /\ UNCHANGED <<pc, machine, ctx, backoff, cur, wireVars, srvVars, boundVars,
                 histVars>>

\* flushPending returns, sent or not, and serve begins.
FlushReturns ==
  /\ pc \in {"flush", "rebuffer"} /\ frames = <<>>
  /\ pc' = "serve"
  /\ UNCHANGED <<machine, ctx, backoff, cur, frames, store, wireVars,
                 srvVars, boundVars, histVars>>

-----------------------------------------------------------------------------
(* serve, handle and handleJob.                                            *)

\* The select of serve, case ctx.Done (and of authenticate).
ContextDone ==
  /\ pc \in {"auth", "serve"} /\ ctx
  /\ EndSession(machine)
  /\ UNCHANGED <<ctx, backoff, store, up, srvVars, boundVars, histVars>>

\* Slip: serve does not look at ok, and a closed inbox is an empty frame.
ConnectionClosed_Unseen ==
  /\ pc = "auth"
  /\ link \in {"cut", "dead"} /\ down = <<>>
  /\ EndSession(machine)
  /\ UNCHANGED <<ctx, backoff, store, up, srvVars, boundVars, histVars>>

\* The inbox is closed and drained: the frames read before the break are
\* served first.
ConnectionClosed ==
  /\ pc \in {"auth", "serve"}
  /\ link \in {"cut", "dead"} /\ down = <<>>
  /\ EndSession(machine)
  /\ UNCHANGED <<ctx, backoff, store, up, srvVars, boundVars, histVars>>

\* A heartbeat matters here only as a Send that may find the link dead.
Heartbeat ==
  /\ pc = "serve"
  /\ SendIgnored
  /\ UNCHANGED <<agentVars, store, down, srvVars, boundVars, histVars>>

HandleOther ==
  /\ pc = "serve"
  /\ down # <<>> /\ Head(down).type # "job"
  /\ down' = Tail(down)
  /\ SendIgnored
  /\ UNCHANGED <<agentVars, store, srvVars, boundVars, histVars>>

\* Slip: every job received is executed.
ReceiveJob_NoDedupe ==
  /\ pc = "serve"
  /\ down # <<>> /\ Head(down).type = "job"
  /\ down' = Tail(down)
  /\ SendIgnored
  /\ cur' = Head(down).id
  /\ pc' = "print"
  /\ UNCHANGED <<machine, ctx, backoff, frames, store, srvVars, boundVars,
                 histVars>>

\* handleJob up to its decision: job_received, then Seen.
ReceiveJob ==
  /\ pc = "serve"
  /\ down # <<>> /\ Head(down).type = "job"
  /\ down' = Tail(down)
  /\ SendIgnored
  /\ cur' = Head(down).id
  /\ pc' = IF Seen(cur') THEN "job_completed" ELSE "print"
  /\ UNCHANGED <<machine, ctx, backoff, frames, store, srvVars, boundVars,
                 histVars>>

\* Slip: the job is completed without being recorded.
DispatchOK_NoRecord ==
  /\ Goto("print", "job_completed")
  /\ prints' = [prints EXCEPT ![cur] = @ + 1]
  /\ UNCHANGED <<machine, ctx, backoff, cur, frames, store, wireVars,
                 srvVars, boundVars, lapses>>

\* Dispatch returns nil: the job is on paper and not yet recorded.
DispatchOK ==
  /\ Goto("print", "mark")
  /\ prints' = [prints EXCEPT ![cur] = @ + 1]
  /\ UNCHANGED <<machine, ctx, backoff, cur, frames, store, wireVars,
                 srvVars, boundVars, lapses>>

\* Slip: the error of Dispatch is shadowed, and the job goes on as a success.
DispatchFails_Shadowed ==
  /\ Goto("print", "mark")
  /\ \/ UNCHANGED <<histVars, faults>>
     \/ Fault /\ prints' = [prints EXCEPT ![cur] = @ + 1] /\ Lapse({cur})
  /\ UNCHANGED <<machine, ctx, backoff, cur, frames, store, wireVars,
                 srvVars, extra>>

\* Dispatch returns an error, with nothing on paper, or with paper all the same
\* (lp killed after it queued the job, a page printed before the one that
\* failed).  The job is not recorded.
DispatchFails ==
  /\ Goto("print", "job_failed")
  /\ \/ UNCHANGED <<histVars, faults>>
     \/ Fault /\ prints' = [prints EXCEPT ![cur] = @ + 1] /\ Lapse({cur})
  /\ UNCHANGED <<machine, ctx, backoff, cur, frames, store, wireVars,
                 srvVars, extra>>

\* MarkDone; what prune drops on the way is forgotten.
Mark ==
  /\ Goto("mark", "job_completed")
  /\ \E now \in Clock : MarkDone(cur, now)
  /\ Lapse((DOMAIN done \cup {cur}) \ DOMAIN done')
  /\ UNCHANGED <<machine, ctx, backoff, cur, frames, wireVars, srvVars,
                 boundVars, prints>>

\* Slip: both results are built as job_completed.
EmitResult_AlwaysCompleted ==
  /\ pc \in {"job_completed", "job_failed"}
  /\ LET f == [type |-> "job_completed", id |-> cur]
     IN  \/ SendOK(f) /\ UNCHANGED store
         \/ SendErr /\ AddPending(f)
  /\ pc' = "serve" /\ cur' = NoJob
  /\ UNCHANGED <<machine, ctx, backoff, frames, down, srvVars, boundVars,
                 histVars>>

\* emitResult, and the return to serve: sent, or buffered when Send fails.
EmitResult ==
  /\ pc \in {"job_completed", "job_failed"}
  /\ LET f == [type |-> pc, id |-> cur]
     IN  \/ SendOK(f) /\ UNCHANGED store
         \/ SendErr /\ AddPending(f)
  /\ pc' = "serve" /\ cur' = NoJob
  /\ UNCHANGED <<machine, ctx, backoff, frames, down, srvVars, boundVars,
                 histVars>>

-----------------------------------------------------------------------------
(* The process and the link.                                               *)

\* SIGTERM, service stop or tray exit cancel the context; the agent sees it at
\* its next select.
Cancel ==
  /\ pc # "off" /\ ~ctx
  /\ Fault
  /\ ctx' = TRUE
  /\ UNCHANGED <<pc, machine, backoff, cur, frames, store, wireVars,
                 srvVars, extra, histVars>>

\* The process dies between two steps: kill, power, os.Exit of restartSelf.
\* Memory is gone; the kernel may still deliver some of what was written.
Crash ==
  /\ pc # "off"
  /\ Fault
  /\ Lapse(IF pc = "mark" THEN {cur} ELSE {})
  /\ pc' = "off" /\ cur' = NoJob /\ frames' = <<>>
  /\ link' = "none" /\ down' = <<>>
  /\ \E n \in 0..Len(up) : up' = SubSeq(up, 1, n)
  /\ UNCHANGED <<machine, ctx, backoff, store, srvVars, extra, prints>>

\* The connection breaks: of what is in flight each way a prefix arrives.
Break ==
  /\ link = "up"
  /\ Fault
  /\ link' = "cut"
  /\ \E n \in 0..Len(up) : up' = SubSeq(up, 1, n)
  /\ \E n \in 0..Len(down) : down' = SubSeq(down, 1, n)
  /\ UNCHANGED <<agentVars, store, srvVars, extra, histVars>>

-----------------------------------------------------------------------------
(* The Backend, external: it authenticates, delivers at least once, and    *)
(* keeps the last result it read for each job.                             *)

Reply(f) == down' = IF link = "up" THEN Append(down, f) ELSE down

Answer ==
  /\ up # <<>> /\ Head(up) = Plain("authenticate")
  /\ up' = Tail(up)
  /\ \/ Reply(Plain("authenticated")) /\ srv' = "accepted" /\ UNCHANGED faults
     \/ Fault /\ Reply(Plain("auth_error")) /\ srv' = "rejected"
  /\ UNCHANGED <<agentVars, store, link, offered, verdict, extra, histVars>>

HearResult ==
  /\ up # <<>> /\ Head(up) \in Result
  /\ up' = Tail(up)
  /\ verdict' = [verdict EXCEPT ![Head(up).id] = Head(up).type]
  /\ UNCHANGED <<agentVars, store, link, down, srv, offered, boundVars,
                 histVars>>

\* A job without result is sent once per session ...
SendJob(j) ==
  /\ srv = "accepted" /\ link = "up"
  /\ verdict[j] = "none" /\ j \notin offered
  /\ down' = Append(down, JobFrame(j))
  /\ offered' = offered \cup {j}
  /\ UNCHANGED <<agentVars, store, link, up, srv, verdict, boundVars,
                 histVars>>

\* ... and again when its result is late.
Redeliver(j) ==
  /\ srv = "accepted" /\ link = "up"
  /\ verdict[j] = "none" /\ j \in offered
  /\ extra < MaxExtra /\ extra' = extra + 1
  /\ down' = Append(down, JobFrame(j))
  /\ UNCHANGED <<agentVars, store, link, up, srvVars, faults, histVars>>

SendOther ==
  /\ srv \in {"open", "accepted"} /\ link = "up"
  /\ extra < MaxExtra /\ extra' = extra + 1
  /\ down' = Append(down, Plain("other"))
  /\ UNCHANGED <<agentVars, store, link, up, srvVars, faults, histVars>>

-----------------------------------------------------------------------------
\* What the agent does by itself once it runs.
AgentStep ==
  \/ Start \/ BeginSession \/ Connect \/ SessionOver \/ Backoff
  \/ SendAuthenticate \/ Authenticated \/ AuthRejected \/ AuthIgnored
  \/ Register \/ Online \/ FlushSend \/ Rebuffer \/ FlushReturns
  \/ ContextDone \/ ConnectionClosed \/ HandleOther
  \/ ReceiveJob \/ DispatchOK \/ DispatchFails \/ Mark \/ EmitResult

BackendStep == Answer \/ HearResult

Next ==
  \/ AgentStep \/ Heartbeat \/ ConnectFails \/ AuthTimeout
  \/ Cancel \/ Crash \/ Break
  \/ BackendStep \/ SendOther
  \/ \E j \in Job : SendJob(j) \/ Redeliver(j)

Spec == Init /\ [][Next]_vars

(***************************************************************************)
(* The agent's goroutine keeps running, its calls return and the service   *)
(* manager starts a process that ended; the Backend reads what arrives and *)
(* offers every job without result once per session.  Nothing makes a      *)
(* fault, a heartbeat or a redelivery happen.                              *)
(***************************************************************************)
Fairness ==
  /\ WF_vars(AgentStep)
  /\ WF_vars(BackendStep)
  /\ \A j \in Job : WF_vars(SendJob(j))

FairSpec == Spec /\ Fairness

-----------------------------------------------------------------------------
(* Properties.                                                             *)

\* Never reprint a known job: a job reaches paper again only if the store lost,
\* pruned or never got the record of the print before.
ReprintOnlyAfterLapse == \A j \in Job : prints[j] <= 1 + lapses[j]

\* handleJob, and nothing else, has a job in hand.
JobInHand ==
  pc \in {"print", "mark", "job_completed", "job_failed"} <=> cur # NoJob

\* The account behind it, inductive: each print is recorded, about to be
\* recorded, or covered by a lapse (a record can also come back, when the file
\* is readable again).
PrintAccount ==
  /\ \A j \in Job :
       prints[j] <= lapses[j] + IF Seen(j) \/ (pc = "mark" /\ cur = j)
                                THEN 1 ELSE 0
  /\ JobInHand
  /\ pc \in {"print", "mark"} => ~Seen(cur)

\* Whatever carries job_completed, on its way or buffered or in the file, is
\* about a job that was printed.
CompletedWasPrinted ==
  LET Held == {frames, pending, disk.pending, up}
      Says(s) == {s[i].id : i \in {i \in DOMAIN s : s[i].type = "job_completed"}}
  IN  /\ \A s \in Held : \A j \in Says(s) : prints[j] > 0
      /\ \A j \in Job : verdict[j] = "job_completed" => prints[j] > 0
      /\ pc = "job_completed" => prints[cur] > 0

\* While no print of the job went unrecorded, the Backend never sees it fail
\* after it saw it complete: results keep their order through the buffer, the
\* file and reconnections. It takes a file that can be written: a flush whose
\* TakePending is not persisted is sent again, from its oldest result, after a crash.
NoFailureAfterCompletion ==
  [][\A j \in Job : verdict[j] = "job_completed" /\ lapses[j] = 0
                     => verdict'[j] = "job_completed"]_vars

\* The machine is where the session is: no setState the lifecycle relies on is
\* refused, and CONNECTED is shown in an accepted session only.
StateMatchesPhase ==
  /\ pc = "top" => machine \in {"STARTING", "RECONNECTING"}
  /\ pc \in {"dial", "hello"} => machine = "CONNECTING"
  /\ pc \in {"auth", "register"} => machine = "AUTHENTICATING"
  /\ pc = "online" => machine = "REGISTERING"
  /\ pc = "ended" => machine \in {"DISCONNECTED", "ERROR"}
  /\ pc = "backoff" => machine = "RECONNECTING"
  /\ machine = "CONNECTED" /\ pc # "off" => srv = "accepted" /\ link # "none"

\* A result buffered while a session serves is there because that connection
\* refuses every write: on a working one the buffer is empty and results go out
\* in the order they were produced.
BufferOnlyWhenDead ==
  pc \in InSession \ {"hello", "auth", "register", "online"} /\ pending # <<>>
    => link = "dead"

(***************************************************************************)
(* The lifecycle implements the promise of JobDelivery.                    *)
(***************************************************************************)
Delivery == INSTANCE JobDelivery WITH
              recorded <- DOMAIN done,
              unrecorded <- IF pc = "mark" THEN cur ELSE NoJob

\* Every step of the session, the store and the link is a step of JobDelivery
\* or leaves what it speaks of alone.
KeepsPromise == Delivery!Spec

\* Every job is answered in the end, whatever broke on the way.
EveryJobAnswered == \A j \in Job : <>(verdict[j] # "none")

\* Buffered results leave the buffer in the end.
BufferDrains == []<>(pending = <<>> /\ frames = <<>>)

=============================================================================
