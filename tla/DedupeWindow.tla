---------------------------- MODULE DedupeWindow ----------------------------
(***************************************************************************)
(* The job store under any sequence of calls and restarts, and a clock in  *)
(* whole seconds, to say how long a processed id is remembered: prune      *)
(* orders the ids by the second they were recorded in, not by the order of *)
(* the calls.                                                              *)
(***************************************************************************)
EXTENDS JobStore

CONSTANTS PerSecond,   \* how many jobs can be recorded within one second
          StepsBack,   \* TRUE if the clock may be set back
          MaxSecond,   \* bound on the clock
          MaxPending   \* bound on the buffered frames

ASSUME WindowAssumption ==
  /\ PerSecond \in 1..MaxDone
  /\ StepsBack \in BOOLEAN
  /\ MaxSecond \in Nat /\ MaxPending \in Nat

VARIABLES now,      \* time.Now().Unix()
          marked,   \* history: the jobs MarkDone was ever called for
          since     \* history: the jobs recorded since the job last was

vars == <<store, now, marked, since>>

Init ==
  /\ StoreInit
  /\ now = 0
  /\ marked = {}
  /\ since = [j \in Job |-> {}]

Tick ==
  /\ now' \in {t \in 0..MaxSecond : t > now \/ (StepsBack /\ t < now)}
  /\ UNCHANGED <<store, marked, since>>

Record(id) ==
  /\ Cardinality({j \in DOMAIN done : done[j] = now} \ {id}) < PerSecond
  /\ MarkDone(id, now)
  /\ marked' = marked \cup {id}
  /\ since' = [j \in Job |-> IF j = id THEN {} ELSE since[j] \cup {id}]
  /\ UNCHANGED now

Buffer(frame) ==
  /\ Len(pending) < MaxPending
  /\ AddPending(frame)
  /\ UNCHANGED <<now, marked, since>>

Flush == TakePending /\ UNCHANGED <<now, marked, since>>

\* The process ends, in any way, and New runs in the next one.
Restart == load /\ UNCHANGED <<now, marked, since>>

Next ==
  \/ Tick \/ Flush \/ Restart
  \/ \E id \in Job : Record(id)
  \/ \E frame \in Frame : Buffer(frame)

Spec == Init /\ [][Next]_vars

TypeOK ==
  /\ StoreTypeOK
  /\ now \in Nat
  /\ marked \in SUBSET Job
  /\ since \in [Job -> SUBSET Job]

-----------------------------------------------------------------------------

\* How many of the jobs recorded last are remembered for sure: a tie within one
\* second may cost PerSecond - 1 of them.
Window == MaxDone - PerSecond + 1

\* A job is forgotten only after Window other jobs were recorded after it,
\* restarts included.
RecentSeen ==
  \A j \in marked : Seen(j) \/ Cardinality(since[j]) >= Window

\* The store is a window: it never holds more than MaxDone ids, in memory or in
\* the file, and never one that was not recorded.
WindowBounded ==
  \A d \in {done, disk.done} :
    Cardinality(DOMAIN d) <= MaxDone /\ DOMAIN d \subseteq marked

\* A restart loses and revives nothing: the file is the memory at every moment
\* between two calls.
RestartKeepsAll == [][Restart => UNCHANGED <<done, pending>>]_vars

\* "MarkDone records the job id as processed": it is Seen right after.
MarkedIsSeen == [][\A id \in Job : Record(id) => id \in DOMAIN done']_vars

=============================================================================
