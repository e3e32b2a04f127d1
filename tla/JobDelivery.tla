---------------------------- MODULE JobDelivery -----------------------------
(***************************************************************************)
(* What the agent promises the Backend about one job, with no session, no  *)
(* buffer and no file: a job is put on paper only while it is not on       *)
(* record, one at a time; the record follows the print; records are lost   *)
(* only as counted lapses; "completed" is only said of a job that was      *)
(* printed, and is not taken back while no lapse hit the job.              *)
(***************************************************************************)
EXTENDS Integers

CONSTANTS Job, NoJob

VARIABLES prints,     \* how often the job reached paper
          recorded,   \* the jobs on record
          unrecorded, \* the job on paper and not yet on record, or NoJob
          verdict,    \* what the Backend last heard
          lapses      \* how often a print was left, or became, unrecorded

vars == <<prints, recorded, unrecorded, verdict, lapses>>

Init ==
  /\ prints = [j \in Job |-> 0]
  /\ recorded = {}
  /\ unrecorded = NoJob
  /\ verdict = [j \in Job |-> "none"]
  /\ lapses = [j \in Job |-> 0]

Bump(f, S) == [j \in Job |-> f[j] + IF j \in S THEN 1 ELSE 0]

PutOnPaper(j) ==
  /\ unrecorded = NoJob /\ j \notin recorded
  /\ prints' = Bump(prints, {j})
  /\ unrecorded' = j
  /\ UNCHANGED <<recorded, verdict, lapses>>

\* The print failed and left something on paper: reported as a failure.
SpoiledPrint(j) ==
  /\ unrecorded = NoJob /\ j \notin recorded
  /\ prints' = Bump(prints, {j})
  /\ lapses' = Bump(lapses, {j})
  /\ UNCHANGED <<recorded, unrecorded, verdict>>

\* The record of the job printed last; old records may have to go for it.
Record(j) ==
  /\ unrecorded = j /\ j \in Job
  /\ unrecorded' = NoJob
  /\ \E F \in SUBSET (recorded \cup {j}) :
       /\ recorded' = (recorded \cup {j}) \ F
       /\ lapses' = Bump(lapses, F)
  /\ UNCHANGED <<prints, verdict>>

\* The process dies between a print and its record.
LoseUnrecorded ==
  /\ unrecorded \in Job
  /\ unrecorded' = NoJob
  /\ lapses' = Bump(lapses, {unrecorded})
  /\ UNCHANGED <<prints, recorded, verdict>>

\* A restart finds other records than the last process had.
Reload ==
  /\ unrecorded = NoJob
  /\ recorded' \in SUBSET Job
  /\ \A j \in recorded' : prints[j] > 0
  /\ lapses' = Bump(lapses, recorded \ recorded')
  /\ UNCHANGED <<prints, unrecorded, verdict>>

Complete(j) ==
  /\ prints[j] > 0
  /\ verdict' = [verdict EXCEPT ![j] = "job_completed"]
  /\ UNCHANGED <<prints, recorded, unrecorded, lapses>>

Fail(j) ==
  /\ verdict[j] # "job_completed" \/ lapses[j] > 0
  /\ verdict' = [verdict EXCEPT ![j] = "job_failed"]
  /\ UNCHANGED <<prints, recorded, unrecorded, lapses>>

Next ==
  \/ LoseUnrecorded \/ Reload
  \/ \E j \in Job : \/ PutOnPaper(j) \/ SpoiledPrint(j) \/ Record(j)
                    \/ Complete(j) \/ Fail(j)

Spec == Init /\ [][Next]_vars

=============================================================================
