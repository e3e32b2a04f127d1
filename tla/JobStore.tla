------------------------------ MODULE JobStore ------------------------------
(***************************************************************************)
(* The file-backed job store (internal/adapters/store/filestore.go): the   *)
(* ids of the jobs already processed, each with the second in which it was *)
(* recorded, and the result frames that could not be sent.  Every method   *)
(* holds the store's mutex from its first line to its last and ends in     *)
(* persist, so each is one step.  The modules that use the store choose    *)
(* the clock reading of MarkDone.                                          *)
(***************************************************************************)
EXTENDS Integers, Sequences, FiniteSets

CONSTANTS Job,         \* job ids
          Frame,       \* result frames
          MaxDone,     \* maxDone: how many ids are kept
          FileFails    \* TRUE if the file may fail to be read or written

ASSUME StoreAssumption ==
  /\ IsFiniteSet(Job)
  /\ MaxDone \in Nat
  /\ FileFails \in BOOLEAN

VARIABLES done,     \* Store.done: recorded id -> seconds
          pending,  \* Store.pending: frames still to be sent
          disk      \* the file: a record of the two, as last written

store == <<done, pending, disk>>

IsDoneMap(d) == DOMAIN d \subseteq Job /\ d \in [DOMAIN d -> Nat]

StoreTypeOK ==
  /\ IsDoneMap(done) /\ pending \in Seq(Frame)
  /\ disk = [done |-> disk.done, pending |-> disk.pending]
  /\ IsDoneMap(disk.done) /\ disk.pending \in Seq(Frame)

\* New on a machine where no file exists yet.
StoreInit ==
  /\ done = [j \in {} |-> 0]
  /\ pending = <<>>
  /\ disk = [done |-> [j \in {} |-> 0], pending |-> <<>>]

Seen(id) == id \in DOMAIN done

\* Slip: the id is recorded with a zero time.Time, some moment before 1970.
Put_ZeroTime(d, id, now) ==
  [j \in DOMAIN d \cup {id} |-> IF j = id THEN -1 ELSE d[j]]

\* done[id] = now, in a map that may not have the key yet.
Put(d, id, now) ==
  [j \in DOMAIN d \cup {id} |-> IF j = id THEN now ELSE d[j]]

\* Slip: the sort is descending, so the newest ids go.
prune_Newest(d) ==
  IF Cardinality(DOMAIN d) <= MaxDone
  THEN {d}
  ELSE {[j \in K |-> d[j]] : K \in
          {K \in SUBSET DOMAIN d :
             /\ Cardinality(K) = MaxDone
             /\ \A k \in K : \A x \in DOMAIN d \ K : d[x] >= d[k]}}

\* Slip: the bound is tested with < instead of <=, and one id too many is kept.
prune_OneTooMany(d) ==
  IF Cardinality(DOMAIN d) <= MaxDone + 1
  THEN {d}
  ELSE {[j \in K |-> d[j]] : K \in
          {K \in SUBSET DOMAIN d :
             /\ Cardinality(K) = MaxDone + 1
             /\ \A k \in K : \A x \in DOMAIN d \ K : d[x] <= d[k]}}

(***************************************************************************)
(* The maps prune may leave.  It sorts by timestamp with an unstable sort, *)
(* over a map whose iteration order is random, and drops from the front:   *)
(* among equal timestamps any id may go, the one just recorded included.   *)
(***************************************************************************)
prune(d) ==
  IF Cardinality(DOMAIN d) <= MaxDone
  THEN {d}
  ELSE {[j \in K |-> d[j]] : K \in
          {K \in SUBSET DOMAIN d :
             /\ Cardinality(K) = MaxDone
             /\ \A k \in K : \A x \in DOMAIN d \ K : d[x] <= d[k]}}

\* Temp file and rename: the whole state is written, or nothing is and the
\* caller is not told.
persist(d, p) ==
  \/ disk' = [done |-> d, pending |-> p]
  \/ FileFails /\ disk' = disk

\* Slip: MarkDone relies on a later call to write the file.
MarkDone_Unsaved(id, now) ==
  \E d \in prune(Put(done, id, now)) :
    /\ done' = d
    /\ UNCHANGED <<pending, disk>>

MarkDone(id, now) ==
  \E d \in prune(Put(done, id, now)) :
    /\ done' = d
    /\ persist(d, pending)
    /\ UNCHANGED pending

\* Slip: the newest frame goes first.
AddPending_Front(frame) ==
  /\ pending' = <<frame>> \o pending
  /\ persist(done, pending')
  /\ UNCHANGED done

AddPending(frame) ==
  /\ pending' = Append(pending, frame)
  /\ persist(done, pending')
  /\ UNCHANGED done

\* The frames themselves go to the caller: Lifecycle keeps them in memory only.
TakePending ==
  /\ pending' = <<>>
  /\ persist(done, <<>>)
  /\ UNCHANGED done

\* New in a process started later: what the file holds, or nothing when it
\* cannot be read or parsed (the store starts empty and says nothing).
load ==
  /\ \/ done' = disk.done /\ pending' = disk.pending
     \/ FileFails /\ done' = [j \in {} |-> 0] /\ pending' = <<>>
  /\ UNCHANGED disk

=============================================================================
