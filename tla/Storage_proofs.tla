--------------------------- MODULE Storage_proofs ---------------------------
(***************************************************************************)
(* What the agent writes and must be able to read back.  How long a        *)
(* processed id is remembered: for every size of the window, every number  *)
(* of jobs and every run of the clock, on a machine whose clock is not set *)
(* back and whose file can be read and written.  What the rotating log     *)
(* keeps: for every number of backups, every size and every length of the  *)
(* lines.  That a container of raster pages is decoded whole or not at     *)
(* all: for every number of pages and every length that 32 bits count. Of  *)
(* what a device makes of a page: that the GDI driver draws the whole of   *)
(* it where it should, for every page, geometry and margin; that the       *)
(* binarizer splits ink from paper as Otsu's method says, for every        *)
(* picture and density; and that a receipt is on paper as it was sent, for *)
(* all pages, texts and options.                                           *)
(***************************************************************************)
EXTENDS DedupeWindow, LogRotate, Devices, JobStore_proofs, SequenceFacts

\* Every reachable state of the store is well typed.
THEOREM WindowTypeCorrect == Spec => []TypeOK
<1>1. Init => TypeOK
  BY DEF Init, StoreInit, TypeOK, StoreTypeOK, IsDoneMap
<1>2. TypeOK /\ [Next]_vars => TypeOK'
  <2> SUFFICES ASSUME TypeOK, [Next]_vars PROVE TypeOK'
    OBVIOUS
  <2> USE DEF TypeOK
  <2>1. UNCHANGED store => StoreTypeOK'
    BY DEF StoreTypeOK, store, IsDoneMap
  <2>2. CASE Tick
    BY <2>1, <2>2, WindowAssumption DEF Tick
  <2>3. CASE Flush
    BY <2>3, TakePendingType DEF Flush
  <2>4. CASE Restart
    BY <2>4, LoadType DEF Restart
  <2>5. ASSUME NEW id \in Job, Record(id) PROVE TypeOK'
    BY <2>5, MarkDoneType DEF Record
  <2>6. ASSUME NEW frame \in Frame, Buffer(frame) PROVE TypeOK'
    BY <2>6, AddPendingType DEF Buffer
  <2>7. CASE UNCHANGED vars
    BY <2>1, <2>7 DEF vars, store
  <2>8. QED
    BY <2>2, <2>3, <2>4, <2>5, <2>6, <2>7 DEF Next
<1>3. QED
  BY <1>1, <1>2, PTL DEF Spec

-----------------------------------------------------------------------------
(* The inductive invariant.                                                *)

SameSecond(d, t) == {j \in DOMAIN d : d[j] = t}

\* The file is the memory.
FileIsMemory == disk = [done |-> done, pending |-> pending]

\* Nothing is recorded in the future, at most PerSecond ids in one second, and
\* nothing that was not marked.
Stamps ==
  /\ \A j \in DOMAIN done : done[j] <= now
  /\ \A t \in Nat : Cardinality(SameSecond(done, t)) <= PerSecond
  /\ DOMAIN done \subseteq marked

\* A later stamp is a later record.
LaterIsSince ==
  \A j, k \in DOMAIN done : done[k] > done[j] => k \in since[j]

WindowInv == FileIsMemory /\ Stamps /\ LaterIsSince /\ RecentSeen

\* Recording an id keeps the ids of one second within PerSecond.
LEMMA PutSameSecond ==
  ASSUME TypeOK, Stamps, NEW id \in Job, NEW t \in Nat,
         Cardinality(SameSecond(done, now) \ {id}) < PerSecond
  PROVE  Cardinality(SameSecond(Put(done, id, now), t)) <= PerSecond
<1> DEFINE d == Put(done, id, now)
<1>1. /\ IsDoneMap(done) /\ now \in Nat /\ IsDoneMap(d)
      /\ DOMAIN d = DOMAIN done \cup {id}
      /\ d[id] = now /\ \A j \in DOMAIN done \ {id} : d[j] = done[j]
  <2>1. IsDoneMap(done) /\ now \in Nat
    BY DEF TypeOK, StoreTypeOK
  <2>2. /\ IsDoneMap(Put(done, id, now))
        /\ DOMAIN Put(done, id, now) = DOMAIN done \cup {id}
    BY <2>1, PutType
  <2>3. /\ Put(done, id, now)[id] = now
        /\ \A j \in DOMAIN done \ {id} : Put(done, id, now)[j] = done[j]
    BY DEF Put
  <2>4. QED
    BY <2>1, <2>2, <2>3
<1>2. /\ IsFiniteSet(SameSecond(done, t)) /\ IsFiniteSet(SameSecond(done, now))
      /\ IsFiniteSet(SameSecond(done, now) \ {id})
  BY <1>1, FS_Subset, StoreAssumption DEF SameSecond, IsDoneMap
<1>3. PerSecond \in Nat
  BY WindowAssumption, StoreAssumption
<1>4. CASE t = now
  <2>1. SameSecond(d, t) = (SameSecond(done, now) \ {id}) \cup {id}
    BY <1>1, <1>4 DEF SameSecond
  <2>2. Cardinality(SameSecond(d, t)) = Cardinality(SameSecond(done, now) \ {id}) + 1
    BY <1>2, <2>1, FS_AddElement
  <2>3. Cardinality(SameSecond(done, now) \ {id}) \in Nat
    BY <1>2, FS_CardinalityType
  <2>4. QED
    BY <1>3, <2>2, <2>3
<1>5. CASE t # now
  <2>1. SameSecond(d, t) \subseteq SameSecond(done, t)
    BY <1>1, <1>5 DEF SameSecond
  <2>2. /\ Cardinality(SameSecond(d, t)) \in Nat
        /\ Cardinality(SameSecond(done, t)) \in Nat
        /\ Cardinality(SameSecond(d, t)) <= Cardinality(SameSecond(done, t))
    BY <1>2, <2>1, FS_Subset, FS_CardinalityType
  <2>3. Cardinality(SameSecond(done, t)) <= PerSecond
    BY DEF Stamps
  <2>4. QED
    BY <1>3, <2>2, <2>3
<1>6. QED
  BY <1>4, <1>5

\* An id prune drops leaves at least Window ids with a later stamp.
LEMMA PrunedHasLater ==
  ASSUME NEW d, IsDoneMap(d),
         \A t \in Nat : Cardinality(SameSecond(d, t)) <= PerSecond,
         NEW e \in prune(d), NEW x \in DOMAIN d \ DOMAIN e
  PROVE  Cardinality({k \in DOMAIN e : d[k] > d[x]}) >= Window
<1> DEFINE K == DOMAIN e
           Later == {k \in K : d[k] > d[x]}
           Tied == {k \in K : d[k] = d[x]}
<1>1. /\ K \subseteq DOMAIN d /\ Cardinality(K) = MaxDone
      /\ \A k \in K : d[x] <= d[k]
  BY DEF prune
<1>2. d[x] \in Nat /\ \A k \in K : d[k] \in Nat
  BY <1>1 DEF IsDoneMap
<1>3. /\ IsFiniteSet(DOMAIN d) /\ IsFiniteSet(SameSecond(d, d[x]))
      /\ IsFiniteSet(Later) /\ IsFiniteSet(Tied)
  BY <1>1, FS_Subset, StoreAssumption DEF IsDoneMap, SameSecond
<1>4. K = Later \cup Tied /\ Later \cap Tied = {}
  BY <1>1, <1>2
<1>5. /\ Cardinality(Later) \in Nat /\ Cardinality(Tied) \in Nat
      /\ Cardinality(SameSecond(d, d[x])) \in Nat
  BY <1>3, FS_CardinalityType
<1>6. MaxDone = Cardinality(Later) + Cardinality(Tied)
  <2>1. Cardinality(Later \cap Tied) = 0
    BY <1>4, FS_EmptySet
  <2>2. Cardinality(Later \cup Tied)
          = Cardinality(Later) + Cardinality(Tied) - Cardinality(Later \cap Tied)
    BY <1>3, FS_Union
  <2>3. QED
    BY <1>1, <1>4, <1>5, <2>1, <2>2
<1>7. Cardinality(Tied) + 1 <= PerSecond
  <2>1. /\ Tied \cup {x} \subseteq SameSecond(d, d[x]) /\ x \notin Tied
    BY <1>1 DEF SameSecond
  <2>2. Cardinality(Tied \cup {x}) = Cardinality(Tied) + 1
    BY <1>3, <2>1, FS_AddElement
  <2>3. Cardinality(Tied \cup {x}) <= Cardinality(SameSecond(d, d[x]))
    BY <1>3, <2>1, FS_Subset
  <2>4. Cardinality(SameSecond(d, d[x])) <= PerSecond
    BY <1>2
  <2>5. QED
    BY <1>5, <2>2, <2>3, <2>4, WindowAssumption, StoreAssumption
<1>8. QED
  BY <1>5, <1>6, <1>7, WindowAssumption, StoreAssumption DEF Window

-----------------------------------------------------------------------------
(* The invariant is kept.                                                  *)

\* Recording an id keeps the window: what is dropped for it is already followed
\* by Window others, and is never the id itself.
LEMMA RecordKeepsWindow ==
  ASSUME TypeOK, WindowInv, ~FileFails, NEW id \in Job, Record(id)
  PROVE  WindowInv' /\ id \in DOMAIN done'
<1> DEFINE d == Put(done, id, now)
<1>1. /\ IsDoneMap(done) /\ now \in Nat /\ now' = now
      /\ marked' = marked \cup {id}
      /\ since' = [j \in Job |-> IF j = id THEN {} ELSE since[j] \cup {id}]
      /\ since \in [Job -> SUBSET Job] /\ marked \subseteq Job
  BY DEF TypeOK, StoreTypeOK, Record
<1>2. IsDoneMap(d) /\ DOMAIN d = DOMAIN done \cup {id}
  BY <1>1, PutType
<1>3. d[id] = now /\ \A j \in DOMAIN done \ {id} : d[j] = done[j]
  BY DEF Put
<1>4. done' \in prune(d) /\ persist(done', pending) /\ pending' = pending
  BY DEF Record, MarkDone
<1>5. /\ IsDoneMap(done') /\ DOMAIN done' \subseteq DOMAIN d
      /\ \A j \in DOMAIN done' : done'[j] = d[j]
  <2>1. PICK e : e = done'
    OBVIOUS
  <2>2. /\ IsDoneMap(e) /\ DOMAIN e \subseteq DOMAIN d
        /\ \A j \in DOMAIN e : e[j] = d[j]
    BY <1>2, <1>4, <2>1, PruneType
  <2>3. QED
    BY <2>1, <2>2 DEF IsDoneMap
<1>6. FileIsMemory'
  BY <1>4 DEF FileIsMemory, persist
<1>7. \A t \in Nat : Cardinality(SameSecond(d, t)) <= PerSecond
  BY PutSameSecond DEF WindowInv, Record, SameSecond
<1>8. Stamps'
  <2>1. \A j \in DOMAIN done' : done'[j] <= now' /\ j \in marked'
    BY <1>1, <1>2, <1>3, <1>5 DEF WindowInv, Stamps, IsDoneMap
  <2>2. ASSUME NEW t \in Nat
        PROVE  Cardinality(SameSecond(done', t)) <= PerSecond
    <3>1. SameSecond(done', t) \subseteq SameSecond(d, t)
      BY <1>5 DEF SameSecond
    <3>2. IsFiniteSet(SameSecond(d, t))
      BY <1>2, FS_Subset, StoreAssumption DEF SameSecond, IsDoneMap
    <3>3. /\ Cardinality(SameSecond(done', t)) \in Nat
          /\ Cardinality(SameSecond(d, t)) \in Nat
          /\ Cardinality(SameSecond(done', t)) <= Cardinality(SameSecond(d, t))
      BY <3>1, <3>2, FS_Subset, FS_CardinalityType
    <3>4. QED
      BY <1>7, <3>3, WindowAssumption, StoreAssumption
  <2>3. QED
    BY <2>1, <2>2 DEF Stamps, SameSecond
<1>9. \A j, k \in DOMAIN d : d[k] > d[j] => k \in since'[j]
  <2> SUFFICES ASSUME NEW j \in DOMAIN d, NEW k \in DOMAIN d, d[k] > d[j]
               PROVE  k \in since'[j]
    OBVIOUS
  <2>1. j \in Job /\ k \in Job /\ d[j] \in Nat /\ d[k] \in Nat
    BY <1>2 DEF IsDoneMap
  <2>2. d[k] <= now
    BY <1>1, <1>2, <1>3 DEF WindowInv, Stamps
  <2>3. j # id
    BY <1>1, <1>3, <2>1, <2>2
  <2>4. since'[j] = since[j] \cup {id}
    BY <1>1, <2>1, <2>3
  <2>5. CASE k # id
    <3>1. j \in DOMAIN done /\ k \in DOMAIN done /\ done[k] > done[j]
      BY <1>2, <1>3, <2>3, <2>5
    <3>2. QED
      BY <2>4, <3>1 DEF WindowInv, LaterIsSince
  <2>6. QED
    BY <2>4, <2>5
<1>10. LaterIsSince'
  BY <1>5, <1>9 DEF LaterIsSince
<1>11. ASSUME NEW x \in DOMAIN d \ DOMAIN done'
       PROVE  x # id /\ Cardinality(since'[x]) >= Window
  <2> DEFINE Later == {k \in DOMAIN done' : d[k] > d[x]}
  <2>1. Cardinality(Later) >= Window
    <3>1. PICK e : e = done'
      OBVIOUS
    <3>2. e \in prune(d) /\ x \in DOMAIN d \ DOMAIN e
      BY <1>4, <3>1
    <3>3. Cardinality({k \in DOMAIN e : d[k] > d[x]}) >= Window
      BY <1>2, <1>7, <3>2, PrunedHasLater
    <3>4. QED
      BY <3>1, <3>3
  <2>2. x \in Job /\ since'[x] \in SUBSET Job
    BY <1>1, <1>2 DEF IsDoneMap
  <2>3. Later \subseteq since'[x] /\ Later \subseteq Job
    BY <1>2, <1>5, <1>9 DEF IsDoneMap
  <2>4. /\ Cardinality(Later) \in Nat /\ Cardinality(since'[x]) \in Nat
        /\ Cardinality(Later) <= Cardinality(since'[x])
    <3>1. IsFiniteSet(since'[x]) /\ IsFiniteSet(Later)
      BY <2>2, <2>3, FS_Subset, StoreAssumption
    <3>2. QED
      BY <2>3, <3>1, FS_Subset, FS_CardinalityType
  <2>5. Window \in Nat \ {0}
    BY WindowAssumption, StoreAssumption DEF Window
  <2>6. x # id
    <3>1. SUFFICES ASSUME x = id PROVE FALSE
      OBVIOUS
    <3>2. since'[x] = {}
      BY <1>1, <2>2, <3>1
    <3>3. Cardinality(since'[x]) = 0
      BY <3>2, FS_EmptySet
    <3>4. QED
      BY <2>1, <2>4, <2>5, <3>3
  <2>7. QED
    BY <2>1, <2>4, <2>5, <2>6
<1>12. id \in DOMAIN done'
  BY <1>2, <1>11
<1>13. RecentSeen'
  <2> SUFFICES ASSUME NEW j \in marked', j \notin DOMAIN done'
               PROVE  Cardinality(since'[j]) >= Window
    BY DEF RecentSeen, Seen, Window
  <2>1. CASE j \in DOMAIN d
    BY <1>11, <2>1
  <2>2. CASE j \notin DOMAIN d
    <3>1. j # id /\ j \in marked /\ j \notin DOMAIN done /\ j \in Job
      BY <1>1, <1>2, <2>2
    <3>2. Cardinality(since[j]) >= Window
      BY <3>1 DEF WindowInv, RecentSeen, Seen
    <3>3. since'[j] = since[j] \cup {id} /\ since'[j] \in SUBSET Job
      BY <1>1, <3>1
    <3>4. IsFiniteSet(since'[j]) /\ since[j] \in SUBSET since'[j]
      BY <3>3, FS_Subset, StoreAssumption
    <3>5. /\ Cardinality(since[j]) <= Cardinality(since'[j])
          /\ Cardinality(since[j]) \in Nat /\ Cardinality(since'[j]) \in Nat
      BY <3>4, FS_Subset, FS_CardinalityType
    <3>6. QED
      BY <3>2, <3>5, WindowAssumption, StoreAssumption DEF Window
  <2>3. QED
    BY <2>1, <2>2
<1>14. QED
  BY <1>6, <1>8, <1>10, <1>12, <1>13 DEF WindowInv

\* One step keeps the window, when the clock is not set back and the file can
\* be read and written.
LEMMA WindowStep ==
  ASSUME ~StepsBack, ~FileFails, TypeOK, WindowInv, [Next]_vars
  PROVE  WindowInv'
<1>1. ASSUME UNCHANGED <<done, marked, since>>, FileIsMemory',
             now' \in Nat, now <= now'
      PROVE  WindowInv'
  <2>1. /\ IsDoneMap(done) /\ now \in Nat
        /\ \A j \in DOMAIN done : done[j] \in Nat /\ done[j] <= now
    BY DEF TypeOK, StoreTypeOK, IsDoneMap, WindowInv, Stamps
  <2>2. Stamps'
    BY <1>1, <2>1 DEF WindowInv, Stamps, SameSecond
  <2>3. QED
    BY <1>1, <2>2
       DEF WindowInv, LaterIsSince, RecentSeen, Seen, Window
<1>2. now \in Nat
  BY DEF TypeOK
<1>3. CASE Tick
  <2>1. UNCHANGED <<done, pending, disk, marked, since>>
    BY <1>3 DEF Tick, store
  <2>2. now' \in Nat /\ now <= now'
    BY <1>2, <1>3, WindowAssumption DEF Tick
  <2>3. QED
    BY <1>1, <2>1, <2>2 DEF WindowInv, FileIsMemory
<1>4. CASE Flush
  BY <1>1, <1>2, <1>4 DEF Flush, TakePending, persist, FileIsMemory
<1>5. CASE Restart
  BY <1>1, <1>2, <1>5 DEF Restart, load, FileIsMemory, WindowInv
<1>6. ASSUME NEW id \in Job, Record(id) PROVE WindowInv'
  BY <1>6, RecordKeepsWindow
<1>7. ASSUME NEW frame \in Frame, Buffer(frame) PROVE WindowInv'
  BY <1>1, <1>2, <1>7 DEF Buffer, AddPending, persist, FileIsMemory
<1>8. CASE UNCHANGED vars
  BY <1>1, <1>2, <1>8 DEF vars, store, WindowInv, FileIsMemory
<1>9. QED
  BY <1>3, <1>4, <1>5, <1>6, <1>7, <1>8 DEF Next

LEMMA WindowInvHolds ==
  ASSUME ~StepsBack, ~FileFails
  PROVE  Spec => [](TypeOK /\ WindowInv)
<1>1. Init => WindowInv
  <2> SUFFICES ASSUME Init PROVE WindowInv
    OBVIOUS
  <2>1. \A t \in Nat : Cardinality(SameSecond(done, t)) <= PerSecond
    <3> SUFFICES ASSUME NEW t \in Nat
                 PROVE  Cardinality(SameSecond(done, t)) <= PerSecond
      OBVIOUS
    <3>1. SameSecond(done, t) = {}
      BY DEF Init, StoreInit, SameSecond
    <3>2. Cardinality(SameSecond(done, t)) = 0
      BY <3>1, FS_EmptySet
    <3>3. QED
      BY <3>2, WindowAssumption, StoreAssumption
  <2>2. QED
    BY <2>1 DEF Init, StoreInit, WindowInv, FileIsMemory, Stamps, LaterIsSince,
                RecentSeen
<1>2. TypeOK /\ WindowInv /\ [Next]_vars => WindowInv'
  BY WindowStep
<1>3. QED
  BY <1>1, <1>2, WindowTypeCorrect, PTL DEF Spec

\* A processed id is forgotten only after Window others were recorded since, for
\* every number of jobs and restarts.
THEOREM RecentIsRemembered ==
  ASSUME ~StepsBack, ~FileFails
  PROVE  Spec => []RecentSeen
<1>1. WindowInv => RecentSeen
  BY DEF WindowInv
<1>2. QED
  BY <1>1, WindowInvHolds, PTL

\* MarkDone never drops the id it records.
THEOREM MarkedIsRemembered ==
  ASSUME ~StepsBack, ~FileFails
  PROVE  Spec => MarkedIsSeen
<1>1. TypeOK /\ WindowInv /\ [Next]_vars
        => [\A id \in Job : Record(id) => id \in DOMAIN done']_vars
  BY RecordKeepsWindow
<1>2. QED
  BY <1>1, WindowInvHolds, PTL DEF Spec, MarkedIsSeen

\* A restart finds what the process that ended had.
THEOREM RestartLosesNothing ==
  ASSUME ~StepsBack, ~FileFails
  PROVE  Spec => RestartKeepsAll
<1>1. TypeOK /\ WindowInv /\ [Next]_vars
        => [Restart => UNCHANGED <<done, pending>>]_vars
  BY DEF WindowInv, FileIsMemory, Restart, load
<1>2. QED
  BY <1>1, WindowInvHolds, PTL DEF Spec, RestartKeepsAll

-----------------------------------------------------------------------------
(* The size of the window, under any clock and with any file.              *)

\* A map prune leaves has MaxDone ids at most.
LEMMA PruneBounds ==
  ASSUME NEW d, IsDoneMap(d), NEW e \in prune(d)
  PROVE  Cardinality(DOMAIN e) <= MaxDone /\ DOMAIN e \subseteq DOMAIN d
<1>1. MaxDone \in Nat
  BY StoreAssumption
<1>2. CASE Cardinality(DOMAIN d) <= MaxDone
  <2>1. e = d
    BY <1>2 DEF prune
  <2>2. QED
    BY <1>2, <2>1
<1>3. CASE ~(Cardinality(DOMAIN d) <= MaxDone)
  <2>1. PICK K \in SUBSET DOMAIN d : Cardinality(K) = MaxDone /\ e = [j \in K |-> d[j]]
    BY <1>3 DEF prune
  <2>2. DOMAIN e = K
    BY <2>1
  <2>3. QED
    BY <1>1, <2>1, <2>2
<1>4. QED
  BY <1>2, <1>3

\* The store holds at most MaxDone ids, and the file too, and only ids that were
\* recorded, whatever the clock does and whether the file can be written or not.
THEOREM WindowStaysBounded == Spec => []WindowBounded
<1>1. Init => WindowBounded
  <2> SUFFICES ASSUME Init PROVE WindowBounded
    OBVIOUS
  <2>1. DOMAIN done = {} /\ DOMAIN disk.done = {}
    BY DEF Init, StoreInit
  <2>2. ASSUME NEW d \in {done, disk.done}
        PROVE  Cardinality(DOMAIN d) <= MaxDone /\ DOMAIN d \subseteq marked
    <3>1. DOMAIN d = {}
      BY <2>1
    <3>2. Cardinality(DOMAIN d) = 0
      BY <3>1, FS_EmptySet
    <3>3. QED
      BY <3>1, <3>2, StoreAssumption
  <2>3. QED
    BY <2>2 DEF WindowBounded
<1>2. TypeOK /\ WindowBounded /\ [Next]_vars => WindowBounded'
  <2> SUFFICES ASSUME TypeOK, WindowBounded, [Next]_vars PROVE WindowBounded'
    OBVIOUS
  <2>1. CASE UNCHANGED <<done, marked>> /\ disk'.done \in {done, disk.done}
    BY <2>1 DEF WindowBounded
  <2>2. CASE Tick \/ UNCHANGED vars
    BY <2>1, <2>2 DEF Tick, vars, store
  <2>3. CASE Flush
    BY <2>1, <2>3 DEF Flush, TakePending, persist
  <2>4. ASSUME NEW frame \in Frame, Buffer(frame) PROVE WindowBounded'
    BY <2>1, <2>4 DEF Buffer, AddPending, persist
  <2>5. CASE Restart
    <3>1. UNCHANGED <<disk, marked>> /\ (done' = disk.done \/ done' = [j \in {} |-> 0])
      BY <2>5 DEF Restart, load
    <3>2. DOMAIN [j \in {} |-> 0] = {} /\ Cardinality({}) = 0
      BY FS_EmptySet
    <3>3. QED
      BY <3>1, <3>2, StoreAssumption DEF WindowBounded
  <2>6. ASSUME NEW id \in Job, Record(id) PROVE WindowBounded'
    <3>1. PICK d \in prune(Put(done, id, now)) :
            done' = d /\ persist(d, pending) /\ marked' = marked \cup {id}
      BY <2>6 DEF Record, MarkDone
    <3>2. /\ IsDoneMap(Put(done, id, now))
          /\ DOMAIN Put(done, id, now) = DOMAIN done \cup {id}
      BY PutType DEF TypeOK, StoreTypeOK
    <3>3. Cardinality(DOMAIN d) <= MaxDone /\ DOMAIN d \subseteq marked'
      BY <3>1, <3>2, PruneBounds DEF WindowBounded
    <3>4. disk'.done \in {d, disk.done}
      BY <3>1 DEF persist
    <3>5. QED
      BY <3>1, <3>3, <3>4 DEF WindowBounded
  <2>7. QED
    BY <2>2, <2>3, <2>4, <2>5, <2>6 DEF Next
<1>3. QED
  BY <1>1, <1>2, WindowTypeCorrect, PTL DEF Spec

-----------------------------------------------------------------------------
(* The log.  First, sequences of lines.                                    *)

\* The lines of s go up; all of s are older than those of t.
Sorted(s) == \A i, j \in 1 .. Len(s) : i < j => s[i] < s[j]
Older(s, t) == \A i \in 1 .. Len(s) : \A j \in 1 .. Len(t) : s[i] < t[j]

LEMMA SortedConcat ==
  ASSUME NEW s \in Seq(Nat), NEW t \in Seq(Nat), Sorted(s), Sorted(t), Older(s, t)
  PROVE  /\ s \o t \in Seq(Nat) /\ Sorted(s \o t)
         /\ \A u \in Seq(Nat) : Older(s, u) /\ Older(t, u) => Older(s \o t, u)
<1>1. /\ s \o t \in Seq(Nat) /\ Len(s \o t) = Len(s) + Len(t)
      /\ Len(s) \in Nat /\ Len(t) \in Nat
      /\ \A i \in 1 .. Len(s \o t) : (s \o t)[i] = IF i <= Len(s) THEN s[i] ELSE t[i - Len(s)]
  BY ConcatProperties, LenProperties
<1>2. Sorted(s \o t)
  <2> SUFFICES ASSUME NEW i \in 1 .. Len(s) + Len(t), NEW j \in 1 .. Len(s) + Len(t), i < j
               PROVE  (s \o t)[i] < (s \o t)[j]
    BY <1>1 DEF Sorted
  <2>1. CASE j <= Len(s)
    <3>1. i \in 1 .. Len(s) /\ j \in 1 .. Len(s)
      BY <1>1, <2>1
    <3>2. QED
      BY <1>1, <2>1, <3>1 DEF Sorted
  <2>2. CASE i <= Len(s) /\ ~ (j <= Len(s))
    <3>1. i \in 1 .. Len(s) /\ j - Len(s) \in 1 .. Len(t)
      BY <1>1, <2>2
    <3>2. QED
      BY <1>1, <2>2, <3>1 DEF Older
  <2>3. CASE ~ (i <= Len(s))
    <3>1. i - Len(s) \in 1 .. Len(t) /\ j - Len(s) \in 1 .. Len(t) /\ ~ (j <= Len(s))
      BY <1>1, <2>3
    <3>2. i - Len(s) < j - Len(s)
      BY <1>1
    <3>3. QED
      BY <1>1, <2>3, <3>1, <3>2 DEF Sorted
  <2>4. QED
    BY <1>1, <2>1, <2>2, <2>3
<1>3. ASSUME NEW u \in Seq(Nat), Older(s, u), Older(t, u),
             NEW i \in 1 .. Len(s \o t), NEW j \in 1 .. Len(u)
      PROVE  (s \o t)[i] < u[j]
  <2>1. CASE i <= Len(s)
    <3>1. i \in 1 .. Len(s)
      BY <1>1, <2>1
    <3>2. QED
      BY <1>1, <1>3, <2>1, <3>1 DEF Older
  <2>2. CASE ~ (i <= Len(s))
    <3>1. i - Len(s) \in 1 .. Len(t)
      BY <1>1, <2>2
    <3>2. QED
      BY <1>1, <1>3, <2>2, <3>1 DEF Older
  <2>3. QED
    BY <2>1, <2>2
<1>4. QED
  BY <1>1, <1>2, <1>3 DEF Older

\* Sorted sequences one after the other, each older than the next, are sorted.
LEMMA FlattenSorted ==
  ASSUME NEW ss \in Seq(Seq(Nat)), \A i \in 1 .. Len(ss) : Sorted(ss[i]),
         \A i, j \in 1 .. Len(ss) : i < j => Older(ss[i], ss[j])
  PROVE  /\ FlattenSeq(ss) \in Seq(Nat) /\ Sorted(FlattenSeq(ss))
         /\ \A u \in Seq(Nat) : (\A i \in 1 .. Len(ss) : Older(ss[i], u)) => Older(FlattenSeq(ss), u)
<1>1. CASE Len(ss) = 0
  <2>1. FlattenSeq(ss) = <<>>
    BY <1>1, EmptySeq DEF FlattenSeq
  <2>2. QED
    BY <2>1 DEF Sorted, Older
<1>2. CASE Len(ss) # 0
  <2>1. PICK flat : /\ FlattenSeq(ss) = flat[Len(ss)]
                    /\ \A i \in 1 .. Len(ss) : flat[i] = IF i = 1 THEN ss[i] ELSE flat[i - 1] \o ss[i]
    BY <1>2, FlattenSteps
  <2>2. Len(ss) \in Nat /\ \A i \in 1 .. Len(ss) : ss[i] \in Seq(Nat)
    BY LenProperties, ElementOfSeq
  <2> DEFINE Ok(n) == /\ flat[n] \in Seq(Nat) /\ Sorted(flat[n])
                      /\ \A j \in n + 1 .. Len(ss) : Older(flat[n], ss[j])
                      /\ \A u \in Seq(Nat) : (\A i \in 1 .. n : Older(ss[i], u)) => Older(flat[n], u)
             T == {n \in Nat : n \in 1 .. Len(ss) => Ok(n)}
  <2>3. 0 \in T
    OBVIOUS
  <2>4. ASSUME NEW n \in T, n + 1 \in 1 .. Len(ss) PROVE Ok(n + 1)
    <3> DEFINE m == n + 1
    <3>0. n \in Nat /\ m \in 1 .. Len(ss) /\ m - 1 = n /\ (m = 1 <=> n = 0)
      BY <2>4
    <3> HIDE DEF m
    <3>1. CASE m = 1
      <4>1. flat[m] = ss[m]
        BY <2>1, <3>0, <3>1
      <4>2. \A j \in m + 1 .. Len(ss) : j \in 1 .. Len(ss) /\ m < j
        BY <2>2, <3>0
      <4>3. QED
        BY <2>2, <3>0, <3>1, <4>1, <4>2 DEF m
    <3>2. CASE m # 1
      <4>0. n \in 1 .. Len(ss)
        BY <2>2, <3>0, <3>2
      <4>1. flat[m] = flat[n] \o ss[m] /\ n \in 1 .. Len(ss)
        <5>1. flat[m] = flat[m - 1] \o ss[m]
          BY <2>1, <3>0, <3>2
        <5>2. QED
          BY <3>0, <4>0, <5>1
      <4>2. Ok(n)
        BY <4>1
      <4>3. /\ flat[n] \in Seq(Nat) /\ Sorted(flat[n]) /\ ss[m] \in Seq(Nat) /\ Sorted(ss[m])
            /\ Older(flat[n], ss[m])
        BY <2>2, <3>0, <4>2 DEF m
      <4>4. /\ flat[m] \in Seq(Nat) /\ Sorted(flat[m])
            /\ \A u \in Seq(Nat) : Older(flat[n], u) /\ Older(ss[m], u) => Older(flat[m], u)
        BY <4>1, <4>3, SortedConcat
      <4>5. ASSUME NEW j \in m + 1 .. Len(ss) PROVE Older(flat[m], ss[j])
        <5>1. j \in 1 .. Len(ss) /\ m < j /\ j \in n + 1 .. Len(ss)
          BY <2>2, <3>0
        <5>2. Older(flat[n], ss[j]) /\ Older(ss[m], ss[j]) /\ ss[j] \in Seq(Nat)
          BY <2>2, <3>0, <4>2, <5>1
        <5>3. QED
          BY <4>4, <5>2
      <4>6. ASSUME NEW u \in Seq(Nat), \A i \in 1 .. m : Older(ss[i], u) PROVE Older(flat[m], u)
        <5>1. (\A i \in 1 .. n : Older(ss[i], u)) /\ Older(ss[m], u)
          BY <3>0, <4>6
        <5>2. Older(flat[n], u)
          BY <4>2, <5>1
        <5>3. QED
          BY <4>4, <5>1, <5>2
      <4>7. QED
        BY <4>4, <4>5, <4>6 DEF m
    <3>3. QED
      BY <3>1, <3>2
  <2>5. T = Nat
    <3>1. T \in SUBSET Nat
      OBVIOUS
    <3>2. ASSUME NEW n \in T PROVE n + 1 \in T
      <4>1. n + 1 \in 1 .. Len(ss) => Ok(n + 1)
        BY <2>4
      <4> HIDE DEF Ok
      <4>2. QED
        BY <4>1
    <3> HIDE DEF T
    <3>3. QED
      BY <2>3, <3>1, <3>2, EveryNatural
  <2>6. Len(ss) \in 1 .. Len(ss) /\ Len(ss) \in T
    BY <1>2, <2>2, <2>5
  <2>7. Ok(Len(ss))
    BY <2>6
  <2>8. QED
    BY <2>1, <2>7
<1>3. QED
  BY <1>1, <1>2

\* A sorted sequence without a gap is as long as it says.
LEMMA GaplessLength ==
  ASSUME NEW s \in Seq(Nat), Sorted(s), s # <<>>,
         \A i \in 1 .. Len(s) : \A x \in Nat :
           s[1] <= x /\ x <= s[i] => \E j \in 1 .. Len(s) : s[j] = x
  PROVE  s[Len(s)] - s[1] = Len(s) - 1
<1>1. Len(s) \in Nat \ {0} /\ \A i \in 1 .. Len(s) : s[i] \in Nat
  BY LenProperties, ElementOfSeq, EmptySeq
<1> DEFINE T == {n \in Nat : n + 1 \in 1 .. Len(s) => s[n + 1] = s[1] + n}
<1>2. 0 \in T
  BY <1>1
<1>3. ASSUME NEW n \in T, n + 2 \in 1 .. Len(s) PROVE s[n + 2] = s[1] + n + 1
  <2>1. n + 1 \in 1 .. Len(s) /\ n \in Nat /\ 1 \in 1 .. Len(s)
    BY <1>1, <1>3
  <2>2. s[n + 1] = s[1] + n /\ s[n + 1] < s[n + 2] /\ s[1] \in Nat /\ s[n + 2] \in Nat
    BY <1>1, <1>3, <2>1 DEF Sorted
  <2>0. s[1] + n + 1 \in Nat /\ s[1] <= s[1] + n + 1 /\ s[1] + n + 1 <= s[n + 2]
    BY <2>1, <2>2
  <2>3. PICK j \in 1 .. Len(s) : s[j] = s[1] + n + 1
    BY <1>3, <2>0
  <2>4. ~ (j < n + 1)
    BY <1>1, <2>1, <2>2, <2>3 DEF Sorted
  <2>5. j # n + 1
    BY <2>2, <2>3
  <2>6. ~ (n + 2 < j)
    <3>1. n + 2 < j => s[n + 2] < s[j]
      BY <1>3 DEF Sorted
    <3>2. QED
      BY <2>1, <2>2, <2>3, <3>1
  <2>7. j = n + 2
    BY <2>1, <2>4, <2>5, <2>6
  <2>8. QED
    BY <2>3, <2>7
<1>4. T = Nat
  <2>1. T \in SUBSET Nat
    OBVIOUS
  <2>2. \A n \in T : n + 1 \in T
    BY <1>3
  <2> HIDE DEF T
  <2>3. QED
    BY <1>2, <2>1, <2>2, EveryNatural
<1>5. Len(s) - 1 \in T
  <2>1. Len(s) - 1 \in Nat
    BY <1>1
  <2> HIDE DEF T
  <2>2. QED
    BY <1>4, <2>1
<1>6. Len(s) - 1 + 1 = Len(s) /\ Len(s) \in 1 .. Len(s)
  BY <1>1
<1>7. s[Len(s)] = s[1] + (Len(s) - 1)
  BY <1>5, <1>6
<1>8. QED
  BY <1>1, <1>6, <1>7

-----------------------------------------------------------------------------
(* The log's files, from the newest, 0, to the oldest, b.                  *)

Has(D, b, x) == \E k \in 0 .. b : x \in ToSet(D[k])

\* Every file is sorted, older files have older lines, and n is the last line.
InTime(D, b, n) ==
  /\ \A k \in 0 .. b : Sorted(D[k]) /\ \A i \in 1 .. Len(D[k]) : D[k][i] <= n
  /\ \A j, k \in 0 .. b : j < k => Older(D[k], D[j])

\* What came after a line that is kept is kept.
NoGap(D, b, n) == \A x, y \in Nat : Has(D, b, x) /\ x < y /\ y <= n => Has(D, b, y)

LEMMA SetOf ==
  ASSUME NEW s \in Seq(Nat), NEW x
  PROVE  x \in ToSet(s) <=> \E i \in 1 .. Len(s) : s[i] = x
BY LenProperties DEF ToSet

LEMMA Appended ==
  ASSUME NEW b \in Nat, NEW n \in Nat, NEW D \in [0 .. b -> Seq(Nat)], InTime(D, b, n), NEW E,
         E = [D EXCEPT ![0] = Append(D[0], n + 1)]
  PROVE  /\ InTime(E, b, n + 1) /\ n + 1 \in ToSet(E[0])
         /\ \A x : Has(E, b, x) <=> Has(D, b, x) \/ x = n + 1
         /\ NoGap(D, b, n) => NoGap(E, b, n + 1)
<1>0. 0 \in 0 .. b /\ D[0] \in Seq(Nat) /\ Len(D[0]) \in Nat
  BY LenProperties
<1>1. /\ E[0] = Append(D[0], n + 1) /\ E[0] \in Seq(Nat) /\ Len(E[0]) = Len(D[0]) + 1
      /\ \A i \in 1 .. Len(D[0]) : E[0][i] = D[0][i]
      /\ E[0][Len(D[0]) + 1] = n + 1
      /\ \A k \in 0 .. b : k # 0 => E[k] = D[k]
  BY <1>0, AppendProperties
<1>2. ASSUME NEW i \in 1 .. Len(E[0])
      PROVE  IF i = Len(D[0]) + 1 THEN E[0][i] = n + 1
             ELSE i \in 1 .. Len(D[0]) /\ E[0][i] = D[0][i] /\ D[0][i] <= n /\ D[0][i] \in Nat
  BY <1>0, <1>1, ElementOfSeq DEF InTime
<1>3. Sorted(E[0]) /\ \A i \in 1 .. Len(E[0]) : E[0][i] <= n + 1
  <2>1. ASSUME NEW i \in 1 .. Len(E[0]), NEW j \in 1 .. Len(E[0]), i < j PROVE E[0][i] < E[0][j]
    <3>1. i # Len(D[0]) + 1
      BY <1>0, <1>1, <2>1
    <3>2. CASE j = Len(D[0]) + 1
      BY <1>2, <3>1, <3>2
    <3>3. CASE j # Len(D[0]) + 1
      <4>1. D[0][i] < D[0][j]
        BY <1>0, <1>2, <2>1, <3>1, <3>3 DEF InTime, Sorted
      <4>2. QED
        BY <1>2, <3>1, <3>3, <4>1
    <3>4. QED
      BY <3>2, <3>3
  <2>2. ASSUME NEW i \in 1 .. Len(E[0]) PROVE E[0][i] <= n + 1
    BY <1>2
  <2>3. QED
    BY <2>1, <2>2 DEF Sorted
<1>4. ASSUME NEW k \in 0 .. b, k # 0
      PROVE  /\ Sorted(E[k]) /\ \A i \in 1 .. Len(E[k]) : E[k][i] <= n + 1
             /\ Older(E[k], E[0])
  <2>1. E[k] = D[k] /\ D[k] \in Seq(Nat) /\ Sorted(D[k]) /\ Older(D[k], D[0])
    BY <1>0, <1>1, <1>4 DEF InTime
  <2>2. \A i \in 1 .. Len(D[k]) : D[k][i] <= n /\ D[k][i] \in Nat
    BY <2>1, ElementOfSeq DEF InTime
  <2>3. ASSUME NEW i \in 1 .. Len(D[k]), NEW j \in 1 .. Len(E[0]) PROVE D[k][i] < E[0][j]
    <3>1. CASE j = Len(D[0]) + 1
      BY <1>2, <2>2, <3>1
    <3>2. CASE j # Len(D[0]) + 1
      <4>1. D[k][i] < D[0][j]
        BY <1>2, <2>1, <3>2 DEF Older
      <4>2. QED
        BY <1>2, <3>2, <4>1
    <3>3. QED
      BY <3>1, <3>2
  <2>4. Older(D[k], E[0])
    BY <2>3 DEF Older
  <2>5. \A i \in 1 .. Len(D[k]) : D[k][i] <= n + 1
    BY <2>2
  <2>6. QED
    BY <2>1, <2>4, <2>5
<1>5. ASSUME NEW j \in 0 .. b, NEW k \in 0 .. b, j < k PROVE Older(E[k], E[j])
  <2>1. CASE j = 0
    BY <1>4, <1>5, <2>1
  <2>2. CASE j # 0
    <3>1. E[j] = D[j] /\ E[k] = D[k]
      BY <1>1, <1>5, <2>2
    <3>2. QED
      BY <1>5, <3>1 DEF InTime
  <2>3. QED
    BY <2>1, <2>2
<1>6. InTime(E, b, n + 1)
  BY <1>3, <1>4, <1>5 DEF InTime
<1>7. \A x : x \in ToSet(E[0]) <=> x \in ToSet(D[0]) \/ x = n + 1
  <2>1. \A x : x \in ToSet(E[0]) <=> \E i \in 1 .. Len(E[0]) : E[0][i] = x
    BY <1>1, SetOf
  <2>2. \A x : x \in ToSet(D[0]) <=> \E i \in 1 .. Len(D[0]) : D[0][i] = x
    BY <1>0, SetOf
  <2>3. Len(D[0]) + 1 \in 1 .. Len(E[0]) /\ \A i \in 1 .. Len(D[0]) : i \in 1 .. Len(E[0])
    BY <1>0, <1>1
  <2>4. QED
    BY <1>1, <1>2, <2>1, <2>2, <2>3
<1>8. \A x : Has(E, b, x) <=> Has(D, b, x) \/ x = n + 1
  BY <1>0, <1>1, <1>7 DEF Has
<1>9. NoGap(D, b, n) => NoGap(E, b, n + 1)
  <2>1. ASSUME NoGap(D, b, n), NEW x \in Nat, NEW y \in Nat, Has(E, b, x), x < y, y <= n + 1
        PROVE  Has(E, b, y)
    <3>1. CASE y = n + 1
      BY <1>8, <3>1
    <3>2. CASE y # n + 1
      <4>1. y <= n /\ x # n + 1
        BY <2>1, <3>2
      <4>2. Has(D, b, y)
        BY <1>8, <2>1, <4>1 DEF NoGap
      <4>3. QED
        BY <1>8, <4>2
    <3>3. QED
      BY <3>1, <3>2
  <2>2. QED
    BY <2>1 DEF NoGap
<1>10. QED
  BY <1>6, <1>7, <1>8, <1>9

\* The oldest file goes.
LEMMA Dropped ==
  ASSUME NEW b \in Nat, NEW n \in Nat, NEW D \in [0 .. b -> Seq(Nat)], InTime(D, b, n), NEW E,
         E = [D EXCEPT ![b] = <<>>]
  PROVE  /\ InTime(E, b, n)
         /\ \A x : Has(E, b, x) => Has(D, b, x)
         /\ \A x : Has(D, b, x) /\ ~ Has(E, b, x) => x \in ToSet(D[b])
         /\ NoGap(D, b, n) => NoGap(E, b, n)
<1>1. /\ E[b] = <<>> /\ Len(E[b]) = 0 /\ ToSet(E[b]) = {} /\ b \in 0 .. b
      /\ \A k \in 0 .. b : k # b => E[k] = D[k]
  BY DEF ToSet
<1>2. InTime(E, b, n)
  <2>1. ASSUME NEW k \in 0 .. b PROVE Sorted(E[k]) /\ \A i \in 1 .. Len(E[k]) : E[k][i] <= n
    BY <1>1 DEF InTime, Sorted
  <2>2. ASSUME NEW j \in 0 .. b, NEW k \in 0 .. b, j < k PROVE Older(E[k], E[j])
    <3>1. j # b
      BY <2>2
    <3>2. CASE k = b
      BY <1>1, <3>2 DEF Older
    <3>3. CASE k # b
      BY <1>1, <2>2, <3>1, <3>3 DEF InTime
    <3>4. QED
      BY <3>2, <3>3
  <2>3. QED
    BY <2>1, <2>2 DEF InTime
<1>3. \A x : Has(E, b, x) => Has(D, b, x)
  BY <1>1 DEF Has
<1>4. \A x : Has(D, b, x) /\ ~ Has(E, b, x) => x \in ToSet(D[b])
  BY <1>1 DEF Has
<1>5. ASSUME NoGap(D, b, n), NEW x \in Nat, NEW y \in Nat, Has(E, b, x), x < y, y <= n, ~ Has(E, b, y)
      PROVE  FALSE
  <2>1. PICK k \in 0 .. b : x \in ToSet(E[k])
    BY <1>5 DEF Has
  <2>2. k # b /\ x \in ToSet(D[k]) /\ k < b
    BY <1>1, <2>1
  <2>3. Has(D, b, y) /\ y \in ToSet(D[b])
    BY <1>3, <1>4, <1>5 DEF NoGap
  <2>4. Older(D[b], D[k]) /\ D[b] \in Seq(Nat) /\ D[k] \in Seq(Nat)
    BY <1>1, <2>2 DEF InTime
  <2>5. PICK i \in 1 .. Len(D[b]) : D[b][i] = y
    BY <2>3, <2>4, SetOf
  <2>6. PICK j \in 1 .. Len(D[k]) : D[k][j] = x
    BY <2>2, <2>4, SetOf
  <2>7. QED
    BY <1>5, <2>4, <2>5, <2>6 DEF Older
<1>6. QED
  BY <1>2, <1>3, <1>4, <1>5 DEF NoGap

\* What is at f goes to f + 1, and f keeps nothing.
Up(F, f, nothing) == [F EXCEPT ![f + 1] = F[f], ![f] = nothing]

\* File m takes the place of the next, which is lost.
LEMMA Moved ==
  ASSUME NEW b \in Nat, NEW n \in Nat, NEW D \in [0 .. b -> Seq(Nat)], InTime(D, b, n), NEW E,
         NEW m \in 0 .. b, m + 1 \in 0 .. b,
         E = Up(D, m, <<>>)
  PROVE  /\ InTime(E, b, n)
         /\ D[m + 1] = <<>> => \A x : Has(E, b, x) <=> Has(D, b, x)
<1>0. E = [D EXCEPT ![m + 1] = D[m], ![m] = <<>>]
  BY DEF Up
<1> DEFINE was == [k \in 0 .. b |-> IF k = m + 1 THEN m ELSE k]
<1>1. /\ E[m] = <<>> /\ Len(E[m]) = 0 /\ ToSet(E[m]) = {} /\ m # m + 1
      /\ \A k \in 0 .. b : k # m => E[k] = D[was[k]] /\ was[k] \in 0 .. b
      /\ \A j, k \in 0 .. b : j < k /\ j # m /\ k # m => was[j] < was[k]
  BY <1>0 DEF ToSet
<1>2. E[m + 1] = D[m] /\ \A k \in 0 .. b : k # m /\ k # m + 1 => E[k] = D[k]
  BY <1>0
<1> HIDE DEF was
<1>3. ASSUME NEW k \in 0 .. b PROVE Sorted(E[k]) /\ \A i \in 1 .. Len(E[k]) : E[k][i] <= n
  <2>1. CASE k = m
    BY <1>1, <2>1 DEF Sorted
  <2>2. CASE k # m
    <3>1. E[k] = D[was[k]] /\ was[k] \in 0 .. b
      BY <1>1, <2>2
    <3>2. Sorted(D[was[k]]) /\ \A i \in 1 .. Len(D[was[k]]) : D[was[k]][i] <= n
      BY <3>1 DEF InTime
    <3>3. QED
      BY <3>1, <3>2
  <2>3. QED
    BY <2>1, <2>2
<1>4. ASSUME NEW j \in 0 .. b, NEW k \in 0 .. b, j < k PROVE Older(E[k], E[j])
  <2>1. CASE j = m \/ k = m
    BY <1>1, <2>1 DEF Older
  <2>2. CASE j # m /\ k # m
    BY <1>1, <1>4, <2>2 DEF InTime
  <2>3. QED
    BY <2>1, <2>2
<1>5. ASSUME D[m + 1] = <<>>, NEW x PROVE Has(E, b, x) <=> Has(D, b, x)
  <2>1. ToSet(D[m + 1]) = {}
    BY <1>5 DEF ToSet
  <2>2. QED
    BY <1>1, <1>2, <2>1 DEF Has
<1>6. QED
  BY <1>3, <1>4, <1>5 DEF InTime

-----------------------------------------------------------------------------
(* The inductive invariant.                                                *)

File == Seq(Nat) \cup {Absent}
Content(file) == IF file = Absent THEN <<>> ELSE file

\* What file l and its b backups hold.
Files(b, l, old) == [k \in 0 .. b |-> Content(IF k = 0 THEN l ELSE old[k])]
Disk == Files(maxBackups, live, backup)

LogTypes ==
  /\ maxBackups \in Nat /\ lines \in Nat /\ faults \in Nat
  /\ live \in File /\ backup \in [1 .. maxBackups -> File]
  /\ open \in BOOLEAN /\ step \in {"idle", "remove", "move", "open", "write"}

\* A file that is open is there, it is closed while files move, and the loop
\* over the backups starts inside them.
Rotating ==
  /\ open => live # Absent
  /\ step \in {"remove", "move", "open"} => ~ open
  /\ step = "move" => maxBackups > 0 /\ from \in 0 .. maxBackups - 1

\* The place a backup just left, or that the oldest one left free.
Hole == IF step = "move" THEN from + 1 ELSE 0

\* The backups in use are the newest ones, the hole aside, and none is empty.
Stacked ==
  /\ step = "move" => backup[Hole] = Absent
  /\ \A k \in 1 .. maxBackups : backup[k] # <<>>
  /\ \A j, k \in 1 .. maxBackups : j < k /\ j # Hole /\ backup[k] # Absent => backup[j] # Absent

\* The first line is gone only when every backup is in use.
LostOld ==
  lines > 0 /\ ~ Has(Disk, maxBackups, 1) =>
    \A k \in 1 .. maxBackups : k # Hole => backup[k] # Absent

\* What the file holds at each point of a write.
FileAt ==
  /\ step = "idle" => IF lines = 0 THEN live = <<>> /\ size = 0 /\ open
                      ELSE live # Absent /\ lines \in ToSet(live) /\ open
  /\ step \in {"remove", "move"} => live \notin {Absent, <<>>} /\ lines > 0
  /\ step = "open" => live = Absent /\ lines > 0
  /\ step = "write" => live = <<>> /\ open /\ lines > 0

\* While no call has failed.
Clean == NoGap(Disk, maxBackups, lines) /\ Stacked /\ LostOld /\ FileAt

LogInv ==
  /\ LogTypes /\ Rotating
  /\ InTime(Disk, maxBackups, lines)
  /\ faults = 0 => Clean

-----------------------------------------------------------------------------
(* What each action does to the disk.                                      *)

LEMMA FilesType ==
  ASSUME NEW b \in Nat, NEW l \in File, NEW old \in [1 .. b -> File]
  PROVE  /\ Files(b, l, old) \in [0 .. b -> Seq(Nat)]
         /\ Files(b, l, old)[0] = Content(l)
         /\ \A k \in 1 .. b : Files(b, l, old)[k] = Content(old[k])
<1>1. \A f \in File : Content(f) \in Seq(Nat)
  BY EmptySeq DEF File, Content
<1>2. \A k \in 0 .. b : (IF k = 0 THEN l ELSE old[k]) \in File
  OBVIOUS
<1>3. QED
  BY <1>1, <1>2 DEF Files

LEMMA FilesTouched ==
  ASSUME NEW b \in Nat, NEW l \in File, NEW old \in [1 .. b -> File], NEW m,
         m = IF l = Absent THEN <<>> ELSE l
  PROVE  m \in File /\ m # Absent /\ Files(b, m, old) = Files(b, l, old)
BY LogRotateAssumption, EmptySeq DEF Files, Content, File

LEMMA FilesAppended ==
  ASSUME NEW b \in Nat, NEW l \in File, NEW old \in [1 .. b -> File], NEW x \in Nat, l # Absent
  PROVE  /\ Append(l, x) \in File /\ Append(l, x) # Absent
         /\ Files(b, Append(l, x), old) = [Files(b, l, old) EXCEPT ![0] = Append(Files(b, l, old)[0], x)]
<1>0. Absent \notin Seq(Nat)
  BY LogRotateAssumption
<1>1. l \in Seq(Nat) /\ Append(l, x) \in Seq(Nat) /\ Append(l, x) # Absent
  <2>1. l \in Seq(Nat)
    BY DEF File
  <2>2. Append(l, x) \in Seq(Nat)
    BY <2>1, AppendProperties
  <2>3. QED
    BY <1>0, <2>1, <2>2
<1>2. Files(b, l, old)[0] = l
  BY <1>1 DEF Files, Content
<1>3. QED
  BY <1>1, <1>2 DEF Files, Content, File

LEMMA FilesDropped ==
  ASSUME NEW b \in Nat, NEW l \in File, NEW old \in [1 .. b -> File], NEW m, NEW new,
         IF b = 0 THEN m = Absent /\ new = old ELSE m = l /\ new = [old EXCEPT ![b] = Absent]
  PROVE  /\ m \in File /\ new \in [1 .. b -> File]
         /\ Files(b, m, new) = [Files(b, l, old) EXCEPT ![b] = <<>>]
<1>1. m \in File /\ new \in [1 .. b -> File]
  BY DEF File
<1>2. ASSUME NEW k \in 0 .. b
      PROVE  Files(b, m, new)[k] = [Files(b, l, old) EXCEPT ![b] = <<>>][k]
  BY DEF Files, Content
<1>3. QED
  BY <1>1, <1>2 DEF Files

LEMMA FilesMoved ==
  ASSUME NEW b \in Nat, NEW l \in File, NEW old \in [1 .. b -> File], NEW f \in 1 .. b - 1
  PROVE  /\ Up(old, f, Absent) \in [1 .. b -> File]
         /\ Files(b, l, Up(old, f, Absent)) = Up(Files(b, l, old), f, <<>>)
<1>1. Up(old, f, Absent) \in [1 .. b -> File]
  BY DEF File, Up
<1>2. 0 \in 0 .. b /\ f + 1 \in 1 .. b /\ f \in 1 .. b
  OBVIOUS
<1>3. ASSUME NEW k \in 0 .. b
      PROVE  Files(b, l, Up(old, f, Absent))[k] = Up(Files(b, l, old), f, <<>>)[k]
  BY <1>2 DEF Files, Content, Up
<1>4. QED
  BY <1>1, <1>3 DEF Files, Up

LEMMA FilesRenamed ==
  ASSUME NEW b \in Nat \ {0}, NEW l \in File, NEW old \in [1 .. b -> File]
  PROVE  /\ [old EXCEPT ![1] = l] \in [1 .. b -> File] /\ Absent \in File
         /\ Files(b, Absent, [old EXCEPT ![1] = l]) = Up(Files(b, l, old), 0, <<>>)
<1> DEFINE new == [old EXCEPT ![1] = l]
<1>1. new \in [1 .. b -> File] /\ Absent \in File
  BY DEF File
<1>2. ASSUME NEW k \in 0 .. b
      PROVE  Files(b, Absent, new)[k] = Up(Files(b, l, old), 0, <<>>)[k]
  <2>1. CASE k = 0
    BY <2>1 DEF Files, Content, Up
  <2>2. CASE k = 1
    BY <2>2 DEF Files, Content, Up
  <2>3. CASE k \notin {0, 1}
    <3>1. k \in 1 .. b /\ new[k] = old[k]
      BY <2>3
    <3>2. QED
      BY <2>3, <3>1 DEF Files, Content, Up
  <2>4. QED
    BY <2>1, <2>2, <2>3
<1>3. QED
  BY <1>1, <1>2 DEF Files, Up

\* Each step appends a line, drops the oldest file, moves one up or leaves the
\* disk as it was; a call that fails is counted.
AppendStep == open /\ live' = Append(live, lines + 1) /\ lines' = lines + 1 /\ backup' = backup
DropStep ==
  /\ step = "remove" /\ lines' = lines
  /\ IF maxBackups = 0 THEN live' = Absent /\ backup' = backup
     ELSE live' = live /\ backup' = [backup EXCEPT ![maxBackups] = Absent]
MoveStep ==
  /\ step = "move" /\ lines' = lines
  /\ IF from = 0 THEN live' = Absent /\ backup' = [backup EXCEPT ![1] = live]
     ELSE live' = live /\ backup' = Up(backup, from, Absent)
KeepStep ==
  /\ lines' \in {lines, lines + 1} /\ backup' = backup
  /\ live' = live \/ live' = IF live = Absent THEN <<>> ELSE live

LEMMA StepsAre ==
  ASSUME LogTypes, Rotating, [LogNext]_logVars
  PROVE  /\ maxBackups' = maxBackups
         /\ AppendStep \/ DropStep \/ MoveStep \/ KeepStep
<1>1. CASE Write
  BY <1>1 DEF Write, AppendLine, AppendStep, KeepStep
<1>2. CASE StartRotate
  BY <1>2 DEF StartRotate, KeepStep
<1>3. CASE RemoveOldest
  BY <1>3 DEF RemoveOldest, DropStep
<1>4. CASE RemoveFails
  BY <1>4 DEF RemoveFails, KeepStep
<1>5. CASE Shift
  BY <1>5 DEF Shift, MoveStep, KeepStep, Rotating, Up
<1>6. CASE RenameLive
  BY <1>6 DEF RenameLive, MoveStep, KeepStep
<1>7. CASE Reopen
  BY <1>7 DEF Reopen, KeepStep
<1>8. CASE FinishWrite
  BY <1>8 DEF FinishWrite, AppendLine, AppendStep, KeepStep
<1>9. CASE Relaunch
  BY <1>9 DEF Relaunch, KeepStep
<1>10. CASE UNCHANGED logVars
  BY <1>10 DEF logVars, KeepStep
<1>11. QED
  BY <1>1, <1>2, <1>3, <1>4, <1>5, <1>6, <1>7, <1>8, <1>9, <1>10 DEF LogNext

\* The types, and what the disk was and is.
LEMMA DiskStep ==
  ASSUME LogTypes, Rotating, [LogNext]_logVars
  PROVE  /\ Disk \in [0 .. maxBackups -> Seq(Nat)]
         /\ live' \in File /\ backup' \in [1 .. maxBackups -> File] /\ lines' \in Nat
         /\ AppendStep => live' # Absent /\ Disk' = [Disk EXCEPT ![0] = Append(Disk[0], lines + 1)]
         /\ DropStep => Disk' = [Disk EXCEPT ![maxBackups] = <<>>]
         /\ MoveStep => Disk' = Up(Disk, from, <<>>)
         /\ KeepStep => Disk' = Disk
<1>0. /\ maxBackups \in Nat /\ live \in File /\ backup \in [1 .. maxBackups -> File] /\ lines \in Nat
      /\ lines + 1 \in Nat /\ maxBackups' = maxBackups
      /\ AppendStep \/ DropStep \/ MoveStep \/ KeepStep
  BY StepsAre DEF LogTypes
<1>1. Disk \in [0 .. maxBackups -> Seq(Nat)]
  BY <1>0, FilesType DEF Disk
<1>2. ASSUME AppendStep
      PROVE  /\ live' \in File /\ backup' \in [1 .. maxBackups -> File] /\ lines' \in Nat
             /\ live' # Absent /\ Disk' = [Disk EXCEPT ![0] = Append(Disk[0], lines + 1)]
  <2>1. live # Absent /\ live' = Append(live, lines + 1) /\ lines' = lines + 1 /\ backup' = backup
    BY <1>2 DEF AppendStep, Rotating
  <2>2. /\ live' \in File /\ live' # Absent
        /\ Files(maxBackups, live', backup)
             = [Files(maxBackups, live, backup) EXCEPT
                  ![0] = Append(Files(maxBackups, live, backup)[0], lines + 1)]
    <3>1. \A x \in Nat :
            /\ Append(live, x) \in File /\ Append(live, x) # Absent
            /\ Files(maxBackups, Append(live, x), backup)
                 = [Files(maxBackups, live, backup) EXCEPT
                      ![0] = Append(Files(maxBackups, live, backup)[0], x)]
      BY <1>0, <2>1, FilesAppended
    <3>2. QED
      BY <1>0, <2>1, <3>1
  <2>3. QED
    BY <1>0, <2>1, <2>2 DEF Disk
<1>3. ASSUME DropStep
      PROVE  /\ live' \in File /\ backup' \in [1 .. maxBackups -> File] /\ lines' \in Nat
             /\ Disk' = [Disk EXCEPT ![maxBackups] = <<>>]
  <2>0. IF maxBackups = 0 THEN live' = Absent /\ backup' = backup
        ELSE live' = live /\ backup' = [backup EXCEPT ![maxBackups] = Absent]
    BY <1>3 DEF DropStep
  <2>1. /\ live' \in File /\ backup' \in [1 .. maxBackups -> File]
        /\ Files(maxBackups, live', backup')
             = [Files(maxBackups, live, backup) EXCEPT ![maxBackups] = <<>>]
    BY <1>0, <2>0, FilesDropped
  <2>2. QED
    BY <1>0, <1>3, <2>1 DEF Disk, DropStep
<1>4. ASSUME MoveStep
      PROVE  /\ live' \in File /\ backup' \in [1 .. maxBackups -> File] /\ lines' \in Nat
             /\ Disk' = Up(Disk, from, <<>>)
  <2>1. from \in 0 .. maxBackups - 1
    BY <1>4 DEF MoveStep, Rotating
  <2>2. /\ live' \in File /\ backup' \in [1 .. maxBackups -> File]
        /\ Files(maxBackups, live', backup') = Up(Files(maxBackups, live, backup), from, <<>>)
    <3>1. CASE from = 0
      <4>1. live' = Absent /\ backup' = [backup EXCEPT ![1] = live] /\ maxBackups \in Nat \ {0}
        BY <1>0, <1>4, <2>1, <3>1 DEF MoveStep
      <4>2. QED
        BY <1>0, <3>1, <4>1, FilesRenamed
    <3>2. CASE from # 0
      <4>1. live' = live /\ from \in 1 .. maxBackups - 1 /\ backup' = Up(backup, from, Absent)
        BY <1>0, <1>4, <2>1, <3>2 DEF MoveStep
      <4>2. QED
        BY <1>0, <4>1, FilesMoved
    <3>3. QED
      BY <3>1, <3>2
  <2>3. QED
    BY <1>0, <1>4, <2>2 DEF Disk, MoveStep
<1>5. ASSUME KeepStep
      PROVE  /\ live' \in File /\ backup' \in [1 .. maxBackups -> File] /\ lines' \in Nat
             /\ Disk' = Disk
  <2>1. /\ live' \in File
        /\ Files(maxBackups, live', backup) = Files(maxBackups, live, backup)
    <3>1. CASE live' = live
      BY <1>0, <3>1
    <3>2. CASE live' = IF live = Absent THEN <<>> ELSE live
      BY <1>0, <3>2, FilesTouched
    <3>3. QED
      BY <1>5, <3>1, <3>2 DEF KeepStep
  <2>2. QED
    BY <1>0, <1>5, <2>1 DEF Disk, KeepStep
<1>6. QED
  BY <1>0, <1>1, <1>2, <1>3, <1>4, <1>5

-----------------------------------------------------------------------------
(* The invariant is inductive.                                             *)

LEMMA LogStart ==
  ASSUME LogInit
  PROVE  LogInv
<1>1. maxBackups \in Nat /\ <<>> \in Seq(Nat) /\ Absent # <<>>
  BY LogRotateAssumption, EmptySeq DEF LogInit
<1>2. LogTypes /\ Rotating
  BY <1>1 DEF LogInit, LogTypes, Rotating, File
<1>3. \A k \in 0 .. maxBackups : Disk[k] = <<>>
  BY DEF LogInit, Disk, Files, Content
<1>4. InTime(Disk, maxBackups, lines)
  BY <1>3 DEF InTime, Sorted, Older
<1>5. \A x : ~ Has(Disk, maxBackups, x)
  BY <1>3 DEF Has, ToSet
<1>6. Clean
  BY <1>1, <1>5 DEF LogInit, Clean, NoGap, Stacked, LostOld, FileAt, Hole
<1>7. QED
  BY <1>2, <1>4, <1>6 DEF LogInv

LEMMA TypesStep ==
  ASSUME LogTypes, Rotating, [LogNext]_logVars
  PROVE  LogTypes' /\ Rotating'
<1>1. /\ maxBackups' = maxBackups /\ live' \in File /\ backup' \in [1 .. maxBackups -> File]
      /\ lines' \in Nat /\ (AppendStep => live' # Absent)
      /\ maxBackups \in Nat /\ faults \in Nat /\ open \in BOOLEAN
      /\ step \in {"idle", "remove", "move", "open", "write"} /\ Absent # <<>>
  BY StepsAre, DiskStep, LogRotateAssumption, EmptySeq DEF LogTypes
<1>2. AppendLine => LogTypes' /\ Rotating'
  BY <1>1 DEF AppendLine, AppendStep, Works, Fails, LogTypes, Rotating
<1>3. CASE Write
  BY <1>2, <1>3 DEF Write
<1>4. CASE StartRotate
  BY <1>1, <1>4 DEF StartRotate, LogTypes, Rotating
<1>5. CASE RemoveOldest
  BY <1>1, <1>5 DEF RemoveOldest, AfterRemove, Works, LogTypes, Rotating
<1>6. CASE RemoveFails
  BY <1>1, <1>6 DEF RemoveFails, AfterRemove, Fails, LogTypes, Rotating
<1>7. CASE Shift
  BY <1>1, <1>7 DEF Shift, Fails, Works, LogTypes, Rotating
<1>8. CASE RenameLive
  BY <1>1, <1>8 DEF RenameLive, Fails, Works, LogTypes, Rotating
<1>9. CASE Reopen
  <2>1. /\ faults' \in Nat /\ open' \in BOOLEAN /\ step' = "write"
        /\ open' => live' # Absent
    <3>1. CASE open' = TRUE /\ faults' = faults /\ live' = IF live = Absent THEN <<>> ELSE live
      <4>1. live' # Absent
        BY <1>1, <3>1
      <4>2. QED
        BY <1>1, <1>9, <3>1, <4>1 DEF Reopen
    <3>2. CASE Fails /\ UNCHANGED <<open, live>>
      BY <1>1, <1>9, <3>2 DEF Reopen, Fails, Rotating
    <3>3. QED
      BY <1>9, <3>1, <3>2 DEF Reopen, Works
  <2>2. QED
    BY <1>1, <2>1 DEF LogTypes, Rotating
<1>10. CASE FinishWrite
  BY <1>2, <1>10 DEF FinishWrite
<1>11. CASE Relaunch
  BY <1>1, <1>11 DEF Relaunch, Fails, LogTypes, Rotating
<1>12. CASE UNCHANGED logVars
  BY <1>12 DEF logVars, LogTypes, Rotating
<1>13. QED
  BY <1>3, <1>4, <1>5, <1>6, <1>7, <1>8, <1>9, <1>10, <1>11, <1>12 DEF LogNext

LEMMA InTimeStep ==
  ASSUME LogTypes, Rotating, InTime(Disk, maxBackups, lines), [LogNext]_logVars
  PROVE  InTime(Disk, maxBackups, lines)'
<1>1. /\ maxBackups' = maxBackups /\ maxBackups \in Nat /\ lines \in Nat
      /\ Disk \in [0 .. maxBackups -> Seq(Nat)]
      /\ AppendStep \/ DropStep \/ MoveStep \/ KeepStep
  BY StepsAre, DiskStep DEF LogTypes
<1>2. CASE AppendStep
  <2>1. lines' = lines + 1 /\ Disk' = [Disk EXCEPT ![0] = Append(Disk[0], lines + 1)]
    BY <1>2, DiskStep DEF AppendStep
  <2>2. QED
    BY <1>1, <2>1, Appended
<1>3. CASE DropStep
  <2>1. lines' = lines /\ Disk' = [Disk EXCEPT ![maxBackups] = <<>>]
    BY <1>3, DiskStep DEF DropStep
  <2>2. QED
    BY <1>1, <2>1, Dropped
<1>4. CASE MoveStep
  <2>1. lines' = lines /\ Disk' = Up(Disk, from, <<>>) /\ from \in 0 .. maxBackups - 1
    BY <1>4, DiskStep DEF MoveStep, Rotating
  <2>2. from \in 0 .. maxBackups /\ from + 1 \in 0 .. maxBackups
    BY <1>1, <2>1
  <2>3. QED
    BY <1>1, <2>1, <2>2, Moved
<1>5. CASE KeepStep
  <2>1. lines' \in {lines, lines + 1} /\ Disk' = Disk
    BY <1>5, DiskStep DEF KeepStep
  <2>2. \A k \in 0 .. maxBackups : \A i \in 1 .. Len(Disk[k]) : Disk[k][i] \in Nat
    BY <1>1, ElementOfSeq
  <2>3. QED
    BY <1>1, <2>1, <2>2 DEF InTime
<1>6. QED
  BY <1>1, <1>2, <1>3, <1>4, <1>5

LEMMA CleanAppend ==
  ASSUME LogInv, faults = 0, faults' = 0, AppendLine, step \in {"idle", "write"}, [LogNext]_logVars
  PROVE  Clean'
<1>0. Clean /\ LogTypes /\ Rotating /\ InTime(Disk, maxBackups, lines)
  BY DEF LogInv
<1>1. AppendStep /\ step' = "idle" /\ open' /\ backup' = backup /\ maxBackups' = maxBackups
  BY <1>0 DEF AppendLine, AppendStep, Fails, Clean, FileAt, LogTypes
<1>2. /\ lines' = lines + 1 /\ live' \in File /\ live' # Absent /\ backup \in [1 .. maxBackups -> File]
      /\ Disk \in [0 .. maxBackups -> Seq(Nat)] /\ maxBackups \in Nat /\ lines \in Nat
      /\ Disk' = [Disk EXCEPT ![0] = Append(Disk[0], lines + 1)]
  BY <1>0, <1>1, DiskStep DEF AppendStep, LogTypes
<1>3. /\ lines + 1 \in ToSet(Disk'[0]) /\ NoGap(Disk', maxBackups, lines + 1)
      /\ \A x : Has(Disk', maxBackups, x) <=> Has(Disk, maxBackups, x) \/ x = lines + 1
  BY <1>0, <1>2, Appended DEF Clean
<1>4. Disk'[0] = live'
  <2>1. Files(maxBackups, live', backup)[0] = Content(live')
    BY <1>2, FilesType
  <2>2. QED
    BY <1>1, <1>2, <2>1 DEF Disk, Content
<1>5. FileAt'
  <2>1. lines' # 0 /\ lines' \in ToSet(live')
    <3>1. lines + 1 \in ToSet(live')
      BY <1>3, <1>4
    <3>2. lines' = lines + 1 /\ lines \in Nat
      BY <1>2
    <3>3. lines' # 0
      BY <3>2
    <3>4. QED
      BY Zenon, <3>1, <3>2, <3>3
  <2>2. QED
    BY <1>1, <1>2, <2>1 DEF FileAt
<1>6. Stacked'
  BY <1>0, <1>1 DEF Clean, Stacked, Hole, FileAt
<1>7. LostOld'
  <2>1. ASSUME ~ Has(Disk', maxBackups, 1) PROVE lines > 0 /\ ~ Has(Disk, maxBackups, 1)
    <3>1. ~ Has(Disk, maxBackups, 1) /\ 1 # lines + 1
      BY <1>3, <2>1
    <3>2. QED
      BY <1>2, <3>1
  <2>2. QED
    BY <1>0, <1>1, <2>1 DEF Clean, LostOld, Hole
<1>8. QED
  BY <1>1, <1>2, <1>3, <1>5, <1>6, <1>7 DEF Clean

LEMMA CleanDrop ==
  ASSUME LogInv, faults = 0, RemoveOldest
  PROVE  Clean'
<1>0. Clean /\ LogTypes /\ Rotating /\ InTime(Disk, maxBackups, lines)
  BY DEF LogInv
<1>1. /\ DropStep /\ step = "remove" /\ lines' = lines /\ maxBackups' = maxBackups /\ lines > 0
      /\ live \notin {Absent, <<>>} /\ maxBackups \in Nat /\ lines \in Nat
      /\ live \in File /\ backup \in [1 .. maxBackups -> File] /\ Absent # <<>>
  BY <1>0, LogRotateAssumption, EmptySeq DEF RemoveOldest, DropStep, Clean, FileAt, LogTypes
<1>2. /\ Disk \in [0 .. maxBackups -> Seq(Nat)]
      /\ Disk' = [Disk EXCEPT ![maxBackups] = <<>>]
  BY <1>0, <1>1, DiskStep DEF LogNext
<1>3. /\ NoGap(Disk', maxBackups, lines)
      /\ \A x : Has(Disk, maxBackups, x) /\ ~ Has(Disk', maxBackups, x) => x \in ToSet(Disk[maxBackups])
  BY <1>0, <1>1, <1>2, Dropped DEF Clean
<1>4. CASE maxBackups = 0
  <2>1. live' = Absent /\ step' = "open"
    BY <1>4 DEF RemoveOldest, AfterRemove
  <2>2. QED
    BY <1>1, <1>3, <1>4, <2>1 DEF Clean, Stacked, LostOld, FileAt, Hole
<1>5. CASE maxBackups # 0
  <2>1. /\ step' = "move" /\ Hole' = maxBackups /\ live' = live
        /\ backup' = [backup EXCEPT ![maxBackups] = Absent]
    BY <1>1, <1>5 DEF RemoveOldest, AfterRemove, Hole
  <2>2. /\ \A k \in 1 .. maxBackups : backup'[k] = IF k = maxBackups THEN Absent ELSE backup[k]
        /\ maxBackups \in 1 .. maxBackups
    BY <1>1, <1>5, <2>1
  <2>3. /\ \A k \in 1 .. maxBackups : backup[k] # <<>>
        /\ \A j, k \in 1 .. maxBackups : j < k /\ backup[k] # Absent => backup[j] # Absent
    BY <1>0, <1>1 DEF Clean, Stacked, Hole
  <2>4. Stacked'
    BY <1>1, <2>1, <2>2, <2>3 DEF Stacked
  <2>5. ASSUME ~ Has(Disk', maxBackups, 1), NEW k \in 1 .. maxBackups, k # maxBackups
        PROVE  backup[k] # Absent
    <3>1. CASE Has(Disk, maxBackups, 1)
      <4>0. 1 \in ToSet(Disk[maxBackups])
        BY <1>3, <2>5, <3>1
      <4>1. 1 \in ToSet(Content(backup[maxBackups]))
        <5>1. \A k1 \in 1 .. maxBackups : Disk[k1] = Content(backup[k1])
          BY <1>1, FilesType DEF Disk
        <5>2. QED
          BY <2>2, <4>0, <5>1
      <4>2. backup[maxBackups] # Absent
        BY <4>1 DEF Content, ToSet
      <4>3. QED
        BY <2>2, <2>3, <2>5, <4>2
    <3>2. CASE ~ Has(Disk, maxBackups, 1)
      BY <1>0, <1>1, <2>5, <3>2 DEF Clean, LostOld, Hole
    <3>3. QED
      BY <3>1, <3>2
  <2>6. LostOld'
    BY <1>1, <2>1, <2>2, <2>5 DEF LostOld
  <2>7. FileAt'
    BY <1>1, <2>1 DEF FileAt
  <2>8. QED
    BY <1>1, <1>3, <2>4, <2>6, <2>7 DEF Clean
<1>6. QED
  BY <1>4, <1>5

\* While no call fails, a move fills the hole and leaves one behind it.
LEMMA MoveKeeps ==
  ASSUME LogInv, faults = 0, MoveStep \/ (KeepStep /\ lines' = lines), step = "move",
         maxBackups' = maxBackups, [LogNext]_logVars
  PROVE  /\ NoGap(Disk', maxBackups, lines)
         /\ \A x : Has(Disk', maxBackups, x) <=> Has(Disk, maxBackups, x)
<1>1. /\ Clean /\ LogTypes /\ Rotating /\ InTime(Disk, maxBackups, lines)
      /\ from \in 0 .. maxBackups - 1 /\ maxBackups \in Nat /\ lines \in Nat
      /\ live \in File /\ backup \in [1 .. maxBackups -> File]
      /\ Disk \in [0 .. maxBackups -> Seq(Nat)] /\ backup[from + 1] = Absent
  BY DiskStep DEF LogInv, Rotating, LogTypes, Clean, Stacked, Hole
<1>2. \A x : Has(Disk', maxBackups, x) <=> Has(Disk, maxBackups, x)
  <2>1. CASE MoveStep
    <3>1. Disk' = Up(Disk, from, <<>>)
      BY <1>1, <2>1, DiskStep
    <3>2. from \in 0 .. maxBackups /\ from + 1 \in 0 .. maxBackups /\ from + 1 \in 1 .. maxBackups
      BY <1>1
    <3>3. \A k \in 1 .. maxBackups : Disk[k] = Content(backup[k])
      BY <1>1, FilesType DEF Disk
    <3>4. Disk[from + 1] = <<>>
      BY <1>1, <3>2, <3>3 DEF Content
    <3>5. QED
      BY <1>1, <3>1, <3>2, <3>4, Moved
  <2>2. CASE KeepStep
    BY <1>1, <2>2, DiskStep
  <2>3. QED
    BY <2>1, <2>2
<1>3. NoGap(Disk', maxBackups, lines)
  BY <1>1, <1>2 DEF Clean, NoGap
<1>4. QED
  BY <1>2, <1>3

LEMMA CleanShift ==
  ASSUME LogInv, faults = 0, faults' = 0, Shift
  PROVE  Clean'
<1>1. /\ Clean /\ LogTypes /\ Rotating
      /\ from \in 1 .. maxBackups - 1 /\ maxBackups \in Nat /\ lines \in Nat
      /\ backup \in [1 .. maxBackups -> File] /\ backup[from + 1] = Absent /\ step = "move"
      /\ Hole = from + 1
  BY DEF LogInv, Rotating, LogTypes, Clean, Stacked, Hole, Shift
<1>2. /\ from' = from - 1 /\ step' = "move" /\ maxBackups' = maxBackups /\ lines' = lines
      /\ live' = live /\ Hole' = from
      /\ backup' = IF backup[from] = Absent THEN backup
                   ELSE [backup EXCEPT ![from + 1] = backup[from], ![from] = Absent]
  BY <1>1 DEF Shift, Fails, Hole
<1>3. MoveStep \/ KeepStep
  BY <1>1, <1>2 DEF MoveStep, KeepStep, Up
<1>4. /\ NoGap(Disk', maxBackups, lines)
      /\ \A x : Has(Disk', maxBackups, x) <=> Has(Disk, maxBackups, x)
  BY <1>1, <1>2, <1>3, MoveKeeps DEF LogNext
<1>5. \A k \in 1 .. maxBackups : backup'[k] = IF k = from + 1 THEN backup[from]
                                               ELSE IF k = from THEN Absent ELSE backup[k]
  <2>1. CASE backup[from] = Absent
    BY <1>1, <1>2, <2>1
  <2>2. CASE backup[from] # Absent
    BY <1>1, <1>2, <2>2
  <2>3. QED
    BY <2>1, <2>2
<1>6. /\ from \in 1 .. maxBackups /\ from + 1 \in 1 .. maxBackups /\ from # from + 1
      /\ \A k \in 1 .. maxBackups : backup[k] # <<>>
      /\ \A j, k \in 1 .. maxBackups : j < k /\ j # from + 1 /\ backup[k] # Absent => backup[j] # Absent
  BY <1>1 DEF Clean, Stacked
<1>7. Stacked'
  <2>1. ASSUME NEW k \in 1 .. maxBackups PROVE backup'[k] # <<>>
    <3>1. Absent # <<>>
      BY LogRotateAssumption, EmptySeq
    <3>2. QED
      BY <1>5, <1>6, <3>1
  <2>2. ASSUME NEW j \in 1 .. maxBackups, NEW k \in 1 .. maxBackups, j < k, j # from,
               backup'[k] # Absent
        PROVE  backup'[j] # Absent
    <3> DEFINE src(i) == IF i = from + 1 THEN from ELSE i
    <3>1. k # from /\ src(j) < src(k) /\ src(j) # from + 1 /\ src(j) \in 1 .. maxBackups
          /\ src(k) \in 1 .. maxBackups
      BY <1>1, <1>5, <1>6, <2>2
    <3>2. backup'[k] = backup[src(k)] /\ backup'[j] = backup[src(j)]
      BY <1>5, <2>2, <3>1
    <3>3. QED
      BY <1>6, <2>2, <3>1, <3>2
  <2>3. backup'[from] = Absent
    BY <1>5, <1>6
  <2>4. QED
    BY <1>2, <2>1, <2>2, <2>3 DEF Stacked
<1>8. LostOld'
  BY <1>1, <1>2, <1>4, <1>5, <1>6 DEF Clean, LostOld
<1>9. FileAt'
  BY <1>1, <1>2 DEF Clean, FileAt
<1>10. QED
  BY <1>2, <1>4, <1>7, <1>8, <1>9 DEF Clean

LEMMA CleanRename ==
  ASSUME LogInv, faults = 0, faults' = 0, RenameLive
  PROVE  Clean'
<1>1. /\ Clean /\ LogTypes /\ Rotating
      /\ from = 0 /\ maxBackups \in Nat \ {0} /\ lines \in Nat /\ lines > 0
      /\ backup \in [1 .. maxBackups -> File] /\ step = "move" /\ live \notin {Absent, <<>>}
      /\ Hole = 1
  BY DEF LogInv, Rotating, LogTypes, Clean, FileAt, Hole, RenameLive
<1>2. /\ step' = "open" /\ maxBackups' = maxBackups /\ lines' = lines
      /\ live' = Absent /\ Hole' = 0
      /\ backup' = [backup EXCEPT ![1] = live]
  BY <1>1 DEF RenameLive, Fails, Hole
<1>3. MoveStep
  BY <1>1, <1>2 DEF MoveStep
<1>4. /\ NoGap(Disk', maxBackups, lines)
      /\ \A x : Has(Disk', maxBackups, x) <=> Has(Disk, maxBackups, x)
  BY <1>1, <1>2, <1>3, MoveKeeps DEF LogNext
<1>5. /\ \A k \in 1 .. maxBackups : backup'[k] = IF k = 1 THEN live ELSE backup[k]
      /\ 1 \in 1 .. maxBackups
  BY <1>1, <1>2
<1>6. /\ \A k \in 1 .. maxBackups : backup[k] # <<>>
      /\ \A j, k \in 1 .. maxBackups : j < k /\ j # 1 /\ backup[k] # Absent => backup[j] # Absent
  BY <1>1 DEF Clean, Stacked
<1>7. Stacked'
  <2>1. \A k \in 1 .. maxBackups : backup'[k] # <<>>
    BY <1>1, <1>5, <1>6
  <2>2. \A j, k \in 1 .. maxBackups : j < k /\ backup'[k] # Absent => backup'[j] # Absent
    BY <1>1, <1>5, <1>6
  <2>3. QED
    BY <1>2, <2>1, <2>2 DEF Stacked
<1>8. LostOld'
  BY <1>1, <1>2, <1>4, <1>5 DEF Clean, LostOld
<1>9. FileAt'
  BY <1>1, <1>2 DEF FileAt
<1>10. QED
  BY <1>2, <1>4, <1>7, <1>8, <1>9 DEF Clean

LEMMA CleanStart ==
  ASSUME LogInv, faults = 0, StartRotate
  PROVE  Clean'
<1>1. /\ Clean /\ LogTypes /\ Rotating /\ step = "idle" /\ lines \in Nat /\ Disk' = Disk
      /\ step' = "remove" /\ UNCHANGED <<maxBackups, live, backup, lines>>
  BY DEF LogInv, LogTypes, StartRotate, Disk
<1>2. lines # 0
  <2>1. SUFFICES ASSUME lines = 0 PROVE FALSE
    OBVIOUS
  <2>2. size = 0 /\ 1 \in 1 .. MaxLines /\ size + LineSize(lines + 1) > maxSize
    BY <1>1, <2>1, LogRotateAssumption DEF StartRotate, Clean, FileAt
  <2>3. LineSize(1) \in 1 .. maxSize /\ maxSize \in Nat /\ lines + 1 = 1
    BY <2>1, <2>2, LogRotateAssumption
  <2>4. 0 + LineSize(1) > maxSize
    BY <2>1, <2>2, <2>3
  <2>5. QED
    BY <2>3, <2>4
<1>3. live \notin {Absent, <<>>}
  <2>1. lines \in ToSet(live) /\ live # Absent
    BY <1>1, <1>2 DEF Clean, FileAt
  <2>2. QED
    BY <2>1 DEF ToSet
<1>4. FileAt'
  BY <1>1, <1>2, <1>3 DEF FileAt
<1>5. QED
  BY <1>1, <1>4 DEF Clean, Stacked, LostOld, Hole

LEMMA CleanReopen ==
  ASSUME LogInv, faults = 0, faults' = 0, Reopen
  PROVE  Clean'
<1>1. /\ Clean /\ LogTypes /\ Rotating /\ step = "open" /\ live = Absent /\ lines > 0
      /\ step' = "write" /\ UNCHANGED <<maxBackups, backup, lines>>
      /\ open' = TRUE /\ live' = <<>>
  BY DEF LogInv, LogTypes, Reopen, Fails, Clean, FileAt
<1>2. Disk' = Disk
  <2>1. KeepStep /\ ~ AppendStep
    BY <1>1 DEF KeepStep, AppendStep, LogTypes
  <2>2. QED
    BY <1>1, <2>1, DiskStep DEF LogNext
<1>3. FileAt'
  BY <1>1 DEF FileAt
<1>4. QED
  BY <1>1, <1>2, <1>3 DEF Clean, Stacked, LostOld, Hole

LEMMA LogInvStep ==
  ASSUME LogInv, [LogNext]_logVars
  PROVE  LogInv'
<1>1. LogTypes' /\ Rotating' /\ InTime(Disk, maxBackups, lines)'
  BY TypesStep, InTimeStep DEF LogInv
<1>2. ASSUME faults' = 0 PROVE Clean'
  <2>0. faults \in Nat
    BY DEF LogInv, LogTypes
  <2>1. CASE Write
    <3>1. faults = 0
      BY <1>2, <2>0, <2>1 DEF Write, AppendLine, Works, Fails
    <3>2. QED
      BY <1>2, <2>1, <3>1, CleanAppend DEF Write
  <2>2. CASE StartRotate
    BY <1>2, <2>2, CleanStart DEF StartRotate
  <2>3. CASE RemoveOldest
    BY <1>2, <2>3, CleanDrop DEF RemoveOldest, Works
  <2>4. CASE RemoveFails
    BY <1>2, <2>0, <2>4 DEF RemoveFails, Fails
  <2>5. CASE Shift
    BY <1>2, <2>0, <2>5, CleanShift DEF Shift, Works, Fails
  <2>6. CASE RenameLive
    BY <1>2, <2>0, <2>6, CleanRename DEF RenameLive, Works, Fails
  <2>7. CASE Reopen
    <3>1. faults = 0
      BY <1>2, <2>0, <2>7 DEF Reopen, Works, Fails
    <3>2. QED
      BY <1>2, <2>7, <3>1, CleanReopen
  <2>8. CASE FinishWrite
    <3>1. faults = 0
      BY <1>2, <2>0, <2>8 DEF FinishWrite, AppendLine, Works, Fails
    <3>2. QED
      BY <1>2, <2>8, <3>1, CleanAppend DEF FinishWrite
  <2>9. CASE Relaunch
    BY <1>2, <2>0, <2>9 DEF Relaunch, Fails
  <2>10. CASE UNCHANGED logVars
    BY <1>2, <2>10 DEF logVars, LogInv, Clean, NoGap, Stacked, LostOld, FileAt, Hole, Disk
  <2>11. QED
    BY <2>1, <2>2, <2>3, <2>4, <2>5, <2>6, <2>7, <2>8, <2>9, <2>10 DEF LogNext
<1>3. QED
  BY <1>1, <1>2 DEF LogInv

\* What OnDisk lists: sorted, and every line that is had.
LEMMA OnDiskIs ==
  ASSUME LogTypes, InTime(Disk, maxBackups, lines)
  PROVE  /\ OnDisk \in Seq(Nat) /\ Sorted(OnDisk)
         /\ \A x : x \in ToSet(OnDisk) <=> Has(Disk, maxBackups, x)
<1>1. /\ maxBackups \in Nat /\ live \in File /\ backup \in [1 .. maxBackups -> File]
      /\ Disk \in [0 .. maxBackups -> Seq(Nat)]
      /\ Disk[0] = Content(live) /\ \A k \in 1 .. maxBackups : Disk[k] = Content(backup[k])
  BY FilesType DEF LogTypes, Disk
<1> DEFINE b == maxBackups
           ss == [i \in 1 .. b |-> Disk[b + 1 - i]]
<1>2. OnDisk = FlattenSeq(ss) \o Disk[0]
  <2>1. ss = [i \in 1 .. b |-> Content(backup[b + 1 - i])]
    BY <1>1
  <2>2. OnDisk = FlattenSeq([i \in 1 .. b |-> Content(backup[b + 1 - i])]) \o Content(live)
    BY DEF OnDisk, Content
  <2>3. QED
    BY <1>1, <2>1, <2>2
<1>3. /\ ss \in Seq(Seq(Nat)) /\ Len(ss) = b /\ DOMAIN ss = 1 .. b /\ b \in Nat
      /\ \A i \in 1 .. b : ss[i] = Disk[b + 1 - i] /\ b + 1 - i \in 1 .. b
  BY <1>1
<1> HIDE DEF ss
<1>4. /\ \A i \in 1 .. Len(ss) : Sorted(ss[i])
      /\ \A i, j \in 1 .. Len(ss) : i < j => Older(ss[i], ss[j])
  <2>1. ASSUME NEW i \in 1 .. b PROVE Sorted(ss[i])
    <3>1. b + 1 - i \in 0 .. b /\ ss[i] = Disk[b + 1 - i]
      BY <1>3
    <3>2. Sorted(Disk[b + 1 - i])
      BY <3>1 DEF InTime
    <3>3. QED
      BY <3>1, <3>2
  <2>2. ASSUME NEW i \in 1 .. b, NEW j \in 1 .. b, i < j PROVE Older(ss[i], ss[j])
    <3>0. b \in Nat
      BY <1>3
    <3>1. b + 1 - j < b + 1 - i /\ b + 1 - i \in 0 .. b /\ b + 1 - j \in 0 .. b
      BY <2>2, <3>0
    <3>2. Older(Disk[b + 1 - i], Disk[b + 1 - j])
      BY <3>1 DEF InTime
    <3>3. QED
      BY <1>3, <3>2
  <2>3. QED
    BY <1>3, <2>1, <2>2
<1>5. \A i \in 1 .. Len(ss) : Older(ss[i], Disk[0])
  <2>1. ASSUME NEW i \in 1 .. b PROVE Older(ss[i], Disk[0])
    <3>1. 0 < b + 1 - i /\ b + 1 - i \in 0 .. b /\ 0 \in 0 .. b
      BY <1>3
    <3>2. Older(Disk[b + 1 - i], Disk[0])
      BY <3>1 DEF InTime
    <3>3. QED
      BY <1>3, <3>2
  <2>2. QED
    BY <1>3, <2>1
<1>6. Disk[0] \in Seq(Nat) /\ Sorted(Disk[0])
  BY <1>1, <1>3 DEF InTime
<1>7. /\ FlattenSeq(ss) \in Seq(Nat) /\ Sorted(FlattenSeq(ss)) /\ Older(FlattenSeq(ss), Disk[0])
  BY <1>3, <1>4, <1>5, <1>6, FlattenSorted
<1>8. OnDisk \in Seq(Nat) /\ Sorted(OnDisk)
  BY <1>2, <1>6, <1>7, SortedConcat
<1>9. ASSUME NEW x PROVE x \in ToSet(OnDisk) <=> Has(Disk, maxBackups, x)
  <2>1. x \in ToSet(FlattenSeq(ss)) <=> \E i \in 1 .. b : x \in ToSet(ss[i])
    BY <1>3, FlattenIs
  <2>2. ToSet(OnDisk) = ToSet(FlattenSeq(ss)) \cup ToSet(Disk[0])
    <3>1. Range(FlattenSeq(ss) \o Disk[0]) = Range(FlattenSeq(ss)) \cup Range(Disk[0])
      BY <1>6, <1>7, RangeConcatenation
    <3>2. QED
      BY <1>2, <3>1 DEF ToSet, Range
  <2>3. ASSUME NEW k \in 1 .. b PROVE Disk[k] = ss[b + 1 - k] /\ b + 1 - k \in 1 .. b
    <3>1. b + 1 - k \in 1 .. b /\ b + 1 - (b + 1 - k) = k
      BY <1>3
    <3>2. ss[b + 1 - k] = Disk[b + 1 - (b + 1 - k)]
      BY <1>3, <3>1
    <3>3. QED
      BY <3>1, <3>2
  <2>4. (\E i \in 1 .. b : x \in ToSet(ss[i])) <=> \E k \in 1 .. b : x \in ToSet(Disk[k])
    BY <1>3, <2>3
  <2>5. Has(Disk, b, x) <=> (\E k \in 1 .. b : x \in ToSet(Disk[k])) \/ x \in ToSet(Disk[0])
    <3>1. 0 .. b = (1 .. b) \cup {0}
      BY <1>3
    <3>2. QED
      BY <3>1 DEF Has
  <2>6. QED
    BY <2>1, <2>2, <2>4, <2>5
<1>10. QED
  BY <1>8, <1>9

LEMMA LogInvKeepsNewest ==
  ASSUME LogInv
  PROVE  LogKeepsNewest
<1> DEFINE s == OnDisk
<1>1. /\ s \in Seq(Nat) /\ Sorted(s) /\ Len(s) \in Nat
      /\ \A x : (\E i \in 1 .. Len(s) : s[i] = x) <=> Has(Disk, maxBackups, x)
      /\ \A i \in 1 .. Len(s) : s[i] \in Nat
      /\ s # <<>> => Len(s) > 0 /\ 1 \in 1 .. Len(s) /\ Len(s) \in 1 .. Len(s)
  <2>1. s \in Seq(Nat) /\ Sorted(s) /\ \A x : x \in ToSet(s) <=> Has(Disk, maxBackups, x)
    BY OnDiskIs DEF LogInv
  <2> HIDE DEF s
  <2>2. QED
    BY <2>1, SetOf, LenProperties, EmptySeq, ElementOfSeq
<1>2. \A i \in 1 .. Len(s) : s[i] <= lines
  <2> SUFFICES ASSUME NEW i \in 1 .. Len(s) PROVE s[i] <= lines
    OBVIOUS
  <2>1. /\ maxBackups \in Nat /\ live \in File /\ backup \in [1 .. maxBackups -> File]
        /\ InTime(Disk, maxBackups, lines)
    BY DEF LogInv, LogTypes
  <2>2. PICK k \in 0 .. maxBackups : s[i] \in ToSet(Disk[k])
    BY <1>1 DEF Has
  <2>3. Disk[k] \in Seq(Nat)
    BY <2>1, FilesType DEF Disk
  <2>4. PICK j \in 1 .. Len(Disk[k]) : Disk[k][j] = s[i]
    BY <2>2, <2>3, SetOf
  <2>5. QED
    BY <2>1, <2>4 DEF InTime
<1> HIDE DEF s
<1>3. \A i, j \in 1 .. Len(s) : i < j => s[i] < s[j]
  BY <1>1 DEF Sorted
<1>4. ASSUME faults = 0, s # <<>>
      PROVE  s[Len(s)] - s[1] = Len(s) - 1
  <2>1. ASSUME NEW i \in 1 .. Len(s), NEW x \in Nat, s[1] <= x, x <= s[i]
        PROVE  \E j \in 1 .. Len(s) : s[j] = x
    <3>1. CASE x = s[1]
      BY <1>1, <1>4, <3>1
    <3>2. CASE x # s[1]
      <4>1. s[1] \in Nat /\ s[1] < x /\ x <= lines /\ Has(Disk, maxBackups, s[1]) /\ lines \in Nat
        BY <1>1, <1>2, <1>4, <2>1, <3>2 DEF LogInv, LogTypes
      <4>2. Has(Disk, maxBackups, x)
        BY <1>4, <4>1 DEF LogInv, Clean, NoGap
      <4>3. QED
        BY <1>1, <4>2
    <3>3. QED
      BY <3>1, <3>2
  <2>2. QED
    BY <1>1, <1>4, <2>1, GaplessLength
<1>5. ASSUME faults = 0, step = "idle", lines > 0
      PROVE  /\ s # <<>> /\ s[Len(s)] = lines
             /\ s[1] > 1 => \A i \in 1 .. maxBackups : backup[i] \notin {Absent, <<>>}
  <2>1. /\ live # Absent /\ lines \in ToSet(live) /\ lines \in Nat /\ Clean
        /\ maxBackups \in Nat /\ live \in File /\ backup \in [1 .. maxBackups -> File]
    BY <1>5 DEF LogInv, LogTypes, Clean, FileAt
  <2>2. Has(Disk, maxBackups, lines)
    <3>1. Disk[0] = live /\ 0 \in 0 .. maxBackups
      BY <2>1, FilesType DEF Disk, Content
    <3>2. QED
      BY <2>1, <3>1 DEF Has
  <2>3. PICK i \in 1 .. Len(s) : s[i] = lines
    BY <1>1, <2>2
  <2>4. s # <<>> /\ Len(s) \in 1 .. Len(s)
    BY <1>1, <2>3
  <2>5. s[Len(s)] = lines
    BY <1>1, <1>2, <1>3, <2>1, <2>3, <2>4
  <2>6. ASSUME s[1] > 1, NEW k \in 1 .. maxBackups PROVE backup[k] \notin {Absent, <<>>}
    <3>1. ~ Has(Disk, maxBackups, 1)
      <4>1. SUFFICES ASSUME NEW m \in 1 .. Len(s), s[m] = 1 PROVE FALSE
        BY <1>1
      <4>2. m = 1 \/ s[1] < s[m]
        BY <1>1, <1>3, <2>4
      <4>3. QED
        BY <1>1, <2>6, <4>1, <4>2
    <3>2. QED
      BY <1>5, <2>1, <3>1 DEF Clean, LostOld, Stacked, Hole
  <2>7. QED
    BY <2>4, <2>5, <2>6
<1>6. QED
  <2>1. s = OnDisk
    BY DEF s
  <2>2. s # <<>> => Head(s) = s[1] /\ Last(s) = s[Len(s)]
    BY <1>1 DEF Last
  <2>3. /\ faults = 0 /\ s # <<>> => Last(s) - Head(s) = Len(s) - 1
        /\ faults = 0 /\ step = "idle" /\ lines > 0 =>
             /\ s # <<>> /\ Last(s) = lines
             /\ Head(s) > 1 => \A i \in 1 .. maxBackups : backup[i] \notin {Absent, <<>>}
    BY <1>4, <1>5, <2>2
  <2>4. QED
    BY <1>3, <2>1, <2>3 DEF LogKeepsNewest

\* The log keeps its newest lines, in order: LogKeepsNewest (rotate, rotate.go:81-93),
\* whatever maxBackups, maxSize and the lengths of the lines.
THEOREM LogKeepsOrder == LogSpec => []LogKeepsNewest
<1>1. LogInit => LogInv
  BY LogStart
<1>2. LogInv /\ [LogNext]_logVars => LogInv'
  BY LogInvStep
<1>3. LogInv => LogKeepsNewest
  BY LogInvKeepsNewest
<1>4. QED
  BY <1>1, <1>2, <1>3, PTL DEF LogSpec
-----------------------------------------------------------------------------
(* The container: four bytes, and back.                                    *)

\* Four bytes hold any length that is counted, and give it back.
LEMMA Uint32OfPut ==
  ASSUME NEW n \in Nat, Counted(n)
  PROVE  /\ PNG!PutUint32(n) \in Seq(Nat) /\ Len(PNG!PutUint32(n)) = 4
         /\ PNG!Uint32(PNG!PutUint32(n)) = n
<1> DEFINE a == n \div 256
           b == n \div 65536
           c == b \div 256
<1>1. a \in Nat /\ b \in Nat /\ c \in Nat
  OBVIOUS
<1>2. b = a \div 256
  OBVIOUS
<1>3. n = 256 * a + (n % 256) /\ a = 256 * b + (a % 256) /\ b = 256 * c + (b % 256)
  <2>1. \A m \in Nat : m = 256 * (m \div 256) + (m % 256)
    OBVIOUS
  <2>2. n = 256 * a + (n % 256)
    BY <2>1
  <2>3. a = 256 * (a \div 256) + (a % 256) /\ b = 256 * (b \div 256) + (b % 256)
    <3> HIDE DEF a, b
    <3>1. QED
      BY <1>1, <2>1
  <2>4. QED
    BY <1>2, <2>2, <2>3
<1>4. c % 256 = c
  <2>1. b < 65536
    BY DEF Counted
  <2>2. c < 256
    BY <1>1, <1>2, <2>1
  <2>3. QED
    BY <1>1, <2>2
<1>5. n % 256 \in Nat /\ a % 256 \in Nat /\ b % 256 \in Nat
  BY <1>1
<1>6. PNG!PutUint32(n) = <<c % 256, b % 256, a % 256, n % 256>>
  BY DEF PNG!PutUint32
<1> HIDE DEF a, b, c
<1>7. PNG!PutUint32(n) \in Seq(Nat) /\ Len(PNG!PutUint32(n)) = 4
  BY <1>1, <1>4, <1>5, <1>6
<1>8. PNG!Uint32(PNG!PutUint32(n))
        = 65536 * (256 * (c % 256) + (b % 256)) + 256 * (a % 256) + (n % 256)
  <2> DEFINE s == <<c % 256, b % 256, a % 256, n % 256>>
  <2>1. s[1] = c % 256 /\ s[2] = b % 256 /\ s[3] = a % 256 /\ s[4] = n % 256
    OBVIOUS
  <2> HIDE DEF s
  <2>2. PNG!Uint32(s) = 65536 * (256 * s[1] + s[2]) + 256 * s[3] + s[4]
    BY DEF PNG!Uint32
  <2>3. PNG!PutUint32(n) = s
    BY <1>6 DEF s
  <2>4. QED
    BY <2>1, <2>2, <2>3
<1>9. QED
  BY <1>1, <1>3, <1>4, <1>5, <1>7, <1>8

-----------------------------------------------------------------------------
(* The container: the decoder's loop.                                      *)

Opening == [off |-> 12, pages |-> <<>>]
IsTaken(data, st, n) ==
  st = [i \in 0 .. n |-> IF i = 0 THEN Opening ELSE PNG!TakePage(data, st[i - 1])]

\* The function by which Taken is defined exists.
LEMMA TakenExists ==
  ASSUME NEW data, NEW n \in Nat
  PROVE  \E st : IsTaken(data, st, n)
<1> DEFINE T == {m \in Nat : \E st : IsTaken(data, st, m)}
<1>1. 0 \in T
  <2>1. IsTaken(data, [i \in 0 .. 0 |-> Opening], 0)
    BY DEF IsTaken
  <2>2. QED
    BY <2>1
<1>2. ASSUME NEW m \in T PROVE m + 1 \in T
  <2>1. PICK g : IsTaken(data, g, m)
    OBVIOUS
  <2> DEFINE h == [i \in 0 .. m + 1 |-> IF i <= m THEN g[i] ELSE PNG!TakePage(data, g[i - 1])]
  <2>2. \A i \in 0 .. m : g[i] = IF i = 0 THEN Opening ELSE PNG!TakePage(data, g[i - 1])
    BY <2>1 DEF IsTaken
  <2>3. ASSUME NEW i \in 0 .. m + 1
        PROVE  h[i] = IF i = 0 THEN Opening ELSE PNG!TakePage(data, h[i - 1])
    <3>1. CASE i = 0
      BY <2>2, <3>1
    <3>2. CASE i # 0
      <4>1. i - 1 \in 0 .. m + 1 /\ i - 1 <= m
        BY <3>2
      <4>2. h[i - 1] = g[i - 1]
        BY <4>1
      <4>3. h[i] = PNG!TakePage(data, g[i - 1])
        <5>1. CASE i <= m
          <6>1. i \in 0 .. m /\ h[i] = g[i]
            BY <5>1
          <6>2. QED
            BY <2>2, <3>2, <6>1
        <5>2. CASE ~ (i <= m)
          BY <5>2
        <5>3. QED
          BY <5>1, <5>2
      <4> HIDE DEF h
      <4>4. QED
        BY <3>2, <4>2, <4>3
    <3>3. QED
      BY <3>1, <3>2
  <2>4. IsTaken(data, h, m + 1)
    <3>1. h = [i \in 0 .. m + 1 |-> h[i]]
      OBVIOUS
    <3> HIDE DEF h
    <3>2. QED
      BY <2>3, <3>1 DEF IsTaken
  <2>5. QED
    BY <2>4
<1>3. T = Nat
  <2>1. T \in SUBSET Nat
    OBVIOUS
  <2> HIDE DEF T
  <2>2. QED
    BY <1>1, <1>2, <2>1, EveryNatural
<1>4. QED
  BY <1>3

\* The loop takes its turns one after the other.
LEMMA TakenSteps ==
  ASSUME NEW data, NEW n \in Nat
  PROVE  \E st : /\ PNG!Taken(data, n) = st[n] /\ st[0] = Opening
                 /\ \A i \in 1 .. n : st[i] = PNG!TakePage(data, st[i - 1])
<1> DEFINE st == CHOOSE f : f = [i \in 0 .. n |->
                                   IF i = 0 THEN [off |-> 12, pages |-> <<>>]
                                   ELSE PNG!TakePage(data, f[i - 1])]
<1>1. PNG!Taken(data, n) = st[n]
  BY DEF PNG!Taken
<1>2. IsTaken(data, st, n)
  BY TakenExists DEF IsTaken, Opening
<1> HIDE DEF st
<1>3. \A i \in 0 .. n : st[i] = IF i = 0 THEN Opening ELSE PNG!TakePage(data, st[i - 1])
  BY <1>2 DEF IsTaken
<1>4. QED
  BY <1>1, <1>3

-----------------------------------------------------------------------------
(* The container: what Encode writes.                                      *)

\* One page as it is written: its length, its bytes.
Entry(page) == PNG!PutUint32(Len(page)) \o page

\* The header and each page of a container, with the place where each page ends.
Holds(data, off, pages) ==
  /\ data \in Seq(Nat) /\ off[0] = 12 /\ off[Len(pages)] = Len(data)
  /\ \A k \in 1 .. 4 : data[k] = PNG!magic[k]
  /\ data[5] = PNG!version
  /\ \A k \in 1 .. 4 : data[8 + k] = PNG!PutUint32(Len(pages))[k]
  /\ \A i \in 1 .. Len(pages) :
       /\ off[i] = off[i - 1] + (4 + Len(pages[i])) /\ off[i] <= Len(data)
       /\ \A k \in 1 .. 4 : data[off[i - 1] + k] = PNG!PutUint32(Len(pages[i]))[k]
       /\ \A k \in 1 .. Len(pages[i]) : data[(off[i - 1] + 4) + k] = pages[i][k]

AllCounted(pages) ==
  Counted(Len(pages)) /\ \A i \in 1 .. Len(pages) : Counted(Len(pages[i]))

\* An entry is the four bytes of a length and then the page.
LEMMA EntryIs ==
  ASSUME NEW page \in Seq(Nat), Counted(Len(page))
  PROVE  /\ Entry(page) \in Seq(Nat) /\ Len(Entry(page)) = 4 + Len(page)
         /\ \A k \in 1 .. 4 : Entry(page)[k] = PNG!PutUint32(Len(page))[k]
         /\ \A k \in 1 .. Len(page) : Entry(page)[4 + k] = page[k]
<1> DEFINE put == PNG!PutUint32(Len(page))
<1>1. Len(page) \in Nat
  BY LenProperties
<1>2. put \in Seq(Nat) /\ Len(put) = 4
  BY <1>1, Uint32OfPut
<1>3. Entry(page) = put \o page
  BY DEF Entry
<1> HIDE DEF put
<1>4. /\ put \o page \in Seq(Nat) /\ Len(put \o page) = 4 + Len(page)
      /\ \A k \in 1 .. 4 : (put \o page)[k] = put[k]
      /\ \A k \in 1 .. Len(page) : (put \o page)[4 + k] = page[k]
  <2>1. put \in Seq(Nat)
    BY <1>2
  <2>2. /\ put \o page \in Seq(Nat) /\ Len(put \o page) = Len(put) + Len(page)
        /\ \A k \in 1 .. Len(put) : (put \o page)[k] = put[k]
        /\ \A k \in 1 .. Len(page) : (put \o page)[Len(put) + k] = page[k]
    BY <2>1, Joined
  <2> DEFINE x == put \o page
             n == Len(put)
  <2> HIDE DEF x, n
  <2>3. n = 4
    BY <1>2 DEF n
  <2>4. /\ x \in Seq(Nat) /\ Len(x) = n + Len(page)
        /\ \A k \in 1 .. n : x[k] = put[k]
        /\ \A k \in 1 .. Len(page) : x[n + k] = page[k]
    BY Zenon, <2>2 DEF x, n
  <2>5. QED
    BY <2>3, <2>4 DEF x
<1>5. QED
  BY <1>3, <1>4 DEF put

\* The twelve bytes before the first page.
LEMMA HeaderIs ==
  ASSUME NEW put \in Seq(Nat), Len(put) = 4
  PROVE  \E h \in Seq(Nat) :
           /\ h = PNG!magic \o <<PNG!version, 0, 0, 0>> \o put
           /\ Len(h) = 12 /\ h[5] = PNG!version
           /\ \A k \in 1 .. 4 : h[k] = PNG!magic[k] /\ h[8 + k] = put[k]
<1> DEFINE v == <<PNG!version, 0, 0, 0>>
           m == PNG!magic
           a == m \o v
           h == a \o put
<1>1. v \in Seq(Nat) /\ m \in Seq(Nat) /\ Len(v) = 4 /\ Len(m) = 4 /\ v[1] = PNG!version
  BY DEF PNG!magic, PNG!version
<1> HIDE DEF v, m
<1>2. /\ a \in Seq(Nat) /\ Len(a) = 8
      /\ \A k \in 1 .. 4 : a[k] = m[k]
      /\ \A k \in 1 .. 4 : a[4 + k] = v[k]
  <2> DEFINE n == Len(m)
             l == Len(v)
  <2> HIDE DEF n, l
  <2>1. n = 4 /\ l = 4
    BY <1>1 DEF n, l
  <2>2. m \in Seq(Nat) /\ v \in Seq(Nat)
    BY <1>1
  <2>3. /\ m \o v \in Seq(Nat) /\ Len(m \o v) = Len(m) + Len(v)
        /\ \A k \in 1 .. Len(m) : (m \o v)[k] = m[k]
        /\ \A k \in 1 .. Len(v) : (m \o v)[Len(m) + k] = v[k]
    BY <2>2, Joined
  <2>4. /\ a \in Seq(Nat) /\ Len(a) = n + l
        /\ \A k \in 1 .. n : a[k] = m[k]
        /\ \A k \in 1 .. l : a[n + k] = v[k]
    BY Zenon, <2>3 DEF n, l
  <2> HIDE DEF a
  <2>5. QED
    BY <2>1, <2>4
<1>3. a[5] = PNG!version
  <2> HIDE DEF a
  <2>1. a[4 + 1] = v[1]
    BY <1>2
  <2>2. 4 + 1 = 5
    OBVIOUS
  <2>3. QED
    BY <1>1, <2>1, <2>2
<1> HIDE DEF a
<1>4. /\ h \in Seq(Nat) /\ Len(h) = 12
      /\ \A k \in 1 .. 8 : h[k] = a[k]
      /\ \A k \in 1 .. 4 : h[8 + k] = put[k]
  <2> DEFINE n == Len(a)
             l == Len(put)
  <2> HIDE DEF n, l
  <2>1. n = 8 /\ l = 4
    BY <1>2 DEF n, l
  <2>2. a \in Seq(Nat)
    BY <1>2
  <2>3. /\ a \o put \in Seq(Nat) /\ Len(a \o put) = Len(a) + Len(put)
        /\ \A k \in 1 .. Len(a) : (a \o put)[k] = a[k]
        /\ \A k \in 1 .. Len(put) : (a \o put)[Len(a) + k] = put[k]
    <3>1. \A p \in Seq(Nat) :
            /\ a \o p \in Seq(Nat) /\ Len(a \o p) = Len(a) + Len(p)
            /\ \A k \in 1 .. Len(a) : (a \o p)[k] = a[k]
            /\ \A k \in 1 .. Len(p) : (a \o p)[Len(a) + k] = p[k]
      BY <2>2, Joined
    <3>2. QED
      BY Zenon, <3>1
  <2>4. /\ h \in Seq(Nat) /\ Len(h) = n + l
        /\ \A k \in 1 .. n : h[k] = a[k]
        /\ \A k \in 1 .. l : h[n + k] = put[k]
    BY Zenon, <2>3 DEF n, l
  <2> HIDE DEF h
  <2>5. QED
    BY <2>1, <2>4
<1>5. h = PNG!magic \o <<PNG!version, 0, 0, 0>> \o put
  BY DEF a, m, v
<1> HIDE DEF h
<1>6. /\ Len(h) = 12 /\ h[5] = PNG!version
      /\ \A k \in 1 .. 4 : h[k] = m[k] /\ h[8 + k] = put[k]
  BY <1>2, <1>3, <1>4
<1>7. QED
  BY <1>4, <1>5, <1>6 DEF m

\* What the encoder makes of pages holds their header and each of them.
LEMMA EncodeLayout ==
  ASSUME NEW pages \in Seq(Seq(Nat)), pages # <<>>, AllCounted(pages)
  PROVE  \E off \in [0 .. Len(pages) -> Nat] : Holds(PNG!Encode(pages), off, pages)
<1> DEFINE N == Len(pages)
           ents == [i \in DOMAIN pages |-> PNG!PutUint32(Len(pages[i])) \o pages[i]]
           body == FlattenSeq(ents)
           put == PNG!PutUint32(N)
           data == PNG!Encode(pages)
<1>1. N \in Nat \ {0} /\ DOMAIN pages = 1 .. N /\ \A i \in 1 .. N : pages[i] \in Seq(Nat)
  BY EmptySeq, LenProperties, ElementOfSeq
<1>2. put \in Seq(Nat) /\ Len(put) = 4
  BY <1>1, Uint32OfPut DEF AllCounted
<1>3. \A i \in 1 .. N : /\ ents[i] = Entry(pages[i]) /\ ents[i] \in Seq(Nat)
                        /\ Len(ents[i]) = 4 + Len(pages[i]) /\ Len(pages[i]) \in Nat
  <2>1. ASSUME NEW i \in 1 .. N
        PROVE  /\ ents[i] = Entry(pages[i]) /\ ents[i] \in Seq(Nat)
               /\ Len(ents[i]) = 4 + Len(pages[i]) /\ Len(pages[i]) \in Nat
    <3>1. ents[i] = Entry(pages[i])
      BY <1>1 DEF Entry
    <3>2. pages[i] \in Seq(Nat) /\ Counted(Len(pages[i]))
      BY <1>1 DEF AllCounted
    <3> HIDE DEF ents, N
    <3>3. Entry(pages[i]) \in Seq(Nat) /\ Len(Entry(pages[i])) = 4 + Len(pages[i])
      BY <3>2, EntryIs
    <3>4. QED
      BY <3>1, <3>2, <3>3, LenProperties
  <2>2. QED
    BY <2>1
<1>4. ents \in Seq(Seq(Nat)) /\ Len(ents) = N
  <2>1. DOMAIN ents = 1 .. N
    BY <1>1
  <2>2. ents \in [1 .. N -> Seq(Nat)]
    BY <1>1, <1>3
  <2> HIDE DEF ents, N
  <2>3. QED
    BY <1>1, <2>1, <2>2, SeqDef, LenProperties
<1>5. PICK at \in [0 .. N -> Nat] : body \in Seq(Nat) /\ Layout(body, ents, at, N)
  <2> HIDE DEF ents, N
  <2>1. Len(ents) # 0
    BY <1>1, <1>4
  <2>2. \E at \in [0 .. Len(ents) -> Nat] :
          FlattenSeq(ents) \in Seq(Nat) /\ Layout(FlattenSeq(ents), ents, at, Len(ents))
    BY <1>4, <2>1, FlattenLayout
  <2>3. QED
    BY <1>4, <2>2
<1>6. PICK h \in Seq(Nat) :
        /\ h = PNG!magic \o <<PNG!version, 0, 0, 0>> \o put
        /\ Len(h) = 12 /\ h[5] = PNG!version
        /\ \A k \in 1 .. 4 : h[k] = PNG!magic[k] /\ h[8 + k] = put[k]
  <2> HIDE DEF put
  <2>1. QED
    BY <1>2, HeaderIs
<1>7. data = h \o body
  <2>0. PNG!FlattenSeq(ents) = body
    BY Zenon DEF PNG!FlattenSeq, FlattenSeq
  <2>1. data = PNG!magic \o <<PNG!version, 0, 0, 0>> \o put \o body
    BY Zenon, <2>0 DEF PNG!Encode
  <2> HIDE DEF put, body, data
  <2>2. QED
    BY <1>6, <2>1
<1> HIDE DEF body, data, ents, put
<1>8. /\ data \in Seq(Nat) /\ Len(data) = 12 + Len(body) /\ Len(body) \in Nat
      /\ \A k \in 1 .. 12 : data[k] = h[k]
      /\ \A k \in 1 .. Len(body) : data[12 + k] = body[k]
  <2> DEFINE n == Len(h)
  <2> HIDE DEF n
  <2>1. n = 12
    BY <1>6 DEF n
  <2>2. body \in Seq(Nat)
    BY <1>5
  <2>3. /\ h \o body \in Seq(Nat) /\ Len(h \o body) = Len(h) + Len(body) /\ Len(body) \in Nat
        /\ \A k \in 1 .. Len(h) : (h \o body)[k] = h[k]
        /\ \A k \in 1 .. Len(body) : (h \o body)[Len(h) + k] = body[k]
    BY <2>2, Joined
  <2>4. /\ data \in Seq(Nat) /\ Len(data) = n + Len(body) /\ Len(body) \in Nat
        /\ \A k \in 1 .. n : data[k] = h[k]
        /\ \A k \in 1 .. Len(body) : data[n + k] = body[k]
    BY Zenon, <1>7, <2>3 DEF n
  <2>5. QED
    BY <2>1, <2>4
<1>9. /\ \A k \in 1 .. 4 : data[k] = PNG!magic[k]
      /\ data[5] = PNG!version
      /\ \A k \in 1 .. 4 : data[8 + k] = put[k]
  <2>1. \A k \in 1 .. 4 : k \in 1 .. 12 /\ 8 + k \in 1 .. 12
    OBVIOUS
  <2>2. 5 \in 1 .. 12
    OBVIOUS
  <2>3. \A k \in 1 .. 4 : data[k] = h[k] /\ data[8 + k] = h[8 + k]
    BY Zenon, <1>8, <2>1
  <2>4. QED
    BY Zenon, <1>6, <1>8, <2>2, <2>3
<1> DEFINE off == [i \in 0 .. N |-> 12 + at[i]]
<1>10. off \in [0 .. N -> Nat] /\ off[0] = 12 /\ off[N] = Len(data)
  <2>1. at[0] = 0 /\ at[N] = Len(body) /\ N \in 0 .. N /\ 0 \in 0 .. N
    BY <1>1, <1>5 DEF Layout
  <2>2. ASSUME NEW i \in 0 .. N PROVE 12 + at[i] \in Nat
    <3> HIDE DEF N
    <3>1. at[i] \in Nat
      OBVIOUS
    <3>2. QED
      BY <3>1
  <2> HIDE DEF N
  <2>3. off \in [0 .. N -> Nat]
    BY <2>2
  <2>4. off[0] = 12 + at[0] /\ off[N] = 12 + at[N]
    BY <2>1
  <2> HIDE DEF off
  <2>5. QED
    BY <1>8, <2>1, <2>3, <2>4
<1>11. ASSUME NEW i \in 1 .. N
       PROVE  /\ off[i] = off[i - 1] + (4 + Len(pages[i])) /\ off[i] <= Len(data)
              /\ \A k \in 1 .. 4 : data[off[i - 1] + k] = PNG!PutUint32(Len(pages[i]))[k]
              /\ \A k \in 1 .. Len(pages[i]) : data[(off[i - 1] + 4) + k] = pages[i][k]
  <2> DEFINE a == at[i - 1]
             o == off[i - 1]
             e == ents[i]
             page == pages[i]
             l == Len(page)
             B == Len(body)
  <2>1. i \in 0 .. N /\ i - 1 \in 0 .. N /\ a \in Nat /\ o = 12 + a /\ o \in Nat /\ at[i] \in Nat
    <3>1. i \in 0 .. N /\ i - 1 \in 0 .. N
      BY <1>1
    <3> HIDE DEF N
    <3>2. a \in Nat /\ at[i] \in Nat
      BY <3>1
    <3>3. off[i - 1] = 12 + at[i - 1]
      BY Zenon, <3>1
    <3> HIDE DEF off
    <3>4. QED
      BY <3>1, <3>2, <3>3
  <2>2. e = Entry(page) /\ Len(e) = 4 + l /\ l \in Nat /\ page \in Seq(Nat) /\ Counted(l)
    BY <1>1, <1>3 DEF AllCounted
  <2>3. at[i] = a + Len(e) /\ \A k \in 1 .. Len(e) : body[a + k] = e[k]
    BY <1>5 DEF Layout
  <2>4. at[i] <= B /\ B \in Nat
    <3>1. \A j \in 1 .. N : Len(ents[j]) \in Nat
      BY <1>3
    <3>2. \A j \in 0 .. N : at[j] <= Len(body)
      <4> HIDE DEF N
      <4>1. QED
        BY <1>1, <1>5, <1>8, <3>1, LayoutBound
    <3>3. QED
      BY <1>8, <2>1, <3>2
  <2>5. off[i] = 12 + at[i]
    BY <2>1
  <2> HIDE DEF N, off, e, page, l, B, a, o
  <2>6. \A k \in 1 .. 4 + l : data[o + k] = e[k]
    <3>1. ASSUME NEW k \in 1 .. 4 + l PROVE data[o + k] = e[k]
      <4> DEFINE x == a + k
      <4>1. x \in 1 .. B /\ body[x] = e[k] /\ o + k = 12 + x
        BY <2>1, <2>2, <2>3, <2>4
      <4> HIDE DEF x
      <4>2. data[12 + x] = body[x]
        BY <1>8, <4>1 DEF B
      <4>3. QED
        BY <4>1, <4>2
    <3>2. QED
      BY <3>1
  <2>7. /\ \A k \in 1 .. 4 : e[k] = PNG!PutUint32(l)[k]
        /\ \A k \in 1 .. l : e[4 + k] = page[k]
    BY <2>2, EntryIs DEF l
  <2>8. off[i] = o + (4 + l) /\ off[i] <= Len(data)
    <3>1. off[i] = o + (4 + l)
      BY <2>1, <2>2, <2>3, <2>5
    <3>2. Len(data) = 12 + B
      BY <1>8 DEF B
    <3>3. QED
      BY <2>1, <2>4, <2>5, <3>1, <3>2
  <2>9. \A k \in 1 .. 4 : data[o + k] = PNG!PutUint32(l)[k]
    <3>1. \A k \in 1 .. 4 : k \in 1 .. 4 + l
      BY <2>2
    <3>2. QED
      BY Zenon, <2>6, <2>7, <3>1
  <2>10. ASSUME NEW k \in 1 .. l PROVE data[(o + 4) + k] = page[k]
    <3>1. 4 + k \in 1 .. 4 + l /\ o + (4 + k) = (o + 4) + k
      BY <2>1, <2>2
    <3>2. data[o + (4 + k)] = page[k]
      BY <2>6, <2>7, <3>1
    <3>3. QED
      BY <3>1, <3>2
  <2>11. QED
    BY <2>8, <2>9, <2>10 DEF o, l, page
<1> HIDE DEF off
<1>12. Holds(data, off, pages)
  BY <1>8, <1>9, <1>10, <1>11 DEF Holds, N, put
<1>13. QED
  BY <1>10, <1>12 DEF data, N

-----------------------------------------------------------------------------
(* The container: what DecodeMultiPNG makes of it.                         *)

\* An error is neither a place of the loop nor the pages of a container.
LEMMA NoneApart ==
  /\ \A n \in Nat, taken \in Seq(Seq(Nat)) : [off |-> n, pages |-> taken] # None
  /\ \A pages \in Seq(Seq(Nat)) : pages # None
<1>1. \A n \in Nat, taken \in Seq(Seq(Nat)) :
        [off |-> n, pages |-> taken] \in [off : Nat, pages : Seq(Seq(Nat))]
  OBVIOUS
<1>2. None \notin Seq(Seq(Nat)) \cup [off : Nat, pages : Seq(Seq(Nat))]
  BY DevicesAssumption
<1>3. QED
  BY Zenon, <1>1, <1>2

\* One turn at a page that the data holds at least to its own end takes that page, or
\* gives up because the data ends before the page does.
LEMMA TurnIs ==
  ASSUME NEW d \in Seq(Nat), NEW p \in Nat, NEW page \in Seq(Nat), Counted(Len(page)),
         NEW taken \in Seq(Seq(Nat)),
         \A k \in 1 .. 4 : p + k <= Len(d) => d[p + k] = PNG!PutUint32(Len(page))[k],
         \A k \in 1 .. Len(page) : (p + 4) + k <= Len(d) => d[(p + 4) + k] = page[k]
  PROVE  PNG!TakePage(d, IF p <= Len(d) THEN [off |-> p, pages |-> taken] ELSE None)
           = IF p + (4 + Len(page)) <= Len(d)
             THEN [off |-> p + (4 + Len(page)), pages |-> Append(taken, page)] ELSE None
<1> DEFINE st == IF p <= Len(d) THEN [off |-> p, pages |-> taken] ELSE None
           l == Len(page)
           n == Len(d)
           put == PNG!PutUint32(l)
           next == PNG!TakePage(d, st)
<1>1. l \in Nat /\ n \in Nat
  BY LenProperties
<1>2. put \in Seq(Nat) /\ Len(put) = 4 /\ PNG!Uint32(put) = l
  <2>1. Counted(l)
    OBVIOUS
  <2> HIDE DEF l
  <2>2. QED
    BY <1>1, <2>1, Uint32OfPut
<1>3. CASE ~ (p + 4 <= n)
  <2>1. st = None \/ (st.off = p /\ st.off + 4 > n)
    BY <1>1, <1>3
  <2>2. next = None
    <3> HIDE DEF st, l
    <3>1. QED
      BY <2>1 DEF PNG!TakePage
  <2>3. ~ (p + (4 + l) <= n)
    <3> HIDE DEF l, n
    <3>1. QED
      BY <1>1, <1>3
  <2>4. QED
    BY <2>2, <2>3
<1>4. CASE p + 4 <= n
  <2>1. p <= n
    <3> HIDE DEF n
    <3>1. QED
      BY <1>1, <1>4
  <2>2. st = [off |-> p, pages |-> taken]
    BY <2>1
  <2>3. st # None /\ st.off = p /\ st.pages = taken
    <3> HIDE DEF st
    <3>1. QED
      BY <2>2, NoneApart
  <2>4. SubSeq(d, p + 1, p + 4) = put
    <3>1. \A k \in 1 .. 4 : d[p + k] = put[k]
      <4>1. \A k \in 1 .. 4 : p + k <= n
        <5> HIDE DEF n
        <5>1. QED
          BY <1>1, <1>4
      <4>2. QED
        BY Zenon, <4>1
    <3> HIDE DEF put
    <3>2. SubSeq(d, p + 1, p + Len(put)) = put
      <4>1. p + Len(put) <= Len(d)
        BY <1>2, <1>4
      <4>2. \A k \in 1 .. Len(put) : d[p + k] = put[k]
        BY Zenon, <1>2, <3>1
      <4>3. put \in Seq(Nat)
        BY <1>2
      <4>4. QED
        BY <4>1, <4>2, <4>3, PartIs
    <3>3. QED
      BY Zenon, <1>2, <3>2
  <2>5. PNG!Uint32(SubSeq(d, st.off + 1, st.off + 4)) = l
    <3> HIDE DEF st, l, put
    <3>1. QED
      BY Zenon, <1>2, <2>3, <2>4
  <2>6. ~ (st.off + 4 > n)
    <3> HIDE DEF st, n
    <3>1. QED
      BY <1>1, <1>4, <2>3
  <2>7. next = IF p + 4 + l > n THEN None
               ELSE [off |-> p + 4 + l,
                     pages |-> Append(taken, SubSeq(d, p + 4 + 1, p + 4 + l))]
    <3> HIDE DEF st, l
    <3>1. QED
      BY Zenon, <2>3, <2>5, <2>6 DEF PNG!TakePage
  <2>8. (p + 4 + l > n) <=> ~ (p + (4 + l) <= n)
    <3> HIDE DEF l, n
    <3>1. QED
      BY <1>1
  <2>9. p + 4 + l = p + (4 + l)
    <3> HIDE DEF l
    <3>1. QED
      BY <1>1
  <2>10. ASSUME p + (4 + l) <= n PROVE SubSeq(d, p + 4 + 1, p + 4 + l) = page
    <3> DEFINE a == p + 4
    <3>1. a \in Nat
      OBVIOUS
    <3>2. a + l <= n /\ \A k \in 1 .. l : a + k <= n
      <4> HIDE DEF l, n
      <4>1. QED
        BY <1>1, <2>10
    <3>3. \A k \in 1 .. Len(page) : d[a + k] = page[k]
      BY Zenon, <3>2
    <3> HIDE DEF a
    <3>4. SubSeq(d, a + 1, a + Len(page)) = page
      BY <3>1, <3>2, <3>3, PartIs
    <3>5. QED
      BY Zenon, <3>4 DEF a
  <2>11. next = IF p + (4 + l) <= n
                THEN [off |-> p + (4 + l), pages |-> Append(taken, page)] ELSE None
    <3> HIDE DEF next, l, n
    <3>1. QED
      BY Zenon, <2>7, <2>8, <2>9, <2>10
  <2>12. QED
    BY Zenon, <2>11
<1>5. QED
  BY <1>3, <1>4

\* Where the loop is after the i-th page.
After(d, off, pages, i) ==
  IF off[i] <= Len(d) THEN [off |-> off[i], pages |-> SubSeq(pages, 1, i)] ELSE None

\* d starts as data does, as far as both go.
Agrees(d, data) == \A k \in 1 .. Len(data) : k <= Len(d) => d[k] = data[k]

\* One turn of the decoder goes from one page to the next.
LEMMA PageTaken ==
  ASSUME NEW pages \in Seq(Seq(Nat)), AllCounted(pages), NEW data,
         NEW off \in [0 .. Len(pages) -> Nat], Holds(data, off, pages),
         NEW d \in Seq(Nat), Agrees(d, data), NEW i \in 1 .. Len(pages)
  PROVE  PNG!TakePage(d, After(d, off, pages, i - 1)) = After(d, off, pages, i)
<1> DEFINE N == Len(pages)
           p == off[i - 1]
           q == off[i]
           page == pages[i]
           l == Len(page)
           n == Len(d)
           z == Len(data)
           taken == SubSeq(pages, 1, i - 1)
<1>1. N \in Nat /\ i \in 0 .. N /\ i - 1 \in 0 .. N /\ n \in Nat /\ z \in Nat
  BY LenProperties DEF Holds
<1>2. p \in Nat /\ q \in Nat
  <2> HIDE DEF N
  <2>1. off \in [0 .. N -> Nat]
    BY DEF N
  <2>2. QED
    BY <1>1, <2>1
<1>3. page \in Seq(Nat) /\ Counted(l) /\ l \in Nat
  <2>1. page \in Seq(Nat)
    BY ElementOfSeq
  <2>2. Counted(l)
    BY DEF AllCounted
  <2> HIDE DEF page
  <2>3. QED
    BY <2>1, <2>2, LenProperties
<1>4. taken \in Seq(Seq(Nat)) /\ SubSeq(pages, 1, i) = Append(taken, page)
  BY FirstPages
<1>5. /\ q = p + (4 + l) /\ q <= z
      /\ \A k \in 1 .. 4 : data[p + k] = PNG!PutUint32(l)[k]
      /\ \A k \in 1 .. l : data[(p + 4) + k] = page[k]
  BY Zenon DEF Holds
<1>6. \A x \in 1 .. z : x <= n => d[x] = data[x]
  BY Zenon DEF Agrees
<1> HIDE DEF N, p, q, l, n, z, taken
<1>7. ASSUME NEW k \in 1 .. 4, p + k <= n PROVE d[p + k] = PNG!PutUint32(l)[k]
  <2>1. p + k \in 1 .. z
    BY <1>1, <1>2, <1>3, <1>5
  <2>2. QED
    BY Zenon, <1>5, <1>6, <1>7, <2>1
<1>8. ASSUME NEW k \in 1 .. l, (p + 4) + k <= n PROVE d[(p + 4) + k] = page[k]
  <2>1. (p + 4) + k \in 1 .. z
    BY <1>1, <1>2, <1>3, <1>5
  <2>2. QED
    BY Zenon, <1>5, <1>6, <1>8, <2>1
<1> HIDE DEF page
<1>9. PNG!TakePage(d, IF p <= Len(d) THEN [off |-> p, pages |-> taken] ELSE None)
        = IF p + (4 + Len(page)) <= Len(d)
          THEN [off |-> p + (4 + Len(page)), pages |-> Append(taken, page)] ELSE None
  <2>1. /\ Counted(Len(page))
        /\ \A k \in 1 .. 4 : p + k <= Len(d) => d[p + k] = PNG!PutUint32(Len(page))[k]
        /\ \A k \in 1 .. Len(page) : (p + 4) + k <= Len(d) => d[(p + 4) + k] = page[k]
    BY Zenon, <1>3, <1>7, <1>8 DEF l, n
  <2>2. QED
    BY <1>2, <1>3, <1>4, <2>1, TurnIs
<1>10. After(d, off, pages, i - 1) = IF p <= Len(d) THEN [off |-> p, pages |-> taken] ELSE None
  BY Zenon DEF After, p, taken
<1>11. After(d, off, pages, i)
         = IF p + (4 + Len(page)) <= Len(d)
           THEN [off |-> p + (4 + Len(page)), pages |-> Append(taken, page)] ELSE None
  BY Zenon, <1>4, <1>5 DEF After, q, l
<1>12. QED
  BY Zenon, <1>9, <1>10, <1>11

\* The loop takes the pages one after the other, until the data ends.
LEMMA PagesTaken ==
  ASSUME NEW pages \in Seq(Seq(Nat)), AllCounted(pages), NEW data,
         NEW off \in [0 .. Len(pages) -> Nat], Holds(data, off, pages),
         NEW d \in Seq(Nat), Agrees(d, data), 12 <= Len(d)
  PROVE  PNG!Taken(d, Len(pages)) = After(d, off, pages, Len(pages))
<1> DEFINE N == Len(pages)
<1>1. N \in Nat
  BY LenProperties
<1>2. PICK st : /\ PNG!Taken(d, N) = st[N] /\ st[0] = Opening
                /\ \A i \in 1 .. N : st[i] = PNG!TakePage(d, st[i - 1])
  <2> HIDE DEF N
  <2>1. QED
    BY <1>1, TakenSteps
<1>3. After(d, off, pages, 0) = Opening
  <2>1. off[0] = 12
    BY DEF Holds
  <2>2. SubSeq(pages, 1, 0) = <<>>
    BY SubSeqEmpty
  <2>3. QED
    BY Zenon, <2>1, <2>2 DEF After, Opening
<1>4. \A i \in 1 .. N : PNG!TakePage(d, After(d, off, pages, i - 1)) = After(d, off, pages, i)
  BY PageTaken
<1> DEFINE T == {m \in Nat : m <= N => st[m] = After(d, off, pages, m)}
<1> HIDE DEF N
<1>5. 0 \in T
  BY <1>2, <1>3
<1>6. ASSUME NEW m \in T, m + 1 <= N PROVE st[m + 1] = After(d, off, pages, m + 1)
  <2> DEFINE n == m + 1
  <2>1. n \in 1 .. N /\ n - 1 = m /\ m \in Nat /\ m <= N
    BY <1>1, <1>6
  <2>2. st[m] = After(d, off, pages, m)
    BY <1>6, <2>1
  <2> HIDE DEF n
  <2>3. st[n] = PNG!TakePage(d, st[m])
    BY Zenon, <1>2, <2>1
  <2>4. PNG!TakePage(d, After(d, off, pages, m)) = After(d, off, pages, n)
    BY Zenon, <1>4, <2>1
  <2>5. QED
    BY Zenon, <2>2, <2>3, <2>4 DEF n
<1>7. \A m \in T : m + 1 \in T
  BY <1>6
<1>8. T = Nat
  <2>1. T \in SUBSET Nat
    OBVIOUS
  <2> HIDE DEF T
  <2>2. QED
    BY <1>5, <1>7, <2>1, EveryNatural
<1>9. st[N] = After(d, off, pages, N)
  <2>1. N \in T
    <3> HIDE DEF T
    <3>1. QED
      BY <1>1, <1>8
  <2>2. N <= N
    BY <1>1
  <2>3. QED
    BY <2>1, <2>2
<1>10. QED
  BY Zenon, <1>2, <1>9 DEF N

\* The decoder finds the header that the encoder has written.
LEMMA HeaderRead ==
  ASSUME NEW pages \in Seq(Seq(Nat)), AllCounted(pages), NEW data, NEW off,
         Holds(data, off, pages), 12 <= Len(data),
         NEW d \in Seq(Nat), Agrees(d, data), 12 <= Len(d)
  PROVE  /\ SubSeq(d, 1, 4) = PNG!magic /\ d[5] = PNG!version
         /\ PNG!Uint32(SubSeq(d, 9, 12)) = Len(pages)
<1> DEFINE put == PNG!PutUint32(Len(pages))
           m == PNG!magic
<1>1. Len(d) \in Nat /\ Len(data) \in Nat /\ Len(pages) \in Nat
  BY LenProperties DEF Holds
<1>2. put \in Seq(Nat) /\ Len(put) = 4 /\ PNG!Uint32(put) = Len(pages)
  BY <1>1, Uint32OfPut DEF AllCounted
<1>3. m \in Seq(Nat) /\ Len(m) = 4
  BY DEF PNG!magic
<1> HIDE DEF put, m
<1>4. /\ \A k \in 1 .. 4 : data[k] = m[k] /\ data[8 + k] = put[k]
      /\ data[5] = PNG!version
  BY Zenon DEF Holds, put, m
<1>5. \A k \in 1 .. 12 : d[k] = data[k]
  <2>1. \A k \in 1 .. 12 : k \in 1 .. Len(data) /\ k <= Len(d)
    BY <1>1
  <2>2. QED
    BY Zenon, <2>1 DEF Agrees
<1>6. /\ \A k \in 1 .. 4 : d[0 + k] = m[k] /\ d[8 + k] = put[k]
      /\ d[5] = PNG!version
  <2>1. \A k \in 1 .. 4 : 0 + k = k /\ k \in 1 .. 12 /\ 8 + k \in 1 .. 12
    OBVIOUS
  <2>2. 5 \in 1 .. 12
    OBVIOUS
  <2>3. QED
    BY Zenon, <1>4, <1>5, <2>1, <2>2
<1>7. SubSeq(d, 0 + 1, 0 + Len(m)) = m
  <2>1. 0 + Len(m) <= Len(d)
    BY <1>1, <1>3
  <2>2. \A k \in 1 .. Len(m) : d[0 + k] = m[k]
    BY Zenon, <1>3, <1>6
  <2>3. m \in Seq(Nat) /\ 0 \in Nat
    BY <1>3
  <2>4. \A a \in Nat : a + Len(m) <= Len(d) /\ (\A k \in 1 .. Len(m) : d[a + k] = m[k])
                         => SubSeq(d, a + 1, a + Len(m)) = m
    BY <2>3, PartIs
  <2>5. QED
    BY Zenon, <2>1, <2>2, <2>3, <2>4
<1>8. SubSeq(d, 8 + 1, 8 + Len(put)) = put
  <2>1. 8 + Len(put) <= Len(d)
    BY <1>1, <1>2
  <2>2. \A k \in 1 .. Len(put) : d[8 + k] = put[k]
    BY Zenon, <1>2, <1>6
  <2>3. put \in Seq(Nat) /\ 8 \in Nat
    BY <1>2
  <2>4. \A a \in Nat : a + Len(put) <= Len(d) /\ (\A k \in 1 .. Len(put) : d[a + k] = put[k])
                         => SubSeq(d, a + 1, a + Len(put)) = put
    BY <2>3, PartIs
  <2>5. QED
    BY Zenon, <2>1, <2>2, <2>3, <2>4
<1>9. 0 + 1 = 1 /\ 0 + Len(m) = 4 /\ 8 + 1 = 9 /\ 8 + Len(put) = 12
  BY <1>2, <1>3
<1>10. SubSeq(d, 1, 4) = m /\ SubSeq(d, 9, 12) = put
  BY Zenon, <1>7, <1>8, <1>9
<1>11. QED
  BY Zenon, <1>2, <1>6, <1>10 DEF m

\* Of data that starts as a container does, the decoder makes its pages when all of
\* the container is there, and refuses it otherwise.
LEMMA DecodeIs ==
  ASSUME NEW pages \in Seq(Seq(Nat)), pages # <<>>, AllCounted(pages),
         NEW d \in Seq(Nat), Agrees(d, PNG!Encode(pages))
  PROVE  PNG!DecodeMultiPNG(d)
           = IF Len(PNG!Encode(pages)) <= Len(d) THEN pages ELSE None
<1> DEFINE data == PNG!Encode(pages)
           N == Len(pages)
<1>1. PICK off \in [0 .. N -> Nat] : Holds(data, off, pages)
  BY EncodeLayout
<1>2. N \in Nat \ {0} /\ Len(d) \in Nat /\ Len(data) \in Nat
  BY <1>1, EmptySeq, LenProperties DEF Holds
<1>3. 12 <= Len(data) /\ off[N] = Len(data)
  <2>1. off[N] = Len(data) /\ off[0] = 12 /\ off[1] = off[1 - 1] + (4 + Len(pages[1]))
        /\ off[1] <= Len(data)
    <3>1. 1 \in 1 .. Len(pages)
      BY <1>2
    <3>2. QED
      BY Zenon, <1>1, <3>1 DEF Holds
  <2>2. Len(pages[1]) \in Nat /\ 1 - 1 = 0
    <3>1. pages[1] \in Seq(Nat)
      BY <1>2, ElementOfSeq
    <3>2. QED
      BY <3>1, LenProperties
  <2>3. off[1] = 12 + (4 + Len(pages[1]))
    BY Zenon, <2>1, <2>2
  <2> DEFINE q == off[1]
             l == Len(pages[1])
  <2>4. q = 12 + (4 + l) /\ l \in Nat /\ q <= Len(data)
    BY Zenon, <2>1, <2>2, <2>3
  <2> HIDE DEF q, l
  <2>5. QED
    BY <1>2, <2>1, <2>4
<1> HIDE DEF data
<1>4. Agrees(d, data)
  BY DEF data
<1>5. CASE Len(d) < 12
  <2>1. PNG!DecodeMultiPNG(d) = None
    BY <1>5 DEF PNG!DecodeMultiPNG
  <2>2. ~ (Len(data) <= Len(d))
    BY <1>2, <1>3, <1>5
  <2>3. QED
    BY Zenon, <2>1, <2>2 DEF data
<1>6. CASE ~ (Len(d) < 12)
  <2>1. 12 <= Len(d)
    BY <1>2, <1>6
  <2>2. /\ SubSeq(d, 1, 4) = PNG!magic /\ d[5] = PNG!version
        /\ PNG!Uint32(SubSeq(d, 9, 12)) = N
    BY <1>1, <1>3, <1>4, <2>1, HeaderRead
  <2>3. PNG!Taken(d, N) = After(d, off, pages, N)
    BY <1>1, <1>4, <2>1, PagesTaken
  <2> DEFINE end == After(d, off, pages, N)
  <2>4. PNG!DecodeMultiPNG(d) = IF end = None THEN None ELSE end.pages
    <3> HIDE DEF end, N
    <3>1. PNG!Taken(d, N) = end
      BY <2>3 DEF end
    <3>2. QED
      BY Zenon, <1>6, <2>2, <3>1 DEF PNG!DecodeMultiPNG
  <2>5. SubSeq(pages, 1, N) = pages
    BY SubSeqFull
  <2>6. end = IF Len(data) <= Len(d) THEN [off |-> Len(data), pages |-> pages] ELSE None
    <3> HIDE DEF N
    <3>1. QED
      BY Zenon, <1>3, <2>5 DEF After
  <2>7. [off |-> Len(data), pages |-> pages] # None
    BY <1>2, NoneApart
  <2> HIDE DEF end
  <2>8. CASE Len(data) <= Len(d)
    <3>1. end = [off |-> Len(data), pages |-> pages]
      BY Zenon, <2>6, <2>8
    <3>2. end # None /\ end.pages = pages
      BY <2>7, <3>1
    <3>3. QED
      BY Zenon, <2>4, <2>8, <3>2 DEF data
  <2>9. CASE ~ (Len(data) <= Len(d))
    BY Zenon, <2>4, <2>6, <2>9 DEF data
  <2>10. QED
    BY <2>8, <2>9
<1>7. QED
  BY <1>5, <1>6

\* A container is decoded whole, also with bytes after it, and not at all when it was
\* cut short.
LEMMA ContainerWhole ==
  ASSUME NEW pages \in Seq(Seq(Nat)), pages # <<>>, AllCounted(pages)
  PROVE  LET data == PNG!Encode(pages)
         IN  /\ PNG!DecodeMultiPNG(data) = pages
             /\ PNG!DecodeMultiPNG(data \o <<0, 0, 0, 1>>) = pages
             /\ \A n \in 0 .. Len(data) - 1 : PNG!DecodeMultiPNG(SubSeq(data, 1, n)) = None
<1> DEFINE data == PNG!Encode(pages)
<1>1. data \in Seq(Nat) /\ Len(data) \in Nat
  <2>1. \E off \in [0 .. Len(pages) -> Nat] : Holds(data, off, pages)
    BY EncodeLayout
  <2>2. QED
    BY <2>1, LenProperties DEF Holds
<1>2. \A d \in Seq(Nat) : Agrees(d, data) =>
        PNG!DecodeMultiPNG(d) = IF Len(data) <= Len(d) THEN pages ELSE None
  BY DecodeIs
<1> HIDE DEF data
<1>3. PNG!DecodeMultiPNG(data) = pages
  <2>1. Agrees(data, data) /\ Len(data) <= Len(data)
    BY <1>1 DEF Agrees
  <2>2. QED
    BY Zenon, <1>1, <1>2, <2>1
<1>4. PNG!DecodeMultiPNG(data \o <<0, 0, 0, 1>>) = pages
  <2> DEFINE tail == <<0, 0, 0, 1>>
  <2>1. tail \in Seq(Nat)
    OBVIOUS
  <2> HIDE DEF tail
  <2>2. /\ data \o tail \in Seq(Nat) /\ Len(data \o tail) = Len(data) + Len(tail)
        /\ Len(tail) \in Nat /\ \A k \in 1 .. Len(data) : (data \o tail)[k] = data[k]
    BY <1>1, <2>1, Joined
  <2>3. Agrees(data \o tail, data)
    BY Zenon, <2>2 DEF Agrees
  <2>4. Len(data) <= Len(data \o tail)
    BY <1>1, <2>2
  <2>5. QED
    BY Zenon, <1>2, <2>2, <2>3, <2>4 DEF tail
<1>5. ASSUME NEW n \in 0 .. Len(data) - 1 PROVE PNG!DecodeMultiPNG(SubSeq(data, 1, n)) = None
  <2> DEFINE d == SubSeq(data, 1, n)
  <2>1. n \in Nat /\ n < Len(data) /\ \A k \in 1 .. n : k \in 1 .. Len(data)
    BY <1>1
  <2>2. d \in Seq(Nat) /\ Len(d) = n /\ \A k \in 1 .. n : d[k] = data[k]
    <3> DEFINE m == 1
    <3>1. m \in Int /\ n \in Int /\ \A k \in m .. n : data[k] \in Nat
      BY <1>1, <2>1, ElementOfSeq
    <3>2. d = SubSeq(data, m, n)
      OBVIOUS
    <3> HIDE DEF m, d
    <3>3. /\ d \in Seq(Nat) /\ Len(d) = (IF m <= n THEN n - m + 1 ELSE 0)
          /\ \A k \in 1 .. n - m + 1 : d[k] = data[m + k - 1]
      BY <3>1, <3>2, SubSeqProperties
    <3>4. m = 1
      BY DEF m
    <3>5. Len(d) = n /\ n - m + 1 = n /\ \A k \in 1 .. n : m + k - 1 = k
      BY <2>1, <3>3, <3>4
    <3>6. QED
      BY Zenon, <3>3, <3>5
  <2> HIDE DEF d
  <2>3. Agrees(d, data)
    <3>1. \A k \in 1 .. Len(data) : k <= n => k \in 1 .. n
      BY <1>1, <2>1
    <3>2. QED
      BY Zenon, <2>2, <3>1 DEF Agrees
  <2>4. ~ (Len(data) <= Len(d))
    BY <1>1, <2>1, <2>2
  <2>5. QED
    BY Zenon, <1>2, <2>2, <2>3, <2>4 DEF d
<1>6. QED
  BY <1>3, <1>4, <1>5 DEF data

-----------------------------------------------------------------------------
\* A container at work was made from pages that the encoder may be given.
ContainerMade ==
  work.task = "container" => work.pages \in Containers /\ work.data = PNG!Encode(work.pages)

\* Such a container has the property.
LEMMA MadeIsWhole == ContainerMade => ContainerWholeOrRefused
<1> SUFFICES ASSUME ContainerMade, work.task = "container"
             PROVE  IF work.pages = <<>> THEN work.data = None
                    ELSE /\ PNG!DecodeMultiPNG(work.data) = work.pages
                         /\ PNG!DecodeMultiPNG(work.data \o <<0, 0, 0, 1>>) = work.pages
                         /\ \A n \in 0 .. Len(work.data) - 1 :
                              PNG!DecodeMultiPNG(SubSeq(work.data, 1, n)) = None
  BY DEF ContainerWholeOrRefused
<1> DEFINE pages == work.pages
           data == work.data
<1>1. /\ pages \in Containers /\ data = PNG!Encode(pages)
      /\ pages \in Seq(Seq(Nat)) /\ AllCounted(pages)
  BY DevicesAssumption DEF ContainerMade, AllCounted
<1> HIDE DEF pages, data
<1>2. CASE pages = <<>>
  <2>1. data = None
    BY <1>1, <1>2 DEF PNG!Encode
  <2>2. QED
    BY <1>2, <2>1 DEF pages, data
<1>3. CASE pages # <<>>
  <2>1. /\ PNG!DecodeMultiPNG(data) = pages
        /\ PNG!DecodeMultiPNG(data \o <<0, 0, 0, 1>>) = pages
        /\ \A n \in 0 .. Len(data) - 1 : PNG!DecodeMultiPNG(SubSeq(data, 1, n)) = None
    BY <1>1, <1>3, ContainerWhole
  <2>2. QED
    BY <1>3, <2>1 DEF pages, data
<1>4. QED
  BY <1>2, <1>3

\* What the encoder makes of any pages the GDI driver decodes to these pages, and of
\* a container that was cut short it decodes nothing (multipng.go).
THEOREM ContainerSafe == DevicesSpec => []ContainerWholeOrRefused
<1>1. DevicesInit => ContainerMade
  BY DEF DevicesInit, Nothing, ContainerMade
<1>2. ContainerMade /\ [DevicesNext]_work => ContainerMade'
  <2> SUFFICES ASSUME ContainerMade, [DevicesNext]_work PROVE ContainerMade'
    OBVIOUS
  <2>1. CASE PackPages
    BY <2>1 DEF PackPages, ContainerMade
  <2>2. CASE EncodeReceipt \/ EncodeSlip
    <3>1. work'.task = "receipt"
      BY <2>2 DEF EncodeReceipt, EncodeSlip
    <3>2. QED
      BY <3>1 DEF ContainerMade
  <2>3. CASE BinarizePage
    <3>1. work'.task = "binarize"
      BY <2>3 DEF BinarizePage
    <3>2. QED
      BY <3>1 DEF ContainerMade
  <2>4. CASE DrawPage
    <3>1. work'.task = "draw"
      BY <2>4 DEF DrawPage
    <3>2. QED
      BY <3>1 DEF ContainerMade
  <2>5. CASE Return
    BY <2>5 DEF Return, Nothing, ContainerMade
  <2>6. CASE UNCHANGED work
    BY <2>6 DEF ContainerMade
  <2>7. QED
    BY <2>1, <2>2, <2>3, <2>4, <2>5, <2>6 DEF DevicesNext
<1>3. QED
  BY <1>1, <1>2, MadeIsWhole, PTL DEF DevicesSpec

-----------------------------------------------------------------------------
(* The reduced page.                                                       *)

\* Where the pixels of a span begin.
Lo(i, dstN, srcN) == (i * srcN) \div dstN

\* Spans begin at rising pixels.
LEMMA LoRises ==
  ASSUME NEW n \in Nat \ {0}, NEW src \in Nat, n <= src, NEW i \in Nat
  PROVE  /\ Lo(i, n, src) \in Nat /\ Lo(i + 1, n, src) \in Nat
         /\ Lo(i, n, src) < Lo(i + 1, n, src)
<1> DEFINE a == i * src
           b == (i + 1) * src
           p == a \div n
           q == b \div n
<1>1. a \in Nat /\ b \in Nat /\ b = a + src
  OBVIOUS
<1> HIDE DEF a, b
<1>2. p \in Nat /\ n * p <= a /\ a < n * p + n
  BY <1>1, Divided
<1>3. q \in Nat /\ n * q <= b /\ b < n * q + n
  BY <1>1, Divided
<1> HIDE DEF p, q
<1>4. n * p < n * q
  <2> DEFINE x == n * p
             y == n * q
  <2>1. x \in Nat /\ y \in Nat /\ x <= a /\ b < y + n
    BY <1>2, <1>3
  <2> HIDE DEF x, y
  <2>2. x < y
    BY <1>1, <2>1
  <2>3. QED
    BY <2>2 DEF x, y
<1>5. p < q
  <2>1. SUFFICES ASSUME q <= p PROVE FALSE
    BY <1>2, <1>3
  <2>2. n * q <= n * p
    BY <1>2, <1>3, <2>1
  <2>3. n * q \in Nat /\ n * p \in Nat
    BY <1>2, <1>3
  <2>4. QED
    BY <1>4, <2>2, <2>3
<1>6. QED
  BY <1>2, <1>3, <1>5 DEF Lo, a, b, p, q

\* A span begins no earlier than a span before it ends.
LEMMA LoOrdered ==
  ASSUME NEW n \in Nat \ {0}, NEW src \in Nat, n <= src, NEW i \in Nat, NEW j \in Nat, i <= j
  PROVE  Lo(i, n, src) <= Lo(j, n, src)
<1> DEFINE T == {k \in Nat : Lo(i, n, src) <= Lo(i + k, n, src)}
<1>1. \A k \in Nat : Lo(k, n, src) \in Nat /\ Lo(k + 1, n, src) \in Nat
                     /\ Lo(k, n, src) < Lo(k + 1, n, src)
  BY LoRises
<1>2. 0 \in T
  BY <1>1
<1>3. ASSUME NEW k \in T PROVE k + 1 \in T
  <2> DEFINE m == i + k
             a == Lo(i, n, src)
             b == Lo(m, n, src)
             c == Lo(m + 1, n, src)
  <2>1. m \in Nat /\ i + (k + 1) = m + 1 /\ a <= b
    OBVIOUS
  <2> HIDE DEF m
  <2>2. a \in Nat /\ b \in Nat /\ c \in Nat /\ b < c
    BY <1>1, <2>1
  <2>3. a <= c
    <3> HIDE DEF a, b, c
    <3>1. QED
      BY <2>1, <2>2
  <2>4. QED
    BY <2>1, <2>3
<1>4. T = Nat
  <2>1. T \in SUBSET Nat
    OBVIOUS
  <2> HIDE DEF T
  <2>2. QED
    BY <1>2, <1>3, <2>1, EveryNatural
<1>5. j - i \in T /\ i + (j - i) = j
  <2> HIDE DEF T
  <2>1. QED
    BY <1>4
<1>6. QED
  BY <1>5

LEMMA LoEnds ==
  ASSUME NEW n \in Nat \ {0}, NEW src \in Nat
  PROVE  Lo(0, n, src) = 0 /\ Lo(n, n, src) = src
<1>1. 0 \div n = 0
  BY QuotientIs
<1>2. (n * src) \div n = src
  <2>1. n * src \in Nat
    OBVIOUS
  <2>2. QED
    BY <2>1, QuotientIs
<1>3. 0 * src = 0
  OBVIOUS
<1>4. QED
  BY <1>1, <1>2, <1>3 DEF Lo

LEMMA SpanIs ==
  ASSUME NEW n \in Nat \ {0}, NEW src \in Nat, n <= src, NEW i \in Nat
  PROVE  span(i, n, src) = <<Lo(i, n, src), Lo(i + 1, n, src)>>
<1>1. /\ Lo(i, n, src) \in Nat /\ Lo(i + 1, n, src) \in Nat
      /\ Lo(i, n, src) < Lo(i + 1, n, src)
  BY LoRises
<1> DEFINE a == Lo(i, n, src)
           b == Lo(i + 1, n, src)
<1>2. span(i, n, src) = <<a, IF b <= a THEN a + 1 ELSE b>>
  BY DEF span, Lo
<1>3. ~ (b <= a)
  <2> HIDE DEF a, b
  <2>1. QED
    BY <1>1 DEF a, b
<1> HIDE DEF a, b
<1>4. QED
  BY <1>2, <1>3 DEF a, b

\* Every pixel of an axis is in exactly one span.
LEMMA InOneSpan ==
  ASSUME NEW n \in Nat \ {0}, NEW src \in Nat, n <= src
  PROVE  /\ \A x \in 0 .. src - 1 : \E i \in 0 .. n - 1 :
              x \in Lo(i, n, src) .. Lo(i + 1, n, src) - 1
         /\ \A i \in 0 .. n - 1 : \A x \in Lo(i, n, src) .. Lo(i + 1, n, src) - 1 :
              x \in 0 .. src - 1
         /\ \A i, j \in 0 .. n - 1 : \A x :
              /\ x \in Lo(i, n, src) .. Lo(i + 1, n, src) - 1
              /\ x \in Lo(j, n, src) .. Lo(j + 1, n, src) - 1
              => i = j
<1> DEFINE lo(i) == Lo(i, n, src)
<1>1. \A k \in Nat : lo(k) \in Nat
  BY LoRises
<1>2. \A i, j \in Nat : i <= j => lo(i) <= lo(j)
  BY LoOrdered
<1>3. lo(0) = 0 /\ lo(n) = src
  BY LoEnds
<1> HIDE DEF lo
<1>4. ASSUME NEW x \in 0 .. src - 1 PROVE \E i \in 0 .. n - 1 : x \in lo(i) .. lo(i + 1) - 1
  <2> DEFINE T == {i \in 0 .. n : lo(i) <= x}
  <2>1. T \in SUBSET (0 .. n) /\ T # {} /\ n \notin T
    <3>1. 0 \in T
      BY <1>3
    <3>2. ~ (lo(n) <= x)
      BY <1>3
    <3>3. QED
      BY <3>1, <3>2
  <2>2. PICK i \in T : \A m \in T : m <= i
    <3> HIDE DEF T
    <3>1. Max(T) \in T /\ \A m \in T : m <= Max(T)
      BY <2>1, MaxIs
    <3>2. QED
      BY <3>1
  <2>3. i \in 0 .. n - 1 /\ lo(i) <= x
    BY <2>1
  <2>4. i + 1 \notin T
    BY <2>2, <2>3
  <2>5. ~ (lo(i + 1) <= x)
    BY <2>3, <2>4
  <2>6. lo(i) \in Nat /\ lo(i + 1) \in Nat
    BY <1>1, <2>3
  <2>7. QED
    BY <2>3, <2>5, <2>6
<1>5. ASSUME NEW i \in 0 .. n - 1, NEW x \in lo(i) .. lo(i + 1) - 1 PROVE x \in 0 .. src - 1
  <2> DEFINE a == lo(i)
             b == lo(i + 1)
  <2>1. a \in Nat /\ b \in Nat /\ b <= src
    BY <1>1, <1>2, <1>3
  <2> HIDE DEF a, b
  <2>2. x \in a .. b - 1
    BY DEF a, b
  <2>3. QED
    BY <2>1, <2>2
<1>6. ASSUME NEW i \in 0 .. n - 1, NEW j \in 0 .. n - 1, NEW x,
             x \in lo(i) .. lo(i + 1) - 1, x \in lo(j) .. lo(j + 1) - 1, i < j
      PROVE  FALSE
  <2> DEFINE b == lo(i + 1)
             c == lo(j)
             a == lo(i)
             d == lo(j + 1)
  <2>1. a \in Nat /\ b \in Nat /\ c \in Nat /\ d \in Nat /\ b <= c
    BY <1>1, <1>2, <1>6
  <2>2. x \in a .. b - 1 /\ x \in c .. d - 1
    BY <1>6
  <2> HIDE DEF a, b, c, d
  <2>3. QED
    BY <2>1, <2>2
<1>7. \A i, j \in 0 .. n - 1 : \A x :
        x \in lo(i) .. lo(i + 1) - 1 /\ x \in lo(j) .. lo(j + 1) - 1 => i = j
  BY <1>6
<1>8. QED
  BY <1>4, <1>5, <1>7 DEF lo

IsPage(pic) ==
  /\ pic.width \in Nat \ {0} /\ pic.rows # <<>>
  /\ pic.rows \in Seq([1 .. pic.width -> [1 .. 3 -> 0 .. 255]])

\* A side of an attempt is at least a pixel and no longer than the page's.
LEMMA ScaledSideIs ==
  ASSUME NEW n \in Nat \ {0}, NEW scale, NEW level
  PROVE  ScaledSide(n, scale, level) \in 1 .. n
<1> DEFINE T == {1} \cup {m \in 1 .. n :
                            m * m * scale.den * 25 ^ level <= n * n * scale.num * 16 ^ level}
<1>1. T \in SUBSET (0 .. n) /\ T \in SUBSET (1 .. n) /\ T # {}
  OBVIOUS
<1>2. ScaledSide(n, scale, level) = Max(T)
  BY Zenon DEF ScaledSide
<1> HIDE DEF T
<1>3. Max(T) \in T
  BY <1>1, MaxIs
<1>4. QED
  BY <1>1, <1>2, <1>3

\* The pixels of two spans.
Covered(xs, ys) == {Nth(xs, ys, k) : k \in 0 .. Count(xs, ys) - 1}

\* They are a rectangle.
LEMMA NthIs ==
  ASSUME NEW a \in Nat, NEW b \in Nat, a < b, NEW c \in Nat, NEW d \in Nat, c < d
  PROVE  /\ Count(<<a, b>>, <<c, d>>) \in Nat \ {0}
         /\ Covered(<<a, b>>, <<c, d>>) = (a .. b - 1) \X (c .. d - 1)
<1> DEFINE n == b - a
           m == d - c
           C == Count(<<a, b>>, <<c, d>>)
           N(k) == Nth(<<a, b>>, <<c, d>>, k)
<1>1. n \in Nat \ {0} /\ m \in Nat \ {0} /\ b = a + n /\ d = c + m
  OBVIOUS
<1>2. C = n * m
  BY DEF Count
<1>3. \A k : N(k) = <<a + (k % n), c + (k \div n)>>
  BY DEF Nth
<1> HIDE DEF n, m, C, N
<1>4. C \in Nat \ {0}
  BY <1>1, <1>2
<1>5. ASSUME NEW k \in 0 .. C - 1 PROVE N(k) \in (a .. b - 1) \X (c .. d - 1)
  <2> DEFINE q == k \div n
             r == k % n
  <2>1. r \in 0 .. n - 1 /\ q \in Nat /\ k = n * q + r
    BY <1>1, <1>4, Remainder
  <2> HIDE DEF q, r
  <2>2. q < m
    <3>1. SUFFICES ASSUME m <= q PROVE FALSE
      BY <1>1, <2>1
    <3>2. n * m <= n * q
      BY <1>1, <2>1, <3>1
    <3>3. n * m \in Nat /\ n * q \in Nat
      BY <1>1, <2>1
    <3>4. QED
      BY <1>1, <1>2, <2>1, <3>2, <3>3
  <2>3. a + r \in a .. b - 1 /\ c + q \in c .. d - 1
    BY <1>1, <2>1, <2>2
  <2>4. N(k) = <<a + r, c + q>>
    BY <1>3 DEF q, r
  <2>5. QED
    BY <2>3, <2>4
<1>6. ASSUME NEW x \in a .. b - 1, NEW y \in c .. d - 1
      PROVE  \E k \in 0 .. C - 1 : <<x, y>> = N(k)
  <2> DEFINE r == x - a
             q == y - c
             k == n * q + r
  <2>1. r \in 0 .. n - 1 /\ q \in 0 .. m - 1 /\ x = a + r /\ y = c + q
    BY <1>1
  <2> HIDE DEF r, q
  <2>2. k \in Nat /\ n * q <= k /\ k < n * q + n
    BY <1>1, <2>1
  <2>3. n * q + n <= n * m
    <3>1. n * q + n = n * (q + 1)
      BY <1>1, <2>1
    <3>2. n * (q + 1) <= n * m
      BY <1>1, <2>1
    <3>3. QED
      BY <3>1, <3>2
  <2>3a. n * q \in Nat /\ n * m \in Nat
    BY <1>1, <2>1
  <2>4. k \in 0 .. C - 1
    <3> HIDE DEF k
    <3>1. QED
      BY <1>1, <1>2, <2>2, <2>3, <2>3a
  <2>5. k \div n = q
    <3> HIDE DEF k
    <3>1. QED
      BY <1>1, <2>1, <2>2, QuotientIs
  <2>6. k % n = r
    <3>1. k = n * q + r
      OBVIOUS
    <3> HIDE DEF k
    <3>2. k % n \in Nat /\ k = n * (k \div n) + (k % n)
      BY <1>1, <2>2, Remainder
    <3>3. k = n * q + (k % n)
      BY <2>5, <3>2
    <3> DEFINE u == n * q
               v == k % n
    <3>4. u \in Nat /\ v \in Nat /\ k = u + v /\ k = u + r
      BY <2>3a, <3>1, <3>2, <3>3
    <3> HIDE DEF u, v
    <3>5. v = r
      BY <2>1, <3>4
    <3>6. QED
      BY <3>5 DEF v
  <2>7. N(k) = <<x, y>>
    <3> HIDE DEF k
    <3>1. QED
      BY <1>3, <2>1, <2>5, <2>6
  <2>8. QED
    BY <2>4, <2>7
<1>7. {N(k) : k \in 0 .. C - 1} = (a .. b - 1) \X (c .. d - 1)
  BY <1>5, <1>6
<1>8. QED
  BY <1>4, <1>7 DEF C, N, Covered

\* The rows of a page, and its sides.
LEMMA SidesAre ==
  ASSUME NEW pic, IsPage(pic)
  PROVE  /\ Width(pic) \in Nat \ {0} /\ Height(pic) \in Nat \ {0} /\ Height(pic) = Len(pic.rows)
         /\ DOMAIN pic.rows = 1 .. Height(pic)
         /\ \A y \in 1 .. Height(pic) : pic.rows[y] \in [1 .. Width(pic) -> [1 .. 3 -> 0 .. 255]]
<1>1. Len(pic.rows) \in Nat \ {0} /\ DOMAIN pic.rows = 1 .. Len(pic.rows)
  BY EmptySeq, LenProperties DEF IsPage
<1>2. \A y \in 1 .. Len(pic.rows) : pic.rows[y] \in [1 .. pic.width -> [1 .. 3 -> 0 .. 255]]
  BY ElementOfSeq DEF IsPage
<1>3. QED
  BY <1>1, <1>2 DEF Width, Height, IsPage

-----------------------------------------------------------------------------
(* The sums of an average.                                                 *)

Add(pic, xs, ys, k, sum) ==
  LET at == Nth(xs, ys, k - 1) IN [c \in 1 .. 3 |-> sum[c] + pic.rows[at[2] + 1][at[1] + 1][c]]

IsSum(pic, xs, ys, sum, n) ==
  sum = [k \in 0 .. n |-> IF k = 0 THEN <<0, 0, 0>> ELSE Add(pic, xs, ys, k, sum[k - 1])]

\* The function by which SumOver is defined exists.
LEMMA SumExists ==
  ASSUME NEW pic, NEW xs, NEW ys, NEW n \in Nat
  PROVE  \E sum : IsSum(pic, xs, ys, sum, n)
<1> DEFINE T == {m \in Nat : \E sum : IsSum(pic, xs, ys, sum, m)}
           next(k, v) == Add(pic, xs, ys, k, v)
<1>1. 0 \in T
  <2>1. IsSum(pic, xs, ys, [k \in 0 .. 0 |-> <<0, 0, 0>>], 0)
    BY DEF IsSum
  <2>2. QED
    BY <2>1
<1>2. ASSUME NEW m \in T PROVE m + 1 \in T
  <2>1. PICK g : IsSum(pic, xs, ys, g, m)
    OBVIOUS
  <2> DEFINE h == [k \in 0 .. m + 1 |-> IF k <= m THEN g[k] ELSE next(k, g[k - 1])]
  <2>2. \A k \in 0 .. m : g[k] = IF k = 0 THEN <<0, 0, 0>> ELSE next(k, g[k - 1])
    BY <2>1 DEF IsSum
  <2> HIDE DEF next
  <2>3. ASSUME NEW k \in 0 .. m + 1
        PROVE  h[k] = IF k = 0 THEN <<0, 0, 0>> ELSE next(k, h[k - 1])
    <3>1. CASE k = 0
      BY <2>2, <3>1
    <3>2. CASE k # 0
      <4>1. k - 1 \in 0 .. m + 1 /\ k - 1 <= m
        BY <3>2
      <4>2. h[k - 1] = g[k - 1]
        BY <4>1
      <4>3. h[k] = next(k, g[k - 1])
        <5>1. CASE k <= m
          <6>1. k \in 0 .. m /\ h[k] = g[k]
            BY <5>1
          <6>2. QED
            BY <2>2, <3>2, <6>1
        <5>2. CASE ~ (k <= m)
          BY <5>2
        <5>3. QED
          BY <5>1, <5>2
      <4> HIDE DEF h
      <4>4. QED
        BY <3>2, <4>2, <4>3
    <3>3. QED
      BY <3>1, <3>2
  <2>4. IsSum(pic, xs, ys, h, m + 1)
    <3>1. h = [k \in 0 .. m + 1 |-> h[k]]
      OBVIOUS
    <3> HIDE DEF h
    <3>2. QED
      BY <2>3, <3>1 DEF IsSum, next
  <2>5. QED
    BY <2>4
<1>3. T = Nat
  <2>1. T \in SUBSET Nat
    OBVIOUS
  <2> HIDE DEF T
  <2>2. QED
    BY <1>1, <1>2, <2>1, EveryNatural
<1>4. QED
  BY <1>3

IsSumOver(pic, xs, ys, sum) ==
  /\ SumOver(pic, xs, ys) = sum[Count(xs, ys)] /\ sum[0] = <<0, 0, 0>>
  /\ \A k \in 1 .. Count(xs, ys) : sum[k] = Add(pic, xs, ys, k, sum[k - 1])

\* The sums grow by one pixel at a time.
LEMMA SumSteps ==
  ASSUME NEW pic, NEW xs, NEW ys, Count(xs, ys) \in Nat
  PROVE  \E sum : IsSumOver(pic, xs, ys, sum)
<1> DEFINE n == Count(xs, ys)
           sum == CHOOSE f : f = [k \in 0 .. n |->
                                    IF k = 0 THEN <<0, 0, 0>>
                                    ELSE LET at == Nth(xs, ys, k - 1)
                                         IN  [c \in 1 .. 3 |->
                                                f[k - 1][c] + pic.rows[at[2] + 1][at[1] + 1][c]]]
<1>1. SumOver(pic, xs, ys) = sum[n]
  BY DEF SumOver
<1>2. \E f : IsSum(pic, xs, ys, f, n)
  <2> HIDE DEF n, sum
  <2>1. n \in Nat
    BY DEF n
  <2>2. QED
    BY <2>1, SumExists
<1>3. IsSum(pic, xs, ys, sum, n)
  BY <1>2 DEF IsSum, Add
<1> HIDE DEF sum, n
<1>4. \A k \in 0 .. n : sum[k] = IF k = 0 THEN <<0, 0, 0>> ELSE Add(pic, xs, ys, k, sum[k - 1])
  BY <1>3 DEF IsSum
<1>5. n \in Nat
  BY DEF n
<1>6. sum[0] = <<0, 0, 0>> /\ \A k \in 1 .. n : sum[k] = Add(pic, xs, ys, k, sum[k - 1])
  BY <1>4, <1>5
<1>7. IsSumOver(pic, xs, ys, sum)
  BY Zenon, <1>1, <1>6 DEF n, IsSumOver
<1>8. QED
  BY <1>7

\* An average of colours is a colour.
LEMMA AverageIs ==
  ASSUME NEW pic, IsPage(pic), NEW xs \in Nat \X Nat, NEW ys \in Nat \X Nat,
         xs[1] < xs[2], xs[2] <= Width(pic), ys[1] < ys[2], ys[2] <= Height(pic)
  PROVE  Average(pic, xs, ys) \in [1 .. 3 -> 0 .. 255]
<1> DEFINE n == Count(xs, ys)
           W == Width(pic)
           H == Height(pic)
<1>1. /\ W \in Nat /\ H \in Nat
      /\ \A y \in 1 .. H : pic.rows[y] \in [1 .. W -> [1 .. 3 -> 0 .. 255]]
  BY SidesAre
<1>2. n \in Nat \ {0} /\ \A k \in 0 .. n - 1 : Nth(xs, ys, k) \in (0 .. W - 1) \X (0 .. H - 1)
  <2>1. PICK a \in Nat, b \in Nat, c \in Nat, d \in Nat :
          xs = <<a, b>> /\ ys = <<c, d>> /\ a < b /\ b <= W /\ c < d /\ d <= H
    <3>1. xs = <<xs[1], xs[2]>> /\ ys = <<ys[1], ys[2]>>
          /\ xs[1] \in Nat /\ xs[2] \in Nat /\ ys[1] \in Nat /\ ys[2] \in Nat
      OBVIOUS
    <3>2. QED
      BY <3>1
  <2> HIDE DEF W, H, n
  <2>2. n \in Nat \ {0} /\ Covered(xs, ys) = (a .. b - 1) \X (c .. d - 1)
    <3>1. a < b /\ c < d
      BY <2>1
    <3>2. /\ Count(<<a, b>>, <<c, d>>) \in Nat \ {0}
          /\ Covered(<<a, b>>, <<c, d>>) = (a .. b - 1) \X (c .. d - 1)
      BY <3>1, NthIs
    <3>3. QED
      BY Zenon, <2>1, <3>2 DEF n
  <2>3. \A k \in 0 .. n - 1 : Nth(xs, ys, k) \in Covered(xs, ys)
    BY DEF Covered, n
  <2>4. (a .. b - 1) \X (c .. d - 1) \subseteq (0 .. W - 1) \X (0 .. H - 1)
    BY <1>1, <2>1
  <2>5. QED
    BY <2>2, <2>3, <2>4
<1>3. PICK sum : /\ SumOver(pic, xs, ys) = sum[n] /\ sum[0] = <<0, 0, 0>>
                 /\ \A k \in 1 .. n : sum[k] = Add(pic, xs, ys, k, sum[k - 1])
  <2>1. Count(xs, ys) \in Nat
    BY <1>2
  <2>2. PICK sum : IsSumOver(pic, xs, ys, sum)
    BY <2>1, SumSteps
  <2>3. QED
    BY <2>2 DEF IsSumOver
<1> HIDE DEF W, H, n
<1> DEFINE Upto(k) == sum[k] \in [1 .. 3 -> 0 .. 255 * k]
           T == {k \in Nat : k <= n => Upto(k)}
<1>4. 0 \in T
  <2>1. <<0, 0, 0>> \in [1 .. 3 -> 0 .. 255 * 0]
    OBVIOUS
  <2>2. QED
    BY <1>3, <2>1
<1>5. ASSUME NEW k \in T, k + 1 <= n PROVE Upto(k + 1)
  <2> DEFINE at == Nth(xs, ys, k)
             p == pic.rows[at[2] + 1][at[1] + 1]
             j == k + 1
  <2>1. k \in Nat /\ k \in 0 .. n - 1 /\ sum[k] \in [1 .. 3 -> 0 .. 255 * k]
    BY <1>2, <1>5
  <2>2. at \in (0 .. W - 1) \X (0 .. H - 1)
    BY <1>2, <2>1
  <2>3. p \in [1 .. 3 -> 0 .. 255]
    <3> HIDE DEF at
    <3>1. at[2] + 1 \in 1 .. H /\ at[1] + 1 \in 1 .. W
      BY <1>1, <2>2
    <3> DEFINE row == pic.rows[at[2] + 1]
    <3>2. row \in [1 .. W -> [1 .. 3 -> 0 .. 255]]
      BY <1>1, <3>1
    <3> HIDE DEF row
    <3>3. row[at[1] + 1] \in [1 .. 3 -> 0 .. 255]
      BY <3>1, <3>2
    <3>4. QED
      BY <3>3 DEF row
  <2>4. j \in 1 .. n /\ j - 1 = k
    BY <1>2, <2>1
  <2>5. sum[j] = [c \in 1 .. 3 |-> sum[k][c] + p[c]]
    <3> HIDE DEF j
    <3>1. sum[j] = Add(pic, xs, ys, j, sum[j - 1])
      BY <1>3, <2>4
    <3>2. QED
      BY Zenon, <2>4, <3>1 DEF Add
  <2> HIDE DEF p, at
  <2>6. \A c \in 1 .. 3 : sum[k][c] + p[c] \in 0 .. 255 * j
    <3>1. ASSUME NEW c \in 1 .. 3 PROVE sum[k][c] + p[c] \in 0 .. 255 * j
      <4> DEFINE u == sum[k][c]
                 v == p[c]
      <4>1. u \in 0 .. 255 * k /\ v \in 0 .. 255
        BY <2>1, <2>3
      <4> HIDE DEF u, v
      <4>2. u + v \in 0 .. 255 * j
        BY <2>1, <4>1
      <4>3. QED
        BY <4>2 DEF u, v
    <3>2. QED
      BY <3>1
  <2> HIDE DEF j
  <2>7. sum[j] \in [1 .. 3 -> 0 .. 255 * j]
    BY <2>5, <2>6
  <2>8. QED
    BY <2>7 DEF j
<1>6. T = Nat
  <2>1. \A k \in T : k + 1 \in T
    BY <1>5
  <2>2. T \in SUBSET Nat
    OBVIOUS
  <2> HIDE DEF T
  <2>3. QED
    BY <1>4, <2>1, <2>2, EveryNatural
<1>7. sum[n] \in [1 .. 3 -> 0 .. 255 * n]
  <2>1. n \in T /\ n <= n
    <3> HIDE DEF T
    <3>1. QED
      BY <1>2, <1>6
  <2>2. QED
    BY <2>1
<1>8. ASSUME NEW c \in 1 .. 3 PROVE SumOver(pic, xs, ys)[c] \div n \in 0 .. 255
  <2> DEFINE u == sum[n][c]
  <2>1. u \in 0 .. 255 * n
    BY <1>7
  <2> HIDE DEF u
  <2> DEFINE q == u \div n
  <2>2. u \in Nat /\ q \in Nat /\ n * q <= u
    BY <1>2, <2>1, Divided
  <2> HIDE DEF q
  <2>3. q <= 255
    <3>1. SUFFICES ASSUME 256 <= q PROVE FALSE
      BY <2>2
    <3>2. n * 256 <= n * q
      BY <1>2, <2>2, <3>1
    <3>3. n * q \in Nat
      BY <1>2, <2>2
    <3>4. QED
      BY <1>2, <2>1, <2>2, <3>2, <3>3
  <2>4. QED
    BY <1>3, <2>2, <2>3 DEF q, u
<1>9. QED
  BY <1>8 DEF Average, n

\* A span lies inside the axis and has a pixel.
LEMMA SpanInside ==
  ASSUME NEW n \in Nat \ {0}, NEW src \in Nat, n <= src, NEW i \in 0 .. n - 1
  PROVE  /\ span(i, n, src) = <<Lo(i, n, src), Lo(i + 1, n, src)>>
         /\ Lo(i, n, src) \in Nat /\ Lo(i + 1, n, src) \in Nat
         /\ Lo(i, n, src) < Lo(i + 1, n, src) /\ Lo(i + 1, n, src) <= src
<1>1. i \in Nat /\ i + 1 \in Nat /\ i + 1 <= n
  OBVIOUS
<1>2. /\ Lo(i, n, src) \in Nat /\ Lo(i + 1, n, src) \in Nat
      /\ Lo(i, n, src) < Lo(i + 1, n, src)
  BY <1>1, LoRises
<1>3. Lo(i + 1, n, src) <= Lo(n, n, src)
  BY <1>1, LoOrdered
<1>4. Lo(n, n, src) = src
  BY LoEnds
<1>5. span(i, n, src) = <<Lo(i, n, src), Lo(i + 1, n, src)>>
  BY <1>1, SpanIs
<1>6. QED
  BY <1>2, <1>3, <1>4, <1>5

\* What downscale makes of a page is a page.
LEMMA DownscaleIs ==
  ASSUME NEW pic, IsPage(pic), NEW w \in 1 .. Width(pic), NEW h \in 1 .. Height(pic)
  PROVE  /\ IsPage(downscale(pic, w, h))
         /\ Width(downscale(pic, w, h)) = w /\ Height(downscale(pic, w, h)) = h
<1> DEFINE W == Width(pic)
           H == Height(pic)
           C == [1 .. 3 -> 0 .. 255]
<1>1. W \in Nat \ {0} /\ H \in Nat \ {0}
  BY SidesAre
<1>2. CASE w >= W /\ h >= H
  <2>1. downscale(pic, w, h) = pic
    BY <1>2 DEF downscale
  <2>2. w = W /\ h = H
    BY <1>1, <1>2
  <2>3. QED
    BY <2>1, <2>2
<1>3. CASE ~ (w >= W /\ h >= H)
  <2> DEFINE dot(x, y) == Average(pic, span(x - 1, w, W), span(y - 1, h, H))
             row(y) == [x \in 1 .. w |-> dot(x, y)]
             rows == [y \in 1 .. h |-> row(y)]
  <2>1. downscale(pic, w, h) = [width |-> w, rows |-> rows]
    BY <1>3 DEF downscale
  <2>2. ASSUME NEW x \in 1 .. w, NEW y \in 1 .. h PROVE dot(x, y) \in C
    <3> DEFINE xs == span(x - 1, w, W)
               ys == span(y - 1, h, H)
    <3>1. xs \in Nat \X Nat /\ xs[1] < xs[2] /\ xs[2] <= W
      <4>1. w \in Nat \ {0} /\ W \in Nat /\ w <= W /\ x - 1 \in 0 .. w - 1
        BY <1>1
      <4> HIDE DEF W
      <4>2. /\ xs = <<Lo(x - 1, w, W), Lo((x - 1) + 1, w, W)>>
            /\ Lo(x - 1, w, W) \in Nat /\ Lo((x - 1) + 1, w, W) \in Nat
            /\ Lo(x - 1, w, W) < Lo((x - 1) + 1, w, W) /\ Lo((x - 1) + 1, w, W) <= W
        BY <4>1, SpanInside
      <4> HIDE DEF xs
      <4>3. QED
        BY <4>2
    <3>2. ys \in Nat \X Nat /\ ys[1] < ys[2] /\ ys[2] <= H
      <4>1. h \in Nat \ {0} /\ H \in Nat /\ h <= H /\ y - 1 \in 0 .. h - 1
        BY <1>1
      <4> HIDE DEF H
      <4>2. /\ ys = <<Lo(y - 1, h, H), Lo((y - 1) + 1, h, H)>>
            /\ Lo(y - 1, h, H) \in Nat /\ Lo((y - 1) + 1, h, H) \in Nat
            /\ Lo(y - 1, h, H) < Lo((y - 1) + 1, h, H) /\ Lo((y - 1) + 1, h, H) <= H
        BY <4>1, SpanInside
      <4> HIDE DEF ys
      <4>3. QED
        BY <4>2
    <3>3. dot(x, y) = Average(pic, xs, ys)
      OBVIOUS
    <3> HIDE DEF xs, ys, dot
    <3>4. Average(pic, xs, ys) \in [1 .. 3 -> 0 .. 255]
      BY <3>1, <3>2, AverageIs
    <3>5. QED
      BY <3>3, <3>4
  <2> HIDE DEF dot, C, W, H
  <2>3. \A y \in 1 .. h : row(y) \in [1 .. w -> C]
    BY <2>2
  <2>4. w \in Nat \ {0} /\ h \in Nat \ {0}
    BY <1>1 DEF W, H
  <2> HIDE DEF row
  <2>5. rows \in [1 .. h -> [1 .. w -> C]] /\ DOMAIN rows = 1 .. h
    BY <2>3
  <2> HIDE DEF rows
  <2>6. rows \in Seq([1 .. w -> C])
    BY <2>4, <2>5, SeqDef
  <2>7. Len(rows) = h
    BY <2>4, <2>5, <2>6, LenProperties
  <2>8. rows # <<>>
    <3>1. Len(<<>>) = 0
      BY EmptySeq
    <3>2. QED
      BY <2>4, <2>7, <3>1
  <2> DEFINE small == downscale(pic, w, h)
  <2>9. small.width = w /\ small.rows = rows
    BY <2>1
  <2> HIDE DEF small
  <2>10. IsPage(small) /\ Width(small) = w /\ Height(small) = h
    BY <2>4, <2>6, <2>7, <2>8, <2>9 DEF IsPage, Width, Height, C
  <2>11. QED
    BY <2>10 DEF small
<1>4. QED
  BY <1>2, <1>3

\* The page of an attempt.
LEMMA SmallIs ==
  ASSUME NEW pic, IsPage(pic), NEW level
  PROVE  /\ IsPage(Attempt(pic, level))
         /\ Width(Attempt(pic, level)) \in 1 .. Width(pic)
         /\ Height(Attempt(pic, level)) \in 1 .. Height(pic)
<1> DEFINE scale == initialScale(Width(pic), Height(pic), isGrayscale(pic))
           w == ScaledSide(Width(pic), scale, level)
           h == ScaledSide(Height(pic), scale, level)
<1>1. Attempt(pic, level) = downscale(pic, w, h)
  BY DEF Attempt
<1>2. Width(pic) \in Nat \ {0} /\ Height(pic) \in Nat \ {0}
  BY SidesAre
<1> HIDE DEF scale
<1>3. w \in 1 .. Width(pic) /\ h \in 1 .. Height(pic)
  BY <1>2, ScaledSideIs
<1> HIDE DEF w, h
<1>4. QED
  BY <1>1, <1>3, DownscaleIs

\* Every pixel of a page is averaged into one pixel of the page of an attempt.
LEMMA AttemptTakesEveryPixel ==
  ASSUME NEW pic, IsPage(pic), NEW small, Width(small) \in 1 .. Width(pic),
         Height(small) \in 1 .. Height(pic)
  PROVE  EveryPixelOnce(pic, small)
<1> DEFINE W == Width(pic)
           H == Height(pic)
           w == Width(small)
           h == Height(small)
           X(i) == Lo(i, w, W) .. Lo(i + 1, w, W) - 1
           Y(i) == Lo(i, h, H) .. Lo(i + 1, h, H) - 1
           box(d) == Box(d[1], d[2], w, h, pic)
           dest == (0 .. w - 1) \X (0 .. h - 1)
<1>1. /\ W \in Nat /\ H \in Nat /\ w \in Nat \ {0} /\ h \in Nat \ {0}
      /\ w <= W /\ h <= H
  BY SidesAre
<1>2. SUFFICES /\ UNION {box(d) : d \in dest} = (0 .. W - 1) \X (0 .. H - 1)
               /\ \A d, e \in dest : d # e => box(d) \cap box(e) = {}
  BY Zenon DEF EveryPixelOnce
<1>3. \A d \in dest : box(d) = X(d[1]) \X Y(d[2])
  <2>1. ASSUME NEW i \in 0 .. w - 1, NEW j \in 0 .. h - 1
        PROVE  Box(i, j, w, h, pic) = X(i) \X Y(j)
    <3>1. Box(i, j, w, h, pic) = Covered(span(i, w, W), span(j, h, H))
      BY DEF Box, Covered
    <3> HIDE DEF W, H, w, h
    <3>2. /\ span(i, w, W) = <<Lo(i, w, W), Lo(i + 1, w, W)>>
          /\ Lo(i, w, W) \in Nat /\ Lo(i + 1, w, W) \in Nat /\ Lo(i, w, W) < Lo(i + 1, w, W)
      BY <1>1, SpanInside
    <3>3. /\ span(j, h, H) = <<Lo(j, h, H), Lo(j + 1, h, H)>>
          /\ Lo(j, h, H) \in Nat /\ Lo(j + 1, h, H) \in Nat /\ Lo(j, h, H) < Lo(j + 1, h, H)
      BY <1>1, SpanInside
    <3>4. Covered(<<Lo(i, w, W), Lo(i + 1, w, W)>>, <<Lo(j, h, H), Lo(j + 1, h, H)>>)
            = X(i) \X Y(j)
      <4> DEFINE a == Lo(i, w, W)
                 b == Lo(i + 1, w, W)
                 c == Lo(j, h, H)
                 e == Lo(j + 1, h, H)
      <4>1. a \in Nat /\ b \in Nat /\ a < b /\ c \in Nat /\ e \in Nat /\ c < e
        BY Zenon, <3>2, <3>3
      <4> HIDE DEF a, b, c, e
      <4>2. Covered(<<a, b>>, <<c, e>>) = (a .. b - 1) \X (c .. e - 1)
        BY <4>1, NthIs
      <4>3. QED
        BY Zenon, <4>2 DEF a, b, c, e
    <3>5. QED
      BY Zenon, <3>1, <3>2, <3>3, <3>4
  <2> HIDE DEF w, h, X, Y
  <2>2. \A d \in dest : d[1] \in 0 .. w - 1 /\ d[2] \in 0 .. h - 1
    OBVIOUS
  <2>3. QED
    BY Zenon, <2>1, <2>2
<1> HIDE DEF W, H, w, h
<1>4. /\ \A x \in 0 .. W - 1 : \E i \in 0 .. w - 1 : x \in X(i)
      /\ \A i \in 0 .. w - 1 : \A x \in X(i) : x \in 0 .. W - 1
      /\ \A i, j \in 0 .. w - 1 : \A x : x \in X(i) /\ x \in X(j) => i = j
  BY <1>1, InOneSpan
<1>5. /\ \A x \in 0 .. H - 1 : \E i \in 0 .. h - 1 : x \in Y(i)
      /\ \A i \in 0 .. h - 1 : \A x \in Y(i) : x \in 0 .. H - 1
      /\ \A i, j \in 0 .. h - 1 : \A x : x \in Y(i) /\ x \in Y(j) => i = j
  BY <1>1, InOneSpan
<1> HIDE DEF X, Y, box
<1> DEFINE Xs == 0 .. W - 1
           Ys == 0 .. H - 1
           Is == 0 .. w - 1
           Js == 0 .. h - 1
<1>6. dest = Is \X Js
  OBVIOUS
<1>7. /\ \A x \in Xs : \E i \in Is : x \in X(i)
      /\ \A i \in Is : \A x \in X(i) : x \in Xs
      /\ \A i, j \in Is : \A x : x \in X(i) /\ x \in X(j) => i = j
      /\ \A x \in Ys : \E i \in Js : x \in Y(i)
      /\ \A i \in Js : \A x \in Y(i) : x \in Ys
      /\ \A i, j \in Js : \A x : x \in Y(i) /\ x \in Y(j) => i = j
  BY Zenon, <1>4, <1>5
<1> HIDE DEF Xs, Ys, Is, Js, dest
<1>8. ASSUME NEW d \in dest, NEW p \in box(d) PROVE p \in Xs \X Ys
  <2>1. d[1] \in Is /\ d[2] \in Js /\ p \in X(d[1]) \X Y(d[2])
    BY <1>3, <1>6
  <2>2. QED
    BY <1>7, <2>1
<1>9. ASSUME NEW p \in Xs \X Ys PROVE \E d \in dest : p \in box(d)
  <2>1. PICK i \in Is, j \in Js : p[1] \in X(i) /\ p[2] \in Y(j)
    BY <1>7
  <2>2. <<i, j>> \in dest /\ p \in X(i) \X Y(j)
    BY <1>6, <2>1
  <2>3. box(<<i, j>>) = X(i) \X Y(j)
    BY <1>3, <2>2
  <2>4. QED
    BY <2>2, <2>3
<1>10. ASSUME NEW d \in dest, NEW e \in dest, NEW p, p \in box(d), p \in box(e) PROVE d = e
  <2>1. /\ d[1] \in Is /\ d[2] \in Js /\ p \in X(d[1]) \X Y(d[2])
        /\ e[1] \in Is /\ e[2] \in Js /\ p \in X(e[1]) \X Y(e[2])
    BY <1>3, <1>6, <1>10
  <2>2. d[1] = e[1] /\ d[2] = e[2]
    BY <1>7, <2>1
  <2>3. d = <<d[1], d[2]>> /\ e = <<e[1], e[2]>>
    BY <1>6
  <2>4. QED
    BY <2>2, <2>3
<1>11. UNION {box(d) : d \in dest} = Xs \X Ys
  BY <1>8, <1>9
<1>12. \A d, e \in dest : d # e => box(d) \cap box(e) = {}
  BY <1>10
<1>13. QED
  BY Zenon, <1>11, <1>12 DEF Xs, Ys

-----------------------------------------------------------------------------
(* The rectangle on the sheet.                                             *)

\* One axis fills its target, the other follows: a and b are the sides of the
\* picture, W and H those of the target.
LEMMA Fills ==
  ASSUME NEW a \in Nat \ {0}, NEW W \in Nat \ {0}, NEW w0 \in Truncated(a * W, a)
  PROVE  AtLeastOne(w0) \in 1 .. W /\ W - 1 <= AtLeastOne(w0)
<1> DEFINE p == a * W
<1>1. p \in Nat /\ a * W = p
  OBVIOUS
<1> HIDE DEF p
<1>2. p \div a = W
  BY <1>1, QuotientIs
<1>3. w0 \in {W, W - 1}
  BY <1>1, <1>2 DEF Truncated
<1>4. QED
  BY <1>3 DEF AtLeastOne

\* The other side stays inside, within a pixel of the proportions.
LEMMA Follows ==
  ASSUME NEW a \in Nat \ {0}, NEW b \in Nat \ {0}, NEW W \in Nat \ {0}, NEW H \in Nat \ {0},
         W * b <= H * a, NEW h0 \in Truncated(b * W, a)
  PROVE  /\ AtLeastOne(h0) \in 1 .. H
         /\ a * AtLeastOne(h0) <= b * W + a /\ b * W <= a * AtLeastOne(h0) + a
<1> DEFINE p == b * W
           q == p \div a
           m == a * q
           h == AtLeastOne(h0)
<1>1. p \in Nat /\ b * W = p /\ p <= a * H
  OBVIOUS
<1> HIDE DEF p
<1>2. q \in Nat /\ m <= p /\ p < m + a
  BY <1>1, Divided
<1>3. h0 \in {q, q - 1} /\ (h0 = q - 1 => p % a = 0)
  BY <1>1 DEF Truncated
<1>4. p % a = 0 => p = m
  <2>1. p = a * (p \div a) + (p % a) /\ p \div a \in Nat
    BY <1>1, Remainder
  <2> HIDE DEF q
  <2>2. m \in Nat
    BY <1>2
  <2>3. p = m + (p % a)
    BY <2>1 DEF q
  <2> HIDE DEF m
  <2>4. QED
    BY <2>2, <2>3
<1> HIDE DEF q
<1>5. q <= H
  <2>1. SUFFICES ASSUME H + 1 <= q PROVE FALSE
    BY <1>2
  <2>2. a * (H + 1) <= m
    BY <1>2, <2>1
  <2>3. a * H \in Nat /\ a * (H + 1) = a * H + a /\ m \in Nat
    BY <1>2
  <2> HIDE DEF m
  <2>4. QED
    BY <1>1, <1>2, <2>2, <2>3
<1>6. h \in {q, q - 1, 1} /\ h >= 1 /\ (h = q - 1 => h0 = q - 1) /\ (h = 1 => q \in {0, 1, 2})
  BY <1>2, <1>3 DEF AtLeastOne
<1>7. m \in Nat /\ a * (q - 1) = m - a /\ a * 1 = a /\ (q = 0 => m = 0) /\ (q = 1 => m = a)
      /\ (q = 2 => m = a + a)
  BY <1>2
<1> HIDE DEF m, h
<1>8. h \in 1 .. H
  BY <1>2, <1>5, <1>6
<1>9. a * h <= p + a /\ p <= a * h + a
  <2>1. CASE h = q
    <3>1. a * h = m
      BY <2>1 DEF m
    <3>2. QED
      BY <1>1, <1>2, <1>7, <3>1
  <2>2. CASE h = q - 1
    <3>1. a * h = m - a /\ p = m
      BY <1>3, <1>4, <1>6, <1>7, <2>2
    <3>2. QED
      BY <1>1, <1>2, <1>7, <3>1
  <2>3. CASE h = 1 /\ h # q /\ h # q - 1
    <3>1. a * h = a /\ m = 0
      BY <1>2, <1>6, <1>7, <2>3
    <3>2. QED
      BY <1>1, <1>2, <3>1
  <2>4. QED
    BY <1>6, <2>1, <2>2, <2>3
<1>10. QED
  BY <1>1, <1>8, <1>9 DEF h

\* Both together keep the proportions.
LEMMA Proportions ==
  ASSUME NEW a \in Nat \ {0}, NEW b \in Nat \ {0}, NEW W \in Nat \ {0},
         NEW w \in 1 .. W, W - 1 <= w, NEW h \in Nat \ {0},
         a * h <= b * W + a, b * W <= a * h + a
  PROVE  /\ w * b - h * a <= 2 * (a + b)
         /\ h * a - w * b <= 2 * (a + b)
<1> DEFINE p == b * W
           k == a * h
           n == b * w
<1>1. p \in Nat /\ k \in Nat /\ n \in Nat /\ k <= p + a /\ p <= k + a
  OBVIOUS
<1>2. n = p \/ n = p - b
  <2>1. w = W \/ w = W - 1
    OBVIOUS
  <2>2. b * (W - 1) = p - b
    OBVIOUS
  <2>3. QED
    BY <2>1, <2>2
<1>3. w * b = n /\ h * a = k
  OBVIOUS
<1> HIDE DEF p, k, n
<1>4. QED
  BY <1>1, <1>2, <1>3

\* Where a picture is placed: inside the target, centred, at its proportions.
Placed(at, srcW, srcH, t) ==
  /\ at.w \in 1 .. t.w /\ at.h \in 1 .. t.h
  /\ at.w >= t.w - 1 \/ at.h >= t.h - 1
  /\ at.x = t.x + ((t.w - at.w) \div 2) /\ at.y = t.y + ((t.h - at.h) \div 2)
  /\ Near(at.w * srcH, at.h * srcW, 2 * (srcW + srcH))

\* fitRect places every picture so.
LEMMA FitIs ==
  ASSUME NEW srcW \in Nat \ {0}, NEW srcH \in Nat \ {0}, NEW t,
         t.w \in Nat \ {0}, t.h \in Nat \ {0}, NEW at \in fitRect(srcW, srcH, t)
  PROVE  Placed(at, srcW, srcH, t)
<1> DEFINE byWidth == t.w * srcH <= t.h * srcW
           num == IF byWidth THEN t.w ELSE t.h
           den == IF byWidth THEN srcW ELSE srcH
           W == t.w
           H == t.h
<1>1. PICK w0 \in Truncated(srcW * num, den), h0 \in Truncated(srcH * num, den) :
        at = [x |-> t.x + ((W - AtLeastOne(w0)) \div 2), y |-> t.y + ((H - AtLeastOne(h0)) \div 2),
              w |-> AtLeastOne(w0), h |-> AtLeastOne(h0)]
  BY DEF fitRect
<1> DEFINE w == AtLeastOne(w0)
           h == AtLeastOne(h0)
<1>2. /\ at.w = w /\ at.h = h
      /\ at.x = t.x + ((W - at.w) \div 2) /\ at.y = t.y + ((H - at.h) \div 2)
  BY <1>1
<1>3. W \in Nat \ {0} /\ H \in Nat \ {0}
  OBVIOUS
<1>4. /\ w \in 1 .. W /\ h \in 1 .. H /\ (w >= W - 1 \/ h >= H - 1)
      /\ w * srcH - h * srcW <= 2 * (srcW + srcH) /\ h * srcW - w * srcH <= 2 * (srcW + srcH)
  <2>1. CASE byWidth
    <3>1. num = W /\ den = srcW /\ W * srcH <= H * srcW
      BY <2>1
    <3>2. w0 \in Truncated(srcW * W, srcW) /\ h0 \in Truncated(srcH * W, srcW)
      BY <3>1
    <3> HIDE DEF W, H, byWidth, num, den
    <3>3. w \in 1 .. W /\ W - 1 <= w
      BY <1>3, <3>2, Fills
    <3>4. h \in 1 .. H /\ srcW * h <= srcH * W + srcW /\ srcH * W <= srcW * h + srcW
      BY <1>3, <3>1, <3>2, Follows
    <3> HIDE DEF w, h
    <3>5. h \in Nat \ {0}
      BY <1>3, <3>4
    <3>6. w * srcH - h * srcW <= 2 * (srcW + srcH) /\ h * srcW - w * srcH <= 2 * (srcW + srcH)
      BY <1>3, <3>3, <3>4, <3>5, Proportions
    <3>7. QED
      BY <1>3, <3>3, <3>4, <3>6
  <2>2. CASE ~ byWidth
    <3>1. num = H /\ den = srcH
      BY <2>2
    <3>1a. H * srcW <= W * srcH
      BY <1>3, <2>2
    <3>2. w0 \in Truncated(srcW * H, srcH) /\ h0 \in Truncated(srcH * H, srcH)
      BY <3>1
    <3> HIDE DEF W, H, byWidth, num, den
    <3>3. h \in 1 .. H /\ H - 1 <= h
      BY <1>3, <3>2, Fills
    <3>4. w \in 1 .. W /\ srcH * w <= srcW * H + srcH /\ srcW * H <= srcH * w + srcH
      BY <1>3, <3>1a, <3>2, Follows
    <3> HIDE DEF w, h
    <3>5. w \in Nat \ {0}
      BY <1>3, <3>4
    <3>6. h * srcW - w * srcH <= 2 * (srcH + srcW) /\ w * srcH - h * srcW <= 2 * (srcH + srcW)
      BY <1>3, <3>3, <3>4, <3>5, Proportions
    <3>6a. srcH + srcW = srcW + srcH
      OBVIOUS
    <3>7. QED
      BY <1>3, <3>3, <3>4, <3>6, <3>6a
  <2>3. QED
    BY <2>1, <2>2
<1> HIDE DEF w, h, W, H
<1>5. Near(at.w * srcH, at.h * srcW, 2 * (srcW + srcH))
  BY Zenon, <1>2, <1>4 DEF Near
<1>6. QED
  BY Zenon, <1>2, <1>4, <1>5 DEF Placed, W, H

-----------------------------------------------------------------------------
(* Bytes.                                                                  *)

\* A padded row keeps its bytes and has the length of the stride.
LEMMA PaddedIs ==
  ASSUME NEW bytes \in Seq(Nat), NEW stride \in Nat, Len(bytes) <= stride
  PROVE  /\ Padded(bytes, stride) \in Seq(Nat) /\ Len(Padded(bytes, stride)) = stride
         /\ \A k \in 1 .. Len(bytes) : Padded(bytes, stride)[k] = bytes[k]
<1> DEFINE m == stride - Len(bytes)
           z == [i \in 1 .. m |-> 0]
<1>1. Len(bytes) \in Nat /\ m \in Nat
  BY LenProperties
<1> HIDE DEF m
<1>2. z \in Seq(Nat) /\ Len(z) = m
  BY <1>1
<1> HIDE DEF z
<1>3. Padded(bytes, stride) = bytes \o z
  BY DEF Padded, z, m
<1>4. Len(bytes \o z) = Len(bytes) + m
  BY <1>2, Joined
<1>5. bytes \o z \in Seq(Nat) /\ \A k \in 1 .. Len(bytes) : (bytes \o z)[k] = bytes[k]
  BY <1>2, Joined
<1>6. Len(bytes) + m = stride
  BY <1>1 DEF m
<1>7. QED
  BY Zenon, <1>3, <1>4, <1>5, <1>6

-----------------------------------------------------------------------------
(* The two bitmaps.                                                        *)

Row24(pic, y) == FlattenSeq([x \in 1 .. Width(pic) |-> Reverse(pic.rows[y][x])])

BlueFirst(bytes, row, W) ==
  \A x \in 1 .. W : \A k \in 1 .. 3 : bytes[3 * (x - 1) + k] = row[x][4 - k]

\* A row of bytes holds the colours of its pixels, blue first.
LEMMA Row24Is ==
  ASSUME NEW pic, IsPage(pic), NEW y \in 1 .. Height(pic)
  PROVE  /\ Row24(pic, y) \in Seq(Nat) /\ Len(Row24(pic, y)) = 3 * Width(pic)
         /\ BlueFirst(Row24(pic, y), pic.rows[y], Width(pic))
<1> DEFINE W == Width(pic)
           row == pic.rows[y]
           ss == [x \in 1 .. W |-> Reverse(row[x])]
<1>1. W \in Nat \ {0} /\ row \in [1 .. W -> [1 .. 3 -> 0 .. 255]]
  BY SidesAre
<1>2. Row24(pic, y) = FlattenSeq(ss)
  BY DEF Row24
<1> HIDE DEF W, row
<1>3. ASSUME NEW x \in 1 .. W
      PROVE  /\ Reverse(row[x]) \in Seq(Nat) /\ Len(Reverse(row[x])) = 3
             /\ \A k \in 1 .. 3 : Reverse(row[x])[k] = row[x][4 - k]
  <2> DEFINE p == row[x]
  <2>1. p \in [1 .. 3 -> 0 .. 255]
    BY <1>1
  <2> HIDE DEF p
  <2>2. p \in Seq(Nat) /\ Len(p) = 3
    <3>1. p \in Seq(Nat) /\ DOMAIN p = 1 .. 3
      <4>1. p \in [1 .. 3 -> Nat] /\ 3 \in Nat
        BY <2>1
      <4>2. QED
        BY <4>1, SeqDef
    <3>2. QED
      BY <3>1, LenProperties
  <2>3. Reverse(p) = [i \in 1 .. 3 |-> p[(3 - i) + 1]]
    BY <2>2 DEF Reverse
  <2>4. \A i \in 1 .. 3 : (3 - i) + 1 = 4 - i /\ 4 - i \in 1 .. 3
    OBVIOUS
  <2>5. /\ Reverse(p) \in Seq(Nat) /\ Len(Reverse(p)) = 3
        /\ \A k \in 1 .. 3 : Reverse(p)[k] = p[4 - k]
    <3>1. \A i \in 1 .. 3 : p[4 - i] \in Nat
      BY <2>1, <2>4
    <3>2. QED
      BY <2>3, <2>4, <3>1
  <2>6. QED
    BY <2>5 DEF p
<1>4. ss \in [1 .. W -> Seq(Nat)] /\ \A x \in 1 .. W : ss[x] = Reverse(row[x]) /\ Len(ss[x]) = 3
  BY <1>3
<1> HIDE DEF ss
<1>5. FlattenSeq(ss) \in Seq(Nat) /\ Evenly(FlattenSeq(ss), ss, 3, W)
  BY <1>1, <1>4, EvenLayout
<1>6. Len(FlattenSeq(ss)) = 3 * W
      /\ \A x \in 1 .. W : \A k \in 1 .. 3 : FlattenSeq(ss)[3 * (x - 1) + k] = ss[x][k]
  BY <1>5 DEF Evenly
<1>7. ASSUME NEW x \in 1 .. W, NEW k \in 1 .. 3
      PROVE  FlattenSeq(ss)[3 * (x - 1) + k] = row[x][4 - k]
  <2>1. FlattenSeq(ss)[3 * (x - 1) + k] = ss[x][k]
    BY Zenon, <1>6
  <2>2. ss[x] = Reverse(row[x]) /\ Reverse(row[x])[k] = row[x][4 - k]
    BY Zenon, <1>3, <1>4
  <2>3. QED
    BY Zenon, <2>1, <2>2
<1>8. BlueFirst(FlattenSeq(ss), row, W)
  BY Zenon, <1>7 DEF BlueFirst
<1>9. QED
  BY Zenon, <1>2, <1>5, <1>6, <1>8 DEF W, row

\* Windows reads from the bitmap in colour the page it was made of.
LEMMA ReadsColours ==
  ASSUME NEW pic, IsPage(pic), NEW x \in 1 .. Width(pic), NEW y \in 1 .. Height(pic)
  PROVE  ReadDIB(buildBandDIB(pic), x, y) = pic.rows[y][x]
<1> DEFINE W == Width(pic)
           H == Height(pic)
           n == stride24(W)
           ss == [i \in 1 .. H |-> Padded(Row24(pic, H + 1 - i), n)]
           i == H + 1 - y
           bytes == ss[i]
           p == pic.rows[y][x]
<1>1. W \in Nat \ {0} /\ H \in Nat \ {0} /\ p \in [1 .. 3 -> 0 .. 255]
  BY SidesAre
<1>2. n \in Nat /\ 3 * W <= n
  BY <1>1 DEF stride24
<1>3. buildBandDIB(pic) = [bits |-> 24, width |-> W, height |-> H, data |-> FlattenSeq(ss)]
  BY DEF buildBandDIB, Row24
<1>4. ReadDIB(buildBandDIB(pic), x, y) =
        LET b == SubSeq(FlattenSeq(ss), (H - y) * n + 1, ((H - y) + 1) * n)
        IN  <<b[3 * x], b[3 * x - 1], b[3 * x - 2]>>
  <2> DEFINE dib == buildBandDIB(pic)
  <2>1. dib.bits = 24 /\ dib.width = W /\ dib.height = H /\ dib.data = FlattenSeq(ss)
    BY <1>3
  <2>2. ~ (dib.height < 0) /\ dib.bits # 1
    BY <1>1, <2>1
  <2> HIDE DEF dib, W, H, ss, n
  <2>3. ReadDIB(dib, x, y) =
          LET b == SubSeq(dib.data, (dib.height - y) * stride24(dib.width) + 1,
                          ((dib.height - y) + 1) * stride24(dib.width))
          IN  <<b[3 * x], b[3 * x - 1], b[3 * x - 2]>>
    BY <2>2 DEF ReadDIB
  <2>4. QED
    BY Zenon, <2>1, <2>3 DEF dib, n
<1> HIDE DEF W, n
<1>5. ASSUME NEW j \in 1 .. H
      PROVE  ss[j] \in Seq(Nat) /\ Len(ss[j]) = n
             /\ \A k \in 1 .. 3 * W : ss[j][k] = Row24(pic, H + 1 - j)[k]
  <2> DEFINE r == Row24(pic, H + 1 - j)
  <2>1. H + 1 - j \in 1 .. H /\ ss[j] = Padded(r, n)
    BY <1>1
  <2>2. r \in Seq(Nat) /\ Len(r) = 3 * W
    BY <2>1, Row24Is DEF W
  <2> HIDE DEF r, ss
  <2>3. Len(r) <= n
    BY <1>2, <2>2
  <2>4. Padded(r, n) \in Seq(Nat) /\ Len(Padded(r, n)) = n
        /\ \A k \in 1 .. Len(r) : Padded(r, n)[k] = r[k]
    BY <1>2, <2>2, <2>3, PaddedIs
  <2>5. QED
    BY Zenon, <2>1, <2>2, <2>4 DEF r
<1>6. ss \in [1 .. H -> Seq(Nat)] /\ \A j \in 1 .. H : Len(ss[j]) = n
  <2> DEFINE f(j) == Padded(Row24(pic, H + 1 - j), n)
  <2>1. ss = [j \in 1 .. H |-> f(j)] /\ \A j \in 1 .. H : ss[j] = f(j)
    OBVIOUS
  <2>2. \A j \in 1 .. H : f(j) \in Seq(Nat)
    BY Zenon, <1>5, <2>1
  <2> HIDE DEF f
  <2>3. ss \in [1 .. H -> Seq(Nat)]
    BY <2>1, <2>2
  <2>4. QED
    BY <1>5, <2>3
<1> HIDE DEF ss
<1>7. i \in 1 .. H /\ H - y = i - 1 /\ H + 1 - i = y
  BY <1>1
<1> HIDE DEF H, i
<1>8. SubSeq(FlattenSeq(ss), (i - 1) * n + 1, ((i - 1) + 1) * n) = bytes
  <2>1. /\ H \in Nat \ {0} /\ n \in Nat /\ i \in 1 .. H
        /\ ss \in [1 .. H -> Seq(Nat)] /\ \A j \in 1 .. H : Len(ss[j]) = n
    BY <1>1, <1>2, <1>6, <1>7
  <2> HIDE DEF p, bytes
  <2>1a. Parts(ss, Nat, n, H)
    BY Zenon, <2>1 DEF Parts
  <2>2. PartAt(FlattenSeq(ss), n, i) = ss[i]
    BY <2>1, <2>1a, EvenPart
  <2>3. QED
    BY Zenon, <2>2 DEF bytes, PartAt
<1>9. ReadDIB(buildBandDIB(pic), x, y) = <<bytes[3 * x], bytes[3 * x - 1], bytes[3 * x - 2]>>
  BY Zenon, <1>4, <1>7, <1>8
<1>10. \A k \in 1 .. 3 * W : bytes[k] = Row24(pic, y)[k]
  BY Zenon, <1>5, <1>7
<1> HIDE DEF bytes
<1>11. bytes[3 * x] = p[1] /\ bytes[3 * x - 1] = p[2] /\ bytes[3 * x - 2] = p[3]
  <2>1. \A k \in 1 .. 3 : 3 * (x - 1) + k \in 1 .. 3 * W
    BY <1>1 DEF W
  <2>2. \A k \in 1 .. 3 : Row24(pic, y)[3 * (x - 1) + k] = p[4 - k]
    <3>1. BlueFirst(Row24(pic, y), pic.rows[y], Width(pic))
      BY Row24Is
    <3>2. QED
      BY Zenon, <3>1 DEF p, BlueFirst
  <2>3. \A k \in 1 .. 3 : bytes[3 * (x - 1) + k] = p[4 - k]
    BY Zenon, <1>10, <2>1, <2>2
  <2> HIDE DEF p
  <2>4. bytes[3 * (x - 1) + 3] = p[4 - 3] /\ bytes[3 * (x - 1) + 2] = p[4 - 2]
        /\ bytes[3 * (x - 1) + 1] = p[4 - 1]
    <3>1. 1 \in 1 .. 3 /\ 2 \in 1 .. 3 /\ 3 \in 1 .. 3
      OBVIOUS
    <3>2. QED
      BY Zenon, <2>3, <3>1
  <2>5. /\ 3 * (x - 1) + 3 = 3 * x /\ 3 * (x - 1) + 2 = 3 * x - 1 /\ 3 * (x - 1) + 1 = 3 * x - 2
        /\ 4 - 3 = 1 /\ 4 - 2 = 2 /\ 4 - 1 = 3
    OBVIOUS
  <2>6. QED
    BY Zenon, <2>4, <2>5
<1> HIDE DEF p
<1>12. p = <<p[1], p[2], p[3]>>
  BY <1>1
<1>13. QED
  BY Zenon, <1>9, <1>11, <1>12 DEF p

\* The bit of pixel x in a packed row, 1 for black.
Bit(row, level, x) == IF x <= Len(row) /\ row[x] <= level THEN 1 ELSE 0

\* A packed row has RowBytes bytes, and its bits are the dark pixels and no others.
LEMMA PackRowIs ==
  ASSUME NEW row \in Seq(Nat), NEW level \in Int
  PROVE  /\ PackRow(row, level) \in Seq(Nat)
         /\ Len(PackRow(row, level)) = RowBytes(Len(row))
         /\ \A x \in 1 .. Len(row) : Dot(PackRow(row, level), x) <=> row[x] <= level
         /\ \A x \in Len(row) + 1 .. 8 * RowBytes(Len(row)) : ~ Dot(PackRow(row, level), x)
<1> DEFINE bit(x) == Bit(row, level, x)
           byte(x) == 128 * bit(x + 1) + 64 * bit(x + 2) + 32 * bit(x + 3) + 16 * bit(x + 4)
                      + 8 * bit(x + 5) + 4 * bit(x + 6) + 2 * bit(x + 7) + bit(x + 8)
           W == Len(row)
           N == RowBytes(W)
           bytes == [b \in 1 .. N |-> byte(8 * (b - 1))]
<1>1. W \in Nat /\ N \in Nat
  BY LenProperties DEF RowBytes
<1>2. PackRow(row, level) = bytes
  BY DEF PackRow, Bit
<1>3. \A x : bit(x) \in 0 .. 1
  BY DEF Bit
<1>4. \A x \in 1 .. 8 * N : bit(x) = 1 <=> x <= W /\ row[x] <= level
  BY <1>1 DEF Bit
<1> HIDE DEF bit, N, W
<1>5. ASSUME NEW x \in Nat
      PROVE  /\ byte(x) \in Nat
             /\ (byte(x) \div 128) % 2 = bit(x + 1) /\ (byte(x) \div 64) % 2 = bit(x + 2)
             /\ (byte(x) \div 32) % 2 = bit(x + 3) /\ (byte(x) \div 16) % 2 = bit(x + 4)
             /\ (byte(x) \div 8) % 2 = bit(x + 5) /\ (byte(x) \div 4) % 2 = bit(x + 6)
             /\ (byte(x) \div 2) % 2 = bit(x + 7) /\ (byte(x) \div 1) % 2 = bit(x + 8)
  <2> DEFINE n == byte(x)
  <2>1. n = 128 * bit(x + 1) + 64 * bit(x + 2) + 32 * bit(x + 3) + 16 * bit(x + 4)
            + 8 * bit(x + 5) + 4 * bit(x + 6) + 2 * bit(x + 7) + bit(x + 8)
    OBVIOUS
  <2> DEFINE b1 == bit(x + 1)
             b2 == bit(x + 2)
             b3 == bit(x + 3)
             b4 == bit(x + 4)
             b5 == bit(x + 5)
             b6 == bit(x + 6)
             b7 == bit(x + 7)
             b8 == bit(x + 8)
  <2>2. /\ b1 \in 0 .. 1 /\ b2 \in 0 .. 1 /\ b3 \in 0 .. 1 /\ b4 \in 0 .. 1
        /\ b5 \in 0 .. 1 /\ b6 \in 0 .. 1 /\ b7 \in 0 .. 1 /\ b8 \in 0 .. 1
        /\ n = 128 * b1 + 64 * b2 + 32 * b3 + 16 * b4 + 8 * b5 + 4 * b6 + 2 * b7 + b8
    BY <1>3, <2>1
  <2> HIDE DEF b1, b2, b3, b4, b5, b6, b7, b8, n
  <2>3. /\ n \in Nat
        /\ (n \div 128) % 2 = b1 /\ (n \div 64) % 2 = b2 /\ (n \div 32) % 2 = b3
        /\ (n \div 16) % 2 = b4 /\ (n \div 8) % 2 = b5 /\ (n \div 4) % 2 = b6
        /\ (n \div 2) % 2 = b7 /\ (n \div 1) % 2 = b8
    BY <2>2
  <2>4. QED
    BY <2>3 DEF b1, b2, b3, b4, b5, b6, b7, b8, n
<1> HIDE DEF byte
<1>6. bytes \in Seq(Nat) /\ Len(bytes) = N
  <2>1. \A b \in 1 .. N : 8 * (b - 1) \in Nat
    BY <1>1
  <2>2. \A b \in 1 .. N : byte(8 * (b - 1)) \in Nat
    BY Zenon, <1>5, <2>1
  <2>3. QED
    BY <1>1, <2>2
<1>7. ASSUME NEW x \in 1 .. 8 * N PROVE Dot(bytes, x) <=> x <= W /\ row[x] <= level
  <2> DEFINE q == (x - 1) \div 8
             r == (x - 1) % 8
             v == byte(8 * q)
  <2>1. q \in Nat /\ r \in 0 .. 7 /\ x = 8 * q + r + 1 /\ q + 1 \in 1 .. N
    BY <1>1
  <2>2. Dot(bytes, x) <=> (bytes[q + 1] \div Weights[r + 1]) % 2 = 1
    BY Zenon DEF Dot
  <2> HIDE DEF q, r
  <2>3. bytes[q + 1] = v
    BY <2>1
  <2>4. 8 * q \in Nat
    BY <2>1
  <2>5. (v \div Weights[r + 1]) % 2 = bit(8 * q + r + 1)
    <3> DEFINE y == 8 * q
    <3>1. /\ (v \div 128) % 2 = bit(y + 1) /\ (v \div 64) % 2 = bit(y + 2)
          /\ (v \div 32) % 2 = bit(y + 3) /\ (v \div 16) % 2 = bit(y + 4)
          /\ (v \div 8) % 2 = bit(y + 5) /\ (v \div 4) % 2 = bit(y + 6)
          /\ (v \div 2) % 2 = bit(y + 7) /\ (v \div 1) % 2 = bit(y + 8)
      BY <1>5, <2>4
    <3>2. y \in Nat /\ 8 * q = y
      BY <2>4
    <3> HIDE DEF v, y
    <3>3. CASE r = 0
      BY <3>1, <3>2, <3>3 DEF Weights
    <3>4. CASE r = 1
      BY <3>1, <3>2, <3>4 DEF Weights
    <3>5. CASE r = 2
      BY <3>1, <3>2, <3>5 DEF Weights
    <3>6. CASE r = 3
      BY <3>1, <3>2, <3>6 DEF Weights
    <3>7. CASE r = 4
      BY <3>1, <3>2, <3>7 DEF Weights
    <3>8. CASE r = 5
      BY <3>1, <3>2, <3>8 DEF Weights
    <3>9. CASE r = 6
      BY <3>1, <3>2, <3>9 DEF Weights
    <3>10. CASE r = 7
      BY <3>1, <3>2, <3>10 DEF Weights
    <3>11. r = 0 \/ r = 1 \/ r = 2 \/ r = 3 \/ r = 4 \/ r = 5 \/ r = 6 \/ r = 7
      BY <2>1
    <3>12. QED
      BY Zenon, <3>3, <3>4, <3>5, <3>6, <3>7, <3>8, <3>9, <3>10, <3>11
  <2> HIDE DEF v
  <2>6. Dot(bytes, x) <=> bit(x) = 1
    BY Zenon, <2>1, <2>2, <2>3, <2>5
  <2>7. QED
    BY <1>4, <2>6
<1>8. W <= 8 * N
  BY <1>1 DEF RowBytes, N
<1>9. \A x \in 1 .. W : Dot(bytes, x) <=> row[x] <= level
  <2> SUFFICES ASSUME NEW x \in 1 .. W PROVE Dot(bytes, x) <=> row[x] <= level
    OBVIOUS
  <2>1. x \in 1 .. 8 * N /\ x <= W
    BY <1>1, <1>8
  <2>2. QED
    BY Zenon, <1>7, <2>1
<1>10. \A x \in W + 1 .. 8 * N : ~ Dot(bytes, x)
  <2> SUFFICES ASSUME NEW x \in W + 1 .. 8 * N PROVE ~ Dot(bytes, x)
    OBVIOUS
  <2>1. x \in 1 .. 8 * N /\ ~ (x <= W)
    BY <1>1
  <2>2. QED
    BY Zenon, <1>7, <2>1
<1>11. QED
  BY Zenon, <1>2, <1>6, <1>9, <1>10 DEF N, W

IsGray(g, W, H) ==
  g.width = W /\ Len(g.rows) = H /\ g.rows \in [1 .. H -> [1 .. W -> 0 .. 255]]

\* The gray page of a page.
LEMMA GrayIs ==
  ASSUME NEW pic, IsPage(pic)
  PROVE  /\ IsGray(Gray(pic), Width(pic), Height(pic))
         /\ \A x \in 1 .. Width(pic), y \in 1 .. Height(pic) :
              Gray(pic).rows[y][x] = pic.rows[y][x][1]
<1> DEFINE W == Width(pic)
           H == Height(pic)
           row(y) == [x \in DOMAIN pic.rows[y] |-> pic.rows[y][x][1]]
           rows == [y \in DOMAIN pic.rows |-> row(y)]
<1>1. /\ H \in Nat \ {0} /\ DOMAIN pic.rows = 1 .. H
      /\ \A y \in 1 .. H : pic.rows[y] \in [1 .. W -> [1 .. 3 -> 0 .. 255]]
  BY SidesAre
<1>2. Gray(pic).width = W /\ Gray(pic).rows = rows
  BY DEF Gray, Width
<1> HIDE DEF W, H
<1>3. ASSUME NEW y \in 1 .. H
      PROVE  row(y) \in [1 .. W -> 0 .. 255] /\ \A x \in 1 .. W : row(y)[x] = pic.rows[y][x][1]
  <2> DEFINE r == pic.rows[y]
  <2>1. r \in [1 .. W -> [1 .. 3 -> 0 .. 255]]
    BY <1>1
  <2> HIDE DEF r
  <2>2. DOMAIN r = 1 .. W /\ \A x \in 1 .. W : r[x][1] \in 0 .. 255
    <3>1. DOMAIN r = 1 .. W /\ \A x \in 1 .. W : r[x] \in [1 .. 3 -> 0 .. 255]
      BY <2>1
    <3>2. ASSUME NEW p \in [1 .. 3 -> 0 .. 255] PROVE p[1] \in 0 .. 255
      OBVIOUS
    <3>3. QED
      BY Zenon, <3>1, <3>2
  <2>3. row(y) = [x \in 1 .. W |-> r[x][1]]
    BY <2>2 DEF r
  <2>4. row(y) \in [1 .. W -> 0 .. 255] /\ \A x \in 1 .. W : row(y)[x] = r[x][1]
    BY <2>2, <2>3
  <2>5. QED
    BY Zenon, <2>4 DEF r
<1> HIDE DEF row
<1>4. rows = [y \in 1 .. H |-> row(y)]
  BY <1>1
<1> HIDE DEF rows
<1>5. /\ rows \in [1 .. H -> [1 .. W -> 0 .. 255]] /\ DOMAIN rows = 1 .. H
      /\ \A y \in 1 .. H : rows[y] = row(y)
  BY <1>3, <1>4
<1>6. Len(rows) = H
  <2>1. rows \in Seq([1 .. W -> 0 .. 255])
    BY <1>1, <1>5, SeqDef
  <2>2. QED
    BY <1>1, <1>5, <2>1, LenProperties
<1>7. IsGray(Gray(pic), W, H)
  BY Zenon, <1>2, <1>5, <1>6 DEF IsGray
<1>8. ASSUME NEW x \in 1 .. W, NEW y \in 1 .. H PROVE Gray(pic).rows[y][x] = pic.rows[y][x][1]
  BY Zenon, <1>2, <1>3, <1>5
<1>9. QED
  BY Zenon, <1>7, <1>8 DEF W, H

\* Windows reads from the bitmap in black and white the dark pixels of a gray page.
LEMMA ReadsDots ==
  ASSUME NEW W \in Nat \ {0}, NEW H \in Nat \ {0}, NEW g, IsGray(g, W, H),
         NEW level \in Int, NEW x \in 1 .. W, NEW y \in 1 .. H
  PROVE  ReadDIB(packMono1bpp(pack(g, level)), x, y)
           = IF g.rows[y][x] <= level THEN Black ELSE White
<1> DEFINE mono == pack(g, level)
           m == RowBytes(W)
           n == stride1(W)
           row(i) == PackRow(g.rows[i], level)
           rows == [i \in 1 .. H |-> row(i)]
           pad(i) == Padded(row(i), n)
           ss == [i \in 1 .. H |-> pad(i)]
           dib == packMono1bpp(mono)
           bytes == ss[y]
<1>1. /\ g.width = W /\ DOMAIN g.rows = 1 .. H
      /\ \A i \in 1 .. H : g.rows[i] \in [1 .. W -> 0 .. 255]
  BY DEF IsGray
<1>2. m \in Nat /\ n \in Nat /\ m <= n
  BY DEF RowBytes, stride1
<1>3. mono.width = W /\ mono.rows = rows
  BY <1>1 DEF pack
<1>4. ASSUME NEW i \in 1 .. H
      PROVE  /\ row(i) \in Seq(Nat) /\ Len(row(i)) = m
             /\ \A k \in 1 .. W : Dot(row(i), k) <=> g.rows[i][k] <= level
  <2> DEFINE r == g.rows[i]
  <2>0. r \in [1 .. W -> 0 .. 255]
    BY <1>1
  <2> HIDE DEF r
  <2>1. r \in [1 .. W -> Nat]
    <3>1. \A k \in 1 .. W : r[k] \in 0 .. 255
      BY <2>0
    <3>2. \A k \in 1 .. W : r[k] \in Nat
      BY <3>1
    <3>3. r = [k \in 1 .. W |-> r[k]]
      BY Zenon, <2>0
    <3>4. QED
      BY Zenon, <3>2, <3>3
  <2>2. r \in Seq(Nat) /\ DOMAIN r = 1 .. W
    BY <2>1, SeqDef
  <2>3. Len(r) = W
    BY <2>2, LenProperties
  <2>4. /\ PackRow(r, level) \in Seq(Nat) /\ Len(PackRow(r, level)) = RowBytes(Len(r))
        /\ \A k \in 1 .. Len(r) : Dot(PackRow(r, level), k) <=> r[k] <= level
    BY <2>2, PackRowIs
  <2>5. QED
    BY Zenon, <2>3, <2>4 DEF r
<1> HIDE DEF mono, m, n, row, pad
<1>5. rows \in [1 .. H -> Seq(Nat)] /\ DOMAIN rows = 1 .. H
      /\ \A i \in 1 .. H : rows[i] = row(i)
  BY <1>4
<1> HIDE DEF rows
<1>6. Len(rows) = H
  <2>1. rows \in Seq(Seq(Nat))
    BY <1>5, SeqDef
  <2>2. QED
    BY <1>5, <2>1, LenProperties
<1>7. dib.bits = 1 /\ dib.width = W /\ dib.height = - H /\ dib.data = FlattenSeq(ss)
  <2>1. dib = [bits |-> 1, width |-> mono.width, height |-> - Len(mono.rows),
               data |-> FlattenSeq([i \in DOMAIN mono.rows |->
                                      Padded(mono.rows[i], stride1(mono.width))])]
    BY DEF packMono1bpp
  <2>2. [i \in DOMAIN mono.rows |-> Padded(mono.rows[i], stride1(mono.width))] = ss
    <3>1. [i \in 1 .. H |-> Padded(rows[i], n)] = ss
      BY <1>5 DEF pad
    <3>2. QED
      BY Zenon, <1>3, <1>5, <3>1 DEF n
  <2> HIDE DEF dib
  <2>3. /\ dib.bits = 1 /\ dib.width = mono.width /\ dib.height = - Len(mono.rows)
        /\ dib.data = FlattenSeq([i \in DOMAIN mono.rows |->
                                    Padded(mono.rows[i], stride1(mono.width))])
    BY <2>1
  <2> HIDE DEF ss
  <2>4. QED
    BY Zenon, <1>3, <1>6, <2>2, <2>3
<1> HIDE DEF dib
<1>8. ASSUME NEW i \in 1 .. H
      PROVE  pad(i) \in Seq(Nat) /\ Len(pad(i)) = n
             /\ \A k \in 1 .. m : pad(i)[k] = row(i)[k]
  <2>1. row(i) \in Seq(Nat) /\ Len(row(i)) = m
    BY <1>4
  <2> DEFINE r == row(i)
  <2> HIDE DEF r
  <2>2. r \in Seq(Nat) /\ Len(r) = m
    BY <2>1 DEF r
  <2>3. Len(r) <= n
    BY <1>2, <2>2
  <2>4. Padded(r, n) \in Seq(Nat) /\ Len(Padded(r, n)) = n
        /\ \A k \in 1 .. Len(r) : Padded(r, n)[k] = r[k]
    BY <1>2, <2>2, <2>3, PaddedIs
  <2>5. QED
    BY Zenon, <2>2, <2>4 DEF r, pad
<1>9. /\ ss \in [1 .. H -> Seq(Nat)] /\ \A i \in 1 .. H : ss[i] = pad(i) /\ Len(ss[i]) = n
  BY <1>8
<1> HIDE DEF ss
<1>10. SubSeq(FlattenSeq(ss), (y - 1) * n + 1, ((y - 1) + 1) * n) = ss[y]
  <2>1. ss \in [1 .. H -> Seq(Nat)] /\ \A i \in 1 .. H : Len(ss[i]) = n
    BY <1>9
  <2>2. n \in Nat
    BY <1>2
  <2> HIDE DEF bytes
  <2>2a. Parts(ss, Nat, n, H)
    BY Zenon, <2>1 DEF Parts
  <2>3. PartAt(FlattenSeq(ss), n, y) = ss[y]
    BY <2>2, <2>2a, EvenPart
  <2>4. QED
    BY Zenon, <2>3 DEF PartAt
<1>11. ReadDIB(dib, x, y) = IF Dot(bytes, x) THEN Black ELSE White
  <2>1. - H < 0
    OBVIOUS
  <2>2. dib.height < 0
    BY Zenon, <1>7, <2>1
  <2>3. ReadDIB(dib, x, y) =
          IF Dot(SubSeq(dib.data, (y - 1) * stride1(dib.width) + 1,
                        ((y - 1) + 1) * stride1(dib.width)), x) THEN Black ELSE White
    <3>1. dib.bits = 1
      BY <1>7
    <3>2. QED
      BY Zenon, <2>2, <3>1 DEF ReadDIB
  <2>4. QED
    BY Zenon, <1>7, <1>10, <2>3 DEF n
<1>12. Dot(bytes, x) <=> g.rows[y][x] <= level
  <2> DEFINE q == ((x - 1) \div 8) + 1
  <2>1. q \in 1 .. m
    BY DEF m, RowBytes
  <2> HIDE DEF q
  <2>2. bytes[q] = row(y)[q]
    BY Zenon, <1>8, <1>9, <2>1
  <2>3. Dot(bytes, x) <=> Dot(row(y), x)
    BY Zenon, <2>2 DEF Dot, q
  <2>4. QED
    BY Zenon, <1>4, <2>3
<1>13. QED
  BY Zenon, <1>11, <1>12 DEF dib, mono

-----------------------------------------------------------------------------
(* Sums over a picture.                                                    *)

\* The function by which Tally is defined, for n pixels.
IsTally(pixels, worth, sum, n) ==
  sum = [k \in 0 .. n |-> IF k = 0 THEN 0 ELSE sum[k - 1] + worth[pixels[k]]]

\* The function by which Tally is defined exists.
LEMMA TallyExists ==
  ASSUME NEW pixels, NEW worth, NEW n \in Nat
  PROVE  \E sum : IsTally(pixels, worth, sum, n)
<1> DEFINE T == {m \in Nat : \E sum : IsTally(pixels, worth, sum, m)}
           next(k, v) == v + worth[pixels[k]]
<1>1. 0 \in T
  <2>1. IsTally(pixels, worth, [k \in 0 .. 0 |-> 0], 0)
    BY DEF IsTally
  <2>2. QED
    BY <2>1
<1>2. ASSUME NEW m \in T PROVE m + 1 \in T
  <2>1. PICK g : IsTally(pixels, worth, g, m)
    OBVIOUS
  <2> DEFINE h == [k \in 0 .. m + 1 |-> IF k <= m THEN g[k] ELSE next(k, g[k - 1])]
  <2>2. \A k \in 0 .. m : g[k] = IF k = 0 THEN 0 ELSE next(k, g[k - 1])
    BY <2>1 DEF IsTally
  <2> HIDE DEF next
  <2>3. ASSUME NEW k \in 0 .. m + 1
        PROVE  h[k] = IF k = 0 THEN 0 ELSE next(k, h[k - 1])
    <3>1. CASE k = 0
      BY <2>2, <3>1
    <3>2. CASE k # 0
      <4>1. k - 1 \in 0 .. m + 1 /\ k - 1 <= m
        BY <3>2
      <4>2. h[k - 1] = g[k - 1]
        BY <4>1
      <4>3. h[k] = next(k, g[k - 1])
        <5>1. CASE k <= m
          <6>1. k \in 0 .. m /\ h[k] = g[k]
            BY <5>1
          <6>2. QED
            BY <2>2, <3>2, <6>1
        <5>2. CASE ~ (k <= m)
          BY <5>2
        <5>3. QED
          BY <5>1, <5>2
      <4> HIDE DEF h
      <4>4. QED
        BY <3>2, <4>2, <4>3
    <3>3. QED
      BY <3>1, <3>2
  <2>4. IsTally(pixels, worth, h, m + 1)
    <3>1. h = [k \in 0 .. m + 1 |-> h[k]]
      OBVIOUS
    <3> HIDE DEF h
    <3>2. QED
      BY <2>3, <3>1 DEF IsTally, next
  <2>5. QED
    BY <2>4
<1>3. T = Nat
  <2>1. T \in SUBSET Nat
    OBVIOUS
  <2> HIDE DEF T
  <2>2. QED
    BY <1>1, <1>2, <2>1, EveryNatural
<1>4. QED
  BY <1>3

\* Its steps.
IsTallyOf(pixels, worth, sum) ==
  /\ Tally(pixels, worth) = sum[Len(pixels)] /\ sum[0] = 0
  /\ \A k \in 1 .. Len(pixels) : sum[k] = sum[k - 1] + worth[pixels[k]]

\* The sum grows by one pixel at a time.
LEMMA TallySteps ==
  ASSUME NEW pixels, NEW worth, Len(pixels) \in Nat
  PROVE  \E sum : IsTallyOf(pixels, worth, sum)
<1> DEFINE n == Len(pixels)
           sum == CHOOSE f : f = [k \in 0 .. n |-> IF k = 0 THEN 0 ELSE f[k - 1] + worth[pixels[k]]]
<1>1. Tally(pixels, worth) = sum[n]
  BY DEF Tally
<1>2. \E f : IsTally(pixels, worth, f, n)
  <2> HIDE DEF n, sum
  <2>1. n \in Nat
    BY DEF n
  <2>2. QED
    BY <2>1, TallyExists
<1>3. IsTally(pixels, worth, sum, n)
  BY <1>2 DEF IsTally
<1> HIDE DEF sum, n
<1>4. \A k \in 0 .. n : sum[k] = IF k = 0 THEN 0 ELSE sum[k - 1] + worth[pixels[k]]
  BY <1>3 DEF IsTally
<1>5. n \in Nat
  BY DEF n
<1>6. sum[0] = 0 /\ \A k \in 1 .. n : sum[k] = sum[k - 1] + worth[pixels[k]]
  BY <1>4, <1>5
<1>7. IsTallyOf(pixels, worth, sum)
  BY Zenon, <1>1, <1>6 DEF n, IsTallyOf
<1>8. QED
  BY <1>7

\* What is worth nothing adds nothing: a sum of naturals is one, and not 0 where a
\* pixel is worth something.
LEMMA TallyIsNat ==
  ASSUME NEW V, NEW pixels \in Seq(V), NEW worth \in [V -> Nat]
  PROVE  /\ Tally(pixels, worth) \in Nat
         /\ \A i \in 1 .. Len(pixels) : worth[pixels[i]] # 0 => Tally(pixels, worth) # 0
<1> DEFINE n == Len(pixels)
<1>1. n \in Nat /\ \A k \in 1 .. n : worth[pixels[k]] \in Nat
  BY LenProperties, ElementOfSeq
<1>2. PICK sum : IsTallyOf(pixels, worth, sum)
  BY <1>1, TallySteps
<1>3. /\ Tally(pixels, worth) = sum[n] /\ sum[0] = 0
      /\ \A k \in 1 .. n : sum[k] = sum[k - 1] + worth[pixels[k]]
  BY <1>2 DEF IsTallyOf
<1> DEFINE T == {m \in Nat : m <= n =>
                   /\ sum[m] \in Nat
                   /\ \A i \in 1 .. m : worth[pixels[i]] # 0 => sum[m] # 0}
<1> HIDE DEF n
<1>4. 0 \in T
  BY <1>3
<1>5. ASSUME NEW m \in T PROVE m + 1 \in T
  <2> SUFFICES ASSUME m + 1 <= n
               PROVE  /\ sum[m + 1] \in Nat
                      /\ \A i \in 1 .. m + 1 : worth[pixels[i]] # 0 => sum[m + 1] # 0
    OBVIOUS
  <2> DEFINE a == sum[m]
             b == sum[m + 1]
             w == worth[pixels[m + 1]]
  <2>1. m \in Nat /\ m + 1 \in 1 .. n
    BY <1>1
  <2>2. a \in Nat /\ \A i \in 1 .. m : worth[pixels[i]] # 0 => a # 0
    BY <1>1, <2>1
  <2>3. b = a + w /\ w \in Nat
    <3>1. b = sum[(m + 1) - 1] + w
      BY <1>3, <2>1
    <3>2. (m + 1) - 1 = m
      BY <2>1
    <3>3. QED
      BY <1>1, <2>1, <3>1, <3>2
  <2> HIDE DEF a, b
  <2>4. ASSUME NEW i \in 1 .. m + 1, worth[pixels[i]] # 0 PROVE b # 0
    <3>1. CASE i = m + 1
      <4>1. w # 0
        BY <2>4, <3>1
      <4> HIDE DEF w
      <4>2. QED
        BY <2>2, <2>3, <4>1
    <3>2. CASE i # m + 1
      <4>1. i \in 1 .. m
        BY <2>1, <3>2
      <4>2. a # 0
        BY <2>2, <2>4, <4>1
      <4> HIDE DEF w
      <4>3. QED
        BY <2>2, <2>3, <4>2
    <3>3. QED
      BY <3>1, <3>2
  <2>5. b \in Nat
    <3> HIDE DEF w
    <3>1. QED
      BY <2>2, <2>3
  <2>6. QED
    BY Zenon, <2>4, <2>5 DEF b
<1>6. T = Nat
  <2>1. T \in SUBSET Nat
    OBVIOUS
  <2> HIDE DEF T
  <2>2. QED
    BY <1>4, <1>5, <2>1, EveryNatural
<1>7. sum[n] \in Nat /\ \A i \in 1 .. n : worth[pixels[i]] # 0 => sum[n] # 0
  BY <1>1, <1>6
<1>8. QED
  BY Zenon, <1>3, <1>7 DEF n

\* Measure h of a gray value is the sum of f and g.
IsSumOf(V, h, f, g) == \A v \in V : h[v] = f[v] + g[v]

\* The sum of what two measures make of a picture is what their sum makes of it.
LEMMA TallyAdds ==
  ASSUME NEW V, NEW pixels \in Seq(V), NEW f \in [V -> Nat], NEW g \in [V -> Nat],
         NEW h \in [V -> Nat], IsSumOf(V, h, f, g)
  PROVE  Tally(pixels, h) = Tally(pixels, f) + Tally(pixels, g)
<1> DEFINE n == Len(pixels)
<1>1. n \in Nat /\ \A k \in 1 .. n : pixels[k] \in V
  BY LenProperties, ElementOfSeq
<1>2. PICK a : IsTallyOf(pixels, f, a)
  BY <1>1, TallySteps
<1>3. PICK b : IsTallyOf(pixels, g, b)
  BY <1>1, TallySteps
<1>4. PICK c : IsTallyOf(pixels, h, c)
  BY <1>1, TallySteps
<1> DEFINE T == {m \in Nat : m <= n => a[m] \in Nat /\ b[m] \in Nat /\ c[m] = a[m] + b[m]}
<1>5. /\ Tally(pixels, f) = a[n] /\ Tally(pixels, g) = b[n] /\ Tally(pixels, h) = c[n]
      /\ a[0] = 0 /\ b[0] = 0 /\ c[0] = 0
  BY <1>2, <1>3, <1>4 DEF IsTallyOf
<1>6. /\ \A k \in 1 .. n : a[k] = a[k - 1] + f[pixels[k]]
      /\ \A k \in 1 .. n : b[k] = b[k - 1] + g[pixels[k]]
      /\ \A k \in 1 .. n : c[k] = c[k - 1] + h[pixels[k]]
  BY Zenon, <1>2, <1>3, <1>4 DEF IsTallyOf, n
<1> HIDE DEF n
<1>7. 0 \in T
  BY <1>5
<1>8. ASSUME NEW m \in T PROVE m + 1 \in T
  <2> SUFFICES ASSUME m + 1 <= n
               PROVE  a[m + 1] \in Nat /\ b[m + 1] \in Nat /\ c[m + 1] = a[m + 1] + b[m + 1]
    OBVIOUS
  <2> DEFINE v == pixels[m + 1]
             x == f[v]
             y == g[v]
             z == h[v]
             k == m + 1
  <2>1. m \in Nat /\ k \in 1 .. n /\ k - 1 = m
    BY <1>1
  <2>2. v \in V
    BY <1>1, <2>1
  <2>3. x \in Nat /\ y \in Nat /\ z = x + y
    BY <2>2 DEF IsSumOf
  <2> HIDE DEF v, x, y, z
  <2>4. a[m] \in Nat /\ b[m] \in Nat /\ c[m] = a[m] + b[m]
    BY <1>1, <2>1
  <2> HIDE DEF k
  <2>5. a[k] = a[m] + x /\ b[k] = b[m] + y /\ c[k] = c[m] + z
    <3>1. a[k] = a[k - 1] + f[pixels[k]] /\ b[k] = b[k - 1] + g[pixels[k]]
          /\ c[k] = c[k - 1] + h[pixels[k]]
      BY <1>6, <2>1
    <3>2. f[pixels[k]] = x /\ g[pixels[k]] = y /\ h[pixels[k]] = z
      BY Zenon DEF x, y, z, v, k
    <3>3. QED
      BY Zenon, <2>1, <3>1, <3>2
  <2> DEFINE p == a[m]
             q == b[m]
             r == c[m]
  <2> HIDE DEF p, q, r
  <2>6. p \in Nat /\ q \in Nat /\ r = p + q /\ a[k] = p + x /\ b[k] = q + y /\ c[k] = r + z
    BY Zenon, <2>4, <2>5 DEF p, q, r
  <2>7. a[k] \in Nat /\ b[k] \in Nat /\ c[k] = a[k] + b[k]
    BY <2>3, <2>6
  <2>8. QED
    BY Zenon, <2>7 DEF k
<1>9. T = Nat
  <2>1. T \in SUBSET Nat
    OBVIOUS
  <2> HIDE DEF T
  <2>2. QED
    BY <1>7, <1>8, <2>1, EveryNatural
<1>10. c[n] = a[n] + b[n]
  BY <1>1, <1>9
<1>11. QED
  BY Zenon, <1>5, <1>10

-----------------------------------------------------------------------------
(* The split of Otsu.                                                      *)

\* The variance between two classes and the spread within them add up to the same for
\* every way to split a picture.
LEMMA VarianceIs ==
  ASSUME NEW d \in Int, NEW l \in Int, NEW s \in Int, NEW t \in Int, NEW q \in Int, NEW r \in Int
  PROVE  (s * l - t * d) * (s * l - t * d) + (d + l) * ((q * d - s * s) * l + (r * l - t * t) * d)
           = (d * l) * ((d + l) * (q + r) - (s + t) * (s + t))
OBVIOUS

\* So where one is larger, the other is smaller.
LEMMA RankIs ==
  ASSUME NEW n \in Nat \ {0}, NEW k \in Int, NEW b \in Int, NEW c \in Int, NEW x \in Int,
         NEW y \in Int, NEW d \in Nat \ {0}, NEW e \in Nat \ {0},
         b + n * x = d * k, c + n * y = e * k
  PROVE  b * e >= c * d <=> y * d >= x * e
<1> DEFINE p == y * d - x * e
<1>1. b * e - c * d = n * p
  <2>1. b = d * k - n * x /\ c = e * k - n * y
    OBVIOUS
  <2>2. b * e - c * d = (d * k - n * x) * e - (e * k - n * y) * d
    BY <2>1
  <2>3. (d * k - n * x) * e - (e * k - n * y) * d = n * (y * d - x * e)
    OBVIOUS
  <2>4. QED
    BY <2>2, <2>3
<1>2. p \in Int /\ b * e \in Int /\ c * d \in Int /\ y * d \in Int /\ x * e \in Int
  OBVIOUS
<1>3. b * e >= c * d <=> n * p >= 0
  <2> DEFINE u == b * e
             v == c * d
             w == n * p
  <2>1. u \in Int /\ v \in Int /\ u - v = w
    BY <1>1
  <2> HIDE DEF u, v, w
  <2>2. u >= v <=> w >= 0
    BY <2>1
  <2>3. QED
    BY <2>2 DEF u, v, w
<1>4. y * d >= x * e <=> p >= 0
  <2> DEFINE u == y * d
             v == x * e
  <2>1. u \in Int /\ v \in Int /\ p = u - v
    OBVIOUS
  <2> HIDE DEF u, v, p
  <2>2. u >= v <=> p >= 0
    BY <2>1
  <2>3. QED
    BY <2>2 DEF u, v
<1> HIDE DEF p
<1>5. n * p >= 0 <=> p >= 0
  BY <1>2
<1>6. QED
  BY Zenon, <1>3, <1>4, <1>5

\* The gray values.
Scale == 0 .. 255

\* A measure of the gray values of a part of the scale, 0 for the others.
Worth(worth, part) == [v \in Scale |-> IF v \in part THEN worth[v] ELSE 0]

\* A gray value is on one side of a split.
LEMMA OnOneSide ==
  ASSUME NEW i \in 0 .. 255, NEW v \in 0 .. 255
  PROVE  v \in Dark(i) <=> v \notin Light(i)
BY DEF Light, Dark

\* The two sides of a split have between them what the picture has.
LEMMA SidesAdd ==
  ASSUME NEW pixels \in Seq(Scale), NEW worth \in [Scale -> Nat], NEW i \in Scale
  PROVE  /\ Tally(pixels, Worth(worth, Dark(i))) \in Nat
         /\ Tally(pixels, Worth(worth, Light(i))) \in Nat
         /\ Tally(pixels, worth)
              = Tally(pixels, Worth(worth, Dark(i))) + Tally(pixels, Worth(worth, Light(i)))
<1> DEFINE f == Worth(worth, Dark(i))
           g == Worth(worth, Light(i))
<1>1. f \in [Scale -> Nat] /\ g \in [Scale -> Nat]
  BY DEF Worth
<1>2. ASSUME NEW v \in Scale PROVE worth[v] = f[v] + g[v]
  <2>1. worth[v] \in Nat
    OBVIOUS
  <2>2. /\ f[v] = (IF v \in Dark(i) THEN worth[v] ELSE 0)
        /\ g[v] = (IF v \in Light(i) THEN worth[v] ELSE 0)
    BY DEF Worth
  <2>3. v \in Dark(i) <=> v \notin Light(i)
    BY OnOneSide DEF Scale
  <2> DEFINE w == worth[v]
             a == f[v]
             b == g[v]
  <2> HIDE DEF f, g, w, a, b
  <2>4. CASE v \in Dark(i)
    <3>1. a = w /\ b = 0 /\ w \in Nat
      BY Zenon, <2>1, <2>2, <2>3, <2>4 DEF w, a, b
    <3>2. w = a + b
      BY <3>1
    <3>3. QED
      BY Zenon, <3>2 DEF w, a, b
  <2>5. CASE v \notin Dark(i)
    <3>1. a = 0 /\ b = w /\ w \in Nat
      BY Zenon, <2>1, <2>2, <2>3, <2>5 DEF w, a, b
    <3>2. w = a + b
      BY <3>1
    <3>3. QED
      BY Zenon, <3>2 DEF w, a, b
  <2>6. QED
    BY <2>4, <2>5
<1>3. IsSumOf(Scale, worth, f, g)
  BY Zenon, <1>2 DEF IsSumOf
<1> HIDE DEF f, g
<1>4. Tally(pixels, f) \in Nat
  BY <1>1, TallyIsNat
<1>5. Tally(pixels, g) \in Nat
  BY <1>1, TallyIsNat
<1>6. Tally(pixels, worth) = Tally(pixels, f) + Tally(pixels, g)
  <2>1. \A p \in Seq(Scale) : \A x, y, z \in [Scale -> Nat] :
          IsSumOf(Scale, z, x, y) => Tally(p, z) = Tally(p, x) + Tally(p, y)
    BY TallyAdds
  <2>2. QED
    BY <1>1, <1>3, <2>1
<1>7. QED
  BY Zenon, <1>4, <1>5, <1>6 DEF f, g

\* There are pixels on a side with a gray value of the picture.
LEMMA SideHasPixels ==
  ASSUME NEW pixels \in Seq(Scale), NEW part, NEW v \in Range(pixels), v \in part
  PROVE  Weight(pixels, part) \in Nat \ {0}
<1> DEFINE w == [u \in Scale |-> IF u \in part THEN 1 ELSE 0]
<1>1. w \in [Scale -> Nat]
  OBVIOUS
<1>2. PICK i \in 1 .. Len(pixels) : pixels[i] = v
  <2>1. DOMAIN pixels = 1 .. Len(pixels)
    BY LenProperties
  <2>2. QED
    BY <2>1 DEF Range
<1>3. v \in Scale
  BY <1>2, ElementOfSeq
<1>4. w[v] # 0
  BY <1>3
<1>5. Weight(pixels, part) = Tally(pixels, w)
  BY Zenon DEF Weight, Scale
<1> HIDE DEF w
<1>6. Tally(pixels, w) \in Nat /\ (w[pixels[i]] # 0 => Tally(pixels, w) # 0)
  BY <1>1, TallyIsNat
<1>7. QED
  BY <1>2, <1>4, <1>5, <1>6

\* What is compared of a split, by the number of pixels, their sum and that of their
\* squares on the dark side (d, s, q) and the light side (l, t, r).
Measures(pixels, i, d, l, s, t, q, r) ==
  /\ Between(pixels, i) = [num |-> (s * l - t * d) * (s * l - t * d), den |-> d * l]
  /\ Spread(pixels, i) = [num |-> (q * d - s * s) * l + (r * l - t * t) * d, den |-> d * l]

\* Both sides have pixels, and they make up the picture.
Sums(d, l, s, t, q, r, n, sum, squares) ==
  /\ d \in Nat \ {0} /\ l \in Nat \ {0} /\ s \in Nat /\ t \in Nat /\ q \in Nat /\ r \in Nat
  /\ d + l = n /\ s + t = sum /\ q + r = squares

\* The number of pixels, their sum and that of their squares.
PixelCount(pixels) == Tally(pixels, [v \in Scale |-> 1])
PixelSum(pixels) == Tally(pixels, [v \in Scale |-> v])
PixelSquares(pixels) == Tally(pixels, [v \in Scale |-> v * v])

\* What is measured of a split, by the number of pixels, the sum and the sum of squares
\* of its sides, which add up to those of the picture.
LEMMA SplitIs ==
  ASSUME NEW pixels \in Seq(Scale), NEW i \in Splits(pixels)
  PROVE  \E d, l, s, t, q, r :
           /\ Measures(pixels, i, d, l, s, t, q, r)
           /\ Sums(d, l, s, t, q, r, PixelCount(pixels), PixelSum(pixels), PixelSquares(pixels))
<1> DEFINE one == [v \in Scale |-> 1]
           id  == [v \in Scale |-> v]
           sq  == [v \in Scale |-> v * v]
           A == Dark(i)
           B == Light(i)
           d == Weight(pixels, A)
           l == Weight(pixels, B)
           s == Total(pixels, A)
           t == Total(pixels, B)
           q == Tally(pixels, [v \in Scale |-> IF v \in A THEN v * v ELSE 0])
           r == Tally(pixels, [v \in Scale |-> IF v \in B THEN v * v ELSE 0])
<1>1. one \in [Scale -> Nat] /\ id \in [Scale -> Nat] /\ sq \in [Scale -> Nat]
  BY DEF Scale
<1>2. i \in Scale /\ i \in Range(pixels) /\ i \in A
      /\ \E w \in Range(pixels) : w \in B
  <2>1. Range(pixels) \in SUBSET Scale
    BY RangeOfSeq
  <2>2. PICK w \in Range(pixels) : w > i
    BY DEF Splits
  <2>3. i \in Range(pixels)
    BY DEF Splits
  <2>4. i \in A /\ w \in B
    <3>1. i \in 0 .. 255 /\ w \in 0 .. 255 /\ w > i
      BY <2>1, <2>2, <2>3 DEF Scale
    <3>2. i \in 0 .. i /\ w \in i + 1 .. 255
      BY <3>1
    <3>3. QED
      BY <3>2 DEF Dark, Light
  <2>5. QED
    BY <2>1, <2>2, <2>3, <2>4
<1>3. d \in Nat \ {0} /\ l \in Nat \ {0}
  BY Zenon, <1>2, SideHasPixels
<1>4. ASSUME NEW part
      PROVE  /\ Weight(pixels, part) = Tally(pixels, Worth(one, part))
             /\ Total(pixels, part) = Tally(pixels, Worth(id, part))
             /\ Tally(pixels, [v \in Scale |-> IF v \in part THEN v * v ELSE 0])
                  = Tally(pixels, Worth(sq, part))
  <2>1. /\ Worth(one, part) = [v \in Scale |-> IF v \in part THEN 1 ELSE 0]
        /\ Worth(id, part) = [v \in Scale |-> IF v \in part THEN v ELSE 0]
        /\ Worth(sq, part) = [v \in Scale |-> IF v \in part THEN v * v ELSE 0]
    BY DEF Worth
  <2>2. QED
    BY Zenon, <2>1 DEF Weight, Total, Scale
<1> HIDE DEF one, id, sq
<1>5. d + l = Tally(pixels, one)
  BY Zenon, <1>1, <1>2, <1>4, SidesAdd
<1>6. s \in Nat /\ t \in Nat /\ s + t = Tally(pixels, id)
  <2>1. /\ Tally(pixels, Worth(id, A)) \in Nat /\ Tally(pixels, Worth(id, B)) \in Nat
        /\ Tally(pixels, id) = Tally(pixels, Worth(id, A)) + Tally(pixels, Worth(id, B))
    BY <1>1, <1>2, SidesAdd
  <2>2. s = Tally(pixels, Worth(id, A)) /\ t = Tally(pixels, Worth(id, B))
    BY Zenon, <1>4
  <2>3. QED
    BY Zenon, <2>1, <2>2
<1>7. q \in Nat /\ r \in Nat /\ q + r = Tally(pixels, sq)
  <2>1. /\ Tally(pixels, Worth(sq, A)) \in Nat /\ Tally(pixels, Worth(sq, B)) \in Nat
        /\ Tally(pixels, sq) = Tally(pixels, Worth(sq, A)) + Tally(pixels, Worth(sq, B))
    BY <1>1, <1>2, SidesAdd
  <2>2. q = Tally(pixels, Worth(sq, A)) /\ r = Tally(pixels, Worth(sq, B))
    BY Zenon, <1>4
  <2>3. QED
    BY Zenon, <2>1, <2>2
<1>8. Sums(d, l, s, t, q, r, PixelCount(pixels), PixelSum(pixels), PixelSquares(pixels))
  BY Zenon, <1>3, <1>5, <1>6, <1>7 DEF Sums, PixelCount, PixelSum, PixelSquares, one, id, sq
<1>9. Measures(pixels, i, d, l, s, t, q, r)
  BY Zenon DEF Measures, Between, Spread, Around, Scale
<1>10. QED
  BY Zenon, <1>8, <1>9

\* A split separates the classes at least as far as another if and only if it leaves
\* them at most as far spread.
LEMMA SplitsAgree ==
  ASSUME NEW pixels \in Seq(Scale), NEW v \in Splits(pixels), NEW w \in Splits(pixels)
  PROVE  AtLeast(Between(pixels, v), Between(pixels, w))
           <=> AtLeast(Spread(pixels, w), Spread(pixels, v))
<1> DEFINE n == PixelCount(pixels)
           sum == PixelSum(pixels)
           squares == PixelSquares(pixels)
           k == n * squares - sum * sum
<1>1. PICK d, l, s, t, q, r : /\ Measures(pixels, v, d, l, s, t, q, r)
                              /\ Sums(d, l, s, t, q, r, n, sum, squares)
  BY Zenon, SplitIs
<1>2. PICK e, m, x, y, z, u : /\ Measures(pixels, w, e, m, x, y, z, u)
                              /\ Sums(e, m, x, y, z, u, n, sum, squares)
  BY Zenon, SplitIs
<1> DEFINE b == (s * l - t * d) * (s * l - t * d)
           c == (x * m - y * e) * (x * m - y * e)
           f == (q * d - s * s) * l + (r * l - t * t) * d
           g == (z * e - x * x) * m + (u * m - y * y) * e
           dl == d * l
           em == e * m
<1>3. /\ d \in Nat \ {0} /\ l \in Nat \ {0} /\ s \in Nat /\ t \in Nat /\ q \in Nat /\ r \in Nat
      /\ d + l = n /\ s + t = sum /\ q + r = squares
      /\ e \in Nat \ {0} /\ m \in Nat \ {0} /\ x \in Nat /\ y \in Nat /\ z \in Nat /\ u \in Nat
      /\ e + m = n /\ x + y = sum /\ z + u = squares
  BY <1>1, <1>2 DEF Sums
<1> HIDE DEF n, sum, squares
<1>4. /\ b \in Int /\ c \in Int /\ f \in Int /\ g \in Int /\ dl \in Nat \ {0} /\ em \in Nat \ {0}
      /\ k \in Int /\ n \in Nat \ {0}
  <2>1. /\ n \in Nat \ {0} /\ sum \in Int /\ squares \in Int
        /\ d \in Int /\ l \in Int /\ s \in Int /\ t \in Int /\ q \in Int /\ r \in Int
        /\ e \in Int /\ m \in Int /\ x \in Int /\ y \in Int /\ z \in Int /\ u \in Int
    BY <1>3
  <2>2. b \in Int /\ f \in Int
    BY <2>1
  <2>3. c \in Int /\ g \in Int
    BY <2>1
  <2>4. k \in Int
    BY <2>1
  <2>5. dl \in Nat \ {0}
    BY <1>3
  <2>6. em \in Nat \ {0}
    BY <1>3
  <2>7. QED
    BY Zenon, <2>1, <2>2, <2>3, <2>4, <2>5, <2>6
<1>5. b + n * f = dl * k
  <2>1. b + (d + l) * f = dl * ((d + l) * (q + r) - (s + t) * (s + t))
    BY <1>3, VarianceIs
  <2>2. QED
    BY Zenon, <1>3, <2>1
<1>6. c + n * g = em * k
  <2>1. c + (e + m) * g = em * ((e + m) * (z + u) - (x + y) * (x + y))
    BY <1>3, VarianceIs
  <2>2. QED
    BY Zenon, <1>3, <2>1
<1>7. /\ Between(pixels, v) = [num |-> b, den |-> dl] /\ Spread(pixels, v) = [num |-> f, den |-> dl]
      /\ Between(pixels, w) = [num |-> c, den |-> em] /\ Spread(pixels, w) = [num |-> g, den |-> em]
  BY Zenon, <1>1, <1>2 DEF Measures
<1> HIDE DEF b, c, f, g, dl, em, k
<1>8. b * em >= c * dl <=> g * dl >= f * em
  BY <1>4, <1>5, <1>6, RankIs
<1>9. QED
  BY <1>7, <1>8 DEF AtLeast

-----------------------------------------------------------------------------
(* The threshold.                                                          *)

\* The pixels of a picture are gray values, those of its rows.
LEMMA PixelsAre ==
  ASSUME NEW W \in Nat, NEW pic, pic.rows \in Seq([1 .. W -> Scale])
  PROVE  /\ Pixels(pic) \in Seq(Scale)
         /\ \A y \in DOMAIN pic.rows : \A x \in 1 .. W :
              pic.rows[y][x] \in Range(Pixels(pic)) /\ pic.rows[y][x] \in Scale
<1> DEFINE rows == pic.rows
           A == [1 .. W -> Scale]
           pixels == Pixels(pic)
<1>1. A \in SUBSET Seq(Scale)
  BY SeqDef
<1>2. rows \in Seq(A)
  OBVIOUS
<1>3. pixels = FlattenSeq(rows)
  BY DEF Pixels
<1> HIDE DEF A, rows, pixels
<1>4. rows \in Seq(Seq(Scale))
  BY <1>1, <1>2, SeqMonotonic
<1>5. pixels \in Seq(Scale) /\ \A i \in DOMAIN rows : \A v \in ToSet(rows[i]) : v \in ToSet(pixels)
  <2>1. /\ FlattenSeq(rows) \in Seq(Scale)
        /\ \A x : x \in ToSet(FlattenSeq(rows)) <=> \E i \in DOMAIN rows : x \in ToSet(rows[i])
    BY <1>4, FlattenIs
  <2>2. QED
    BY Zenon, <1>3, <2>1
<1>6. ToSet(pixels) = Range(pixels)
  BY DEF ToSet, Range
<1>7. ASSUME NEW y \in DOMAIN rows, NEW x \in 1 .. W
      PROVE  rows[y][x] \in Range(pixels) /\ rows[y][x] \in Scale
  <2>1. rows[y] \in A
    BY <1>2, LenProperties, ElementOfSeq
  <2>2. rows[y][x] \in Scale /\ DOMAIN rows[y] = 1 .. W
    BY <2>1 DEF A
  <2>3. rows[y][x] \in ToSet(rows[y])
    BY <2>2 DEF ToSet
  <2>4. QED
    BY <1>5, <1>6, <2>2, <2>3
<1>8. QED
  BY Zenon, <1>5, <1>7 DEF rows, pixels

\* The splits Otsu looks for.
Best(pixels) ==
  {v \in Splits(pixels) : \A w \in Splits(pixels) : AtLeast(Between(pixels, v), Between(pixels, w))}

\* A threshold is no darker than the first of some of the best splits, and lighter than
\* the last of them only as far as no other pixel turns dark.
PlacedBy(t, pixels, top) ==
  /\ top \in SUBSET Best(pixels)
  /\ \E a, b \in top, c \in Range(pixels) :
       /\ \A x \in top : a <= x /\ x <= b
       /\ a <= t /\ t < c /\ b < c /\ \A w \in Range(pixels) : w <= b \/ w >= c

\* Where Otsu puts the threshold.
LEMMA ThresholdPlace ==
  ASSUME NEW pixels \in Seq(Scale), NEW t \in otsuThreshold(pixels)
  PROVE  /\ t \in Scale
         /\ Splits(pixels) # {} => \E top : PlacedBy(t, pixels, top)
<1> DEFINE R == Range(pixels)
           V == 0 .. 255
           splits == Splits(pixels)
           best == Best(pixels)
           above(v) == {w \in R : w > v}
<1>1. R \in SUBSET V
  BY RangeOfSeq DEF Scale
<1>2. splits = {v \in R : \E w \in R : w > v}
  BY Zenon DEF Splits
<1>3. otsuThreshold(pixels) =
        IF splits = {} THEN {128}
        ELSE {(Min(top) + PlateauEnd(pixels, Max(top))) \div 2 : top \in (SUBSET best) \ {{}}}
  BY DEF otsuThreshold, Best
<1>4. CASE splits = {}
  BY <1>3, <1>4 DEF Scale
<1>5. CASE splits # {}
  <2>1. PICK top \in (SUBSET best) \ {{}} : t = (Min(top) + PlateauEnd(pixels, Max(top))) \div 2
    BY Zenon, <1>3, <1>5
  <2> HIDE DEF R, V, splits
  <2>1a. best \in SUBSET splits
    BY DEF Best, splits
  <2> HIDE DEF best
  <2>2. top \in SUBSET splits /\ top # {} /\ top \in SUBSET best
    BY Zenon, <2>1, <2>1a
  <2>3. top \in SUBSET V
    BY <1>1, <1>2, <2>2
  <2> DEFINE a == Min(top)
             b == Max(top)
  <2>4. a \in top /\ \A x \in top : a <= x
    <3>1. top \in SUBSET Nat
      BY <2>3 DEF V
    <3>2. QED
      BY <2>2, <3>1, MinIs
  <2>5. b \in top /\ \A x \in top : x <= b
    <3> DEFINE N == 255
    <3>1. N \in Nat /\ top \in SUBSET (0 .. N)
      BY <2>3 DEF V
    <3> HIDE DEF N
    <3>2. QED
      BY <2>2, <3>1, MaxIs
  <2> HIDE DEF a, b
  <2>6. PlateauEnd(pixels, b) = Min(above(b)) - 1
    BY Zenon DEF PlateauEnd, R
  <2>7. above(b) \in SUBSET V /\ above(b) # {}
    BY <1>1, <1>2, <2>2, <2>5
  <2>8. a \in V /\ b \in V /\ (\A w \in above(b) : w > b) /\ a <= b
    BY <1>1, <1>2, <2>3, <2>4, <2>5
  <2> DEFINE c == Min(above(b))
             A == above(b)
  <2> HIDE DEF A
  <2>9. Min(A) \in A /\ \A w \in A : Min(A) <= w
    <3>1. A \in SUBSET V /\ A # {}
      BY Zenon, <2>7 DEF A
    <3>1a. A \in SUBSET Nat
      BY <3>1 DEF V
    <3>2. QED
      BY <3>1, <3>1a, MinIs
  <2>10. c \in V /\ c > b /\ c \in R /\ \A w \in R : w > b => c <= w
    <3>1. c \in above(b) /\ \A w \in above(b) : c <= w
      BY Zenon, <2>9 DEF A
    <3>2. QED
      BY <2>7, <2>8, <3>1
  <2> HIDE DEF c
  <2>11. t = (a + (c - 1)) \div 2
    BY Zenon, <2>1, <2>6 DEF a, b, c
  <2>12. t \in V /\ a <= t /\ t < c
    BY <2>8, <2>10, <2>11 DEF V
  <2>13. \A w \in R : w <= b \/ w >= c
    BY <1>1, <2>8, <2>10 DEF V
  <2>14. PlacedBy(t, pixels, top)
    BY Zenon, <2>2, <2>4, <2>5, <2>10, <2>12, <2>13 DEF PlacedBy, best, R
  <2>15. t \in Scale
    BY Zenon, <2>12 DEF V, Scale
  <2>16. QED
    BY Zenon, <2>14, <2>15 DEF splits
<1>6. QED
  BY <1>4, <1>5

\* A threshold of Otsu is a gray value, so no density shift of nothing moves it.
LEMMA ThresholdIs ==
  ASSUME NEW W \in Nat \ {0}, NEW H \in Nat \ {0}, NEW g, IsGray(g, W, H),
         NEW t \in otsuThreshold(Pixels(g))
  PROVE  t \in 0 .. 255
<1> DEFINE A == [1 .. W -> Scale]
<1>1. g.rows \in [1 .. H -> A]
  BY DEF IsGray, Scale
<1> HIDE DEF A
<1>2. g.rows \in Seq(A)
  BY <1>1, SeqDef
<1>3. Pixels(g) \in Seq(Scale)
  BY <1>2, PixelsAre DEF A
<1>4. t \in Scale
  BY <1>3, ThresholdPlace
<1>5. QED
  BY Zenon, <1>4 DEF Scale

\* The splits that leave the two sides least spread.
Tightest(pixels) ==
  {v \in Splits(pixels) : \A w \in Splits(pixels) : AtLeast(Spread(pixels, w), Spread(pixels, v))}

\* The splits with the least spread are those Otsu looks for.
LEMMA TightestIsBest ==
  ASSUME NEW pixels \in Seq(Scale)
  PROVE  Tightest(pixels) = Best(pixels)
<1>1. \A v, w \in Splits(pixels) : AtLeast(Between(pixels, v), Between(pixels, w))
                                     <=> AtLeast(Spread(pixels, w), Spread(pixels, v))
  BY SplitsAgree
<1>2. QED
  BY Zenon, <1>1 DEF Tightest, Best

-----------------------------------------------------------------------------
(* The target.                                                             *)

\* Millimetres in pixels.
LEMMA PixelsAreInt ==
  ASSUME NEW mm \in Int, NEW dpi \in Int
  PROVE  mmToPx(mm, dpi) \in Int
<1>1. inch \in Nat \ {0}
  BY GdiRasterAssumption
<1>2. CASE mm <= 0 \/ dpi <= 0
  BY <1>2 DEF mmToPx
<1>3. CASE ~ (mm <= 0 \/ dpi <= 0)
  <2> DEFINE p == 2 * mm * dpi + inch
             q == 2 * inch
  <2>1. mmToPx(mm, dpi) = p \div q
    BY <1>3 DEF mmToPx
  <2>2. p \in Int /\ q \in Nat \ {0}
    <3>1. 2 * mm * dpi \in Int
      OBVIOUS
    <3>2. QED
      BY <1>1, <3>1
  <2> HIDE DEF p, q
  <2>3. p \div q \in Int
    BY <2>2
  <2>4. QED
    BY <2>1, <2>3
<1>4. QED
  BY <1>2, <1>3

IsArea(a) ==
  /\ a.printW \in Nat \ {0} /\ a.printH \in Nat \ {0}
  /\ {a.physW, a.physH, a.offX, a.offY, a.dpiX, a.dpiY} \subseteq Int

\* The driver aims at the sheet, and there is room on it.
LEMMA TargetIs ==
  ASSUME NEW a, IsArea(a), NEW margin \in Int
  PROVE  /\ targetRect(a, margin) = Sheet(a, margin)
         /\ Sheet(a, margin).x \in Int /\ Sheet(a, margin).y \in Int
         /\ Sheet(a, margin).w \in Nat \ {0} /\ Sheet(a, margin).h \in Nat \ {0}
<1> DEFINE mx == mmToPx(margin, a.dpiX)
           my == mmToPx(margin, a.dpiY)
           w == a.physW - 2 * mx
           h == a.physH - 2 * my
           off == [x |-> 0, y |-> 0, w |-> a.printW, h |-> a.printH]
           on == [x |-> mx - a.offX, y |-> my - a.offY, w |-> w, h |-> h]
<1>1. /\ a.physW \in Int /\ a.physH \in Int /\ a.offX \in Int /\ a.offY \in Int
      /\ a.dpiX \in Int /\ a.dpiY \in Int
  BY DEF IsArea
<1>2. mx \in Int /\ my \in Int
  BY <1>1, PixelsAreInt
<1>3. targetRect(a, margin) = IF ~ valid(a) \/ w <= 0 \/ h <= 0 THEN off ELSE on
  BY Zenon DEF targetRect
<1>4. Sheet(a, margin) = IF valid(a) /\ 2 * mx < a.physW /\ 2 * my < a.physH THEN on ELSE off
  BY Zenon DEF Sheet
<1> HIDE DEF mx, my
<1>5. /\ w \in Int /\ h \in Int
      /\ 2 * mx < a.physW <=> ~ (w <= 0)
      /\ 2 * my < a.physH <=> ~ (h <= 0)
  BY <1>1, <1>2
<1>6. off.x \in Int /\ off.y \in Int /\ off.w \in Nat \ {0} /\ off.h \in Nat \ {0}
  BY DEF IsArea
<1>7. w > 0 /\ h > 0 =>
        on.x \in Int /\ on.y \in Int /\ on.w \in Nat \ {0} /\ on.h \in Nat \ {0}
  BY <1>1, <1>2
<1>8. ~ (w <= 0) /\ ~ (h <= 0) => w > 0 /\ h > 0
  BY <1>5
<1> HIDE DEF w, h, on, off
<1>9. CASE valid(a) /\ 2 * mx < a.physW /\ 2 * my < a.physH
  BY Zenon, <1>3, <1>4, <1>5, <1>7, <1>8, <1>9
<1>10. CASE ~ (valid(a) /\ 2 * mx < a.physW /\ 2 * my < a.physH)
  BY Zenon, <1>3, <1>4, <1>5, <1>6, <1>10
<1>11. QED
  BY Zenon, <1>9, <1>10

\* A picture placed in a sheet fits it.
LEMMA PlacedFits ==
  ASSUME NEW page, Width(page) \in Nat \ {0}, Height(page) \in Nat \ {0}, NEW t,
         t.x \in Int, t.y \in Int, t.w \in Nat \ {0}, t.h \in Nat \ {0},
         NEW at, Placed(at, Width(page), Height(page), t)
  PROVE  Fits(at, page, t)
<1>1. ASSUME NEW x \in Int, NEW W \in Nat, NEW w \in 1 .. W
      PROVE  LET l == x + ((W - w) \div 2)
             IN  l >= x /\ l + w <= x + W /\ Near(2 * (l - x), W - w, 1)
  <2> DEFINE q == (W - w) \div 2
  <2>1. q \in Nat /\ 2 * q <= W - w /\ W - w <= 2 * q + 1
    OBVIOUS
  <2> HIDE DEF q
  <2>2. x + q >= x /\ (x + q) + w <= x + W /\ Near(2 * ((x + q) - x), W - w, 1)
    BY <2>1 DEF Near
  <2>3. QED
    BY <2>2 DEF q
<1>2. /\ at.w \in 1 .. t.w /\ at.h \in 1 .. t.h
      /\ at.x = t.x + ((t.w - at.w) \div 2) /\ at.y = t.y + ((t.h - at.h) \div 2)
      /\ at.w >= t.w - 1 \/ at.h >= t.h - 1
      /\ Near(at.w * Height(page), at.h * Width(page), 2 * (Width(page) + Height(page)))
  BY Zenon DEF Placed
<1>3. at.x >= t.x /\ at.x + at.w <= t.x + t.w /\ Near(2 * (at.x - t.x), t.w - at.w, 1)
  BY <1>1, <1>2
<1>4. at.y >= t.y /\ at.y + at.h <= t.y + t.h /\ Near(2 * (at.y - t.y), t.h - at.h, 1)
  BY <1>1, <1>2
<1>5. QED
  BY Zenon, <1>2, <1>3, <1>4 DEF Fits

\* What the driver draws of a page of Pages.
Drawn(d, pic, area, margin) ==
  /\ IsPage(pic) /\ IsArea(area) /\ margin \in Int
  /\ \E level \in Levels : d \in drawPage(pic, level, 0, area, margin)

\* A bitmap without bias shows the page it was made of.
LEMMA DotsShow ==
  ASSUME NEW page, IsPage(page), NEW m \in Binarize(Gray(page), 0)
  PROVE  Shows(packMono1bpp(m), page, TRUE)
<1> DEFINE g == Gray(page)
           W == Width(page)
           H == Height(page)
           at == (1 .. W) \X (1 .. H)
           pixel(d) == page.rows[d[2]][d[1]]
           dib == packMono1bpp(m)
<1>1. W \in Nat \ {0} /\ H \in Nat \ {0}
  BY SidesAre
<1>2. IsGray(g, W, H) /\ \A x \in 1 .. W, y \in 1 .. H : g.rows[y][x] = page.rows[y][x][1]
  BY GrayIs
<1>3. PICK t \in otsuThreshold(Pixels(g)) : m = pack(g, Level(t, 0))
  BY DEF Binarize
<1> HIDE DEF g, W, H
<1>4. t \in 0 .. 255
  BY <1>1, <1>2, ThresholdIs
<1>5. Level(t, 0) = t
  BY <1>4 DEF Level
<1>6. m = pack(g, t) /\ t \in Int
  BY <1>3, <1>4, <1>5
<1>7. ASSUME NEW x \in 1 .. W, NEW y \in 1 .. H
      PROVE  ReadDIB(dib, x, y) = IF page.rows[y][x][1] <= t THEN Black ELSE White
  <2>1. ReadDIB(packMono1bpp(pack(g, t)), x, y) = IF g.rows[y][x] <= t THEN Black ELSE White
    BY <1>1, <1>2, <1>6, ReadsDots
  <2>2. g.rows[y][x] = page.rows[y][x][1]
    BY <1>2
  <2>3. QED
    BY Zenon, <1>6, <2>1, <2>2
<1>8. \A d \in at : ReadDIB(dib, d[1], d[2]) = IF pixel(d)[1] <= t THEN Black ELSE White
  <2>1. \A d \in at : d[1] \in 1 .. W /\ d[2] \in 1 .. H
    OBVIOUS
  <2>2. QED
    BY Zenon, <1>7, <2>1
<1>9. QED
  BY Zenon, <1>3, <1>8 DEF Shows, g, W, H

\* A bitmap in colour shows its page.
LEMMA ColoursShow ==
  ASSUME NEW page, IsPage(page)
  PROVE  Shows(buildBandDIB(page), page, FALSE)
<1> DEFINE at == (1 .. Width(page)) \X (1 .. Height(page))
<1>1. \A x \in 1 .. Width(page), y \in 1 .. Height(page) :
        ReadDIB(buildBandDIB(page), x, y) = page.rows[y][x]
  BY ReadsColours
<1>2. \A d \in at : d[1] \in 1 .. Width(page) /\ d[2] \in 1 .. Height(page)
  OBVIOUS
<1>3. \A d \in at : ReadDIB(buildBandDIB(page), d[1], d[2]) = page.rows[d[2]][d[1]]
  BY Zenon, <1>1, <1>2
<1>4. QED
  BY Zenon, <1>3 DEF Shows

\* Whatever drawPage draws of a page shows the whole of it, in its place.
LEMMA DrawnIsWhole ==
  ASSUME NEW d, NEW pic, NEW area, NEW margin, Drawn(d, pic, area, margin)
  PROVE  /\ EveryPixelOnce(pic, d.small)
         /\ Shows(d.dib, d.small, isGrayscale(pic))
         /\ Fits(d.at, d.small, Sheet(area, margin))
<1>1. IsPage(pic) /\ IsArea(area) /\ margin \in Int
  BY DEF Drawn
<1>2. PICK level \in Levels : d \in drawPage(pic, level, 0, area, margin)
  BY DEF Drawn
<1> DEFINE small == Attempt(pic, level)
           gray == isGrayscale(pic)
           dibs == IF gray THEN {packMono1bpp(m) : m \in Binarize(Gray(small), 0)}
                   ELSE {buildBandDIB(small)}
           sheet == Sheet(area, margin)
           places == fitRect(Width(small), Height(small), targetRect(area, margin))
<1>3. drawPage(pic, level, 0, area, margin) = [small : {small}, dib : dibs, at : places]
  BY Zenon DEF drawPage
<1> HIDE DEF small, dibs, places
<1>4. d.small = small /\ d.dib \in dibs /\ d.at \in places
  <2>1. d \in [small : {small}, dib : dibs, at : places]
    BY Zenon, <1>2, <1>3
  <2> HIDE DEF gray
  <2>2. d.small \in {small} /\ d.dib \in dibs /\ d.at \in places
    BY <2>1
  <2>3. QED
    BY <2>2
<1>5. IsPage(small) /\ Width(small) \in 1 .. Width(pic) /\ Height(small) \in 1 .. Height(pic)
  BY <1>1, SmallIs DEF small
<1>6. EveryPixelOnce(pic, small)
  BY <1>1, <1>5, AttemptTakesEveryPixel
<1>7. Shows(d.dib, small, gray)
  <2>1. CASE gray
    <3>1. PICK m \in Binarize(Gray(small), 0) : d.dib = packMono1bpp(m)
      BY <1>4, <2>1 DEF dibs
    <3>2. Shows(packMono1bpp(m), small, TRUE)
      BY <1>5, DotsShow
    <3>3. Shows(packMono1bpp(m), small, gray)
      BY Zenon, <2>1, <3>2 DEF Shows
    <3>4. QED
      BY Zenon, <3>1, <3>3
  <2>2. CASE ~ gray
    <3>1. d.dib = buildBandDIB(small)
      BY <1>4, <2>2 DEF dibs
    <3>2. Shows(buildBandDIB(small), small, FALSE)
      BY <1>5, ColoursShow
    <3>3. Shows(buildBandDIB(small), small, gray)
      BY Zenon, <2>2, <3>2 DEF Shows
    <3>4. QED
      BY Zenon, <3>1, <3>3
  <2>3. QED
    BY <2>1, <2>2
<1>8. Fits(d.at, small, sheet)
  <2>1. /\ targetRect(area, margin) = sheet
        /\ sheet.x \in Int /\ sheet.y \in Int
        /\ sheet.w \in Nat \ {0} /\ sheet.h \in Nat \ {0}
    BY <1>1, TargetIs
  <2> HIDE DEF sheet
  <2>2. Width(small) \in Nat \ {0} /\ Height(small) \in Nat \ {0}
    BY <1>5, SidesAre
  <2>3. d.at \in fitRect(Width(small), Height(small), sheet)
    BY Zenon, <1>4, <2>1 DEF places
  <2>4. Placed(d.at, Width(small), Height(small), sheet)
    BY <2>1, <2>2, <2>3, FitIs
  <2>5. QED
    BY <2>1, <2>2, <2>4, PlacedFits
<1>9. QED
  BY Zenon, <1>4, <1>6, <1>7, <1>8

\* What the work of drawing holds comes from drawPage and from the arguments.
PageDrawn == work.task = "draw" => Drawn(work.drawn, work.pic, work.area, work.margin)

\* Whatever pages, geometries and margins a printer of GDI meets, and however often it
\* rejects a page: every pixel of the page is averaged into exactly one of the bitmap,
\* Windows reads that picture from the bitmap right way up, and it stands on the sheet
\* centred, in its proportions and as large as it fits (gdi_windows.go, raster_prep.go,
\* dib.go).
THEOREM PageIsWhole == DevicesSpec => []DrawsWholePage
<1>1. DevicesInit => PageDrawn
  BY DEF DevicesInit, Nothing, PageDrawn
<1>2. PageDrawn /\ [DevicesNext]_work => PageDrawn'
  <2> SUFFICES ASSUME PageDrawn, [DevicesNext]_work PROVE PageDrawn'
    OBVIOUS
  <2>1. CASE DrawPage
    <3>1. PICK pic \in Pages, level \in Levels, area \in Areas, margin \in Margins :
            \E d \in drawPage(pic, level, 0, area, margin) :
              work' = [task |-> "draw", pic |-> pic, area |-> area, margin |-> margin, drawn |-> d]
      BY Zenon, <2>1 DEF DrawPage
    <3>2. PICK d \in drawPage(pic, level, 0, area, margin) :
            work' = [task |-> "draw", pic |-> pic, area |-> area, margin |-> margin, drawn |-> d]
      BY Zenon, <3>1
    <3>3. IsPage(pic) /\ IsArea(area) /\ margin \in Int
      BY DevicesAssumption DEF IsPage, IsArea
    <3>4. Drawn(d, pic, area, margin)
      BY Zenon, <3>2, <3>3 DEF Drawn
    <3>5. work'.drawn = d /\ work'.pic = pic /\ work'.area = area /\ work'.margin = margin
      BY Zenon, <3>2
    <3>6. QED
      BY Zenon, <3>4, <3>5 DEF PageDrawn
  <2>2. CASE EncodeReceipt \/ EncodeSlip
    <3>1. work'.task = "receipt"
      BY <2>2 DEF EncodeReceipt, EncodeSlip
    <3>2. QED
      BY <3>1 DEF PageDrawn
  <2>3. CASE BinarizePage
    <3>1. work'.task = "binarize"
      BY <2>3 DEF BinarizePage
    <3>2. QED
      BY <3>1 DEF PageDrawn
  <2>4. CASE PackPages
    <3>1. work'.task = "container"
      BY <2>4 DEF PackPages
    <3>2. QED
      BY <3>1 DEF PageDrawn
  <2>5. CASE Return
    BY <2>5 DEF Return, Nothing, PageDrawn
  <2>6. CASE UNCHANGED work
    BY <2>6 DEF PageDrawn
  <2>7. QED
    BY <2>1, <2>2, <2>3, <2>4, <2>5, <2>6 DEF DevicesNext
<1>3. PageDrawn => DrawsWholePage
  BY Zenon, DrawnIsWhole DEF PageDrawn, DrawsWholePage
<1>4. QED
  BY <1>1, <1>2, <1>3, PTL DEF DevicesSpec

-----------------------------------------------------------------------------
(* Ink from paper.                                                         *)

\* The gray values that a density makes ink.
Inks(pixels, t, density) == {v \in Range(pixels) : v <= Level(t, densityBias(density))}

\* The normal density compares with the threshold itself.
LEMMA NormalLevel ==
  ASSUME NEW t \in Scale
  PROVE  Level(t, densityBias(3)) = t
BY DEF Scale, Level, densityBias

\* A level is a gray value, and rises with the density.
LEMMA LevelRises ==
  ASSUME NEW t \in Scale, NEW d \in Densities, NEW e \in Densities, d <= e
  PROVE  /\ Level(t, densityBias(d)) \in Scale /\ Level(t, densityBias(e)) \in Scale
         /\ Level(t, densityBias(d)) <= Level(t, densityBias(e))
<1> DEFINE a == densityBias(d)
           b == densityBias(e)
<1>1. a \in Int /\ b \in Int /\ a <= b
  BY DEF Densities, densityBias
<1> HIDE DEF a, b
<1> DEFINE p == t + a
           q == t + b
<1>2. p \in Int /\ q \in Int /\ p <= q
  BY <1>1 DEF Scale
<1>3. /\ Level(t, a) = IF p < 0 THEN 0 ELSE IF p > 255 THEN 255 ELSE p
      /\ Level(t, b) = IF q < 0 THEN 0 ELSE IF q > 255 THEN 255 ELSE q
  BY DEF Level
<1> HIDE DEF p, q
<1>4. Level(t, a) \in Scale /\ Level(t, b) \in Scale /\ Level(t, a) <= Level(t, b)
  BY <1>2, <1>3 DEF Scale
<1>5. QED
  BY Zenon, <1>4 DEF a, b

\* Where there is something to split, some pixels are ink and some are not.
LEMMA InkAndPaper ==
  ASSUME NEW pixels \in Seq(Scale), NEW t \in otsuThreshold(pixels), Splits(pixels) # {}
  PROVE  Inks(pixels, t, 3) # {} /\ Inks(pixels, t, 3) # Range(pixels)
<1>1. PICK top : PlacedBy(t, pixels, top)
  BY ThresholdPlace
<1>2. PICK a \in top, b \in top, c \in Range(pixels) : a <= t /\ t < c
  BY Zenon, <1>1 DEF PlacedBy
<1>3. t \in Scale /\ Range(pixels) \in SUBSET Scale
  BY ThresholdPlace, RangeOfSeq
<1>4. Inks(pixels, t, 3) = {v \in Range(pixels) : v <= t}
  BY Zenon, <1>3, NormalLevel DEF Inks
<1>5. a \in Range(pixels)
  BY <1>1, <1>2 DEF PlacedBy, Best, Splits
<1>6. a \in Inks(pixels, t, 3)
  BY <1>2, <1>4, <1>5
<1>7. c \notin Inks(pixels, t, 3)
  <2>1. ~ (c <= t)
    <3>1. c \in Scale /\ t \in Scale
      BY <1>2, <1>3
    <3>2. QED
      BY <1>2, <3>1 DEF Scale
  <2>2. QED
    BY <1>4, <2>1
<1>8. QED
  BY Zenon, <1>2, <1>6, <1>7

\* The one best split is the one that is made.
LEMMA TheBestSplit ==
  ASSUME NEW pixels \in Seq(Scale), NEW t \in otsuThreshold(pixels),
         Cardinality(Tightest(pixels)) = 1
  PROVE  Inks(pixels, t, 3) = {v \in Range(pixels) : \A b \in Tightest(pixels) : v <= b}
<1> DEFINE best == Tightest(pixels)
           R == Range(pixels)
<1>1. R \in SUBSET Scale /\ t \in Scale
  BY ThresholdPlace, RangeOfSeq
<1>2. best \in SUBSET R
  BY DEF Tightest, Splits
<1>3. IsFiniteSet(best)
  <2>1. IsFiniteSet(Scale)
    <3> DEFINE N == 255
    <3>1. 0 \in Int /\ N \in Int /\ Scale = 0 .. N
      BY DEF Scale
    <3> HIDE DEF N
    <3>2. QED
      BY <3>1, FS_Interval
  <2>2. best \in SUBSET Scale
    BY <1>1, <1>2
  <2> HIDE DEF best
  <2>3. QED
    BY <2>1, <2>2, FS_Subset
<1>4. PICK b : best = {b}
  BY Zenon, <1>3, FS_Singleton
<1>5. best = Best(pixels)
  BY TightestIsBest
<1>6. Splits(pixels) # {}
  BY <1>4 DEF Tightest
<1>7. PICK top : PlacedBy(t, pixels, top)
  BY <1>6, ThresholdPlace
<1> HIDE DEF best, R
<1>8. top \in SUBSET {b} /\ \E a, z \in top, c \in R :
        a <= t /\ t < c /\ z < c /\ \A w \in R : w <= z \/ w >= c
  BY Zenon, <1>4, <1>5, <1>7 DEF PlacedBy, R
<1>9. PICK c \in R : b <= t /\ t < c /\ b < c /\ \A w \in R : w <= b \/ w >= c
  BY <1>8
<1>10. b \in R
  BY <1>2, <1>4
<1>11. \A v \in R : v <= t <=> v <= b
  <2> SUFFICES ASSUME NEW v \in R PROVE v <= t <=> v <= b
    OBVIOUS
  <2>1. v \in 0 .. 255 /\ b \in 0 .. 255 /\ c \in 0 .. 255 /\ t \in 0 .. 255
    BY <1>1, <1>9, <1>10 DEF Scale
  <2>2. v <= b \/ v >= c
    BY <1>9
  <2>3. QED
    BY <1>9, <2>1, <2>2
<1>12. Inks(pixels, t, 3) = {v \in R : v <= t}
  BY Zenon, <1>1, NormalLevel DEF Inks, R
<1>13. \A v : (\A x \in best : v <= x) <=> v <= b
  BY <1>4
<1>14. {v \in R : v <= t} = {v \in R : \A x \in best : v <= x}
  BY <1>11, <1>13
<1>15. QED
  BY Zenon, <1>12, <1>14 DEF best, R

\* A bitmap's dots are the pixels that are dark.
LEMMA DotsAre ==
  ASSUME NEW W \in Nat, NEW pic, pic.width = W, pic.rows \in Seq([1 .. W -> Scale]),
         NEW level \in Scale, NEW y \in DOMAIN pic.rows
  PROVE  /\ Len(pack(pic, level).rows[y]) = RowBytes(W)
         /\ \A x \in 1 .. W : Dot(pack(pic, level).rows[y], x) <=> pic.rows[y][x] <= level
         /\ \A x \in W + 1 .. 8 * RowBytes(W) : ~ Dot(pack(pic, level).rows[y], x)
<1> DEFINE row == pic.rows[y]
<1>1. pack(pic, level).rows[y] = PackRow(row, level)
  BY DEF pack
<1>2. row \in [1 .. W -> Scale]
  BY LenProperties, ElementOfSeq
<1> HIDE DEF row
<1>3. row \in Seq(Nat) /\ Len(row) = W
  <2>1. Scale \in SUBSET Nat
    BY DEF Scale
  <2>2. \A x \in 1 .. W : row[x] \in Nat
    BY <1>2, <2>1
  <2>3. row \in [1 .. W -> Nat]
    BY <1>2, <2>2
  <2>4. row \in Seq(Nat)
    BY <2>3, SeqDef
  <2>5. Len(row) = W
    BY <1>2, <2>4, LenProperties
  <2>6. QED
    BY <2>4, <2>5
<1>4. level \in Int
  BY DEF Scale
<1>5. /\ Len(PackRow(row, level)) = RowBytes(Len(row))
      /\ \A x \in 1 .. Len(row) : Dot(PackRow(row, level), x) <=> row[x] <= level
      /\ \A x \in Len(row) + 1 .. 8 * RowBytes(Len(row)) : ~ Dot(PackRow(row, level), x)
  BY <1>3, <1>4, PackRowIs
<1>6. QED
  BY Zenon, <1>1, <1>3, <1>5 DEF row

\* A picture the binarizer takes.
IsPicture(pic) == pic.width \in Nat /\ pic.rows \in Seq([1 .. pic.width -> Scale])

\* A record of what Binarize made of its arguments.
Inked(w) ==
  /\ IsPicture(w.pic) /\ w.density \in Densities /\ w.threshold \in otsuThreshold(Pixels(w.pic))
  /\ w.bitmap = pack(w.pic, Level(w.threshold, densityBias(w.density)))

\* What Binarize makes of a picture is as it should be.
LEMMA InkedFromPaper == work.task = "binarize" /\ Inked(work) => InkFromPaper
<1> SUFFICES ASSUME work.task = "binarize", Inked(work) PROVE InkFromPaper
  OBVIOUS
<1> DEFINE pic == work.pic
           W == pic.width
           pixels == Pixels(pic)
           t == work.threshold
           density == work.density
           bitmap == work.bitmap
           level == Level(t, densityBias(density))
           rows == pic.rows
           R == Range(pixels)
           inked(d) == Inks(pixels, t, d)
           at == (1 .. W) \X DOMAIN rows
           dots == {d \in at : Dot(bitmap.rows[d[2]], d[1])}
           best == Tightest(pixels)
<1>1. /\ W \in Nat /\ rows \in Seq([1 .. W -> Scale]) /\ density \in Densities
      /\ t \in otsuThreshold(pixels) /\ bitmap = pack(pic, level)
  BY DEF Inked, IsPicture
<1>2. /\ pixels \in Seq(Scale)
      /\ \A y \in DOMAIN rows : \A x \in 1 .. W : rows[y][x] \in R /\ rows[y][x] \in Scale
  BY <1>1, PixelsAre
<1> HIDE DEF pixels, t, bitmap, density
<1>3. t \in Scale
  BY <1>1, <1>2, ThresholdPlace
<1>4. level \in Scale
  BY <1>1, <1>3, LevelRises DEF Densities
<1> HIDE DEF level
<1>5. Cardinality(best) = 1 => inked(3) = {v \in R : \A b \in best : v <= b}
  BY <1>1, <1>2, TheBestSplit
<1>6. best # {} => inked(3) # {} /\ inked(3) # R
  <2> SUFFICES ASSUME best # {} PROVE inked(3) # {} /\ inked(3) # R
    OBVIOUS
  <2>1. Splits(pixels) # {}
    BY DEF Tightest
  <2>2. QED
    BY <1>1, <1>2, <2>1, InkAndPaper
<1>7. ASSUME NEW d \in Densities, d >= density PROVE inked(density) \subseteq inked(d)
  <2>1. /\ Level(t, densityBias(density)) \in Scale /\ Level(t, densityBias(d)) \in Scale
        /\ Level(t, densityBias(density)) <= Level(t, densityBias(d))
    <3>1. density <= d
      BY <1>1, <1>7 DEF Densities
    <3>2. QED
      BY <1>1, <1>3, <3>1, LevelRises
  <2>2. R \in SUBSET Scale
    BY <1>2, RangeOfSeq
  <2> DEFINE a == Level(t, densityBias(density))
             b == Level(t, densityBias(d))
  <2>3. inked(density) = {v \in R : v <= a} /\ inked(d) = {v \in R : v <= b}
    BY Zenon DEF Inks
  <2> HIDE DEF a, b, R, inked
  <2>4. a \in Scale /\ b \in Scale /\ a <= b
    BY Zenon, <2>1 DEF a, b
  <2>5. \A v \in Scale : v <= a => v <= b
    BY <2>4 DEF Scale
  <2>6. QED
    BY <2>2, <2>3, <2>5
<1>8. ASSUME NEW y \in DOMAIN rows
      PROVE  /\ Len(bitmap.rows[y]) = RowBytes(W)
             /\ \A x \in 1 .. W : Dot(bitmap.rows[y], x) <=> rows[y][x] <= level
             /\ \A x \in W + 1 .. 8 * RowBytes(W) : ~ Dot(bitmap.rows[y], x)
  BY <1>1, <1>4, DotsAre
<1>9. dots = {d \in at : rows[d[2]][d[1]] \in inked(density)}
  <2>1. \A v : v \in inked(density) <=> v \in R /\ v <= level
    BY Zenon DEF Inks, level
  <2> HIDE DEF R, inked, W, rows
  <2>2. ASSUME NEW d \in at
        PROVE  Dot(bitmap.rows[d[2]], d[1]) <=> rows[d[2]][d[1]] \in inked(density)
    <3>1. d[1] \in 1 .. W /\ d[2] \in DOMAIN rows
      OBVIOUS
    <3>2. QED
      BY Zenon, <1>2, <1>8, <2>1, <3>1
  <2> HIDE DEF at
  <2>3. QED
    BY <2>2
<1>10. Stride(bitmap) = RowBytes(W)
  <2>1. bitmap.width = W
    BY <1>1 DEF pack
  <2>2. QED
    BY <2>1 DEF Stride, RowBytes
<1>11. \A y \in DOMAIN rows :
         /\ Len(bitmap.rows[y]) = Stride(bitmap)
         /\ \A x \in W + 1 .. 8 * Stride(bitmap) : ~ Dot(bitmap.rows[y], x)
  BY Zenon, <1>8, <1>10
<1>12. \A d : inked(d) = {v \in R : v <= Level(t, densityBias(d))}
  BY Zenon DEF Inks
<1>13. best = {v \in Splits(pixels) :
                 \A w \in Splits(pixels) : AtLeast(Spread(pixels, w), Spread(pixels, v))}
  BY Zenon DEF Tightest
<1> HIDE DEF best, at, dots, R, rows, W
<1>14. \A d \in Densities : d >= density => inked(density) \subseteq inked(d)
  BY Zenon, <1>7
<1> HIDE DEF inked
<1>15. QED
  BY Zenon, <1>5, <1>6, <1>9, <1>11, <1>12, <1>13, <1>14
     DEF InkFromPaper, at, dots, R, rows, W, pixels, t, density, bitmap, pic

\* What the work of binarizing holds comes from Otsu.Binarize and from the arguments.
PageInked == work.task = "binarize" => Inked(work)

\* Whatever picture is binarized, at whatever density: where one split of its gray values
\* leaves the two sides more alike within themselves than every other, the code makes
\* that one; a page of two gray values keeps both ink and paper; a higher density never
\* takes ink away; and the bitmap's dots are the dark pixels (otsu.go, binarizer.go).
THEOREM InkIsRight == DevicesSpec => []InkFromPaper
<1>1. DevicesInit => PageInked
  BY DEF DevicesInit, Nothing, PageInked
<1>2. PageInked /\ [DevicesNext]_work => PageInked'
  <2> SUFFICES ASSUME PageInked, [DevicesNext]_work PROVE PageInked'
    OBVIOUS
  <2>1. CASE BinarizePage
    <3>1. PICK pic \in Pictures, density \in Densities :
            \E t \in otsuThreshold(Pixels(pic)) :
              work' = [task |-> "binarize", pic |-> pic, density |-> density, threshold |-> t,
                       bitmap |-> pack(pic, Level(t, densityBias(density)))]
      BY Zenon, <2>1 DEF BinarizePage
    <3>2. PICK t \in otsuThreshold(Pixels(pic)) :
            work' = [task |-> "binarize", pic |-> pic, density |-> density, threshold |-> t,
                     bitmap |-> pack(pic, Level(t, densityBias(density)))]
      BY Zenon, <3>1
    <3>3. IsPicture(pic)
      BY DevicesAssumption DEF IsPicture, Scale
    <3>4. /\ work'.pic = pic /\ work'.density = density /\ work'.threshold = t
          /\ work'.bitmap = pack(pic, Level(t, densityBias(density)))
      BY Zenon, <3>2
    <3>5. Inked(work')
      BY Zenon, <3>3, <3>4 DEF Inked
    <3>6. QED
      BY Zenon, <3>5 DEF PageInked
  <2>2. CASE EncodeReceipt \/ EncodeSlip
    <3>1. work'.task = "receipt"
      BY <2>2 DEF EncodeReceipt, EncodeSlip
    <3>2. QED
      BY <3>1 DEF PageInked
  <2>3. CASE DrawPage
    <3>1. work'.task = "draw"
      BY <2>3 DEF DrawPage
    <3>2. QED
      BY <3>1 DEF PageInked
  <2>4. CASE PackPages
    <3>1. work'.task = "container"
      BY <2>4 DEF PackPages
    <3>2. QED
      BY <3>1 DEF PageInked
  <2>5. CASE Return
    BY <2>5 DEF Return, Nothing, PageInked
  <2>6. CASE UNCHANGED work
    BY <2>6 DEF PageInked
  <2>7. QED
    BY <2>1, <2>2, <2>3, <2>4, <2>5, <2>6 DEF DevicesNext
<1>3. PageInked => InkFromPaper
  <2>1. CASE work.task = "binarize"
    BY Zenon, <2>1, InkedFromPaper DEF PageInked
  <2>2. CASE work.task # "binarize"
    BY Zenon, <2>2 DEF InkFromPaper
  <2>3. QED
    BY <2>1, <2>2
<1>4. QED
  BY <1>1, <1>2, <1>3, PTL DEF DevicesSpec

-----------------------------------------------------------------------------
(* A printer reads a stream.                                               *)

\* The commands the encoders send.
Commands ==
  {CmdInit, CmdDrawer, CmdFullCut} \cup {Feed(n) : n \in Nat}
  \cup {Text(body) : body \in Seq(STRING)} \cup {Block(w, rows) : w \in Nat, rows \in Seq(Seq(Nat))}

\* f[k] is what paper p has become after k commands of s.
Reads(f, p, s) == f[0] = p /\ \A k \in 1 .. Len(s) : f[k] = Obey(f[k - 1], s[k])

\* From paper p, the commands of s make paper q.
Prints(p, s, q) == \E f : Reads(f, p, s) /\ f[Len(s)] = q

\* What Printed returns is what the commands make of a fresh roll.
LEMMA PrintedIs ==
  ASSUME NEW s \in Seq(Commands), NEW q, Prints(Fresh, s, q)
  PROVE  Printed(s) = q
<1> DEFINE n == Len(s)
           is(f) == f = [k \in 0 .. n |-> IF k = 0 THEN Fresh ELSE Obey(f[k - 1], s[k])]
           paper == CHOOSE f : is(f)
<1>1. n \in Nat
  BY LenProperties
<1>2. PICK f : Reads(f, Fresh, s) /\ f[n] = q
  BY Zenon DEF Prints
<1>3. f[0] = Fresh /\ \A k \in 1 .. n : f[k] = Obey(f[k - 1], s[k])
  BY Zenon, <1>2 DEF Reads
<1>4. Printed(s) = paper[n]
  BY DEF Printed
<1> HIDE DEF n
<1>5. \E g : is(g)
  <2> DEFINE g == [k \in 0 .. n |-> f[k]]
  <2>1. ASSUME NEW k \in 0 .. n PROVE f[k] = IF k = 0 THEN Fresh ELSE Obey(g[k - 1], s[k])
    <3>1. CASE k = 0
      BY <1>3, <3>1
    <3>2. CASE k # 0
      <4>1. k \in 1 .. n /\ k - 1 \in 0 .. n
        BY <1>1, <3>2
      <4>2. g[k - 1] = f[k - 1]
        BY <4>1
      <4> HIDE DEF g
      <4>3. QED
        BY Zenon, <1>3, <3>2, <4>1, <4>2
    <3>3. QED
      BY <3>1, <3>2
  <2>2. is(g)
    BY Zenon, <2>1
  <2>3. QED
    BY Zenon, <2>2
<1>6. is(paper)
  BY Zenon, <1>5
<1> HIDE DEF paper
<1>7. \A k \in 0 .. n : paper[k] = IF k = 0 THEN Fresh ELSE Obey(paper[k - 1], s[k])
  BY <1>6
<1> DEFINE T == {m \in Nat : m <= n => paper[m] = f[m]}
<1>8. 0 \in T
  BY <1>1, <1>3, <1>7
<1>9. ASSUME NEW m \in T PROVE m + 1 \in T
  <2> SUFFICES ASSUME m + 1 <= n PROVE paper[m + 1] = f[m + 1]
    OBVIOUS
  <2> DEFINE k == m + 1
  <2>1. m \in Nat /\ k \in 1 .. n /\ k \in 0 .. n /\ k # 0 /\ k - 1 = m
    BY <1>1
  <2>2. paper[m] = f[m]
    BY <1>1, <2>1
  <2> HIDE DEF k
  <2>3. paper[k] = Obey(paper[k - 1], s[k]) /\ f[k] = Obey(f[k - 1], s[k])
    BY Zenon, <1>3, <1>7, <2>1
  <2>4. paper[k] = f[k]
    BY Zenon, <2>1, <2>2, <2>3
  <2>5. QED
    BY Zenon, <2>4 DEF k
<1>10. T = Nat
  <2>1. T \in SUBSET Nat
    OBVIOUS
  <2> HIDE DEF T
  <2>2. QED
    BY <1>8, <1>9, <2>1, EveryNatural
<1>11. paper[n] = f[n]
  BY <1>1, <1>10
<1>12. QED
  BY Zenon, <1>2, <1>4, <1>11

\* No command leaves the paper alone, and one command does what the printer does.
LEMMA PrintsNothing ==
  ASSUME NEW p
  PROVE  Prints(p, <<>>, p)
<1> DEFINE f == [k \in 0 .. 0 |-> p]
<1>1. Reads(f, p, <<>>) /\ f[Len(<<>>)] = p
  BY DEF Reads
<1>2. QED
  BY Zenon, <1>1 DEF Prints

LEMMA PrintsOne ==
  ASSUME NEW p, NEW c
  PROVE  Prints(p, <<c>>, Obey(p, c))
<1> DEFINE q == Obey(p, c)
           f == [k \in 0 .. 1 |-> IF k = 0 THEN p ELSE q]
           s == <<c>>
<1>1. Len(s) = 1 /\ s[1] = c
  OBVIOUS
<1> HIDE DEF q
<1>2. f[0] = p /\ f[1] = q
  OBVIOUS
<1> HIDE DEF f, s
<1>3. ASSUME NEW k \in 1 .. Len(s) PROVE f[k] = Obey(f[k - 1], s[k])
  <2>1. k = 1 /\ k - 1 = 0
    BY <1>1
  <2>2. QED
    BY Zenon, <1>1, <1>2, <2>1 DEF q
<1>4. Reads(f, p, s)
  BY Zenon, <1>2, <1>3 DEF Reads
<1>5. f[Len(s)] = q
  BY Zenon, <1>1, <1>2
<1>6. QED
  BY Zenon, <1>4, <1>5 DEF Prints, q, s

\* One stream after the other.
LEMMA PrintsOn ==
  ASSUME NEW s \in Seq(Commands), NEW t \in Seq(Commands), NEW p, NEW q, NEW r,
         Prints(p, s, q), Prints(q, t, r)
  PROVE  Prints(p, s \o t, r)
<1> DEFINE m == Len(s)
           n == Len(t)
           u == s \o t
<1>1. /\ m \in Nat /\ n \in Nat /\ Len(u) = m + n
      /\ \A k \in 1 .. m : u[k] = s[k]
      /\ \A k \in 1 .. n : u[m + k] = t[k]
  BY Joined
<1>2. PICK f : Reads(f, p, s) /\ f[m] = q
  BY Zenon DEF Prints
<1>3. PICK g : Reads(g, q, t) /\ g[n] = r
  BY Zenon DEF Prints
<1>4. f[0] = p /\ \A k \in 1 .. m : f[k] = Obey(f[k - 1], s[k])
  BY Zenon, <1>2 DEF Reads
<1>5. g[0] = q /\ \A k \in 1 .. n : g[k] = Obey(g[k - 1], t[k])
  BY Zenon, <1>3 DEF Reads
<1> HIDE DEF m, n, u
<1> DEFINE h == [k \in 0 .. m + n |-> IF k <= m THEN f[k] ELSE g[k - m]]
<1>6. \A k \in 0 .. m : h[k] = f[k]
  BY <1>1
<1>7. ASSUME NEW k \in 0 .. n PROVE h[m + k] = g[k]
  <2>1. CASE k = 0
    BY <1>1, <1>2, <1>5, <2>1
  <2>2. CASE k # 0
    <3>1. m + k \in 0 .. m + n /\ ~ (m + k <= m) /\ (m + k) - m = k
      BY <1>1, <2>2
    <3>2. QED
      BY <3>1
  <2>3. QED
    BY <2>1, <2>2
<1> HIDE DEF h
<1>8. ASSUME NEW k \in 1 .. m + n PROVE h[k] = Obey(h[k - 1], u[k])
  <2>1. CASE k <= m
    <3>1. k \in 1 .. m /\ k \in 0 .. m /\ k - 1 \in 0 .. m
      BY <1>1, <2>1
    <3>2. QED
      BY Zenon, <1>1, <1>4, <1>6, <3>1
  <2>2. CASE ~ (k <= m)
    <3> DEFINE j == k - m
    <3>1. j \in 1 .. n /\ j \in 0 .. n /\ j - 1 \in 0 .. n /\ m + j = k /\ m + (j - 1) = k - 1
      BY <1>1, <2>2
    <3> HIDE DEF j
    <3>2. h[m + j] = g[j] /\ h[m + (j - 1)] = g[j - 1] /\ u[m + j] = t[j]
      BY Zenon, <1>1, <1>7, <3>1
    <3>3. QED
      BY Zenon, <1>5, <3>1, <3>2
  <2>3. QED
    BY <2>1, <2>2
<1>9. h[0] = p
  BY <1>1, <1>4, <1>6
<1>10. h[m + n] = r
  <2>1. n \in 0 .. n
    BY <1>1
  <2>2. QED
    BY Zenon, <1>3, <1>7, <2>1
<1>11. Reads(h, p, u)
  BY Zenon, <1>1, <1>8, <1>9 DEF Reads
<1>12. h[Len(u)] = r
  BY Zenon, <1>1, <1>10
<1>13. QED
  BY Zenon, <1>11, <1>12 DEF Prints, u

\* A roll of paper by its parts.
Roll(rows, text, fed, cuts, kicks, sane) ==
  [rows |-> rows, text |-> text, fed |-> fed, cuts |-> cuts, kicks |-> kicks, sane |-> sane]

\* Nothing was misread.
Well == TRUE

\* A roll of paper on which all went well.
Paper(rows, text, fed, cuts, kicks) == Roll(rows, text, fed, cuts, kicks, Well)

\* Paper p after a block.
Changed(p, rows, sane) == [p EXCEPT !.rows = rows, !.fed = 0, !.sane = sane]

\* What a block changes on a roll.
LEMMA RollChanges ==
  ASSUME NEW r, NEW t, NEW f, NEW c, NEW k, NEW z, NEW a, NEW s
  PROVE  Changed(Roll(r, t, f, c, k, z), a, s) = Roll(a, t, 0, c, k, s)
<1> DEFINE p == Roll(r, t, f, c, k, z)
<1>1. [p EXCEPT !.rows = a] = Roll(a, t, f, c, k, z)
  BY DEF Roll
<1>2. [Roll(a, t, f, c, k, z) EXCEPT !.fed = 0] = Roll(a, t, 0, c, k, z)
  BY DEF Roll
<1>3. [Roll(a, t, 0, c, k, z) EXCEPT !.sane = s] = Roll(a, t, 0, c, k, s)
  BY DEF Roll
<1>4. [p EXCEPT !.rows = a, !.fed = 0, !.sane = s]
        = [[[p EXCEPT !.rows = a] EXCEPT !.fed = 0] EXCEPT !.sane = s]
  BY DEF Roll
<1> HIDE DEF p
<1>5. QED
  BY Zenon, <1>1, <1>2, <1>3, <1>4 DEF p, Changed

\* What each command does to a paper on which all went well.
LEMMA FreshIs == Fresh = Paper(<<>>, <<>>, 0, <<>>, 0)
BY DEF Fresh, Paper, Roll, Well

LEMMA ObeyInit ==
  ASSUME NEW r, NEW t, NEW f, NEW c, NEW k
  PROVE  Obey(Paper(r, t, f, c, k), CmdInit) = Paper(r, t, f, c, k)
BY DEF Obey, Paper, Roll, CmdInit

LEMMA ObeyDrawer ==
  ASSUME NEW r, NEW t, NEW f, NEW c, NEW k
  PROVE  Obey(Paper(r, t, f, c, k), CmdDrawer) = Paper(r, t, f, c, k + 1)
BY DEF Obey, Paper, Roll, CmdDrawer

LEMMA ObeyCut ==
  ASSUME NEW r, NEW t, NEW f, NEW c, NEW k
  PROVE  Obey(Paper(r, t, f, c, k), CmdFullCut) = Paper(r, t, f, Append(c, f), k)
BY DEF Obey, Paper, Roll, CmdFullCut

LEMMA ObeyFeed ==
  ASSUME NEW r, NEW t, NEW f, NEW c, NEW k, NEW n \in 1 .. escJMax
  PROVE  Obey(Paper(r, t, f, c, k), Feed(n)) = Paper(r, t, f + n, c, k)
<1> DEFINE cmd == [op |-> "feed", n |-> n]
           ok == Well /\ n > 0
<1>1. Byte(n) = n /\ n > 0
  BY DEF Byte, escJMax
<1>2. Feed(n) = cmd
  BY <1>1 DEF Feed
<1> HIDE DEF ok
<1>3. Obey(Paper(r, t, f, c, k), cmd)
        = [rows |-> r, text |-> t, fed |-> f + n, cuts |-> c, kicks |-> k, sane |-> ok]
  BY DEF Obey, Paper, Roll, ok
<1>4. ok = Well
  BY <1>1 DEF ok, Well
<1>5. QED
  BY Zenon, <1>2, <1>3, <1>4 DEF Paper, Roll

LEMMA ObeyText ==
  ASSUME NEW r, NEW t, NEW f, NEW c, NEW k, NEW body
  PROVE  Obey(Paper(r, t, f, c, k), Text(body)) = Paper(r, t \o body, 0, c, k)
BY DEF Obey, Paper, Roll, Text

\* Two bytes count to w.
TwoBytes(w) == w < 65536

LEMMA ObeyBlock ==
  ASSUME NEW r, NEW t, NEW f, NEW c, NEW k, NEW w \in Nat, TwoBytes(w),
         NEW rows \in Seq(Seq(Nat)), Len(rows) <= bandRows,
         \A y \in 1 .. Len(rows) : Len(rows[y]) = w
  PROVE  Obey(Paper(r, t, f, c, k), Block(w, rows)) = Paper(r \o rows, t, 0, c, k)
<1> DEFINE h == Len(rows)
           x == <<Byte(w), Byte(w \div 256)>>
           y == <<Byte(h), Byte(h \div 256)>>
           b == [op |-> "raster", x |-> x, y |-> y, rows |-> rows]
           height == y[1] + 256 * y[2]
           width == x[1] + 256 * x[2]
<1>1. Block(w, rows) = b
  BY DEF Block
<1>2. h \in Nat /\ h <= bandRows /\ DOMAIN rows = 1 .. h
  BY LenProperties
<1>3. width = w
  <2> DEFINE q == w \div 256
             m == w % 256
  <2>1. q \in Nat /\ m \in 0 .. 255 /\ w = 256 * q + m /\ q < 256
    BY DEF TwoBytes
  <2>2. x[1] = m /\ x[2] = q % 256
    BY DEF Byte
  <2> HIDE DEF q, m, x
  <2>3. q % 256 = q
    BY <2>1
  <2>4. QED
    BY <2>1, <2>2, <2>3
<1>4. height = h
  <2>1. y[1] = h % 256 /\ y[2] = (h \div 256) % 256
    BY DEF Byte
  <2> HIDE DEF y, h
  <2>2. h \in 0 .. 128
    BY <1>2 DEF bandRows
  <2>3. h % 256 = h /\ h \div 256 = 0
    BY <2>2
  <2>4. QED
    BY <2>1, <2>2, <2>3
<1>5. Obey(Paper(r, t, f, c, k), b) = Paper(r \o rows, t, 0, c, k)
  <2> HIDE DEF x, y, h
  <2>1. /\ b.op = "raster" /\ b.x = x /\ b.y = y /\ b.rows = rows
    OBVIOUS
  <2> DEFINE p == Paper(r, t, f, c, k)
  <2>2. p.rows = r /\ p.sane = Well
    BY DEF Paper, Roll
  <2> HIDE DEF b, p
  <2>3. Obey(p, b) = Changed(p, p.rows \o b.rows,
                             /\ p.sane /\ b.y[1] + 256 * b.y[2] = Len(b.rows)
                             /\ b.y[1] + 256 * b.y[2] <= bandRows
                             /\ \A z \in DOMAIN b.rows : Len(b.rows[z]) = b.x[1] + 256 * b.x[2])
    BY <2>1 DEF Obey, Changed
  <2>4. (/\ p.sane /\ b.y[1] + 256 * b.y[2] = Len(b.rows)
         /\ b.y[1] + 256 * b.y[2] <= bandRows
         /\ \A z \in DOMAIN b.rows : Len(b.rows[z]) = b.x[1] + 256 * b.x[2]) = Well
    BY <1>2, <1>3, <1>4, <2>1, <2>2 DEF h, Well
  <2>5. Obey(p, b) = Changed(p, r \o rows, Well)
    BY Zenon, <2>1, <2>2, <2>3, <2>4
  <2>6. Changed(p, r \o rows, Well) = Paper(r \o rows, t, 0, c, k)
    BY RollChanges DEF p, Paper
  <2>7. QED
    BY Zenon, <2>5, <2>6 DEF p
<1>6. QED
  BY Zenon, <1>1, <1>5

-----------------------------------------------------------------------------
(* The feed before a cut.                                                  *)

\* How far one command feeds of d dots.
Dots(d) == IF d > escJMax THEN escJMax ELSE d

\* The function by which chain is defined, up to N dots.
IsChain(g, N) == g = [d \in 0 .. N |-> IF d = 0 THEN <<>> ELSE <<Feed(Dots(d))>> \o g[d - Dots(d)]]

\* A feed that is sent is at least one dot, and fits its byte.
LEMMA FeedFits ==
  ASSUME NEW d \in Nat \ {0}
  PROVE  Dots(d) \in 1 .. escJMax /\ d - Dots(d) \in 0 .. d - 1
BY DEF Dots, escJMax

\* The function by which chain is defined exists.
LEMMA ChainExists ==
  ASSUME NEW N \in Nat
  PROVE  \E g : IsChain(g, N)
<1> DEFINE T == {m \in Nat : \E g : IsChain(g, m)}
           next(d, s) == <<Feed(Dots(d))>> \o s
<1>1. 0 \in T
  <2>1. IsChain([d \in 0 .. 0 |-> <<>>], 0)
    BY DEF IsChain
  <2>2. QED
    BY <2>1
<1>2. ASSUME NEW m \in T PROVE m + 1 \in T
  <2>1. PICK g : IsChain(g, m)
    OBVIOUS
  <2> DEFINE h == [d \in 0 .. m + 1 |-> IF d <= m THEN g[d] ELSE next(d, g[d - Dots(d)])]
  <2>2. \A d \in 0 .. m : g[d] = IF d = 0 THEN <<>> ELSE next(d, g[d - Dots(d)])
    BY <2>1 DEF IsChain
  <2> HIDE DEF next
  <2>3. ASSUME NEW d \in 0 .. m + 1
        PROVE  h[d] = IF d = 0 THEN <<>> ELSE next(d, h[d - Dots(d)])
    <3>1. CASE d = 0
      BY <2>2, <3>1
    <3>2. CASE d # 0
      <4> DEFINE e == d - Dots(d)
      <4>1. e \in 0 .. d - 1
        <5>1. d \in Nat \ {0}
          BY <3>2
        <5>2. QED
          BY <5>1, FeedFits
      <4> HIDE DEF e
      <4>2. e \in 0 .. m + 1 /\ e <= m
        BY <4>1
      <4>3. h[e] = g[e]
        BY <4>2
      <4>4. h[d] = next(d, g[e])
        <5>1. CASE d <= m
          <6>1. d \in 0 .. m /\ h[d] = g[d]
            BY <5>1
          <6>2. QED
            BY Zenon, <2>2, <3>2, <6>1 DEF e
        <5>2. CASE ~ (d <= m)
          <6>1. h[d] = next(d, g[d - Dots(d)])
            BY <5>2
          <6>2. QED
            BY Zenon, <6>1 DEF e
        <5>3. QED
          BY <5>1, <5>2
      <4> HIDE DEF h
      <4>5. QED
        BY Zenon, <3>2, <4>3, <4>4 DEF e
    <3>3. QED
      BY <3>1, <3>2
  <2>4. IsChain(h, m + 1)
    <3>1. h = [d \in 0 .. m + 1 |-> h[d]]
      OBVIOUS
    <3> HIDE DEF h
    <3>2. QED
      BY <2>3, <3>1 DEF IsChain, next
  <2>5. QED
    BY <2>4
<1>3. T = Nat
  <2>1. T \in SUBSET Nat
    OBVIOUS
  <2> HIDE DEF T
  <2>2. QED
    BY <1>1, <1>2, <2>1, EveryNatural
<1>4. QED
  BY <1>3

\* The chain, one feed at a time.
LEMMA ChainSteps ==
  /\ chain[0] = <<>>
  /\ \A d \in 1 .. maxFeedDots : chain[d] = <<Feed(Dots(d))>> \o chain[d - Dots(d)]
<1> DEFINE N == maxFeedDots
           move(f, dots) == IF dots = 0 THEN <<>>
                            ELSE LET n == IF dots > escJMax THEN escJMax ELSE dots
                                 IN  <<Feed(n)>> \o f[dots - n]
           is(f) == f = [dots \in 0 .. N |-> move(f, dots)]
<1>1. N \in Nat
  BY DEF maxFeedDots
<1>2. chain = CHOOSE f : is(f)
  BY DEF chain
<1>3. \A f : is(f) <=> IsChain(f, N)
  BY DEF IsChain, Dots
<1>4. \E f : IsChain(f, N)
  BY <1>1, ChainExists
<1>5. IsChain(chain, N)
  BY Zenon, <1>2, <1>3, <1>4
<1> HIDE DEF N
<1>6. \A d \in 0 .. N : chain[d] = IF d = 0 THEN <<>> ELSE <<Feed(Dots(d))>> \o chain[d - Dots(d)]
  BY <1>5 DEF IsChain
<1>7. 0 \in 0 .. N /\ \A d \in 1 .. N : d \in 0 .. N /\ d # 0
  BY <1>1
<1>8. QED
  BY Zenon, <1>6, <1>7 DEF N

\* A chain of feeds moves the paper as far as it should.
LEMMA ChainFeeds ==
  ASSUME NEW r, NEW t, NEW c, NEW k, NEW d \in 0 .. maxFeedDots, NEW f \in Nat
  PROVE  /\ chain[d] \in Seq(Commands)
         /\ Prints(Paper(r, t, f, c, k), chain[d], Paper(r, t, f + d, c, k))
<1> DEFINE ok(e) == /\ chain[e] \in Seq(Commands)
                    /\ \A a \in Nat : Prints(Paper(r, t, a, c, k), chain[e], Paper(r, t, a + e, c, k))
           T == {m \in Nat : \A e \in 0 .. maxFeedDots : e <= m => ok(e)}
<1>1. maxFeedDots \in Nat
  BY DEF maxFeedDots
<1>2. ok(0)
  <2>1. chain[0] = <<>>
    BY ChainSteps
  <2>2. ASSUME NEW a \in Nat PROVE Prints(Paper(r, t, a, c, k), chain[0], Paper(r, t, a + 0, c, k))
    <3>1. a + 0 = a
      OBVIOUS
    <3>2. QED
      BY Zenon, <2>1, <3>1, PrintsNothing
  <2>3. QED
    BY <2>1, <2>2, EmptySeq
<1> HIDE DEF ok
<1>3. 0 \in T
  BY <1>1, <1>2
<1>4. ASSUME NEW m \in T PROVE m + 1 \in T
  <2>1. m \in Nat /\ \A e \in 0 .. maxFeedDots : e <= m => ok(e)
    OBVIOUS
  <2>2. ASSUME m + 1 <= maxFeedDots PROVE ok(m + 1)
    <3> DEFINE e == m + 1
               n == Dots(e)
               z == e - n
    <3>1. e \in Nat \ {0} /\ e \in 1 .. maxFeedDots
      BY <1>1, <2>1, <2>2
    <3> HIDE DEF e
    <3>2. n \in 1 .. escJMax /\ z \in 0 .. e - 1
      BY <3>1, FeedFits
    <3>3. chain[e] = <<Feed(n)>> \o chain[z]
      BY Zenon, <3>1, ChainSteps
    <3> HIDE DEF n
    <3>4. n \in Nat /\ z \in 0 .. maxFeedDots /\ z <= m /\ e = n + z
      BY <1>1, <2>1, <3>1, <3>2 DEF escJMax, e
    <3> HIDE DEF z
    <3>5. ok(z)
      BY <2>1, <3>4
    <3>6. <<Feed(n)>> \in Seq(Commands)
      BY <3>4 DEF Commands
    <3>7. chain[z] \in Seq(Commands)
      BY <3>5 DEF ok
    <3>8. chain[e] \in Seq(Commands)
      BY <3>3, <3>6, <3>7, Joined
    <3>9. ASSUME NEW a \in Nat PROVE Prints(Paper(r, t, a, c, k), chain[e], Paper(r, t, a + e, c, k))
      <4> DEFINE p == Paper(r, t, a, c, k)
                 q == Paper(r, t, a + n, c, k)
                 l == Paper(r, t, (a + n) + z, c, k)
      <4>1. Obey(p, Feed(n)) = q
        BY <3>2, ObeyFeed
      <4>2. Prints(p, <<Feed(n)>>, q)
        BY Zenon, <4>1, PrintsOne
      <4>3. a + n \in Nat /\ (a + n) + z = a + e
        BY <3>4
      <4>4. Prints(q, chain[z], l)
        BY Zenon, <3>5, <4>3 DEF ok
      <4> HIDE DEF p, q, l
      <4>5. Prints(p, chain[e], l)
        BY <3>3, <3>6, <3>7, <4>2, <4>4, PrintsOn
      <4>6. QED
        BY Zenon, <4>3, <4>5 DEF p, l
    <3>10. QED
      BY Zenon, <3>8, <3>9 DEF ok, e
  <2>3. \A e \in 0 .. maxFeedDots : e <= m + 1 => ok(e)
    <3> SUFFICES ASSUME NEW e \in 0 .. maxFeedDots, e <= m + 1 PROVE ok(e)
      OBVIOUS
    <3>1. CASE e <= m
      BY <2>1, <3>1
    <3>2. CASE ~ (e <= m)
      <4>1. e = m + 1
        BY <1>1, <2>1, <3>2
      <4>2. QED
        BY <2>2, <4>1
    <3>3. QED
      BY <3>1, <3>2
  <2>4. QED
    BY <2>1, <2>3
<1>5. T = Nat
  <2>1. T \in SUBSET Nat
    OBVIOUS
  <2> HIDE DEF T
  <2>2. QED
    BY <1>3, <1>4, <2>1, EveryNatural
<1>6. ok(d)
  <2>1. d \in T /\ d <= d
    BY <1>1, <1>5
  <2>2. QED
    BY <2>1
<1>7. QED
  BY Zenon, <1>6 DEF ok

-----------------------------------------------------------------------------
(* The bands of a page.                                                    *)

\* Nothing on the paper but rows.
Rolled(rows) == Paper(rows, <<>>, 0, <<>>, 0)

\* Where the first k bands of h rows end.
Ends(h, k) == IF k * bandRows > h THEN h ELSE k * bandRows

\* How many bands h rows make.
Bands(h) == (h + bandRows - 1) \div bandRows

\* The bands meet, none is longer than it may be, and the last ends with the page.
LEMMA BandsMeet ==
  ASSUME NEW h \in Nat
  PROVE  /\ Bands(h) \in Nat /\ Ends(h, 0) = 0 /\ Ends(h, Bands(h)) = h
         /\ \A k \in 1 .. Bands(h) :
              /\ (k - 1) * bandRows = Ends(h, k - 1) /\ Ends(h, k - 1) \in 0 .. h
              /\ Ends(h, k) \in Ends(h, k - 1) + 1 .. h
              /\ Ends(h, k) - Ends(h, k - 1) <= bandRows
BY DEF Bands, Ends, bandRows

\* A part of the rows of a page.
LEMMA PartOfRows ==
  ASSUME NEW S, NEW rows \in Seq(S), NEW a \in 0 .. Len(rows), NEW e \in a .. Len(rows)
  PROVE  /\ SubSeq(rows, a + 1, e) \in Seq(S) /\ Len(SubSeq(rows, a + 1, e)) = e - a
         /\ \A y \in 1 .. e - a : SubSeq(rows, a + 1, e)[y] = rows[a + y]
<1> DEFINE p == SubSeq(rows, a + 1, e)
<1>1. a \in Nat /\ e \in Nat /\ a + 1 \in Int /\ a <= e /\ e <= Len(rows) /\ Len(rows) \in Nat
  BY LenProperties
<1>2. \A i \in a + 1 .. e : rows[i] \in S
  <2> SUFFICES ASSUME NEW i \in a + 1 .. e PROVE rows[i] \in S
    OBVIOUS
  <2>1. i \in 1 .. Len(rows)
    BY <1>1
  <2>2. QED
    BY <2>1, ElementOfSeq
<1> DEFINE m == a + 1
<1>3. m \in Int /\ \A i \in m .. e : rows[i] \in S
  BY <1>1, <1>2
<1> HIDE DEF m
<1>4. /\ SubSeq(rows, m, e) \in Seq(S)
      /\ Len(SubSeq(rows, m, e)) = IF m <= e THEN e - m + 1 ELSE 0
      /\ \A i \in 1 .. e - m + 1 : SubSeq(rows, m, e)[i] = rows[m + i - 1]
  BY <1>1, <1>3, SubSeqProperties
<1> DEFINE q == SubSeq(rows, m, e)
<1> HIDE DEF q
<1>5. q \in Seq(S) /\ Len(q) = (IF m <= e THEN e - m + 1 ELSE 0)
      /\ \A i \in 1 .. e - m + 1 : q[i] = rows[m + i - 1]
  BY Zenon, <1>4 DEF q
<1>6. Len(q) = e - a
  BY <1>1, <1>5 DEF m
<1>7. ASSUME NEW y \in 1 .. e - a PROVE q[y] = rows[a + y]
  <2>1. y \in 1 .. e - m + 1 /\ m + y - 1 = a + y
    BY <1>1 DEF m
  <2>2. QED
    BY <1>5, <2>1
<1>8. QED
  BY Zenon, <1>5, <1>6, <1>7 DEF q, m

\* The bands of a page put its rows below those on the paper.
LEMMA BandsPrint ==
  ASSUME NEW mb, mb.width \in Nat, mb.rows \in Seq(Seq(Nat)), Framed(mb), NEW r \in Seq(Seq(Nat))
  PROVE  /\ writeRaster(mb) \in Seq(Commands)
         /\ Prints(Rolled(r), writeRaster(mb), Rolled(r \o mb.rows))
<1> DEFINE rows == mb.rows
           h == Len(rows)
           w == Stride(mb)
           n == Bands(h)
           part(k) == SubSeq(rows, (k - 1) * bandRows + 1, Ends(h, k))
           s == [k \in 1 .. n |-> Block(w, part(k))]
           upto(k) == SubSeq(rows, 1, Ends(h, k))
           f == [k \in 0 .. n |-> Rolled(r \o upto(k))]
<1>1. writeRaster(mb) = s
  BY DEF writeRaster, Bands, Ends
<1>2. h \in Nat /\ w \in Nat /\ TwoBytes(w) /\ \A y \in 1 .. h : Len(rows[y]) = w
  BY LenProperties DEF Framed, TwoBytes, Stride
<1>3. rows \in Seq(Seq(Nat))
  OBVIOUS
<1> HIDE DEF rows, w
<1>4. /\ n \in Nat /\ Ends(h, 0) = 0 /\ Ends(h, n) = h
      /\ \A k \in 1 .. n :
           /\ (k - 1) * bandRows = Ends(h, k - 1) /\ Ends(h, k - 1) \in 0 .. h
           /\ Ends(h, k) \in Ends(h, k - 1) + 1 .. h
           /\ Ends(h, k) - Ends(h, k - 1) <= bandRows
  BY <1>2, BandsMeet
<1> HIDE DEF n
<1>5. ASSUME NEW k \in 1 .. n
      PROVE  /\ part(k) \in Seq(Seq(Nat)) /\ Len(part(k)) <= bandRows
             /\ \A y \in 1 .. Len(part(k)) : Len(part(k)[y]) = w
             /\ upto(k - 1) \in Seq(Seq(Nat)) /\ upto(k - 1) \o part(k) = upto(k)
  <2> DEFINE a == Ends(h, k - 1)
             e == Ends(h, k)
             p == SubSeq(rows, a + 1, e)
  <2>1. /\ (k - 1) * bandRows = a /\ a \in 0 .. h
        /\ e \in a + 1 .. h /\ e - a <= bandRows
    BY Zenon, <1>4
  <2>2. part(k) = p
    BY Zenon, <2>1
  <2> HIDE DEF a, e, h
  <2>3. e \in a .. h /\ a \in Nat /\ e \in Nat /\ 0 \in 0 .. h /\ a \in 0 .. h
    BY <1>2, <2>1
  <2>4. /\ p \in Seq(Seq(Nat)) /\ Len(p) = e - a
        /\ \A y \in 1 .. e - a : p[y] = rows[a + y]
    BY <1>3, <2>3, PartOfRows DEF h
  <2> HIDE DEF p
  <2>5. ASSUME NEW y \in 1 .. Len(p) PROVE Len(p[y]) = w
    <3>1. y \in 1 .. e - a /\ a + y \in 1 .. h
      BY <1>2, <2>1, <2>3, <2>4
    <3>2. QED
      BY <1>2, <2>4, <3>1
  <2>6. SubSeq(rows, 1, a) \in Seq(Seq(Nat))
    <3>1. SubSeq(rows, 0 + 1, a) \in Seq(Seq(Nat))
      BY <1>3, <2>3, PartOfRows DEF h
    <3>2. 0 + 1 = 1
      OBVIOUS
    <3>3. QED
      BY Zenon, <3>1, <3>2
  <2>7. SubSeq(rows, 1, a) \o SubSeq(rows, a + 1, e) = SubSeq(rows, 1, e)
    <3>1. 1 \in 1 .. Len(rows) + 1 /\ a \in 1 - 1 .. Len(rows) /\ e \in a .. Len(rows)
      BY <1>2, <2>1, <2>3 DEF h
    <3>2. QED
      BY <1>3, <3>1, ConcatAdjacentSubSeq
  <2>8. QED
    BY Zenon, <2>1, <2>2, <2>4, <2>5, <2>6, <2>7 DEF a, e, p
<1> HIDE DEF part, upto
<1>6. s \in Seq(Commands) /\ Len(s) = n /\ \A k \in 1 .. n : s[k] = Block(w, part(k))
  <2>1. \A k \in 1 .. n : Block(w, part(k)) \in Commands
    BY <1>2, <1>5 DEF Commands
  <2>2. QED
    BY <1>4, <2>1
<1> HIDE DEF s
<1>7. ASSUME NEW k \in 1 .. n PROVE f[k] = Obey(f[k - 1], s[k])
  <2>1. k \in 0 .. n /\ k - 1 \in 0 .. n
    BY <1>4
  <2>2. f[k] = Rolled(r \o upto(k)) /\ f[k - 1] = Rolled(r \o upto(k - 1))
    BY <2>1
  <2> DEFINE a == upto(k - 1)
             b == part(k)
  <2> HIDE DEF f, a, b
  <2>3. /\ a \in Seq(Seq(Nat)) /\ b \in Seq(Seq(Nat)) /\ Len(b) <= bandRows
        /\ \A y \in 1 .. Len(b) : Len(b[y]) = w
    BY Zenon, <1>5 DEF a, b
  <2>4. Obey(Rolled(r \o a), Block(w, b)) = Rolled((r \o a) \o b)
    BY <1>2, <2>3, ObeyBlock DEF Rolled
  <2>5. (r \o a) \o b = r \o (a \o b)
    <3>1. Regroups(r, a, b)
      BY <2>3, JoinInAnyOrder
    <3>2. QED
      BY Zenon, <3>1 DEF Regroups
  <2>6. a \o b = upto(k)
    BY Zenon, <1>5 DEF a, b
  <2>7. QED
    BY Zenon, <1>6, <2>2, <2>4, <2>5, <2>6 DEF a, b
<1>8. f[0] = Rolled(r)
  <2>1. upto(0) = <<>>
    <3>1. upto(0) = SubSeq(rows, 1, 0)
      BY Zenon, <1>4 DEF upto
    <3>2. QED
      BY <3>1, SubSeqEmpty
  <2>2. 0 \in 0 .. n
    BY <1>4
  <2>3. r \o upto(0) = r
    BY <2>1, ConcatEmptySeq
  <2>4. QED
    BY <2>2, <2>3
<1>9. f[n] = Rolled(r \o rows)
  <2>1. upto(n) = rows
    <3>1. upto(n) = SubSeq(rows, 1, h)
      BY Zenon, <1>4 DEF upto
    <3>2. QED
      BY <1>3, <3>1, SubSeqFull
  <2>2. n \in 0 .. n
    BY <1>4
  <2>3. QED
    BY <2>1, <2>2
<1> HIDE DEF f
<1>10. Reads(f, Rolled(r), s)
  BY Zenon, <1>6, <1>7, <1>8 DEF Reads
<1>11. Prints(Rolled(r), s, Rolled(r \o rows))
  BY Zenon, <1>6, <1>9, <1>10 DEF Prints
<1>12. QED
  BY Zenon, <1>1, <1>6, <1>11 DEF rows

-----------------------------------------------------------------------------
(* What is trimmed of a page.                                              *)

Ink(rows) == {y \in 1 .. Len(rows) : ~ Blank(rows[y])}

\* Counting blank rows stops at the first with ink.
LEMMA LeadingIs ==
  ASSUME NEW rows
  PROVE  LeadingBlank(rows) = IF Ink(rows) = {} THEN Len(rows) ELSE Min(Ink(rows)) - 1
<1> DEFINE I == {y \in 1 .. Len(rows) : ~ Blank(rows[y])}
           ink == IF I # {} THEN Min(I) ELSE 0
<1>1. LeadingBlank(rows) = IF ink = 0 THEN Len(rows) ELSE ink - 1
  BY DEF LeadingBlank, SelectInSeq
<1>2. I # {} => Min(I) # 0
  <2> SUFFICES ASSUME I # {} PROVE Min(I) # 0
    OBVIOUS
  <2>1. I \in SUBSET Nat /\ 0 \notin I
    OBVIOUS
  <2> HIDE DEF I
  <2>2. Min(I) \in I
    BY <2>1, MinIs
  <2>3. QED
    BY <2>1, <2>2
<1>3. Ink(rows) = I
  BY DEF Ink
<1> HIDE DEF I
<1>4. QED
  BY <1>1, <1>2, <1>3

\* The first and the last row with ink.
LEMMA InkIs ==
  ASSUME NEW rows \in Seq(Seq(Nat)), Ink(rows) # {}
  PROVE  /\ Min(Ink(rows)) \in 1 .. Len(rows) /\ Max(Ink(rows)) \in Min(Ink(rows)) .. Len(rows)
         /\ Min(Ink(rows)) \in Ink(rows) /\ Max(Ink(rows)) \in Ink(rows)
         /\ \A y \in Ink(rows) : Min(Ink(rows)) <= y /\ y <= Max(Ink(rows))
<1> DEFINE I == Ink(rows)
           N == Len(rows)
<1>1. N \in Nat /\ I \in SUBSET (1 .. N)
  BY LenProperties DEF Ink
<1> HIDE DEF I, N
<1>2. I \in SUBSET Nat /\ I \in SUBSET (0 .. N) /\ I # {}
  BY <1>1 DEF I
<1>3. Min(I) \in I /\ \A m \in I : Min(I) <= m
  BY <1>2, MinIs
<1>4. Max(I) \in I /\ \A m \in I : m <= Max(I)
  BY <1>1, <1>2, MaxIs
<1>5. Min(I) \in 1 .. N /\ Max(I) \in 1 .. N /\ Min(I) <= Max(I)
  BY <1>1, <1>3, <1>4
<1>6. Max(I) \in Min(I) .. N
  BY <1>5
<1>7. QED
  BY Zenon, <1>3, <1>4, <1>5, <1>6 DEF I, N

\* The rows below the last with ink go.
LEMMA TrailingIs ==
  ASSUME NEW rows \in Seq(Seq(Nat))
  PROVE  /\ Ink(rows) = {} => TrailingBlank(rows) = Len(rows)
         /\ Ink(rows) # {} => Len(rows) - TrailingBlank(rows) = Max(Ink(rows))
<1> DEFINE n == Len(rows)
           back == Reverse(rows)
           I == Ink(rows)
           J == Ink(back)
<1>1. n \in Nat
  BY LenProperties
<1>2. back \in Seq(Seq(Nat)) /\ Len(back) = n /\ \A y \in 1 .. n : back[y] = rows[n - y + 1]
  <2>1. \A y \in 1 .. n : n - y + 1 \in 1 .. n
    BY <1>1
  <2>2. \A y \in 1 .. n : rows[n - y + 1] \in Seq(Nat)
    BY <2>1, ElementOfSeq
  <2>3. back = [y \in 1 .. n |-> rows[n - y + 1]]
    BY DEF Reverse
  <2> HIDE DEF n
  <2>4. QED
    BY <1>1, <2>2, <2>3
<1>3. \A y \in 1 .. n : y \in J <=> n - y + 1 \in I
  <2> SUFFICES ASSUME NEW y \in 1 .. n PROVE y \in J <=> n - y + 1 \in I
    OBVIOUS
  <2>1. n - y + 1 \in 1 .. n
    BY <1>1
  <2>2. (y \in J <=> ~ Blank(back[y])) /\ (n - y + 1 \in I <=> ~ Blank(rows[n - y + 1]))
    BY <1>2, <2>1 DEF Ink
  <2>3. back[y] = rows[n - y + 1]
    BY <1>2
  <2>4. QED
    BY Zenon, <2>2, <2>3
<1>4. I \in SUBSET (1 .. n) /\ J \in SUBSET (1 .. n)
  BY <1>2 DEF Ink
<1>5. TrailingBlank(rows) = IF J = {} THEN n ELSE Min(J) - 1
  BY <1>2, LeadingIs DEF TrailingBlank
<1>6. CASE I = {}
  <2>1. J = {}
    BY <1>1, <1>3, <1>4, <1>6
  <2>2. QED
    BY <1>5, <1>6, <2>1
<1>7. CASE I # {}
  <2>1. /\ Max(I) \in 1 .. n /\ Max(I) \in I /\ \A y \in I : y <= Max(I)
    <3>1. /\ Min(I) \in 1 .. n /\ Max(I) \in Min(I) .. n /\ Max(I) \in I
          /\ \A y \in I : y <= Max(I)
      BY Zenon, <1>7, InkIs
    <3> HIDE DEF I, n
    <3>2. Max(I) \in 1 .. n
      BY <1>1, <3>1
    <3>3. QED
      BY Zenon, <3>1, <3>2
  <2> DEFINE z == Max(I)
             y == n - z + 1
  <2> HIDE DEF I, J, z
  <2>2. z \in 1 .. n /\ z \in I /\ \A x \in I : x <= z
    BY Zenon, <2>1 DEF z
  <2> HIDE DEF n
  <2>3. y \in 1 .. n /\ n - y + 1 = z
    BY <1>1, <2>2
  <2>4. y \in J
    BY <1>3, <2>2, <2>3
  <2>5. \A x \in J : y <= x
    <3> SUFFICES ASSUME NEW x \in J PROVE y <= x
      OBVIOUS
    <3>1. x \in 1 .. n /\ n - x + 1 \in I
      BY <1>3, <1>4
    <3>2. n - x + 1 <= z
      BY <2>2, <3>1
    <3>3. QED
      BY <1>1, <2>2, <3>1, <3>2
  <2>6. Min(J) = y
    <3>1. J \in SUBSET Nat /\ J # {}
      BY <1>4, <2>4
    <3>2. Min(J) \in J /\ \A x \in J : Min(J) <= x
      BY <3>1, MinIs
    <3> DEFINE m == Min(J)
    <3>3. m \in 1 .. n /\ m <= y /\ y <= m
      BY <1>4, <2>4, <2>5, <3>2
    <3> HIDE DEF m
    <3>4. m = y
      BY <2>3, <3>3
    <3>5. QED
      BY <3>4 DEF m
  <2>7. J # {} /\ TrailingBlank(rows) = y - 1
    BY <1>5, <2>4, <2>6
  <2>8. n - TrailingBlank(rows) = z
    BY <1>1, <2>2, <2>7
  <2>9. QED
    BY Zenon, <1>7, <2>8 DEF n, z, I
<1>8. QED
  BY <1>6, <1>7

-----------------------------------------------------------------------------
(* The rows that are left.                                                 *)

\* How much blank the first page keeps at its top.
Margin(opts) == resolveTopMargin(opts.topMargin)

\* Page i as it is sent: trimmed at its end, and the first page at its top.
Trimmed(pages, i, keep) ==
  LET mb == trimTrailingBlank(pages[i])
  IN  IF i = 1 THEN trimLeadingBlankTo(mb, keep) ELSE mb

\* A trimmed page has the rows that are wanted of it, and those are as long as before.
LEMMA TrimmedIs ==
  ASSUME NEW pages, NEW i, NEW keep \in Nat, pages[i] \in [width : Nat, rows : Seq(Seq(Nat))],
         Framed(pages[i])
  PROVE  /\ Trimmed(pages, i, keep).rows = Wanted(pages, i, keep)
         /\ Trimmed(pages, i, keep).width = pages[i].width
         /\ Wanted(pages, i, keep) \in Seq(Seq(Nat))
         /\ \A y \in 1 .. Len(Wanted(pages, i, keep)) :
              Len(Wanted(pages, i, keep)[y]) = Stride(pages[i])
<1> DEFINE page == pages[i]
           rows == page.rows
           n == Len(rows)
           I == Ink(rows)
           z == IF I = {} THEN 0 ELSE Max(I)
           m == IF I = {} THEN 0 ELSE Min(I)
           first == IF i = 1 /\ m > keep THEN m - keep ELSE 1
           mb == trimTrailingBlank(page)
           w == Stride(page)
<1>1. /\ rows \in Seq(Seq(Nat)) /\ page.width \in Nat /\ n \in Nat /\ DOMAIN rows = 1 .. n
      /\ page = [width |-> page.width, rows |-> rows] /\ \A y \in 1 .. n : Len(rows[y]) = w
  <2>1. page \in [width : Nat, rows : Seq(Seq(Nat))]
    OBVIOUS
  <2> HIDE DEF page
  <2>2. rows \in Seq(Seq(Nat)) /\ page.width \in Nat /\ page = [width |-> page.width, rows |-> rows]
    BY <2>1
  <2>3. n \in Nat /\ DOMAIN rows = 1 .. n
    BY <2>2, LenProperties
  <2>4. \A y \in 1 .. n : Len(rows[y]) = w
    BY DEF Framed, page
  <2>5. QED
    BY Zenon, <2>2, <2>3, <2>4
<1> HIDE DEF page
<1>2. /\ z \in 0 .. n /\ m \in 0 .. z /\ (I # {} => m \in 1 .. z)
      /\ (I = {} => z = 0 /\ m = 0) /\ \A y \in I : m <= y /\ y <= z
      /\ (I # {} => m = Min(I) /\ z = Max(I))
  <2>1. CASE I = {}
    BY <1>1, <2>1
  <2>2. CASE I # {}
    <3>1. /\ Min(I) \in 1 .. n /\ Max(I) \in Min(I) .. n
          /\ \A y \in I : Min(I) <= y /\ y <= Max(I)
      BY <1>1, <2>2, InkIs
    <3>2. m = Min(I) /\ z = Max(I)
      BY <2>2
    <3> HIDE DEF rows, I, m, z
    <3>3. QED
      BY <1>1, <2>2, <3>1, <3>2
  <2>3. QED
    BY <2>1, <2>2
<1>3. n - TrailingBlank(rows) = z
  <2>1. CASE I = {}
    <3>1. TrailingBlank(rows) = n
      BY <1>1, <2>1, TrailingIs
    <3> HIDE DEF rows
    <3>2. QED
      BY <1>1, <1>2, <2>1, <3>1
  <2>2. CASE I # {}
    <3>1. n - TrailingBlank(rows) = Max(I)
      BY <1>1, <2>2, TrailingIs
    <3>2. QED
      BY Zenon, <1>2, <2>2, <3>1
  <2>3. QED
    BY <2>1, <2>2
<1>4. I = {y \in DOMAIN rows : ~ Blank(rows[y])}
  BY <1>1 DEF Ink
<1> HIDE DEF rows, I, z, m
<1>5. mb = [width |-> page.width, rows |-> SubSeq(rows, 1, z)]
  <2>1. mb = [page EXCEPT !.rows = SubSeq(rows, 1, n - TrailingBlank(rows))]
    BY DEF trimTrailingBlank, rows
  <2>2. mb = [page EXCEPT !.rows = SubSeq(rows, 1, z)]
    BY Zenon, <1>3, <2>1
  <2>3. QED
    BY <1>1, <2>2
<1> HIDE DEF mb
<1>5a. mb.rows = SubSeq(rows, 1, z) /\ mb.width = page.width
  BY <1>5
<1> DEFINE t == SubSeq(rows, 1, z)
<1>6. t \in Seq(Seq(Nat)) /\ Len(t) = z /\ \A y \in 1 .. z : t[y] = rows[y]
  <2>1. 0 \in 0 .. n /\ z \in 0 .. n /\ z - 0 = z /\ 0 + 1 = 1 /\ \A y \in 1 .. z : 0 + y = y
    BY <1>1, <1>2
  <2>2. /\ SubSeq(rows, 0 + 1, z) \in Seq(Seq(Nat)) /\ Len(SubSeq(rows, 0 + 1, z)) = z - 0
        /\ \A y \in 1 .. z - 0 : SubSeq(rows, 0 + 1, z)[y] = rows[0 + y]
    BY <1>1, <2>1, PartOfRows
  <2> HIDE DEF t
  <2>3. SubSeq(rows, 0 + 1, z) = t
    BY <2>1 DEF t
  <2>4. /\ t \in Seq(Seq(Nat)) /\ Len(t) = z - 0 /\ \A y \in 1 .. z - 0 : t[y] = rows[0 + y]
    BY Zenon, <2>2, <2>3
  <2>5. QED
    BY <2>1, <2>4
<1>7. Wanted(pages, i, keep) = IF I = {} THEN <<>> ELSE SubSeq(rows, first, z)
  <2>1. Wanted(pages, i, keep)
          = LET start == IF i = 1 /\ Min(I) > keep THEN Min(I) - keep ELSE 1
            IN  IF I = {} THEN <<>> ELSE SubSeq(rows, start, Max(I))
    BY Zenon, <1>4 DEF Wanted, rows, page
  <2>2. QED
    BY <1>2, <2>1
<1> DEFINE wanted == IF I = {} THEN <<>> ELSE SubSeq(rows, first, z)
<1>8. wanted \in Seq(Seq(Nat)) /\ \A y \in 1 .. Len(wanted) : Len(wanted[y]) = w
  <2>1. CASE I = {}
    <3>1. wanted = <<>>
      BY <2>1
    <3> HIDE DEF wanted
    <3>2. QED
      BY <3>1
  <2>2. CASE I # {}
    <3> DEFINE a == first - 1
    <3>1. wanted = SubSeq(rows, first, z)
      BY <2>2
    <3>2. first \in 1 .. z /\ a \in 0 .. z /\ first = a + 1
      <4>1. z \in Nat /\ m \in 1 .. z
        BY <1>1, <1>2, <2>2
      <4>2. CASE i = 1 /\ m > keep
        <5>1. first = m - keep
          BY Zenon, <4>2
        <5> HIDE DEF first
        <5>2. QED
          BY <4>1, <4>2, <5>1
      <4>3. CASE ~ (i = 1 /\ m > keep)
        <5>1. first = 1
          BY Zenon, <4>3
        <5> HIDE DEF first
        <5>2. QED
          BY <4>1, <5>1
      <4>4. QED
        BY <4>2, <4>3
    <3> HIDE DEF first, a, wanted
    <3>3. a \in 0 .. n /\ z \in a .. n
      BY <1>1, <1>2, <3>2
    <3>4. /\ SubSeq(rows, a + 1, z) \in Seq(Seq(Nat)) /\ Len(SubSeq(rows, a + 1, z)) = z - a
          /\ \A y \in 1 .. z - a : SubSeq(rows, a + 1, z)[y] = rows[a + y]
      BY <1>1, <3>3, PartOfRows
    <3>5. wanted \in Seq(Seq(Nat)) /\ Len(wanted) = z - a /\ \A y \in 1 .. z - a : wanted[y] = rows[a + y]
      BY Zenon, <3>1, <3>2, <3>4
    <3>6. ASSUME NEW y \in 1 .. Len(wanted) PROVE Len(wanted[y]) = w
      <4>1. y \in 1 .. z - a /\ a + y \in 1 .. n
        <5>1. a \in Nat /\ z \in Nat /\ z <= n /\ Len(wanted) = z - a
          BY <1>1, <3>3, <3>5
        <5>2. QED
          BY <1>1, <5>1
      <4>2. QED
        BY <1>1, <3>5, <4>1
    <3>7. QED
      BY Zenon, <3>5, <3>6
  <2>3. QED
    BY <2>1, <2>2
<1>9. CASE i # 1
  <2>1. Trimmed(pages, i, keep) = mb
    BY <1>9 DEF Trimmed, page, mb
  <2>2. mb.rows = t /\ mb.width = page.width
    BY Zenon, <1>5a
  <2>3. wanted = t
    <3>1. CASE I = {}
      <4>1. z = 0
        BY <1>2, <3>1
      <4>2. t = <<>>
        BY <4>1, SubSeqEmpty
      <4>3. QED
        BY <3>1, <4>2
    <3>2. CASE I # {}
      BY <1>9, <3>2
    <3>3. QED
      BY <3>1, <3>2
  <2>4. QED
    BY Zenon, <1>7, <1>8, <2>1, <2>2, <2>3 DEF page
<1>10. CASE i = 1
  <2> DEFINE blank == LeadingBlank(t)
             tr == trimLeadingBlankTo(mb, keep)
  <2>1. Trimmed(pages, i, keep) = tr
    BY <1>10 DEF Trimmed, page, mb
  <2>2. Ink(t) = I
    <3>1. \A y \in 1 .. z : ~ Blank(t[y]) <=> ~ Blank(rows[y])
      BY Zenon, <1>6
    <3>2. Ink(t) = {y \in 1 .. z : ~ Blank(rows[y])}
      BY Zenon, <1>6, <3>1 DEF Ink
    <3>3. \A y : y \in I <=> y \in 1 .. n /\ ~ Blank(rows[y])
      BY Zenon, <1>1, <1>4
    <3>4. ASSUME NEW y \in I PROVE y \in 1 .. z
      <4>1. y \in 1 .. n /\ y <= z
        BY <1>2, <3>3
      <4>2. QED
        BY <1>1, <1>2, <4>1
    <3>5. \A y \in 1 .. z : y \in 1 .. n
      BY <1>1, <1>2
    <3>6. QED
      BY Zenon, <3>2, <3>3, <3>4, <3>5
  <2>3. blank = IF I = {} THEN z ELSE m - 1
    <3>1. blank = IF Ink(t) = {} THEN Len(t) ELSE Min(Ink(t)) - 1
      BY LeadingIs
    <3>2. QED
      BY <1>2, <1>6, <2>2, <3>1
  <2> HIDE DEF t, blank
  <2>4. mb = [width |-> page.width, rows |-> t]
    BY <1>5 DEF t
  <2>5. tr = IF blank <= keep THEN mb ELSE [mb EXCEPT !.rows = SubSeq(t, blank - keep + 1, Len(t))]
    <3>1. mb.rows = t
      BY <2>4
    <3> HIDE DEF mb
    <3>2. QED
      BY <3>1 DEF trimLeadingBlankTo, blank
  <2>6. CASE blank <= keep
    <3>1. tr.rows = t /\ tr.width = page.width
      BY <2>4, <2>5, <2>6
    <3>2. wanted = t
      <4>1. CASE I = {}
        <5>1. z = 0
          BY <1>2, <4>1
        <5>2. t = <<>>
          BY <5>1, SubSeqEmpty DEF t
        <5>3. QED
          BY <4>1, <5>2
      <4>2. CASE I # {}
        <5>1. m - 1 <= keep /\ m \in 1 .. z
          BY <1>2, <2>3, <2>6, <4>2
        <5>2. first = 1
          <6>1. m > keep => m - keep = 1
            <7>1. m \in Nat
              BY <5>1
            <7>2. QED
              BY <5>1, <7>1
          <6>2. QED
            BY <6>1
        <5>3. QED
          BY Zenon, <4>2, <5>2 DEF t
      <4>3. QED
        BY <4>1, <4>2
    <3>3. QED
      BY Zenon, <1>7, <1>8, <2>1, <3>1, <3>2 DEF page
  <2>7. CASE ~ (blank <= keep)
    <3>1. I # {}
      BY <1>2, <2>3, <2>7
    <3>2. blank = m - 1 /\ m \in 1 .. z
      BY <1>2, <2>3, <3>1
    <3>3. first = m - keep /\ blank - keep + 1 = first /\ first \in 1 .. z
      BY <1>1, <1>2, <1>10, <2>7, <3>2
    <3>4. tr.rows = SubSeq(t, first, z) /\ tr.width = page.width
      <4>1. tr = [mb EXCEPT !.rows = SubSeq(t, first, z)]
        BY Zenon, <1>6, <2>5, <2>7, <3>3 DEF t
      <4>2. QED
        BY <2>4, <4>1
    <3> HIDE DEF first
    <3>5. SubSeq(t, first, z) = SubSeq(rows, first, z)
      <4>1. rows \in Seq(Seq(Nat)) /\ z \in 1 .. Len(rows) /\ first \in 1 .. z /\ z \in 1 .. z
        BY <1>1, <1>2, <3>3
      <4>2. SubSeq(SubSeq(rows, 1, z), first, z) = SubSeq(rows, first, z)
        BY <4>1, PartOfFront
      <4>3. QED
        BY Zenon, <4>2 DEF t
    <3>6. wanted = SubSeq(rows, first, z)
      BY <3>1
    <3>7. QED
      BY Zenon, <1>7, <1>8, <2>1, <3>4, <3>5, <3>6 DEF page
  <2>8. QED
    BY <2>6, <2>7
<1>11. QED
  BY <1>9, <1>10

-----------------------------------------------------------------------------
(* The pages of a receipt.                                                 *)

\* What the pages send.
PageCommands(pages, keep) == [i \in DOMAIN pages |-> writeRaster(Trimmed(pages, i, keep))]

\* What is wanted of the pages.
PageRows(pages, keep) == [i \in DOMAIN pages |-> Wanted(pages, i, keep)]

\* What a page sends puts the rows wanted of it below those on the paper.
LEMMA PagePrints ==
  ASSUME NEW pages, NEW i, NEW keep \in Nat, pages[i] \in [width : Nat, rows : Seq(Seq(Nat))],
         Framed(pages[i])
  PROVE  /\ writeRaster(Trimmed(pages, i, keep)) \in Seq(Commands)
         /\ Wanted(pages, i, keep) \in Seq(Seq(Nat))
         /\ \A r \in Seq(Seq(Nat)) :
              Prints(Rolled(r), writeRaster(Trimmed(pages, i, keep)), Rolled(r \o Wanted(pages, i, keep)))
<1> DEFINE mb == Trimmed(pages, i, keep)
           wanted == Wanted(pages, i, keep)
           page == pages[i]
<1>1. /\ mb.rows = wanted /\ mb.width = page.width /\ wanted \in Seq(Seq(Nat))
      /\ \A y \in 1 .. Len(wanted) : Len(wanted[y]) = Stride(page)
  BY TrimmedIs
<1>2. page.width \in Nat /\ Stride(page) < 65536
  BY DEF Framed
<1> HIDE DEF mb, wanted, page
<1>3. mb.width \in Nat /\ mb.rows \in Seq(Seq(Nat)) /\ Stride(mb) = Stride(page)
  BY <1>1, <1>2 DEF Stride
<1>4. Framed(mb)
  BY <1>1, <1>2, <1>3 DEF Framed
<1>5. ASSUME NEW r \in Seq(Seq(Nat))
      PROVE  writeRaster(mb) \in Seq(Commands) /\ Prints(Rolled(r), writeRaster(mb), Rolled(r \o mb.rows))
  BY <1>3, <1>4, BandsPrint
<1>6. <<>> \in Seq(Seq(Nat))
  BY EmptySeq
<1>7. QED
  BY Zenon, <1>1, <1>5, <1>6 DEF mb, wanted

\* The pages put all the rows that are wanted on the paper, in order.
LEMMA PagesPrint ==
  ASSUME NEW pages \in Seq([width : Nat, rows : Seq(Seq(Nat))]), NEW keep \in Nat,
         \A i \in 1 .. Len(pages) : Framed(pages[i])
  PROVE  /\ FlattenSeq(PageCommands(pages, keep)) \in Seq(Commands)
         /\ FlattenSeq(PageRows(pages, keep)) \in Seq(Seq(Nat))
         /\ Prints(Rolled(<<>>), FlattenSeq(PageCommands(pages, keep)),
                   Rolled(FlattenSeq(PageRows(pages, keep))))
<1> DEFINE n == Len(pages)
           cs == PageCommands(pages, keep)
           ws == PageRows(pages, keep)
           R == Seq(Nat)
<1>1. n \in Nat /\ DOMAIN pages = 1 .. n /\ \A i \in 1 .. n : Framed(pages[i])
  BY LenProperties
<1>1a. \A i \in 1 .. n : pages[i] \in [width : Nat, rows : Seq(Seq(Nat))]
  BY ElementOfSeq
<1> HIDE DEF n
<1>2. cs = [i \in 1 .. n |-> writeRaster(Trimmed(pages, i, keep))]
      /\ ws = [i \in 1 .. n |-> Wanted(pages, i, keep)]
  BY Zenon, <1>1 DEF PageCommands, PageRows
<1>2a. \A i \in 1 .. n : cs[i] = writeRaster(Trimmed(pages, i, keep)) /\ ws[i] = Wanted(pages, i, keep)
  BY Zenon, <1>2
<1>3. ASSUME NEW i \in 1 .. n
      PROVE  /\ cs[i] \in Seq(Commands) /\ ws[i] \in Seq(R)
             /\ \A r \in Seq(R) : Prints(Rolled(r), cs[i], Rolled(r \o ws[i]))
  <2>1. cs[i] = writeRaster(Trimmed(pages, i, keep)) /\ ws[i] = Wanted(pages, i, keep)
    BY Zenon, <1>2a
  <2>2. /\ writeRaster(Trimmed(pages, i, keep)) \in Seq(Commands)
        /\ Wanted(pages, i, keep) \in Seq(Seq(Nat))
        /\ \A r \in Seq(Seq(Nat)) :
             Prints(Rolled(r), writeRaster(Trimmed(pages, i, keep)), Rolled(r \o Wanted(pages, i, keep)))
    BY <1>1, <1>1a, PagePrints
  <2>3. QED
    BY Zenon, <2>1, <2>2
<1> HIDE DEF cs, ws, R
<1>5. cs \in Seq(Seq(Commands)) /\ Len(cs) = n /\ ws \in Seq(Seq(R)) /\ Len(ws) = n
  <2> DEFINE C == Seq(Commands)
             W == Seq(R)
             c(i) == writeRaster(Trimmed(pages, i, keep))
             w(i) == Wanted(pages, i, keep)
  <2>1. \A i \in 1 .. n : c(i) \in C /\ w(i) \in W
    BY Zenon, <1>2a, <1>3
  <2>2. cs = [i \in 1 .. n |-> c(i)] /\ ws = [i \in 1 .. n |-> w(i)]
    BY Zenon, <1>2
  <2> HIDE DEF C, W, c, w
  <2>3. cs \in Seq(C) /\ Len(cs) = n /\ ws \in Seq(W) /\ Len(ws) = n
    BY <1>1, <2>1, <2>2
  <2>4. QED
    BY Zenon, <2>3 DEF C, W
<1>6. CASE n = 0
  <2>1. cs = <<>> /\ ws = <<>>
    BY <1>5, <1>6, EmptySeq
  <2>2. FlattenSeq(<<>>) = <<>>
    BY DEF FlattenSeq
  <2>3. <<>> \in Seq(Commands) /\ <<>> \in Seq(R)
    BY EmptySeq
  <2>4. QED
    BY Zenon, <2>1, <2>2, <2>3, PrintsNothing DEF cs, ws, R
<1>7. CASE n # 0
  <2>1. PICK f : FlattenSeq(cs) = f[n] /\ Joins(f, cs, n)
    <3>1. Len(cs) # 0
      BY <1>5, <1>7
    <3>2. \E f : FlattenSeq(cs) = f[Len(cs)] /\ Joins(f, cs, Len(cs))
      BY <1>5, <3>1, FlattenJoins
    <3>3. QED
      BY Zenon, <1>5, <3>2
  <2>2. PICK g : FlattenSeq(ws) = g[n] /\ Joins(g, ws, n)
    <3>1. Len(ws) # 0
      BY <1>5, <1>7
    <3>2. \E g : FlattenSeq(ws) = g[Len(ws)] /\ Joins(g, ws, Len(ws))
      BY <1>5, <3>1, FlattenJoins
    <3>3. QED
      BY Zenon, <1>5, <3>2
  <2>2a. \A i \in 1 .. n : /\ f[i] = IF i = 1 THEN cs[i] ELSE f[i - 1] \o cs[i]
                           /\ g[i] = IF i = 1 THEN ws[i] ELSE g[i - 1] \o ws[i]
    BY Zenon, <2>1, <2>2 DEF Joins
  <2> DEFINE ok(i) == /\ f[i] \in Seq(Commands) /\ g[i] \in Seq(R)
                      /\ Prints(Rolled(<<>>), f[i], Rolled(g[i]))
             T == {m \in Nat : m \in 1 .. n => ok(m)}
  <2>3. 1 \in 1 .. n => ok(1)
    <3> SUFFICES ASSUME 1 \in 1 .. n PROVE ok(1)
      OBVIOUS
    <3>1. f[1] = cs[1] /\ g[1] = ws[1]
      BY <2>2a
    <3>2. <<>> \in Seq(R) /\ ws[1] \in Seq(R) /\ cs[1] \in Seq(Commands)
      BY <1>3, EmptySeq
    <3>3. <<>> \o ws[1] = ws[1]
      BY <3>2, ConcatEmptySeq
    <3>4. QED
      BY Zenon, <1>3, <3>1, <3>2, <3>3
  <2>4. ASSUME NEW m \in Nat, m # 0, m + 1 \in 1 .. n, ok(m) PROVE ok(m + 1)
    <3> DEFINE i == m + 1
    <3>1. i \in 1 .. n /\ i # 1 /\ i - 1 = m
      BY <2>4
    <3> HIDE DEF i
    <3>2. f[i] = f[m] \o cs[i] /\ g[i] = g[m] \o ws[i]
      BY Zenon, <2>2a, <3>1
    <3>3. cs[i] \in Seq(Commands) /\ ws[i] \in Seq(R) /\ f[m] \in Seq(Commands) /\ g[m] \in Seq(R)
      BY Zenon, <1>3, <2>4, <3>1
    <3>4. f[i] \in Seq(Commands) /\ g[i] \in Seq(R)
      BY <3>2, <3>3, Joined
    <3>5. Prints(Rolled(g[m]), cs[i], Rolled(g[m] \o ws[i]))
      BY Zenon, <1>3, <3>1, <3>3
    <3>6. Prints(Rolled(<<>>), f[m], Rolled(g[m]))
      BY Zenon, <2>4
    <3>7. Prints(Rolled(<<>>), f[m] \o cs[i], Rolled(g[m] \o ws[i]))
      BY <3>3, <3>5, <3>6, PrintsOn
    <3>8. QED
      BY Zenon, <3>2, <3>4, <3>7 DEF i
  <2> HIDE DEF ok
  <2>5. 0 \in T
    OBVIOUS
  <2>6. ASSUME NEW m \in T PROVE m + 1 \in T
    <3>1. CASE m = 0
      BY <2>3, <3>1
    <3>2. CASE m # 0
      <4>1. m + 1 \in 1 .. n => m \in 1 .. n
        BY <1>1, <3>2
      <4>2. QED
        BY <2>4, <3>2, <4>1
    <3>3. QED
      BY <3>1, <3>2
  <2>7. T = Nat
    <3>1. T \in SUBSET Nat
      OBVIOUS
    <3> HIDE DEF T
    <3>2. QED
      BY <2>5, <2>6, <3>1, EveryNatural
  <2>8. ok(n)
    <3>1. n \in 1 .. n
      BY <1>1, <1>7
    <3>2. QED
      BY <1>1, <2>7, <3>1
  <2>9. QED
    BY Zenon, <2>1, <2>2, <2>8 DEF ok, cs, ws, R
<1>8. QED
  BY <1>6, <1>7

-----------------------------------------------------------------------------
(* The whole stream.                                                       *)

\* How far the paper is fed before the cut.
CutFeed(opts) == IF opts.cutFeed <= 0 THEN 232 ELSE Min({opts.cutFeed, 2000})

\* The cuts that are asked for.
Cuts(opts) == IF opts.cut THEN <<CutFeed(opts)>> ELSE <<>>

\* How often the drawer is to open.
Kicks(opts) == IF opts.drawer THEN 1 ELSE 0

\* A receipt with nothing left to do but to be torn off.
Finished(opts, rows, text) ==
  Paper(rows, text, IF opts.cut THEN CutFeed(opts) ELSE 0, Cuts(opts), Kicks(opts))

\* Options an encoder takes.
IsOptions(opts) == opts \in [cut : BOOLEAN, drawer : BOOLEAN, cutFeed : Int, topMargin : Int]

\* The feed that is asked for, and what the encoder keeps of a top margin.
LEMMA FeedIs ==
  ASSUME NEW opts, IsOptions(opts)
  PROVE  /\ resolveCutFeed(opts.cutFeed) = CutFeed(opts) /\ CutFeed(opts) \in 0 .. maxFeedDots
         /\ Margin(opts) = (IF opts.topMargin <= 0 THEN 16 ELSE opts.topMargin) /\ Margin(opts) \in Nat
<1> DEFINE d == opts.cutFeed
           m == opts.topMargin
           N == 2000
<1>1. d \in Int /\ m \in Int /\ N \in Nat
  BY DEF IsOptions
<1>2. resolveCutFeed(d) = IF d <= 0 THEN 232 ELSE IF d > N THEN N ELSE d
  BY DEF resolveCutFeed, defaultCutFeedDots, maxFeedDots
<1>3. CutFeed(opts) = IF d <= 0 THEN 232 ELSE Min({d, N})
  BY DEF CutFeed, d
<1> HIDE DEF d, m, N
<1>4. ASSUME d > 0 PROVE Min({d, N}) = IF d > N THEN N ELSE d
  <2> DEFINE least == IF d > N THEN N ELSE d
             S == {d, N}
             min == Min(S)
  <2>1. least \in S /\ \A x \in S : least <= x
    BY <1>1
  <2>2. S \in SUBSET Nat /\ S # {}
    BY <1>1, <1>4
  <2> HIDE DEF S, least
  <2>3. min \in S /\ \A x \in S : min <= x
    BY <2>2, MinIs
  <2> HIDE DEF min
  <2>4. min \in Nat /\ least \in Nat /\ min <= least /\ least <= min
    BY <2>1, <2>2, <2>3
  <2>5. min = least
    BY <2>4
  <2>6. QED
    BY Zenon, <2>5 DEF min, least, S
<1>5. resolveCutFeed(d) = CutFeed(opts) /\ CutFeed(opts) \in 0 .. maxFeedDots
  BY <1>1, <1>2, <1>3, <1>4 DEF maxFeedDots, N
<1>6. Margin(opts) = (IF m <= 0 THEN 16 ELSE m)
  BY DEF Margin, resolveTopMargin, defaultTopMarginDots, m
<1>7. (IF m <= 0 THEN 16 ELSE m) \in Nat
  BY <1>1
<1>8. QED
  BY <1>5, <1>6, <1>7 DEF d, m

\* The end of a stream opens the drawer and cuts, each if asked to.
LEMMA FinishPrints ==
  ASSUME NEW opts, IsOptions(opts), NEW r, NEW t
  PROVE  /\ Finish(opts) \in Seq(Commands)
         /\ Prints(Paper(r, t, 0, <<>>, 0), Finish(opts), Finished(opts, r, t))
<1> DEFINE D == IF opts.drawer THEN <<CmdDrawer>> ELSE <<>>
           feed == CutFeed(opts)
           C == IF opts.cut THEN chain[feed] \o <<CmdFullCut>> ELSE <<>>
           k == Kicks(opts)
           p == Paper(r, t, 0, <<>>, 0)
           q == Paper(r, t, 0, <<>>, k)
<1>1. feed \in 0 .. maxFeedDots /\ resolveCutFeed(opts.cutFeed) = feed
  BY FeedIs
<1>2. Finish(opts) = D \o C
  BY Zenon, <1>1 DEF Finish, escJFeed
<1>3. D \in Seq(Commands) /\ Prints(p, D, q)
  <2>1. CASE opts.drawer
    <3>1. Obey(p, CmdDrawer) = Paper(r, t, 0, <<>>, 0 + 1)
      BY Zenon, ObeyDrawer
    <3>2. 0 + 1 = k
      BY <2>1 DEF Kicks
    <3>3. Prints(p, <<CmdDrawer>>, q)
      BY Zenon, <3>1, <3>2, PrintsOne
    <3>4. <<CmdDrawer>> \in Seq(Commands)
      BY DEF Commands
    <3>5. QED
      BY Zenon, <2>1, <3>3, <3>4
  <2>2. CASE ~ opts.drawer
    <3>1. k = 0
      BY <2>2 DEF Kicks
    <3>2. D = <<>>
      BY <2>2
    <3>3. QED
      BY Zenon, <3>1, <3>2, PrintsNothing, EmptySeq
  <2>3. QED
    BY <2>1, <2>2
<1>4. C \in Seq(Commands) /\ Prints(q, C, Finished(opts, r, t))
  <2>1. CASE opts.cut
    <3> DEFINE s == chain[feed]
               l == Paper(r, t, feed, <<>>, k)
               e == Paper(r, t, feed, <<feed>>, k)
    <3>1. s \in Seq(Commands) /\ Prints(q, s, Paper(r, t, 0 + feed, <<>>, k))
      BY <1>1, ChainFeeds
    <3>2. 0 + feed = feed /\ Append(<<>>, feed) = <<feed>>
      BY <1>1
    <3>3. Obey(l, CmdFullCut) = e
      <4>1. \A c : Obey(Paper(r, t, feed, c, k), CmdFullCut) = Paper(r, t, feed, Append(c, feed), k)
        BY ObeyCut
      <4> HIDE DEF feed, k
      <4>2. QED
        BY <3>2, <4>1
    <3>4. Prints(l, <<CmdFullCut>>, e)
      BY Zenon, <3>3, PrintsOne
    <3>5. <<CmdFullCut>> \in Seq(Commands)
      BY DEF Commands
    <3>6. Prints(q, s, l)
      BY Zenon, <3>1, <3>2
    <3>7. e = Finished(opts, r, t)
      BY Zenon, <2>1 DEF Finished, Cuts
    <3> HIDE DEF s, l, e, q
    <3>8. s \o <<CmdFullCut>> \in Seq(Commands) /\ Prints(q, s \o <<CmdFullCut>>, e)
      BY <3>1, <3>4, <3>5, <3>6, PrintsOn, Joined
    <3>9. QED
      BY Zenon, <2>1, <3>7, <3>8 DEF s
  <2>2. CASE ~ opts.cut
    <3>1. C = <<>> /\ q = Finished(opts, r, t)
      BY Zenon, <2>2 DEF Finished, Cuts
    <3>2. QED
      BY Zenon, <3>1, PrintsNothing, EmptySeq
  <2>3. QED
    BY <2>1, <2>2
<1> HIDE DEF D, C, p, q
<1>5. D \o C \in Seq(Commands) /\ Prints(p, D \o C, Finished(opts, r, t))
  BY <1>3, <1>4, PrintsOn, Joined
<1>6. QED
  BY Zenon, <1>2, <1>5 DEF p

\* A stream that starts a receipt, has what the body prints and ends the receipt.
LEMMA StreamPrints ==
  ASSUME NEW opts, IsOptions(opts), NEW s \in Seq(Commands), NEW r, NEW t,
         Prints(Fresh, s, Paper(r, t, 0, <<>>, 0))
  PROVE  Printed(<<CmdInit>> \o s \o Finish(opts)) = Finished(opts, r, t)
<1> DEFINE i == <<CmdInit>>
           z == Finish(opts)
           p == Paper(r, t, 0, <<>>, 0)
           q == Finished(opts, r, t)
<1>1. i \in Seq(Commands)
  BY DEF Commands
<1>2. Prints(Fresh, i, Fresh)
  <2>1. Obey(Fresh, CmdInit) = Fresh
    BY Zenon, FreshIs, ObeyInit
  <2>2. QED
    BY Zenon, <2>1, PrintsOne
<1>3. z \in Seq(Commands) /\ Prints(p, z, q)
  BY FinishPrints
<1> HIDE DEF i, z, p, q
<1>4. i \o s \in Seq(Commands) /\ Prints(Fresh, i \o s, p)
  BY <1>1, <1>2, PrintsOn, Joined DEF p
<1>5. (i \o s) \o z \in Seq(Commands) /\ Prints(Fresh, (i \o s) \o z, q)
  BY <1>3, <1>4, PrintsOn, Joined
<1>6. Printed((i \o s) \o z) = q
  BY <1>5, PrintedIs
<1>7. QED
  BY Zenon, <1>6 DEF i, z, q

-----------------------------------------------------------------------------
(* Every receipt.                                                          *)

\* Pages an encoder takes.
IsReceipt(pages) ==
  /\ pages \in Seq([width : Nat, rows : Seq(Seq(Nat))])
  /\ \A i \in 1 .. Len(pages) : Framed(pages[i])

\* A stream that an encoder made of its arguments.
Written(w) ==
  /\ IsOptions(w.opts)
  /\ \/ IsReceipt(w.pages) /\ w.body = <<>> /\ w.stream = EncodeRaster(w.pages, w.opts)
     \/ w.pages = <<>> /\ w.body \in Seq(STRING) /\ w.stream = EncodeText(w.body, w.opts)

\* What the two encoders print.
LEMMA RasterPrints ==
  ASSUME NEW pages, IsReceipt(pages), NEW opts, IsOptions(opts)
  PROVE  Printed(EncodeRaster(pages, opts))
           = Finished(opts, FlattenSeq(PageRows(pages, Margin(opts))), <<>>)
<1> DEFINE keep == Margin(opts)
           s == FlattenSeq(PageCommands(pages, keep))
           r == FlattenSeq(PageRows(pages, keep))
<1>1. keep \in Nat
  BY FeedIs
<1>2. EncodeRaster(pages, opts) = <<CmdInit>> \o s \o Finish(opts)
  BY Zenon DEF EncodeRaster, PageCommands, Trimmed, Margin
<1> HIDE DEF keep
<1>3. s \in Seq(Commands) /\ Prints(Rolled(<<>>), s, Rolled(r))
  BY <1>1, PagesPrint DEF IsReceipt
<1>4. Prints(Fresh, s, Paper(r, <<>>, 0, <<>>, 0))
  BY Zenon, <1>3, FreshIs DEF Rolled
<1> HIDE DEF s, r
<1>5. Printed(<<CmdInit>> \o s \o Finish(opts)) = Finished(opts, r, <<>>)
  BY <1>3, <1>4, StreamPrints
<1>6. QED
  BY Zenon, <1>2, <1>5 DEF r, keep

LEMMA TextPrints ==
  ASSUME NEW body \in Seq(STRING), NEW opts, IsOptions(opts)
  PROVE  Printed(EncodeText(body, opts)) = Finished(opts, <<>>, body)
<1> DEFINE s == IF body # <<>> THEN <<Text(body)>> ELSE <<>>
           p == Paper(<<>>, body, 0, <<>>, 0)
<1>1. s \in Seq(Commands)
  <2>1. <<Text(body)>> \in Seq(Commands)
    BY DEF Commands
  <2>2. QED
    BY <2>1, EmptySeq
<1>2. Prints(Fresh, s, p)
  <2>1. CASE body # <<>>
    <3>1. Obey(Fresh, Text(body)) = Paper(<<>>, <<>> \o body, 0, <<>>, 0)
      <4>1. \A t : Obey(Paper(<<>>, t, 0, <<>>, 0), Text(body)) = Paper(<<>>, t \o body, 0, <<>>, 0)
        BY ObeyText
      <4>2. QED
        BY <4>1, FreshIs
    <3>2. <<>> \o body = body
      BY ConcatEmptySeq
    <3>3. QED
      BY Zenon, <2>1, <3>1, <3>2, PrintsOne
  <2>2. CASE body = <<>>
    BY Zenon, <2>2, FreshIs, PrintsNothing
  <2>3. QED
    BY <2>1, <2>2
<1>3. EncodeText(body, opts) = <<CmdInit>> \o s \o Finish(opts)
  BY Zenon DEF EncodeText
<1> HIDE DEF s
<1>4. Printed(<<CmdInit>> \o s \o Finish(opts)) = Finished(opts, <<>>, body)
  BY <1>1, <1>2, StreamPrints
<1>5. QED
  BY Zenon, <1>3, <1>4

\* A stream that was written is one receipt.
LEMMA WrittenPrints ==
  ASSUME NEW w, Written(w)
  PROVE  Printed(w.stream) = Finished(w.opts, FlattenSeq(PageRows(w.pages, Margin(w.opts))), w.body)
<1>1. IsOptions(w.opts)
  BY Zenon DEF Written
<1>2. CASE IsReceipt(w.pages) /\ w.body = <<>> /\ w.stream = EncodeRaster(w.pages, w.opts)
  BY Zenon, <1>1, <1>2, RasterPrints
<1>3. CASE w.pages = <<>> /\ w.body \in Seq(STRING) /\ w.stream = EncodeText(w.body, w.opts)
  <2> DEFINE keep == Margin(w.opts)
  <2>1. PageRows(<<>>, keep) = <<>>
    BY DEF PageRows
  <2>2. FlattenSeq(<<>>) = <<>>
    BY DEF FlattenSeq
  <2>3. Printed(EncodeText(w.body, w.opts)) = Finished(w.opts, <<>>, w.body)
    BY Zenon, <1>1, <1>3, TextPrints
  <2>4. QED
    BY Zenon, <1>3, <2>1, <2>2, <2>3
<1>4. QED
  BY Zenon, <1>2, <1>3 DEF Written

\* What the work of an encoder holds comes from its arguments.
ReceiptWritten == work.task = "receipt" => Written(work)

\* What is on the paper of a receipt that was written.
LEMMA ReceiptFromPages == ReceiptWritten => ReceiptOnPaper
<1> SUFFICES ASSUME work.task = "receipt", Written(work) PROVE ReceiptOnPaper
  BY Zenon DEF ReceiptWritten, ReceiptOnPaper
<1> DEFINE paper == Printed(work.stream)
           opts == work.opts
           r == FlattenSeq(PageRows(work.pages, Margin(opts)))
           left == IF opts.cut THEN CutFeed(opts) ELSE 0
<1>1. paper = Finished(opts, r, work.body)
  BY WrittenPrints
<1>2. IsOptions(opts)
  BY Zenon DEF Written
<1> HIDE DEF paper, r, left
<1>3. /\ paper.rows = r /\ paper.text = work.body /\ paper.fed = left
      /\ paper.cuts = Cuts(opts) /\ paper.kicks = Kicks(opts) /\ paper.sane = Well
  BY <1>1 DEF Finished, Paper, Roll, left
<1>4. Margin(opts) = IF opts.topMargin <= 0 THEN 16 ELSE opts.topMargin
  BY <1>2, FeedIs
<1>5. paper.sane
  BY <1>3 DEF Well
<1>6. ~ opts.cut => paper.fed = 0
  BY Zenon, <1>3 DEF left
<1>7. r = FlattenSeq([i \in DOMAIN work.pages |->
            Wanted(work.pages, i, IF opts.topMargin <= 0 THEN 16 ELSE opts.topMargin)])
  BY Zenon, <1>4 DEF r, PageRows
<1>8. QED
  BY <1>3, <1>5, <1>6, <1>7 DEF ReceiptOnPaper, paper, Cuts, CutFeed, Kicks

\* Whatever pages or text a receipt is made of, whatever its options say: every wanted
\* row is on the paper once and in order, the printer never loses the stream, and the
\* cut and the drawer come once and only if asked for (raster.go, text.go, escpos.go).
THEOREM ReceiptIsRight == DevicesSpec => []ReceiptOnPaper
<1>1. DevicesInit => ReceiptWritten
  BY DEF DevicesInit, Nothing, ReceiptWritten
<1>2. ReceiptWritten /\ [DevicesNext]_work => ReceiptWritten'
  <2> SUFFICES ASSUME ReceiptWritten, [DevicesNext]_work PROVE ReceiptWritten'
    OBVIOUS
  <2>1. CASE EncodeReceipt
    <3>1. PICK pages \in Receipts, opts \in Options :
            work' = [task |-> "receipt", pages |-> pages, body |-> <<>>, opts |-> opts,
                     stream |-> EncodeRaster(pages, opts)]
      BY Zenon, <2>1 DEF EncodeReceipt
    <3>2. IsReceipt(pages) /\ IsOptions(opts)
      BY DevicesAssumption DEF IsReceipt, IsOptions
    <3>3. /\ work'.opts = opts /\ work'.pages = pages /\ work'.body = <<>>
          /\ work'.stream = EncodeRaster(pages, opts)
      BY Zenon, <3>1
    <3>4. Written(work')
      BY Zenon, <3>2, <3>3 DEF Written
    <3>5. QED
      BY Zenon, <3>4 DEF ReceiptWritten
  <2>2. CASE EncodeSlip
    <3>1. PICK body \in Bodies, opts \in Options :
            work' = [task |-> "receipt", pages |-> <<>>, body |-> body, opts |-> opts,
                     stream |-> EncodeText(body, opts)]
      BY Zenon, <2>2 DEF EncodeSlip
    <3>2. body \in Seq(STRING) /\ IsOptions(opts)
      BY DevicesAssumption DEF IsOptions
    <3>3. /\ work'.opts = opts /\ work'.pages = <<>> /\ work'.body = body
          /\ work'.stream = EncodeText(body, opts)
      BY Zenon, <3>1
    <3>4. Written(work')
      BY Zenon, <3>2, <3>3 DEF Written
    <3>5. QED
      BY Zenon, <3>4 DEF ReceiptWritten
  <2>3. CASE DrawPage
    <3>1. work'.task = "draw"
      BY <2>3 DEF DrawPage
    <3>2. QED
      BY <3>1 DEF ReceiptWritten
  <2>4. CASE BinarizePage
    <3>1. work'.task = "binarize"
      BY <2>4 DEF BinarizePage
    <3>2. QED
      BY <3>1 DEF ReceiptWritten
  <2>5. CASE PackPages
    <3>1. work'.task = "container"
      BY <2>5 DEF PackPages
    <3>2. QED
      BY <3>1 DEF ReceiptWritten
  <2>6. CASE Return
    BY <2>6 DEF Return, Nothing, ReceiptWritten
  <2>7. CASE UNCHANGED work
    BY <2>7 DEF ReceiptWritten
  <2>8. QED
    BY <2>1, <2>2, <2>3, <2>4, <2>5, <2>6, <2>7 DEF DevicesNext
<1>3. QED
  BY <1>1, <1>2, ReceiptFromPages, PTL DEF DevicesSpec
=============================================================================
