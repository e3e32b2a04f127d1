--------------------------- MODULE JobStore_proofs --------------------------
(***************************************************************************)
(* What the operations of the store return and preserve, for every set of  *)
(* jobs and frames and every bound: the lemmas the proofs of the modules   *)
(* that use the store cite.                                                *)
(***************************************************************************)
EXTENDS JobStore, TLAPS

\* Recording an id gives a map of ids to seconds with that id in it.
LEMMA PutType ==
  ASSUME NEW d, IsDoneMap(d), NEW id \in Job, NEW now \in Nat
  PROVE  /\ IsDoneMap(Put(d, id, now))
         /\ DOMAIN Put(d, id, now) = DOMAIN d \cup {id}
         /\ Put(d, id, now)[id] = now
         /\ \A j \in DOMAIN d \ {id} : Put(d, id, now)[j] = d[j]
BY DEF IsDoneMap, Put

\* prune only ever drops ids: what it keeps keeps its timestamp.
LEMMA PruneType ==
  ASSUME NEW d, IsDoneMap(d), NEW e \in prune(d)
  PROVE  /\ IsDoneMap(e)
         /\ DOMAIN e \subseteq DOMAIN d
         /\ \A j \in DOMAIN e : e[j] = d[j]
<1>1. CASE e = d
  BY <1>1
<1>2. CASE e # d
  <2>1. PICK K \in SUBSET DOMAIN d : e = [j \in K |-> d[j]]
    BY <1>2 DEF prune
  <2>2. QED
    BY <2>1 DEF IsDoneMap
<1>3. QED
  BY <1>1, <1>2

\* What persist writes is well formed when what it is given is.
LEMMA PersistType ==
  ASSUME StoreTypeOK, NEW d, IsDoneMap(d), NEW p \in Seq(Frame), persist(d, p)
  PROVE  /\ disk' = [done |-> disk'.done, pending |-> disk'.pending]
         /\ IsDoneMap(disk'.done) /\ disk'.pending \in Seq(Frame)
BY DEF StoreTypeOK, persist

\* The type of the store is kept by each of its operations; MarkDone adds at
\* most the id it is given.
LEMMA MarkDoneType ==
  ASSUME StoreTypeOK, NEW id \in Job, NEW now \in Nat, MarkDone(id, now)
  PROVE  StoreTypeOK' /\ DOMAIN done' \subseteq DOMAIN done \cup {id}
<1>1. PICK d \in prune(Put(done, id, now)) :
        done' = d /\ persist(d, pending) /\ UNCHANGED pending
  BY DEF MarkDone
<1>2. IsDoneMap(d) /\ DOMAIN d \subseteq DOMAIN done \cup {id}
  <2>1. IsDoneMap(done)
    BY DEF StoreTypeOK
  <2>2. /\ IsDoneMap(Put(done, id, now))
        /\ DOMAIN Put(done, id, now) = DOMAIN done \cup {id}
    BY <2>1, PutType
  <2>3. QED
    BY <2>2, PruneType
<1>3. IsDoneMap(done') /\ DOMAIN done' \subseteq DOMAIN done \cup {id}
  BY <1>1, <1>2 DEF IsDoneMap
<1>4. pending \in Seq(Frame) /\ pending' = pending
  BY <1>1 DEF StoreTypeOK
<1>5. /\ disk' = [done |-> disk'.done, pending |-> disk'.pending]
      /\ IsDoneMap(disk'.done) /\ disk'.pending \in Seq(Frame)
  BY <1>1, <1>2, <1>4, PersistType
<1>6. QED
  BY <1>3, <1>4, <1>5 DEF StoreTypeOK, IsDoneMap

LEMMA AddPendingType ==
  ASSUME StoreTypeOK, NEW f \in Frame, AddPending(f)
  PROVE  StoreTypeOK' /\ done' = done
<1>1. pending' \in Seq(Frame)
  BY DEF AddPending, StoreTypeOK
<1>2. QED
  BY <1>1, PersistType DEF AddPending, StoreTypeOK, IsDoneMap

LEMMA TakePendingType ==
  ASSUME StoreTypeOK, TakePending
  PROVE  StoreTypeOK' /\ done' = done
<1>1. <<>> \in Seq(Frame) /\ IsDoneMap(done)
  BY DEF StoreTypeOK
<1>2. /\ disk' = [done |-> disk'.done, pending |-> disk'.pending]
      /\ IsDoneMap(disk'.done) /\ disk'.pending \in Seq(Frame)
  BY <1>1, PersistType DEF TakePending
<1>3. QED
  BY <1>1, <1>2 DEF TakePending, StoreTypeOK, IsDoneMap

LEMMA LoadType ==
  ASSUME StoreTypeOK, load
  PROVE  StoreTypeOK' /\ DOMAIN done' \subseteq Job
<1>1. IsDoneMap(disk.done) /\ disk.pending \in Seq(Frame)
  BY DEF StoreTypeOK
<1>2. CASE done' = disk.done /\ pending' = disk.pending
  BY <1>1, <1>2 DEF load, StoreTypeOK, IsDoneMap
<1>3. CASE done' = [j \in {} |-> 0] /\ pending' = <<>>
  <2>1. IsDoneMap([j \in {} |-> 0])
    BY DEF IsDoneMap
  <2>2. <<>> \in Seq(Frame)
    OBVIOUS
  <2>3. IsDoneMap(done') /\ pending' \in Seq(Frame)
    BY <1>3, <2>1, <2>2 DEF IsDoneMap
  <2>4. QED
    BY <1>1, <2>3 DEF load, StoreTypeOK, IsDoneMap
<1>4. QED
  BY <1>2, <1>3 DEF load

=============================================================================
