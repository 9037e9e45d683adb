------------------------ MODULE MappedSnapshotProofs ------------------------
(***************************************************************************)
(* Proofs about a mapped snapshot for any number of threads and keys: the  *)
(* leases are counted exactly and keep it open, its model is decoded once, *)
(* and the close callbacks run only when the mapping is gone.              *)
(***************************************************************************)
EXTENDS MappedSnapshot, FiniteSetTheorems, TLAPS

\* Places under the state lock; with a view asked for; and without one.  Only
\* in the decoder may a thread be there on either account.
Locking == {"decode", "clear", "check", "release", "unmap"}
Asking == {"want", "borrow", "take", "retain", "read", "charge", "publish", "raised"}
Resting == {"idle", "unwound", "clear", "check", "release", "unmap", "in_use", "build_error", "buffer_error"}

\* The state lock is held in its critical sections and nowhere else.
Locked == \A t \in Threads : pc[t] \in Locking <=> stateLock = t

\* A thread that asks knows its key, and past get_or_build it is its builder.
Asked ==
  \A t \in Threads :
    /\ pc[t] \in Asking => key[t] \in Keys
    /\ pc[t] \in Resting => key[t] = Nobody
    /\ key[t] # Nobody /\ pc[t] # "want" => inflight[key[t]] = t

\* A view is built only when there is none; a lease belongs to a live view.
Unique ==
  /\ \A k \in Keys : inflight[k] # Nobody => k \notin Live
  /\ leased \subseteq Live

\* Where a build may own a lease and buffers.
Owned ==
  \A t \in Threads :
    /\ lease[t] => pc[t] \in {"charge", "publish", "raised", "unwound"}
    /\ exported[t] => pc[t] \in {"retain", "charge", "publish", "raised", "unwound"}

\* Closing goes through its stages in order, and not while the decoder reads.
Staged ==
  /\ image = "released" => closed
  /\ callbacks = "run" => closed /\ image = "released"
  /\ \A t \in Threads :
       /\ pc[t] \in {"release", "unmap"} => closed
       /\ pc[t] = "unmap" => image = "released"
       /\ pc[t] = "decode" => ~ closed /\ decoded = 0

Leasers == {t \in Threads : lease[t]}

Counted ==
  /\ IsFiniteSet(PendingDrops)
  /\ dependents = Cardinality(leased) + Cardinality(Leasers) + Cardinality(PendingDrops)

ClosedWithoutLeases == closed => leased = {} /\ \A t \in Threads : ~ lease[t]

Control == TypeOK /\ Locked /\ Asked /\ Unique /\ Owned /\ Staged
Inductive == Control /\ Counted /\ ClosedWithoutLeases /\ CallbacksAfterUnmap

-----------------------------------------------------------------------------
\* One way to split Next.
ThreadStep(t) ==
  \/ Release(t) \/ Materialize(t) \/ Hit(t) \/ Miss(t) \/ CheckColumns(t) \/ TakeColumns(t)
  \/ Retain(t) \/ CopyColumns(t) \/ LockDecode(t) \/ Decode(t) \/ Charge(t) \/ Publish(t)
  \/ FailBuild(t) \/ DropError(t) \/ CloseLock(t) \/ CloseClear(t) \/ CloseCheck(t)
  \/ CloseImage(t) \/ CloseMapping(t) \/ Caught(t)
  \/ \E k \in Keys : View(t, k) \/ DropView(t, k)

\* A step of the model is a step of one thread, the interpreter abandoning the snapshot, or none.
LEMMA Steps ==
  ASSUME [Next]_vars
  PROVE  (\E t \in Threads : ThreadStep(t)) \/ Abandon \/ UNCHANGED vars
BY DEF Next, Build, Close, ThreadStep

-----------------------------------------------------------------------------
(* The finalizers still to run.                                               *)

\* A finalizer still to run is the i-th one some thread has dropped a lease for.
LEMMA PendingMember ==
  ASSUME NEW p
  PROVE  p \in PendingDrops <=> \E u \in Threads : \E i \in 1 .. drop[u] : p = <<u, i>>
BY DEF PendingDrops

\* A thread without finalizers gets n of them.
LEMMA DropsAdded ==
  ASSUME TypeOK, IsFiniteSet(PendingDrops), NEW t \in Threads, NEW n \in Nat, drop[t] = 0,
         drop' = [drop EXCEPT ![t] = n]
  PROVE  /\ IsFiniteSet(PendingDrops')
         /\ Cardinality(PendingDrops') = Cardinality(PendingDrops) + n
<1> DEFINE new == {t} \X (1 .. n)
<1>1. drop \in [Threads -> Nat] /\ drop'[t] = n /\ \A u \in Threads : u # t => drop'[u] = drop[u]
  BY DEF TypeOK
<1>2. PendingDrops' = PendingDrops \cup new
  <2>1. ASSUME NEW p
        PROVE  p \in PendingDrops' <=> \E u \in Threads : \E i \in 1 .. drop'[u] : p = <<u, i>>
    BY DEF PendingDrops
  <2>2. ASSUME NEW p PROVE p \in new <=> \E i \in 1 .. n : p = <<t, i>>
    OBVIOUS
  <2> HIDE DEF new
  <2> QED BY <1>1, <2>1, <2>2, PendingMember
<1>3. PendingDrops \cap new = {}
  <2>1. ASSUME NEW p \in PendingDrops PROVE p \notin new
    <3> PICK u \in Threads : \E i \in 1 .. drop[u] : p = <<u, i>>
      BY PendingMember
    <3>1. u # t
      OBVIOUS
    <3> QED BY <3>1
  <2> QED BY <2>1
<1>4. IsFiniteSet(new) /\ Cardinality(new) = n
  <2>1. IsFiniteSet({t}) /\ Cardinality({t}) = 1
    BY FS_Singleton, Zenon
  <2>2. IsFiniteSet(1 .. n) /\ Cardinality(1 .. n) = n
    BY FS_Interval
  <2> DEFINE A == {t}
             B == 1 .. n
  <2>3. new = A \X B
    OBVIOUS
  <2>4. IsFiniteSet(A) /\ Cardinality(A) = 1 /\ IsFiniteSet(B) /\ Cardinality(B) = n
    BY <2>1, <2>2
  <2> HIDE DEF A, B, new
  <2>5. IsFiniteSet(A \X B) /\ Cardinality(A \X B) = Cardinality(A) * Cardinality(B)
    BY ONLY <2>4, FS_Product, Zenon
  <2>6. 1 * n = n
    OBVIOUS
  <2> QED BY ONLY <2>3, <2>4, <2>5, <2>6
<1>5. Cardinality(PendingDrops \cap new) = 0 /\ Cardinality(PendingDrops) \in Nat
  BY <1>3, FS_EmptySet, FS_CardinalityType, Zenon
<1> HIDE DEF new
<1>6. /\ IsFiniteSet(PendingDrops \cup new)
      /\ Cardinality(PendingDrops \cup new) =
           Cardinality(PendingDrops) + Cardinality(new) - Cardinality(PendingDrops \cap new)
  BY <1>4, FS_Union, Zenon
<1> QED BY <1>2, <1>4, <1>5, <1>6

\* A thread runs one of its finalizers.
LEMMA DropsRun ==
  ASSUME TypeOK, IsFiniteSet(PendingDrops), NEW t \in Threads, drop[t] > 0,
         drop' = [drop EXCEPT ![t] = @ - 1]
  PROVE  /\ IsFiniteSet(PendingDrops')
         /\ Cardinality(PendingDrops') = Cardinality(PendingDrops) - 1
         /\ Cardinality(PendingDrops) > 0
<1>1. /\ drop \in [Threads -> Nat] /\ drop'[t] = drop[t] - 1
      /\ \A u \in Threads : u # t => drop'[u] = drop[u]
  BY DEF TypeOK
<1> DEFINE last == <<t, drop[t]>>
<1>2. last \in PendingDrops
  BY <1>1, PendingMember
<1>3. PendingDrops' = PendingDrops \ {last}
  <2>1. ASSUME NEW p
        PROVE  p \in PendingDrops' <=> \E u \in Threads : \E i \in 1 .. drop'[u] : p = <<u, i>>
    BY DEF PendingDrops
  <2>2. ASSUME NEW p \in PendingDrops' PROVE p \in PendingDrops /\ p # last
    <3> PICK u \in Threads : \E i \in 1 .. drop'[u] : p = <<u, i>>
      BY <2>1
    <3> PICK i \in 1 .. drop'[u] : p = <<u, i>>
      OBVIOUS
    <3>1. drop[u] \in Nat /\ i \in 1 .. drop[u] /\ (u = t => i # drop[u])
      BY <1>1
    <3> QED BY <3>1, PendingMember
  <2>3. ASSUME NEW p \in PendingDrops, p # last PROVE p \in PendingDrops'
    <3> PICK u \in Threads : \E i \in 1 .. drop[u] : p = <<u, i>>
      BY PendingMember
    <3> PICK i \in 1 .. drop[u] : p = <<u, i>>
      OBVIOUS
    <3>1. drop[u] \in Nat /\ i \in 1 .. drop'[u]
      BY <1>1, <2>3
    <3> QED BY <2>1, <3>1
  <2> QED BY <2>2, <2>3
<1>4. Cardinality(PendingDrops) \in Nat /\ (Cardinality(PendingDrops) = 0 <=> PendingDrops = {})
  BY FS_CardinalityType, FS_EmptySet
<1> HIDE DEF last
<1> QED BY <1>2, <1>3, <1>4, FS_RemoveElement

-----------------------------------------------------------------------------

\* Leased views and building threads are finitely many, and their counts are zero exactly when there are none.
LEMMA Finite ==
  ASSUME TypeOK
  PROVE  /\ IsFiniteSet(leased) /\ Cardinality(leased) \in Nat
         /\ IsFiniteSet(Leasers) /\ Cardinality(Leasers) \in Nat
         /\ Cardinality(leased) = 0 <=> leased = {}
         /\ Cardinality(Leasers) = 0 <=> Leasers = {}
<1>1. IsFiniteSet(leased)
  BY MappedSnapshotAssumption, FS_Subset DEF TypeOK
<1>2. Leasers \in SUBSET Threads
  BY DEF Leasers
<1>3. IsFiniteSet(Leasers)
  BY <1>2, MappedSnapshotAssumption, FS_Subset
<1> QED BY <1>1, <1>3, FS_CardinalityType, FS_EmptySet

\* Evicting views from the cache leaves leases, finalizers and the cache lock well formed.
LEMMA EvictTypes ==
  ASSUME TypeOK, NEW t \in Threads, NEW V, Evict(t, V)
  PROVE  leased' \subseteq Keys /\ drop' \in [Threads -> Nat] /\ cacheLock' \in Threads \cup {Nobody}
<1> DEFINE dead == (V \ held) \cap leased
<1>1. Cardinality(dead) \in Nat
  BY Finite, FS_Intersection, FS_CardinalityType, Zenon
<1>2. /\ leased' = leased \ dead /\ drop' = [drop EXCEPT ![t] = Cardinality(dead)]
      /\ cacheLock' = IF dead = {} THEN cacheLock ELSE t
  BY DEF Evict
<1> HIDE DEF dead
<1> QED BY <1>1, <1>2 DEF TypeOK

\* A thread's step keeps every variable in its type.
LEMMA TypeStep ==
  ASSUME Control, NEW t \in Threads, ThreadStep(t)
  PROVE  TypeOK'
<1>1. CASE Release(t)
  BY <1>1 DEF Control, TypeOK, Places, Release, Finalized, Unlocked, state, cache, build
<1>2. CASE Materialize(t)
  BY <1>2 DEF Control, TypeOK, Places, Materialize, Returned, At, Goto, state, cache, build
<1>3. CASE Hit(t)
  <2>1. (\E V : Evict(t, V)) \/ UNCHANGED <<leased, drop, cacheLock>>
    BY <1>3 DEF Hit, cache
  <2>2. leased' \subseteq Keys /\ drop' \in [Threads -> Nat] /\ cacheLock' \in Threads \cup {Nobody}
    BY <2>1, EvictTypes DEF Control, TypeOK
  <2> QED BY <1>3, <2>2, Zenon DEF Control, TypeOK, Places, Asked, Asking, Hit, At, Goto, state, cache, build
<1>4. CASE Miss(t)
  BY <1>4, Zenon DEF Control, TypeOK, Places, Miss, At, Goto, state, cache, build
<1>5. CASE CheckColumns(t)
  BY <1>5 DEF Control, TypeOK, Places, CheckColumns, At, Goto, state, cache, build
<1>6. CASE TakeColumns(t)
  BY <1>6 DEF Control, TypeOK, Places, TakeColumns, At, Goto, state, cache, build
<1>7. CASE Retain(t)
  BY <1>7 DEF Control, TypeOK, Places, Retain, RetainUnless, At, Goto, state, cache, build
<1>8. CASE CopyColumns(t)
  BY <1>8 DEF Control, TypeOK, Places, CopyColumns, Copy, At, state, cache, build
<1>9. CASE LockDecode(t)
  BY <1>9 DEF Control, TypeOK, Places, LockDecode, DecodeUnless, Returned, At, Goto, state, cache, build
<1>10. CASE Decode(t)
  BY <1>10 DEF Control, TypeOK, Places, Decode, Returned, At, Goto, state, cache, build
<1>11. CASE Charge(t)
  <2>1. (\E V : Evict(t, V)) \/ UNCHANGED <<leased, drop, cacheLock>>
    BY <1>11 DEF Charge, cache
  <2>2. leased' \subseteq Keys /\ drop' \in [Threads -> Nat] /\ cacheLock' \in Threads \cup {Nobody}
    BY <2>1, EvictTypes DEF Control, TypeOK
  <2> QED BY <1>11, <2>2, Zenon DEF Control, TypeOK, Places, Asked, Asking, Charge, At, Goto, state, cache, build
<1>12. CASE Publish(t)
  BY <1>12 DEF Control, TypeOK, Places, Asked, Asking, Publish, At, Goto, state, cache, build
<1>13. CASE FailBuild(t)
  BY <1>13, Zenon DEF Control, TypeOK, Places, FailBuild, At, Goto, state, cache, build
<1>14. CASE DropError(t)
  BY <1>14 DEF Control, TypeOK, Places, DropError, At, Goto, state, cache, build
<1>15. CASE CloseLock(t)
  BY <1>15 DEF Control, TypeOK, Places, CloseLock, At, Goto, state, cache, build
<1>16. CASE CloseClear(t)
  <2>1. (\E V : Evict(t, V)) \/ UNCHANGED <<leased, drop, cacheLock>>
    BY <1>16 DEF CloseClear, cache
  <2>2. leased' \subseteq Keys /\ drop' \in [Threads -> Nat] /\ cacheLock' \in Threads \cup {Nobody}
    BY <2>1, EvictTypes DEF Control, TypeOK
  <2> QED BY <1>16, <2>2 DEF Control, TypeOK, Places, Asked, Asking, CloseClear, At, Goto, state, cache, build
<1>17. CASE CloseCheck(t)
  BY <1>17, Zenon DEF Control, TypeOK, Places, CloseCheck, At, Goto, state, cache, build
<1>18. CASE CloseImage(t)
  BY <1>18 DEF Control, TypeOK, Places, CloseImage, At, Goto, state, cache, build
<1>19. CASE CloseMapping(t)
  BY <1>19 DEF Control, TypeOK, Places, CloseMapping, CloseMappingThen, At, Goto, state, cache, build
<1>20. CASE Caught(t)
  BY <1>20 DEF Control, TypeOK, Places, Caught, At, Goto, state, cache, build
<1>21. CASE \E k \in Keys : View(t, k)
  BY <1>21 DEF Control, TypeOK, Places, View, At, Goto, state, cache, build
<1>22. CASE \E k \in Keys : DropView(t, k)
  BY <1>22 DEF Control, TypeOK, Places, DropView, At, state, cache, build
<1> QED BY <1>1, <1>2, <1>3, <1>4, <1>5, <1>6, <1>7, <1>8, <1>9, <1>10, <1>11, <1>12, <1>13, <1>14, <1>15, <1>16, <1>17, <1>18, <1>19, <1>20, <1>21, <1>22 DEF ThreadStep

\* A thread's step keeps each lock with the thread whose place in the code says it holds it.
LEMMA LockedStep ==
  ASSUME Control, NEW t \in Threads, ThreadStep(t)
  PROVE  Locked'
<1>1. CASE Release(t)
  BY <1>1, MappedSnapshotAssumption DEF Control, TypeOK, Locked, Locking, Release, Finalized, Unlocked
<1>2. CASE Materialize(t)
  BY <1>2, MappedSnapshotAssumption DEF Control, TypeOK, Locked, Locking, Materialize, Returned, At, Goto
<1>3. CASE Hit(t)
  BY <1>3, MappedSnapshotAssumption DEF Control, TypeOK, Locked, Locking, Hit, Evict, At, Goto
<1>4. CASE Miss(t)
  BY <1>4, MappedSnapshotAssumption DEF Control, TypeOK, Locked, Locking, Miss, At, Goto
<1>5. CASE CheckColumns(t)
  BY <1>5, MappedSnapshotAssumption DEF Control, TypeOK, Locked, Locking, CheckColumns, At, Goto
<1>6. CASE TakeColumns(t)
  BY <1>6, MappedSnapshotAssumption DEF Control, TypeOK, Locked, Locking, TakeColumns, At, Goto
<1>7. CASE Retain(t)
  BY <1>7, MappedSnapshotAssumption DEF Control, TypeOK, Locked, Locking, Retain, RetainUnless, At, Goto
<1>8. CASE CopyColumns(t)
  BY <1>8, MappedSnapshotAssumption DEF Control, TypeOK, Locked, Locking, CopyColumns, Copy, At
<1>9. CASE LockDecode(t)
  BY <1>9, MappedSnapshotAssumption DEF Control, TypeOK, Locked, Locking, LockDecode, DecodeUnless, Returned, At, Goto
<1>10. CASE Decode(t)
  BY <1>10, MappedSnapshotAssumption DEF Control, TypeOK, Locked, Locking, Decode, Returned, At, Goto
<1>11. CASE Charge(t)
  BY <1>11, MappedSnapshotAssumption DEF Control, TypeOK, Locked, Locking, Charge, Evict, At, Goto
<1>12. CASE Publish(t)
  BY <1>12, MappedSnapshotAssumption DEF Control, TypeOK, Locked, Locking, Publish, At, Goto
<1>13. CASE FailBuild(t)
  BY <1>13, MappedSnapshotAssumption DEF Control, TypeOK, Locked, Locking, FailBuild, At, Goto
<1>14. CASE DropError(t)
  BY <1>14, MappedSnapshotAssumption DEF Control, TypeOK, Locked, Locking, DropError, At, Goto
<1>15. CASE CloseLock(t)
  BY <1>15, MappedSnapshotAssumption DEF Control, TypeOK, Locked, Locking, CloseLock, At, Goto
<1>16. CASE CloseClear(t)
  BY <1>16, MappedSnapshotAssumption DEF Control, TypeOK, Locked, Locking, CloseClear, Evict, At, Goto
<1>17. CASE CloseCheck(t)
  BY <1>17, MappedSnapshotAssumption DEF Control, TypeOK, Locked, Locking, CloseCheck, At, Goto
<1>18. CASE CloseImage(t)
  BY <1>18, MappedSnapshotAssumption DEF Control, TypeOK, Locked, Locking, CloseImage, At, Goto
<1>19. CASE CloseMapping(t)
  BY <1>19, MappedSnapshotAssumption DEF Control, TypeOK, Locked, Locking, CloseMapping, CloseMappingThen, At, Goto
<1>20. CASE Caught(t)
  BY <1>20, MappedSnapshotAssumption DEF Control, TypeOK, Locked, Locking, Caught, At, Goto
<1>21. CASE \E k \in Keys : View(t, k)
  BY <1>21, MappedSnapshotAssumption DEF Control, TypeOK, Locked, Locking, View, At, Goto
<1>22. CASE \E k \in Keys : DropView(t, k)
  BY <1>22, MappedSnapshotAssumption, SMTT(20) DEF Control, TypeOK, Locked, Locking, DropView, At
<1> QED BY <1>1, <1>2, <1>3, <1>4, <1>5, <1>6, <1>7, <1>8, <1>9, <1>10, <1>11, <1>12, <1>13, <1>14, <1>15, <1>16, <1>17, <1>18, <1>19, <1>20, <1>21, <1>22 DEF ThreadStep

\* A thread's step keeps the key it asked for, and its reservation, with its place in the build.
LEMMA AskedStep ==
  ASSUME Control, NEW t \in Threads, ThreadStep(t)
  PROVE  Asked'
<1>1. CASE Release(t)
  BY <1>1 DEF Control, TypeOK, Asked, Asking, Resting, Live, Release, Finalized, Unlocked, cache, build
<1>2. CASE Materialize(t)
  BY <1>2 DEF Control, TypeOK, Asked, Asking, Resting, Live, Materialize, Returned, At, Goto, cache, build
<1>3. CASE Hit(t)
  BY <1>3 DEF Control, TypeOK, Asked, Asking, Resting, Live, Hit, Evict, At, Goto, cache, build
<1>4. CASE Miss(t)
  BY <1>4, MappedSnapshotAssumption DEF Control, TypeOK, Asked, Asking, Resting, Live, Miss, At, Goto, cache, build
<1>5. CASE CheckColumns(t)
  BY <1>5 DEF Control, TypeOK, Asked, Asking, Resting, Live, CheckColumns, At, Goto, cache, build
<1>6. CASE TakeColumns(t)
  BY <1>6 DEF Control, TypeOK, Asked, Asking, Resting, Live, TakeColumns, At, Goto, cache, build
<1>7. CASE Retain(t)
  BY <1>7 DEF Control, TypeOK, Asked, Asking, Resting, Live, Retain, RetainUnless, At, Goto, cache, build
<1>8. CASE CopyColumns(t)
  BY <1>8 DEF Control, TypeOK, Asked, Asking, Resting, Live, CopyColumns, Copy, At, cache, build
<1>9. CASE LockDecode(t)
  BY <1>9 DEF Control, TypeOK, Asked, Asking, Resting, Live, LockDecode, DecodeUnless, Returned, At, Goto, cache, build
<1>10. CASE Decode(t)
  BY <1>10 DEF Control, TypeOK, Asked, Asking, Resting, Live, Decode, Returned, At, Goto, cache, build
<1>11. CASE Charge(t)
  BY <1>11, SMTT(20) DEF Control, TypeOK, Asked, Asking, Resting, Live, Charge, Evict, At, Goto, cache, build
<1>12. CASE Publish(t)
  BY <1>12 DEF Control, TypeOK, Asked, Asking, Resting, Live, Publish, At, Goto, cache, build
<1>13. CASE FailBuild(t)
  BY <1>13 DEF Control, TypeOK, Asked, Asking, Resting, Live, FailBuild, At, Goto, cache, build
<1>14. CASE DropError(t)
  BY <1>14 DEF Control, TypeOK, Asked, Asking, Resting, Live, DropError, At, Goto, cache, build
<1>15. CASE CloseLock(t)
  BY <1>15 DEF Control, TypeOK, Asked, Asking, Resting, Live, CloseLock, At, Goto, cache, build
<1>16. CASE CloseClear(t)
  BY <1>16 DEF Control, TypeOK, Asked, Asking, Resting, Live, CloseClear, Evict, At, Goto, cache, build
<1>17. CASE CloseCheck(t)
  BY <1>17 DEF Control, TypeOK, Asked, Asking, Resting, Live, CloseCheck, At, Goto, cache, build
<1>18. CASE CloseImage(t)
  BY <1>18 DEF Control, TypeOK, Asked, Asking, Resting, Live, CloseImage, At, Goto, cache, build
<1>19. CASE CloseMapping(t)
  BY <1>19 DEF Control, TypeOK, Asked, Asking, Resting, Live, CloseMapping, CloseMappingThen, At, Goto, cache, build
<1>20. CASE Caught(t)
  BY <1>20 DEF Control, TypeOK, Asked, Asking, Resting, Live, Caught, At, Goto, cache, build
<1>21. CASE \E k \in Keys : View(t, k)
  BY <1>21 DEF Control, TypeOK, Asked, Asking, Resting, Live, View, At, Goto, cache, build
<1>22. CASE \E k \in Keys : DropView(t, k)
  BY <1>22, SMTT(20) DEF Control, TypeOK, Asked, Asking, Resting, Live, DropView, At, cache, build
<1> QED BY <1>1, <1>2, <1>3, <1>4, <1>5, <1>6, <1>7, <1>8, <1>9, <1>10, <1>11, <1>12, <1>13, <1>14, <1>15, <1>16, <1>17, <1>18, <1>19, <1>20, <1>21, <1>22 DEF ThreadStep

\* A thread's step never makes a second view of a key, nor a lease without its view.
LEMMA UniqueStep ==
  ASSUME Control, NEW t \in Threads, ThreadStep(t)
  PROVE  Unique'
<1>1. CASE Release(t)
  BY <1>1 DEF Control, TypeOK, Unique, Asked, Asking, Resting, Live, Release, Finalized, Unlocked, cache
<1>2. CASE Materialize(t)
  BY <1>2 DEF Control, TypeOK, Unique, Asked, Asking, Resting, Live, Materialize, Returned, At, Goto, cache
<1>3. CASE Hit(t)
  BY <1>3 DEF Control, TypeOK, Unique, Asked, Asking, Resting, Live, Hit, Evict, At, Goto, cache
<1>4. CASE Miss(t)
  BY <1>4 DEF Control, TypeOK, Unique, Asked, Asking, Resting, Live, Miss, At, Goto, cache
<1>5. CASE CheckColumns(t)
  BY <1>5 DEF Control, TypeOK, Unique, Asked, Asking, Resting, Live, CheckColumns, At, Goto, cache
<1>6. CASE TakeColumns(t)
  BY <1>6 DEF Control, TypeOK, Unique, Asked, Asking, Resting, Live, TakeColumns, At, Goto, cache
<1>7. CASE Retain(t)
  BY <1>7 DEF Control, TypeOK, Unique, Asked, Asking, Resting, Live, Retain, RetainUnless, At, Goto, cache
<1>8. CASE CopyColumns(t)
  BY <1>8 DEF Control, TypeOK, Unique, Asked, Asking, Resting, Live, CopyColumns, Copy, At, cache
<1>9. CASE LockDecode(t)
  BY <1>9 DEF Control, TypeOK, Unique, Asked, Asking, Resting, Live, LockDecode, DecodeUnless, Returned, At, Goto, cache
<1>10. CASE Decode(t)
  BY <1>10 DEF Control, TypeOK, Unique, Asked, Asking, Resting, Live, Decode, Returned, At, Goto, cache
<1>11. CASE Charge(t)
  BY <1>11 DEF Control, TypeOK, Unique, Asked, Asking, Resting, Live, Charge, Evict, At, Goto, cache
<1>12. CASE Publish(t)
  BY <1>12 DEF Control, TypeOK, Unique, Asked, Asking, Resting, Live, Publish, At, Goto, cache
<1>13. CASE FailBuild(t)
  BY <1>13 DEF Control, TypeOK, Unique, Asked, Asking, Resting, Live, FailBuild, At, Goto, cache
<1>14. CASE DropError(t)
  BY <1>14 DEF Control, TypeOK, Unique, Asked, Asking, Resting, Live, DropError, At, Goto, cache
<1>15. CASE CloseLock(t)
  BY <1>15 DEF Control, TypeOK, Unique, Asked, Asking, Resting, Live, CloseLock, At, Goto, cache
<1>16. CASE CloseClear(t)
  BY <1>16 DEF Control, TypeOK, Unique, Asked, Asking, Resting, Live, CloseClear, Evict, At, Goto, cache
<1>17. CASE CloseCheck(t)
  BY <1>17 DEF Control, TypeOK, Unique, Asked, Asking, Resting, Live, CloseCheck, At, Goto, cache
<1>18. CASE CloseImage(t)
  BY <1>18 DEF Control, TypeOK, Unique, Asked, Asking, Resting, Live, CloseImage, At, Goto, cache
<1>19. CASE CloseMapping(t)
  BY <1>19 DEF Control, TypeOK, Unique, Asked, Asking, Resting, Live, CloseMapping, CloseMappingThen, At, Goto, cache
<1>20. CASE Caught(t)
  BY <1>20 DEF Control, TypeOK, Unique, Asked, Asking, Resting, Live, Caught, At, Goto, cache
<1>21. CASE \E k \in Keys : View(t, k)
  BY <1>21 DEF Control, TypeOK, Unique, Asked, Asking, Resting, Live, View, At, Goto, cache
<1>22. CASE \E k \in Keys : DropView(t, k)
  BY <1>22, SMTT(20) DEF Control, TypeOK, Unique, Asked, Asking, Resting, Live, DropView, At, cache
<1> QED BY <1>1, <1>2, <1>3, <1>4, <1>5, <1>6, <1>7, <1>8, <1>9, <1>10, <1>11, <1>12, <1>13, <1>14, <1>15, <1>16, <1>17, <1>18, <1>19, <1>20, <1>21, <1>22 DEF ThreadStep

\* A thread's step takes a lease or buffers only where the build may own them.
LEMMA OwnedStep ==
  ASSUME Control, NEW t \in Threads, ThreadStep(t)
  PROVE  Owned'
<1>1. CASE Release(t)
  BY <1>1 DEF Control, TypeOK, Owned, Release, Finalized, Unlocked, build
<1>2. CASE Materialize(t)
  BY <1>2 DEF Control, TypeOK, Owned, Materialize, Returned, At, Goto, build
<1>3. CASE Hit(t)
  BY <1>3 DEF Control, TypeOK, Owned, Hit, Evict, At, Goto, build
<1>4. CASE Miss(t)
  BY <1>4 DEF Control, TypeOK, Owned, Miss, At, Goto, build
<1>5. CASE CheckColumns(t)
  BY <1>5 DEF Control, TypeOK, Owned, CheckColumns, At, Goto, build
<1>6. CASE TakeColumns(t)
  BY <1>6 DEF Control, TypeOK, Owned, TakeColumns, At, Goto, build
<1>7. CASE Retain(t)
  BY <1>7 DEF Control, TypeOK, Owned, Retain, RetainUnless, At, Goto, build
<1>8. CASE CopyColumns(t)
  BY <1>8 DEF Control, TypeOK, Owned, CopyColumns, Copy, At, build
<1>9. CASE LockDecode(t)
  BY <1>9 DEF Control, TypeOK, Owned, LockDecode, DecodeUnless, Returned, At, Goto, build
<1>10. CASE Decode(t)
  BY <1>10 DEF Control, TypeOK, Owned, Decode, Returned, At, Goto, build
<1>11. CASE Charge(t)
  BY <1>11 DEF Control, TypeOK, Owned, Charge, Evict, At, Goto, build
<1>12. CASE Publish(t)
  BY <1>12 DEF Control, TypeOK, Owned, Publish, At, Goto, build
<1>13. CASE FailBuild(t)
  BY <1>13 DEF Control, TypeOK, Owned, FailBuild, At, Goto, build
<1>14. CASE DropError(t)
  BY <1>14 DEF Control, TypeOK, Owned, DropError, At, Goto, build
<1>15. CASE CloseLock(t)
  BY <1>15 DEF Control, TypeOK, Owned, CloseLock, At, Goto, build
<1>16. CASE CloseClear(t)
  BY <1>16 DEF Control, TypeOK, Owned, CloseClear, Evict, At, Goto, build
<1>17. CASE CloseCheck(t)
  BY <1>17 DEF Control, TypeOK, Owned, CloseCheck, At, Goto, build
<1>18. CASE CloseImage(t)
  BY <1>18 DEF Control, TypeOK, Owned, CloseImage, At, Goto, build
<1>19. CASE CloseMapping(t)
  BY <1>19 DEF Control, TypeOK, Owned, CloseMapping, CloseMappingThen, At, Goto, build
<1>20. CASE Caught(t)
  BY <1>20 DEF Control, TypeOK, Owned, Caught, At, Goto, build
<1>21. CASE \E k \in Keys : View(t, k)
  BY <1>21 DEF Control, TypeOK, Owned, View, At, Goto, build
<1>22. CASE \E k \in Keys : DropView(t, k)
  BY <1>22, SMTT(20) DEF Control, TypeOK, Owned, DropView, At, build
<1> QED BY <1>1, <1>2, <1>3, <1>4, <1>5, <1>6, <1>7, <1>8, <1>9, <1>10, <1>11, <1>12, <1>13, <1>14, <1>15, <1>16, <1>17, <1>18, <1>19, <1>20, <1>21, <1>22 DEF ThreadStep

\* A thread's step keeps the stages of closing in order and away from the decoder.
LEMMA StagedStep ==
  ASSUME Control, NEW t \in Threads, ThreadStep(t)
  PROVE  Staged'
<1>1. CASE Release(t)
  BY <1>1 DEF Control, TypeOK, Staged, Locked, Locking, Release, Finalized, Unlocked, state
<1>2. CASE Materialize(t)
  BY <1>2 DEF Control, TypeOK, Staged, Locked, Locking, Materialize, Returned, At, Goto, state
<1>3. CASE Hit(t)
  BY <1>3 DEF Control, TypeOK, Staged, Locked, Locking, Hit, Evict, At, Goto, state
<1>4. CASE Miss(t)
  BY <1>4 DEF Control, TypeOK, Staged, Locked, Locking, Miss, At, Goto, state
<1>5. CASE CheckColumns(t)
  BY <1>5 DEF Control, TypeOK, Staged, Locked, Locking, CheckColumns, At, Goto, state
<1>6. CASE TakeColumns(t)
  BY <1>6 DEF Control, TypeOK, Staged, Locked, Locking, TakeColumns, At, Goto, state
<1>7. CASE Retain(t)
  BY <1>7 DEF Control, TypeOK, Staged, Locked, Locking, Retain, RetainUnless, At, Goto, state
<1>8. CASE CopyColumns(t)
  BY <1>8 DEF Control, TypeOK, Staged, Locked, Locking, CopyColumns, Copy, At, state
<1>9. CASE LockDecode(t)
  BY <1>9 DEF Control, TypeOK, Staged, Locked, Locking, LockDecode, DecodeUnless, Returned, At, Goto, state
<1>10. CASE Decode(t)
  BY <1>10 DEF Control, TypeOK, Staged, Locked, Locking, Decode, Returned, At, Goto, state
<1>11. CASE Charge(t)
  BY <1>11 DEF Control, TypeOK, Staged, Locked, Locking, Charge, Evict, At, Goto, state
<1>12. CASE Publish(t)
  BY <1>12 DEF Control, TypeOK, Staged, Locked, Locking, Publish, At, Goto, state
<1>13. CASE FailBuild(t)
  BY <1>13 DEF Control, TypeOK, Staged, Locked, Locking, FailBuild, At, Goto, state
<1>14. CASE DropError(t)
  BY <1>14 DEF Control, TypeOK, Staged, Locked, Locking, DropError, At, Goto, state
<1>15. CASE CloseLock(t)
  BY <1>15 DEF Control, TypeOK, Staged, Locked, Locking, CloseLock, At, Goto, state
<1>16. CASE CloseClear(t)
  BY <1>16 DEF Control, TypeOK, Staged, Locked, Locking, CloseClear, Evict, At, Goto, state
<1>17. CASE CloseCheck(t)
  BY <1>17 DEF Control, TypeOK, Staged, Locked, Locking, CloseCheck, At, Goto, state
<1>18. CASE CloseImage(t)
  BY <1>18 DEF Control, TypeOK, Staged, Locked, Locking, CloseImage, At, Goto, state
<1>19. CASE CloseMapping(t)
  BY <1>19 DEF Control, TypeOK, Staged, Locked, Locking, CloseMapping, CloseMappingThen, At, Goto, state
<1>20. CASE Caught(t)
  BY <1>20 DEF Control, TypeOK, Staged, Locked, Locking, Caught, At, Goto, state
<1>21. CASE \E k \in Keys : View(t, k)
  BY <1>21 DEF Control, TypeOK, Staged, Locked, Locking, View, At, Goto, state
<1>22. CASE \E k \in Keys : DropView(t, k)
  BY <1>22 DEF Control, TypeOK, Staged, Locked, Locking, DropView, At, state
<1> QED BY <1>1, <1>2, <1>3, <1>4, <1>5, <1>6, <1>7, <1>8, <1>9, <1>10, <1>11, <1>12, <1>13, <1>14, <1>15, <1>16, <1>17, <1>18, <1>19, <1>20, <1>21, <1>22 DEF ThreadStep

-----------------------------------------------------------------------------
(* Counting the leases.                                                       *)

\* A build gets a lease, or gives up what it has.
LEMMA LeaseGiven ==
  ASSUME TypeOK, NEW t \in Threads, ~ lease[t], lease' = [lease EXCEPT ![t] = TRUE]
  PROVE  Cardinality(Leasers') = Cardinality(Leasers) + 1
<1>1. IsFiniteSet(Leasers) /\ t \notin Leasers
  BY Finite DEF Leasers
<1>2. Leasers' = Leasers \cup {t}
  BY DEF Leasers, TypeOK
<1> QED BY <1>1, <1>2, FS_AddElement, SMTT(20)

\* A build that gives up its lease lowers the number of leasing builds by one.
LEMMA LeaseDropped ==
  ASSUME TypeOK, NEW t \in Threads, lease' = [lease EXCEPT ![t] = FALSE]
  PROVE  /\ lease[t] => Cardinality(Leasers') = Cardinality(Leasers) - 1
         /\ ~ lease[t] => Cardinality(Leasers') = Cardinality(Leasers)
<1>1. IsFiniteSet(Leasers) /\ (t \in Leasers <=> lease[t])
  BY Finite DEF Leasers
<1>2. Leasers' = Leasers \ {t}
  BY DEF Leasers, TypeOK
<1> QED BY <1>1, <1>2, FS_RemoveElement, Zenon

\* What the cache evicts goes from the live views to the finalizers.
LEMMA EvictKeepsCount ==
  ASSUME TypeOK, IsFiniteSet(PendingDrops), NEW t \in Threads, NEW V, drop[t] = 0, Evict(t, V)
  PROVE  /\ IsFiniteSet(PendingDrops')
         /\ Cardinality(leased') + Cardinality(PendingDrops') = Cardinality(leased) + Cardinality(PendingDrops)
<1> DEFINE dead == (V \ held) \cap leased
<1>1. /\ leased' = leased \ dead /\ drop' = [drop EXCEPT ![t] = Cardinality(dead)]
      /\ leased \cap dead = dead
  BY DEF Evict
<1>2. IsFiniteSet(dead) /\ Cardinality(dead) \in Nat
  BY Finite, FS_Intersection, FS_CardinalityType, Zenon
<1> HIDE DEF dead
<1>3. Cardinality(leased') = Cardinality(leased) - Cardinality(dead)
  <2>1. Cardinality(leased \ dead) = Cardinality(leased) - Cardinality(leased \cap dead)
    BY Finite, FS_Difference, Zenon
  <2> QED BY <1>1, <2>1
<1>4. /\ IsFiniteSet(PendingDrops')
      /\ Cardinality(PendingDrops') = Cardinality(PendingDrops) + Cardinality(dead)
  BY <1>1, <1>2, DropsAdded, Zenon
<1>5. Cardinality(PendingDrops) \in Nat /\ Cardinality(leased) \in Nat
  BY Finite, FS_CardinalityType
<1> QED BY <1>2, <1>3, <1>4, <1>5

\* A thread's step keeps the dependents counter equal to the leases it stands for.
LEMMA CountedStep ==
  ASSUME Control, Counted, NEW t \in Threads, ThreadStep(t)
  PROVE  Counted'
<1>1. TypeOK /\ IsFiniteSet(PendingDrops)
  BY DEF Control, Counted
<1>2. /\ Cardinality(leased) \in Nat /\ Cardinality(Leasers) \in Nat /\ Cardinality(PendingDrops) \in Nat
      /\ dependents = Cardinality(leased) + Cardinality(Leasers) + Cardinality(PendingDrops)
  BY <1>1, Finite, FS_CardinalityType DEF Counted
<1>3. ASSUME UNCHANGED lease PROVE Leasers' = Leasers
  BY <1>3 DEF Leasers
<1>4. ASSUME UNCHANGED drop PROVE PendingDrops' = PendingDrops
  BY <1>4 DEF PendingDrops
<1>5. CASE \/ Materialize(t) \/ Miss(t) \/ CheckColumns(t) \/ TakeColumns(t) \/ LockDecode(t) \/ Decode(t)
           \/ FailBuild(t) \/ CloseLock(t) \/ CloseCheck(t) \/ CloseImage(t) \/ CloseMapping(t)
           \/ Caught(t) \/ \E k \in Keys : View(t, k)
  <2>1. UNCHANGED <<leased, lease, drop, dependents>>
    BY <1>5, Zenon DEF Materialize, Miss, CheckColumns, TakeColumns, LockDecode, DecodeUnless, Decode, FailBuild,
         CloseLock, CloseCheck, CloseImage, CloseMapping, CloseMappingThen, Caught, View, cache, build
  <2> QED BY <1>1, <1>2, <1>3, <1>4, <2>1, SMTT(20) DEF Counted
<1>6. CASE Release(t)
  <2>1. /\ UNCHANGED <<leased, lease>> /\ drop[t] > 0 /\ drop' = [drop EXCEPT ![t] = @ - 1]
        /\ dependents' = IF dependents > 0 THEN dependents - 1 ELSE dependents
    BY <1>6 DEF Release, Finalized, cache, build
  <2>2. /\ IsFiniteSet(PendingDrops') /\ Cardinality(PendingDrops') = Cardinality(PendingDrops) - 1
        /\ Cardinality(PendingDrops) > 0
    BY <1>1, <2>1, DropsRun, Zenon
  <2> QED BY <1>2, <1>3, <2>1, <2>2 DEF Counted
<1>7. CASE Hit(t) \/ Charge(t) \/ CloseClear(t)
  <2>1. UNCHANGED <<lease, dependents>> /\ drop[t] = 0
    BY <1>7 DEF Hit, Charge, CloseClear, At, build
  <2>2. (\E V : Evict(t, V)) \/ UNCHANGED <<leased, drop>>
    BY <1>7 DEF Hit, Charge, CloseClear, cache
  <2>3. CASE UNCHANGED <<leased, drop>>
    BY <1>1, <1>2, <1>3, <1>4, <2>1, <2>3 DEF Counted
  <2>4. CASE \E V : Evict(t, V)
    <3>1. /\ IsFiniteSet(PendingDrops')
          /\ Cardinality(leased') + Cardinality(PendingDrops') = Cardinality(leased) + Cardinality(PendingDrops)
      BY <1>1, <2>1, <2>4, EvictKeepsCount
    <3>2. Cardinality(leased') \in Nat /\ Cardinality(PendingDrops') \in Nat
      <4>1. leased' \subseteq leased
        BY <2>4 DEF Evict
      <4> QED BY <1>1, <3>1, <4>1, Finite, FS_Subset, FS_CardinalityType
    <3> QED BY <1>2, <1>3, <2>1, <3>1, <3>2 DEF Counted
  <2> QED BY <2>2, <2>3, <2>4
<1>8. CASE Retain(t)
  <2>1. /\ UNCHANGED <<leased, drop>> /\ lease' = [lease EXCEPT ![t] = ~ closed] /\ pc[t] = "retain"
        /\ dependents' = IF closed THEN dependents ELSE dependents + 1
    BY <1>8 DEF Retain, RetainUnless, At, cache
  <2>2. ~ lease[t] /\ lease[t] = FALSE /\ closed \in BOOLEAN
    BY <1>1, <2>1 DEF Control, Owned, TypeOK
  <2>3. CASE closed
    <3>1. lease' = lease
      BY <1>1, <2>1, <2>2, <2>3 DEF TypeOK
    <3> QED BY <1>1, <1>2, <1>3, <1>4, <2>1, <2>3, <3>1 DEF Counted
  <2>4. CASE ~ closed
    <3>1. Cardinality(Leasers') = Cardinality(Leasers) + 1
      <4>1. lease' = [lease EXCEPT ![t] = TRUE]
        BY <2>1, <2>4, Zenon
      <4> QED BY <1>1, <2>2, <4>1, LeaseGiven, Zenon
    <3> QED BY <1>1, <1>2, <1>4, <2>1, <2>4, <3>1 DEF Counted
  <2> QED BY <2>3, <2>4
<1>9. CASE CopyColumns(t) \/ DropError(t)
  <2> DEFINE n == IF lease[t] THEN 1 ELSE 0
  <2>1. /\ UNCHANGED <<leased, dependents>> /\ lease' = [lease EXCEPT ![t] = FALSE]
        /\ drop[t] = 0 /\ drop' = [drop EXCEPT ![t] = n]
    BY <1>9 DEF CopyColumns, Copy, DropError, At, cache
  <2>2. n \in Nat /\ Cardinality(Leasers') = Cardinality(Leasers) - n
    <3>1. n \in Nat
      OBVIOUS
    <3>2. CASE lease[t]
      BY <1>1, <2>1, <3>2, LeaseDropped, Zenon
    <3>3. CASE ~ lease[t]
      <4>1. Cardinality(Leasers') = Cardinality(Leasers) /\ Cardinality(Leasers) \in Nat
        BY <1>1, <1>2, <2>1, <3>3, LeaseDropped, Zenon
      <4> QED BY <3>3, <4>1
    <3> QED BY <3>1, <3>2, <3>3
  <2> HIDE DEF n
  <2>3. IsFiniteSet(PendingDrops') /\ Cardinality(PendingDrops') = Cardinality(PendingDrops) + n
    BY <1>1, <2>1, <2>2, DropsAdded, Zenon
  <2> QED BY <1>2, <2>1, <2>2, <2>3 DEF Counted
<1>10. CASE Publish(t)
  <2>1. /\ UNCHANGED <<drop, dependents>> /\ lease' = [lease EXCEPT ![t] = FALSE]
        /\ leased' = IF lease[t] THEN leased \cup {key[t]} ELSE leased
        /\ pc[t] = "publish"
    BY <1>10 DEF Publish, At
  <2>2. key[t] \notin leased
    <3>1. key[t] \in Keys /\ inflight[key[t]] = t
      BY <2>1, MappedSnapshotAssumption, SMTT(20) DEF Control, Asked, Asking
    <3> QED BY <3>1, MappedSnapshotAssumption, SMTT(20) DEF Control, Unique
  <2>3. CASE lease[t]
    <3>1. Cardinality(Leasers') = Cardinality(Leasers) - 1
      BY <1>1, <2>1, <2>3, LeaseDropped, Zenon
    <3>2. Cardinality(leased \cup {key[t]}) = Cardinality(leased) + 1
      BY <1>1, <2>2, Finite, FS_AddElement, Zenon
    <3> QED BY <1>1, <1>2, <1>4, <2>1, <2>3, <3>1, <3>2, SMTT(20), SMTT(30) DEF Counted
  <2>4. CASE ~ lease[t]
    <3>1. Cardinality(Leasers') = Cardinality(Leasers)
      BY <1>1, <2>1, <2>4, LeaseDropped, Zenon
    <3> QED BY <1>1, <1>2, <1>4, <2>1, <2>4, <3>1 DEF Counted
  <2> QED BY <2>3, <2>4
<1>11. ASSUME NEW k \in Keys, DropView(t, k) PROVE Counted'
  <2>1. UNCHANGED <<lease, dependents>> /\ drop[t] = 0
    BY <1>11 DEF DropView, At, build
  <2>2. CASE k \in leased \ strong
    <3>1. leased' = leased \ {k} /\ drop' = [drop EXCEPT ![t] = 1]
      BY <1>11, <2>2 DEF DropView
    <3>2. Cardinality(leased') = Cardinality(leased) - 1
      BY <1>1, <2>2, <3>1, Finite, FS_RemoveElement, Zenon
    <3>3. IsFiniteSet(PendingDrops') /\ Cardinality(PendingDrops') = Cardinality(PendingDrops) + 1
      BY <1>1, <2>1, <3>1, DropsAdded, Zenon
    <3> QED BY <1>2, <1>3, <2>1, <3>2, <3>3 DEF Counted
  <2>3. CASE k \notin leased \ strong
    <3>1. UNCHANGED <<leased, drop>>
      BY <1>11, <2>3 DEF DropView
    <3> QED BY <1>1, <1>2, <1>3, <1>4, <2>1, <3>1 DEF Counted
  <2> QED BY <2>2, <2>3
<1> QED BY <1>5, <1>6, <1>7, <1>8, <1>9, <1>10, <1>11 DEF ThreadStep

\* A snapshot is closed only without leases, and grants none afterwards.
LEMMA ClosedStep ==
  ASSUME Control, Counted, ClosedWithoutLeases, NEW t \in Threads, ThreadStep(t)
  PROVE  ClosedWithoutLeases'
<1>1. leased' \subseteq leased \/ (lease[t] /\ closed' = closed)
  BY Zenon DEF ThreadStep, Release, Finalized, Materialize, Hit, Evict, Miss, CheckColumns, TakeColumns, Retain,
       RetainUnless, CopyColumns, Copy, LockDecode, DecodeUnless, Decode, Charge, Publish, FailBuild,
       DropError, CloseLock, CloseClear, CloseCheck, CloseImage, CloseMapping, CloseMappingThen, Caught,
       View, DropView, cache, state
<1>2. \A u \in Threads : lease'[u] => lease[u] \/ ~ closed
  BY Zenon DEF ThreadStep, Release, Finalized, Materialize, Hit, Miss, CheckColumns, TakeColumns, Retain,
       RetainUnless, CopyColumns, Copy, LockDecode, DecodeUnless, Decode, Charge, Publish, FailBuild,
       DropError, CloseLock, CloseClear, CloseCheck, CloseImage, CloseMapping, CloseMappingThen, Caught,
       View, DropView, build, Control, TypeOK
<1>3. closed' = closed \/ (CloseCheck(t) /\ ~ dependents > 0)
  BY Zenon DEF ThreadStep, Release, Finalized, Materialize, Hit, Miss, CheckColumns, TakeColumns, Retain,
       RetainUnless, CopyColumns, Copy, LockDecode, DecodeUnless, Decode, Charge, Publish, FailBuild,
       DropError, CloseLock, CloseClear, CloseCheck, CloseImage, CloseMapping, CloseMappingThen, Caught,
       View, DropView, state
<1>4. CASE closed' = closed
  BY <1>1, <1>2, <1>4 DEF ClosedWithoutLeases
<1>5. CASE CloseCheck(t) /\ ~ dependents > 0
  <2>1. leased' = leased /\ lease' = lease
    BY <1>5 DEF CloseCheck, cache, build
  <2>2. leased = {} /\ Leasers = {}
    <3>1. TypeOK /\ Cardinality(PendingDrops) \in Nat
      BY FS_CardinalityType DEF Control, Counted
    <3>2. /\ Cardinality(leased) \in Nat /\ Cardinality(Leasers) \in Nat
          /\ dependents = Cardinality(leased) + Cardinality(Leasers) + Cardinality(PendingDrops)
      BY <3>1, Finite DEF Counted
    <3>3. Cardinality(leased) = 0 /\ Cardinality(Leasers) = 0
      BY <1>5, <3>1, <3>2
    <3> QED BY <3>1, <3>3, Finite
  <2> QED BY <2>1, <2>2 DEF ClosedWithoutLeases, Leasers
<1> QED BY <1>3, <1>4, <1>5, SMTT(20)

\* The callbacks run when the mapping closes; no buffer comes out afterwards.
LEMMA CallbacksStep ==
  ASSUME Control, ClosedWithoutLeases, CallbacksAfterUnmap, NEW t \in Threads, ThreadStep(t)
  PROVE  CallbacksAfterUnmap'
<1>1. CASE CloseMapping(t)
  <2>1. UNCHANGED <<leased, exported>>
    BY <1>1 DEF CloseMapping, CloseMappingThen, cache, build
  <2> QED BY <1>1, <2>1 DEF CloseMapping, CloseMappingThen, CallbacksAfterUnmap, BuffersOut
<1>2. CASE ~ CloseMapping(t)
  <2>1. UNCHANGED <<mapping, callbacks>>
    BY <1>2, Zenon DEF ThreadStep, Release, Finalized, Materialize, Hit, Miss, CheckColumns, TakeColumns, Retain,
         RetainUnless, CopyColumns, Copy, LockDecode, DecodeUnless, Decode, Charge, Publish, FailBuild,
         DropError, CloseLock, CloseClear, CloseCheck, CloseImage, Caught, View, DropView, state
  <2>2. leased' \subseteq leased \/ lease[t]
    BY Zenon DEF ThreadStep, Release, Finalized, Materialize, Hit, Evict, Miss, CheckColumns, TakeColumns, Retain,
         RetainUnless, CopyColumns, Copy, LockDecode, DecodeUnless, Decode, Charge, Publish, FailBuild,
         DropError, CloseLock, CloseClear, CloseCheck, CloseImage, CloseMapping, CloseMappingThen, Caught,
         View, DropView, cache
  <2>3. \A u \in Threads : exported'[u] => exported[u] \/ image = "open"
    BY Zenon DEF ThreadStep, Release, Finalized, Materialize, Hit, Miss, CheckColumns, TakeColumns, Retain,
         RetainUnless, CopyColumns, Copy, LockDecode, DecodeUnless, Decode, Charge, Publish, FailBuild,
         DropError, CloseLock, CloseClear, CloseCheck, CloseImage, CloseMapping, CloseMappingThen, Caught,
         View, DropView, build, Control, TypeOK
  <2>4. callbacks = "run" => closed /\ image = "released"
    BY DEF Control, Staged
  <2> QED BY <2>1, <2>2, <2>3, <2>4, SMTT(20), ZenonT(20), SMTT(40) DEF CallbacksAfterUnmap, BuffersOut, ClosedWithoutLeases
<1> QED BY <1>1, <1>2

-----------------------------------------------------------------------------
\* Abandoning an unreferenced snapshot runs every finalizer and keeps the invariant.
LEMMA AbandonStep ==
  ASSUME Inductive, Abandon
  PROVE  Inductive'
<1>1. /\ \A t \in Threads : pc[t] = "idle" /\ drop[t] = 0 /\ ~ lease[t] /\ ~ exported[t]
      /\ UNCHANGED <<stateLock, cacheLock, decoded, inflight, held, pc, key, lease, exported, drop>>
      /\ closed' /\ image' = "released" /\ mapping' = "closed" /\ callbacks' \in {"run", callbacks}
      /\ strong' = {} /\ leased' = {} /\ dependents' = 0
  BY DEF Abandon, At, Inductive, Control, Owned, build
<1>2. TypeOK'
  BY <1>1, SMTT(20), ZenonT(20), SMTT(40) DEF Inductive, Control, TypeOK, Abandon
<1>3. Locked' /\ Asked' /\ Owned'
  BY <1>1, Zenon DEF Inductive, Control, Locked, Asked, Owned
<1>4. Unique'
  BY <1>1 DEF Inductive, Control, Unique, Live
<1>5. Staged'
  BY <1>1 DEF Staged
<1>6. Counted'
  <2>1. PendingDrops' = {} /\ Leasers' = {}
    BY <1>1, SMTT(20), ZenonT(20), SMTT(40) DEF PendingDrops, Leasers
  <2> QED BY <1>1, <2>1, FS_EmptySet DEF Counted
<1>7. ClosedWithoutLeases' /\ CallbacksAfterUnmap'
  BY <1>1 DEF ClosedWithoutLeases, CallbacksAfterUnmap, BuffersOut
<1> QED BY <1>2, <1>3, <1>4, <1>5, <1>6, <1>7 DEF Inductive, Control

\* A snapshot just opened satisfies the invariant.
LEMMA InductiveInit ==
  ASSUME Init
  PROVE  Inductive
<1>1. TypeOK
  BY MappedSnapshotAssumption, Zenon DEF Init, TypeOK, Places
<1>2. Locked /\ Asked
  BY MappedSnapshotAssumption DEF Init, Locked, Locking, Asked, Asking, Resting
<1>3. Unique /\ Owned /\ Staged
  BY DEF Init, Unique, Live, Owned, Staged
<1>4. Counted
  <2>1. PendingDrops = {} /\ Leasers = {} /\ leased = {} /\ dependents = 0
    BY DEF Init, PendingDrops, Leasers
  <2> QED BY <2>1, FS_EmptySet DEF Counted
<1>5. ClosedWithoutLeases /\ CallbacksAfterUnmap
  BY DEF Init, ClosedWithoutLeases, CallbacksAfterUnmap
<1> QED BY <1>1, <1>2, <1>3, <1>4, <1>5 DEF Inductive, Control

\* Every step preserves the invariant.
LEMMA InductiveStep ==
  ASSUME Inductive, [Next]_vars
  PROVE  Inductive'
<1>1. ASSUME NEW t \in Threads, ThreadStep(t) PROVE Inductive'
  BY <1>1, TypeStep, LockedStep, AskedStep, UniqueStep, OwnedStep, StagedStep, CountedStep, ClosedStep,
     CallbacksStep DEF Inductive, Control
<1>2. CASE UNCHANGED vars
  <2> USE <1>2 DEF vars
  <2>1. TypeOK'
    BY DEF Inductive, Control, TypeOK
  <2>2. Locked'
    BY SMTT(20) DEF Inductive, Control, Locked
  <2>3. Asked'
    BY Zenon DEF Inductive, Control, Asked
  <2>4. Unique' /\ Owned' /\ Staged'
    BY Zenon DEF Inductive, Control, Unique, Live, Owned, Staged
  <2>5. Counted'
    <3>1. PendingDrops' = PendingDrops /\ Leasers' = Leasers
      BY DEF PendingDrops, Leasers
    <3> QED BY <3>1 DEF Inductive, Counted
  <2>6. ClosedWithoutLeases'
    BY DEF Inductive, ClosedWithoutLeases, BuffersOut
  <2>7. CallbacksAfterUnmap'
    BY DEF Inductive, CallbacksAfterUnmap, BuffersOut
  <2> QED BY <2>1, <2>2, <2>3, <2>4, <2>5, <2>6, <2>7, SMTT(20) DEF Inductive, Control
<1> QED BY <1>1, <1>2, AbandonStep, Steps

\* What a reachable state of a mapped snapshot satisfies.
THEOREM InductiveHolds == Spec => []Inductive
<1>1. Init => Inductive
  BY InductiveInit
<1>2. Inductive /\ [Next]_vars => Inductive'
  BY InductiveStep
<1> QED BY <1>1, <1>2, PTL DEF Spec

\* For any number of threads and views, the dependents counter is the number of
\* leases that are out, and close() never closes under one of them.
THEOREM LeasesHold == Spec => []LeasesKeepOpen
<1>1. Inductive => LeasesKeepOpen
  BY DEF Inductive, Control, Counted, Leasers, ClosedWithoutLeases, LeasesKeepOpen
<1> QED BY <1>1, InductiveHolds, PTL

\* The close callbacks run only when no byte of the mapping can be read.
THEOREM CallbacksComeLast == Spec => []CallbacksAfterUnmap
<1>1. Inductive => CallbacksAfterUnmap
  BY DEF Inductive
<1> QED BY <1>1, InductiveHolds, PTL

\* No two callers of materialize() decode, and none decodes a closed snapshot.
THEOREM ModelDecodedOnce == Spec => DecodedOnce
<1> DEFINE Once == decoded' # decoded => decoded = 0 /\ image = "open" /\ ~ closed
<1>1. Inductive /\ [Next]_vars => [Once]_vars
  <2> SUFFICES ASSUME Inductive, [Next]_vars, decoded' # decoded
               PROVE  decoded = 0 /\ image = "open" /\ ~ closed
    OBVIOUS
  <2>1. PICK t \in Threads : ThreadStep(t)
    BY Steps, Zenon DEF Abandon, vars
  <2>2. Decode(t)
    BY <2>1, Zenon DEF ThreadStep, Release, Finalized, Materialize, Hit, Miss, CheckColumns, TakeColumns, Retain,
         RetainUnless, CopyColumns, Copy, LockDecode, DecodeUnless, Charge, Publish, FailBuild,
         DropError, CloseLock, CloseClear, CloseCheck, CloseImage, CloseMapping, CloseMappingThen, Caught,
         View, DropView, state
  <2>3. pc[t] = "decode"
    BY <2>2 DEF Decode, At
  <2> QED BY <2>3 DEF Inductive, Control, Staged, TypeOK
<1> QED BY <1>1, InductiveHolds, PTL DEF Spec, DecodedOnce
=============================================================================
