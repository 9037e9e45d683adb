---------------------------- MODULE MappedSnapshot ----------------------------
(***************************************************************************)
(* The life of one memory-mapped snapshot (pyowl_core/wire/mapping.py)     *)
(* shared by several threads: views are built and cached, the scalar model *)
(* is decoded on demand, and some thread closes the mapping.               *)
(*                                                                         *)
(* Two locks meet here: _MappedState.lock and the lock of the snapshot's   *)
(* index cache.  A zero-copy view borrows bytes of the mapping and holds a *)
(* _MappedLease; the lease is released by the view's finalizer, which runs *)
(* in whichever thread drops the last reference, whatever lock that thread *)
(* holds.  The cache is abstracted to what the mapping can observe of      *)
(* IndexCache: one live view per key, a set of retained keys, one builder  *)
(* per key, and evictions chosen freely.                                   *)
(***************************************************************************)
EXTENDS Integers, FiniteSets

CONSTANTS
  Threads,
  Keys,       \* index-cache keys of the views that are requested
  Borrowing,  \* keys whose builder borrows columns of the mapping
  Nobody

ASSUME MappedSnapshotAssumption ==
  /\ IsFiniteSet(Threads) /\ IsFiniteSet(Keys)
  /\ Borrowing \subseteq Keys
  /\ Nobody \notin Threads \cup Keys

VARIABLES
  stateLock,   \* owner of _MappedState.lock, an RLock
  cacheLock,   \* owner of _IndexCache._lock, where it outlives a step
  closed,      \* _MappedState.closed
  image,       \* inspected.image: "open" or "released"
  mapping,     \* the mmap object: "open" or "closed"
  callbacks,   \* close_callbacks: "registered" by WireCache.open, or "run"
  dependents,  \* _MappedState.dependents
  decoded,     \* _MappedState.decoded: 0, or the serial of the decoded model
  inflight,    \* index cache: the building thread of each key
  strong,      \* index cache: keys whose view it retains
  held,        \* keys whose view some caller references
  leased,      \* keys whose live view owns a lease and mapped buffers
  pc,          \* where each thread is
  key,         \* the key each thread asks for or builds
  lease,       \* the thread's unfinished build owns a lease
  exported,    \* the thread's unfinished build holds buffers of the mapping
  drop         \* lease finalizers each thread has still to run

vars == <<stateLock, cacheLock, closed, image, mapping, callbacks, dependents,
          decoded, inflight, strong, held, leased, pc, key, lease, exported, drop>>

state == <<closed, image, mapping, callbacks, decoded>>
cache == <<inflight, strong, held, leased>>
build == <<key, lease, exported>>

Live == strong \cup held

At(t, p) == pc[t] = p /\ drop[t] = 0

Goto(t, p) == pc' = [pc EXCEPT ![t] = p]

\* Thread t may enter an RLock.
Unlocked(lock, t) == lock \in {Nobody, t}

-----------------------------------------------------------------------------
Init ==
  /\ stateLock = Nobody /\ cacheLock = Nobody
  /\ closed = FALSE /\ image = "open" /\ mapping = "open"
  /\ callbacks = "registered"
  /\ dependents = 0 /\ decoded = 0
  /\ inflight = [k \in Keys |-> Nobody]
  /\ strong = {} /\ held = {} /\ leased = {}
  /\ pc = [t \in Threads |-> "idle"]
  /\ key = [t \in Threads |-> Nobody]
  /\ lease = [t \in Threads |-> FALSE]
  /\ exported = [t \in Threads |-> FALSE]
  /\ drop = [t \in Threads |-> 0]

\* A finalizer ends with n dependents left; the last one of an eviction ends
\* the cache's lock section.
Finalized(t, n) ==
  /\ drop[t] > 0
  /\ dependents' = n
  /\ drop' = [drop EXCEPT ![t] = @ - 1]
  /\ cacheLock' = IF cacheLock = t /\ drop[t] = 1 THEN Nobody ELSE cacheLock
  /\ UNCHANGED <<stateLock, state, cache, pc, build>>

\* Mutant: the state lock is a plain Lock, which its owner cannot take again.
ReleaseNotReentrant(t) == stateLock = Nobody /\ Finalized(t, dependents - 1)

(***************************************************************************)
(* _MappedLease.__del__ -> release(): a finalizer takes the state lock.    *)
(***************************************************************************)
Release(t) ==
  /\ Unlocked(stateLock, t)
  /\ Finalized(t, IF dependents > 0 THEN dependents - 1 ELSE dependents)

(***************************************************************************)
(* The cache gives up the retained views of V while it holds its lock; the *)
(* views nobody else references die there and then.                        *)
(***************************************************************************)
Evict(t, V) ==
  LET dead == (V \ held) \cap leased
  IN  /\ V \subseteq strong
      /\ leased' = leased \ dead
      /\ drop' = [drop EXCEPT ![t] = Cardinality(dead)]
      /\ cacheLock' = IF dead = {} THEN cacheLock ELSE t

-----------------------------------------------------------------------------
(***************************************************************************)
(* view(): ensure_open, then the index cache is asked for the key.         *)
(***************************************************************************)
View(t, k) ==
  /\ At(t, "idle")
  /\ ~closed
  /\ Goto(t, "want")
  /\ key' = [key EXCEPT ![t] = k]
  /\ UNCHANGED <<stateLock, cacheLock, state, dependents, cache, lease, exported, drop>>

(***************************************************************************)
(* get_or_build, live view: return it, retaining it again if it fits after *)
(* the eviction of some V.                                                 *)
(***************************************************************************)
Hit(t) ==
  /\ At(t, "want")
  /\ cacheLock = Nobody
  /\ key[t] \in Live
  /\ \E V \in SUBSET (strong \ {key[t]}), retain \in BOOLEAN :
       /\ key[t] \in strong => V = {} /\ retain
       /\ held' = held \cup {key[t]}
       /\ strong' = (strong \ V) \cup (IF retain THEN {key[t]} ELSE {})
       /\ Evict(t, V)
  /\ Goto(t, "idle")
  /\ key' = [key EXCEPT ![t] = Nobody]
  /\ UNCHANGED <<stateLock, state, dependents, inflight, lease, exported>>

Miss(t) ==
  /\ At(t, "want")
  /\ cacheLock = Nobody
  /\ key[t] \notin Live
  /\ inflight[key[t]] = Nobody
  /\ inflight' = [inflight EXCEPT ![key[t]] = t]
  /\ Goto(t, IF key[t] \in Borrowing THEN "borrow" ELSE "read")
  /\ UNCHANGED <<stateLock, cacheLock, state, dependents, strong, held, leased,
                 build, drop>>

(***************************************************************************)
(* _encoded_structural_columns_v2: ensure_open, then take the buffers of   *)
(* the image, then retain().  A released image refuses the buffers.        *)
(***************************************************************************)
CheckColumns(t) ==
  /\ At(t, "borrow")
  /\ Goto(t, IF closed THEN "raised" ELSE "take")
  /\ UNCHANGED <<stateLock, cacheLock, state, dependents, cache, build, drop>>

TakeColumns(t) ==
  /\ At(t, "take")
  /\ exported' = [exported EXCEPT ![t] = (image = "open")]
  /\ Goto(t, IF image = "open" THEN "retain" ELSE "raised")
  /\ UNCHANGED <<stateLock, cacheLock, state, dependents, cache, key, lease, drop>>

RetainUnless(t, refused) ==
  /\ At(t, "retain")
  /\ stateLock = Nobody
  /\ dependents' = IF refused THEN dependents ELSE dependents + 1
  /\ lease' = [lease EXCEPT ![t] = ~refused]
  /\ Goto(t, IF refused THEN "raised" ELSE "charge")
  /\ UNCHANGED <<stateLock, cacheLock, state, cache, key, exported, drop>>

\* Mutant: retain() trusts the check made before the lock was taken.
RetainStale(t) == RetainUnless(t, FALSE)

\* retain(): the check that counts is the one made under the lock.
Retain(t) == RetainUnless(t, closed)

Copy(t, finalizers) ==
  /\ At(t, "charge")
  /\ lease[t]
  /\ lease' = [lease EXCEPT ![t] = FALSE]
  /\ exported' = [exported EXCEPT ![t] = FALSE]
  /\ drop' = [drop EXCEPT ![t] = finalizers]
  /\ UNCHANGED <<stateLock, cacheLock, state, dependents, cache, pc, key>>

(***************************************************************************)
(* Buffers that cannot be borrowed are copied, and the lease is released   *)
(* at once (native_views.py, the finally of the copying fallback).         *)
(***************************************************************************)
CopyColumns(t) == Copy(t, 1)

(***************************************************************************)
(* budget.add: under its lock the cache evicts some V; the charge is       *)
(* granted or refused with ResourceLimitError.                             *)
(***************************************************************************)
Charge(t) ==
  /\ At(t, "charge")
  /\ cacheLock = Nobody
  /\ \E V \in SUBSET strong :
       /\ strong' = strong \ V
       /\ Evict(t, V)
  /\ \E granted \in BOOLEAN : Goto(t, IF granted THEN "publish" ELSE "raised")
  /\ UNCHANGED <<stateLock, state, dependents, inflight, held, build>>

(***************************************************************************)
(* The finished view is registered, retained or not as the policy says,    *)
(* and returned; the lease and the buffers of the build become the view's. *)
(***************************************************************************)
Publish(t) ==
  /\ At(t, "publish")
  /\ cacheLock = Nobody
  /\ \E retain \in BOOLEAN : strong' = IF retain THEN strong \cup {key[t]} ELSE strong
  /\ held' = held \cup {key[t]}
  /\ leased' = IF lease[t] THEN leased \cup {key[t]} ELSE leased
  /\ inflight' = [inflight EXCEPT ![key[t]] = Nobody]
  /\ key' = [key EXCEPT ![t] = Nobody]
  /\ lease' = [lease EXCEPT ![t] = FALSE]
  /\ exported' = [exported EXCEPT ![t] = FALSE]
  /\ Goto(t, "idle")
  /\ UNCHANGED <<stateLock, cacheLock, state, dependents, drop>>

(***************************************************************************)
(* A failed build gives the key up; its traceback keeps the lease and the  *)
(* buffers alive until the caller lets the exception go.                   *)
(***************************************************************************)
FailBuild(t) ==
  /\ At(t, "raised")
  /\ cacheLock = Nobody
  /\ inflight' = [inflight EXCEPT ![key[t]] = Nobody]
  /\ key' = [key EXCEPT ![t] = Nobody]
  /\ Goto(t, "unwound")
  /\ UNCHANGED <<stateLock, cacheLock, state, dependents, strong, held, leased,
                 lease, exported, drop>>

DropError(t) ==
  /\ At(t, "unwound")
  /\ lease' = [lease EXCEPT ![t] = FALSE]
  /\ exported' = [exported EXCEPT ![t] = FALSE]
  /\ drop' = [drop EXCEPT ![t] = IF lease[t] THEN 1 ELSE 0]
  /\ Goto(t, "idle")
  /\ UNCHANGED <<stateLock, cacheLock, state, dependents, cache, key>>

(***************************************************************************)
(* A caller drops its reference to a view.                                 *)
(***************************************************************************)
DropView(t, k) ==
  /\ At(t, "idle")
  /\ k \in held
  /\ held' = held \ {k}
  /\ IF k \in leased \ strong
       THEN leased' = leased \ {k} /\ drop' = [drop EXCEPT ![t] = 1]
       ELSE UNCHANGED <<leased, drop>>
  /\ UNCHANGED <<stateLock, cacheLock, state, dependents, inflight, strong, pc, build>>

-----------------------------------------------------------------------------
(***************************************************************************)
(* materialize(), called by a caller or by the builder of a plain view.    *)
(* Returned(t, ok): where that caller goes on.                             *)
(***************************************************************************)
Returned(t, ok) ==
  IF key[t] = Nobody THEN "idle" ELSE IF ok THEN "charge" ELSE "raised"

Materialize(t) ==
  /\ At(t, "read") \/ At(t, "idle")
  /\ pc[t] = "idle" => ~closed /\ decoded = 0
  /\ Goto(t, CASE closed -> Returned(t, FALSE)
               [] ~closed /\ decoded # 0 -> Returned(t, TRUE)
               [] OTHER -> "lock_decode")
  /\ UNCHANGED <<stateLock, cacheLock, state, dependents, cache, build, drop>>

DecodeUnless(t, done) ==
  /\ At(t, "lock_decode")
  /\ stateLock = Nobody
  /\ IF done
       THEN Goto(t, Returned(t, ~closed)) /\ UNCHANGED stateLock
       ELSE Goto(t, "decode") /\ stateLock' = t
  /\ UNCHANGED <<cacheLock, state, dependents, cache, build, drop>>

\* Mutant: no second look at decoded under the lock.
LockDecodeAgain(t) == DecodeUnless(t, closed)

LockDecode(t) == DecodeUnless(t, closed \/ decoded # 0)

\* checked_materialize_image; a failure is not cached, the caller may retry.
Decode(t) ==
  /\ At(t, "decode")
  /\ stateLock' = Nobody
  /\ \/ decoded' = decoded + 1 /\ Goto(t, Returned(t, TRUE))
     \/ decoded' = decoded /\ Goto(t, Returned(t, FALSE))
  /\ UNCHANGED <<cacheLock, closed, image, mapping, callbacks, dependents, cache,
                 build, drop>>

-----------------------------------------------------------------------------
(***************************************************************************)
(* close(): under the state lock, clear the cache, refuse while leases are *)
(* out, then close the resources.  A build in flight makes the cache       *)
(* refuse the clear with RuntimeError.                                     *)
(***************************************************************************)
CloseLock(t) ==
  /\ At(t, "idle")
  /\ stateLock = Nobody
  /\ ~closed
  /\ stateLock' = t
  /\ Goto(t, "clear")
  /\ UNCHANGED <<cacheLock, state, dependents, cache, build, drop>>

CloseClear(t) ==
  /\ At(t, "clear")
  /\ cacheLock = Nobody
  /\ IF \E k \in Keys : inflight[k] # Nobody
       THEN /\ stateLock' = Nobody
            /\ Goto(t, "build_error")
            /\ UNCHANGED <<cacheLock, cache, drop>>
       ELSE /\ strong' = {}
            /\ Evict(t, strong)
            /\ Goto(t, "check")
            /\ UNCHANGED <<stateLock, inflight, held>>
  /\ UNCHANGED <<state, dependents, build>>

CloseCheck(t) ==
  /\ At(t, "check")
  /\ IF dependents > 0
       THEN stateLock' = Nobody /\ closed' = closed /\ Goto(t, "in_use")
       ELSE stateLock' = stateLock /\ closed' = TRUE /\ Goto(t, "release")
  /\ UNCHANGED <<cacheLock, image, mapping, callbacks, dependents, decoded, cache,
                 build, drop>>

CloseImage(t) ==
  /\ At(t, "release")
  /\ image' = "released"
  /\ Goto(t, "unmap")
  /\ UNCHANGED <<stateLock, cacheLock, closed, mapping, callbacks, dependents,
                 decoded, cache, build, drop>>

\* Buffers of the mapping that are still alive somewhere.
BuffersOut == leased # {} \/ \E t \in Threads : exported[t]

CloseMappingThen(t, call) ==
  /\ At(t, "unmap")
  /\ stateLock' = Nobody
  /\ mapping' = IF BuffersOut THEN mapping ELSE "closed"
  /\ callbacks' = IF call THEN "run" ELSE callbacks
  /\ Goto(t, IF BuffersOut THEN "buffer_error" ELSE "idle")
  /\ UNCHANGED <<cacheLock, closed, image, dependents, decoded, cache, build, drop>>

\* Mutant: the callbacks run in the finally clause.
CloseMappingFinally(t) == CloseMappingThen(t, TRUE)

(***************************************************************************)
(* mapping.close() raises BufferError while buffers are out; only a        *)
(* mapping that really closed runs the callbacks.                          *)
(***************************************************************************)
CloseMapping(t) == CloseMappingThen(t, ~BuffersOut)

\* The caller of close() handles its exception.
Caught(t) ==
  /\ At(t, "in_use") \/ At(t, "build_error") \/ At(t, "buffer_error")
  /\ Goto(t, "idle")
  /\ UNCHANGED <<stateLock, cacheLock, state, dependents, cache, build, drop>>

(***************************************************************************)
(* __del__: nobody references the snapshot or a view of it any more.  The  *)
(* retained views and the snapshot form a cycle; its collector runs every  *)
(* finalizer before it frees anything, so a borrowed view still holds its  *)
(* buffers when _close_resources runs, whose BufferError is suppressed.    *)
(***************************************************************************)
Abandon ==
  /\ ~closed
  /\ held = {}
  /\ \A t \in Threads : At(t, "idle")
  /\ closed' = TRUE
  /\ image' = "released"
  /\ callbacks' = IF leased = {} THEN "run" ELSE callbacks
  /\ mapping' = "closed"
  /\ strong' = {} /\ leased' = {}
  /\ dependents' = 0
  /\ UNCHANGED <<stateLock, cacheLock, decoded, inflight, held, pc, build, drop>>

-----------------------------------------------------------------------------
Build(t) ==
  \/ Hit(t) \/ Miss(t)
  \/ CheckColumns(t) \/ TakeColumns(t) \/ Retain(t) \/ CopyColumns(t)
  \/ LockDecode(t) \/ Decode(t)
  \/ Charge(t) \/ Publish(t) \/ FailBuild(t) \/ DropError(t)

Close(t) ==
  \/ CloseLock(t) \/ CloseClear(t) \/ CloseCheck(t) \/ CloseImage(t) \/ CloseMapping(t)

Next ==
  \/ \E t \in Threads :
       \/ Release(t)
       \/ Materialize(t)
       \/ Build(t)
       \/ Close(t)
       \/ Caught(t)
       \/ \E k \in Keys : View(t, k) \/ DropView(t, k)
  \/ Abandon

Spec == Init /\ [][Next]_vars

(***************************************************************************)
(* A thread inside close() or inside a finalizer keeps running.            *)
(***************************************************************************)
Continue(t) ==
  Release(t) \/ CloseClear(t) \/ CloseCheck(t) \/ CloseImage(t) \/ CloseMapping(t)

FairSpec == Spec /\ \A t \in Threads : WF_vars(Continue(t))

-----------------------------------------------------------------------------
Places ==
  {"idle", "want", "borrow", "take", "retain", "read", "lock_decode", "decode",
   "charge", "publish", "raised", "unwound", "clear", "check", "release", "unmap",
   "in_use", "build_error", "buffer_error"}

(***************************************************************************)
(* Type invariant.                                                         *)
(***************************************************************************)
TypeOK ==
  /\ stateLock \in Threads \cup {Nobody} /\ cacheLock \in Threads \cup {Nobody}
  /\ closed \in BOOLEAN
  /\ image \in {"open", "released"} /\ mapping \in {"open", "closed"}
  /\ callbacks \in {"registered", "run"}
  /\ dependents \in Nat /\ decoded \in Nat
  /\ inflight \in [Keys -> Threads \cup {Nobody}]
  /\ strong \subseteq Keys /\ held \subseteq Keys /\ leased \subseteq Keys
  /\ pc \in [Threads -> Places]
  /\ key \in [Threads -> Keys \cup {Nobody}]
  /\ lease \in [Threads -> BOOLEAN] /\ exported \in [Threads -> BOOLEAN]
  /\ drop \in [Threads -> Nat]

\* The finalizers that have still to run, as a set of (thread, number) pairs.
PendingDrops == UNION {{t} \X (1 .. drop[t]) : t \in Threads}

(***************************************************************************)
(* Leases are counted exactly and keep the snapshot open: the dependents   *)
(* counter is the leases of live views, of builds under way and of         *)
(* finalizers not yet run, so close() refuses exactly while one is out;    *)
(* and however retain() and close() interleave, the snapshot is not closed *)
(* under a view or a build that owns one.                                  *)
(***************************************************************************)
LeasesKeepOpen ==
  /\ TypeOK
  /\ dependents = Cardinality(leased) + Cardinality({t \in Threads : lease[t]})
                    + Cardinality(PendingDrops)
  /\ closed => leased = {} /\ \A t \in Threads : ~lease[t]

(***************************************************************************)
(* All callers of materialize() share one model: it is decoded once, from  *)
(* an image that is still there, though two threads may both find it       *)
(* missing, and closed may be set, before either has the lock.             *)
(***************************************************************************)
DecodedOnce ==
  [][decoded' # decoded => decoded = 0 /\ image = "open" /\ ~closed]_vars

(***************************************************************************)
(* The close callbacks (the wire cache drops its active mark in one) run   *)
(* only when no byte of the mapping can be read any more.                  *)
(***************************************************************************)
CallbacksAfterUnmap ==
  callbacks = "run" => mapping = "closed" /\ ~BuffersOut

(***************************************************************************)
(* The two locks taken in opposite orders: a closer holds the state lock   *)
(* and waits for the cache's, whose owner runs a lease finalizer that      *)
(* waits for the state lock.                                               *)
(***************************************************************************)
LockCycle ==
  \E t, u \in Threads :
    /\ t # u
    /\ stateLock = t /\ pc[t] = "clear"
    /\ cacheLock = u /\ drop[u] > 0

(***************************************************************************)
(* close() returns or raises: the lock order apart (see NoLockCycle), the  *)
(* closer never waits for itself, not even when the views that its own     *)
(* clear() drops release their leases.                                     *)
(***************************************************************************)
CloseReturns ==
  \A t \in Threads : pc[t] = "clear" ~> (stateLock # t \/ LockCycle)

(***************************************************************************)
(* Creating views while another thread closes the snapshot is safe: no two *)
(* threads wait for each other's lock.                                     *)
(***************************************************************************)
NoLockCycle == ~LockCycle

=============================================================================
