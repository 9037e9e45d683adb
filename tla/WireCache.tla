------------------------------- MODULE WireCache -------------------------------
(***************************************************************************)
(* Publication of snapshot files and the content-addressed wire cache      *)
(* (pyowl_core/wire/cache.py): several processes publish, open, quarantine *)
(* and collect the same files, and any of them, or the machine, may stop   *)
(* between two system calls.                                               *)
(*                                                                         *)
(* A file is an inode with a content; a path names at most one inode.  An  *)
(* inode keeps its number for ever, so a smaller number is an older mtime. *)
(* Every system call that another process can observe is one action.  The  *)
(* bytes of a snapshot are abstracted to what a reader's validation can    *)
(* tell: "good", or "partial" while they are written, "torn" after a power *)
(* loss, "damaged" by something else.                                      *)
(***************************************************************************)
EXTENDS Integers, FiniteSets, FiniteSetsExt

CONSTANTS
  Processes,
  Entries,   \* cache entries: <structural digest>/<wire digest>.pyocore
  Exports,   \* paths given to write_snapshot
  MaxFiles,  \* bound: inodes ever written
  Plans,     \* who does what, one plan to a behaviour; see PlanType
  Nobody     \* "no process", "no inode", "no path"

\* Processes and paths in use, the durability policies and values of atomic that
\* publications are given, collect's maximum_bytes in units of a file, and the
\* bounds: inodes ever written, snapshots a process maps, and marks it keeps, at
\* a time.
PlanType ==
  [processes : SUBSET Processes, entries : SUBSET Entries, exports : SUBSET Exports,
   policies : SUBSET {"none", "data", "full"},
   atomic : SUBSET BOOLEAN, quotas : SUBSET Nat, files : 1 .. MaxFiles, open : Nat]

ASSUME WireCacheAssumption ==
  /\ Entries \cap Exports = {} /\ IsFiniteSet(Entries)
  /\ MaxFiles \in Nat
  /\ Plans \subseteq PlanType
  /\ Nobody \notin Processes \cup Entries \cup Exports \cup (1 .. MaxFiles)

Paths == Entries \cup Exports

Inodes == 1 .. MaxFiles

VARIABLES
  plan,      \* the plan of this behaviour
  content,   \* what a reader would find in each inode; "free" before its use
  origin,    \* the durability policy each inode was written under, or "in_place"
  synced,    \* inodes whose data is on stable storage
  dir,       \* the inode each path names
  older,     \* what each path may name again after a power loss
  lock,      \* the process that holds the flock of each entry
  pc,        \* where each process is
  op,        \* path, policy and mode of the operation under way
  file,      \* the inode a publisher writes, or that an open validated
  handles,   \* mapped snapshots of each process: <<path, inode, slot>>
  marks,     \* _ACTIVE_PATHS of each process
  scan,      \* collect: candidates not yet removed, and the retained count
  durable    \* the entries whose current file a FULL publication wrote

vars == <<plan, content, origin, synced, dir, older, lock, pc, op, file, handles,
          marks, scan, durable>>

disk   == <<content, origin, synced>>
reader == <<handles, marks>>

NoOp == [path |-> Nobody, policy |-> "none", atomic |-> TRUE]

NoScan == [files |-> {}, retained |-> 0, maximum |-> 0]

At(p, place) == pc[p] = place

Goto(p, place) == pc' = [pc EXCEPT ![p] = place]

Path(p) == op[p].path

Sum(f) == MapThenSumSet(LAMBDA e : f[e], DOMAIN f)

-----------------------------------------------------------------------------
Init ==
  /\ plan \in Plans
  /\ content = [i \in Inodes |-> "free"]
  /\ origin = [i \in Inodes |-> "none"]
  /\ synced = {}
  /\ dir = [f \in Paths |-> Nobody]
  /\ older = [f \in Paths |-> {}]
  /\ lock = [e \in Entries |-> Nobody]
  /\ pc = [p \in Processes |-> "idle"]
  /\ op = [p \in Processes |-> NoOp]
  /\ file = [p \in Processes |-> Nobody]
  /\ handles = [p \in Processes |-> {}]
  /\ marks = [p \in Processes |-> [e \in Entries |-> 0]]
  /\ scan = [p \in Processes |-> NoScan]
  /\ durable = {}

(***************************************************************************)
(* A path is made to name inode i, or nothing.  Until the directory is     *)
(* synced a power loss may bring back what the path named before.          *)
(***************************************************************************)
Rename(f, i) ==
  /\ dir' = [dir EXCEPT ![f] = i]
  /\ older' = [older EXCEPT ![f] = @ \cup {dir[f]}]

\* The file an entry named is gone or replaced: no publication vouches for it.
Forget(f) == durable' = durable \ {f}

Unlock(p) == lock' = [e \in Entries |-> IF lock[e] = p THEN Nobody ELSE lock[e]]

\* The operation of p ends: its lock, file and arguments are let go.
Finish(p) ==
  /\ Goto(p, "idle")
  /\ op' = [op EXCEPT ![p] = NoOp]
  /\ file' = [file EXCEPT ![p] = Nobody]
  /\ Unlock(p)

(***************************************************************************)
(* _quarantine: whatever the path names now is renamed out of the way; a   *)
(* path that names nothing is left alone.                                  *)
(***************************************************************************)
MoveAside(f) ==
  IF dir[f] = Nobody
    THEN UNCHANGED <<dir, older, durable>>
    ELSE Rename(f, Nobody) /\ Forget(f)

-----------------------------------------------------------------------------
(***************************************************************************)
(* WireCache.publish and write_snapshot begin.                             *)
(***************************************************************************)
StartPublish(p, e, policy) ==
  /\ At(p, "idle")
  /\ op' = [op EXCEPT ![p] = [path |-> e, policy |-> policy, atomic |-> TRUE]]
  /\ Goto(p, "lock")
  /\ UNCHANGED <<plan, disk, dir, older, lock, file, reader, scan, durable>>

StartWrite(p, f, policy, atomic) ==
  /\ At(p, "idle")
  /\ op' = [op EXCEPT ![p] = [path |-> f, policy |-> policy, atomic |-> atomic]]
  /\ Goto(p, "create")
  /\ UNCHANGED <<plan, disk, dir, older, lock, file, reader, scan, durable>>

Enter(p) ==
  /\ At(p, "lock")
  /\ lock' = [lock EXCEPT ![Path(p)] = p]
  /\ Goto(p, "exists")
  /\ UNCHANGED <<plan, disk, dir, older, op, file, reader, scan, durable>>

\* Mutant: the lock is taken over while its holder still works.
AcquireStolen(p) == Enter(p)

(***************************************************************************)
(* _CacheLock: poll a non-blocking flock until the deadline.  The kernel   *)
(* releases the lock of a process that dies.                               *)
(***************************************************************************)
Acquire(p) == At(p, "lock") /\ lock[Path(p)] = Nobody /\ Enter(p)

LockTimeout(p) ==
  /\ At(p, "lock")
  /\ lock[Path(p)] # Nobody
  /\ Finish(p)
  /\ UNCHANGED <<plan, disk, dir, older, reader, scan, durable>>

Exists(p) ==
  /\ At(p, "exists")
  /\ Goto(p, IF dir[Path(p)] = Nobody THEN "create" ELSE "existing")
  /\ UNCHANGED <<plan, disk, dir, older, lock, op, file, reader, scan, durable>>

Whole(f) == dir[f] # Nobody /\ content[dir[f]] = "good"

(***************************************************************************)
(* An entry that validates is returned as it is; one that does not, or     *)
(* that vanished meanwhile, is quarantined and published anew.             *)
(***************************************************************************)
ReturnExisting(p) ==
  /\ At(p, "existing")
  /\ Whole(Path(p))
  /\ Finish(p)
  /\ UNCHANGED <<plan, disk, dir, older, reader, scan, durable>>

RejectExisting(p) ==
  /\ At(p, "existing")
  /\ ~Whole(Path(p))
  /\ Goto(p, "quarantine_existing")
  /\ UNCHANGED <<plan, disk, dir, older, lock, op, file, reader, scan, durable>>

QuarantineExisting(p) ==
  /\ At(p, "quarantine_existing")
  /\ MoveAside(Path(p))
  /\ Goto(p, "create")
  /\ UNCHANGED <<plan, disk, lock, op, file, reader, scan>>

-----------------------------------------------------------------------------
Fresh(i) == i <= plan.files /\ content[i] = "free" /\ \A j \in Inodes : j < i => content[j] # "free"

\* The file to be written is a fresh one or, in place, the target truncated.
CreateFile(p, inPlace) ==
  LET truncate == inPlace /\ dir[Path(p)] # Nobody
  IN  /\ At(p, "create")
      /\ \E i \in Inodes :
           /\ IF truncate THEN i = dir[Path(p)] ELSE Fresh(i)
           /\ content' = [content EXCEPT ![i] = "partial"]
           /\ origin' = [origin EXCEPT ![i] = IF inPlace THEN "in_place" ELSE op[p].policy]
           /\ synced' = synced \ {i}
           /\ file' = [file EXCEPT ![p] = i]
           /\ IF inPlace /\ ~truncate THEN Rename(Path(p), i) ELSE UNCHANGED <<dir, older>>
      /\ Goto(p, "write")
      /\ UNCHANGED <<plan, lock, op, reader, scan, durable>>

\* _publish_bytes: a temporary file, or with atomic=False the target itself.
Create(p) == CreateFile(p, ~op[p].atomic)

\* _write_all ran to the end.
Write(p) ==
  /\ At(p, "write")
  /\ content' = [content EXCEPT ![file[p]] = "good"]
  /\ Goto(p, "sync")
  /\ UNCHANGED <<plan, origin, synced, dir, older, lock, op, file, reader, scan, durable>>

SyncUnder(p, policies) ==
  /\ At(p, "sync")
  /\ synced' = IF op[p].policy \in policies THEN synced \cup {file[p]} ELSE synced
  /\ Goto(p, "replace")
  /\ UNCHANGED <<plan, content, origin, dir, older, lock, op, file, reader, scan, durable>>

\* Mutant: only FULL syncs the data.
SyncFullOnly(p) == SyncUnder(p, {"full"})

(***************************************************************************)
(* fsync under DATA and FULL, then the completed file is read back by both *)
(* validators.                                                             *)
(***************************************************************************)
Sync(p) == SyncUnder(p, {"data", "full"})

Replace(p) ==
  /\ At(p, "replace")
  /\ IF op[p].atomic
       THEN Rename(Path(p), file[p]) /\ Forget(Path(p))
       ELSE UNCHANGED <<dir, older, durable>>
  /\ IF op[p].policy = "full"
       THEN Goto(p, "sync_directory") /\ UNCHANGED <<lock, op, file>>
       ELSE Finish(p)
  /\ UNCHANGED <<plan, disk, reader, scan>>

\* A FULL publication returns, and vouches for the file if it is still there.
ReturnFull(p) ==
  /\ At(p, "sync_directory")
  /\ durable' = durable \cup {e \in Entries : e = Path(p) /\ dir[e] = file[p]}
  /\ Finish(p)
  /\ UNCHANGED <<plan, disk, dir, reader, scan>>

SyncDirectory(p) == ReturnFull(p) /\ older' = [older EXCEPT ![Path(p)] = {}]

(***************************************************************************)
(* An error or a cancellation at any point of _publish_bytes: the finally  *)
(* clause unlinks the temporary file, the lock is released.                *)
(***************************************************************************)
Fail(p) ==
  /\ pc[p] \in {"create", "write", "sync", "replace", "sync_directory"}
  /\ Finish(p)
  /\ UNCHANGED <<plan, disk, dir, older, reader, scan, durable>>

-----------------------------------------------------------------------------
(***************************************************************************)
(* WireCache.open and open_snapshot: the path is found, then opened and    *)
(* validated.  The cache quarantines what it cannot open; open_snapshot    *)
(* only raises.                                                            *)
(***************************************************************************)
StartOpen(p, f) ==
  /\ At(p, "idle")
  /\ dir[f] # Nobody
  /\ Cardinality(handles[p]) < plan.open /\ Sum(marks[p]) < plan.open
  /\ op' = [op EXCEPT ![p] = [path |-> f, policy |-> "none", atomic |-> TRUE]]
  /\ Goto(p, "open")
  /\ UNCHANGED <<plan, disk, dir, older, lock, file, reader, scan, durable>>

OpenNamed(p) ==
  /\ At(p, "open")
  /\ dir[Path(p)] # Nobody
  /\ file' = [file EXCEPT ![p] = dir[Path(p)]]
  /\ Goto(p, "map")
  /\ UNCHANGED <<plan, disk, dir, older, lock, op, reader, scan, durable>>

OpenFile(p) == OpenNamed(p) /\ Whole(Path(p))

OpenFails(p) ==
  /\ At(p, "open")
  /\ ~Whole(Path(p))
  /\ IF Path(p) \in Entries
       THEN Goto(p, "quarantine") /\ UNCHANGED <<lock, op, file>>
       ELSE Finish(p)
  /\ UNCHANGED <<plan, disk, dir, older, reader, scan, durable>>

Quarantine(p) ==
  /\ At(p, "quarantine")
  /\ MoveAside(Path(p))
  /\ Finish(p)
  /\ UNCHANGED <<plan, disk, reader, scan>>

SetMark(p, f, n) ==
  marks' = [marks EXCEPT ![p] = [e \in Entries |-> IF e = f THEN n ELSE @[e]]]

Mark(p, f) == IF f \in Entries THEN marks[p][f] ELSE 0

\* Mutant: the last but one mark already removes the path.
MarkDropsEarly(p, f, change) ==
  SetMark(p, f, IF change = -1 /\ Mark(p, f) <= 2 THEN 0 ELSE Mark(p, f) + change)

\* _mark_active; a path whose count is not positive is removed.
MarkActive(p, f, change) == SetMark(p, f, Max({0, Mark(p, f) + change}))

Map(p) ==
  /\ At(p, "map")
  /\ \E slot \in 1 .. plan.open :
       /\ \A h \in handles[p] : h[3] # slot
       /\ \A lower \in 1 .. (slot - 1) : \E h \in handles[p] : h[3] = lower
       /\ handles' = [handles EXCEPT ![p] = @ \cup {<<Path(p), file[p], slot>>}]
  /\ MarkActive(p, Path(p), 1)
  /\ Finish(p)
  /\ UNCHANGED <<plan, disk, dir, older, scan, durable>>

(***************************************************************************)
(* A mapped snapshot is closed and its callback drops the mark, or it goes *)
(* away without its callback (see MappedSnapshot).                         *)
(***************************************************************************)
Close(p, h) ==
  /\ At(p, "idle")
  /\ h \in handles[p]
  /\ handles' = [handles EXCEPT ![p] = @ \ {h}]
  /\ MarkActive(p, h[1], -1) \/ UNCHANGED marks
  /\ UNCHANGED <<plan, disk, dir, older, lock, pc, op, file, scan, durable>>

-----------------------------------------------------------------------------
(***************************************************************************)
(* collect: list the entries without a mark, then unlink the oldest ones   *)
(* until the rest fits the quota.  An unlink that fails is passed over.    *)
(***************************************************************************)
CollectScan(p, maximum) ==
  LET present == {e \in Entries : dir[e] # Nobody}
  IN  /\ At(p, "idle")
      /\ scan' = [scan EXCEPT ![p] =
                    [files |-> {<<dir[e], e>> : e \in {x \in present : marks[p][x] = 0}},
                     retained |-> Cardinality(present), maximum |-> maximum]]
      /\ Goto(p, "collect")
      /\ UNCHANGED <<plan, disk, dir, older, lock, op, file, reader, durable>>

CollectUnlink(p) ==
  LET s == scan[p]
  IN  /\ At(p, "collect")
      /\ s.retained > s.maximum
      /\ \E c \in s.files :
           /\ \A d \in s.files : c[1] <= d[1]
           /\ scan' = [scan EXCEPT ![p] =
                         [files |-> s.files \ {c}, maximum |-> s.maximum,
                          retained |-> IF dir[c[2]] = Nobody THEN s.retained ELSE s.retained - 1]]
           /\ MoveAside(c[2])
      /\ UNCHANGED <<plan, disk, lock, pc, op, file, reader>>

CollectDone(p) ==
  /\ At(p, "collect")
  /\ scan[p].files = {} \/ scan[p].retained <= scan[p].maximum
  /\ scan' = [scan EXCEPT ![p] = NoScan]
  /\ Goto(p, "idle")
  /\ UNCHANGED <<plan, disk, dir, older, lock, op, file, reader, durable>>

-----------------------------------------------------------------------------
(***************************************************************************)
(* The environment.  A process dies: its locks and mappings go, its        *)
(* temporary file stays behind unnamed.  The power fails: so do all        *)
(* processes, unsynced data may be torn, unsynced names may revert.        *)
(* A file that nobody has open is damaged.                                 *)
(***************************************************************************)
Crash(p) ==
  /\ pc[p] # "idle" \/ handles[p] # {}
  /\ Finish(p)
  /\ handles' = [handles EXCEPT ![p] = {}]
  /\ marks' = [marks EXCEPT ![p] = [e \in Entries |-> 0]]
  /\ scan' = [scan EXCEPT ![p] = NoScan]
  /\ UNCHANGED <<plan, disk, dir, older, durable>>

PowerLoss ==
  /\ \E torn \in SUBSET ((UNION {{dir[f]} \cup older[f] : f \in Paths}) \ (synced \cup {Nobody})) :
       content' = [i \in Inodes |-> IF i \in torn THEN "torn" ELSE content[i]]
  /\ synced' = {i \in Inodes : content[i] # "free"}
  /\ dir' \in [Paths -> Inodes \cup {Nobody}]
  /\ \A f \in Paths : dir'[f] \in {dir[f]} \cup older[f]
  /\ older' = [f \in Paths |-> {}]
  /\ lock' = [e \in Entries |-> Nobody]
  /\ pc' = [p \in Processes |-> "idle"]
  /\ op' = [p \in Processes |-> NoOp]
  /\ file' = [p \in Processes |-> Nobody]
  /\ handles' = [p \in Processes |-> {}]
  /\ marks' = [p \in Processes |-> [e \in Entries |-> 0]]
  /\ scan' = [p \in Processes |-> NoScan]
  /\ UNCHANGED <<plan, origin, durable>>

Damage(e) ==
  /\ Whole(e)
  /\ \A p \in Processes : file[p] # dir[e] /\ \A h \in handles[p] : h[2] # dir[e]
  /\ content' = [content EXCEPT ![dir[e]] = "damaged"]
  /\ Forget(e)
  /\ UNCHANGED <<plan, origin, synced, dir, older, lock, pc, op, file, reader, scan>>

-----------------------------------------------------------------------------
Publishing(p) ==
  \/ Acquire(p) \/ LockTimeout(p) \/ Exists(p)
  \/ ReturnExisting(p) \/ RejectExisting(p) \/ QuarantineExisting(p)
  \/ Create(p) \/ Write(p) \/ Sync(p) \/ Replace(p) \/ SyncDirectory(p) \/ Fail(p)

Reading(p) ==
  OpenFile(p) \/ OpenFails(p) \/ Quarantine(p) \/ Map(p)

Next ==
  \/ \E p \in plan.processes :
       \/ \E e \in plan.entries, policy \in plan.policies : StartPublish(p, e, policy)
       \/ \E f \in plan.exports, policy \in plan.policies, atomic \in plan.atomic :
            StartWrite(p, f, policy, atomic)
       \/ Publishing(p)
       \/ \E f \in Paths : StartOpen(p, f)
       \/ Reading(p)
       \/ \E h \in handles[p] : Close(p, h)
       \/ \E maximum \in plan.quotas : CollectScan(p, maximum)
       \/ CollectUnlink(p) \/ CollectDone(p)
       \/ Crash(p)
  \/ PowerLoss
  \/ \E e \in plan.entries : Damage(e)

Spec == Init /\ [][Next]_vars

-----------------------------------------------------------------------------
Contents == {"free", "partial", "good", "torn", "damaged"}

Places ==
  {"idle", "lock", "exists", "existing", "quarantine_existing", "create", "write",
   "sync", "replace", "sync_directory", "open", "quarantine", "map", "collect"}

(***************************************************************************)
(* Type invariant.                                                         *)
(***************************************************************************)
TypeOK ==
  /\ plan \in Plans
  /\ content \in [Inodes -> Contents]
  /\ origin \in [Inodes -> {"none", "data", "full", "in_place"}]
  /\ synced \subseteq Inodes
  /\ dir \in [Paths -> Inodes \cup {Nobody}]
  /\ older \in [Paths -> SUBSET (Inodes \cup {Nobody})]
  /\ lock \in [Entries -> Processes \cup {Nobody}]
  /\ pc \in [Processes -> Places]
  /\ op \in [Processes -> [path : Paths \cup {Nobody},
                           policy : {"none", "data", "full"}, atomic : BOOLEAN]]
  /\ file \in [Processes -> Inodes \cup {Nobody}]
  /\ handles \in [Processes -> SUBSET (Paths \X Inodes \X (1 .. plan.open))]
  /\ marks \in [Processes -> [Entries -> Nat]]
  /\ \A p \in Processes :
       /\ scan[p].files \subseteq Inodes \X Entries
       /\ scan[p].retained \in Nat /\ scan[p].maximum \in Nat
  /\ durable \subseteq Entries

(***************************************************************************)
(* Files stay whole, whatever process dies at whatever step.  A path never *)
(* names a file that a writer left incomplete, under DATA and FULL not     *)
(* even after a power loss; no publication, quarantine or collection       *)
(* changes the bytes of a mapped snapshot; and an entry that a FULL        *)
(* publication wrote outlives a power loss.  (What an outsider damaged is  *)
(* damaged, not incomplete, and write_snapshot with atomic=False promises  *)
(* nothing.)                                                               *)
(***************************************************************************)
FilesStayWhole ==
  /\ TypeOK
  /\ \A f \in Paths :
       dir[f] # Nobody => \/ content[dir[f]] \in {"good", "damaged"}
                          \/ content[dir[f]] = "torn" /\ origin[dir[f]] = "none"
                          \/ origin[dir[f]] = "in_place"
  /\ \A p \in Processes : \A h \in handles[p] : content[h[2]] = "good" \/ origin[h[2]] = "in_place"
  /\ \A e \in durable : Whole(e)

(***************************************************************************)
(* A publisher throws away only what is not valid: under the lock nobody   *)
(* can have republished the entry between its validation and the rename.   *)
(***************************************************************************)
PublishersKeepValid ==
  [][\A p \in Processes : QuarantineExisting(p) => ~Whole(Path(p))]_vars

(***************************************************************************)
(* A collection never removes an entry that its own process has mapped,    *)
(* however many snapshots of the entry were opened and closed before.      *)
(***************************************************************************)
CollectSparesMapped ==
  [][\A p \in Processes :
       CollectUnlink(p) => \A h \in handles[p] : dir'[h[1]] = dir[h[1]]]_vars

=============================================================================
