---------------------------- MODULE WireCacheSteps -----------------------------
(***************************************************************************)
(* The invariants of the wire cache and write_snapshot, the lemmas about   *)
(* where each process is and what it holds, and the steps that write no    *)
(* file and give no path a new name.                                       *)
(***************************************************************************)
EXTENDS WireCache, FiniteSetTheorems, TLAPS

\* What a path names, and what a power loss may make it name again.
Names(f) == {dir[f]} \cup older[f]

\* Places of a publisher: under the entry's lock before a file is created,
\* with a file of its own, and from then to the end.
Looking == {"exists", "existing", "quarantine_existing"}
Writing == {"write", "sync", "replace"}
Publishes == {"create", "write", "sync", "replace", "sync_directory"}

\* A process between operations has no path and no file; one in an operation
\* has what the operation needs.  Only exports are written in place.
PlacedAt(p) ==
  /\ pc[p] \in {"idle", "collect"} => op[p] = NoOp /\ file[p] = Nobody
  /\ pc[p] \notin {"idle", "collect"} => Path(p) \in Paths
  /\ pc[p] \in Looking \cup {"lock", "quarantine"} => Path(p) \in Entries
  /\ Path(p) \in Entries => op[p].atomic
  /\ pc[p] \in Writing \cup {"sync_directory", "map"} => file[p] \in Inodes
  /\ pc[p] = "sync_directory" => op[p].policy = "full"

Placed == \A p \in Processes : PlacedAt(p)

\* A publisher holds the lock of its entry until it ends.
LockedAt(p) ==
  \/ pc[p] \in Looking
  \/ pc[p] \in Publishes /\ Path(p) \in Entries
  => lock[Path(p)] = p

Locked == \A p \in Processes : LockedAt(p)

\* What a process has open was written once.
InUse ==
  \A p \in Processes :
    /\ file[p] # Nobody => content[file[p]] # "free"
    /\ \A h \in handles[p] : content[h[2]] # "free"

\* A named file is complete, and on stable storage if its policy says so; or
\* it was written in place, which no entry is.
Complete(i) ==
  /\ \/ content[i] \in {"good", "damaged"}
     \/ content[i] = "torn" /\ origin[i] = "none"
  /\ origin[i] # "none" => i \in synced

Named ==
  \A f \in Paths : \A i \in Names(f) :
    i # Nobody => /\ content[i] # "free"
                  /\ origin[i] = "in_place" \/ Complete(i)
                  /\ f \in Entries => origin[i] # "in_place"

\* A file has one path.
Apart ==
  \A f, g \in Paths : f # g => Names(f) \cap Names(g) \subseteq {Nobody}

\* The temporary file of a publisher: nobody else has it, and it is complete
\* and on stable storage before it gets a name.
Temporary(p) == op[p].atomic /\ pc[p] \in Writing

Private ==
  \A p \in Processes :
    Temporary(p) =>
      /\ origin[file[p]] = op[p].policy
      /\ pc[p] # "write" => content[file[p]] = "good"
      /\ pc[p] = "replace" /\ op[p].policy # "none" => file[p] \in synced
      /\ \A f \in Paths : file[p] \notin Names(f)
      /\ \A q \in Processes :
           /\ q # p => file[q] # file[p]
           /\ \A h \in handles[q] : h[2] # file[p]

\* A file written in place keeps its mark.
Marked ==
  \A p \in Processes :
    ~op[p].atomic /\ pc[p] \in Writing => origin[file[p]] = "in_place"

\* What is mapped, or about to be, is valid.
Valid(i) == content[i] = "good" \/ origin[i] = "in_place"

Mapped ==
  \A p \in Processes :
    /\ pc[p] = "map" => Valid(file[p])
    /\ \A h \in handles[p] : Valid(h[2])

\* Until a FULL publication of an entry returns, its file stays as it is and
\* gets no other path.
Landed ==
  \A p \in Processes :
    pc[p] = "sync_directory" /\ Path(p) \in Entries =>
      /\ content[file[p]] = "good"
      /\ origin[file[p]] = "full"
      /\ file[p] \in synced
      /\ \A f \in Paths : f # Path(p) => file[p] \notin Names(f)

\* What a FULL publication vouches for no power loss can take back.
Durable ==
  \A e \in durable : Whole(e) /\ dir[e] \in synced /\ older[e] = {}

\* What a publisher is about to move aside stays invalid.
Rejected ==
  \A p \in Processes : pc[p] = "quarantine_existing" => ~Whole(Path(p))

\* A process has a mark for each of its mappings of an entry, and its collector
\* has listed none of the marked ones.
Of(p, e) == {h \in handles[p] : h[1] = e}

Counted ==
  \A p \in Processes :
    /\ IsFiniteSet(handles[p])
    /\ \A e \in Entries : Cardinality(Of(p, e)) <= marks[p][e]

ScanType ==
  scan \in [Processes -> [files : SUBSET (Inodes \X Entries), retained : Nat, maximum : Nat]]

Listed ==
  \A p \in Processes :
    /\ pc[p] # "collect" => scan[p].files = {}
    /\ \A c \in scan[p].files : marks[p][c[2]] = 0

Files == InUse /\ Named /\ Apart /\ Private /\ Marked /\ Mapped /\ Landed /\ Durable

-----------------------------------------------------------------------------
(***************************************************************************)
(* Effects of the pieces the actions are made of.                          *)
(***************************************************************************)
OpType == [path : Paths \cup {Nobody}, policy : {"none", "data", "full"}, atomic : BOOLEAN]

DiskType ==
  /\ content \in [Inodes -> Contents]
  /\ origin \in [Inodes -> {"none", "data", "full", "in_place"}]
  /\ synced \subseteq Inodes

DirType ==
  /\ dir \in [Paths -> Inodes \cup {Nobody}]
  /\ older \in [Paths -> SUBSET (Inodes \cup {Nobody})]
  /\ durable \subseteq Entries

ProcessType ==
  /\ lock \in [Entries -> Processes \cup {Nobody}]
  /\ pc \in [Processes -> Places]
  /\ op \in [Processes -> OpType]
  /\ file \in [Processes -> Inodes \cup {Nobody}]

ReaderType ==
  /\ handles \in [Processes -> SUBSET (Paths \X Inodes \X (1 .. plan.open))]
  /\ marks \in [Processes -> [Entries -> Nat]]

Typed == plan \in Plans /\ DiskType /\ DirType /\ ProcessType /\ ReaderType /\ ScanType

Control == Typed /\ Placed /\ Locked

Inductive == Control /\ Files /\ Rejected /\ Counted /\ Listed

\* The type invariant by the parts of the state it is about.
LEMMA TypedIsTypeOK == Typed <=> TypeOK /\ ScanType
BY DEF Typed, TypeOK, DiskType, DirType, ProcessType, ReaderType, ScanType, OpType

\* The fields of a plan.
LEMMA PlanFields ==
  ASSUME plan \in Plans
  PROVE  /\ plan.processes \subseteq Processes /\ plan.entries \subseteq Entries
         /\ plan.exports \subseteq Exports /\ plan.policies \subseteq {"none", "data", "full"}
         /\ plan.atomic \subseteq BOOLEAN /\ plan.quotas \subseteq Nat /\ plan.open \in Nat
BY WireCacheAssumption DEF PlanType

\* A process has a next place, and the others keep theirs.
LEMMA GotoEffect ==
  ASSUME ProcessType, NEW p \in Processes, NEW place \in Places, Goto(p, place)
  PROVE  /\ pc' \in [Processes -> Places]
         /\ pc'[p] = place
         /\ \A q \in Processes : q # p => pc'[q] = pc[q]
BY DEF ProcessType, Goto

\* An operation that ends leaves nothing behind and touches no other process.
LEMMA FinishEffect ==
  ASSUME ProcessType, NEW p \in Processes, Finish(p)
  PROVE  /\ ProcessType'
         /\ pc'[p] = "idle" /\ op'[p] = NoOp /\ file'[p] = Nobody
         /\ \A q \in Processes : q # p => pc'[q] = pc[q] /\ op'[q] = op[q] /\ file'[q] = file[q]
         /\ \A q \in Processes : q # p => \A e \in Entries : lock[e] = q => lock'[e] = q
<1>1. /\ pc' \in [Processes -> Places]
      /\ pc'[p] = "idle"
      /\ \A q \in Processes : q # p => pc'[q] = pc[q]
  BY GotoEffect DEF Finish, Places
<1>2. NoOp \in OpType
  BY DEF NoOp, OpType
<1>3. /\ op' \in [Processes -> OpType]
      /\ op'[p] = NoOp
      /\ \A q \in Processes : q # p => op'[q] = op[q]
  BY <1>2 DEF Finish, ProcessType
<1>4. /\ file' \in [Processes -> Inodes \cup {Nobody}]
      /\ file'[p] = Nobody
      /\ \A q \in Processes : q # p => file'[q] = file[q]
  BY DEF Finish, ProcessType
<1>5. /\ lock' \in [Entries -> Processes \cup {Nobody}]
      /\ \A q \in Processes : q # p => \A e \in Entries : lock[e] = q => lock'[e] = q
  BY DEF Finish, Unlock, ProcessType
<1> QED BY <1>1, <1>3, <1>4, <1>5 DEF ProcessType

\* A renaming touches one path.
LEMMA RenameEffect ==
  ASSUME DirType, NEW f \in Paths, NEW i \in Inodes \cup {Nobody}, Rename(f, i)
  PROVE  /\ dir' \in [Paths -> Inodes \cup {Nobody}]
         /\ older' \in [Paths -> SUBSET (Inodes \cup {Nobody})]
         /\ dir'[f] = i /\ older'[f] = older[f] \cup {dir[f]}
         /\ \A g \in Paths : g # f => dir'[g] = dir[g] /\ older'[g] = older[g]
BY DEF DirType, Rename

\* A path that is moved aside names nothing, and nobody vouches for it.
LEMMA MoveAsideEffect ==
  ASSUME DirType, NEW f \in Paths, MoveAside(f)
  PROVE  /\ DirType'
         /\ \A g \in Paths : dir'[g] \in {dir[g], Nobody} /\ older'[g] \subseteq Names(g)
         /\ \A g \in Paths : g # f => dir'[g] = dir[g]
         /\ \A e \in durable' : e \in durable /\ (dir[e] # Nobody => dir'[e] = dir[e] /\ older'[e] = older[e])
<1>1. CASE dir[f] = Nobody
  BY <1>1 DEF MoveAside, DirType, Names
<1>2. CASE dir[f] # Nobody
  <2>1. Rename(f, Nobody) /\ durable' = durable \ {f}
    BY <1>2 DEF MoveAside, Forget
  <2>2. /\ dir' \in [Paths -> Inodes \cup {Nobody}]
        /\ older' \in [Paths -> SUBSET (Inodes \cup {Nobody})]
        /\ dir'[f] = Nobody /\ older'[f] = older[f] \cup {dir[f]}
        /\ \A g \in Paths : g # f => dir'[g] = dir[g] /\ older'[g] = older[g]
    BY <2>1, RenameEffect
  <2>3. durable' \subseteq Paths
    BY <2>1 DEF DirType, Paths
  <2> QED BY <2>1, <2>2, <2>3 DEF DirType, Names
<1> QED BY <1>1, <1>2

-----------------------------------------------------------------------------
(***************************************************************************)
(* Where the processes are.                                                *)
(***************************************************************************)
\* A step of p moves no other process and takes no lock from it.
Frame(p) ==
  \A q \in Processes :
    q # p => /\ pc'[q] = pc[q] /\ op'[q] = op[q] /\ file'[q] = file[q]
             /\ \A e \in Entries : lock[e] = q => lock'[e] = q

\* A step that keeps arguments, file and locks.
LEMMA PlainMove ==
  ASSUME ProcessType, NEW p \in Processes, NEW place \in Places, Goto(p, place),
         UNCHANGED <<lock, op, file>>
  PROVE  /\ ProcessType' /\ Frame(p)
         /\ pc'[p] = place /\ op'[p] = op[p] /\ file'[p] = file[p]
BY GotoEffect DEF ProcessType, Frame

\* A step that gives an operation its arguments.
LEMMA ArgumentMove ==
  ASSUME ProcessType, NEW p \in Processes, NEW place \in Places, Goto(p, place),
         NEW x \in OpType, op' = [op EXCEPT ![p] = x], UNCHANGED <<lock, file>>
  PROVE  /\ ProcessType' /\ Frame(p)
         /\ pc'[p] = place /\ op'[p] = x /\ file'[p] = file[p]
BY GotoEffect DEF ProcessType, Frame

\* A step that gets hold of a file.
LEMMA FileMove ==
  ASSUME ProcessType, NEW p \in Processes, NEW place \in Places, Goto(p, place),
         NEW i \in Inodes, file' = [file EXCEPT ![p] = i], UNCHANGED <<lock, op>>
  PROVE  /\ ProcessType' /\ Frame(p)
         /\ pc'[p] = place /\ op'[p] = op[p] /\ file'[p] = i
BY GotoEffect DEF ProcessType, Frame

\* What p's step leaves true of p is true of all.
LEMMA ControlOfAll ==
  ASSUME Placed, Locked, NEW p \in Processes, Frame(p), PlacedAt(p)', LockedAt(p)'
  PROVE  Placed' /\ Locked'
<1> SUFFICES ASSUME NEW q \in Processes, q # p
             PROVE  PlacedAt(q)' /\ LockedAt(q)'
  BY DEF Placed, Locked
<1>1. PlacedAt(q) /\ LockedAt(q)
  BY DEF Placed, Locked
<1>2. pc'[q] = pc[q] /\ op'[q] = op[q] /\ file'[q] = file[q]
  BY DEF Frame
<1>3. PlacedAt(q)'
  BY <1>1, <1>2 DEF PlacedAt, Path
<1>4. LockedAt(q)'
  BY <1>1, <1>2 DEF PlacedAt, LockedAt, Path, Frame
<1> QED BY <1>3, <1>4

\* An operation that ends leaves its process idle.
LEMMA FinishControl ==
  ASSUME ProcessType, NEW p \in Processes, Finish(p)
  PROVE  ProcessType' /\ Frame(p) /\ PlacedAt(p)' /\ LockedAt(p)'
<1>1. /\ ProcessType' /\ Frame(p)
      /\ pc'[p] = "idle" /\ op'[p] = NoOp /\ file'[p] = Nobody
  BY FinishEffect DEF Frame
<1>2. NoOp.path = Nobody /\ Nobody \notin Entries
  BY WireCacheAssumption DEF NoOp
<1> QED BY <1>1, <1>2 DEF PlacedAt, LockedAt, Path, Looking, Writing, Publishes

\* The steps of a publisher.
Starting(p) ==
  \/ \E e \in Entries, policy \in {"none", "data", "full"} : StartPublish(p, e, policy)
  \/ \E f \in Exports, policy \in {"none", "data", "full"}, atomic \in BOOLEAN :
       StartWrite(p, f, policy, atomic)
  \/ \E f \in Paths : StartOpen(p, f)

\* Starting an operation puts the process at a place its operation allows, holding no lock.
LEMMA StartingControl ==
  ASSUME Control, NEW p \in Processes, Starting(p)
  PROVE  ProcessType' /\ Frame(p) /\ PlacedAt(p)' /\ LockedAt(p)'
<1> USE DEF Control, Typed
<1>1. ASSUME NEW e \in Entries, NEW policy \in {"none", "data", "full"}, StartPublish(p, e, policy)
      PROVE  ProcessType' /\ Frame(p) /\ PlacedAt(p)' /\ LockedAt(p)'
  <2> DEFINE x == [path |-> e, policy |-> policy, atomic |-> TRUE]
  <2>1. x \in OpType
    BY DEF OpType, Paths
  <2>2. ProcessType' /\ Frame(p) /\ pc'[p] = "lock" /\ op'[p] = x
    BY <1>1, <2>1, ArgumentMove, Zenon DEF StartPublish, Places
  <2> QED BY <2>2 DEF PlacedAt, LockedAt, Path, Looking, Writing, Publishes, Paths
<1>2. ASSUME NEW f \in Exports, NEW policy \in {"none", "data", "full"}, NEW atomic \in BOOLEAN,
             StartWrite(p, f, policy, atomic)
      PROVE  ProcessType' /\ Frame(p) /\ PlacedAt(p)' /\ LockedAt(p)'
  <2> DEFINE x == [path |-> f, policy |-> policy, atomic |-> atomic]
  <2>1. x \in OpType
    BY DEF OpType, Paths
  <2>2. ProcessType' /\ Frame(p) /\ pc'[p] = "create" /\ op'[p] = x
    BY <1>2, <2>1, ArgumentMove, ZenonT(40), SMTT(30) DEF StartWrite, Places
  <2>3. f \notin Entries
    BY WireCacheAssumption
  <2> QED BY <2>2, <2>3 DEF PlacedAt, LockedAt, Path, Looking, Writing, Publishes, Paths
<1>3. ASSUME NEW f \in Paths, StartOpen(p, f)
      PROVE  ProcessType' /\ Frame(p) /\ PlacedAt(p)' /\ LockedAt(p)'
  <2> DEFINE x == [path |-> f, policy |-> "none", atomic |-> TRUE]
  <2>1. x \in OpType
    BY DEF OpType
  <2>2. op' = [op EXCEPT ![p] = x] /\ Goto(p, "open") /\ UNCHANGED <<lock, file>>
    BY <1>3 DEF StartOpen
  <2>3. ProcessType' /\ Frame(p) /\ pc'[p] = "open" /\ op'[p] = x
    BY <2>1, <2>2, ArgumentMove, Zenon DEF Places
  <2> QED BY <2>3 DEF PlacedAt, LockedAt, Path, Looking, Writing, Publishes
<1> QED BY <1>1, <1>2, <1>3 DEF Starting

\* The steps of a publisher up to the file it writes, and of a collector.
LEMMA PublishingControl ==
  ASSUME Control, NEW p \in Processes,
         \/ Acquire(p) \/ LockTimeout(p) \/ Exists(p) \/ ReturnExisting(p)
         \/ RejectExisting(p) \/ QuarantineExisting(p)
  PROVE  ProcessType' /\ Frame(p) /\ PlacedAt(p)' /\ LockedAt(p)'
<1>0. ProcessType /\ PlacedAt(p) /\ LockedAt(p)
  BY DEF Control, Typed, Placed, Locked
<1>1. CASE Acquire(p)
  <2>1. pc[p] = "lock" /\ lock[Path(p)] = Nobody /\ lock' = [lock EXCEPT ![Path(p)] = p]
    BY <1>1 DEF Acquire, Enter, At
  <2>2. Path(p) \in Entries
    BY <1>0, <2>1 DEF PlacedAt
  <2>3. /\ pc' \in [Processes -> Places] /\ pc'[p] = "exists"
        /\ \A q \in Processes : q # p => pc'[q] = pc[q]
    BY <1>0, <1>1, GotoEffect DEF Acquire, Enter, Places
  <2>4. op' = op /\ file' = file
    BY <1>1 DEF Acquire, Enter
  <2>5. ProcessType' /\ Frame(p) /\ lock'[Path(p)] = p
    BY <1>0, <2>1, <2>2, <2>3, <2>4, WireCacheAssumption DEF ProcessType, Frame
  <2> QED BY <1>0, <2>1, <2>2, <2>3, <2>4, <2>5 DEF PlacedAt, LockedAt, Path, Looking, Writing, Publishes
<1>2. CASE LockTimeout(p)
  BY <1>0, <1>2, FinishControl, Zenon DEF LockTimeout
<1>3. CASE Exists(p)
  <2> DEFINE place == IF dir[Path(p)] = Nobody THEN "create" ELSE "existing"
  <2>1. pc[p] = "exists" /\ place \in Places /\ place \in {"create", "existing"} /\ lock' = lock
    BY <1>3, Zenon DEF Exists, At, Places
  <2>2. ProcessType' /\ Frame(p) /\ pc'[p] = place /\ op'[p] = op[p] /\ file'[p] = file[p]
    BY <1>0, <1>3, <2>1, PlainMove DEF Exists
  <2> QED BY <1>0, <2>1, <2>2 DEF PlacedAt, LockedAt, Path, Looking, Writing, Publishes
<1>4. CASE ReturnExisting(p)
  BY <1>0, <1>4, FinishControl, Zenon DEF ReturnExisting
<1>5. CASE RejectExisting(p)
  <2>1. pc[p] = "existing" /\ lock' = lock
    BY <1>5, Zenon DEF RejectExisting, At
  <2>2. ProcessType' /\ Frame(p) /\ pc'[p] = "quarantine_existing" /\ op'[p] = op[p] /\ file'[p] = file[p]
    BY <1>0, <1>5, PlainMove, Zenon DEF RejectExisting, Places
  <2> QED BY <1>0, <2>1, <2>2 DEF PlacedAt, LockedAt, Path, Looking, Writing, Publishes
<1>6. CASE QuarantineExisting(p)
  <2>1. pc[p] = "quarantine_existing" /\ lock' = lock
    BY <1>6 DEF QuarantineExisting, At
  <2>2. ProcessType' /\ Frame(p) /\ pc'[p] = "create" /\ op'[p] = op[p] /\ file'[p] = file[p]
    BY <1>0, <1>6, PlainMove DEF QuarantineExisting, Places
  <2> QED BY <1>0, <2>1, <2>2 DEF PlacedAt, LockedAt, Path, Looking, Writing, Publishes
<1> QED BY <1>1, <1>2, <1>3, <1>4, <1>5, <1>6

\* The steps of _publish_bytes.
LEMMA WritingControl ==
  ASSUME Control, NEW p \in Processes,
         \/ Create(p) \/ Write(p) \/ Sync(p) \/ Replace(p) \/ SyncDirectory(p) \/ Fail(p)
  PROVE  ProcessType' /\ Frame(p) /\ PlacedAt(p)' /\ LockedAt(p)'
<1>0. ProcessType /\ PlacedAt(p) /\ LockedAt(p)
  BY Zenon DEF Control, Typed, Placed, Locked
<1>1. CASE Create(p)
  <2>1. pc[p] = "create" /\ lock' = lock /\ op' = op /\ Goto(p, "write")
    BY <1>1 DEF Create, CreateFile, At
  <2>2. PICK i \in Inodes : file' = [file EXCEPT ![p] = i]
    BY <1>1, Zenon DEF Create, CreateFile
  <2>3. ProcessType' /\ Frame(p) /\ pc'[p] = "write" /\ op'[p] = op[p] /\ file'[p] = i
    BY <1>0, <2>1, <2>2, FileMove, Zenon DEF Places
  <2> QED BY <1>0, <2>1, <2>2, <2>3, Zenon DEF PlacedAt, LockedAt, Path, Looking, Writing, Publishes
<1>2. CASE Write(p)
  <2>1. pc[p] = "write" /\ lock' = lock
    BY <1>2, Zenon DEF Write, At
  <2>2. ProcessType' /\ Frame(p) /\ pc'[p] = "sync" /\ op'[p] = op[p] /\ file'[p] = file[p]
    BY <1>0, <1>2, PlainMove, Zenon DEF Write, Places
  <2> QED BY <1>0, <2>1, <2>2 DEF PlacedAt, LockedAt, Path, Looking, Writing, Publishes
<1>3. CASE Sync(p)
  <2>1. pc[p] = "sync" /\ lock' = lock
    BY <1>3 DEF Sync, SyncUnder, At
  <2>2. ProcessType' /\ Frame(p) /\ pc'[p] = "replace" /\ op'[p] = op[p] /\ file'[p] = file[p]
    BY <1>0, <1>3, PlainMove DEF Sync, SyncUnder, Places
  <2> QED BY <1>0, <2>1, <2>2 DEF PlacedAt, LockedAt, Path, Looking, Writing, Publishes
<1>4. CASE Replace(p)
  <2>1. CASE op[p].policy = "full"
    <3>1. pc[p] = "replace" /\ UNCHANGED <<lock, op, file>> /\ Goto(p, "sync_directory")
      BY <1>4, <2>1 DEF Replace, At
    <3>2. ProcessType' /\ Frame(p) /\ pc'[p] = "sync_directory" /\ op'[p] = op[p] /\ file'[p] = file[p]
      BY <1>0, <3>1, PlainMove, Zenon DEF Places
    <3> QED BY <1>0, <2>1, <3>1, <3>2, Zenon DEF PlacedAt, LockedAt, Path, Looking, Writing, Publishes
  <2>2. CASE op[p].policy # "full"
    BY <1>0, <1>4, <2>2, FinishControl, Zenon DEF Replace
  <2> QED BY <2>1, <2>2, Zenon
<1>5. CASE SyncDirectory(p)
  BY <1>0, <1>5, FinishControl DEF SyncDirectory, ReturnFull
<1>6. CASE Fail(p)
  BY <1>0, <1>6, FinishControl, Zenon DEF Fail
<1> QED BY <1>1, <1>2, <1>3, <1>4, <1>5, <1>6

\* The steps of a reader, of a collector, and a crash.
LEMMA ReadingControl ==
  ASSUME Control, NEW p \in Processes,
         \/ OpenFile(p) \/ OpenFails(p) \/ Quarantine(p) \/ Map(p)
         \/ (\E h \in handles[p] : Close(p, h))
         \/ (\E maximum \in Nat : CollectScan(p, maximum))
         \/ CollectUnlink(p) \/ CollectDone(p) \/ Crash(p)
  PROVE  ProcessType' /\ Frame(p) /\ PlacedAt(p)' /\ LockedAt(p)'
<1>0. ProcessType /\ DirType /\ PlacedAt(p) /\ LockedAt(p)
  BY Zenon DEF Control, Typed, Placed, Locked
<1>1. CASE OpenFile(p)
  <2>1. pc[p] = "open" /\ lock' = lock /\ op' = op /\ Goto(p, "map") /\ dir[Path(p)] # Nobody
    BY <1>1, Zenon DEF OpenFile, OpenNamed, At
  <2>2. dir[Path(p)] \in Inodes
    BY <1>0, <2>1, Zenon DEF PlacedAt, DirType
  <2>3. ProcessType' /\ Frame(p) /\ pc'[p] = "map" /\ op'[p] = op[p] /\ file'[p] \in Inodes
    <3>1. file' = [file EXCEPT ![p] = dir[Path(p)]] /\ UNCHANGED <<lock, op>>
      BY <1>1, <2>1 DEF OpenFile, OpenNamed
    <3>2. "map" \in Places
      BY DEF Places
    <3>3. ProcessType
      BY <1>0, Zenon
    <3> DEFINE i == dir[Path(p)]
    <3>4. i \in Inodes /\ file' = [file EXCEPT ![p] = i]
      BY <2>2, <3>1, Zenon
    <3> HIDE DEF i
    <3>5. ProcessType' /\ Frame(p) /\ pc'[p] = "map" /\ op'[p] = op[p] /\ file'[p] = i
      BY <2>1, <3>1, <3>2, <3>3, <3>4, FileMove, Zenon
    <3> QED BY <3>4, <3>5, Zenon
  <2> QED BY <1>0, <2>1, <2>3, Zenon DEF PlacedAt, LockedAt, Path, Looking, Writing, Publishes
<1>2. CASE OpenFails(p)
  <2>1. CASE Path(p) \in Entries
    <3>1. pc[p] = "open" /\ UNCHANGED <<lock, op, file>> /\ Goto(p, "quarantine")
      BY <1>2, <2>1 DEF OpenFails, At
    <3>2. ProcessType' /\ Frame(p) /\ pc'[p] = "quarantine" /\ op'[p] = op[p] /\ file'[p] = file[p]
      BY <1>0, <3>1, PlainMove, Zenon DEF Places
    <3> QED BY <1>0, <2>1, <3>1, <3>2 DEF PlacedAt, LockedAt, Path, Looking, Writing, Publishes
  <2>2. CASE Path(p) \notin Entries
    BY <1>0, <1>2, <2>2, FinishControl, Zenon DEF OpenFails
  <2> QED BY <2>1, <2>2
<1>3. CASE Quarantine(p)
  BY <1>0, <1>3, FinishControl, Zenon DEF Quarantine
<1>4. CASE Map(p)
  BY <1>0, <1>4, FinishControl, Zenon DEF Map
<1>5. CASE \E h \in handles[p] : Close(p, h)
  <2>1. UNCHANGED <<lock, pc, op, file>>
    BY <1>5, Zenon DEF Close
  <2> QED BY <1>0, <2>1 DEF ProcessType, Frame, PlacedAt, LockedAt, Path
<1>6. CASE \E maximum \in Nat : CollectScan(p, maximum)
  <2>1. pc[p] = "idle" /\ UNCHANGED <<lock, op, file>> /\ Goto(p, "collect")
    BY <1>6, Zenon DEF CollectScan, At
  <2>2. ProcessType' /\ Frame(p) /\ pc'[p] = "collect" /\ op'[p] = op[p] /\ file'[p] = file[p]
    BY <1>0, <2>1, PlainMove, Zenon DEF Places
  <2> QED BY <1>0, <2>1, <2>2, Zenon DEF PlacedAt, LockedAt, Path, Looking, Writing, Publishes
<1>7. CASE CollectUnlink(p)
  <2>1. UNCHANGED <<lock, pc, op, file>>
    BY <1>7 DEF CollectUnlink
  <2> QED BY <1>0, <2>1 DEF ProcessType, Frame, PlacedAt, LockedAt, Path
<1>8. CASE CollectDone(p)
  <2>1. pc[p] = "collect" /\ UNCHANGED <<lock, op, file>> /\ Goto(p, "idle")
    BY <1>8 DEF CollectDone, At
  <2>2. ProcessType' /\ Frame(p) /\ pc'[p] = "idle" /\ op'[p] = op[p] /\ file'[p] = file[p]
    BY <1>0, <2>1, PlainMove DEF Places
  <2> QED BY <1>0, <2>1, <2>2, Zenon DEF PlacedAt, LockedAt, Path, Looking, Writing, Publishes
<1>9. CASE Crash(p)
  BY <1>0, <1>9, FinishControl DEF Crash
<1> QED BY <1>1, <1>2, <1>3, <1>4, <1>5, <1>6, <1>7, <1>8, <1>9, Zenon

-----------------------------------------------------------------------------
(***************************************************************************)
(* Types of the other variables.                                           *)
(***************************************************************************)
LEMMA MaxEffect ==
  ASSUME NEW n \in Int
  PROVE  Max({0, n}) \in Nat /\ Max({0, n}) >= n
<1> DEFINE S == {0, n}
<1>1. \E x \in S : \A y \in S : x >= y
  OBVIOUS
<1>2. Max(S) \in S /\ \A y \in S : Max(S) >= y
  BY <1>1, Zenon DEF Max
<1> QED BY <1>2

\* A mark changes by one and never below zero; an export has none.
LEMMA MarkEffect ==
  ASSUME ReaderType, NEW p \in Processes, NEW f \in Paths, NEW change \in {-1, 1},
         MarkActive(p, f, change)
  PROVE  /\ marks' \in [Processes -> [Entries -> Nat]]
         /\ \A q \in Processes : q # p => marks'[q] = marks[q]
         /\ \A e \in Entries : e # f => marks'[p][e] = marks[p][e]
         /\ f \in Entries => marks'[p][f] >= marks[p][f] + change
<1> DEFINE n == Max({0, Mark(p, f) + change})
<1>1. Mark(p, f) \in Nat
  BY DEF Mark, ReaderType
<1>2. n \in Nat /\ n >= Mark(p, f) + change
  BY <1>1, MaxEffect
<1>3. marks' = [marks EXCEPT ![p] = [e \in Entries |-> IF e = f THEN n ELSE marks[p][e]]]
  BY DEF MarkActive, SetMark, ReaderType
<1>4. f \in Entries => Mark(p, f) = marks[p][f]
  BY DEF Mark
<1> HIDE DEF n
<1> QED BY <1>2, <1>3, <1>4 DEF ReaderType

\* Mapping, closing and crashing keep handles and marks well formed and leave other processes' alone.
LEMMA ReaderTypeOf ==
  ASSUME Control, NEW p \in Processes,
         \/ Map(p) \/ (\E h \in handles[p] : Close(p, h)) \/ Crash(p)
  PROVE  ReaderType' /\ \A q \in Processes : q # p => handles'[q] = handles[q] /\ marks'[q] = marks[q]
<1>0. ProcessType /\ PlacedAt(p) /\ ReaderType
  BY Zenon DEF Control, Typed, Placed
<1>1. CASE Map(p)
  <2>1. Path(p) \in Paths /\ file[p] \in Inodes /\ plan' = plan /\ MarkActive(p, Path(p), 1)
    BY <1>0, <1>1 DEF Map, At, PlacedAt
  <2>2. PICK slot \in 1 .. plan.open : handles' = [handles EXCEPT ![p] = @ \cup {<<Path(p), file[p], slot>>}]
    BY <1>1, Zenon DEF Map
  <2>3. <<Path(p), file[p], slot>> \in Paths \X Inodes \X (1 .. plan.open)
    BY <2>1, Zenon
  <2>4. /\ handles' \in [Processes -> SUBSET (Paths \X Inodes \X (1 .. plan.open))]
        /\ \A q \in Processes : q # p => handles'[q] = handles[q]
    BY <1>0, <2>2, <2>3, Zenon DEF ReaderType
  <2> QED BY <1>0, <2>1, <2>4, MarkEffect, Zenon DEF ReaderType
<1>2. CASE \E h \in handles[p] : Close(p, h)
  <2>1. PICK h \in handles[p] : Close(p, h)
    BY <1>2
  <2>2. h[1] \in Paths
    BY <1>0 DEF ReaderType
  <2>3. /\ handles' \in [Processes -> SUBSET (Paths \X Inodes \X (1 .. plan.open))]
        /\ \A q \in Processes : q # p => handles'[q] = handles[q]
    BY <1>0, <2>1, Zenon DEF ReaderType, Close
  <2>4. /\ marks' \in [Processes -> [Entries -> Nat]]
        /\ \A q \in Processes : q # p => marks'[q] = marks[q]
    BY <1>0, <2>1, <2>2, MarkEffect, Zenon DEF Close, ReaderType
  <2>5. plan' = plan
    BY <2>1, Zenon DEF Close
  <2> QED BY <2>3, <2>4, <2>5 DEF ReaderType
<1>3. CASE Crash(p)
  BY <1>0, <1>3 DEF Crash, ReaderType
<1> QED BY <1>1, <1>2, <1>3, Zenon

\* A collector's steps keep its scan well formed and leave other processes' alone.
LEMMA ScanTypeOf ==
  ASSUME Control, NEW p \in Processes,
         \/ (\E maximum \in Nat : CollectScan(p, maximum))
         \/ CollectUnlink(p) \/ CollectDone(p) \/ Crash(p)
  PROVE  ScanType' /\ \A q \in Processes : q # p => scan'[q] = scan[q]
<1> DEFINE T == [files : SUBSET (Inodes \X Entries), retained : Nat, maximum : Nat]
<1>0. scan \in [Processes -> T] /\ DirType
  BY DEF Control, Typed, ScanType
<1>1. ASSUME NEW x \in T, scan' = [scan EXCEPT ![p] = x]
      PROVE  ScanType' /\ \A q \in Processes : q # p => scan'[q] = scan[q]
  BY <1>0, <1>1 DEF ScanType
<1>2. CASE \E maximum \in Nat : CollectScan(p, maximum)
  <2>1. PICK maximum \in Nat : CollectScan(p, maximum)
    BY <1>2
  <2> DEFINE present == {e \in Entries : dir[e] # Nobody}
             x == [files |-> {<<dir[e], e>> : e \in {y \in present : marks[p][y] = 0}},
                   retained |-> Cardinality(present), maximum |-> maximum]
  <2>2. Cardinality(present) \in Nat
    <3>1. present \subseteq Entries
      OBVIOUS
    <3>2. IsFiniteSet(present)
      BY <3>1, FS_Subset, WireCacheAssumption, Zenon
    <3> QED BY <3>2, FS_CardinalityType
  <2>3. \A e \in present : dir[e] \in Inodes
    BY <1>0 DEF DirType, Paths
  <2>4. {<<dir[e], e>> : e \in {y \in present : marks[p][y] = 0}} \subseteq Inodes \X Entries
    BY <2>3, SMTT(20)
  <2>5. scan' = [scan EXCEPT ![p] = x]
    BY <2>1, Zenon DEF CollectScan
  <2>6. x \in T
    BY <2>2, <2>4
  <2> HIDE DEF x
  <2> QED BY <1>1, <2>5, <2>6, Zenon
<1>3. CASE CollectUnlink(p)
  <2> DEFINE s == scan[p]
  <2>0. s \in T /\ s.retained \in Nat /\ s.maximum \in Nat
    BY <1>0, Zenon
  <2>1. s.retained > s.maximum
    BY <1>3 DEF CollectUnlink
  <2>2. PICK c \in s.files :
          scan' = [scan EXCEPT ![p] =
                     [files |-> s.files \ {c}, maximum |-> s.maximum,
                      retained |-> IF dir[c[2]] = Nobody THEN s.retained ELSE s.retained - 1]]
    BY <1>3, Zenon DEF CollectUnlink
  <2> DEFINE x == [files |-> s.files \ {c}, maximum |-> s.maximum,
                   retained |-> IF dir[c[2]] = Nobody THEN s.retained ELSE s.retained - 1]
  <2>3. (IF dir[c[2]] = Nobody THEN s.retained ELSE s.retained - 1) \in Nat
    BY <2>0, <2>1
  <2>4. s.files \ {c} \subseteq Inodes \X Entries
    BY <2>0, Zenon
  <2>5. x \in T
    BY <2>0, <2>3, <2>4, Zenon
  <2> HIDE DEF x
  <2> QED BY <1>1, <2>2, <2>5, Zenon DEF x
<1>4. CASE CollectDone(p) \/ Crash(p)
  <2>1. NoScan \in T
    BY DEF NoScan
  <2> QED BY <1>1, <1>4, <2>1 DEF CollectDone, Crash
<1> QED BY <1>2, <1>3, <1>4

\* The steps of one process.
Collecting(p) ==
  (\E maximum \in Nat : CollectScan(p, maximum)) \/ CollectUnlink(p) \/ CollectDone(p)

Closing(p) == \E h \in handles[p] : Close(p, h)

Steps(p) == Starting(p) \/ Publishing(p) \/ Reading(p) \/ Closing(p) \/ Collecting(p) \/ Crash(p)

\* Every step is one of a process, a power loss or a damage.
LEMMA NextIsASteps ==
  ASSUME Typed, Next
  PROVE  (\E p \in Processes : Steps(p)) \/ PowerLoss \/ (\E e \in Entries : Damage(e))
<1>1. /\ plan.processes \subseteq Processes /\ plan.entries \subseteq Entries
      /\ plan.exports \subseteq Exports /\ plan.policies \subseteq {"none", "data", "full"}
      /\ plan.atomic \subseteq BOOLEAN /\ plan.quotas \subseteq Nat
  BY PlanFields DEF Typed
<1>2. CASE PowerLoss \/ (\E e \in plan.entries : Damage(e))
  BY <1>1, <1>2
<1>3. ASSUME NEW p \in plan.processes,
             \/ \E e \in plan.entries, policy \in plan.policies : StartPublish(p, e, policy)
             \/ \E f \in plan.exports, policy \in plan.policies, atomic \in plan.atomic :
                  StartWrite(p, f, policy, atomic)
             \/ \E f \in Paths : StartOpen(p, f)
      PROVE  Starting(p)
  BY <1>1, <1>3, Zenon DEF Starting
<1>4. ASSUME NEW p \in plan.processes,
             (\E maximum \in plan.quotas : CollectScan(p, maximum)) \/ CollectUnlink(p) \/ CollectDone(p)
      PROVE  Collecting(p)
  BY <1>1, <1>4, Zenon DEF Collecting
<1> QED BY <1>1, <1>2, <1>3, <1>4, Zenon DEF Next, Steps, Closing

\* The names of the paths: what a step of p does to them.
LEMMA DirTypeOf ==
  ASSUME Control, NEW p \in Processes, Steps(p)
  PROVE  DirType'
<1>0. DirType /\ ProcessType /\ PlacedAt(p)
  BY Zenon DEF Control, Typed, Placed
<1>1. CASE Starting(p)
  BY <1>0, <1>1, Zenon DEF Starting, StartPublish, StartWrite, StartOpen, DirType
<1>2. CASE Acquire(p) \/ LockTimeout(p) \/ Exists(p) \/ ReturnExisting(p) \/ RejectExisting(p)
  BY <1>0, <1>2, Zenon DEF Acquire, Enter, LockTimeout, Exists, ReturnExisting, RejectExisting, DirType
<1>3. CASE QuarantineExisting(p) \/ Quarantine(p)
  <2>1. Path(p) \in Paths /\ MoveAside(Path(p))
    BY <1>0, <1>3 DEF QuarantineExisting, Quarantine, At, PlacedAt
  <2> QED BY <1>0, <2>1, MoveAsideEffect, Zenon
<1>4. CASE Create(p)
  <2>1. Path(p) \in Paths /\ durable' = durable
    BY <1>0, <1>4 DEF Create, CreateFile, At, PlacedAt
  <2>2. (\E i \in Inodes : Rename(Path(p), i)) \/ UNCHANGED <<dir, older>>
    BY <1>4, Zenon DEF Create, CreateFile
  <2> QED BY <1>0, <2>1, <2>2, RenameEffect, Zenon DEF DirType
<1>5. CASE Write(p) \/ Sync(p) \/ Fail(p)
  BY <1>0, <1>5, Zenon DEF Write, Sync, SyncUnder, Fail, DirType
<1>6. CASE Replace(p)
  <2>1. Path(p) \in Paths /\ file[p] \in Inodes
    BY <1>0, <1>6, Zenon DEF Replace, At, PlacedAt, Writing
  <2>2. (Rename(Path(p), file[p]) /\ durable' = durable \ {Path(p)}) \/ UNCHANGED <<dir, older, durable>>
    BY <1>6 DEF Replace, Forget
  <2> QED BY <1>0, <2>1, <2>2, RenameEffect, Zenon DEF DirType
<1>7. CASE SyncDirectory(p)
  BY <1>0, <1>7, Zenon DEF SyncDirectory, ReturnFull, DirType
<1>8. CASE OpenFile(p) \/ OpenFails(p) \/ Map(p) \/ Closing(p) \/ CollectDone(p) \/ Crash(p)
  BY <1>0, <1>8, Zenon DEF OpenFile, OpenNamed, OpenFails, Map, Closing, Close, CollectDone, Crash, DirType
<1>9. CASE \E maximum \in Nat : CollectScan(p, maximum)
  BY <1>0, <1>9, Zenon DEF CollectScan, DirType
<1>10. CASE CollectUnlink(p)
  <2>1. PICK c \in scan[p].files : MoveAside(c[2])
    BY <1>10 DEF CollectUnlink
  <2>2. c[2] \in Paths
    BY DEF Control, Typed, ScanType, Paths
  <2> QED BY <1>0, <2>1, <2>2, MoveAsideEffect, Zenon
<1> QED BY <1>1, <1>2, <1>3, <1>4, <1>5, <1>6, <1>7, <1>8, <1>9, <1>10, Zenon DEF Steps, Publishing, Reading, Collecting

\* The files: what a step of p does to them.
LEMMA DiskTypeOf ==
  ASSUME Control, NEW p \in Processes, Steps(p)
  PROVE  DiskType' /\ (UNCHANGED <<content, origin, synced>> \/ Create(p) \/ Write(p) \/ Sync(p))
<1>0. DiskType /\ ProcessType /\ PlacedAt(p)
  BY DEF Control, Typed, Placed
<1>1. CASE UNCHANGED <<content, origin, synced>>
  BY <1>0, <1>1, Zenon DEF DiskType
<1>2. CASE Create(p)
  <2>1. op[p].policy \in {"none", "data", "full"}
    BY <1>0 DEF ProcessType, OpType
  <2>2. PICK i \in Inodes :
          /\ content' = [content EXCEPT ![i] = "partial"]
          /\ origin' = [origin EXCEPT ![i] = IF ~op[p].atomic THEN "in_place" ELSE op[p].policy]
          /\ synced' = synced \ {i}
    BY <1>2, Zenon DEF Create, CreateFile
  <2> QED BY <1>0, <1>2, <2>1, <2>2 DEF DiskType, Contents
<1>3. CASE Write(p)
  BY <1>0, <1>3, Zenon DEF Write, DiskType, Contents
<1>4. CASE Sync(p)
  <2>1. file[p] \in Inodes
    BY <1>0, <1>4, Zenon DEF Sync, SyncUnder, At, PlacedAt, Writing
  <2> QED BY <1>0, <1>4, <2>1, Zenon DEF Sync, SyncUnder, DiskType
<1>5. CASE Starting(p)
  BY <1>1, <1>5 DEF Starting, StartPublish, StartWrite, StartOpen, disk
<1>6. CASE Acquire(p) \/ LockTimeout(p) \/ Exists(p) \/ ReturnExisting(p) \/ RejectExisting(p) \/ QuarantineExisting(p)
  BY <1>1, <1>6, Zenon DEF Acquire, Enter, LockTimeout, Exists, ReturnExisting, RejectExisting, QuarantineExisting, disk
<1>7. CASE Replace(p) \/ SyncDirectory(p) \/ Fail(p)
  BY <1>1, <1>7, Zenon DEF Replace, SyncDirectory, ReturnFull, Fail, disk
<1>8. CASE Reading(p) \/ Closing(p) \/ Crash(p)
  BY <1>1, <1>8 DEF Reading, OpenFile, OpenNamed, OpenFails, Quarantine, Map, Closing, Close, Crash, disk
<1>9. CASE Collecting(p)
  BY <1>1, <1>9, Zenon DEF Collecting, CollectScan, CollectUnlink, CollectDone, disk
<1> QED BY <1>2, <1>3, <1>4, <1>5, <1>6, <1>7, <1>8, <1>9, Zenon DEF Steps, Publishing

\* Which steps touch mappings and marks, and which the list of a collector.
LEMMA ReaderSteps ==
  ASSUME NEW p, Steps(p)
  PROVE  /\ plan' = plan
         /\ UNCHANGED <<handles, marks>> \/ Map(p) \/ Closing(p) \/ Crash(p)
         /\ scan' = scan \/ Collecting(p) \/ Crash(p)
<1>1. CASE Starting(p)
  BY <1>1, Zenon DEF Starting, StartPublish, StartWrite, StartOpen, reader
<1>2. CASE Acquire(p) \/ LockTimeout(p) \/ Exists(p) \/ ReturnExisting(p) \/ RejectExisting(p) \/ QuarantineExisting(p)
  BY <1>2, Zenon DEF Acquire, Enter, LockTimeout, Exists, ReturnExisting, RejectExisting, QuarantineExisting, reader
<1>3. CASE Create(p) \/ Write(p) \/ Sync(p)
  BY <1>3, Zenon DEF Create, CreateFile, Write, Sync, SyncUnder, reader
<1>4. CASE Replace(p) \/ SyncDirectory(p) \/ Fail(p)
  BY <1>4, Zenon DEF Replace, SyncDirectory, ReturnFull, Fail, reader
<1>5. CASE Reading(p) \/ Closing(p) \/ Crash(p)
  BY <1>5 DEF Reading, OpenFile, OpenNamed, OpenFails, Quarantine, Map, Closing, Close, Crash, reader
<1>6. CASE Collecting(p)
  BY <1>6, Zenon DEF Collecting, CollectScan, CollectUnlink, CollectDone, reader
<1> QED BY <1>1, <1>2, <1>3, <1>4, <1>5, <1>6, Zenon DEF Steps, Publishing

\* A step of a process keeps types, places and locks.
LEMMA ControlOfProcess ==
  ASSUME Control, NEW p \in Processes, Steps(p)
  PROVE  Control' /\ Frame(p)
<1>1. ProcessType' /\ Frame(p) /\ PlacedAt(p)' /\ LockedAt(p)'
  <2>1. CASE Starting(p)
    BY <2>1, StartingControl
  <2>2. CASE Acquire(p) \/ LockTimeout(p) \/ Exists(p) \/ ReturnExisting(p) \/ RejectExisting(p) \/ QuarantineExisting(p)
    BY <2>2, PublishingControl
  <2>3. CASE Create(p) \/ Write(p) \/ Sync(p) \/ Replace(p) \/ SyncDirectory(p) \/ Fail(p)
    BY <2>3, WritingControl, Zenon
  <2>4. CASE Reading(p) \/ Closing(p) \/ Collecting(p) \/ Crash(p)
    BY <2>4, ReadingControl DEF Reading, Closing, Collecting
  <2> QED BY <2>1, <2>2, <2>3, <2>4 DEF Steps, Publishing
<1>2. Placed' /\ Locked'
  BY <1>1, ControlOfAll, Zenon DEF Control
<1>3. ReaderType'
  BY ReaderSteps, ReaderTypeOf, Zenon DEF Control, Typed, ReaderType, Closing
<1>4. ScanType'
  BY ReaderSteps, ScanTypeOf DEF Control, Typed, ScanType, Collecting
<1>5. plan' \in Plans
  BY ReaderSteps DEF Control, Typed
<1> QED BY <1>1, <1>2, <1>3, <1>4, <1>5, DirTypeOf, DiskTypeOf, Zenon DEF Control, Typed

\* The idle operation is an operation, and names no entry.
LEMMA NoOpType == NoOp \in OpType /\ NoOp.path \notin Entries
BY WireCacheAssumption DEF NoOp, OpType

\* After a power loss nothing runs and nothing is mapped.
LEMMA ControlOfPowerLoss ==
  ASSUME Control, PowerLoss
  PROVE  Control'
<1>0. Typed
  BY Zenon DEF Control
<1>1. ProcessType'
  BY <1>0, NoOpType, Zenon DEF PowerLoss, ProcessType, Places
<1>2. Placed' /\ Locked'
  BY NoOpType, Zenon DEF PowerLoss, Placed, PlacedAt, Locked, LockedAt, Path, Looking, Writing, Publishes
<1>3. DiskType'
  <2>1. PICK torn : content' = [i \in Inodes |-> IF i \in torn THEN "torn" ELSE content[i]]
    BY Zenon DEF PowerLoss
  <2> QED BY <1>0, <2>1 DEF Typed, DiskType, PowerLoss, Contents
<1>4. DirType'
  BY <1>0, Zenon DEF Typed, DirType, PowerLoss
<1>5. ReaderType'
  BY <1>0 DEF Typed, ReaderType, PowerLoss
<1>6. NoScan \in [files : SUBSET (Inodes \X Entries), retained : Nat, maximum : Nat]
  BY Zenon DEF NoScan
<1>7. ScanType'
  BY <1>6, Zenon DEF ScanType, PowerLoss
<1>8. plan' \in Plans
  BY <1>0 DEF Typed, PowerLoss
<1> QED BY <1>1, <1>2, <1>3, <1>4, <1>5, <1>7, <1>8, Zenon DEF Control, Typed

\* Damage is done to bytes only.
LEMMA ControlOfDamage ==
  ASSUME Control, NEW e \in Entries, Damage(e)
  PROVE  Control'
<1>1. UNCHANGED <<plan, origin, synced, dir, older, lock, pc, op, file, handles, marks, scan>>
  BY Zenon DEF Damage, reader
<1>2. ProcessType' /\ ReaderType' /\ ScanType' /\ plan' \in Plans
  BY <1>1, Zenon DEF Control, Typed, ProcessType, ReaderType, ScanType
<1>3. Placed' /\ Locked'
  BY <1>1 DEF Control, Placed, PlacedAt, Locked, LockedAt, Path
<1>4. content' \in [Inodes -> Contents]
  BY Zenon DEF Control, Typed, DiskType, Damage, Contents
<1>5. DiskType' /\ DirType'
  BY <1>1, <1>4, Zenon DEF Control, Typed, DiskType, DirType, Damage, Forget
<1> QED BY <1>2, <1>3, <1>5, Zenon DEF Control, Typed

\* Every step keeps the types, and each process where its operation and lock put it.
LEMMA ControlStep == Control /\ [Next]_vars => Control'
<1>1. ASSUME Control, UNCHANGED vars
      PROVE  Control'
  <2>1. Typed'
    BY <1>1, Zenon DEF Control, Typed, vars, DiskType, DirType, ProcessType, ReaderType, ScanType
  <2>2. Placed' /\ Locked'
    BY <1>1 DEF Control, vars, Placed, PlacedAt, Locked, LockedAt, Path
  <2> QED BY <2>1, <2>2, Zenon DEF Control
<1>2. ASSUME Control, Next
      PROVE  Control'
  BY <1>2, NextIsASteps, ControlOfProcess, ControlOfPowerLoss, ControlOfDamage, Zenon DEF Control
<1> QED BY <1>1, <1>2

-----------------------------------------------------------------------------
(***************************************************************************)
(* Most steps of a process change no file, give no path a new name, and    *)
(* leave the process with no file of its own.  They preserve the           *)
(* invariants for one reason.                                              *)
(***************************************************************************)
Retreat(p) ==
  /\ UNCHANGED <<content, origin, synced>>
  /\ \A f \in Paths : dir'[f] \in {dir[f], Nobody} /\ older'[f] \subseteq Names(f)
  /\ \A e \in durable' :
       \/ e \in durable /\ (dir[e] # Nobody => dir'[e] = dir[e] /\ older'[e] \in {older[e], {}})
       \/ /\ pc[p] = "sync_directory" /\ e = Path(p) /\ e \in Entries
          /\ dir[e] = file[p] /\ dir'[e] = dir[e] /\ older'[e] = {}
  /\ pc'[p] \notin Writing \cup {"sync_directory"}
  /\ file'[p] \in {Nobody, file[p]} \/ \E f \in Paths : file'[p] = dir[f]
  /\ pc'[p] = "map" => file'[p] \in Inodes /\ content[file'[p]] = "good"
  /\ \A q \in Processes : \A h \in handles'[q] :
       h \in handles[q] \/ (q = p /\ pc[p] = "map" /\ h[2] = file[p])
  /\ pc'[p] = "quarantine_existing" => op'[p] = op[p] /\ ~Whole(Path(p))

\* A step that only removes names leaves no file with two names and nothing less durable.
LEMMA RetreatKeepsNames ==
  ASSUME Control, Files, NEW p \in Processes, Retreat(p)
  PROVE  /\ \A f \in Paths : Names(f)' \subseteq Names(f) \cup {Nobody}
         /\ Named' /\ Apart' /\ Durable'
<1>1. \A f \in Paths : Names(f)' \subseteq Names(f) \cup {Nobody}
  BY Zenon DEF Retreat, Names
<1>2. UNCHANGED <<content, origin, synced>>
  BY Zenon DEF Retreat
<1>3. Named'
  <2> SUFFICES ASSUME NEW f \in Paths, NEW i \in Names(f)', i # Nobody
               PROVE  /\ content'[i] # "free"
                      /\ (origin[i] = "in_place" \/ Complete(i))'
                      /\ f \in Entries => origin'[i] # "in_place"
    BY DEF Named
  <2>1. i \in Names(f)
    BY <1>1
  <2> QED BY <1>2, <2>1, Zenon DEF Files, Named, Complete
<1>4. Apart'
  BY <1>1, Zenon DEF Files, Apart
<1>5. Durable'
  <2> SUFFICES ASSUME NEW e \in durable'
               PROVE  (Whole(e) /\ dir[e] \in synced /\ older[e] = {})'
    BY DEF Durable
  <2>1. CASE e \in durable /\ (dir[e] # Nobody => dir'[e] = dir[e] /\ older'[e] \in {older[e], {}})
    BY <1>2, <2>1, Zenon DEF Files, Durable, Whole
  <2>2. CASE /\ pc[p] = "sync_directory" /\ e = Path(p) /\ e \in Entries
             /\ dir[e] = file[p] /\ dir'[e] = dir[e] /\ older'[e] = {}
    <3>1. Path(p) \in Paths /\ file[p] \in Inodes
      BY <2>2, Zenon DEF Control, Placed, PlacedAt
    <3>2. file[p] # Nobody
      BY <3>1, WireCacheAssumption DEF Inodes
    <3>3. content[file[p]] = "good" /\ origin[file[p]] = "full" /\ file[p] \in synced
      BY <2>2, Zenon DEF Files, Landed
    <3> QED BY <1>2, <2>2, <3>2, <3>3, Zenon DEF Whole
  <2> QED BY <2>1, <2>2 DEF Retreat
<1> QED BY <1>1, <1>3, <1>4, <1>5, Zenon

\* A step that changes no file and gives no name keeps every file whole for those who use it.
LEMMA RetreatKeepsUse ==
  ASSUME Control, Files, NEW p \in Processes, Frame(p), Retreat(p),
         \A f \in Paths : Names(f)' \subseteq Names(f) \cup {Nobody}
  PROVE  InUse' /\ Private' /\ Marked' /\ Mapped' /\ Landed'
<1>1. UNCHANGED <<content, origin, synced>>
  BY Zenon DEF Retreat
<1>2. \A q \in Processes : q # p => pc'[q] = pc[q] /\ op'[q] = op[q] /\ file'[q] = file[q]
  BY Zenon DEF Frame
<1>3. pc'[p] \notin Writing \cup {"sync_directory"}
  BY ZenonT(30) DEF Retreat
<1>4. \A q \in Processes : \A h \in handles'[q] : h \in handles[q] \/ (q = p /\ pc[p] = "map" /\ h[2] = file[p])
  BY Zenon DEF Retreat
<1>5. pc[p] = "map" => file[p] \in Inodes /\ file[p] # Nobody
  BY WireCacheAssumption, Zenon DEF Control, Placed, PlacedAt, Inodes
<1>6. file'[p] \in {Nobody, file[p]} \/ \E f \in Paths : file'[p] \in Names(f)
  BY Zenon DEF Retreat, Names
<1>7. InUse'
  <2>1. file'[p] # Nobody => content[file'[p]] # "free"
    BY <1>6 DEF Files, InUse, Named
  <2>2. \A q \in Processes : file'[q] # Nobody => content'[file'[q]] # "free"
    BY <1>1, <1>2, <2>1, Zenon DEF Files, InUse
  <2>3. \A q \in Processes : \A h \in handles'[q] : content'[h[2]] # "free"
    BY <1>1, <1>4, <1>5, Zenon DEF Files, InUse
  <2> QED BY <2>2, <2>3, Zenon DEF InUse
<1>8. Private'
  <2> SUFFICES ASSUME NEW q \in Processes, Temporary(q)'
               PROVE  /\ origin'[file'[q]] = op'[q].policy
                      /\ pc'[q] # "write" => content'[file'[q]] = "good"
                      /\ pc'[q] = "replace" /\ op'[q].policy # "none" => file'[q] \in synced'
                      /\ \A f \in Paths : file'[q] \notin Names(f)'
                      /\ \A r \in Processes :
                           /\ r # q => file'[r] # file'[q]
                           /\ \A h \in handles'[r] : h[2] # file'[q]
    BY Zenon DEF Private
  <2>1. q # p
    BY <1>3 DEF Temporary
  <2>2. Temporary(q) /\ file'[q] = file[q] /\ pc'[q] = pc[q] /\ op'[q] = op[q]
    BY <1>2, <2>1, Zenon DEF Temporary
  <2>3. /\ origin[file[q]] = op[q].policy
        /\ pc[q] # "write" => content[file[q]] = "good"
        /\ pc[q] = "replace" /\ op[q].policy # "none" => file[q] \in synced
        /\ \A f \in Paths : file[q] \notin Names(f)
        /\ \A r \in Processes :
             /\ r # q => file[r] # file[q]
             /\ \A h \in handles[r] : h[2] # file[q]
    BY <2>2, Zenon DEF Files, Private
  <2>4. file[q] \in Inodes /\ file[q] # Nobody
    BY <2>2, WireCacheAssumption, Zenon DEF Control, Placed, PlacedAt, Temporary, Inodes
  <2>5. \A f \in Paths : file[q] \notin Names(f)'
    BY <2>3, <2>4, Zenon
  <2>6. \A r \in Processes : r # q => file'[r] # file[q]
    BY <1>2, <1>6, <2>1, <2>3, <2>4, Zenon
  <2>7. \A r \in Processes : \A h \in handles'[r] : h[2] # file[q]
    BY <1>4, <2>1, <2>3, Zenon
  <2> QED BY <1>1, <2>2, <2>3, <2>5, <2>6, <2>7, Zenon
<1>9. Marked'
  BY <1>1, <1>2, <1>3, Zenon DEF Files, Marked
<1>10. Mapped'
  <2>1. pc'[p] = "map" => Valid(file[p])'
    BY <1>1, Zenon DEF Retreat, Valid
  <2>2. \A q \in Processes : pc'[q] = "map" => Valid(file[q])'
    BY <1>1, <1>2, <2>1, ZenonT(40), SMTT(30) DEF Files, Mapped, Valid
  <2>3. \A q \in Processes : \A h \in handles'[q] : Valid(h[2])
    BY <1>4, Zenon DEF Files, Mapped
  <2>4. \A i : Valid(i) => Valid(i)'
    BY <1>1, Zenon DEF Valid
  <2> QED BY <2>2, <2>3, <2>4 DEF Mapped
<1>11. Landed'
  <2> SUFFICES ASSUME NEW q \in Processes, pc'[q] = "sync_directory", Path(q)' \in Entries
               PROVE  /\ content'[file'[q]] = "good"
                      /\ origin'[file'[q]] = "full"
                      /\ file'[q] \in synced'
                      /\ \A f \in Paths : f # Path(q)' => file'[q] \notin Names(f)'
    BY DEF Landed
  <2>1. q # p
    BY <1>3, Zenon
  <2>2. pc[q] = "sync_directory" /\ Path(q)' = Path(q) /\ file'[q] = file[q]
    BY <1>2, <2>1, Zenon DEF Path
  <2>3. file[q] # Nobody
    BY <2>2, WireCacheAssumption, Zenon DEF Control, Placed, PlacedAt, Inodes
  <2> QED BY <1>1, <2>2, <2>3, Zenon DEF Files, Landed
<1> QED BY <1>7, <1>8, <1>9, <1>10, <1>11, Zenon

\* A retreat makes no file valid.
LEMMA RetreatKeepsRejected ==
  ASSUME Control', Rejected, NEW p \in Processes, Frame(p), Retreat(p)
  PROVE  Rejected'
<1>1. \A f \in Paths : Whole(f)' => Whole(f)
  BY Zenon DEF Retreat, Whole
<1>2. \A q \in Processes : pc'[q] = "quarantine_existing" => Path(q)' = Path(q) /\ ~Whole(Path(q))
  BY Zenon DEF Retreat, Frame, Rejected, Path
<1>3. \A q \in Processes : pc'[q] = "quarantine_existing" => Path(q)' \in Paths
  BY Zenon DEF Control, Placed, PlacedAt
<1> QED BY <1>1, <1>2, <1>3, Zenon DEF Rejected

\* The steps that are retreats.
LEMMA Retreats ==
  ASSUME Control, NEW p \in Processes, Steps(p), ~Create(p), ~Write(p), ~Sync(p), ~Replace(p)
  PROVE  Retreat(p)
<1>0. ProcessType /\ DirType /\ ReaderType /\ PlacedAt(p)
  BY DEF Control, Typed, Placed
<1>1. UNCHANGED <<content, origin, synced>>
  BY DiskTypeOf, Zenon
<1> DEFINE Same == UNCHANGED <<dir, older, durable>>
           Kept == \A q \in Processes : handles'[q] = handles[q]
           Rest == pc'[p] \notin Writing \cup {"sync_directory", "map", "quarantine_existing"}
           None == file'[p] \in {Nobody, file[p]}
<1>2. Same => /\ \A f \in Paths : dir'[f] \in {dir[f], Nobody} /\ older'[f] \subseteq Names(f)
              /\ \A e \in durable' : e \in durable /\ (dir[e] # Nobody => dir'[e] = dir[e] /\ older'[e] = older[e])
  BY DEF Names
<1>3. Same /\ Kept /\ Rest /\ None => Retreat(p)
  BY <1>1, <1>2, Zenon DEF Retreat
<1>4. Finish(p) => Rest /\ None
  BY <1>0, FinishEffect, Zenon DEF Writing
<1>5. \A place \in Places : Goto(p, place) => pc'[p] = place
  BY <1>0, GotoEffect, SMTT(20)
<1>6. CASE Starting(p)
  <2>1. Same /\ Kept /\ file' = file
    BY <1>6, Zenon DEF Starting, StartPublish, StartWrite, StartOpen, reader
  <2>2. pc'[p] \in {"lock", "create", "open"}
    BY <1>5, <1>6, Zenon DEF Starting, StartPublish, StartWrite, StartOpen, Places
  <2> QED BY <1>3, <2>1, <2>2, Zenon DEF Writing
<1>7. CASE Acquire(p) \/ Exists(p)
  <2>1. Same /\ Kept /\ file' = file
    BY <1>7, Zenon DEF Acquire, Enter, Exists, reader
  <2>2. pc'[p] \in {"exists", "create", "existing"}
    BY <1>5, <1>7, Zenon DEF Acquire, Enter, Exists, Places
  <2> QED BY <1>3, <2>1, <2>2, Zenon DEF Writing
<1>8. CASE LockTimeout(p) \/ ReturnExisting(p) \/ Fail(p)
  <2>1. Same /\ Kept /\ Finish(p)
    BY <1>8, Zenon DEF LockTimeout, ReturnExisting, Fail, reader
  <2> QED BY <1>3, <1>4, <2>1, Zenon
<1>9. CASE RejectExisting(p)
  <2>1. Same /\ Kept /\ file' = file /\ op' = op /\ ~Whole(Path(p))
    BY <1>9 DEF RejectExisting, reader
  <2>2. pc'[p] = "quarantine_existing"
    BY <1>5, <1>9 DEF RejectExisting, Places
  <2> QED BY <1>1, <1>2, <2>1, <2>2, Zenon DEF Writing, Retreat
<1>10. CASE QuarantineExisting(p) \/ Quarantine(p)
  <2>1. MoveAside(Path(p)) /\ Path(p) \in Paths /\ Kept
    BY <1>0, <1>10, Zenon DEF QuarantineExisting, Quarantine, At, PlacedAt, reader
  <2>2. Rest /\ None
    BY <1>4, <1>5, <1>10, Zenon DEF QuarantineExisting, Quarantine, Places, Writing
  <2>3. /\ \A f \in Paths : dir'[f] \in {dir[f], Nobody} /\ older'[f] \subseteq Names(f)
        /\ \A e \in durable' : e \in durable /\ (dir[e] # Nobody => dir'[e] = dir[e] /\ older'[e] = older[e])
    BY <1>0, <2>1, MoveAsideEffect
  <2> QED BY <1>1, <2>1, <2>2, <2>3, Zenon DEF Retreat
<1>11. CASE SyncDirectory(p)
  <2>1. /\ pc[p] = "sync_directory" /\ Kept /\ Finish(p) /\ dir' = dir
        /\ older' = [older EXCEPT ![Path(p)] = {}]
        /\ durable' = durable \cup {e \in Entries : e = Path(p) /\ dir[e] = file[p]}
    BY <1>11, Zenon DEF SyncDirectory, ReturnFull, At, reader
  <2>2. Path(p) \in Paths
    BY <1>0, <2>1, Zenon DEF PlacedAt
  <2>3. \A f \in Paths : older'[f] \subseteq Names(f) /\ (f # Path(p) => older'[f] = older[f]) /\ (f = Path(p) => older'[f] = {})
    BY <1>0, <2>1, <2>2 DEF DirType, Names
  <2>4. durable' \subseteq Paths
    BY <1>0, <2>1, Zenon DEF DirType, Paths
  <2>5. \A e \in durable' :
          \/ e \in durable /\ (dir[e] # Nobody => dir'[e] = dir[e] /\ older'[e] \in {older[e], {}})
          \/ /\ pc[p] = "sync_directory" /\ e = Path(p) /\ e \in Entries
             /\ dir[e] = file[p] /\ dir'[e] = dir[e] /\ older'[e] = {}
    BY <2>1, <2>3, <2>4
  <2>6. Rest /\ None
    BY <1>4, <2>1, Zenon
  <2> QED BY <1>1, <2>1, <2>3, <2>5, <2>6, Zenon DEF Retreat
<1>12. CASE OpenFile(p)
  <2>1. /\ Same /\ Kept /\ pc[p] = "open" /\ Whole(Path(p))
        /\ file' = [file EXCEPT ![p] = dir[Path(p)]]
    BY <1>12, Zenon DEF OpenFile, OpenNamed, At, reader
  <2>2. pc'[p] = "map" /\ Path(p) \in Paths /\ file'[p] = dir[Path(p)]
    BY <1>0, <1>5, <1>12, <2>1, Zenon DEF OpenFile, OpenNamed, Places, PlacedAt, ProcessType
  <2>3. file'[p] \in Inodes /\ content[file'[p]] = "good"
    BY <1>0, <2>1, <2>2, Zenon DEF Whole, DirType
  <2> QED BY <1>1, <1>2, <2>1, <2>2, <2>3, Zenon DEF Retreat, Writing
<1>13. CASE OpenFails(p)
  <2>1. Same /\ Kept /\ ((Goto(p, "quarantine") /\ file' = file) \/ Finish(p))
    BY <1>13, SMTT(20) DEF OpenFails, reader
  <2>2. Rest /\ None
    BY <1>4, <1>5, <2>1, Zenon DEF Places, Writing
  <2> QED BY <1>3, <2>1, <2>2, Zenon
<1>14. CASE Map(p)
  <2>1. Same /\ Finish(p) /\ pc[p] = "map"
    BY <1>14, Zenon DEF Map, At
  <2>2. PICK slot : handles' = [handles EXCEPT ![p] = @ \cup {<<Path(p), file[p], slot>>}]
    BY <1>14, Zenon DEF Map
  <2>3. \A q \in Processes : \A h \in handles'[q] : h \in handles[q] \/ (q = p /\ h[2] = file[p])
    BY <1>0, <2>2 DEF ReaderType
  <2> QED BY <1>1, <1>2, <1>4, <2>1, <2>3, Zenon DEF Retreat
<1>15. CASE Closing(p)
  <2>1. PICK h \in handles[p] : Close(p, h)
    BY <1>15, Zenon DEF Closing
  <2>2. Same /\ pc[p] = "idle" /\ pc' = pc /\ file' = file /\ handles' = [handles EXCEPT ![p] = @ \ {h}]
    BY <2>1 DEF Close, At
  <2>3. \A q \in Processes : handles'[q] \subseteq handles[q]
    BY <1>0, <2>2 DEF ReaderType
  <2> QED BY <1>1, <1>2, <2>2, <2>3, Zenon DEF Retreat, Writing
<1>16. CASE Crash(p)
  <2>1. Same /\ Finish(p) /\ handles' = [handles EXCEPT ![p] = {}]
    BY <1>16 DEF Crash
  <2>2. \A q \in Processes : handles'[q] \subseteq handles[q]
    BY <1>0, <2>1 DEF ReaderType
  <2> QED BY <1>1, <1>2, <1>4, <2>1, <2>2, Zenon DEF Retreat
<1>17. CASE \E maximum \in Nat : CollectScan(p, maximum)
  <2>1. Same /\ Kept /\ file' = file /\ Goto(p, "collect")
    BY <1>17, Zenon DEF CollectScan, reader
  <2>2. Rest
    BY <1>5, <2>1, Zenon DEF Places, Writing
  <2> QED BY <1>3, <2>1, <2>2, Zenon
<1>18. CASE CollectDone(p)
  <2>1. Same /\ Kept /\ file' = file /\ Goto(p, "idle")
    BY <1>18, Zenon DEF CollectDone, reader
  <2>2. Rest
    BY <1>5, <2>1 DEF Places, Writing
  <2> QED BY <1>3, <2>1, <2>2
<1>19. CASE CollectUnlink(p)
  <2>1. pc[p] = "collect" /\ Kept /\ pc' = pc /\ file' = file
    BY <1>19, Zenon DEF CollectUnlink, At, reader
  <2>2. PICK c \in scan[p].files : MoveAside(c[2])
    BY <1>19 DEF CollectUnlink
  <2>3. c[2] \in Paths
    BY DEF Control, Typed, ScanType, Paths
  <2>4. /\ \A f \in Paths : dir'[f] \in {dir[f], Nobody} /\ older'[f] \subseteq Names(f)
        /\ \A e \in durable' : e \in durable /\ (dir[e] # Nobody => dir'[e] = dir[e] /\ older'[e] = older[e])
    BY <1>0, <2>2, <2>3, MoveAsideEffect, Zenon
  <2> QED BY <1>1, <2>1, <2>4, Zenon DEF Retreat, Writing
<1> QED
  BY <1>6, <1>7, <1>8, <1>9, <1>10, <1>11, <1>12, <1>13, <1>14, <1>15, <1>16, <1>17, <1>18, <1>19, SMTT(20)
     DEF Steps, Publishing, Reading, Collecting

=============================================================================
