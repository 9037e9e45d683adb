---------------------------- MODULE WireCacheProofs ----------------------------
(***************************************************************************)
(* Proofs about the wire cache and write_snapshot for any number of        *)
(* processes, entries, exported paths and files: files stay whole, a       *)
(* publisher throws away nothing valid, and a collector spares what its    *)
(* process has mapped.                                                     *)
(***************************************************************************)
EXTENDS WireCacheSteps

-----------------------------------------------------------------------------
(***************************************************************************)
(* The steps of _publish_bytes that touch files or names.                  *)
(***************************************************************************)
\* The file a publisher gets is a fresh one, or the export it names already.
LEMMA CreateEffect ==
  ASSUME Control, Files, NEW p \in Processes, Create(p)
  PROVE  \E i \in Inodes :
           /\ content' = [content EXCEPT ![i] = "partial"]
           /\ origin' = [origin EXCEPT ![i] = IF ~op[p].atomic THEN "in_place" ELSE op[p].policy]
           /\ synced' = synced \ {i}
           /\ file'[p] = i /\ pc'[p] = "write" /\ op' = op /\ handles' = handles /\ durable' = durable
           /\ content[i] = "free" \/ (~op[p].atomic /\ i \in Names(Path(p)))
           /\ \A f \in Paths : i \in Names(f) => f = Path(p) /\ ~op[p].atomic
           /\ \A f \in Paths : \A j \in Names(f)' :
                j \in Names(f) \cup {Nobody} \/ (j = i /\ f = Path(p) /\ ~op[p].atomic)
           /\ \A e \in Entries : dir'[e] = dir[e] /\ older'[e] = older[e]
<1>0. ProcessType /\ DirType /\ DiskType /\ PlacedAt(p)
  BY DEF Control, Typed, Placed
<1>1. pc[p] = "create" /\ op' = op /\ handles' = handles /\ durable' = durable /\ Goto(p, "write")
  BY Zenon DEF Create, CreateFile, At, reader
<1>2. Path(p) \in Paths /\ (~op[p].atomic => Path(p) \notin Entries)
  BY <1>0, <1>1, Zenon DEF PlacedAt
<1> DEFINE inPlace == ~op[p].atomic
           truncate == inPlace /\ dir[Path(p)] # Nobody
<1>3. PICK i \in Inodes :
        /\ IF truncate THEN i = dir[Path(p)] ELSE Fresh(i)
        /\ content' = [content EXCEPT ![i] = "partial"]
        /\ origin' = [origin EXCEPT ![i] = IF inPlace THEN "in_place" ELSE op[p].policy]
        /\ synced' = synced \ {i}
        /\ file' = [file EXCEPT ![p] = i]
        /\ IF inPlace /\ ~truncate THEN Rename(Path(p), i) ELSE UNCHANGED <<dir, older>>
  BY Zenon DEF Create, CreateFile
<1>4. i # Nobody
  BY WireCacheAssumption DEF Inodes
<1>5. content[i] = "free" \/ (inPlace /\ i \in Names(Path(p)))
  BY <1>3, Zenon DEF Fresh, Names
<1>6. \A f \in Paths : i \in Names(f) => content[i] # "free"
  BY <1>4, Zenon DEF Files, Named
<1>7. \A f \in Paths : i \in Names(f) => f = Path(p) /\ inPlace
  BY <1>2, <1>4, <1>5, <1>6 DEF Files, Apart
<1>8. /\ \A f \in Paths : \A j \in Names(f)' :
           j \in Names(f) \cup {Nobody} \/ (j = i /\ f = Path(p) /\ inPlace)
      /\ \A e \in Entries : dir'[e] = dir[e] /\ older'[e] = older[e]
  <2>1. CASE inPlace /\ ~truncate
    <3>1. /\ dir'[Path(p)] = i /\ older'[Path(p)] = older[Path(p)] \cup {dir[Path(p)]}
          /\ \A g \in Paths : g # Path(p) => dir'[g] = dir[g] /\ older'[g] = older[g]
      BY <1>0, <1>2, <1>3, <2>1, RenameEffect
    <3>2. \A e \in Entries : e \in Paths /\ e # Path(p)
      BY <1>2, <2>1 DEF Paths
    <3> QED BY <2>1, <3>1, <3>2, Zenon DEF Names
  <2>2. CASE ~(inPlace /\ ~truncate)
    BY <1>3, <2>2, Zenon DEF Names
  <2> QED BY <2>1, <2>2, Zenon
<1>9. file'[p] = i /\ pc'[p] = "write"
  BY <1>0, <1>1, <1>3, GotoEffect DEF ProcessType, Places
<1> QED BY <1>1, <1>3, <1>5, <1>7, <1>8, <1>9, Zenon

\* Creating a temporary file takes one nobody uses, or truncates the one written in place.
LEMMA CreateKeepsFiles ==
  ASSUME Control, Files, Rejected, NEW p \in Processes, Frame(p), Create(p)
  PROVE  Files' /\ Rejected'
<1>1. PICK i \in Inodes :
        /\ content' = [content EXCEPT ![i] = "partial"]
        /\ origin' = [origin EXCEPT ![i] = IF ~op[p].atomic THEN "in_place" ELSE op[p].policy]
        /\ synced' = synced \ {i}
        /\ file'[p] = i /\ pc'[p] = "write" /\ op' = op /\ handles' = handles /\ durable' = durable
        /\ content[i] = "free" \/ (~op[p].atomic /\ i \in Names(Path(p)))
        /\ \A f \in Paths : i \in Names(f) => f = Path(p) /\ ~op[p].atomic
        /\ \A f \in Paths : \A j \in Names(f)' :
             j \in Names(f) \cup {Nobody} \/ (j = i /\ f = Path(p) /\ ~op[p].atomic)
        /\ \A e \in Entries : dir'[e] = dir[e] /\ older'[e] = older[e]
  BY CreateEffect, Zenon
<1>2. pc[p] = "create" /\ Path(p) \in Paths /\ (~op[p].atomic => Path(p) \notin Entries)
  BY Zenon DEF Create, CreateFile, At, Control, Placed, PlacedAt
<1>3. /\ content'[i] = "partial" /\ i \notin synced'
      /\ origin'[i] = IF ~op[p].atomic THEN "in_place" ELSE op[p].policy
      /\ \A j : j # i => content'[j] = content[j] /\ origin'[j] = origin[j] /\ (j \in synced' <=> j \in synced)
  BY <1>1 DEF Control, Typed, DiskType
<1>4. i # Nobody
  BY WireCacheAssumption DEF Inodes
<1>5. \A q \in Processes : q # p => pc'[q] = pc[q] /\ file'[q] = file[q]
  BY DEF Frame
<1>6. content[i] # "free" => origin'[i] = "in_place" /\ ~op[p].atomic /\ i \in Names(Path(p))
  BY <1>1, <1>3, Zenon
<1>7. InUse'
  BY <1>1, <1>3, <1>5 DEF Files, InUse
<1>8. Named'
  <2> SUFFICES ASSUME NEW f \in Paths, NEW j \in Names(f)', j # Nobody
               PROVE  /\ content'[j] # "free"
                      /\ origin'[j] = "in_place" \/ Complete(j)'
                      /\ f \in Entries => origin'[j] # "in_place"
    BY DEF Named
  <2>1. CASE j = i
    BY <1>1, <1>2, <1>3, <1>4, <2>1, Zenon
  <2>2. CASE j # i
    BY <1>1, <1>3, <2>2 DEF Files, Named, Complete
  <2> QED BY <2>1, <2>2, Zenon
<1>9. Apart'
  <2> SUFFICES ASSUME NEW f \in Paths, NEW g \in Paths, f # g, NEW j \in Names(f)' \cap Names(g)', j # Nobody
               PROVE  FALSE
    BY DEF Apart
  <2>1. CASE j = i
    BY <1>1, <1>4, <2>1, Zenon
  <2>2. CASE j # i
    BY <1>1, <2>2 DEF Files, Apart
  <2> QED BY <2>1, <2>2
<1>10. Private'
  <2> SUFFICES ASSUME NEW q \in Processes, Temporary(q)'
               PROVE  /\ origin'[file'[q]] = op'[q].policy
                      /\ pc'[q] # "write" => content'[file'[q]] = "good"
                      /\ pc'[q] = "replace" /\ op'[q].policy # "none" => file'[q] \in synced'
                      /\ \A f \in Paths : file'[q] \notin Names(f)'
                      /\ \A r \in Processes :
                           /\ r # q => file'[r] # file'[q]
                           /\ \A h \in handles'[r] : h[2] # file'[q]
    BY Zenon DEF Private
  <2>1. CASE q = p
    <3>1. op[p].atomic /\ content[i] = "free"
      BY <1>1, <2>1, Zenon DEF Temporary
    <3>2. \A f \in Paths : i \notin Names(f)'
      BY <1>1, <1>4, <3>1, Zenon
    <3>3. \A r \in Processes : (r # p => file[r] # i) /\ \A h \in handles[r] : h[2] # i
      BY <1>4, <3>1, Zenon DEF Files, InUse
    <3> QED BY <1>1, <1>3, <1>5, <2>1, <3>1, <3>2, <3>3, SMTT(20)
  <2>2. CASE q # p
    <3>1. Temporary(q) /\ file'[q] = file[q] /\ pc'[q] = pc[q] /\ op'[q] = op[q]
      BY <1>1, <1>5, <2>2, Zenon DEF Temporary
    <3>2. /\ origin[file[q]] = op[q].policy
          /\ pc[q] # "write" => content[file[q]] = "good"
          /\ pc[q] = "replace" /\ op[q].policy # "none" => file[q] \in synced
          /\ \A f \in Paths : file[q] \notin Names(f)
          /\ \A r \in Processes :
               /\ r # q => file[r] # file[q]
               /\ \A h \in handles[r] : h[2] # file[q]
      BY <3>1, Zenon DEF Files, Private
    <3>3. file[q] # Nobody /\ content[file[q]] # "free"
      BY <3>1, WireCacheAssumption, Zenon DEF Control, Placed, PlacedAt, Temporary, Inodes, Files, InUse
    <3>4. file[q] # i
      BY <1>2, <1>6, <3>2, <3>3, Zenon
    <3> QED BY <1>1, <1>3, <1>5, <3>1, <3>2, <3>3, <3>4, SMTT(20), ZenonT(20), SMTT(40)
  <2> QED BY <2>1, <2>2, Zenon
<1>11. Marked'
  <2>1. \A q \in Processes : q # p /\ ~op[q].atomic /\ pc[q] \in Writing => origin'[file[q]] = "in_place"
    <3> SUFFICES ASSUME NEW q \in Processes, q # p, ~op[q].atomic, pc[q] \in Writing
                 PROVE  origin'[file[q]] = "in_place"
      OBVIOUS
    <3>1. origin[file[q]] = "in_place" /\ content[file[q]] # "free"
      BY WireCacheAssumption, Zenon DEF Control, Placed, PlacedAt, Inodes, Files, InUse, Marked
    <3> QED BY <1>3, <1>6, <3>1
  <2> QED BY <1>1, <1>3, <1>5, <2>1, SMTT(30), ZenonT(40) DEF Marked
<1>12. Mapped'
  <2>1. \A j : content[j] # "free" /\ Valid(j) => Valid(j)'
    BY <1>3, <1>6, Zenon DEF Valid
  <2>2. \A q \in Processes : pc[q] = "map" => content[file[q]] # "free"
    BY WireCacheAssumption, Zenon DEF Control, Placed, PlacedAt, Inodes, Files, InUse
  <2> QED BY <1>1, <1>5, <2>1, <2>2, Zenon DEF Files, InUse, Mapped
<1>13. Landed'
  <2> SUFFICES ASSUME NEW q \in Processes, pc'[q] = "sync_directory", Path(q)' \in Entries
               PROVE  /\ content'[file'[q]] = "good"
                      /\ origin'[file'[q]] = "full"
                      /\ file'[q] \in synced'
                      /\ \A f \in Paths : f # Path(q)' => file'[q] \notin Names(f)'
    BY DEF Landed
  <2>1. q # p /\ pc[q] = "sync_directory" /\ Path(q)' = Path(q) /\ file'[q] = file[q]
    BY <1>1, <1>5 DEF Path
  <2>2. /\ content[file[q]] = "good"
        /\ origin[file[q]] = "full"
        /\ file[q] \in synced
        /\ \A f \in Paths : f # Path(q) => file[q] \notin Names(f)
    BY <2>1 DEF Files, Landed
  <2>3. file[q] # i /\ file[q] # Nobody
    BY <1>2, <1>6, <2>1, <2>2, WireCacheAssumption, Zenon DEF Control, Placed, PlacedAt, Inodes
  <2> QED BY <1>1, <1>3, <2>1, <2>2, <2>3
<1>14. Durable'
  <2> SUFFICES ASSUME NEW e \in durable
               PROVE  (Whole(e) /\ dir[e] \in synced /\ older[e] = {})'
    BY <1>1, Zenon DEF Durable
  <2>1. e \in Entries /\ e \in Paths
    BY DEF Control, Typed, DirType, Paths
  <2>2. dir[e] # i
    BY <1>1, <1>2, <2>1, Zenon DEF Names
  <2> QED BY <1>1, <1>3, <2>1, <2>2 DEF Files, Durable, Whole
<1>15. Rejected'
  <2> SUFFICES ASSUME NEW q \in Processes, pc'[q] = "quarantine_existing", Whole(Path(q))'
               PROVE  FALSE
    BY Zenon DEF Rejected
  <2>1. q # p /\ pc[q] = "quarantine_existing" /\ Path(q)' = Path(q)
    BY <1>1, <1>5 DEF Path
  <2>2. Path(q) \in Entries
    BY <2>1, Zenon DEF Control, Placed, PlacedAt, Looking
  <2> QED BY <1>1, <1>3, <2>1, <2>2 DEF Rejected, Whole
<1> QED BY <1>7, <1>8, <1>9, <1>10, <1>11, <1>12, <1>13, <1>14, <1>15, Zenon DEF Files

\* The last byte is written: nobody but in-place readers can see the file yet.
LEMMA WriteKeepsFiles ==
  ASSUME Control, Files, Rejected, NEW p \in Processes, Frame(p), Write(p)
  PROVE  Files' /\ Rejected'
<1> DEFINE i == file[p]
<1>1. /\ pc[p] = "write" /\ content' = [content EXCEPT ![i] = "good"] /\ pc'[p] = "sync"
      /\ UNCHANGED <<origin, synced, dir, older, op, file, handles, durable>>
  <2>1. ProcessType /\ Goto(p, "sync")
    BY DEF Control, Typed, Write
  <2> QED BY <2>1, GotoEffect DEF Write, At, reader, Places
<1>2. i \in Inodes /\ i # Nobody
  BY <1>1, WireCacheAssumption DEF Control, Placed, PlacedAt, Writing, Inodes
<1>3. content'[i] = "good" /\ \A j : j # i => content'[j] = content[j]
  BY <1>1, <1>2 DEF Control, Typed, DiskType
<1>4. \A q \in Processes : q # p => pc'[q] = pc[q]
  BY DEF Frame
<1>5. \A f \in Paths : Names(f)' = Names(f)
  BY <1>1 DEF Names
<1>6. \A f \in Paths : i \in Names(f) => origin[i] = "in_place" /\ f \notin Entries
  <2>1. CASE op[p].atomic
    BY <1>1, <2>1, Zenon DEF Files, Private, Temporary, Writing
  <2>2. CASE ~op[p].atomic
    BY <1>1, <1>2, <2>2, Zenon DEF Files, Marked, Named, Writing
  <2> QED BY <2>1, <2>2
<1>7. InUse'
  BY <1>1, <1>3 DEF Files, InUse
<1>8. Named'
  <2>1. \A j : j # i /\ Complete(j) => Complete(j)'
    BY <1>1, <1>3, Zenon DEF Complete
  <2> QED BY <1>1, <1>3, <1>5, <1>6, <2>1, Zenon DEF Files, Named
<1>9. Apart'
  BY <1>5, Zenon DEF Files, Apart
<1>10. Private'
  <2>1. \A q \in Processes : Temporary(q)' => Temporary(q)
    BY <1>1, <1>4, Zenon DEF Temporary, Writing
  <2>2. \A q \in Processes : q # p /\ Temporary(q) => file[q] # i
    BY DEF Files, Private
  <2> QED BY <1>1, <1>3, <1>4, <1>5, <2>1, <2>2 DEF Files, Private
<1>11. Marked'
  BY <1>1, <1>4, Zenon DEF Files, Marked, Writing
<1>12. Mapped'
  <2>1. \A j : Valid(j) => Valid(j)'
    BY <1>1, <1>3, Zenon DEF Valid
  <2> QED BY <1>1, <1>4, <2>1, Zenon DEF Files, Mapped
<1>13. Landed'
  <2>1. \A q \in Processes : pc'[q] = "sync_directory" => pc[q] = "sync_directory" /\ Path(q)' = Path(q)
    BY <1>1, <1>4, Zenon DEF Path
  <2> QED BY <1>1, <1>3, <1>5, <2>1, SMTT(30), ZenonT(40) DEF Files, Landed
<1>14. Durable'
  BY <1>1, <1>3, Zenon DEF Files, Durable, Whole
<1>15. Rejected'
  <2> SUFFICES ASSUME NEW q \in Processes, pc'[q] = "quarantine_existing", Whole(Path(q))'
               PROVE  FALSE
    BY DEF Rejected
  <2>1. pc[q] = "quarantine_existing" /\ Path(q)' = Path(q)
    BY <1>1, <1>4, Zenon DEF Path
  <2>2. Path(q) \in Entries /\ Path(q) \in Paths
    BY <2>1 DEF Control, Placed, PlacedAt, Looking, Paths
  <2>3. dir[Path(q)] # i
    BY <1>6, <2>2, Zenon DEF Names
  <2> QED BY <1>1, <1>3, <2>1, <2>3, Zenon DEF Rejected, Whole
<1> QED BY <1>7, <1>8, <1>9, <1>10, <1>11, <1>12, <1>13, <1>14, <1>15, Zenon DEF Files

\* A temporary file stays private while no name, file, handle or origin
\* changes and what its writer knows of it stays true.
LEMMA StillPrivate ==
  ASSUME Private, UNCHANGED <<origin, op, file, handles>>, \A f \in Paths : Names(f)' = Names(f),
         \A q \in Processes : Temporary(q)' =>
           /\ Temporary(q)
           /\ pc'[q] # "write" => content'[file[q]] = "good"
           /\ pc'[q] = "replace" /\ op[q].policy # "none" => file[q] \in synced'
  PROVE  Private'
<1>1. /\ origin' = origin /\ op' = op /\ file' = file /\ handles' = handles
  OBVIOUS
<1>2. ASSUME NEW q \in Processes, Temporary(q)'
      PROVE  /\ origin'[file'[q]] = op'[q].policy
             /\ pc'[q] # "write" => content'[file'[q]] = "good"
             /\ pc'[q] = "replace" /\ op'[q].policy # "none" => file'[q] \in synced'
             /\ \A f \in Paths : file'[q] \notin Names(f)'
             /\ \A r \in Processes :
                  /\ r # q => file'[r] # file'[q]
                  /\ \A h \in handles'[r] : h[2] # file'[q]
  <2>1. /\ origin[file[q]] = op[q].policy
        /\ \A f \in Paths : file[q] \notin Names(f)
        /\ \A r \in Processes :
             /\ r # q => file[r] # file[q]
             /\ \A h \in handles[r] : h[2] # file[q]
    BY <1>2, Zenon DEF Private
  <2> QED BY <1>1, <1>2, <2>1, Zenon
<1> QED BY <1>2, Zenon DEF Private

\* fsync takes nothing away.
LEMMA SyncKeepsFiles ==
  ASSUME Control, Files, Rejected, NEW p \in Processes, Frame(p), Sync(p)
  PROVE  Files' /\ Rejected'
<1>1. /\ pc[p] = "sync" /\ pc'[p] = "replace"
      /\ UNCHANGED <<content, origin, dir, older, op, file, handles, durable>>
      /\ synced' = IF op[p].policy \in {"data", "full"} THEN synced \cup {file[p]} ELSE synced
  <2>1. ProcessType /\ Goto(p, "replace")
    BY DEF Control, Typed, Sync, SyncUnder
  <2> QED BY <2>1, GotoEffect DEF Sync, SyncUnder, At, reader, Places
<1>2. synced \subseteq synced' /\ op[p].policy \in {"none", "data", "full"}
  BY <1>1 DEF Control, Typed, ProcessType, OpType
<1>3. op[p].policy # "none" => file[p] \in synced'
  BY <1>1, <1>2
<1>4. \A q \in Processes : q # p => pc'[q] = pc[q]
  BY DEF Frame
<1>5. \A f \in Paths : Names(f)' = Names(f) /\ Whole(f)' = Whole(f)
  BY <1>1 DEF Names, Whole
<1>6. InUse'
  BY <1>1 DEF Files, InUse
<1>7. Named'
  <2>1. \A j : Complete(j) => Complete(j)'
    BY <1>1, <1>2, Zenon DEF Complete
  <2> QED BY <1>1, <1>5, <2>1, Zenon DEF Files, Named
<1>8. Apart'
  BY <1>5, Zenon DEF Files, Apart
<1>9. Private'
  <2>1. \A q \in Processes : Temporary(q)' => Temporary(q)
    BY <1>1, <1>4, Zenon DEF Temporary, Writing
  <2>2. ASSUME NEW q \in Processes, Temporary(q)
        PROVE  /\ pc'[q] # "write" => content[file[q]] = "good"
               /\ pc'[q] = "replace" /\ op[q].policy # "none" => file[q] \in synced'
    <3>1. /\ pc[q] # "write" => content[file[q]] = "good"
          /\ pc[q] = "replace" /\ op[q].policy # "none" => file[q] \in synced
      BY <2>2, Zenon DEF Files, Private
    <3>2. CASE q = p
      BY <1>1, <1>3, <3>1, <3>2, Zenon
    <3>3. CASE q # p
      BY <1>2, <1>4, <3>1, <3>3, Zenon
    <3> QED BY <3>2, <3>3, Zenon
  <2> QED BY <1>1, <1>5, <2>1, <2>2, StillPrivate, Zenon DEF Files
<1>10. Marked'
  BY <1>1, <1>4, Zenon DEF Files, Marked, Writing
<1>11. Mapped'
  BY <1>1, <1>4 DEF Files, Mapped, Valid
<1>12. Landed'
  <2>1. \A q \in Processes : pc'[q] = "sync_directory" => pc[q] = "sync_directory" /\ Path(q)' = Path(q)
    BY <1>1, <1>4, Zenon DEF Path
  <2> QED BY <1>1, <1>2, <1>5, <2>1, Zenon DEF Files, Landed
<1>13. Durable'
  BY <1>1, <1>2, Zenon DEF Files, Durable, Whole
<1>14. Rejected'
  BY <1>1, <1>4 DEF Rejected, Whole, Path
<1> QED BY <1>6, <1>7, <1>8, <1>9, <1>10, <1>11, <1>12, <1>13, <1>14 DEF Files

\* The rename gives a complete file its name; for an entry, under its lock.
LEMMA ReplaceEffect ==
  ASSUME Control, NEW p \in Processes, Replace(p)
  PROVE  /\ pc[p] = "replace" /\ pc'[p] \in {"idle", "sync_directory"}
         /\ pc'[p] = "sync_directory" => op[p].policy = "full" /\ op'[p] = op[p] /\ file'[p] = file[p]
         /\ file'[p] \in {Nobody, file[p]}
         /\ UNCHANGED <<content, origin, synced, handles>>
         /\ \A f \in Paths : \A j \in Names(f)' :
              j \in Names(f) \/ (j = file[p] /\ f = Path(p) /\ op[p].atomic)
         /\ \A f \in Paths : f # Path(p) \/ ~op[p].atomic => dir'[f] = dir[f] /\ older'[f] = older[f]
         /\ durable' = IF op[p].atomic THEN durable \ {Path(p)} ELSE durable
<1>0. ProcessType /\ DirType
  BY DEF Control, Typed
<1>1. pc[p] = "replace" /\ UNCHANGED <<content, origin, synced, handles>>
  BY Zenon DEF Replace, At, disk, reader
<1>2. Path(p) \in Paths /\ file[p] \in Inodes
  BY <1>1 DEF Control, Placed, PlacedAt, Writing
<1>3. CASE op[p].policy = "full"
  <2>1. Goto(p, "sync_directory") /\ UNCHANGED <<op, file>>
    BY <1>3, Zenon DEF Replace
  <2>2. pc'[p] = "sync_directory"
    BY <1>0, <2>1, GotoEffect, Zenon DEF Places
  <2>3. CASE op[p].atomic
    <3>1. Rename(Path(p), file[p]) /\ durable' = durable \ {Path(p)}
      BY <2>3, Zenon DEF Replace, Forget
    <3> QED BY <1>0, <1>1, <1>2, <1>3, <2>1, <2>2, <2>3, <3>1, RenameEffect, SMTT(20) DEF Names
  <2>4. CASE ~op[p].atomic
    <3>1. UNCHANGED <<dir, older, durable>>
      BY <2>4, Zenon DEF Replace
    <3> QED BY <1>1, <1>3, <2>1, <2>2, <2>4, <3>1, Zenon DEF Names
  <2> QED BY <2>3, <2>4, Zenon
<1>4. CASE op[p].policy # "full"
  <2>1. pc'[p] = "idle" /\ file'[p] = Nobody
    BY <1>0, <1>4, FinishEffect, Zenon DEF Replace
  <2>3. CASE op[p].atomic
    <3>1. Rename(Path(p), file[p]) /\ durable' = durable \ {Path(p)}
      BY <2>3, Zenon DEF Replace, Forget
    <3> QED BY <1>0, <1>1, <1>2, <2>1, <2>3, <3>1, RenameEffect, SMTT(20) DEF Names
  <2>4. CASE ~op[p].atomic
    <3>1. UNCHANGED <<dir, older, durable>>
      BY <2>4 DEF Replace
    <3> QED BY <1>1, <2>1, <2>4, <3>1, Zenon DEF Names
  <2> QED BY <2>3, <2>4, Zenon
<1> QED BY <1>3, <1>4, Zenon

\* os.replace gives its name to a file written whole, and to no other.
LEMMA ReplaceKeepsFiles ==
  ASSUME Control, Files, Rejected, NEW p \in Processes, Frame(p), Replace(p)
  PROVE  Files' /\ Rejected'
<1> DEFINE i == file[p]
<1>1. /\ pc[p] = "replace" /\ pc'[p] \in {"idle", "sync_directory"}
      /\ pc'[p] = "sync_directory" => op[p].policy = "full" /\ op'[p] = op[p] /\ file'[p] = i
      /\ file'[p] \in {Nobody, i}
      /\ UNCHANGED <<content, origin, synced, handles>>
      /\ \A f \in Paths : \A j \in Names(f)' : j \in Names(f) \/ (j = i /\ f = Path(p) /\ op[p].atomic)
      /\ \A f \in Paths : f # Path(p) \/ ~op[p].atomic => dir'[f] = dir[f] /\ older'[f] = older[f]
      /\ durable' = IF op[p].atomic THEN durable \ {Path(p)} ELSE durable
  BY ReplaceEffect, Zenon
<1>2. i \in Inodes /\ i # Nobody /\ op[p].policy \in {"none", "data", "full"}
  BY <1>1, WireCacheAssumption DEF Control, Typed, ProcessType, OpType, Placed, PlacedAt, Writing, Inodes
<1>3. \A q \in Processes : q # p => pc'[q] = pc[q] /\ op'[q] = op[q] /\ file'[q] = file[q]
  BY DEF Frame
<1>4. op[p].atomic =>
        /\ origin[i] = op[p].policy /\ content[i] = "good"
        /\ op[p].policy # "none" => i \in synced
        /\ \A f \in Paths : i \notin Names(f)
        /\ \A q \in Processes : (q # p => file[q] # i) /\ \A h \in handles[q] : h[2] # i
  BY <1>1, Zenon DEF Files, Private, Temporary, Writing
<1>5. InUse'
  <2>1. content[i] # "free"
    BY <1>2 DEF Files, InUse
  <2> QED BY <1>1, <1>3, <2>1, Zenon DEF Files, InUse
<1>6. Named'
  <2> SUFFICES ASSUME NEW f \in Paths, NEW j \in Names(f)', j # Nobody
               PROVE  /\ content'[j] # "free"
                      /\ origin'[j] = "in_place" \/ Complete(j)'
                      /\ f \in Entries => origin'[j] # "in_place"
    BY DEF Named
  <2>1. CASE j \in Names(f)
    BY <1>1, <2>1, Zenon DEF Files, Named, Complete
  <2>2. CASE j = i /\ f = Path(p) /\ op[p].atomic
    BY <1>1, <1>2, <1>4, <2>2, Zenon DEF Complete
  <2> QED BY <1>1, <2>1, <2>2, Zenon
<1>7. Apart'
  BY <1>1, <1>4, SMTT(30), ZenonT(40) DEF Files, Apart
<1>8. Private'
  <2> SUFFICES ASSUME NEW q \in Processes, Temporary(q)'
               PROVE  /\ origin'[file'[q]] = op'[q].policy
                      /\ pc'[q] # "write" => content'[file'[q]] = "good"
                      /\ pc'[q] = "replace" /\ op'[q].policy # "none" => file'[q] \in synced'
                      /\ \A f \in Paths : file'[q] \notin Names(f)'
                      /\ \A r \in Processes :
                           /\ r # q => file'[r] # file'[q]
                           /\ \A h \in handles'[r] : h[2] # file'[q]
    BY Zenon DEF Private
  <2>1. q # p
    BY <1>1, Zenon DEF Temporary, Writing
  <2>2. Temporary(q) /\ file'[q] = file[q] /\ pc'[q] = pc[q] /\ op'[q] = op[q]
    BY <1>3, <2>1 DEF Temporary
  <2>3. /\ origin[file[q]] = op[q].policy
        /\ pc[q] # "write" => content[file[q]] = "good"
        /\ pc[q] = "replace" /\ op[q].policy # "none" => file[q] \in synced
        /\ \A f \in Paths : file[q] \notin Names(f)
        /\ \A r \in Processes :
             /\ r # q => file[r] # file[q]
             /\ \A h \in handles[r] : h[2] # file[q]
    BY <2>2, Zenon DEF Files, Private
  <2>4. file[q] # Nobody /\ file[q] # i
    BY <2>1, <2>2, <2>3, WireCacheAssumption, Zenon DEF Control, Placed, PlacedAt, Temporary, Inodes
  <2>5. \A r \in Processes : r # q => file'[r] # file[q]
    BY <1>1, <1>3, <2>3, <2>4, Zenon
  <2> QED BY <1>1, <2>2, <2>3, <2>4, <2>5, SMTT(30), ZenonT(40)
<1>9. Marked'
  BY <1>1, <1>3, Zenon DEF Files, Marked, Writing
<1>10. Mapped'
  <2>1. \A j : Valid(j)' = Valid(j)
    BY <1>1, Zenon DEF Valid
  <2> QED BY <1>1, <1>3, <2>1, SMTT(20), ZenonT(20), SMTT(40) DEF Files, Mapped
<1>11. Landed'
  <2> SUFFICES ASSUME NEW q \in Processes, pc'[q] = "sync_directory", Path(q)' \in Entries
               PROVE  /\ content'[file'[q]] = "good"
                      /\ origin'[file'[q]] = "full"
                      /\ file'[q] \in synced'
                      /\ \A f \in Paths : f # Path(q)' => file'[q] \notin Names(f)'
    BY DEF Landed
  <2>1. CASE q = p
    <3>1. Path(p)' = Path(p) /\ file'[p] = i /\ op[p].policy = "full" /\ Path(p) \in Entries
      BY <1>1, <2>1, Zenon DEF Path
    <3>2. op[p].atomic
      BY <3>1 DEF Control, Placed, PlacedAt
    <3> QED BY <1>1, <1>4, <2>1, <3>1, <3>2, Zenon
  <2>2. CASE q # p
    <3>1. pc[q] = "sync_directory" /\ Path(q)' = Path(q) /\ file'[q] = file[q]
      BY <1>3, <2>2, Zenon DEF Path
    <3> QED BY <1>1, <1>4, <2>2, <3>1, Zenon DEF Files, Landed
  <2> QED BY <2>1, <2>2, Zenon
<1>12. Durable'
  <2>1. durable' \subseteq durable /\ durable \subseteq Paths
    BY <1>1, Zenon DEF Control, Typed, DirType, Paths
  <2>2. \A e \in durable' : dir'[e] = dir[e] /\ older'[e] = older[e]
    BY <1>1, <2>1, Zenon
  <2> QED BY <1>1, <2>1, <2>2 DEF Files, Durable, Whole
<1>13. Rejected'
  <2> SUFFICES ASSUME NEW q \in Processes, pc'[q] = "quarantine_existing", Whole(Path(q))'
               PROVE  FALSE
    BY DEF Rejected
  <2>1. q # p /\ pc[q] = "quarantine_existing" /\ Path(q)' = Path(q)
    BY <1>1, <1>3, Zenon DEF Path
  <2>2. Path(q) \in Entries /\ Path(q) \in Paths /\ lock[Path(q)] = q
    BY <2>1, Zenon DEF Control, Placed, PlacedAt, Locked, LockedAt, Looking, Paths
  <2>3. Path(p) # Path(q)
    BY <1>1, <2>1, <2>2, Zenon DEF Control, Locked, LockedAt, Publishes
  <2>4. dir'[Path(q)] = dir[Path(q)] /\ content' = content
    BY <1>1, <2>2, <2>3, Zenon
  <2> QED BY <2>1, <2>4, Zenon DEF Rejected, Whole
<1> QED BY <1>5, <1>6, <1>7, <1>8, <1>9, <1>10, <1>11, <1>12, <1>13 DEF Files

-----------------------------------------------------------------------------
\* What a power loss tears was never promised, and a name it brings back is one
\* the path had.
LEMMA PowerLossKeepsFiles ==
  ASSUME Control, Files, PowerLoss
  PROVE  Files' /\ Rejected'
<1>1. PICK torn \in SUBSET ((UNION {{dir[f]} \cup older[f] : f \in Paths}) \ (synced \cup {Nobody})) :
        content' = [i \in Inodes |-> IF i \in torn THEN "torn" ELSE content[i]]
  BY Zenon DEF PowerLoss
<1>2. \A i \in torn : i \notin synced
  BY <1>1
<1>3. /\ origin' = origin /\ durable' = durable
      /\ synced' = {i \in Inodes : content[i] # "free"}
      /\ \A f \in Paths : dir'[f] \in Names(f) /\ older'[f] = {}
      /\ \A p \in Processes : pc'[p] = "idle" /\ file'[p] = Nobody /\ handles'[p] = {}
  BY Zenon DEF PowerLoss, Names
<1>4. \A f \in Paths : Names(f)' \subseteq Names(f)
  BY <1>3 DEF Names
<1>5. InUse' /\ Private' /\ Marked' /\ Mapped' /\ Landed' /\ Rejected'
  BY <1>3, Zenon DEF InUse, Private, Temporary, Writing, Marked, Mapped, Landed, Rejected
<1>6. Apart'
  BY <1>4 DEF Files, Apart
<1>7. Named'
  <2> SUFFICES ASSUME NEW f \in Paths, NEW i \in Names(f)', i # Nobody
               PROVE  /\ content'[i] # "free"
                      /\ origin'[i] = "in_place" \/ Complete(i)'
                      /\ f \in Entries => origin'[i] # "in_place"
    BY DEF Named
  <2>1. i \in Names(f)
    BY <1>4, Zenon
  <2>2. i \in Inodes
    BY <2>1, Zenon DEF Control, Typed, DirType, Names
  <2>3. /\ content[i] # "free"
        /\ origin[i] = "in_place" \/ Complete(i)
        /\ f \in Entries => origin[i] # "in_place"
    BY <2>1 DEF Files, Named
  <2> QED BY <1>1, <1>2, <1>3, <2>2, <2>3, Zenon DEF Complete
<1>8. Durable'
  <2> SUFFICES ASSUME NEW e \in durable
               PROVE  (Whole(e) /\ dir[e] \in synced /\ older[e] = {})'
    BY <1>3 DEF Durable
  <2>1. e \in Paths /\ Whole(e) /\ dir[e] \in synced /\ older[e] = {}
    BY DEF Control, Typed, DirType, Paths, Files, Durable
  <2>2. dir'[e] = dir[e] /\ dir[e] \in Inodes
    BY <1>3, <2>1 DEF Names, Control, Typed, DiskType
  <2> QED BY <1>1, <1>2, <1>3, <2>1, <2>2, Zenon DEF Whole
<1> QED BY <1>5, <1>6, <1>7, <1>8, Zenon DEF Files

\* Damage strikes a file that no process has open, and no other entry has.
LEMMA DamageKeepsFiles ==
  ASSUME Control, Files, Rejected, NEW e \in Entries, Damage(e)
  PROVE  Files' /\ Rejected'
<1> DEFINE i == dir[e]
<1>1. /\ Whole(e) /\ content' = [content EXCEPT ![i] = "damaged"] /\ durable' = durable \ {e}
      /\ \A p \in Processes : file[p] # i /\ \A h \in handles[p] : h[2] # i
      /\ UNCHANGED <<origin, synced, dir, older, pc, op, file, handles>>
  BY DEF Damage, Forget, reader
<1>2. e \in Paths /\ i \in Inodes /\ i # Nobody
  BY <1>1, Zenon DEF Whole, Paths, Control, Typed, DirType
<1>3. content'[i] = "damaged" /\ \A j : j # i => content'[j] = content[j]
  BY <1>1, <1>2 DEF Control, Typed, DiskType
<1>4. \A f \in Paths : Names(f)' = Names(f)
  BY <1>1, Zenon DEF Names
<1>5. InUse'
  BY <1>1, <1>3 DEF Files, InUse
<1>6. Named'
  <2>1. \A j : Complete(j) => Complete(j)'
    BY <1>1, <1>3, Zenon DEF Complete
  <2> QED BY <1>1, <1>3, <1>4, <2>1, Zenon DEF Files, Named
<1>7. Apart'
  BY <1>4, Zenon DEF Files, Apart
<1>8. Private' /\ Marked'
  <2>1. \A q \in Processes : (Temporary(q)' <=> Temporary(q)) /\ content'[file[q]] = content[file[q]]
    BY <1>1, <1>3, Zenon DEF Temporary
  <2>2. Private'
    <3>1. \A q \in Processes : Temporary(q) =>
            /\ pc'[q] # "write" => content'[file[q]] = "good"
            /\ pc'[q] = "replace" /\ op[q].policy # "none" => file[q] \in synced'
      BY <1>1, <2>1, Zenon DEF Files, Private
    <3> QED BY <1>1, <1>4, <2>1, <3>1, StillPrivate, Zenon DEF Files
  <2>3. Marked'
    BY <1>1, Zenon DEF Files, Marked
  <2> QED BY <2>2, <2>3, Zenon
<1>9. Mapped'
  BY <1>1, <1>3 DEF Files, Mapped, Valid
<1>10. Landed'
  BY <1>1, <1>3, <1>4, Zenon DEF Files, Landed, Path
<1>11. Durable'
  <2> SUFFICES ASSUME NEW x \in durable, x # e
               PROVE  (Whole(x) /\ dir[x] \in synced /\ older[x] = {})'
    BY <1>1, Zenon DEF Durable
  <2>1. x \in Paths /\ Whole(x) /\ dir[x] \in synced /\ older[x] = {}
    BY DEF Control, Typed, DirType, Paths, Files, Durable
  <2>2. dir[x] # i
    BY <1>2, <2>1, Zenon DEF Files, Apart, Names, Whole
  <2> QED BY <1>1, <1>3, <2>1, <2>2 DEF Whole
<1>12. Rejected'
  <2>1. \A f : Whole(f)' => Whole(f)
    BY <1>1, <1>3 DEF Whole
  <2> QED BY <1>1, <2>1, Zenon DEF Rejected, Path
<1> QED BY <1>5, <1>6, <1>7, <1>8, <1>9, <1>10, <1>11, <1>12, Zenon DEF Files

-----------------------------------------------------------------------------
(***************************************************************************)
(* Marks and collections.                                                  *)
(***************************************************************************)
\* A mapping more is a mark more, and a mark less is a mapping less.
LEMMA CountedStep ==
  ASSUME Control, Counted, NEW p \in Processes, Steps(p)
  PROVE  Counted'
<1>0. ReaderType /\ ProcessType /\ PlacedAt(p)
  BY DEF Control, Typed, Placed
<1>1. CASE UNCHANGED <<handles, marks>>
  BY <1>1 DEF Counted, Of
<1>2. ASSUME \A q \in Processes : q # p => handles'[q] = handles[q] /\ marks'[q] = marks[q],
             IsFiniteSet(handles'[p]),
             \A e \in Entries : Cardinality({h \in handles'[p] : h[1] = e}) <= marks'[p][e]
      PROVE  Counted'
  BY <1>2, Zenon DEF Counted, Of
<1>3. IsFiniteSet(handles[p])
  BY Zenon DEF Counted
<1>4. \A e \in Entries :
        /\ IsFiniteSet(Of(p, e)) /\ Cardinality(Of(p, e)) \in Nat
        /\ Cardinality(Of(p, e)) <= marks[p][e] /\ marks[p][e] \in Nat
  <2> SUFFICES ASSUME NEW e \in Entries
               PROVE  /\ IsFiniteSet(Of(p, e)) /\ Cardinality(Of(p, e)) \in Nat
                      /\ Cardinality(Of(p, e)) <= marks[p][e] /\ marks[p][e] \in Nat
    BY Zenon
  <2>1. Of(p, e) \subseteq handles[p]
    BY DEF Of
  <2>2. IsFiniteSet(Of(p, e))
    BY <1>3, <2>1, FS_Subset, Zenon
  <2>3. Cardinality(Of(p, e)) \in Nat
    BY <2>2, FS_CardinalityType
  <2> QED BY <1>0, <2>2, <2>3 DEF Counted, ReaderType
<1>5. CASE Map(p)
  <2>1. PICK slot : handles' = [handles EXCEPT ![p] = @ \cup {<<Path(p), file[p], slot>>}]
    BY <1>5, Zenon DEF Map
  <2> DEFINE h == <<Path(p), file[p], slot>>
  <2>2. Path(p) \in Paths /\ MarkActive(p, Path(p), 1)
    BY <1>0, <1>5, Zenon DEF Map, At, PlacedAt
  <2>3. /\ \A q \in Processes : q # p => marks'[q] = marks[q]
        /\ \A e \in Entries : e # Path(p) => marks'[p][e] = marks[p][e]
        /\ marks' \in [Processes -> [Entries -> Nat]]
        /\ Path(p) \in Entries => marks'[p][Path(p)] >= marks[p][Path(p)] + 1
    BY <1>0, <2>2, MarkEffect, Zenon
  <2>4. handles'[p] = handles[p] \cup {h} /\ \A q \in Processes : q # p => handles'[q] = handles[q]
    BY <1>0, <2>1 DEF ReaderType
  <2>5. IsFiniteSet(handles'[p])
    BY <1>3, <2>4, FS_AddElement, Zenon
  <2>6. ASSUME NEW e \in Entries
        PROVE  Cardinality({g \in handles'[p] : g[1] = e}) <= marks'[p][e]
    <3>1. CASE e = Path(p)
      <4>1. {g \in handles'[p] : g[1] = e} = Of(p, e) \cup {h}
        BY <2>4, <3>1 DEF Of
      <4>2. Cardinality(Of(p, e) \cup {h}) = IF h \in Of(p, e) THEN Cardinality(Of(p, e)) ELSE Cardinality(Of(p, e)) + 1
        BY <1>4, FS_AddElement, Zenon
      <4>3. marks'[p][e] \in Nat /\ marks'[p][e] >= marks[p][e] + 1
        BY <2>3, <2>6, <3>1
      <4> QED BY <1>4, <4>1, <4>2, <4>3, SMTT(30), ZenonT(40)
    <3>2. CASE e # Path(p)
      <4>1. {g \in handles'[p] : g[1] = e} = Of(p, e)
        BY <2>4, <3>2 DEF Of
      <4> QED BY <1>4, <2>3, <3>2, <4>1, Zenon
    <3> QED BY <3>1, <3>2, Zenon
  <2> QED BY <1>2, <2>3, <2>4, <2>5, <2>6, Zenon
<1>6. CASE Closing(p)
  <2>1. PICK h \in handles[p] : Close(p, h)
    BY <1>6 DEF Closing
  <2>2. h[1] \in Paths
    BY <1>0 DEF ReaderType
  <2>3. handles'[p] = handles[p] \ {h} /\ \A q \in Processes : q # p => handles'[q] = handles[q]
    BY <1>0, <2>1, Zenon DEF Close, ReaderType
  <2>4. /\ \A q \in Processes : q # p => marks'[q] = marks[q]
        /\ \A e \in Entries : e # h[1] => marks'[p][e] = marks[p][e]
        /\ marks' \in [Processes -> [Entries -> Nat]]
        /\ h[1] \in Entries => marks'[p][h[1]] >= marks[p][h[1]] - 1
    <3>1. CASE MarkActive(p, h[1], -1)
      <4>1. h[1] \in Entries => marks'[p][h[1]] >= marks[p][h[1]] + -1
        BY <1>0, <2>2, <3>1, MarkEffect, Zenon
      <4>2. /\ \A q \in Processes : q # p => marks'[q] = marks[q]
            /\ \A e \in Entries : e # h[1] => marks'[p][e] = marks[p][e]
            /\ marks' \in [Processes -> [Entries -> Nat]]
        BY <1>0, <2>2, <3>1, MarkEffect, Zenon
      <4> QED BY <1>4, <4>1, <4>2, Zenon
    <3>2. CASE UNCHANGED marks
      BY <1>0, <1>4, <3>2 DEF ReaderType
    <3> QED BY <2>1, <3>1, <3>2, Zenon DEF Close
  <2>5. IsFiniteSet(handles'[p])
    BY <1>3, <2>3, FS_RemoveElement, Zenon
  <2>6. ASSUME NEW e \in Entries
        PROVE  Cardinality({g \in handles'[p] : g[1] = e}) <= marks'[p][e]
    <3>1. CASE e = h[1]
      <4>1. {g \in handles'[p] : g[1] = e} = Of(p, e) \ {h} /\ h \in Of(p, e)
        BY <2>3, <3>1 DEF Of
      <4>2. Cardinality(Of(p, e) \ {h}) = IF h \in Of(p, e) THEN Cardinality(Of(p, e)) - 1 ELSE Cardinality(Of(p, e))
        BY <1>4, FS_RemoveElement, Zenon
      <4>3. marks'[p][e] \in Nat /\ marks'[p][e] >= marks[p][e] - 1
        BY <2>4, <2>6, <3>1
      <4>4. Cardinality({g \in handles'[p] : g[1] = e}) = Cardinality(Of(p, e) \ {h})
        BY <4>1, Zenon
      <4>5. Cardinality(Of(p, e) \ {h}) = Cardinality(Of(p, e)) - 1
        BY <4>1, <4>2, Zenon
      <4> QED BY <1>4, <4>3, <4>4, <4>5
    <3>2. CASE e # h[1]
      <4>1. {g \in handles'[p] : g[1] = e} = Of(p, e)
        BY <2>3, <3>2, Zenon DEF Of
      <4> QED BY <1>4, <2>4, <3>2, <4>1, Zenon
    <3> QED BY <3>1, <3>2, Zenon
  <2> QED BY <1>2, <2>3, <2>4, <2>5, <2>6, Zenon
<1>7. CASE Crash(p)
  <2>1. /\ handles'[p] = {} /\ \A e \in Entries : marks'[p][e] = 0
        /\ \A q \in Processes : q # p => handles'[q] = handles[q] /\ marks'[q] = marks[q]
    BY <1>0, <1>7 DEF Crash, ReaderType
  <2>2. IsFiniteSet({}) /\ Cardinality({}) = 0
    BY FS_EmptySet
  <2>3. \A e : {h \in {} : h[1] = e} = {}
    OBVIOUS
  <2> QED BY <1>2, <2>1, <2>2, <2>3
<1> QED BY <1>1, <1>5, <1>6, <1>7, ReaderSteps, Zenon

\* A collector that has its list does nothing else before it is done with it.
LEMMA CollectorsOnlyCollect ==
  ASSUME NEW p \in Processes, Steps(p), pc[p] = "collect"
  PROVE  Collecting(p) \/ Crash(p)
<1>1. ~Starting(p)
  BY Zenon DEF Starting, StartPublish, StartWrite, StartOpen, At
<1>2. ~(Acquire(p) \/ LockTimeout(p) \/ Exists(p) \/ ReturnExisting(p) \/ RejectExisting(p) \/ QuarantineExisting(p))
  BY Zenon DEF Acquire, LockTimeout, Exists, ReturnExisting, RejectExisting, QuarantineExisting, At
<1>3. ~(Create(p) \/ Write(p) \/ Sync(p) \/ Replace(p) \/ SyncDirectory(p) \/ Fail(p))
  BY Zenon DEF Create, CreateFile, Write, Sync, SyncUnder, Replace, SyncDirectory, ReturnFull, Fail, At
<1>4. ~Reading(p) /\ ~Closing(p)
  BY DEF Reading, OpenFile, OpenNamed, OpenFails, Quarantine, Map, Closing, Close, At
<1> QED BY <1>1, <1>2, <1>3, <1>4 DEF Steps, Publishing

\* A step keeps a collector's list free of files its own process holds a mark on.
LEMMA ListedStep ==
  ASSUME Control, Listed, NEW p \in Processes, Steps(p), Frame(p)
  PROVE  Listed'
<1>0. ReaderType /\ ScanType /\ ProcessType
  BY DEF Control, Typed
<1>1. ASSUME \A q \in Processes : q # p => scan'[q] = scan[q] /\ marks'[q] = marks[q],
             pc'[p] # "collect" => scan'[p].files = {},
             \A c \in scan'[p].files : marks'[p][c[2]] = 0
      PROVE  Listed'
  <2>1. ASSUME NEW q \in Processes, q # p
        PROVE  /\ pc'[q] # "collect" => scan'[q].files = {}
               /\ \A c \in scan'[q].files : marks'[q][c[2]] = 0
    <3>1. pc'[q] = pc[q] /\ scan'[q] = scan[q] /\ marks'[q] = marks[q]
      BY <1>1, <2>1, Zenon DEF Frame
    <3> QED BY <3>1, Zenon DEF Listed
  <2> QED BY <1>1, <2>1, Zenon DEF Listed
<1>2. CASE ~Collecting(p) /\ ~Crash(p)
  <2>1. scan' = scan /\ pc[p] # "collect"
    BY <1>2, ReaderSteps, CollectorsOnlyCollect, Zenon
  <2>2. scan'[p].files = {}
    BY <2>1 DEF Listed
  <2>3. \A q \in Processes : q # p => marks'[q] = marks[q]
    BY <1>2, ReaderSteps, ReaderTypeOf, Zenon DEF Closing
  <2> QED BY <1>1, <2>1, <2>2, <2>3, Zenon
<1>3. CASE \E maximum \in Nat : CollectScan(p, maximum)
  <2>1. PICK maximum \in Nat : CollectScan(p, maximum)
    BY <1>3
  <2>2. pc'[p] = "collect"
    BY <1>0, <2>1, GotoEffect, Zenon DEF CollectScan, Places
  <2>3. marks' = marks /\ scan'[p].files = {<<dir[e], e>> : e \in {x \in {y \in Entries : dir[y] # Nobody} : marks[p][x] = 0}}
    BY <1>0, <2>1, Zenon DEF CollectScan, reader, ScanType
  <2>4. \A q \in Processes : q # p => scan'[q] = scan[q]
    BY <1>3, ScanTypeOf
  <2>5. \A c \in scan'[p].files : marks'[p][c[2]] = 0
    BY <2>3
  <2> QED BY <1>1, <2>2, <2>3, <2>4, <2>5, Zenon
<1>4. CASE CollectUnlink(p)
  <2>1. marks' = marks /\ pc' = pc /\ pc[p] = "collect"
    BY <1>4 DEF CollectUnlink, reader, At
  <2>2. scan'[p].files \subseteq scan[p].files
    <3>1. PICK c \in scan[p].files :
            scan' = [scan EXCEPT ![p] =
                       [files |-> scan[p].files \ {c}, maximum |-> scan[p].maximum,
                        retained |-> IF dir[c[2]] = Nobody THEN scan[p].retained ELSE scan[p].retained - 1]]
      BY <1>4, Zenon DEF CollectUnlink
    <3> QED BY <1>0, <3>1 DEF ScanType
  <2>3. \A q \in Processes : q # p => scan'[q] = scan[q]
    BY <1>4, ScanTypeOf, Zenon
  <2> QED BY <1>1, <2>1, <2>2, <2>3, Zenon DEF Listed
<1>5. CASE CollectDone(p) \/ Crash(p)
  <2>1. scan'[p].files = {}
    <3>1. scan' = [scan EXCEPT ![p] = NoScan]
      BY <1>5, Zenon DEF CollectDone, Crash
    <3> QED BY <1>0, <3>1 DEF ScanType, NoScan
  <2>2. \A q \in Processes : q # p => scan'[q] = scan[q]
    BY <1>5, ScanTypeOf, Zenon
  <2>3. \A q \in Processes : q # p => marks'[q] = marks[q]
    BY <1>5, ReaderTypeOf, Zenon DEF CollectDone, reader
  <2> QED BY <1>1, <2>1, <2>2, <2>3, Zenon
<1> QED BY <1>2, <1>3, <1>4, <1>5, Zenon DEF Collecting

-----------------------------------------------------------------------------
\* An empty cache satisfies the invariant.
LEMMA InductiveInit == Init => Inductive
<1> SUFFICES ASSUME Init PROVE Inductive
  OBVIOUS
<1>1. Control
  <2>1. ProcessType /\ DirType /\ DiskType /\ ReaderType /\ plan \in Plans
    BY NoOpType, Zenon DEF Init, ProcessType, DirType, DiskType, ReaderType, Places, Contents
  <2>2. NoScan \in [files : SUBSET (Inodes \X Entries), retained : Nat, maximum : Nat]
    BY Zenon DEF NoScan
  <2>3. ScanType
    BY <2>2, Zenon DEF Init, ScanType
  <2>4. Placed /\ Locked
    BY NoOpType DEF Init, Placed, PlacedAt, Locked, LockedAt, Path, Looking, Writing, Publishes
  <2> QED BY <2>1, <2>3, <2>4 DEF Control, Typed
<1>2. Files /\ Rejected
  <2>1. \A f \in Paths : Names(f) = {Nobody}
    BY Zenon DEF Init, Names
  <2>2. Named /\ Apart
    BY <2>1 DEF Named, Apart
  <2>3. InUse /\ Private /\ Marked /\ Mapped /\ Landed /\ Durable /\ Rejected
    BY DEF Init, InUse, Private, Temporary, Writing, Marked, Mapped, Landed, Durable, Rejected
  <2> QED BY <2>2, <2>3 DEF Files
<1>3. Counted
  <2>1. IsFiniteSet({}) /\ Cardinality({}) = 0
    BY FS_EmptySet
  <2>2. \A p \in Processes, e \in Entries : handles[p] = {} /\ Of(p, e) = {} /\ marks[p][e] = 0
    BY DEF Init, Of
  <2>3. \A p \in Processes : handles[p] = {}
    BY DEF Init
  <2>4. \A p \in Processes : IsFiniteSet(handles[p])
    BY <2>1, <2>3, Zenon
  <2>5. \A p \in Processes, e \in Entries : Cardinality(Of(p, e)) = 0
    BY <2>1, <2>2, Zenon
  <2>6. ASSUME NEW p \in Processes, NEW e \in Entries PROVE Cardinality(Of(p, e)) <= marks[p][e]
    <3>1. Cardinality(Of(p, e)) = 0 /\ marks[p][e] = 0
      BY <2>2, <2>5, Zenon
    <3> QED BY <3>1
  <2> QED BY <2>4, <2>6, Zenon DEF Counted
<1>4. Listed
  BY DEF Init, Listed, NoScan
<1> QED BY <1>1, <1>2, <1>3, <1>4, Zenon DEF Inductive

\* A step of a process.
LEMMA ProcessStep ==
  ASSUME Inductive, NEW p \in Processes, Steps(p)
  PROVE  Inductive'
<1>1. Control /\ Files /\ Rejected /\ Counted /\ Listed
  BY DEF Inductive
<1>2. Control' /\ Frame(p)
  BY <1>1, ControlOfProcess
<1>3. Files' /\ Rejected'
  <2>1. CASE Create(p)
    BY <1>1, <1>2, <2>1, CreateKeepsFiles, Zenon
  <2>2. CASE Write(p)
    BY <1>1, <1>2, <2>2, WriteKeepsFiles, SMTT(20)
  <2>3. CASE Sync(p)
    BY <1>1, <1>2, <2>3, SyncKeepsFiles
  <2>4. CASE Replace(p)
    BY <1>1, <1>2, <2>4, ReplaceKeepsFiles
  <2>5. CASE ~Create(p) /\ ~Write(p) /\ ~Sync(p) /\ ~Replace(p)
    <3>1. Retreat(p)
      BY <1>1, <2>5, Retreats, Zenon
    <3>2. /\ \A f \in Paths : Names(f)' \subseteq Names(f) \cup {Nobody}
          /\ Named' /\ Apart' /\ Durable'
      BY <1>1, <3>1, RetreatKeepsNames, Zenon
    <3>3. InUse' /\ Private' /\ Marked' /\ Mapped' /\ Landed'
      BY <1>1, <1>2, <3>1, <3>2, RetreatKeepsUse, Zenon
    <3>4. Rejected'
      BY <1>1, <1>2, <3>1, RetreatKeepsRejected, Zenon
    <3> QED BY <3>2, <3>3, <3>4, Zenon DEF Files
  <2> QED BY <2>1, <2>2, <2>3, <2>4, <2>5, Zenon
<1> QED BY <1>1, <1>2, <1>3, CountedStep, ListedStep, Zenon DEF Inductive

\* Every step preserves the invariant.
LEMMA InductiveStep == Inductive /\ [Next]_vars => Inductive'
<1>1. ASSUME Inductive, UNCHANGED vars
      PROVE  Inductive'
  <2>1. Control'
    BY <1>1, ControlStep DEF Inductive
  <2>2. Files' /\ Rejected'
    <3>1. \A f \in Paths : Names(f)' = Names(f)
      BY <1>1, Zenon DEF vars, Names
    <3>2. InUse' /\ Marked' /\ Rejected'
      BY <1>1, <3>1, Zenon DEF Inductive, Files, vars, InUse, Marked, Rejected, Whole, Path
    <3>3. Private'
      <4>1. /\ origin' = origin /\ op' = op /\ file' = file /\ handles' = handles
            /\ content' = content /\ pc' = pc /\ synced' = synced
        BY <1>1, Zenon DEF vars
      <4>2. \A q \in Processes : (Temporary(q)' <=> Temporary(q))
        BY <4>1, Zenon DEF Temporary
      <4>3. \A q \in Processes : Temporary(q) =>
              /\ pc'[q] # "write" => content'[file[q]] = "good"
              /\ pc'[q] = "replace" /\ op[q].policy # "none" => file[q] \in synced'
        BY <1>1, <4>1, Zenon DEF Inductive, Files, Private
      <4> QED BY <1>1, <3>1, <4>1, <4>2, <4>3, StillPrivate, Zenon DEF Inductive, Files
    <3>4. Mapped' /\ Durable'
      BY <1>1, Zenon DEF Inductive, Files, vars, Mapped, Valid, Durable, Whole
    <3>5. Named' /\ Apart'
      BY <1>1, <3>1, Zenon DEF Inductive, Files, vars, Named, Complete, Apart
    <3>6. Landed'
      BY <1>1, <3>1, Zenon DEF Inductive, Files, vars, Landed, Path
    <3> QED BY <3>2, <3>3, <3>4, <3>5, <3>6, Zenon DEF Files
  <2>3. Counted' /\ Listed'
    BY <1>1 DEF Inductive, vars, Counted, Of, Listed
  <2> QED BY <2>1, <2>2, <2>3 DEF Inductive
<1>2. ASSUME Inductive, PowerLoss
      PROVE  Inductive'
  <2>1. Control' /\ Files' /\ Rejected'
    BY <1>2, ControlOfPowerLoss, PowerLossKeepsFiles DEF Inductive
  <2>2. Counted'
    <3>1. IsFiniteSet({}) /\ Cardinality({}) = 0
      BY FS_EmptySet
    <3>2. \A p \in Processes : handles'[p] = {} /\ \A e \in Entries : marks'[p][e] = 0
      BY <1>2, Zenon DEF PowerLoss
    <3>3. \A p \in Processes, e \in Entries : Of(p, e)' = {}
      BY <3>2 DEF Of
    <3>4. \A p \in Processes : IsFiniteSet(handles'[p])
      BY <3>1, <3>2, Zenon
    <3>5. \A p \in Processes, e \in Entries : Cardinality(Of(p, e)') = 0
      BY <3>1, <3>3, Zenon
    <3>6. ASSUME NEW p \in Processes, NEW e \in Entries PROVE Cardinality(Of(p, e)') <= marks'[p][e]
      <4>1. Cardinality(Of(p, e)') = 0 /\ marks'[p][e] = 0
        BY <3>2, <3>5, Zenon
      <4> QED BY <4>1
    <3> QED BY <3>4, <3>6, Zenon DEF Counted
  <2>3. Listed'
    BY <1>2, Zenon DEF PowerLoss, Listed, NoScan
  <2> QED BY <2>1, <2>2, <2>3 DEF Inductive
<1>3. ASSUME Inductive, NEW e \in Entries, Damage(e)
      PROVE  Inductive'
  <2>1. Control' /\ Files' /\ Rejected'
    BY <1>3, ControlOfDamage, DamageKeepsFiles, Zenon DEF Inductive
  <2>2. UNCHANGED <<handles, marks, scan, pc>>
    BY <1>3, Zenon DEF Damage, reader
  <2>3. Counted' /\ Listed'
    BY <1>3, <2>2, Zenon DEF Inductive, Counted, Of, Listed
  <2> QED BY <2>1, <2>3 DEF Inductive
<1>4. ASSUME Inductive, Next
      PROVE  Inductive'
  BY <1>2, <1>3, <1>4, NextIsASteps, ProcessStep, Zenon DEF Inductive, Control
<1> QED BY <1>1, <1>4

\* Every reachable state satisfies the inductive invariant, for any number of
\* processes, entries, exports and files and every set of plans.
THEOREM InductiveHolds == Spec => []Inductive
BY InductiveInit, InductiveStep, PTL DEF Spec

\* A path never names an incomplete file, a mapped snapshot keeps its bytes and
\* a FULL publication outlives a power loss: temporary files stay private until
\* they are complete, and are synced before they are renamed.
THEOREM FilesAreWhole == Spec => []FilesStayWhole
<1>1. Inductive => FilesStayWhole
  <2> SUFFICES ASSUME Inductive PROVE FilesStayWhole
    OBVIOUS
  <2>1. TypeOK
    BY TypedIsTypeOK, Zenon DEF Inductive, Control
  <2>2. \A f \in Paths :
          dir[f] # Nobody => \/ content[dir[f]] \in {"good", "damaged"}
                             \/ content[dir[f]] = "torn" /\ origin[dir[f]] = "none"
                             \/ origin[dir[f]] = "in_place"
    BY DEF Inductive, Files, Named, Names, Complete
  <2>3. \A p \in Processes : \A h \in handles[p] : content[h[2]] = "good" \/ origin[h[2]] = "in_place"
    BY DEF Inductive, Files, Mapped, Valid
  <2>4. \A e \in durable : Whole(e)
    BY DEF Inductive, Files, Durable
  <2> QED BY <2>1, <2>2, <2>3, <2>4, Zenon DEF FilesStayWhole
<1> QED BY <1>1, InductiveHolds, PTL

\* WireCache.publish quarantines an existing entry only while it is invalid: the
\* lock keeps every other publisher from replacing it after the validation.
THEOREM PublishersDiscardInvalid == Spec => PublishersKeepValid
<1>1. Inductive => [\A p \in Processes : QuarantineExisting(p) => ~Whole(Path(p))]_vars
  BY DEF Inductive, Rejected, QuarantineExisting, At
<1> QED BY <1>1, InductiveHolds, PTL DEF PublishersKeepValid

\* collect unlinks no entry its process has mapped, whatever number of mappings
\* of the entry were opened and closed, and whichever callbacks were lost.
THEOREM CollectorsSpareMapped == Spec => CollectSparesMapped
<1>1. Inductive =>
        [\A p \in Processes :
           CollectUnlink(p) => \A h \in handles[p] : dir'[h[1]] = dir[h[1]]]_vars
  <2> SUFFICES ASSUME Inductive, NEW p \in Processes, CollectUnlink(p), NEW h \in handles[p]
               PROVE  dir'[h[1]] = dir[h[1]]
    OBVIOUS
  <2>1. DirType /\ ScanType /\ ReaderType
    BY Zenon DEF Inductive, Control, Typed
  <2>2. PICK c \in scan[p].files : MoveAside(c[2])
    BY DEF CollectUnlink
  <2>3. c[2] \in Entries /\ c[2] \in Paths /\ h[1] \in Paths
    BY <2>1 DEF ScanType, ReaderType, Paths
  <2>4. marks[p][c[2]] = 0
    BY Zenon DEF Inductive, Listed
  <2>5. h[1] # c[2]
    <3> SUFFICES ASSUME h[1] = c[2] PROVE FALSE
      OBVIOUS
    <3>1. h \in Of(p, c[2]) /\ Of(p, c[2]) \subseteq handles[p]
      BY Zenon DEF Of
    <3>2. IsFiniteSet(handles[p]) /\ Cardinality(Of(p, c[2])) <= 0
      BY <2>3, <2>4 DEF Inductive, Counted
    <3>3. IsFiniteSet(Of(p, c[2]))
      BY <3>1, <3>2, FS_Subset, Zenon
    <3>4. Cardinality(Of(p, c[2])) \in Nat
      BY <3>3, FS_CardinalityType, Zenon
    <3>5. Cardinality(Of(p, c[2])) = 0
      BY <3>2, <3>4
    <3>6. Of(p, c[2]) = {}
      BY <3>3, <3>5, FS_EmptySet, Zenon
    <3> QED BY <3>1, <3>6, Zenon
  <2> QED BY <2>1, <2>2, <2>3, <2>5, MoveAsideEffect, Zenon
<1> QED BY <1>1, InductiveHolds, PTL DEF CollectSparesMapped

=============================================================================
