------------------------- MODULE NativeFacadeProofs -------------------------
(***************************************************************************)
(* Proofs about the counters that the handles of a published storage share *)
(* (CounterStateV2 of publication/facade_v2.rs): they are what the process *)
(* completed, for any number of threads, handles, calls and forks.         *)
(***************************************************************************)
EXTENDS NativeFacade, FiniteSetTheorems, TLAPS

-----------------------------------------------------------------------------
(* The inductive invariant.                                                  *)

Epoch == {"requests", "rows", "emitted", "closes", "transitions", "encoded"}
Holding == {"reset", "resetunlock", "add", "add2", "unlock"}
Resetting == {"clear", "resetlock", "reset"}
Owning == {"lock", "add", "add2", "unlock", "resetunlock"}
Places == {"idle", "prepare", "claim"} \cup Holding \cup Resetting \cup Owning
Calls == [name : {"none", "page", "close", "encode", "counters"}, rows : {0, 1},
          transitioned : BOOLEAN, observed : 0 .. MaxProcesses]
Counters(v) == Epoch \subseteq DOMAIN v /\ \A f \in Epoch : v[f] \in Nat

Shape ==
  /\ pid \in 0 .. self /\ self \in 1 .. MaxProcesses /\ gate \in BOOLEAN
  /\ pc \in [Threads -> Places] /\ op \in [Threads -> Calls] /\ open \in [Handles -> BOOLEAN]
  /\ Counters(values) /\ Counters(done) /\ DOMAIN done = Epoch

\* Who is in a call, and what that call is.
Calling ==
  \A t \in Threads :
    /\ pc[t] # "idle" => stage = "ready"
    /\ pc[t] = "idle" => op[t] = Idle
    /\ op[t].transitioned => op[t].name = "close"

\* Who holds the gate, and to whom the counters belong meanwhile.
Gated ==
  /\ \A t, u \in Threads : pc[t] \in Holding /\ pc[u] \in Holding => t = u
  /\ \A t, u \in Threads : pc[t] \in Resetting /\ pc[u] \in Resetting => t = u
  /\ \A t \in Threads :
       /\ pc[t] \in Holding => gate
       /\ pc[t] \in Resetting => pid = 0
       /\ pc[t] \in Owning => pid = self
       /\ pc[t] = "claim" => op[t].observed \notin {0, self}

\* Between the two halves of an addition, the first one is in.
Half(t, f) == IF f \in FirstHalf THEN Amount(op[t])[f] ELSE 0
Summed ==
  /\ pid # self => \A f \in Epoch : done[f] = 0
  /\ pid = self /\ (\A t \in Threads : pc[t] # "add2") => \A f \in Epoch : values[f] = done[f]
  /\ \A t \in Threads : pc[t] = "add2" => \A f \in Epoch : values[f] = done[f] + Half(t, f)

\* Each transition, counted or under way, closed a handle of its own.
Under == {t \in Threads : op[t].transitioned /\ pc[t] # "unlock"}
Closed == {h \in Handles : ~open[h]}
Transitions == done.transitions + Cardinality(Under) <= Cardinality(Closed)

Staged ==
  /\ stage \in {"begin", "source", "rdf", "origins", "combine", "sort", "commit", "ready", "failed"}
  /\ (stage = "failed") = (err # None)

Inductive == Shape /\ Calling /\ Gated /\ Summed /\ Transitions /\ Staged

-----------------------------------------------------------------------------
(* What a call adds.                                                         *)

\* A call adds nothing or one to each counter, and counts as a transition
\* exactly if it closed its handle.
LEMMA AmountIs ==
  ASSUME NEW o \in Calls
  PROVE  /\ DOMAIN ZeroEpoch = Epoch /\ \A f \in Epoch : ZeroEpoch[f] = 0
         /\ \A f \in Epoch : Amount(o)[f] \in Nat
         /\ Amount(o).transitions = IF o.name = "close" /\ o.transitioned THEN 1 ELSE 0
<1>1. DOMAIN ZeroEpoch = Epoch /\ \A f \in Epoch : ZeroEpoch[f] = 0
  BY DEF ZeroEpoch, Epoch
<1>2. \A f \in Epoch : Amount(o)[f] \in Nat
  <2>1. o.rows \in Nat
    BY DEF Calls
  <2>2. /\ Amount(o).requests \in Nat /\ Amount(o).rows \in Nat /\ Amount(o).emitted \in Nat
        /\ Amount(o).closes \in Nat /\ Amount(o).transitions \in Nat /\ Amount(o).encoded \in Nat
    BY <2>1 DEF Amount, ZeroEpoch
  <2> QED BY <2>2 DEF Epoch
<1>3. Amount(o).transitions = IF o.name = "close" /\ o.transitioned THEN 1 ELSE 0
  BY DEF Amount, ZeroEpoch
<1> QED BY <1>1, <1>2, <1>3

\* Adding a call changes the given counters by its amounts, and no other.
LEMMA AddIs ==
  ASSUME NEW o \in Calls, NEW v, Counters(v), NEW F
  PROVE  /\ DOMAIN Add(v, o, F) = DOMAIN v /\ Counters(Add(v, o, F))
         /\ \A f \in Epoch : Add(v, o, F)[f] = IF f \in F THEN v[f] + Amount(o)[f] ELSE v[f]
<1>1. \A f \in Epoch : Amount(o)[f] \in Nat
  BY AmountIs
<1>2. \A f \in Epoch : f \in DOMAIN v /\ v[f] \in Nat
  BY DEF Counters
<1>3. DOMAIN Add(v, o, F) = DOMAIN v
  BY DEF Add
<1>4. \A f \in Epoch : Add(v, o, F)[f] = IF f \in F THEN v[f] + Amount(o)[f] ELSE v[f]
  BY <1>2, Zenon DEF Add
<1>5. \A f \in Epoch : Add(v, o, F)[f] \in Nat
  BY <1>1, <1>2, <1>4
<1> QED BY <1>2, <1>3, <1>4, <1>5, Zenon DEF Counters

\* A process epoch begins with zeros.
LEMMA ValuesAre ==
  ASSUME NEW reinit, NEW parser
  PROVE  Epoch \subseteq DOMAIN Values(reinit, parser) /\ \A f \in Epoch : Values(reinit, parser)[f] = 0
<1>1. DOMAIN ZeroEpoch = Epoch /\ \A f \in Epoch : ZeroEpoch[f] = 0
  BY DEF ZeroEpoch, Epoch
<1>2. \A f \in Epoch : f # "reinit" /\ f # "parser"
  BY DEF Epoch
<1> QED BY <1>1, <1>2 DEF Values

\* The two halves of an addition are the whole of it.
LEMMA HalvesAreAll ==
  Epoch = FirstHalf \cup SecondHalf /\ FirstHalf \cap SecondHalf = {} /\ DOMAIN ZeroEpoch = Epoch
BY DEF Epoch, FirstHalf, SecondHalf, ZeroEpoch

-----------------------------------------------------------------------------
(* Transitions and handles.                                                  *)

\* Both sides of the comparison are numbers.
LEMMA SidesAreFinite ==
  /\ IsFiniteSet(Under) /\ IsFiniteSet(Closed) /\ Cardinality(Under) \in Nat /\ Cardinality(Closed) \in Nat
  /\ IsFiniteSet(Under') /\ IsFiniteSet(Closed') /\ Cardinality(Under') \in Nat /\ Cardinality(Closed') \in Nat
<1>1. Under \subseteq Threads /\ Under' \subseteq Threads /\ Closed \subseteq Handles /\ Closed' \subseteq Handles
  BY DEF Under, Closed
<1>2. IsFiniteSet(Under) /\ IsFiniteSet(Closed) /\ IsFiniteSet(Under') /\ IsFiniteSet(Closed')
  BY <1>1, FS_Subset, FacadeAssumption
<1> QED BY <1>2, FS_CardinalityType

\* A step that puts no call under way and reopens no handle.
LEMMA NoMoreUnder ==
  ASSUME Shape, Transitions, Under' \subseteq Under, Closed \subseteq Closed', done'.transitions <= done.transitions,
         done'.transitions \in Nat
  PROVE  Transitions'
<1>1. Cardinality(Under') <= Cardinality(Under) /\ Cardinality(Closed) <= Cardinality(Closed')
  BY SidesAreFinite, FS_Subset
<1>2. done.transitions \in Nat
  BY DEF Shape, Counters, Epoch
<1> QED BY <1>1, <1>2, SidesAreFinite DEF Transitions

-----------------------------------------------------------------------------
(* Steps of a thread.                                                        *)

\* The thread goes from one place to another, and nobody else moves.
Moves(t, from, to) ==
  /\ stage = "ready" /\ pc[t] = from
  /\ pc' \in [Threads -> Places]
  /\ \A u \in Threads : pc'[u] = IF u = t THEN to ELSE pc[u]

\* A step that says where its thread goes moves that thread and no other.
LEMMA MovesAre ==
  ASSUME Shape, NEW t \in Threads, NEW from, NEW to \in Places, At(t, from), Goto(t, to)
  PROVE  Moves(t, from, to)
<1>1. pc \in [Threads -> Places]
  BY DEF Shape
<1>2. pc' = [pc EXCEPT ![t] = to]
  BY DEF Goto
<1>3. pc' \in [Threads -> Places]
  BY <1>1, <1>2
<1>4. \A u \in Threads : pc'[u] = IF u = t THEN to ELSE pc[u]
  BY <1>1, <1>2
<1> QED BY <1>3, <1>4 DEF At, Moves

\* Nothing of the preparation changes.
LEMMA StagedSame ==
  ASSUME UNCHANGED auxVars, Staged
  PROVE  Staged' /\ stage' = stage
BY DEF auxVars, Staged

\* A step between two places of a call whose data it keeps, or all but what it observed.
LEMMA OnTheWay ==
  ASSUME Inductive, NEW t \in Threads, NEW from \in Places \ {"idle"}, NEW to \in Places \ {"idle", "unlock"},
         from # "unlock", Moves(t, from, to), UNCHANGED <<auxVars, open, done>>, op' \in [Threads -> Calls],
         \A u \in Threads : /\ op'[u].name = op[u].name /\ op'[u].transitioned = op[u].transitioned
                            /\ u # t => op'[u] = op[u]
  PROVE  Calling' /\ Transitions' /\ Staged'
<1>1. Staged' /\ stage' = stage
  BY StagedSame DEF Inductive
<1>2. Calling'
  BY <1>1, Zenon DEF Inductive, Calling, Moves
<1>3. Under' \subseteq Under
  BY DEF Under, Moves
<1>4. Closed' = Closed
  BY DEF Closed
<1>5. done'.transitions = done.transitions /\ done.transitions \in Nat
  BY DEF Inductive, Shape, Counters, Epoch
<1>6. Transitions'
  BY <1>3, <1>4, <1>5, NoMoreUnder DEF Inductive
<1> QED BY <1>1, <1>2, <1>6

\* prepare_process_id reads whose counters they are.
LEMMA PrepareLoadKeeps ==
  ASSUME Inductive, NEW t \in Threads, PrepareLoad(t)
  PROVE  Inductive'
<1> DEFINE to == IF pid = self THEN "lock" ELSE "claim"
<1>1. Shape /\ pid # 0 /\ UNCHANGED <<auxVars, self, counterVars, open, calls, done, lost>>
      /\ op' = [op EXCEPT ![t].observed = pid] /\ pid \in 0 .. MaxProcesses /\ op \in [Threads -> Calls]
  <2>1. Shape /\ pid # 0 /\ UNCHANGED <<auxVars, self, counterVars, open, calls, done, lost>>
        /\ op' = [op EXCEPT ![t].observed = pid]
    BY Zenon DEF PrepareLoad, Inductive
  <2>2. pid \in 0 .. self /\ self \in 1 .. MaxProcesses /\ op \in [Threads -> Calls]
    BY <2>1, Zenon DEF Shape
  <2>3. pid \in 0 .. MaxProcesses
    BY <2>2, FacadeAssumption
  <2> QED BY <2>1, <2>2, <2>3, Zenon
<1>2. Moves(t, "prepare", to) /\ to \in {"lock", "claim"}
  BY <1>1, MovesAre DEF PrepareLoad, Places, Owning
<1>3. /\ op' \in [Threads -> Calls]
      /\ \A u \in Threads : /\ op'[u].name = op[u].name /\ op'[u].transitioned = op[u].transitioned
                            /\ u # t => op'[u] = op[u]
      /\ op'[t].observed = pid
  <2>1. \A u \in Threads : op'[u] = IF u = t THEN [op[t] EXCEPT !.observed = pid] ELSE op[u]
    BY <1>1
  <2>2. \A o \in Calls : LET n == [o EXCEPT !.observed = pid]
                        IN  n \in Calls /\ n.name = o.name /\ n.transitioned = o.transitioned /\ n.observed = pid
    BY <1>1 DEF Calls
  <2>3. op' \in [Threads -> Calls]
    BY <1>1, <2>2
  <2> QED BY <1>1, <2>1, <2>2, <2>3
<1>4. Calling' /\ Transitions' /\ Staged'
  <2>1. to \in Places \ {"idle", "unlock"} /\ "prepare" \in Places \ {"idle"}
    BY <1>2 DEF Places, Owning
  <2> QED BY <1>1, <1>2, <1>3, <2>1, OnTheWay
<1>5. Shape'
  BY <1>1, <1>2, <1>3 DEF Shape, counterVars, Moves, Counters
<1>6. Gated'
  <2>1. Gated /\ UNCHANGED <<pid, self, gate>>
    BY <1>1 DEF Inductive, counterVars
  <2> HIDE DEF to
  <2> QED BY <1>1, <1>2, <1>3, <2>1 DEF Gated, Moves, Holding, Resetting, Owning, to
<1>7. Summed'
  <2>1. UNCHANGED <<pid, self, values, done>> /\ Summed
    BY <1>1 DEF Inductive, counterVars
  <2>2. \A u \in Threads : pc'[u] = "add2" <=> pc[u] = "add2"
    BY <1>2 DEF Moves
  <2>3. \A u \in Threads : pc[u] = "add2" => op'[u] = op[u]
    BY <1>2, <1>3 DEF Moves
  <2>4. \A u \in Threads, f \in Epoch : pc[u] = "add2" => Half(u, f)' = Half(u, f)
    BY <2>3 DEF Half
  <2> QED BY <2>1, <2>2, <2>4, Zenon DEF Summed
<1> QED BY <1>4, <1>5, <1>6, <1>7 DEF Inductive

\* A step of a call that keeps the counters, and whose they are.
LEMMA SummedSame ==
  ASSUME Inductive, NEW t \in Threads, NEW from, NEW to, from # "add2", to # "add2", Moves(t, from, to),
         UNCHANGED <<pid, self, values, op, done>>
  PROVE  Summed'
<1>1. \A u \in Threads : pc'[u] = "add2" <=> pc[u] = "add2"
  BY DEF Moves
<1>2. \A u \in Threads, f \in Epoch : Half(u, f)' = Half(u, f)
  BY DEF Half
<1> QED BY <1>1, <1>2, Zenon DEF Inductive, Summed

\* The thread that claims the counters of another process makes them nobody's.
LEMMA PrepareClaimKeeps ==
  ASSUME Inductive, NEW t \in Threads, PrepareClaim(t)
  PROVE  Inductive'
<1> DEFINE claimed == pid = op[t].observed
<1> DEFINE to == IF claimed THEN "clear" ELSE "prepare"
<1>1. Shape /\ UNCHANGED <<auxVars, self, gate, values, open, op, calls, done, lost>>
      /\ pid' = IF claimed THEN 0 ELSE pid
  BY DEF PrepareClaim, Inductive
<1>2. Moves(t, "claim", to) /\ to \in {"clear", "prepare"}
  BY <1>1, MovesAre DEF PrepareClaim, Places, Resetting
<1>3. op[t].observed \notin {0, self}
  BY <1>2 DEF Inductive, Gated, Moves
<1>4. Calling' /\ Transitions' /\ Staged'
  <2>1. to \in Places \ {"idle", "unlock"} /\ "claim" \in Places \ {"idle"} /\ op \in [Threads -> Calls]
    BY <1>1, <1>2 DEF Places, Resetting, Shape
  <2> QED BY <1>1, <1>2, <2>1, OnTheWay
<1>5. Shape'
  <2>1. pid \in 0 .. self /\ self \in 1 .. MaxProcesses
    BY <1>1 DEF Shape
  <2>2. pid' \in 0 .. self
    BY <1>1, <2>1
  <2> QED BY <1>1, <1>2, <2>1, <2>2 DEF Shape, Moves, Counters
<1>6. CASE ~ claimed
  <2>1. pid' = pid /\ Moves(t, "claim", "prepare")
    BY <1>1, <1>2, <1>6
  <2>2. Summed'
    BY <1>1, <2>1, SummedSame
  <2>3. Gated'
    BY <1>1, <2>1, Zenon DEF Inductive, Gated, Moves, Holding, Resetting, Owning
  <2> QED BY <1>4, <1>5, <2>2, <2>3 DEF Inductive
<1>7. CASE claimed
  <2>1. pid' = 0 /\ pid \notin {0, self} /\ Moves(t, "claim", "clear") /\ self # 0
    BY <1>1, <1>2, <1>3, <1>7 DEF Shape
  <2>2. \A u \in Threads : pc[u] \notin Resetting /\ pc[u] \notin Owning /\ pc[u] \notin Holding
    BY <2>1 DEF Inductive, Gated, Holding, Resetting, Owning
  <2>3. Gated'
    BY <1>1, <2>1, <2>2 DEF Inductive, Gated, Moves, Holding, Resetting, Owning
  <2>4. Summed'
    <3>1. \A u \in Threads : pc'[u] # "add2"
      BY <2>1, <2>2 DEF Moves, Owning
    <3>2. \A f \in Epoch : done'[f] = 0
      BY <1>1, <2>1 DEF Inductive, Summed
    <3> QED BY <1>1, <2>1, <3>1, <3>2, Zenon DEF Summed
  <2> QED BY <1>4, <1>5, <2>3, <2>4 DEF Inductive
<1> QED BY <1>6, <1>7

\* A step of a call that changes nothing but the gate.
LEMMA GateKeeps ==
  ASSUME Inductive, NEW t \in Threads, NEW from \in Places \ {"idle", "unlock", "add2"},
         NEW to \in Places \ {"idle", "unlock", "add2"}, Moves(t, from, to), gate' \in BOOLEAN,
         UNCHANGED <<auxVars, self, pid, values, open, op, calls, done, lost>>, Gated'
  PROVE  Inductive'
<1>1. Shape /\ op \in [Threads -> Calls]
  BY DEF Inductive, Shape
<1>2. Calling' /\ Transitions' /\ Staged'
  BY <1>1, OnTheWay
<1>3. Shape'
  BY <1>1 DEF Shape, Moves, Counters
<1>4. Summed'
  BY SummedSame
<1> QED BY <1>2, <1>3, <1>4 DEF Inductive

\* The gate of a child is cleared: nobody in this process holds it.
LEMMA ClearGateKeeps ==
  ASSUME Inductive, NEW t \in Threads, ClearGate(t)
  PROVE  Inductive'
<1>1. Shape /\ gate' = FALSE /\ UNCHANGED <<auxVars, self, pid, values, open, op, calls, done, lost>>
  BY DEF ClearGate, Inductive
<1>2. Moves(t, "clear", "resetlock")
  BY <1>1, MovesAre DEF ClearGate, Places, Resetting
<1>3. \A u \in Threads : pc[u] \notin Holding
  <2>1. pid = 0 /\ self # 0
    BY <1>1, <1>2 DEF Inductive, Gated, Moves, Resetting, Shape
  <2>2. \A u \in Threads : pc[u] \in Resetting => pc[u] = "clear"
    BY <1>2, Zenon DEF Inductive, Gated, Moves, Resetting
  <2>3. \A u \in Threads : pc[u] \notin Owning
    BY <2>1 DEF Inductive, Gated
  <2> QED BY <2>2, <2>3 DEF Holding, Resetting, Owning
<1>4. Gated'
  BY <1>1, <1>2, <1>3, Zenon DEF Inductive, Gated, Moves, Holding, Resetting, Owning
<1> QED BY <1>1, <1>2, <1>4, GateKeeps DEF Places, Resetting

\* The gate is taken, for a reset or for an addition.
LEMMA LockKeeps ==
  ASSUME Inductive, NEW t \in Threads, NEW from, NEW to, Lock(t, from, to),
         <<from, to>> \in {<<"resetlock", "reset">>, <<"lock", "add">>}
  PROVE  Inductive'
<1>1. Shape /\ ~ gate /\ gate' = TRUE /\ UNCHANGED <<auxVars, self, pid, values, open, op, calls, done, lost>>
  BY DEF Lock, Inductive
<1>2. from \in Places \ {"idle", "unlock", "add2"} /\ to \in Places \ {"idle", "unlock", "add2"}
  BY DEF Places, Resetting, Owning
<1>3. Moves(t, from, to)
  BY <1>1, <1>2, MovesAre DEF Lock
<1>4. \A u \in Threads : pc[u] \notin Holding
  BY <1>1 DEF Inductive, Gated
<1>5. Gated'
  BY <1>1, <1>3, <1>4, Zenon DEF Inductive, Gated, Moves, Holding, Resetting, Owning
<1> QED BY <1>1, <1>2, <1>3, <1>5, GateKeeps

\* A child starts from zero, and owns the counters from then on.
LEMMA ResetKeeps ==
  ASSUME Inductive, NEW t \in Threads, Reset(t)
  PROVE  Inductive'
<1>1. /\ Shape /\ values' = ResetValues /\ pid' = self
      /\ UNCHANGED <<auxVars, self, gate, open, op, calls, done, lost>>
  BY Zenon DEF Reset, Inductive
<1>2. Moves(t, "reset", "resetunlock")
  BY <1>1, MovesAre DEF Reset, Places, Holding
<1>3. Epoch \subseteq DOMAIN values' /\ \A f \in Epoch : values'[f] = 0
  BY <1>1, ValuesAre DEF ResetValues
<1>4. Calling' /\ Transitions' /\ Staged'
  <2>1. "resetunlock" \in Places \ {"idle", "unlock"} /\ "reset" \in Places \ {"idle"} /\ op \in [Threads -> Calls]
    BY <1>1 DEF Places, Holding, Shape
  <2> QED BY <1>1, <1>2, <2>1, OnTheWay
<1>5. Shape'
  <2>1. self \in 1 .. MaxProcesses
    BY <1>1 DEF Shape
  <2>2. pid' \in 0 .. self
    BY <1>1, <2>1, FacadeAssumption
  <2>3. Counters(values') /\ Counters(done) /\ DOMAIN done = Epoch
    BY <1>1, <1>3 DEF Counters, Shape
  <2> QED BY <1>1, <1>2, <2>1, <2>2, <2>3, Zenon DEF Shape, Moves, Counters
<1>6. pid = 0 /\ self # 0
  BY <1>1, <1>2 DEF Inductive, Gated, Moves, Resetting, Shape
<1>7. \A u \in Threads : u # t => pc[u] \notin Resetting /\ pc[u] \notin Owning /\ pc[u] \notin Holding
  BY <1>2, <1>6, Zenon DEF Inductive, Gated, Moves, Resetting, Holding, Owning
<1>8. Gated'
  <2>1. gate
    BY <1>2 DEF Inductive, Gated, Moves, Holding
  <2> QED BY <1>1, <1>2, <1>6, <1>7, <2>1, Zenon DEF Inductive, Gated, Moves, Holding, Resetting, Owning
<1>9. Summed'
  <2>1. \A u \in Threads : pc'[u] # "add2"
    BY <1>2, <1>7 DEF Moves, Owning
  <2>2. \A f \in Epoch : done'[f] = 0
    BY <1>1, <1>6 DEF Inductive, Summed
  <2> QED BY <1>1, <1>3, <2>1, <2>2, Zenon DEF Summed
<1> QED BY <1>4, <1>5, <1>8, <1>9 DEF Inductive

\* The gate is given back, after a reset.
LEMMA ResetUnlockKeeps ==
  ASSUME Inductive, NEW t \in Threads, ResetUnlock(t)
  PROVE  Inductive'
<1>1. Shape /\ gate' = FALSE /\ UNCHANGED <<auxVars, self, pid, values, open, op, calls, done, lost>>
  BY Zenon DEF ResetUnlock, Inductive
<1>2. Moves(t, "resetunlock", "lock")
  BY <1>1, MovesAre DEF ResetUnlock, Places, Owning
<1>3. \A u \in Threads : u # t => pc[u] \notin Holding
  BY <1>2, Zenon DEF Inductive, Gated, Moves, Holding
<1>4. Gated'
  BY <1>1, <1>2, <1>3, Zenon DEF Inductive, Gated, Moves, Holding, Resetting, Owning
<1> QED BY <1>1, <1>2, <1>4, GateKeeps DEF Places, Holding, Owning

\* One move of the thread that holds the gate, to another place where it does.
LEMMA HeldKeeps ==
  ASSUME Inductive, NEW t \in Threads, NEW from \in Holding \cap Owning, NEW to \in Holding \cap Owning,
         Moves(t, from, to), UNCHANGED <<self, pid, gate, op>>
  PROVE  Gated' /\ pid = self /\ \A u \in Threads : u # t => pc[u] \notin Holding
<1>1. gate /\ pid = self
  BY Zenon DEF Inductive, Gated, Moves
<1>2. \A u \in Threads : u # t => pc[u] \notin Holding
  BY Zenon DEF Inductive, Gated, Moves
<1>3. to \notin Resetting /\ to # "claim"
  BY DEF Resetting, Holding, Owning
<1>4. Gated'
  BY <1>1, <1>2, <1>3, Zenon DEF Inductive, Gated, Moves
<1> QED BY <1>1, <1>2, <1>4

\* The first half of an addition, or its refusal.
LEMMA AddFirstKeeps ==
  ASSUME Inductive, NEW t \in Threads, AddFirst(t)
  PROVE  Inductive'
<1> DEFINE refused == Overflows(values, op[t])
<1> DEFINE to == IF refused THEN "unlock" ELSE "add2"
<1>1. /\ Shape /\ values' = IF refused THEN values ELSE Add(values, op[t], FirstHalf)
      /\ UNCHANGED <<auxVars, self, pid, gate, open, op, calls, done, lost>>
  BY Zenon DEF AddFirst, Inductive
<1> HIDE DEF refused
<1>2. Moves(t, "add", to)
  BY <1>1, MovesAre DEF AddFirst, Places, Owning, refused
<1>3. op[t] \in Calls /\ Counters(values) /\ pc[t] = "add"
  BY <1>1, <1>2 DEF Shape, Moves
<1>4. Gated' /\ pid = self /\ \A u \in Threads : u # t => pc[u] \notin Holding
  BY <1>1, <1>2, HeldKeeps DEF Holding, Owning
<1>5. Counters(values') /\ \A f \in Epoch : values'[f] = values[f] + IF refused THEN 0 ELSE Half(t, f)
  <2>1. \A f \in Epoch : values[f] \in Nat
    BY <1>3 DEF Counters
  <2>2. CASE refused
    BY <1>1, <1>3, <2>1, <2>2
  <2>3. CASE ~ refused
    BY <1>1, <1>3, <2>1, <2>3, AddIs DEF Half
  <2> QED BY <2>2, <2>3
<1>6. Shape'
  BY <1>1, <1>2, <1>5, Zenon DEF Shape, Moves, Counters
<1>7. Staged' /\ stage' = stage
  BY <1>1, StagedSame DEF Inductive
<1>8. Calling'
  BY <1>1, <1>2, <1>7, Zenon DEF Inductive, Calling, Moves
<1>9. Transitions'
  <2>1. Under' \subseteq Under /\ Closed' = Closed
    BY <1>1, <1>2 DEF Under, Closed, Moves
  <2>2. done'.transitions = done.transitions /\ done.transitions \in Nat
    BY <1>1 DEF Shape, Counters, Epoch
  <2> QED BY <2>1, <2>2, NoMoreUnder DEF Inductive
<1>10. Summed'
  <2>1. \A u \in Threads : pc[u] # "add2"
    BY <1>3, <1>4 DEF Holding
  <2>2. \A f \in Epoch : values[f] = done[f] /\ values[f] \in Nat
    BY <1>3, <1>4, <2>1 DEF Inductive, Summed, Counters
  <2>3. CASE refused
    <3>1. \A u \in Threads : pc'[u] # "add2"
      BY <1>2, <2>1, <2>3 DEF Moves
    <3>2. values' = values /\ done' = done /\ pid' = pid /\ self' = self
      BY <1>1, <2>3
    <3> QED BY <1>4, <2>2, <3>1, <3>2, Zenon DEF Summed
  <2>4. CASE ~ refused
    <3>1. \A f \in Epoch : values'[f] = done'[f] + Half(t, f)'
      BY <1>1, <1>5, <2>2, <2>4 DEF Half
    <3>2. pc'[t] = "add2" /\ \A u \in Threads : pc'[u] = "add2" => u = t
      BY <1>2, <2>1, <2>4 DEF Moves
    <3> QED BY <1>1, <1>4, <3>1, <3>2, Zenon DEF Summed
  <2> QED BY <2>3, <2>4
<1> QED BY <1>4, <1>6, <1>7, <1>8, <1>9, <1>10, Zenon DEF Inductive

\* The second half of an addition completes the call.
LEMMA AddSecondKeeps ==
  ASSUME Inductive, NEW t \in Threads, AddSecond(t)
  PROVE  Inductive'
<1>1. /\ Shape /\ values' = Add(values, op[t], SecondHalf) /\ done' = Add(done, op[t], DOMAIN ZeroEpoch)
      /\ UNCHANGED <<auxVars, self, pid, gate, open, op, calls, lost>>
  BY Zenon DEF AddSecond, Inductive
<1>2. Moves(t, "add2", "unlock")
  BY <1>1, MovesAre DEF AddSecond, Places, Owning
<1>3. op[t] \in Calls /\ Counters(values) /\ Counters(done) /\ DOMAIN done = Epoch /\ pc[t] = "add2"
  BY <1>1, <1>2 DEF Shape, Moves
<1>4. Gated' /\ pid = self /\ \A u \in Threads : u # t => pc[u] \notin Holding
  BY <1>1, <1>2, HeldKeeps DEF Holding, Owning
<1>5. /\ Counters(values') /\ Counters(done') /\ DOMAIN done' = Epoch
      /\ \A f \in Epoch : values'[f] = IF f \in SecondHalf THEN values[f] + Amount(op[t])[f] ELSE values[f]
      /\ \A f \in Epoch : done'[f] = done[f] + Amount(op[t])[f]
  <2>1. /\ Counters(values')
        /\ \A f \in Epoch : values'[f] = IF f \in SecondHalf THEN values[f] + Amount(op[t])[f] ELSE values[f]
    BY <1>1, <1>3, AddIs, SMTT(20), ZenonT(20), SMTT(40)
  <2>2. DOMAIN ZeroEpoch = Epoch
    BY HalvesAreAll
  <2>3. /\ Counters(done') /\ DOMAIN done' = Epoch
        /\ \A f \in Epoch : done'[f] = done[f] + Amount(op[t])[f]
    BY <1>1, <1>3, <2>2, AddIs, SMTT(20), ZenonT(20), SMTT(40)
  <2> QED BY <2>1, <2>3, Zenon
<1>6. Shape'
  BY <1>1, <1>2, <1>5, Zenon DEF Shape, Moves, Counters
<1>7. Staged' /\ stage' = stage
  BY <1>1, StagedSame DEF Inductive
<1>8. Calling'
  BY <1>1, <1>2, <1>7, Zenon DEF Inductive, Calling, Moves
<1>9. Transitions'
  <2>1. Closed' = Closed /\ Under' = Under \ {t}
    BY <1>1, <1>2 DEF Under, Closed, Moves
  <2>2. done.transitions \in Nat /\ done'.transitions = done.transitions + Amount(op[t]).transitions
    BY <1>3, <1>5 DEF Counters, Epoch
  <2>3. CASE op[t].transitioned
    <3>1. op[t].name = "close"
      BY <2>3 DEF Inductive, Calling
    <3>2. done'.transitions = done.transitions + 1
      BY <1>3, <2>2, <2>3, <3>1, AmountIs
    <3>3. t \in Under
      BY <1>3, <2>3 DEF Under
    <3>4. Cardinality(Under') = Cardinality(Under) - 1
      BY <2>1, <3>3, FS_RemoveElement, SidesAreFinite
    <3> QED BY <2>1, <2>2, <3>2, <3>4, SidesAreFinite DEF Inductive, Transitions
  <2>4. CASE ~ op[t].transitioned
    <3>1. done'.transitions = done.transitions
      BY <1>3, <2>2, <2>4, AmountIs
    <3> QED BY <1>1, <2>1, <2>2, <3>1, NoMoreUnder DEF Inductive
  <2> QED BY <2>3, <2>4
<1>10. Summed'
  <2>1. \A u \in Threads : pc'[u] # "add2"
    BY <1>2, <1>4 DEF Moves, Holding
  <2>2. \A f \in Epoch : values[f] = done[f] + Half(t, f) /\ done[f] \in Nat /\ Amount(op[t])[f] \in Nat
    BY <1>3, AmountIs DEF Inductive, Summed, Counters
  <2>3. \A f \in Epoch : values'[f] = done'[f]
    BY <1>5, <2>2, HalvesAreAll, SMTT(20), ZenonT(20), SMTT(40) DEF Half
  <2> QED BY <1>1, <1>4, <2>1, <2>3, Zenon DEF Summed
<1> QED BY <1>4, <1>6, <1>7, <1>8, <1>9, <1>10, Zenon DEF Inductive

\* The call returns, and gives the gate back.
LEMMA ReturnKeeps ==
  ASSUME Inductive, NEW t \in Threads, Return(t)
  PROVE  Inductive'
<1>1. /\ Shape /\ gate' = FALSE /\ op' = [op EXCEPT ![t] = Idle]
      /\ UNCHANGED <<auxVars, self, pid, values, open, calls, done, lost>>
  BY Zenon DEF Return, Inductive
<1>2. Moves(t, "unlock", "idle")
  BY <1>1, MovesAre DEF Return, Places
<1>3. Idle \in Calls /\ ~ Idle.transitioned
  BY FacadeAssumption DEF Idle, Calls
<1>4. op' \in [Threads -> Calls] /\ \A u \in Threads : op'[u] = IF u = t THEN Idle ELSE op[u]
  BY <1>1, <1>3 DEF Shape
<1>5. Shape'
  BY <1>1, <1>2, <1>4, Zenon DEF Shape, Moves, Counters
<1>6. Staged' /\ stage' = stage
  BY <1>1, StagedSame DEF Inductive
<1>7. Calling'
  BY <1>2, <1>3, <1>4, <1>6, Zenon DEF Inductive, Calling, Moves
<1>8. \A u \in Threads : u # t => pc[u] \notin Holding
  BY <1>2, Zenon DEF Inductive, Gated, Moves, Holding
<1>9. Gated'
  BY <1>1, <1>2, <1>4, <1>8, Zenon DEF Inductive, Gated, Moves, Holding, Resetting, Owning
<1>10. Transitions'
  <2>1. Under' \subseteq Under
    BY <1>2, <1>3, <1>4, Zenon DEF Under, Moves
  <2>2. Closed' = Closed /\ done'.transitions = done.transitions /\ done.transitions \in Nat
    BY <1>1 DEF Closed, Shape, Counters, Epoch
  <2> QED BY <1>1, <2>1, <2>2, NoMoreUnder DEF Inductive
<1>11. Summed'
  <2>1. \A u \in Threads : pc'[u] # "add2" /\ pc[u] # "add2"
    BY <1>2, <1>8 DEF Moves, Holding
  <2> QED BY <1>1, <2>1, Zenon DEF Inductive, Summed
<1> QED BY <1>5, <1>6, <1>7, <1>9, <1>10, <1>11, Zenon DEF Inductive

-----------------------------------------------------------------------------
(* Calls that begin, forks, and the preparation.                             *)

\* The call of an idle thread, and those made from it.
LEMMA IdleIs ==
  /\ Idle \in Calls /\ ~ Idle.transitioned
  /\ LET c == [Idle EXCEPT !.name = "page", !.rows = 1] IN c \in Calls /\ ~ c.transitioned
  /\ \A name \in {"encode", "counters"} : LET c == [Idle EXCEPT !.name = name] IN c \in Calls /\ ~ c.transitioned
  /\ \A b \in BOOLEAN : LET c == [Idle EXCEPT !.name = "close", !.transitioned = b]
                        IN  c \in Calls /\ c.transitioned = b /\ c.name = "close"
<1>1. Idle \in Calls /\ ~ Idle.transitioned
  BY FacadeAssumption DEF Idle, Calls
<1>2. ASSUME NEW o \in Calls
      PROVE  LET c == [o EXCEPT !.name = "page", !.rows = 1] IN c \in Calls /\ c.transitioned = o.transitioned
  <2> DEFINE c == [o EXCEPT !.name = "page", !.rows = 1]
  <2>1. c.transitioned = o.transitioned
    BY DEF Calls
  <2>2. c \in Calls
    BY DEF Calls
  <2> QED BY <2>1, <2>2
<1>3. ASSUME NEW o \in Calls, NEW name \in {"encode", "counters"}
      PROVE  LET c == [o EXCEPT !.name = name] IN c \in Calls /\ c.transitioned = o.transitioned
  BY DEF Calls
<1>4. ASSUME NEW o \in Calls, NEW b \in BOOLEAN
      PROVE  LET c == [o EXCEPT !.name = "close", !.transitioned = b]
             IN  c \in Calls /\ c.transitioned = b /\ c.name = "close"
  <2> DEFINE c == [o EXCEPT !.name = "close", !.transitioned = b]
  <2>1. c.name = "close"
    BY DEF Calls
  <2>2. c.transitioned = b
    BY DEF Calls
  <2>3. c \in Calls
    BY DEF Calls
  <2> QED BY <2>1, <2>2, <2>3
<1> QED BY <1>1, <1>2, <1>3, <1>4, Zenon

\* A call begins; what it does to its handle is known apart.
LEMMA StartCallKeeps ==
  ASSUME Inductive, NEW t \in Threads, NEW o \in Calls, o.transitioned => o.name = "close",
         StartCall(t, o), open' \in [Handles -> BOOLEAN]
  PROVE  /\ Shape' /\ Calling' /\ Gated' /\ Summed' /\ Staged' /\ done' = done
         /\ Under' = IF o.transitioned THEN Under \cup {t} ELSE Under
         /\ t \notin Under
<1>1. /\ Shape /\ op' = [op EXCEPT ![t] = o]
      /\ UNCHANGED <<auxVars, self, counterVars, done, lost>>
  BY Zenon DEF StartCall, Inductive
<1>2. UNCHANGED <<self, pid, gate, values, done>>
  BY <1>1 DEF counterVars
<1>3. Moves(t, "idle", "prepare")
  BY <1>1, MovesAre DEF StartCall, Places
<1>4. op' \in [Threads -> Calls] /\ \A u \in Threads : op'[u] = IF u = t THEN o ELSE op[u]
  BY <1>1 DEF Shape
<1>5. Shape'
  BY <1>1, <1>2, <1>3, <1>4, Zenon DEF Shape, Moves, Counters
<1>6. Staged' /\ stage' = stage
  BY <1>1, StagedSame DEF Inductive
<1>7. Calling'
  BY <1>3, <1>4, <1>6, Zenon DEF Inductive, Calling, Moves
<1>8. Gated'
  BY <1>2, <1>3, <1>4, Zenon DEF Inductive, Gated, Moves, Holding, Resetting, Owning
<1>9. Summed'
  <2>1. \A u \in Threads : pc'[u] = "add2" <=> pc[u] = "add2"
    BY <1>3 DEF Moves
  <2>2. \A u \in Threads : pc[u] = "add2" => op'[u] = op[u]
    BY <1>3, <1>4 DEF Moves
  <2>3. \A u \in Threads, f \in Epoch : pc[u] = "add2" => Half(u, f)' = Half(u, f)
    BY <2>2 DEF Half
  <2> QED BY <1>2, <2>1, <2>3, Zenon DEF Inductive, Summed
<1>10. op[t] = Idle /\ ~ Idle.transitioned
  BY <1>3 DEF Inductive, Calling, Moves, Idle
<1>11. t \notin Under
  BY <1>10 DEF Under
<1>12. Under' = IF o.transitioned THEN Under \cup {t} ELSE Under
  BY <1>3, <1>4, <1>11 DEF Under, Moves
<1> QED BY <1>2, <1>5, <1>6, <1>7, <1>8, <1>9, <1>11, <1>12, Zenon

\* A call that closes no handle begins.
LEMMA StartPlainKeeps ==
  ASSUME Inductive, NEW t \in Threads, NEW o \in Calls, ~ o.transitioned, StartCall(t, o), UNCHANGED open
  PROVE  Inductive'
<1>1. open' \in [Handles -> BOOLEAN]
  BY DEF Inductive, Shape
<1>2. /\ Shape' /\ Calling' /\ Gated' /\ Summed' /\ Staged' /\ done' = done /\ Under' = Under
  BY <1>1, StartCallKeeps
<1>3. Closed' = Closed /\ Transitions
  BY DEF Closed, Inductive
<1> QED BY <1>2, <1>3, Zenon DEF Inductive, Transitions

\* page, and the calls that do not look at the handle.
LEMMA StartOtherKeeps ==
  ASSUME Inductive, NEW t \in Threads,
         \/ \E h \in Handles : StartPage(t, h)
         \/ \E name \in {"encode", "counters"} : StartOther(t, name)
  PROVE  Inductive'
<1>1. CASE \E h \in Handles : StartPage(t, h)
  <2> DEFINE o == [Idle EXCEPT !.name = "page", !.rows = 1]
  <2>1. o \in Calls /\ ~ o.transitioned
    BY IdleIs, Zenon
  <2>2. StartCall(t, o) /\ UNCHANGED open
    BY <1>1, Zenon DEF StartPage
  <2> HIDE DEF o
  <2> QED BY <2>1, <2>2, StartPlainKeeps
<1>2. CASE \E name \in {"encode", "counters"} : StartOther(t, name)
  <2>1. PICK name \in {"encode", "counters"} : StartOther(t, name)
    BY <1>2
  <2> DEFINE o == [Idle EXCEPT !.name = name]
  <2>2. o \in Calls /\ ~ o.transitioned
    BY IdleIs, Zenon
  <2>3. StartCall(t, o) /\ UNCHANGED open
    BY <2>1, Zenon DEF StartOther
  <2> HIDE DEF o
  <2> QED BY <2>2, <2>3, StartPlainKeeps
<1> QED BY <1>1, <1>2

\* close_v2: one of the calls for a handle finds it open.
LEMMA StartCloseKeeps ==
  ASSUME Inductive, NEW t \in Threads, NEW h \in Handles, StartClose(t, h)
  PROVE  Inductive'
<1> DEFINE o == [Idle EXCEPT !.name = "close", !.transitioned = open[h]]
<1>1. open \in [Handles -> BOOLEAN] /\ open' = [open EXCEPT ![h] = FALSE] /\ StartCall(t, o)
  BY DEF Inductive, Shape, StartClose
<1>2. o \in Calls /\ o.transitioned = open[h] /\ o.name = "close"
  <2>1. open[h] \in BOOLEAN
    BY <1>1
  <2> QED BY <2>1, IdleIs, Zenon
<1>3. open' \in [Handles -> BOOLEAN] /\ Closed' = Closed \cup {h} /\ (open[h] <=> h \notin Closed)
  BY <1>1 DEF Closed
<1> HIDE DEF o
<1>4. /\ Shape' /\ Calling' /\ Gated' /\ Summed' /\ Staged' /\ done' = done /\ t \notin Under
      /\ Under' = IF open[h] THEN Under \cup {t} ELSE Under
  BY <1>1, <1>2, <1>3, StartCallKeeps
<1>5. Transitions /\ done.transitions \in Nat
  BY DEF Inductive, Shape, Counters, Epoch
<1>6. CASE open[h]
  <2>1. Cardinality(Under') = Cardinality(Under) + 1 /\ Cardinality(Closed') = Cardinality(Closed) + 1
    BY <1>3, <1>4, <1>6, FS_AddElement, SidesAreFinite
  <2>2. Transitions'
    BY <1>4, <1>5, <2>1, SidesAreFinite DEF Transitions
  <2> QED BY <1>4, <2>2, Zenon DEF Inductive
<1>7. CASE ~ open[h]
  <2>1. Under' = Under /\ Closed' = Closed
    BY <1>3, <1>4, <1>7
  <2> QED BY <1>4, <1>5, <2>1, Zenon DEF Inductive, Transitions
<1> QED BY <1>6, <1>7

\* A child has one thread, in no call, and counters that are not its own.
LEMMA ForkKeeps ==
  ASSUME Inductive, NEW t \in Threads, Fork(t)
  PROVE  Inductive'
<1>1. /\ Shape /\ self < MaxProcesses /\ self' = self + 1 /\ done' = ZeroEpoch
      /\ pc' = [u \in Threads |-> "idle"] /\ op' = [u \in Threads |-> Idle]
      /\ UNCHANGED <<auxVars, counterVars, open, calls>>
  BY Zenon DEF Fork, Inductive
<1>2. UNCHANGED <<pid, gate, values, open>>
  BY <1>1 DEF counterVars
<1>3. \A u \in Threads : pc'[u] = "idle" /\ op'[u] = Idle
  BY <1>1
<1>4. pid' \in 0 .. self' /\ self' \in 1 .. MaxProcesses /\ pid' # self'
  BY <1>1, <1>2, FacadeAssumption DEF Shape
<1>5. DOMAIN done' = Epoch /\ \A f \in Epoch : done'[f] = 0
  BY <1>1 DEF ZeroEpoch, Epoch
<1>6. Shape'
  <2>1. Idle \in Calls /\ "idle" \in Places
    BY FacadeAssumption DEF Idle, Calls, Places
  <2>2. pc' \in [Threads -> Places] /\ op' \in [Threads -> Calls]
    BY <1>1, <2>1
  <2>3. Counters(done')
    BY <1>5 DEF Counters
  <2>4. Counters(values') /\ gate' \in BOOLEAN /\ open' \in [Handles -> BOOLEAN]
    BY <1>1, <1>2, Zenon DEF Shape
  <2> QED BY <1>4, <1>5, <2>2, <2>3, <2>4, Zenon DEF Shape, Counters
<1>7. Staged' /\ stage' = stage
  BY <1>1, StagedSame DEF Inductive
<1>8. Calling'
  BY <1>3 DEF Calling, Idle
<1>9. Gated'
  BY <1>3, Zenon DEF Gated, Holding, Resetting, Owning
<1>10. Summed'
  BY <1>3, <1>4, <1>5, Zenon DEF Summed
<1>11. Transitions'
  <2>1. Under' = {} /\ done'.transitions = 0
    BY <1>3, <1>5 DEF Under, Idle, Epoch
  <2> QED BY <2>1, FS_EmptySet, SidesAreFinite DEF Transitions
<1> QED BY <1>6, <1>7, <1>8, <1>9, <1>10, <1>11, Zenon DEF Inductive

\* The preparation comes before every call, and fails for a reason.
LEMMA PreparationKeeps ==
  ASSUME Inductive, AuxNext, UNCHANGED liveVars
  PROVE  Inductive'
<1>1. Shape /\ Calling /\ Gated /\ Summed /\ Transitions /\ Staged
  BY Zenon DEF Inductive
<1>2. UNCHANGED <<self, pid, gate, values, open, pc, op, done>>
  BY DEF liveVars, counterVars
<1>3. stage # "ready" /\ Staged'
  <2> USE <1>1, NoneAssumption DEF Staged, Fails
  <2>1. CASE Cancel
    BY <2>1, Zenon DEF Cancel
  <2>2. CASE SeeCancellation
    BY <2>2, Zenon DEF SeeCancellation
  <2>3. ASSUME NEW b, NEW to \in {"source", "rdf", "origins", "combine", "sort", "commit"}, Proceed(b, to),
               stage # "failed"
        PROVE  Staged'
    BY <2>3, Zenon DEF Proceed
  <2>4. CASE BeginPreparation
    BY <2>3, <2>4, Zenon DEF BeginPreparation
  <2>5. CASE RetainSource
    BY <2>3, <2>5, Zenon DEF RetainSource, Checkpoint
  <2>6. CASE RetainRdf
    BY <2>3, <2>6, Zenon DEF RetainRdf, Checkpoint
  <2>7. CASE RetainOrigins
    BY <2>3, <2>7, Zenon DEF RetainOrigins, Checkpoint
  <2>8. CASE Combine
    BY <2>3, <2>8, Zenon DEF Combine, Checkpoint
  <2>9. CASE FinishPreparation
    BY <2>3, <2>9, Zenon DEF FinishPreparation, Checkpoint
  <2>10. CASE Commit
    BY <2>10, Zenon DEF Commit
  <2> QED BY <2>1, <2>2, <2>4, <2>5, <2>6, <2>7, <2>8, <2>9, <2>10, Zenon DEF AuxNext
<1>4. Shape'
  BY <1>1, <1>2, Zenon DEF Shape, Counters
<1>5. Calling'
  BY <1>1, <1>2, <1>3, Zenon DEF Calling
<1>6. Gated'
  BY <1>1, <1>2, Zenon DEF Gated
<1>7. Summed'
  BY <1>1, <1>2 DEF Summed, Half
<1>8. Transitions'
  BY <1>1, <1>2 DEF Transitions, Under, Closed
<1> QED BY <1>3, <1>4, <1>5, <1>6, <1>7, <1>8, Zenon DEF Inductive

-----------------------------------------------------------------------------
(* The theorems.                                                             *)

\* The invariant holds when a storage is about to be prepared.
LEMMA InductiveInit == Init => Inductive
<1> SUFFICES ASSUME Init PROVE Inductive
  OBVIOUS
<1>1. /\ self = 1 /\ pid = 1 /\ gate = FALSE /\ values = InitialValues /\ done = ZeroEpoch
      /\ stage = "begin" /\ err = None
      /\ open = [h \in Handles |-> TRUE] /\ pc = [t \in Threads |-> "idle"] /\ op = [t \in Threads |-> Idle]
  BY Zenon DEF Init, AuxInit
<1>2. \A t \in Threads : pc[t] = "idle" /\ op[t] = Idle
  BY <1>1
<1>3. DOMAIN done = Epoch /\ \A f \in Epoch : done[f] = 0
  BY <1>1 DEF ZeroEpoch, Epoch
<1>4. Epoch \subseteq DOMAIN values /\ \A f \in Epoch : values[f] = 0
  BY <1>1, ValuesAre DEF InitialValues
<1>5. Shape
  <2>1. Idle \in Calls /\ "idle" \in Places
    BY FacadeAssumption DEF Idle, Calls, Places
  <2>2. pc \in [Threads -> Places] /\ op \in [Threads -> Calls] /\ open \in [Handles -> BOOLEAN]
    BY <1>1, <2>1
  <2>3. pid \in 0 .. self /\ self \in 1 .. MaxProcesses
    BY <1>1, FacadeAssumption
  <2>4. Counters(values) /\ Counters(done)
    BY <1>3, <1>4 DEF Counters
  <2> QED BY <1>1, <1>3, <2>2, <2>3, <2>4, Zenon DEF Shape
<1>6. Calling
  BY <1>2 DEF Calling, Idle
<1>7. Gated
  BY <1>2, Zenon DEF Gated, Holding, Resetting, Owning
<1>8. Summed
  BY <1>2, <1>3, <1>4, Zenon DEF Summed
<1>9. Transitions
  <2>1. Under = {} /\ done.transitions = 0
    BY <1>2, <1>3 DEF Under, Idle, Epoch
  <2> QED BY <2>1, FS_EmptySet, SidesAreFinite DEF Transitions
<1>10. Staged
  BY <1>1 DEF Staged
<1> QED BY <1>5, <1>6, <1>7, <1>8, <1>9, <1>10, Zenon DEF Inductive

\* Every step keeps it.
LEMMA InductiveStep == Inductive /\ [Next]_vars => Inductive'
<1> SUFFICES ASSUME Inductive, [Next]_vars PROVE Inductive'
  OBVIOUS
<1>1. ASSUME NEW t \in Threads, Continue(t) PROVE Inductive'
  <2>1. CASE Lock(t, "resetlock", "reset") \/ Lock(t, "lock", "add")
    BY <2>1, LockKeeps
  <2> QED BY <1>1, <2>1, PrepareLoadKeeps, PrepareClaimKeeps, ClearGateKeeps, ResetKeeps, ResetUnlockKeeps,
             AddFirstKeeps, AddSecondKeeps, ReturnKeeps, Zenon DEF Continue
<1>2. CASE AuxNext /\ UNCHANGED liveVars
  BY <1>2, PreparationKeeps, Zenon
<1>3. ASSUME NEW t \in Threads,
             \/ Continue(t) \/ Fork(t)
             \/ \E h \in Handles : StartPage(t, h) \/ StartClose(t, h)
             \/ \E name \in {"encode", "counters"} : StartOther(t, name)
      PROVE  Inductive'
  BY <1>1, <1>3, ForkKeeps, StartOtherKeeps, StartCloseKeeps, Zenon
<1>4. CASE UNCHANGED vars
  <2>1. UNCHANGED <<stage, err, self, pid, gate, values, open, pc, op, done>>
    BY <1>4 DEF vars, auxVars, liveVars, counterVars
  <2>2. Shape' /\ Calling' /\ Gated' /\ Staged'
    BY <2>1, Zenon DEF Inductive, Shape, Counters, Calling, Gated, Staged
  <2>3. Summed' /\ Transitions'
    BY <2>1 DEF Inductive, Summed, Half, Transitions, Under, Closed
  <2> QED BY <2>2, <2>3, Zenon DEF Inductive
<1> QED BY <1>2, <1>3, <1>4, Zenon DEF Next

\* Where every thread is in its call, who holds the gate of the shared counters
\* and whose they are meanwhile: true of every process, for any number of
\* threads, handles and calls, and however often and whenever it was forked.
THEOREM InductiveHolds == Spec => []Inductive
BY InductiveInit, InductiveStep, PTL DEF Spec

\* CounterStateV2 counts what its process completed: no update is lost or half
\* made while the gate is free, a child starts from zero whatever its parent was
\* doing, and no handle's closing is counted twice.
THEOREM CountersHold == Spec => []CountersAreExact
<1>1. Inductive => CountersAreExact
  <2> SUFFICES ASSUME Inductive PROVE CountersAreExact
    OBVIOUS
  <2>1. TypeOK
    <3>1. pid \in 0 .. MaxProcesses /\ self \in 1 .. MaxProcesses
      BY FacadeAssumption DEF Inductive, Shape
    <3> QED BY <3>1, Zenon DEF Inductive, Staged, Calling, TypeOK
  <2>2. pid = self /\ ~ gate => \A f \in DOMAIN ZeroEpoch : values[f] = done[f]
    <3>1. ~ gate => \A t \in Threads : pc[t] # "add2"
      BY DEF Inductive, Gated, Holding
    <3> QED BY <3>1, HalvesAreAll, Zenon DEF Inductive, Summed
  <2> QED BY <2>1, <2>2, Zenon DEF CountersAreExact, Inductive, Transitions, Under, Closed
<1> QED BY <1>1, InductiveHolds, PTL
=============================================================================
