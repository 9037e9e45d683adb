-------------------------- MODULE NativeWorkProofs --------------------------
(***************************************************************************)
(* Proofs about one native call, for every job, stride, limit and sequence *)
(* of amounts.  Four inductive invariants share one on the shape of the    *)
(* state: the pace of polling, the two budgets, the causes of answers, and *)
(* how far a partition has come.                                           *)
(***************************************************************************)
EXTENDS NativeWork, FiniteSetTheorems, TLAPS

Before == {"start", "encode", "check", "configure", "relay", "native"}
Running == {"session", "build"}
Places == Before \cup Running \cup {"exit", "join", "decode", "done"}
Outcomes == {"none", "ok", "limit", "deadline", "OperationCancelled", "KeyboardInterrupt",
             "ValueError", "BackendProtocolError"}
Instants == Nat \cup {None}

Calls == [pc : Places, outcome : Outcomes, config : Instants]
Session == [flag : BOOLEAN, expires : Instants, ends : Instants, slack : Nat, overrun : Nat,
            used : Nat, temporary : Nat, persistent : Nat]

IndexShape(i) ==
  /\ DOMAIN i = {"source", "done", "groups", "result"}
  /\ i.source \in Nat /\ i.done \in Nat /\ IsFiniteSet(DOMAIN i.groups)

Shape ==
  /\ job \in Jobs /\ now \in 0..MaxTime /\ cancelled \in BOOLEAN
  /\ signal \in {"none", "pending", "raised"}
  /\ call \in Calls
  /\ relay \in [pc : {"none", "waiting", "looking", "ended"}, stop : BOOLEAN]
  /\ native \in Session
  /\ IndexShape(index)
  /\ call.pc \in {"start", "encode", "build", "decode"} => IsIndex

\* The work since the caller asked for an end and the work until the next poll
\* fit into one stride together: that is what makes the bound inductive.
Paced ==
  /\ native.slack <= job.stride
  /\ call.pc \in Before => native.overrun = 0
  /\ call.pc \in Running => native.slack >= 1 /\ native.overrun + native.slack <= job.stride

\* Nothing is charged before the session exists; from then on the sum is exact.
Charged ==
  /\ call.pc \notin Before
  /\ native.used = Input + native.temporary + native.persistent
  /\ native.temporary <= job.max_temporary
  /\ job.max_memory # None => native.used <= job.max_memory
Uncharged ==
  /\ call.pc \notin Running
  /\ native.used = 0 /\ native.temporary = 0 /\ native.persistent = 0
Budgeted == Charged \/ Uncharged

\* An instant that only passes once the token's or the caller's deadline has.
Late(instant) ==
  \/ instant = None
  \/ job.expiry # None /\ instant >= job.expiry
  \/ job.deadline # None /\ instant >= job.deadline
\* A duration that, counted from now on, ends no earlier than one of them.
Long(duration) ==
  \/ duration = None
  \/ job.expiry # None /\ now + duration >= job.expiry
  \/ job.deadline # None /\ duration >= job.deadline

Caused ==
  /\ CauseIsReal
  /\ native.flag => TokenCancelled
  /\ Late(native.expires) /\ Late(native.ends) /\ Long(call.config)
  /\ call.pc \in Before \cup Running => call.outcome = "none"


\* The ordinals of the first n rows with a tag.
RowsBefore(tag, n) == {i - 1 : i \in {k \in 1..n : job.rows[k].tag = tag}}

\* The postings of the first n rows: each of their tags, with their ordinals in order.
Grouped(groups, n) ==
  /\ DOMAIN groups = {job.rows[i].tag : i \in 1..n}
  /\ \A t \in DOMAIN groups : /\ groups[t] \in Seq(Nat) /\ Ascending(groups[t])
                              /\ Range(groups[t]) = RowsBefore(t, n)

\* How far a partition has come, and what follows for its answer.
Counting ==
  /\ index.done \in 0..Len(job.rows) /\ index.source = SourceBytes[index.done] /\ index.groups = <<>>
  /\ call.pc = "start" => index.done = 0
Counted == index.done = 0 /\ index.source = Total /\ index.groups = <<>>
Building ==
  /\ index.source = Total /\ Total <= job.max_bytes
  /\ native.temporary = 0 /\ native.persistent = 8 * Len(job.rows)
  /\ index.done \in 0..Len(job.rows) /\ Grouped(index.groups, index.done)
Answered ==
  /\ call.outcome = "limit" => ~ Allowed
  /\ call.outcome = "ok" => Allowed /\ Partitioned(index.result) /\ Canonical(index.result)
  /\ call.pc = "decode" => call.outcome = "ok"

Indexed ==
  /\ call.outcome # "BackendProtocolError"
  /\ IsIndex =>
       /\ call.pc # "session"
       /\ call.pc \in (Before \ {"start"}) \cup Running => Len(job.rows) <= job.max_rows
       /\ call.pc \in {"start", "encode"} => Counting
       /\ call.pc \in {"check", "configure", "relay", "native"} => Counted
       /\ call.pc = "build" => Building
       /\ Answered

-----------------------------------------------------------------------------
\* What the configuration gets as its deadline: none, or one that is long
\* enough, and zero only when the token's own deadline has passed.
LEMMA RemainingIsLong ==
  ASSUME Shape
  PROVE  Remaining \in Instants /\ Long(Remaining) /\ (Remaining = 0 => DeadlineExceeded /\ job.token)
<1>1. /\ job.expiry \in (Nat \ {0}) \cup {None} /\ job.deadline \in (Nat \ {0}) \cup {None}
      /\ now \in Nat /\ None \notin Nat /\ job.token \in BOOLEAN
      /\ ~ job.token => job.expiry = None
  BY JobsAssumption DEF Shape
<1> DEFINE left == IF job.expiry = None THEN {} ELSE {Max({0, job.expiry - now})}
           all == left \cup ({job.deadline} \ {None})
<1>2. Remaining = IF all = {} THEN None ELSE Min(all)
  BY DEF Remaining
<1>3. ASSUME job.expiry # None
      PROVE  Max({0, job.expiry - now}) = IF job.expiry >= now THEN job.expiry - now ELSE 0
  <2> DEFINE m == IF job.expiry >= now THEN job.expiry - now ELSE 0
             S == {0, job.expiry - now}
  <2>1. m \in S /\ \A y \in S : m >= y
    BY <1>1, <1>3
  <2>2. \A x \in S : (\A y \in S : x >= y) => x = m
    BY <1>1, <1>3
  <2> HIDE DEF m, S
  <2>3. Max(S) = m
    BY <2>1, <2>2 DEF Max
  <2> QED BY <2>3 DEF m, S
<1>4. ASSUME NEW S \in SUBSET Nat, NEW x \in S, NEW y \in S, S = {x, y}
      PROVE  Min(S) \in S
  <2>1. \E z \in S : \A w \in S : z <= w
    BY <1>4
  <2> QED BY <2>1, Zenon DEF Min
<1>5. CASE all = {}
  BY <1>1, <1>2, <1>5 DEF Instants, Long
<1>6. CASE all # {}
  <2>1. all \in SUBSET Nat
    BY <1>1, <1>3
  <2>2. \E x \in all, y \in all : all = {x, y}
    BY <1>6
  <2>3. Min(all) \in all
    BY <1>4, <2>1, <2>2, Zenon
  <2>4. Remaining \in all
    BY <1>2, <1>6, <2>3
  <2>5. CASE Remaining \in left
    BY <1>1, <1>3, <2>5 DEF Instants, Long, DeadlineExceeded
  <2>6. CASE Remaining = job.deadline /\ job.deadline # None
    BY <1>1, <2>6 DEF Instants, Long
  <2> QED BY <2>4, <2>5, <2>6
<1> QED BY <1>5, <1>6

-----------------------------------------------------------------------------
\* The parts of the assumption on jobs that the steps use.
LEMMA JobTypes ==
  ASSUME Shape
  PROVE  /\ job.stride \in Nat \ {0} /\ job.input \in Nat /\ job.token \in BOOLEAN
         /\ job.deadline \in Instants /\ job.expiry \in Instants /\ job.max_memory \in Instants
         /\ job.max_temporary \in Nat
         /\ IsIndex => job.rows \in Seq([tag : Nat, bytes : Nat])
         /\ now \in Nat /\ MaxTime \in Nat /\ None \notin Nat
         /\ Input \in Nat
BY JobsAssumption DEF Shape, IndexShape, Instants, IsIndex, Input

\* The work of one session call, whichever it is.
SessionCall == \E n \in Amounts : SessionStep(n) \/ SessionReserve(n) \/ SessionReserveTemporary(n)

\* One way to split Next.
LEMMA Steps ==
  ASSUME Next
  PROVE  \/ StartPartition \/ EncodeAxiom \/ EncodedAll \/ Check \/ Configure \/ EnterRelay \/ EnterNative
         \/ IndexRow \/ IndexEncode \/ Exit \/ Join \/ DecodePartition \/ SessionCall \/ SessionFinish
         \/ Poll \/ Look \/ Cancel \/ Tick \/ Interrupt \/ UNCHANGED vars
BY DEF Next, Caller, SessionWork, SessionCall, Relaying, Finished

\* The counters of a session are naturals.
LEMMA SessionFields ==
  ASSUME NEW s \in Session
  PROVE  /\ s.slack \in Nat /\ s.overrun \in Nat
         /\ s.used \in Nat /\ s.temporary \in Nat /\ s.persistent \in Nat
BY DEF Session

\* Counters of a session replaced by counters.
LEMMA SessionUpdates ==
  ASSUME NEW s \in Session, NEW a \in Nat, NEW b \in Nat
  PROVE  /\ [s EXCEPT !.slack = a, !.overrun = b] \in Session
         /\ [s EXCEPT !.temporary = a, !.used = b] \in Session
         /\ [s EXCEPT !.used = a, !.persistent = b] \in Session
BY Zenon DEF Session

\* What Session.step and the reservations return.
LEMMA SessionTypes ==
  ASSUME Shape, NEW n \in Nat
  PROVE  /\ Step(native, n).session \in Session
         /\ ReserveBytes(native, n) \in Session
         /\ ReserveTemporaryBytes(native, n).session \in Session
         /\ NewSession \in Session
         /\ ReserveBytes(NewSession, n) \in Session
         /\ Polled \in {"ok", "deadline", "OperationCancelled", "KeyboardInterrupt"}
<1>1. After(call.config) \in Instants
  BY JobTypes DEF Shape, Calls, After, Instants
<1>2. native \in Session /\ job.stride \in Nat /\ Input \in Nat
  BY JobTypes DEF Shape
<1>3. Step(native, n).session \in Session
  <2> DEFINE slack == IF native.slack > n THEN native.slack - n ELSE job.stride
             overrun == IF EndAskedFor THEN native.overrun + n ELSE 0
  <2>1. Step(native, n).session = [native EXCEPT !.slack = slack, !.overrun = overrun]
    BY DEF Step
  <2>2. slack \in Nat /\ overrun \in Nat
    BY <1>2, SessionFields
  <2> HIDE DEF slack, overrun
  <2>3. [native EXCEPT !.slack = slack, !.overrun = overrun] \in Session
    BY <1>2, <2>2, SessionUpdates, Zenon
  <2> QED BY <2>1, <2>3
<1>4. ReserveTemporaryBytes(native, n).session \in Session
  <2> DEFINE temporary == native.temporary + n
             used == native.used + n
  <2>1. \/ ReserveTemporaryBytes(native, n).session = native
        \/ ReserveTemporaryBytes(native, n).session = [native EXCEPT !.temporary = temporary, !.used = used]
    BY DEF ReserveTemporaryBytes
  <2>2. temporary \in Nat /\ used \in Nat
    BY <1>2, SessionFields
  <2> HIDE DEF temporary, used
  <2>3. [native EXCEPT !.temporary = temporary, !.used = used] \in Session
    BY <1>2, <2>2, SessionUpdates, Zenon
  <2> QED BY <1>2, <2>1, <2>3
<1>5. ASSUME NEW s \in Session
      PROVE  ReserveBytes(s, n) \in Session
  <2> DEFINE used == s.used + n
             persistent == s.persistent + n
  <2>1. ReserveBytes(s, n) = [s EXCEPT !.used = used, !.persistent = persistent]
    BY <1>5 DEF ReserveBytes
  <2>2. used \in Nat /\ persistent \in Nat
    BY SessionFields
  <2> HIDE DEF used, persistent
  <2>3. [s EXCEPT !.used = used, !.persistent = persistent] \in Session
    BY <2>2, SessionUpdates, Zenon
  <2> QED BY <2>1, <2>3
<1>6. NewSession \in Session
  BY <1>1, <1>2, Zenon DEF NewSession, Session
<1>7. Polled \in {"ok", "deadline", "OperationCancelled", "KeyboardInterrupt"}
  BY DEF Polled, Checkpoint
<1> QED BY <1>2, <1>3, <1>4, <1>5, <1>6, <1>7

\* What they leave alone and what they change.
LEMMA StepEffect ==
  ASSUME Shape, NEW n \in Nat
  PROVE  LET s == Step(native, n).session IN
         /\ Step(native, n).poll <=> native.slack <= n
         /\ s.slack = IF native.slack > n THEN native.slack - n ELSE job.stride
         /\ s.overrun = IF EndAskedFor THEN native.overrun + n ELSE 0
         /\ s.used = native.used /\ s.temporary = native.temporary /\ s.persistent = native.persistent
         /\ s.flag = native.flag /\ s.expires = native.expires /\ s.ends = native.ends
<1>1. native \in Session
  BY DEF Shape
<1> QED BY <1>1, Zenon DEF Step, Session

\* A reservation adds to the used and persistent bytes only.
LEMMA ReserveEffect ==
  ASSUME NEW s \in Session, NEW n \in Nat
  PROVE  LET r == ReserveBytes(s, n) IN
         /\ r.used = s.used + n /\ r.persistent = s.persistent + n /\ r.temporary = s.temporary
         /\ r.slack = s.slack /\ r.overrun = s.overrun
         /\ r.flag = s.flag /\ r.expires = s.expires /\ r.ends = s.ends
BY DEF ReserveBytes, Session

\* A temporary reservation either changes nothing or fits both budgets and adds to the temporary bytes.
LEMMA TemporaryEffect ==
  ASSUME Shape, NEW n \in Nat
  PROVE  LET r == ReserveTemporaryBytes(native, n) IN
         \/ r.session = native
         \/ /\ Fits(native, n) /\ ~ native.temporary + n > job.max_temporary
            /\ r.session.used = native.used + n /\ r.session.temporary = native.temporary + n
            /\ r.session.persistent = native.persistent
            /\ r.session.slack = native.slack /\ r.session.overrun = native.overrun
            /\ r.session.flag = native.flag
            /\ r.session.expires = native.expires /\ r.session.ends = native.ends
<1>1. native \in Session
  BY DEF Shape
<1> QED BY <1>1 DEF ReserveTemporaryBytes, Session

\* A new session starts with a full stride, the input charged, and the deadline of the call.
LEMMA NewSessionEffect ==
  ASSUME Shape
  PROVE  /\ NewSession.ends = After(call.config) /\ NewSession.slack = job.stride /\ NewSession.used = Input
         /\ NewSession.overrun = native.overrun /\ NewSession.temporary = native.temporary
         /\ NewSession.persistent = native.persistent
         /\ NewSession.flag = native.flag /\ NewSession.expires = native.expires
<1>1. native \in Session
  BY DEF Shape
<1> QED BY <1>1 DEF NewSession, Session

-----------------------------------------------------------------------------
\* Moving on changes the call's place only.
LEMMA GotoEffect ==
  ASSUME Shape, NEW p \in Places, Goto(p)
  PROVE  call' \in Calls /\ call'.pc = p /\ call'.outcome = call.outcome /\ call'.config = call.config
BY DEF Shape, Goto, Calls

\* Returning sets the call's place and its outcome.
LEMMA ReturnEffect ==
  ASSUME Shape, NEW p \in Places, NEW o \in Outcomes, Return(p, o)
  PROVE  call' \in Calls /\ call'.pc = p /\ call'.outcome = o /\ call'.config = call.config
BY Zenon DEF Shape, Return, Calls

\* Raising delivers a pending signal at most, and a KeyboardInterrupt always comes from one.
LEMMA RaiseEffect ==
  ASSUME Shape, NEW o, Raise(o)
  PROVE  /\ signal' \in {"none", "pending", "raised"}
         /\ signal = "raised" => signal' = "raised"
         /\ o = "KeyboardInterrupt" => signal' = "raised"
BY DEF Shape, Raise

\* A result never takes a negative number of bytes.
LEMMA ResultSize ==
  ASSUME Shape, IsIndex
  PROVE  ResultBytes(index.groups) \in Nat /\ 8 * Len(job.rows) \in Nat
<1>1. Cardinality(DOMAIN index.groups) \in Nat
  BY FS_CardinalityType DEF Shape, IndexShape
<1>2. Len(job.rows) \in Nat
  BY JobTypes
<1> QED BY <1>1, <1>2 DEF ResultBytes, Header

\* A row of the job is one of the rows it may have.
LEMMA RowType ==
  ASSUME NEW S, NEW rows \in Seq(S), NEW i \in Nat, i < Len(rows)
  PROVE  rows[i + 1] \in S
OBVIOUS

\* Indexing a row keeps the index well formed.
LEMMA IndexUpdate ==
  ASSUME NEW i, IndexShape(i), NEW n \in Nat, NEW g, IsFiniteSet(DOMAIN g)
  PROVE  IndexShape([i EXCEPT !.done = n, !.groups = g])
BY DEF IndexShape

\* The bytes counted for the next row are a natural.
LEMMA SourceType ==
  ASSUME Shape, call.pc = "encode", index.done < Len(job.rows)
  PROVE  index.source + 8 + job.rows[index.done + 1].bytes \in Nat /\ index.done + 1 \in Nat
<1>1. IsIndex /\ index.done \in Nat /\ index.source \in Nat
  BY DEF Shape, IndexShape
<1>2. job.rows[index.done + 1] \in [tag : Nat, bytes : Nat]
  BY <1>1, JobTypes, RowType, Zenon
<1> DEFINE bytes == job.rows[index.done + 1].bytes
<1>3. bytes \in Nat
  BY <1>2
<1> HIDE DEF bytes
<1>4. index.source + 8 + bytes \in Nat
  BY <1>1, <1>3
<1> QED BY <1>1, <1>4 DEF bytes

\* Every step keeps the call, the session, the index and the flags well formed.
LEMMA ShapeStep ==
  ASSUME Shape, [Next]_vars
  PROVE  Shape'
<1> USE DEF At, Places, Before, Running, Outcomes
<1>1. CASE StartPartition
  BY <1>1, GotoEffect, ReturnEffect DEF StartPartition, Shape, IsIndex
<1>2. CASE EncodeAxiom
  <2> DEFINE source == index.source + 8 + job.rows[index.done + 1].bytes
  <2>1. source \in Nat /\ index.done + 1 \in Nat
    BY <1>2, SourceType DEF EncodeAxiom
  <2> HIDE DEF source
  <2>2. IndexShape(index')
    <3>1. index' = index \/ index' = [index EXCEPT !.done = index.done + 1, !.source = source]
      BY <1>2 DEF EncodeAxiom, source
    <3> QED BY <2>1, <3>1, Zenon DEF Shape, IndexShape
  <2>3. call' \in Calls /\ (call'.pc = "done" \/ call' = call)
    BY <1>2, ReturnEffect DEF EncodeAxiom, Shape
  <2> QED BY <1>2, <2>2, <2>3 DEF EncodeAxiom, Shape, IsIndex
<1>3. CASE EncodedAll
  BY <1>3, GotoEffect DEF EncodedAll, Shape, IndexShape, IsIndex
<1>4. CASE Check
  BY <1>4, GotoEffect, ReturnEffect DEF Check, Shape, IsIndex
<1>5. CASE Configure
  <2>1. call' \in Calls /\ call'.pc \in {"done", "relay"}
    <3>1. CASE Remaining = 0
      BY <1>5, <3>1, ReturnEffect, Zenon DEF Configure
    <3>2. CASE Remaining # 0
      BY <1>5, <3>2, RemainingIsLong, Zenon DEF Configure, Shape, Calls
    <3> QED BY <3>1, <3>2
  <2> QED BY <1>5, <2>1 DEF Configure, Shape, IsIndex
<1>6. CASE EnterRelay
  <2>1. After(Remaining) \in Instants
    BY RemainingIsLong, JobTypes DEF After, Instants
  <2>2. native' \in Session
    BY <1>6, <2>1 DEF EnterRelay, Shape, Session
  <2>3. relay' \in [pc : {"none", "waiting", "looking", "ended"}, stop : BOOLEAN]
    BY <1>6 DEF EnterRelay, Shape
  <2>4. call' \in Calls /\ call'.pc \in {"done", "native"}
    BY <1>6, GotoEffect, ReturnEffect DEF EnterRelay
  <2> QED BY <1>6, <2>2, <2>3, <2>4 DEF EnterRelay, Shape, IsIndex
<1>7. CASE EnterNative
  <2>1. native' \in Session
    <3>1. CASE RefusesInput \/ ~ IsIndex
      BY <1>7, <3>1, SessionTypes DEF EnterNative, Shape
    <3>2. CASE ~ RefusesInput /\ IsIndex
      BY <1>7, <3>2, SessionTypes, ReserveEffect, ResultSize, Zenon DEF EnterNative, StartBuild
    <3> QED BY <3>1, <3>2
  <2>2. call' \in Calls /\ call'.pc \in {"exit", "session", "build"} /\ (call'.pc = "build" => IsIndex)
    BY <1>7, GotoEffect, ReturnEffect DEF EnterNative, StartBuild
  <2> QED BY <1>7, <2>1, <2>2 DEF EnterNative, Shape, IsIndex
<1>8. CASE IndexRow
  <2>1. native' \in Session
    BY <1>8, SessionTypes, Zenon DEF IndexRow
  <2>2. call' \in Calls /\ signal' \in {"none", "pending", "raised"} /\ (call'.pc = "exit" \/ call' = call)
    BY <1>8, SessionTypes, ReturnEffect, RaiseEffect DEF IndexRow, Shape
  <2>3. IndexShape(index')
    <3> DEFINE tag == job.rows[index.done + 1].tag
               groups == [t \in DOMAIN index.groups \cup {tag} |->
                            IF t = tag THEN Append(Posting(t), index.done) ELSE index.groups[t]]
    <3>1. index' = index \/ index' = [index EXCEPT !.done = index.done + 1, !.groups = groups]
      BY <1>8 DEF IndexRow
    <3>2. IsFiniteSet(DOMAIN groups)
      BY FS_AddElement, Zenon DEF Shape, IndexShape
    <3> HIDE DEF groups
    <3>3. IndexShape(index) /\ index.done + 1 \in Nat
      BY DEF Shape, IndexShape
    <3>4. IndexShape([index EXCEPT !.done = index.done + 1, !.groups = groups])
      BY <3>2, <3>3, IndexUpdate, Zenon
    <3> QED BY <3>1, <3>3, <3>4, Zenon
  <2> QED BY <1>8, <2>1, <2>2, <2>3 DEF IndexRow, Shape, IsIndex
<1>9. CASE IndexEncode
  <2>1. native' \in Session
    BY <1>9, SessionTypes, ReserveEffect, ResultSize DEF IndexEncode, Shape
  <2>2. call' \in Calls /\ signal' \in {"none", "pending", "raised"} /\ call'.pc = "exit"
    BY <1>9, SessionTypes, ReturnEffect, RaiseEffect DEF IndexEncode, Shape
  <2>3. IndexShape(index')
    BY <1>9 DEF IndexEncode, Shape, IndexShape
  <2> QED BY <1>9, <2>1, <2>2, <2>3 DEF IndexEncode, Shape, IsIndex
<1>10. CASE Exit
  <2>1. call' \in Calls /\ call'.pc \in {"join", "decode", "done"} /\ (call'.pc = "decode" => IsIndex)
    BY <1>10, GotoEffect DEF Exit, Leave
  <2>2. relay' \in [pc : {"none", "waiting", "looking", "ended"}, stop : BOOLEAN]
    BY <1>10, Zenon DEF Exit, Shape
  <2> QED BY <1>10, <2>1, <2>2 DEF Exit, Shape, IsIndex
<1>11. CASE Join
  <2>1. call' \in Calls /\ call'.pc \in {"decode", "done"} /\ (call'.pc = "decode" => IsIndex)
    BY <1>11, GotoEffect DEF Join, Leave
  <2> QED BY <1>11, <2>1 DEF Join, Shape, IsIndex
<1>12. CASE DecodePartition
  BY <1>12, GotoEffect, ReturnEffect DEF DecodePartition, Shape, IsIndex
<1>13. CASE SessionCall
  <2> PICK n \in Amounts : SessionStep(n) \/ SessionReserve(n) \/ SessionReserveTemporary(n)
    BY <1>13 DEF SessionCall
  <2>1. n \in Nat
    BY JobsAssumption
  <2>2. native' \in Session
    <3>1. CASE SessionStep(n)
      BY <2>1, <3>1, SessionTypes DEF SessionStep
    <3>2. CASE SessionReserve(n)
      BY <2>1, <3>2, SessionTypes, ReserveEffect, Zenon DEF SessionReserve, Shape
    <3>3. CASE SessionReserveTemporary(n)
      BY <2>1, <3>3, SessionTypes, Zenon DEF SessionReserveTemporary
    <3> QED BY <3>1, <3>2, <3>3
  <2>3. call' \in Calls /\ signal' \in {"none", "pending", "raised"} /\ (call'.pc = "exit" \/ call' = call)
    BY <2>1, SessionTypes, ReturnEffect, RaiseEffect, Zenon DEF SessionStep, SessionReserve, SessionReserveTemporary, Shape
  <2>4. UNCHANGED <<job, now, cancelled, relay, index>>
    BY Zenon DEF SessionStep, SessionReserve, SessionReserveTemporary
  <2> QED BY <2>2, <2>3, <2>4 DEF Shape, IsIndex
<1>14. CASE SessionFinish
  <2>1. Polled \in {"ok", "deadline", "OperationCancelled", "KeyboardInterrupt"}
    BY DEF Polled, Checkpoint
  <2> QED BY <1>14, <2>1, ReturnEffect, RaiseEffect DEF SessionFinish, Shape, IsIndex
<1>15. CASE Poll
  BY <1>15 DEF Poll, Shape, IsIndex
<1>16. CASE Look
  <2>1. native.flag \/ TokenCancelled \in BOOLEAN
    BY DEF TokenCancelled
  <2>2. native' \in Session
    BY <1>16, <2>1 DEF Look, Shape, Session
  <2> QED BY <1>16, <2>2 DEF Look, Shape, IsIndex
<1>17. CASE Cancel
  BY <1>17 DEF Cancel, Shape, IsIndex
<1>18. CASE Tick
  BY <1>18, JobTypes DEF Tick, Shape, IsIndex
<1>19. CASE Interrupt
  BY <1>19 DEF Interrupt, Shape, IsIndex
<1>20. CASE UNCHANGED vars
  BY <1>20, Zenon DEF vars, Shape, IsIndex
<1> QED BY Steps, <1>1, <1>2, <1>3, <1>4, <1>5, <1>6, <1>7, <1>8, <1>9, <1>10, <1>11, <1>12, <1>13, <1>14, <1>15,
           <1>16, <1>17, <1>18, <1>19, <1>20
-----------------------------------------------------------------------------
(* What each kind of step does to the counters and to the caller.             *)

\* The session counters of `native` do not move.
SameCounters ==
  /\ native'.slack = native.slack /\ native'.overrun = native.overrun
  /\ native'.used = native.used /\ native'.temporary = native.temporary
  /\ native'.persistent = native.persistent

\* Before native code: nothing is counted or charged.
LEMMA EarlySteps ==
  ASSUME Shape, StartPartition \/ EncodeAxiom \/ EncodedAll \/ Check \/ Configure \/ EnterRelay
  PROVE  /\ job' = job /\ SameCounters
         /\ call.pc \in Before /\ call'.pc \in Before \cup {"done"}
<1> USE GotoEffect, ReturnEffect DEF At, Places, Before, Running, Outcomes
<1>1. CASE StartPartition
  BY <1>1 DEF StartPartition, SameCounters
<1>2. CASE EncodeAxiom
  BY <1>2 DEF EncodeAxiom, SameCounters
<1>3. CASE EncodedAll
  BY <1>3 DEF EncodedAll, SameCounters
<1>4. CASE Check
  BY <1>4 DEF Check, SameCounters
<1>5. CASE Configure
  <2>1. call'.pc \in {"relay", "done"}
    BY <1>5, Zenon DEF Configure, Shape, Calls
  <2> QED BY <1>5, <2>1, Zenon DEF Configure, SameCounters
<1>6. CASE EnterRelay
  <2>1. native \in Session
    BY DEF Shape
  <2>2. SameCounters
    BY <1>6, <2>1 DEF EnterRelay, SameCounters, Session
  <2> QED BY <1>6, <2>2 DEF EnterRelay
<1> QED BY <1>1, <1>2, <1>3, <1>4, <1>5, <1>6, Zenon

\* After native code: the answer stands, unless the decoder rejects it.
LEMMA LateSteps ==
  ASSUME Shape, Exit \/ Join \/ DecodePartition
  PROVE  /\ UNCHANGED <<job, now, cancelled, signal, native, index>>
         /\ call.pc \notin Before \cup Running /\ call'.pc \notin Before \cup Running
         /\ call'.outcome \in {call.outcome, "BackendProtocolError"} /\ call'.config = call.config
<1> USE GotoEffect, ReturnEffect DEF At, Places, Before, Running, Outcomes
<1>1. CASE Exit
  BY <1>1 DEF Exit, Leave
<1>2. CASE Join
  BY <1>2 DEF Join, Leave
<1>3. CASE DecodePartition
  BY <1>3 DEF DecodePartition
<1> QED BY <1>1, <1>2, <1>3

\* The relay thread and the environment.
LEMMA OutsideSteps ==
  ASSUME Shape, Poll \/ Look \/ Cancel \/ Tick \/ Interrupt \/ UNCHANGED vars
  PROVE  /\ UNCHANGED <<job, call, index>> /\ SameCounters
         /\ native'.expires = native.expires /\ native'.ends = native.ends
         /\ now' \in Nat /\ now' >= now /\ (cancelled => cancelled')
         /\ signal = "raised" => signal' = "raised"
         /\ native'.flag => native.flag \/ TokenCancelled
<1>1. native \in Session /\ now \in Nat
  BY JobTypes DEF Shape
<1>2. CASE Look
  BY <1>1, <1>2 DEF Look, Session, SameCounters
<1>3. CASE Poll \/ Cancel \/ Tick \/ Interrupt \/ UNCHANGED vars
  BY <1>1, <1>3 DEF Poll, Cancel, Tick, Interrupt, vars, SameCounters
<1> QED BY <1>2, <1>3

\* Work in native code is counted by one call of Session.step.  The operation
\* goes on, or it leaves with what Guard found.
Worked(n) ==
  /\ call.pc \in Running /\ n \in Nat /\ native' = Step(native, n).session
  /\ UNCHANGED <<job, now, cancelled>> /\ index'.source = index.source
  /\ call'.config = call.config
  /\ \/ call' = call /\ signal' = signal /\ ~ (Step(native, n).poll /\ Polled # "ok")
     \/ call'.pc = "exit" /\ call'.outcome = Polled /\ Raise(Polled)

\* Indexing a row and a session's step work some number of units and poll when the stride is used up.
LEMMA WorkSteps ==
  ASSUME Shape, IndexRow \/ \E n \in Amounts : SessionStep(n)
  PROVE  \E k \in Nat : Worked(k)
<1> USE ReturnEffect DEF At, Places, Before, Running, Outcomes
<1>1. Polled \in {"ok", "deadline", "OperationCancelled", "KeyboardInterrupt"}
  BY DEF Polled, Checkpoint
<1>2. Amounts \subseteq Nat
  BY JobsAssumption
<1>3. CASE IndexRow
  <2>1. index'.source = index.source
    BY <1>3, Zenon DEF IndexRow, Shape, IndexShape
  <2>2. Worked(1)
    BY <1>1, <1>3, <2>1 DEF IndexRow, Worked
  <2> QED BY <2>2, Zenon
<1>4. ASSUME NEW n \in Amounts, SessionStep(n)
      PROVE  \E k \in Nat : Worked(k)
  BY <1>1, <1>2, <1>4 DEF SessionStep, Worked
<1> QED BY <1>3, <1>4, Zenon

\* Steps in native code that may charge the budgets: a reservation that fits is
\* charged in full, one that does not is not charged at all.
Reserved(n) ==
  /\ call.pc \in Running /\ n \in Nat
  /\ UNCHANGED <<job, now, cancelled>> /\ index'.source = index.source
  /\ native'.slack = native.slack /\ native'.overrun = native.overrun
  /\ native'.flag = native.flag /\ native'.expires = native.expires /\ native'.ends = native.ends
  /\ call'.config = call.config
  /\ \/ call' = call /\ signal' = signal
     \/ call'.pc = "exit" /\ call'.outcome = "limit" /\ signal' = signal
     \/ call'.pc = "exit" /\ call'.outcome = Polled /\ Raise(Polled)
  /\ \/ /\ native'.used = native.used /\ native'.temporary = native.temporary
        /\ native'.persistent = native.persistent
     \/ /\ Fits(native, n) /\ native'.used = native.used + n
        /\ \/ native'.temporary = native.temporary /\ native'.persistent = native.persistent + n
           \/ /\ native'.temporary = native.temporary + n /\ native'.persistent = native.persistent
              /\ ~ native.temporary + n > job.max_temporary

\* Finishing, encoding and the two reservations charge in full what fits, and nothing otherwise.
LEMMA ReserveSteps ==
  ASSUME Shape,
         \/ SessionFinish \/ IndexEncode
         \/ \E n \in Amounts : SessionReserve(n) \/ SessionReserveTemporary(n)
  PROVE  \E k \in Nat : Reserved(k)
<1> USE ReturnEffect DEF At, Places, Before, Running, Outcomes
<1>1. Polled \in {"ok", "deadline", "OperationCancelled", "KeyboardInterrupt"}
  BY Zenon DEF Polled, Checkpoint
<1>2. Amounts \subseteq Nat /\ native \in Session
  BY JobsAssumption DEF Shape
<1>3. ASSUME NEW n \in Amounts, SessionReserve(n)
      PROVE  \E k \in Nat : Reserved(k)
  <2>1. CASE ~ Fits(native, n)
    BY <1>2, <1>3, <2>1, Zenon DEF SessionReserve, Reserved
  <2>2. CASE Fits(native, n)
    BY <1>2, <1>3, <2>2, ReserveEffect DEF SessionReserve, Reserved
  <2> QED BY <2>1, <2>2, Zenon
<1>4. ASSUME NEW n \in Amounts, SessionReserveTemporary(n)
      PROVE  \E k \in Nat : Reserved(k)
  <2>1. UNCHANGED <<job, now, cancelled, signal, index>> /\ call.pc \in Running
    BY <1>4 DEF SessionReserveTemporary
  <2>2. call' = call \/ (call'.pc = "exit" /\ call'.outcome = "limit" /\ call'.config = call.config)
    BY <1>4 DEF SessionReserveTemporary
  <2>3. native' = ReserveTemporaryBytes(native, n).session
    BY <1>4, Zenon DEF SessionReserveTemporary
  <2>4. Reserved(n)
    BY <1>2, <2>1, <2>2, <2>3, TemporaryEffect, Zenon DEF Reserved
  <2> QED BY <1>2, <2>4
<1>5. CASE SessionFinish
  <2>1. Reserved(0)
    BY <1>1, <1>5, Zenon DEF SessionFinish, Reserved
  <2> QED BY <2>1, Zenon
<1>6. CASE IndexEncode
  <2> DEFINE size == ResultBytes(index.groups)
  <2>1. size \in Nat
    BY <1>6, ResultSize, Zenon DEF IndexEncode, Shape
  <2> HIDE DEF size
  <2>2. index'.source = index.source
    BY <1>6, Zenon DEF IndexEncode, Shape, IndexShape
  <2>3. CASE size > job.max_bytes \/ ~ Fits(native, size)
    <3>1. Reserved(0)
      BY <1>6, <2>3, Zenon DEF IndexEncode, Reserved, size
    <3> QED BY <3>1
  <2>4. CASE ~ (size > job.max_bytes \/ ~ Fits(native, size))
    <3>1. native' = ReserveBytes(native, size) /\ Fits(native, size)
      BY <1>6, <2>4, Zenon DEF IndexEncode, size
    <3>2. /\ UNCHANGED <<job, now, cancelled>> /\ call.pc \in Running
          /\ call'.pc = "exit" /\ call'.outcome = Polled /\ call'.config = call.config /\ Raise(Polled)
      BY <1>1, <1>6, <2>4, Zenon DEF IndexEncode, size
    <3>3. Reserved(size)
      BY <1>2, <2>1, <2>2, <3>1, <3>2, ReserveEffect, Zenon DEF Reserved
    <3> QED BY <2>1, <3>3
  <2> QED BY <2>3, <2>4, Zenon
<1> QED BY <1>3, <1>4, <1>5, <1>6
-----------------------------------------------------------------------------
(* The inductive invariants.                                                  *)

\* Guard finds nothing exactly when nobody has asked for an end.
LEMMA PolledIsAsked == Polled = "ok" <=> ~ EndAskedFor
BY DEF Polled, Checkpoint, EndAskedFor

\* Every step keeps the work done since the last poll within a stride.
LEMMA PacedStep ==
  ASSUME Shape, Paced, [Next]_vars
  PROVE  Paced'
<1> USE DEF Before, Running
<1>1. /\ native.slack \in Nat /\ native.overrun \in Nat /\ job.stride \in Nat \ {0}
      /\ native \in Session
  BY JobTypes, SessionFields DEF Shape
<1>2. CASE StartPartition \/ EncodeAxiom \/ EncodedAll \/ Check \/ Configure \/ EnterRelay
  BY <1>2, EarlySteps DEF Paced, SameCounters
<1>3. CASE EnterNative
  <2>1. job' = job /\ call.pc = "native" /\ native.overrun = 0
    BY <1>3, Zenon DEF EnterNative, Paced, At
  <2>2. call'.pc \in {"exit", "session", "build"}
    BY <1>3, GotoEffect, ReturnEffect DEF EnterNative, StartBuild, Places, Outcomes
  <2>3. \/ native' = native /\ call'.pc = "exit"
        \/ native'.slack = job.stride /\ native'.overrun = 0
    <3>1. NewSession.slack = job.stride /\ NewSession.overrun = 0 /\ NewSession \in Session
      BY <2>1, NewSessionEffect, SessionTypes, Zenon
    <3>2. CASE RefusesInput
      BY <1>3, <3>2, ReturnEffect DEF EnterNative, Places, Outcomes
    <3>3. CASE ~ RefusesInput /\ ~ IsIndex
      BY <1>3, <3>1, <3>3 DEF EnterNative
    <3>4. CASE ~ RefusesInput /\ IsIndex
      <4> DEFINE n == 8 * Len(job.rows)
      <4>1. n \in Nat
        BY <3>4, ResultSize
      <4>2. native' = NewSession \/ (Fits(NewSession, n) /\ native' = ReserveBytes(NewSession, n))
        BY <1>3, <3>4 DEF EnterNative, StartBuild
      <4> HIDE DEF n
      <4> QED BY <3>1, <4>1, <4>2, ReserveEffect
    <3> QED BY <3>2, <3>3, <3>4
  <2> QED BY <1>1, <2>1, <2>2, <2>3 DEF Paced
<1>4. CASE IndexRow \/ \E n \in Amounts : SessionStep(n)
  <2> PICK k \in Nat : Worked(k)
    BY <1>4, WorkSteps, Zenon
  <2>1. /\ job' = job /\ call.pc \in Running
        /\ native'.slack = IF native.slack > k THEN native.slack - k ELSE job.stride
        /\ native'.overrun = IF EndAskedFor THEN native.overrun + k ELSE 0
        /\ Step(native, k).poll <=> native.slack <= k
    BY StepEffect, Zenon DEF Worked
  <2>2. \/ call'.pc = "exit"
        \/ call'.pc = call.pc /\ (native.slack <= k => ~ EndAskedFor)
    BY <2>1, PolledIsAsked DEF Worked
  <2> QED BY <1>1, <2>1, <2>2 DEF Paced
<1>5. CASE SessionFinish \/ IndexEncode \/ \E n \in Amounts : SessionReserve(n) \/ SessionReserveTemporary(n)
  <2> PICK k \in Nat : Reserved(k)
    BY <1>5, ReserveSteps
  <2>1. /\ job' = job /\ call.pc \in Running /\ (call'.pc = "exit" \/ call'.pc = call.pc)
        /\ native'.slack = native.slack /\ native'.overrun = native.overrun
    BY DEF Reserved
  <2> QED BY <2>1 DEF Paced
<1>6. CASE Exit \/ Join \/ DecodePartition
  BY <1>6, LateSteps DEF Paced
<1>7. CASE Poll \/ Look \/ Cancel \/ Tick \/ Interrupt \/ UNCHANGED vars
  BY <1>7, OutsideSteps, Zenon DEF Paced, SameCounters
<1> QED BY Steps, <1>2, <1>3, <1>4, <1>5, <1>6, <1>7, Zenon DEF SessionCall

\* Every step keeps the bytes in use within the budgets of the job.
LEMMA BudgetedStep ==
  ASSUME Shape, Budgeted, [Next]_vars
  PROVE  Budgeted'
<1> USE DEF Before, Running
<1>1. /\ native.used \in Nat /\ native.temporary \in Nat /\ native.persistent \in Nat
      /\ job.max_temporary \in Nat /\ job.max_memory \in Instants /\ Input \in Nat /\ None \notin Nat
      /\ native \in Session
  BY JobTypes, SessionFields DEF Shape
<1>2. CASE StartPartition \/ EncodeAxiom \/ EncodedAll \/ Check \/ Configure \/ EnterRelay
  BY <1>2, EarlySteps DEF Budgeted, Charged, Uncharged, SameCounters
<1>3. CASE EnterNative
  <2>1. /\ UNCHANGED <<job, index>> /\ call.pc = "native"
        /\ native.used = 0 /\ native.temporary = 0 /\ native.persistent = 0
    BY <1>3, Zenon DEF EnterNative, Budgeted, Charged, Uncharged, At
  <2>2. call'.pc \in {"exit", "session", "build"} /\ Input' = Input
    BY <1>3, <2>1, GotoEffect, ReturnEffect DEF EnterNative, StartBuild, Places, Outcomes, Input, IsIndex
  <2>3. CASE RefusesInput
    <3>1. native' = native /\ call'.pc = "exit"
      BY <1>3, <2>3, ReturnEffect DEF EnterNative, Places, Outcomes
    <3> QED BY <2>1, <3>1, Zenon DEF Budgeted, Uncharged
  <2>4. CASE ~ RefusesInput
    <3>1. job.max_memory # None => Input <= job.max_memory
      BY <1>1, <2>4 DEF RefusesInput, Instants
    <3>2. /\ NewSession.used = Input /\ NewSession.temporary = 0 /\ NewSession.persistent = 0
          /\ NewSession \in Session
      BY <2>1, NewSessionEffect, SessionTypes
    <3>3. /\ native'.used = Input + native'.persistent /\ native'.temporary = 0 /\ native'.persistent \in Nat
          /\ job.max_memory # None => native'.used <= job.max_memory
      <4>1. CASE native' = NewSession
        BY <1>1, <3>1, <3>2, <4>1
      <4>2. CASE native' # NewSession
        <5> DEFINE n == 8 * Len(job.rows)
        <5>1. n \in Nat
          BY <1>3, <2>4, <4>2, ResultSize DEF EnterNative
        <5>2. Fits(NewSession, n) /\ native' = ReserveBytes(NewSession, n)
          BY <1>3, <2>4, <4>2, Zenon DEF EnterNative, StartBuild
        <5> HIDE DEF n
        <5>3. /\ Fits(NewSession, n) /\ native'.used = Input + n
              /\ native'.persistent = 0 + n /\ native'.temporary = 0
          BY <3>2, <5>1, <5>2, ReserveEffect
        <5> QED BY <1>1, <3>2, <5>1, <5>3 DEF Fits, Instants
      <4> QED BY <4>1, <4>2
    <3> QED BY <1>1, <2>1, <2>2, <3>3 DEF Budgeted, Charged
  <2> QED BY <2>3, <2>4
<1>4. CASE IndexRow \/ \E n \in Amounts : SessionStep(n)
  <2> PICK k \in Nat : Worked(k)
    BY <1>4, WorkSteps
  <2>1. /\ native'.used = native.used /\ native'.temporary = native.temporary
        /\ native'.persistent = native.persistent
    BY StepEffect DEF Worked
  <2>2. Input' = Input /\ job' = job /\ call.pc \in Running /\ (call'.pc = "exit" \/ call'.pc = call.pc)
    BY DEF Worked, Input, IsIndex
  <2> QED BY <2>1, <2>2, Zenon DEF Budgeted, Charged, Uncharged
<1>5. CASE SessionFinish \/ IndexEncode \/ \E n \in Amounts : SessionReserve(n) \/ SessionReserveTemporary(n)
  <2> PICK k \in Nat : Reserved(k)
    BY <1>5, ReserveSteps
  <2>1. Input' = Input /\ job' = job /\ call.pc \in Running /\ (call'.pc = "exit" \/ call'.pc = call.pc)
    BY DEF Reserved, Input, IsIndex
  <2>2. Charged
    BY <2>1 DEF Budgeted, Uncharged
  <2>3. /\ native'.used = Input + native'.temporary + native'.persistent
        /\ native'.temporary <= job.max_temporary
        /\ job.max_memory # None => native'.used <= job.max_memory
    BY <1>1, <2>2 DEF Charged, Reserved, Fits, Instants
  <2> QED BY <2>1, <2>3, Zenon DEF Budgeted, Charged
<1>6. CASE Exit \/ Join \/ DecodePartition
  BY <1>6, LateSteps, Zenon DEF Budgeted, Charged, Uncharged, Input, IsIndex
<1>7. CASE Poll \/ Look \/ Cancel \/ Tick \/ Interrupt \/ UNCHANGED vars
  BY <1>7, OutsideSteps DEF Budgeted, Charged, Uncharged, SameCounters, Input, IsIndex
<1> QED BY Steps, <1>2, <1>3, <1>4, <1>5, <1>6, <1>7 DEF SessionCall
\* A cause, once there, stays.
LEMMA CausesLast ==
  ASSUME Shape, job' = job, now' \in Nat, now' >= now, cancelled => cancelled'
  PROVE  /\ DeadlineExceeded => DeadlineExceeded'
         /\ TokenCancelled => TokenCancelled'
         /\ Passed(job.deadline) => Passed(job.deadline)'
         /\ \A i \in Instants : (Late(i) => Late(i)') /\ (Long(i) => Long(i)')
<1>1. job.expiry \in Instants /\ job.deadline \in Instants /\ now \in Nat /\ None \notin Nat
  BY JobTypes
<1>2. DeadlineExceeded => DeadlineExceeded'
  BY <1>1 DEF DeadlineExceeded, Instants
<1>3. TokenCancelled => TokenCancelled'
  BY <1>2 DEF TokenCancelled
<1>4. Passed(job.deadline) => Passed(job.deadline)'
  BY <1>1 DEF Passed, Instants
<1>5. ASSUME NEW i \in Instants
      PROVE  (Late(i) => Late(i)') /\ (Long(i) => Long(i)')
  BY <1>1 DEF Late, Long, Instants
<1> QED BY <1>2, <1>3, <1>4, <1>5, Zenon

\* Guard reports nothing that has not happened.
LEMMA PolledIsReal ==
  ASSUME Shape, Caused
  PROVE  /\ Polled \in {"ok", "deadline", "OperationCancelled", "KeyboardInterrupt"}
         /\ Polled = "OperationCancelled" => TokenCancelled
         /\ Polled = "deadline" => DeadlineExceeded \/ Passed(job.deadline)
<1>1. /\ job.expiry \in Instants /\ job.deadline \in Instants /\ now \in Nat /\ None \notin Nat
      /\ native.expires \in Instants /\ native.ends \in Instants
  BY JobTypes DEF Shape, Session
<1>2. ASSUME NEW i \in Instants, Late(i), Passed(i)
      PROVE  DeadlineExceeded \/ Passed(job.deadline)
  BY <1>1, <1>2 DEF Late, Passed, DeadlineExceeded, Instants
<1>3. Late(native.expires) /\ Late(native.ends) /\ (native.flag => TokenCancelled)
  BY DEF Caused
<1>4. Polled = "deadline" => Passed(native.expires) \/ Passed(native.ends)
  BY DEF Polled, Checkpoint
<1>5. Polled = "OperationCancelled" => native.flag
  BY DEF Polled, Checkpoint
<1>6. Polled \in {"ok", "deadline", "OperationCancelled", "KeyboardInterrupt"}
  BY DEF Polled, Checkpoint
<1> QED BY <1>1, <1>2, <1>3, <1>4, <1>5, <1>6, Zenon

\* A deadline that is long enough when it starts ends late enough.
LEMMA LongEndsLate ==
  ASSUME Shape, NEW d \in Instants, Long(d)
  PROVE  After(d) \in Instants /\ Late(After(d))
<1>1. job.expiry \in Instants /\ job.deadline \in Instants /\ now \in Nat /\ None \notin Nat
  BY JobTypes, Zenon
<1> QED BY <1>1 DEF Long, Late, After, Instants

\* An answer before native code: a limit, or the token's end.
LEMMA EarlyAnswers ==
  ASSUME Shape, Caused, StartPartition \/ EncodeAxiom \/ EncodedAll \/ Check \/ Configure \/ EnterRelay
  PROVE  /\ UNCHANGED <<job, now, cancelled, signal>>
         /\ native'.flag = native.flag /\ native'.ends = native.ends
         /\ native'.expires \in {native.expires, After(Remaining)}
         /\ call'.config \in {call.config, Remaining}
         /\ \/ call'.outcome = "none"
            \/ call'.pc = "done" /\ call'.outcome = "limit"
            \/ call'.pc = "done" /\ call'.outcome = "OperationCancelled" /\ TokenCancelled
            \/ call'.pc = "done" /\ call'.outcome = "ValueError" /\ TokenCancelled /\ DeadlineExceeded
<1> USE GotoEffect, ReturnEffect DEF At, Places, Before, Running, Outcomes
<1>1. call.pc \in Before => call.outcome = "none"
  BY DEF Caused
<1>2. Remaining = 0 => TokenCancelled /\ DeadlineExceeded
  BY RemainingIsLong, Zenon DEF TokenCancelled
<1>3. CASE StartPartition
  BY <1>1, <1>3, Zenon DEF StartPartition
<1>4. CASE EncodeAxiom
  BY <1>1, <1>4, Zenon DEF EncodeAxiom
<1>5. CASE EncodedAll
  BY <1>1, <1>5, Zenon DEF EncodedAll
<1>6. CASE Check
  BY <1>1, <1>6, Zenon DEF Check
<1>7. CASE Configure
  <2>1. CASE Remaining = 0
    BY <1>2, <1>7, <2>1 DEF Configure
  <2>2. CASE Remaining # 0
    <3>1. call' = [call EXCEPT !.pc = "relay", !.config = Remaining] /\ call.pc = "configure"
      BY <1>7, <2>2 DEF Configure
    <3>2. call'.config = Remaining /\ call'.outcome = call.outcome
      BY <3>1, Zenon DEF Shape, Calls
    <3> QED BY <1>1, <1>7, <3>1, <3>2, Zenon DEF Configure
  <2> QED BY <2>1, <2>2, Zenon
<1>8. CASE EnterRelay
  <2>1. CASE Remaining = 0
    BY <1>2, <1>8, <2>1, Zenon DEF EnterRelay
  <2>2. CASE Remaining # 0
    <3>1. native' = [native EXCEPT !.expires = After(Remaining)] /\ native \in Session
      BY <1>8, <2>2, Zenon DEF EnterRelay, Shape
    <3>2. native'.flag = native.flag /\ native'.ends = native.ends /\ native'.expires = After(Remaining)
      BY <3>1 DEF Session
    <3> QED BY <1>1, <1>8, <2>2, <3>2, Zenon DEF EnterRelay
  <2> QED BY <2>1, <2>2
<1> QED BY <1>3, <1>4, <1>5, <1>6, <1>7, <1>8, Zenon

\* Every step keeps each way of stopping behind the request or deadline it reports.
LEMMA CausedStep ==
  ASSUME Shape, Caused, [Next]_vars
  PROVE  Caused'
<1> USE DEF Before, Running
<1>1. /\ now \in Nat /\ native.expires \in Instants /\ native.ends \in Instants /\ call.config \in Instants
      /\ native \in Session
  BY JobTypes, Zenon DEF Shape, Session, Calls
<1>2. /\ native.flag => TokenCancelled
      /\ Late(native.expires) /\ Late(native.ends) /\ Long(call.config)
      /\ call.pc \in Before \cup Running => call.outcome = "none"
      /\ CauseIsReal
  BY DEF Caused
\* What every step but those of the clock, the token and the relay leaves alone.
<1> DEFINE Still == UNCHANGED <<job, now, cancelled>>
<1>3. ASSUME Still
      PROVE  /\ TokenCancelled' = TokenCancelled /\ DeadlineExceeded' = DeadlineExceeded
             /\ Passed(job.deadline)' = Passed(job.deadline)
             /\ \A i \in Instants : (Late(i) => Late(i)') /\ (Long(i) => Long(i)')
  <2>1. \A i \in Instants : (Late(i) => Late(i)') /\ (Long(i) => Long(i)')
    BY <1>1, <1>3, CausesLast
  <2> QED BY <1>3, <2>1 DEF TokenCancelled, DeadlineExceeded, Passed
<1>4. CASE StartPartition \/ EncodeAxiom \/ EncodedAll \/ Check \/ Configure \/ EnterRelay
  <2>1. Still /\ signal' = signal
    BY <1>4, EarlyAnswers, Zenon
  <2>2. /\ native'.expires \in Instants /\ native'.ends \in Instants /\ call'.config \in Instants
        /\ Late(native'.expires) /\ Late(native'.ends) /\ Long(call'.config)
    BY <1>1, <1>2, <1>4, EarlyAnswers, RemainingIsLong, LongEndsLate, Zenon
  <2>3. Late(native.expires)' /\ Late(native.ends)' /\ Long(call.config)'
    BY <2>1, <2>2, Zenon DEF Late, Long
  <2>4. CauseIsReal' /\ (call'.pc \in Before \cup Running => call'.outcome = "none")
    BY <1>3, <1>4, <2>1, EarlyAnswers, SMTT(20) DEF CauseIsReal
  <2>5. (native.flag => TokenCancelled)'
    BY <1>2, <1>3, <1>4, <2>1, EarlyAnswers, Zenon
  <2> QED BY <2>3, <2>4, <2>5 DEF Caused
<1>5. CASE EnterNative
  <2>1. Still /\ signal' = signal /\ call.pc = "native"
    BY <1>5, Zenon DEF EnterNative, At
  <2>2. /\ call'.outcome = IF call'.pc \in Running THEN "none" ELSE "limit"
        /\ call'.pc \in {"exit", "session", "build"} /\ call'.config = call.config
    BY <1>2, <1>5, <2>1, GotoEffect, ReturnEffect DEF EnterNative, StartBuild, Places, Outcomes
  <2>3. /\ NewSession.flag = native.flag /\ NewSession.expires = native.expires
        /\ NewSession.ends = After(call.config) /\ NewSession \in Session
    BY NewSessionEffect, SessionTypes
  <2>4. /\ native'.flag = native.flag /\ native'.expires = native.expires
        /\ native'.ends \in {native.ends, After(call.config)}
    <3>1. CASE native' = native \/ native' = NewSession
      BY <2>3, <3>1, Zenon
    <3>2. CASE native' # native /\ native' # NewSession
      <4> DEFINE n == 8 * Len(job.rows)
      <4>1. n \in Nat
        BY <1>5, <3>2, ResultSize DEF EnterNative
      <4>2. Fits(NewSession, n) /\ native' = ReserveBytes(NewSession, n)
        BY <1>5, <3>2, Zenon DEF EnterNative, StartBuild
      <4> HIDE DEF n
      <4> QED BY <2>3, <4>1, <4>2, ReserveEffect, Zenon
    <3> QED BY <3>1, <3>2
  <2>5. Late(native'.expires) /\ Late(native'.ends) /\ Long(call'.config)
    BY <1>1, <1>2, <2>2, <2>4, LongEndsLate, Zenon
  <2>6. Late(native.expires)' /\ Late(native.ends)' /\ Long(call.config)'
    BY <2>1, <2>5, Zenon DEF Late, Long
  <2> QED BY <1>2, <1>3, <2>1, <2>2, <2>4, <2>6 DEF Caused, CauseIsReal
<1>6. CASE \/ IndexRow \/ SessionFinish \/ IndexEncode
           \/ \E n \in Amounts : SessionStep(n) \/ SessionReserve(n) \/ SessionReserveTemporary(n)
  <2>1. /\ Still /\ call.pc \in Running /\ call'.config = call.config
        /\ native'.flag = native.flag /\ native'.expires = native.expires /\ native'.ends = native.ends
        /\ \/ call' = call /\ signal' = signal
           \/ call'.pc = "exit" /\ call'.outcome = "limit" /\ signal' = signal
           \/ call'.pc = "exit" /\ call'.outcome = Polled /\ Raise(Polled)
    <3>1. CASE IndexRow \/ \E n \in Amounts : SessionStep(n)
      <4> PICK k \in Nat : Worked(k)
        BY <3>1, WorkSteps
      <4>1. native'.flag = native.flag /\ native'.expires = native.expires /\ native'.ends = native.ends
        BY StepEffect, Zenon DEF Worked
      <4> QED BY <4>1, Zenon DEF Worked
    <3>2. CASE SessionFinish \/ IndexEncode \/ \E n \in Amounts : SessionReserve(n) \/ SessionReserveTemporary(n)
      <4> PICK k \in Nat : Reserved(k)
        BY <3>2, ReserveSteps
      <4> QED BY Zenon DEF Reserved
    <3> QED BY <1>6, <3>1, <3>2, Zenon
  <2>2. Late(native.expires)' /\ Late(native.ends)' /\ Long(call.config)'
    BY <1>2, <2>1, Zenon DEF Late, Long
  <2>3. (native.flag => TokenCancelled)'
    BY <1>2, <1>3, <2>1, Zenon
  <2>4. CASE call' = call /\ signal' = signal
    BY <1>2, <1>3, <2>1, <2>2, <2>3, <2>4, Zenon DEF Caused, CauseIsReal
  <2>5. CASE call'.pc = "exit" /\ call'.outcome = "limit"
    BY <2>2, <2>3, <2>5, Zenon DEF Caused, CauseIsReal
  <2>6. CASE call'.pc = "exit" /\ call'.outcome = Polled /\ Raise(Polled)
    <3>1. CauseIsReal'
      BY <1>3, <2>1, <2>6, PolledIsReal, RaiseEffect, SMTT(20) DEF CauseIsReal
    <3> QED BY <2>2, <2>3, <2>6, <3>1, Zenon DEF Caused
  <2> QED BY <2>1, <2>4, <2>5, <2>6, Zenon
<1>7. CASE Exit \/ Join \/ DecodePartition
  <2>1. /\ UNCHANGED <<job, now, cancelled, signal, native>>
        /\ call.pc \notin Before \cup Running /\ call'.pc \notin Before \cup Running
        /\ call'.outcome \in {call.outcome, "BackendProtocolError"} /\ call'.config = call.config
    BY <1>7, LateSteps, Zenon
  <2>2. Late(native.expires)' /\ Late(native.ends)' /\ Long(call.config)'
    BY <1>2, <2>1, Zenon DEF Late, Long
  <2> QED BY <1>2, <1>3, <2>1, <2>2, Zenon DEF Caused, CauseIsReal
<1>8. CASE Poll \/ Look \/ Cancel \/ Tick \/ Interrupt \/ UNCHANGED vars
  <2>1. /\ UNCHANGED <<job, call>> /\ now' \in Nat /\ now' >= now /\ (cancelled => cancelled')
        /\ native'.expires = native.expires /\ native'.ends = native.ends
        /\ signal = "raised" => signal' = "raised"
        /\ native'.flag => native.flag \/ TokenCancelled
    BY <1>8, OutsideSteps, Zenon
  <2>2. /\ DeadlineExceeded => DeadlineExceeded'
        /\ TokenCancelled => TokenCancelled'
        /\ Passed(job.deadline) => Passed(job.deadline)'
        /\ \A i \in Instants : (Late(i) => Late(i)') /\ (Long(i) => Long(i)')
    BY <2>1, CausesLast
  <2>3. Late(native.expires)' /\ Late(native.ends)'
    BY <1>2, <2>1, Zenon DEF Late
  <2>4. Long(call.config)'
    BY <1>1, <1>2, <2>1, JobTypes DEF Long, Instants
  <2> QED BY <1>2, <2>1, <2>2, <2>3, <2>4, Zenon DEF Caused, CauseIsReal
<1> QED BY Steps, <1>4, <1>5, <1>6, <1>7, <1>8, Zenon DEF SessionCall

-----------------------------------------------------------------------------
(* The bytes of a source, by induction on its rows.                           *)

\* A nonempty set of naturals has a least element.
LEMMA Least ==
  ASSUME NEW S \in SUBSET Nat, S # {}
  PROVE  \E x \in S : \A y \in S : x <= y
<1>1. PICK x \in S : \A y \in S : ~ (<<y, x>> \in OpToRel(<, Nat))
  BY WFMin, NatLessThanWellFounded, Zenon
<1>2. ASSUME NEW y \in S PROVE x <= y
  <2>1. ~ (<<y, x>> \in OpToRel(<, Nat))
    BY <1>1, Zenon
  <2>2. x \in Nat /\ y \in Nat
    OBVIOUS
  <2>3. ~ (y < x)
    BY <2>1, <2>2 DEF OpToRel
  <2> QED BY <2>2, <2>3
<1> QED BY <1>2, Zenon

\* A set that has m, and with every n < N from m on its successor, has all of m..N.
LEMMA Climb ==
  ASSUME NEW S, NEW m \in Nat, NEW N \in Nat, m \in S, \A n \in m..(N - 1) : n \in S => n + 1 \in S
  PROVE  m..N \subseteq S
<1> DEFINE bad == {n \in m..N : n \notin S}
<1> SUFFICES ASSUME bad # {} PROVE FALSE
  OBVIOUS
<1>1. PICK x \in bad : \A y \in bad : x <= y
  <2>1. bad \in SUBSET Nat
    OBVIOUS
  <2> HIDE DEF bad
  <2> QED BY <2>1, Least, Zenon
<1>2. x \in m..N /\ x \notin S /\ x # m
  OBVIOUS
<1>3. x - 1 \in m..(N - 1) /\ x - 1 \notin bad
  BY <1>1, <1>2
<1>4. x - 1 \in S
  BY <1>2, <1>3
<1>5. (x - 1) + 1 \in S
  BY <1>3, <1>4
<1> QED BY <1>2, <1>5

\* f counts the bytes of each row once.
Sums(f, b, N) ==
  /\ f[0] = Header /\ \A n \in 0..N : f[n] \in Nat
  /\ \A n \in 0..(N - 1) : f[n + 1] = f[n] + 8 + b[n + 1].bytes

\* The recursive definition of the source's bytes has a solution.
LEMMA SumsExist ==
  ASSUME NEW N \in Nat, NEW b, \A i \in 1..N : b[i].bytes \in Nat
  PROVE  \E g \in [0..N -> Nat] : Sums(g, b, N)
<1> DEFINE P(g, n) == g[0] = Header /\ \A i \in 0..(n - 1) : g[i + 1] = g[i] + 8 + b[i + 1].bytes
           S == {n \in Nat : \E g \in [0..n -> Nat] : P(g, n)}
<1>1. 0 \in S
  <2> DEFINE g == [i \in 0..0 |-> Header]
  <2>1. g \in [0..0 -> Nat] /\ P(g, 0)
    BY DEF Header
  <2> QED BY <2>1, Zenon
<1>2. ASSUME NEW n \in 0..(N - 1), n \in S PROVE n + 1 \in S
  <2>1. PICK g \in [0..n -> Nat] : P(g, n)
    BY <1>2, Zenon
  <2> DEFINE more == g[n] + 8 + b[n + 1].bytes
             h == [i \in 0..(n + 1) |-> IF i = n + 1 THEN more ELSE g[i]]
  <2>2. more \in Nat
    <3>1. b[n + 1].bytes \in Nat
      OBVIOUS
    <3>2. g[n] \in Nat
      OBVIOUS
    <3> QED BY <3>1, <3>2, SMTT(20)
  <2>3. h \in [0..(n + 1) -> Nat]
    <3> HIDE DEF more
    <3> QED BY <2>1, <2>2
  <2>4. h[0] = Header
    BY <2>1
  <2>5. ASSUME NEW i \in 0..((n + 1) - 1) PROVE h[i + 1] = h[i] + 8 + b[i + 1].bytes
    <3>1. CASE i = n
      BY <3>1
    <3>2. CASE i # n
      <4>1. i \in 0..(n - 1) /\ i \in 0..(n + 1) /\ i + 1 \in 0..(n + 1) /\ i # n + 1 /\ i + 1 # n + 1
        BY <3>2
      <4>2. h[i] = g[i] /\ h[i + 1] = g[i + 1]
        BY <4>1, Zenon
      <4> QED BY <2>1, <4>1, <4>2, Zenon
    <3> QED BY <3>1, <3>2, Zenon
  <2>6. P(h, n + 1)
    BY <2>4, <2>5, Zenon
  <2> HIDE DEF P, h
  <2>7. \E k \in [0..(n + 1) -> Nat] : P(k, n + 1)
    BY <2>3, <2>6, Zenon
  <2> QED BY <2>7
<1>3. N \in S
  <2> HIDE DEF S
  <2>1. 0..N \subseteq S
    BY <1>1, <1>2, Climb, Zenon
  <2> QED BY <2>1
<1>4. PICK g \in [0..N -> Nat] : P(g, N)
  BY <1>3, Zenon
<1>5. Sums(g, b, N)
  BY <1>4 DEF Sums
<1> QED BY <1>5

\* It is the sum of the sizes.
LEMMA SumsAre ==
  ASSUME NEW N \in Nat, NEW b, \A i \in 1..N : b[i].bytes \in Nat,
         NEW f, f = CHOOSE g : g = [n \in 0..N |-> IF n = 0 THEN Header ELSE g[n - 1] + 8 + b[n].bytes]
  PROVE  Sums(f, b, N)
<1> DEFINE R(g) == [n \in 0..N |-> IF n = 0 THEN Header ELSE g[n - 1] + 8 + b[n].bytes]
<1>1. PICK g \in [0..N -> Nat] : Sums(g, b, N)
  BY SumsExist, Zenon
<1>2. g = R(g)
  <2>1. ASSUME NEW n \in 0..N PROVE g[n] = IF n = 0 THEN Header ELSE g[n - 1] + 8 + b[n].bytes
    <3>1. CASE n = 0
      BY <1>1, <3>1 DEF Sums
    <3>2. CASE n # 0
      <4>1. n - 1 \in 0..(N - 1) /\ (n - 1) + 1 = n
        BY <3>2
      <4>2. g[(n - 1) + 1] = g[n - 1] + 8 + b[(n - 1) + 1].bytes
        BY <1>1, <4>1 DEF Sums
      <4> QED BY <3>2, <4>1, <4>2
    <3> QED BY <3>1, <3>2
  <2> QED BY <2>1, Zenon
<1>3. f = R(f)
  <2> HIDE DEF R
  <2>1. f = CHOOSE h : h = R(h)
    BY DEF R
  <2> QED BY <1>2, <2>1, Zenon
<1>4. ASSUME NEW n \in 0..N PROVE f[n] = IF n = 0 THEN Header ELSE f[n - 1] + 8 + b[n].bytes
  <2>1. R(f)[n] = IF n = 0 THEN Header ELSE f[n - 1] + 8 + b[n].bytes
    OBVIOUS
  <2> HIDE DEF R
  <2> QED BY <1>3, <2>1, Zenon
<1>5. ASSUME NEW n \in 0..(N - 1) PROVE f[n + 1] = f[n] + 8 + b[n + 1].bytes
  <2>1. n + 1 \in 0..N /\ n + 1 # 0 /\ (n + 1) - 1 = n
    OBVIOUS
  <2> QED BY <1>4, <2>1, Zenon
<1>6. f[0] = Header
  BY <1>4
<1>7. 0..N \subseteq {n \in 0..N : f[n] \in Nat}
  <2> DEFINE S == {n \in 0..N : f[n] \in Nat}
  <2>1. 0 \in S
    BY <1>6 DEF Header
  <2>2. ASSUME NEW n \in 0..(N - 1), n \in S PROVE n + 1 \in S
    <3>1. f[n] \in Nat /\ b[n + 1].bytes \in Nat /\ n + 1 \in 0..N
      BY <2>2, SMTT(20)
    <3> DEFINE x == f[n]
               y == b[n + 1].bytes
    <3>2. x \in Nat /\ y \in Nat
      BY <3>1
    <3> HIDE DEF x, y
    <3>3. x + 8 + y \in Nat
      BY <3>2, SMTT(20)
    <3> QED BY <1>5, <3>1, <3>3, Zenon DEF x, y
  <2> HIDE DEF S
  <2>3. 0 \in Nat
    OBVIOUS
  <2> QED BY <2>1, <2>2, <2>3, Climb, Zenon DEF S
<1> QED BY <1>5, <1>6, <1>7, Zenon DEF Sums

\* The bytes counted so far never pass those of the whole source.
LEMMA SumsGrow ==
  ASSUME NEW N \in Nat, NEW b, \A i \in 1..N : b[i].bytes \in Nat, NEW f, Sums(f, b, N), NEW m \in 0..N
  PROVE  f[m] <= f[N]
<1> DEFINE S == {n \in 0..N : f[m] <= f[n]}
<1>1. m \in S
  BY DEF Sums
<1>2. ASSUME NEW n \in m..(N - 1), n \in S PROVE n + 1 \in S
  <2>1. f[n] \in Nat /\ f[m] \in Nat /\ f[m] <= f[n] /\ n + 1 \in 0..N
    BY <1>2 DEF Sums
  <2>2. f[n + 1] = f[n] + 8 + b[n + 1].bytes /\ b[n + 1].bytes \in Nat
    BY DEF Sums
  <2>3. f[m] <= f[n] + 8 + b[n + 1].bytes
    BY <2>1, <2>2
  <2> QED BY <2>1, <2>2, <2>3, Zenon
<1>3. m..N \subseteq S
  <2> HIDE DEF S
  <2>1. m \in Nat
    OBVIOUS
  <2> QED BY <1>1, <1>2, <2>1, Climb, Zenon
<1> QED BY <1>3

\* An element of a sequence.
LEMMA ElementOf ==
  ASSUME NEW S, NEW s \in Seq(S), NEW i \in 1..Len(s)
  PROVE  s[i] \in S
OBVIOUS

\* A row of a sequence of rows.
LEMMA ElementType ==
  ASSUME NEW rows \in Seq([tag : Nat, bytes : Nat]), NEW i \in 1..Len(rows)
  PROVE  rows[i] \in [tag : Nat, bytes : Nat] /\ rows[i].bytes \in Nat /\ rows[i].tag \in Nat
<1>1. rows[i] \in [tag : Nat, bytes : Nat]
  BY ElementOf, Zenon
<1> QED BY <1>1

\* The bytes of the source of a partition.
LEMMA SourceAre ==
  ASSUME Shape, IsIndex
  PROVE  /\ Sums(SourceBytes, job.rows, Len(job.rows)) /\ Total \in Nat
         /\ \A n \in 0..Len(job.rows) : SourceBytes[n] <= Total
<1> DEFINE N == Len(job.rows)
           b == job.rows
<1>1. b \in Seq([tag : Nat, bytes : Nat]) /\ N \in Nat
  BY JobTypes
<1>2. \A i \in 1..N : b[i].bytes \in Nat
  BY <1>1, ElementType, Zenon
<1>3. SourceBytes = CHOOSE g : g = [n \in 0..N |-> IF n = 0 THEN Header ELSE g[n - 1] + 8 + b[n].bytes]
  BY Zenon DEF SourceBytes
<1> HIDE DEF N, b
<1>4. Sums(SourceBytes, b, N)
  BY <1>1, <1>2, <1>3, SumsAre, Zenon
<1>5. \A n \in 0..N : SourceBytes[n] <= SourceBytes[N]
  BY <1>1, <1>2, <1>4, SumsGrow, Zenon
<1>6. SourceBytes[N] \in Nat
  BY <1>1, <1>4 DEF Sums
<1> QED BY <1>4, <1>5, <1>6 DEF Total, N, b

-----------------------------------------------------------------------------
(* The groups in the order of their tags.                                     *)

\* s lists D by rising value.
Lists(s, D) ==
  /\ s \in [1..Cardinality(D) -> D] /\ \A x \in D : \E i \in 1..Cardinality(D) : s[i] = x
  /\ \A i, j \in 1..Cardinality(D) : i < j => s[i] < s[j]

\* A list without its least element, and with it again.
LEMMA ListMore ==
  ASSUME NEW D \in SUBSET Nat, IsFiniteSet(D), NEW m \in D, \A y \in D : m <= y,
         NEW s, Lists(s, D \ {m})
  PROVE  \E t : Lists(t, D)
<1> DEFINE E == D \ {m}
           c == Cardinality(E)
           t == [i \in 1..(c + 1) |-> IF i = 1 THEN m ELSE s[i - 1]]
<1>1. c \in Nat /\ Cardinality(D) = c + 1
  <2>1. Cardinality(E) = Cardinality(D) - 1 /\ IsFiniteSet(E)
    BY FS_RemoveElement
  <2>2. Cardinality(D) \in Nat /\ Cardinality(E) \in Nat
    BY <2>1, FS_CardinalityType, Zenon
  <2> QED BY <2>1, <2>2
<1> HIDE DEF c
<1>2. /\ s \in [1..c -> E] /\ (\A x \in E : \E i \in 1..c : s[i] = x)
      /\ \A i, j \in 1..c : i < j => s[i] < s[j]
  BY Zenon DEF Lists, c
<1>3. ASSUME NEW i \in 1..(c + 1), i # 1 PROVE i - 1 \in 1..c /\ s[i - 1] \in E /\ t[i] = s[i - 1]
  <2>1. i - 1 \in 1..c
    BY <1>1, <1>3
  <2>2. s[i - 1] \in E
    <3> HIDE DEF E
    <3> QED BY <1>2, <2>1
  <2>3. t[i] = s[i - 1]
    BY <1>3
  <2> QED BY <2>1, <2>2, <2>3
<1>4. t[1] = m /\ 1 \in 1..(c + 1)
  BY <1>1
<1>5. t \in [1..(c + 1) -> D]
  <2>1. ASSUME NEW i \in 1..(c + 1) PROVE t[i] \in D
    BY <1>3, <1>4
  <2>2. t = [i \in 1..(c + 1) |-> t[i]]
    OBVIOUS
  <2> HIDE DEF t
  <2> QED BY <2>1, <2>2, Zenon
<1>6. ASSUME NEW x \in D PROVE \E i \in 1..(c + 1) : t[i] = x
  <2>1. CASE x = m
    BY <1>4, <2>1
  <2>2. CASE x # m
    <3>1. PICK i \in 1..c : s[i] = x
      BY <1>2, <2>2, Zenon
    <3>2. i + 1 \in 1..(c + 1) /\ i + 1 # 1 /\ (i + 1) - 1 = i
      BY <1>1
    <3>3. t[i + 1] = x
      BY <3>1, <3>2, Zenon
    <3> HIDE DEF t
    <3> QED BY <3>2, <3>3
  <2> QED BY <2>1, <2>2, Zenon
<1>7. ASSUME NEW i \in 1..(c + 1), NEW j \in 1..(c + 1), i < j PROVE t[i] < t[j]
  <2>1. j # 1 /\ j - 1 \in 1..c /\ s[j - 1] \in E /\ t[j] = s[j - 1]
    <3>1. j # 1
      BY <1>7
    <3> HIDE DEF t, E
    <3> QED BY <1>3, <3>1
  <2>2. CASE i = 1
    <3>1. m \in Nat /\ s[j - 1] \in Nat /\ m <= s[j - 1] /\ m # s[j - 1]
      BY <2>1, Zenon
    <3>2. m < s[j - 1]
      BY <3>1
    <3> HIDE DEF t
    <3> QED BY <1>4, <2>1, <2>2, <3>2, Zenon
  <2>3. CASE i # 1
    <3>1. i - 1 \in 1..c /\ t[i] = s[i - 1]
      <4> HIDE DEF t, E
      <4> QED BY <1>3, <2>3
    <3>2. i - 1 < j - 1
      BY <1>7
    <3> HIDE DEF t, E
    <3> QED BY <1>2, <2>1, <3>1, <3>2
  <2> QED BY <2>2, <2>3, Zenon
<1>8. Lists(t, D)
  <2> HIDE DEF t
  <2> QED BY <1>1, <1>5, <1>6, <1>7, Zenon DEF Lists
<1> QED BY <1>8

\* A finite set of tags can be listed by rising tag: by induction on its size.
LEMMA Listed ==
  ASSUME NEW D \in SUBSET Nat, IsFiniteSet(D)
  PROVE  \E s : Lists(s, D)
<1> DEFINE Hard(S) == S \in SUBSET Nat /\ IsFiniteSet(S) /\ ~ \E s : Lists(s, S)
           sizes == {n \in Nat : \E S \in SUBSET Nat : Hard(S) /\ Cardinality(S) = n}
<1> SUFFICES ASSUME Hard(D) PROVE FALSE
  OBVIOUS
<1>1. sizes \in SUBSET Nat /\ Cardinality(D) \in sizes
  <2>1. Cardinality(D) \in Nat
    BY FS_CardinalityType, Zenon
  <2> HIDE DEF Hard
  <2> QED BY <2>1
<1>2. PICK c \in sizes : \A n \in sizes : c <= n
  <2> HIDE DEF sizes
  <2> QED BY <1>1, Least
<1>3. PICK S \in SUBSET Nat : Hard(S) /\ Cardinality(S) = c
  BY <1>2, Zenon
<1>4. S # {}
  <2> SUFFICES ASSUME S = {} PROVE FALSE
    OBVIOUS
  <2> DEFINE s == [i \in 1..0 |-> i]
  <2>1. Cardinality(S) = 0
    BY FS_EmptySet
  <2>2. s \in [1..0 -> S]
    OBVIOUS
  <2> HIDE DEF s
  <2>3. \A i \in 1..0 : FALSE
    OBVIOUS
  <2>4. Lists(s, S)
    BY <2>1, <2>2, <2>3, Zenon DEF Lists
  <2> QED BY <1>3, <2>4, Zenon
<1>5. PICK m \in S : \A y \in S : m <= y
  BY <1>4, Least, Zenon
<1> DEFINE E == S \ {m}
<1>6. E \in SUBSET Nat /\ IsFiniteSet(E) /\ Cardinality(E) = c - 1 /\ c \in Nat /\ Cardinality(E) \in Nat
  <2>1. IsFiniteSet(S)
    BY <1>3, Zenon
  <2>2. IsFiniteSet(E) /\ Cardinality(E) = Cardinality(S) - 1
    BY <2>1, FS_RemoveElement, Zenon
  <2>3. Cardinality(E) \in Nat
    BY <2>2, FS_CardinalityType, Zenon
  <2> QED BY <1>2, <1>3, <2>2, <2>3, Zenon
<1>7. ~ Hard(E)
  <2> SUFFICES ASSUME Hard(E) PROVE FALSE
    OBVIOUS
  <2>1. Cardinality(E) \in sizes
    <3> HIDE DEF Hard, E
    <3> QED BY <1>6
  <2>2. c <= c - 1
    <3> HIDE DEF sizes, E
    <3> QED BY <1>2, <1>6, <2>1
  <2> QED BY <1>6, <2>2
<1>8. PICK s : Lists(s, E)
  <2> HIDE DEF E
  <2> QED BY <1>6, <1>7, Zenon
<1>9. IsFiniteSet(S)
  BY <1>3
<1>10. \E t : Lists(t, S)
  BY <1>5, <1>8, <1>9, ListMore, Zenon
<1> QED BY <1>3, <1>10, Zenon

\* What encode writes: the groups by rising tag.
LEMMA Encodes ==
  ASSUME NEW groups, DOMAIN groups \in SUBSET Nat, IsFiniteSet(DOMAIN groups)
  PROVE  \E s : /\ Lists(s, DOMAIN groups)
                /\ Encode(groups) = [i \in 1..Cardinality(DOMAIN groups) |->
                                       [tag |-> s[i], ordinals |-> groups[s[i]]]]
<1> DEFINE D == DOMAIN groups
           C == 1..Cardinality(D)
           rank == [t \in D |-> t]
           Rising(s) == \A i, j \in DOMAIN s : i < j => rank[s[i]] < rank[s[j]]
           s == ByRank(rank)
<1>1. D \in SUBSET Nat /\ IsFiniteSet(D) /\ DOMAIN rank = D
  OBVIOUS
<1>2. PICK l : Lists(l, D)
  BY <1>1, Listed, Zenon
<1>3. l \in Bijection(C, D)
  <2>1. l \in [C -> D] /\ (\A x \in D : \E i \in C : l[i] = x) /\ \A i, j \in C : i < j => l[i] < l[j]
    BY <1>2, Zenon DEF Lists
  <2> HIDE DEF D
  <2>2. l \in Surjection(C, D)
    <3> HIDE DEF C
    <3> QED BY <2>1, Zenon DEF Surjection
  <2>3. ASSUME NEW i \in C, NEW j \in C, l[i] = l[j] PROVE i = j
    <3>1. i \in Nat /\ j \in Nat
      BY <1>1, FS_CardinalityType
    <3>2. l[i] \in Nat /\ l[j] \in Nat
      <4> HIDE DEF C
      <4> QED BY <1>1, <2>1, Zenon
    <3>3. ~ (i < j) /\ ~ (j < i)
      <4> HIDE DEF C
      <4> QED BY <2>1, <2>3, <3>2
    <3> QED BY <3>1, <3>3
  <2>4. l \in Injection(C, D)
    <3> HIDE DEF C
    <3> QED BY <2>1, <2>3 DEF Injection, IsInjective
  <2> QED BY <2>2, <2>4, Zenon DEF Bijection
<1>4. Rising(l)
  <2>1. DOMAIN l = C /\ \A i \in C : rank[l[i]] = l[i]
    BY <1>2 DEF Lists
  <2>2. \A i, j \in C : i < j => l[i] < l[j]
    BY <1>2, Zenon DEF Lists
  <2> HIDE DEF C, rank
  <2> QED BY <2>1, <2>2, Zenon
<1>5. s = CHOOSE x \in Bijection(C, D) : Rising(x)
  BY Zenon DEF ByRank
<1>6. s \in Bijection(C, D) /\ Rising(s)
  <2> HIDE DEF s, Rising, C, D
  <2> QED BY <1>3, <1>4, <1>5, Zenon
<1> HIDE DEF s
<1>7. s \in Injection(C, D) /\ s \in Surjection(C, D)
  <2> HIDE DEF C, D
  <2> QED BY <1>6, Zenon DEF Bijection
<1>8. s \in [C -> D] /\ \A x \in D : \E i \in C : s[i] = x
  <2> HIDE DEF C, D
  <2> QED BY <1>7, Zenon DEF Surjection
<1>9. \A i, j \in C : i < j => s[i] < s[j]
  <2>1. DOMAIN s = C /\ \A i \in C : s[i] \in D
    <3> HIDE DEF C, D
    <3> QED BY <1>8
  <2>2. \A i \in C : rank[s[i]] = s[i]
    BY <2>1, Zenon
  <2> HIDE DEF C, rank, D
  <2> QED BY <1>6, <2>1, <2>2
<1>10. Lists(s, D)
  <2> HIDE DEF D
  <2> QED BY <1>8, <1>9, Zenon DEF Lists
<1>11. Encode(groups) = [i \in DOMAIN s |-> [tag |-> s[i], ordinals |-> groups[s[i]]]]
  BY Zenon DEF Encode, Encoded, s
<1>12. DOMAIN s = C
  <2> HIDE DEF C, D
  <2> QED BY <1>8
<1> QED BY <1>10, <1>11, <1>12, Zenon

-----------------------------------------------------------------------------
(* Postings, row by row.                                                      *)

\* A rising posting stays one when a later ordinal is appended.
LEMMA AppendRises ==
  ASSUME NEW p \in Seq(Nat), Ascending(p), NEW n \in Nat, \A x \in Range(p) : x < n
  PROVE  /\ Append(p, n) \in Seq(Nat) /\ Ascending(Append(p, n))
         /\ Range(Append(p, n)) = Range(p) \cup {n}
<1> DEFINE q == Append(p, n)
           l == Len(p)
<1>1. l \in Nat /\ DOMAIN p = 1..l
  OBVIOUS
<1>2. q \in Seq(Nat) /\ Len(q) = l + 1 /\ DOMAIN q = 1..(l + 1)
  OBVIOUS
<1>3. q[l + 1] = n /\ \A i \in 1..l : q[i] = p[i]
  OBVIOUS
<1>4. \A i \in 1..l : p[i] < n
  BY <1>1 DEF Range
<1>5. \A i, j \in 1..l : i < j => p[i] < p[j]
  BY <1>1, Zenon DEF Ascending
<1> HIDE DEF q, l
<1>6. ASSUME NEW i \in 1..(l + 1), NEW j \in 1..(l + 1), i < j PROVE q[i] < q[j]
  <2>1. i \in 1..l
    BY <1>1, <1>6
  <2>2. CASE j = l + 1
    BY <1>3, <1>4, <2>1, <2>2, Zenon
  <2>3. CASE j # l + 1
    <3>1. j \in 1..l
      BY <1>1, <2>3
    <3> QED BY <1>3, <1>5, <1>6, <2>1, <3>1, Zenon
  <2> QED BY <2>2, <2>3
<1>7. Ascending(q)
  BY <1>2, <1>6, Zenon DEF Ascending
<1>8. \A i : i \in 1..(l + 1) <=> i \in 1..l \/ i = l + 1
  BY <1>1
<1>9. \A x : x \in Range(q) <=> x \in Range(p) \/ x = n
  BY <1>1, <1>2, <1>3, <1>8, Zenon DEF Range
<1> QED BY <1>2, <1>7, <1>9 DEF q

\* The rows before the next one, and that one.
LEMMA RowsMore ==
  ASSUME NEW n \in Nat, NEW t
  PROVE  /\ \A x : x \in RowsBefore(t, n) <=> \E i \in 1..n : job.rows[i].tag = t /\ x = i - 1
         /\ RowsBefore(t, n + 1) = IF job.rows[n + 1].tag = t THEN RowsBefore(t, n) \cup {n} ELSE RowsBefore(t, n)
         /\ \A x \in RowsBefore(t, n) : x < n
<1>1. ASSUME NEW m PROVE \A x : x \in RowsBefore(t, m) <=> \E i \in 1..m : job.rows[i].tag = t /\ x = i - 1
  BY DEF RowsBefore
<1>2. \A i : i \in 1..(n + 1) <=> i \in 1..n \/ i = n + 1
  OBVIOUS
<1>3. (n + 1) - 1 = n
  OBVIOUS
<1>4. \A x : x \in RowsBefore(t, n + 1) <=> x \in RowsBefore(t, n) \/ (job.rows[n + 1].tag = t /\ x = n)
  <2>1. ASSUME NEW x, x \in RowsBefore(t, n + 1)
        PROVE  x \in RowsBefore(t, n) \/ (job.rows[n + 1].tag = t /\ x = n)
    <3>1. PICK i \in 1..(n + 1) : job.rows[i].tag = t /\ x = i - 1
      BY <1>1, <2>1, Zenon
    <3>2. CASE i = n + 1
      BY <1>3, <3>1, <3>2, Zenon
    <3>3. CASE i # n + 1
      BY <1>1, <1>2, <3>1, <3>3, Zenon
    <3> QED BY <3>2, <3>3
  <2>2. ASSUME NEW x, x \in RowsBefore(t, n) PROVE x \in RowsBefore(t, n + 1)
    <3>1. PICK i \in 1..n : job.rows[i].tag = t /\ x = i - 1
      BY <1>1, <2>2, Zenon
    <3> QED BY <1>1, <1>2, <3>1, Zenon
  <2>3. ASSUME job.rows[n + 1].tag = t PROVE n \in RowsBefore(t, n + 1)
    <3>1. n + 1 \in 1..(n + 1)
      OBVIOUS
    <3> QED BY <1>1, <1>3, <2>3, <3>1, Zenon
  <2> QED BY <2>1, <2>2, <2>3, Zenon
<1>5. \A x \in RowsBefore(t, n) : x < n
  BY <1>1
<1>6. CASE job.rows[n + 1].tag = t
  BY <1>1, <1>4, <1>5, <1>6, Zenon
<1>7. CASE job.rows[n + 1].tag # t
  BY <1>1, <1>4, <1>5, <1>7, Zenon
<1> QED BY <1>6, <1>7, Zenon

\* Indexing the next row groups one row more.
LEMMA GroupedMore ==
  ASSUME NEW n \in Nat, NEW g, Grouped(g, n), NEW h, NEW tag, tag = job.rows[n + 1].tag,
         h = [t \in DOMAIN g \cup {tag} |->
                IF t = tag THEN Append(IF t \in DOMAIN g THEN g[t] ELSE <<>>, n) ELSE g[t]]
  PROVE  Grouped(h, n + 1)
<1> DEFINE p == IF tag \in DOMAIN g THEN g[tag] ELSE <<>>
<1>1. DOMAIN h = DOMAIN g \cup {tag} /\ tag \in DOMAIN h
  OBVIOUS
<1>2. DOMAIN h = {job.rows[i].tag : i \in 1..(n + 1)}
  <2>1. DOMAIN g = {job.rows[i].tag : i \in 1..n}
    BY Zenon DEF Grouped
  <2>2. \A i : i \in 1..(n + 1) <=> i \in 1..n \/ i = n + 1
    BY SMTT(20)
  <2> QED BY <1>1, <2>1, <2>2, Zenon
<1>3. h[tag] = Append(p, n) /\ \A t \in DOMAIN g : t # tag => h[t] = g[t]
  BY Zenon
<1>4. p \in Seq(Nat) /\ Ascending(p) /\ Range(p) = RowsBefore(tag, n)
  <2>1. CASE tag \in DOMAIN g
    BY <2>1, Zenon DEF Grouped
  <2>2. CASE tag \notin DOMAIN g
    <3>1. p = <<>> /\ DOMAIN p = {} /\ p \in Seq(Nat)
      BY <2>2, SMTT(20)
    <3>2. \A i \in 1..n : job.rows[i].tag # tag
      BY <2>2 DEF Grouped
    <3> HIDE DEF p
    <3>3. Ascending(p)
      BY <3>1, Zenon DEF Ascending
    <3>4. Range(p) = {}
      BY <3>1, Zenon DEF Range
    <3>5. RowsBefore(tag, n) = {}
      BY <3>2 DEF RowsBefore
    <3> QED BY <3>1, <3>3, <3>4, <3>5
  <2> QED BY <2>1, <2>2, Zenon
<1> HIDE DEF p
<1>5. \A x \in Range(p) : x < n
  <2>1. \A x \in RowsBefore(tag, n) : x < n
    BY RowsMore, Zenon
  <2> QED BY <1>4, <2>1, Zenon
<1>6. /\ h[tag] \in Seq(Nat) /\ Ascending(h[tag])
      /\ Range(h[tag]) = RowsBefore(tag, n + 1)
  <2>1. RowsBefore(tag, n + 1) = RowsBefore(tag, n) \cup {n}
    BY RowsMore, Zenon
  <2> QED BY <1>3, <1>4, <1>5, <2>1, AppendRises, ZenonT(40), SMTT(30)
<1>7. ASSUME NEW t \in DOMAIN g, t # tag
      PROVE  /\ h[t] \in Seq(Nat) /\ Ascending(h[t])
             /\ Range(h[t]) = RowsBefore(t, n + 1)
  <2>1. RowsBefore(t, n + 1) = RowsBefore(t, n)
    BY <1>7, RowsMore, Zenon
  <2>2. g[t] \in Seq(Nat) /\ Ascending(g[t]) /\ Range(g[t]) = RowsBefore(t, n)
    BY DEF Grouped
  <2>3. h[t] = g[t]
    BY <1>3, <1>7
  <2> QED BY <2>1, <2>2, <2>3, Zenon
<1> QED BY <1>1, <1>2, <1>6, <1>7, Zenon DEF Grouped

\* The tags of the rows are naturals, and no more than there are rows.
LEMMA TagsType ==
  ASSUME Shape, IsIndex
  PROVE  /\ Tags \in SUBSET Nat /\ IsFiniteSet(Tags) /\ Cardinality(Tags) \in Nat
         /\ Cardinality(Tags) <= Len(job.rows) /\ Len(job.rows) \in Nat
         /\ Tags = {job.rows[i].tag : i \in 1..Len(job.rows)}
         /\ \A t : RowsOf(t) = RowsBefore(t, Len(job.rows))
<1> DEFINE N == Len(job.rows)
           f == [i \in 1..N |-> job.rows[i].tag]
<1>1. job.rows \in Seq([tag : Nat, bytes : Nat]) /\ N \in Nat /\ DOMAIN job.rows = 1..N
  <2>1. job.rows \in Seq([tag : Nat, bytes : Nat])
    BY JobTypes, Zenon
  <2> QED BY <2>1
<1>2. \A i \in 1..N : job.rows[i].tag \in Nat
  BY <1>1, ElementType
<1>3. Tags = {job.rows[i].tag : i \in 1..N}
  BY <1>1, Zenon DEF Tags
<1>4. Tags \in SUBSET Nat
  BY <1>2, <1>3
<1>5. \A t : RowsOf(t) = RowsBefore(t, N)
  BY <1>1, Zenon DEF RowsOf, RowsBefore
<1> HIDE DEF N
<1>6. f \in Surjection(1..N, Tags)
  <2>1. f \in [1..N -> Tags] /\ \A t \in Tags : \E i \in 1..N : f[i] = t
    BY <1>3, Zenon
  <2> HIDE DEF f
  <2> QED BY <2>1, Zenon DEF Surjection
<1>7. IsFiniteSet(1..N) /\ Cardinality(1..N) = N
  BY <1>1, FS_Interval
<1>8. IsFiniteSet(Tags) /\ Cardinality(Tags) <= N
  <2> HIDE DEF f
  <2> QED BY <1>6, <1>7, FS_Surjection
<1>9. Cardinality(Tags) \in Nat
  BY <1>8, FS_CardinalityType
<1> QED BY <1>1, <1>3, <1>4, <1>5, <1>8, <1>9, Zenon DEF N

\* The postings of all rows, encoded, are a partition that the decoder accepts.
LEMMA EncodedAccepted ==
  ASSUME Shape, IsIndex, NEW g, Grouped(g, Len(job.rows))
  PROVE  Partitioned(Encode(g)) /\ Canonical(Encode(g)) /\ DOMAIN g = Tags
<1> DEFINE N == Len(job.rows)
           c == Cardinality(Tags)
           result == Encode(g)
<1>1. /\ Tags \in SUBSET Nat /\ IsFiniteSet(Tags) /\ c \in Nat /\ c <= N /\ N \in Nat
      /\ Tags = {job.rows[i].tag : i \in 1..N} /\ \A t : RowsOf(t) = RowsBefore(t, N)
  BY TagsType, Zenon
<1>2. DOMAIN g = Tags
  BY <1>1 DEF Grouped
<1>3. ASSUME NEW t \in Tags
      PROVE  g[t] \in Seq(Nat) /\ Ascending(g[t]) /\ Range(g[t]) = RowsBefore(t, N)
  BY <1>2, Zenon DEF Grouped
<1>4. PICK s : /\ Lists(s, Tags)
               /\ result = [i \in 1..c |-> [tag |-> s[i], ordinals |-> g[s[i]]]]
  <2>1. DOMAIN g \in SUBSET Nat /\ IsFiniteSet(DOMAIN g)
    BY <1>1, <1>2
  <2>2. PICK s : /\ Lists(s, DOMAIN g)
                 /\ Encode(g) = [i \in 1..Cardinality(DOMAIN g) |-> [tag |-> s[i], ordinals |-> g[s[i]]]]
    BY <2>1, Encodes, Zenon
  <2>3. Lists(s, Tags)
    BY <1>2, <2>2, Zenon
  <2>4. result = [i \in 1..c |-> [tag |-> s[i], ordinals |-> g[s[i]]]]
    BY <1>2, <2>2, Zenon
  <2> HIDE DEF result, c
  <2> QED BY <2>3, <2>4, Zenon
<1> HIDE DEF N, c, result
<1>5. ASSUME NEW t, NEW x
       PROVE  x \in RowsBefore(t, N) <=> \E i \in 1..N : job.rows[i].tag = t /\ x = i - 1
  BY DEF RowsBefore
<1>6. /\ s \in [1..c -> Tags] /\ (\A x \in Tags : \E i \in 1..c : s[i] = x)
      /\ \A i, j \in 1..c : i < j => s[i] < s[j]
  BY <1>4, Zenon DEF Lists, c
<1>7. DOMAIN result = 1..c /\ Len(result) = c
  BY <1>1, <1>4, SMTT(20)
<1>8. ASSUME NEW i \in 1..c
      PROVE  result[i].tag = s[i] /\ result[i].ordinals = g[s[i]] /\ s[i] \in Tags
  BY <1>4, <1>6
<1>9. Partitioned(result)
  <2>1. {result[i].tag : i \in DOMAIN result} = Tags
    <3>1. \A i \in DOMAIN result : result[i].tag \in Tags
      BY <1>7, <1>8, Zenon
    <3>2. \A x \in Tags : \E i \in DOMAIN result : result[i].tag = x
      <4> SUFFICES ASSUME NEW x \in Tags PROVE \E i \in DOMAIN result : result[i].tag = x
        OBVIOUS
      <4>1. PICK i \in 1..c : s[i] = x
        BY <1>6, Zenon
      <4>2. i \in DOMAIN result /\ result[i].tag = x
        BY <1>7, <1>8, <4>1, Zenon
      <4> QED BY <4>2, Zenon
    <3> QED BY <3>1, <3>2, Zenon
  <2>2. ASSUME NEW i \in DOMAIN result
        PROVE  Ascending(result[i].ordinals) /\ Range(result[i].ordinals) = RowsOf(result[i].tag)
    BY <1>1, <1>3, <1>7, <1>8, Zenon
  <2> QED BY <1>7, <2>1, <2>2, Zenon DEF Partitioned, c
<1>10. ASSUME NEW i \in 1..c
      PROVE  /\ i > 1 => result[i - 1].tag < result[i].tag
             /\ Len(result[i].ordinals) >= 1
             /\ \A k \in DOMAIN result[i].ordinals :
                  /\ k > 1 => result[i].ordinals[k - 1] < result[i].ordinals[k]
                  /\ result[i].ordinals[k] < N /\ job.rows[result[i].ordinals[k] + 1].tag = result[i].tag
  <2> DEFINE o == g[s[i]]
             t == s[i]
  <2>1. result[i].ordinals = o /\ result[i].tag = t /\ t \in Tags
    BY <1>8, Zenon
  <2>2. o \in Seq(Nat) /\ Ascending(o) /\ Range(o) = RowsBefore(t, N)
    BY <1>3, <2>1, Zenon
  <2>3. i > 1 => result[i - 1].tag < result[i].tag
    <3>1. i > 1 => i - 1 \in 1..c /\ i - 1 < i
      BY <1>1
    <3> QED BY <1>6, <1>8, <3>1, Zenon
  <2> HIDE DEF o, t
  <2>4. Len(o) \in Nat /\ DOMAIN o = 1..Len(o)
    BY <2>2
  <2>5. Len(o) >= 1
    <3>1. PICK k \in 1..N : job.rows[k].tag = t
      BY <1>1, <2>1
    <3>2. k - 1 \in RowsBefore(t, N)
      BY <1>5, <3>1, Zenon
    <3>3. DOMAIN o # {}
      BY <2>2, <3>2 DEF Range
    <3> QED BY <2>4, <3>3
  <2>6. ASSUME NEW k \in DOMAIN o
        PROVE  /\ k > 1 => o[k - 1] < o[k]
               /\ o[k] < N /\ job.rows[o[k] + 1].tag = t
    <3>1. k > 1 => k - 1 \in DOMAIN o /\ k - 1 < k
      BY <2>4
    <3>2. k > 1 => o[k - 1] < o[k]
      BY <2>2, <3>1, Zenon DEF Ascending
    <3>3. o[k] \in RowsBefore(t, N)
      BY <2>2, Zenon DEF Range
    <3>4. PICK j \in 1..N : job.rows[j].tag = t /\ o[k] = j - 1
      BY <1>5, <3>3, Zenon
    <3>5. (j - 1) + 1 = j /\ j - 1 < N
      BY <1>1
    <3> QED BY <3>2, <3>4, <3>5, Zenon
  <2> QED BY <2>1, <2>3, <2>5, <2>6, Zenon
<1>11. UNION {Range(result[i].ordinals) : i \in DOMAIN result} = 0..(N - 1)
  <2>1. ASSUME NEW i \in DOMAIN result, NEW x \in Range(result[i].ordinals) PROVE x \in 0..(N - 1)
    <3>1. x \in RowsBefore(s[i], N)
      BY <1>3, <1>7, <1>8, Zenon
    <3>2. PICK j \in 1..N : x = j - 1
      BY <1>5, <3>1, Zenon
    <3> QED BY <1>1, <3>2
  <2>2. ASSUME NEW x \in 0..(N - 1) PROVE \E i \in DOMAIN result : x \in Range(result[i].ordinals)
    <3>1. x + 1 \in 1..N /\ (x + 1) - 1 = x
      BY <1>1
    <3>2. job.rows[x + 1].tag \in Tags
      BY <1>1, <3>1
    <3>3. PICK i \in 1..c : s[i] = job.rows[x + 1].tag
      BY <1>6, <3>2, Zenon
    <3>4. x \in RowsBefore(s[i], N)
      BY <1>5, <3>1, <3>3, Zenon
    <3>5. x \in Range(result[i].ordinals)
      BY <1>3, <1>8, <3>4, Zenon
    <3> QED BY <1>7, <3>5, Zenon
  <2> QED BY <2>1, <2>2, Zenon
<1>12. Canonical(result)
  BY <1>1, <1>7, <1>10, <1>11, Zenon DEF Canonical, N
<1> QED BY <1>2, <1>9, <1>12, Zenon DEF result

-----------------------------------------------------------------------------
(* The limits, and the answers of a partition.                                *)

\* What a partition that is allowed needs.
LEMMA AllowedIs ==
  ASSUME Shape, IsIndex
  PROVE  LET result == Header + 16 * Cardinality(Tags) + 8 * Len(job.rows) IN
         /\ Total \in Nat /\ result \in Nat /\ Len(job.rows) \in Nat
         /\ job.max_rows \in Nat /\ job.max_bytes \in Nat /\ job.max_memory \in Instants
         /\ Allowed <=> /\ Len(job.rows) <= job.max_rows
                        /\ Total <= job.max_bytes /\ result <= job.max_bytes
                        /\ job.max_memory = None \/ Total + 8 * Len(job.rows) + result <= job.max_memory
<1> DEFINE result == Header + 16 * Cardinality(Tags) + 8 * Len(job.rows)
<1>1. Total \in Nat /\ Cardinality(Tags) \in Nat /\ Len(job.rows) \in Nat
  BY SourceAre, TagsType
<1>2. result \in Nat
  BY <1>1 DEF Header
<1>3. job.max_rows \in Nat /\ job.max_bytes \in Nat /\ job.max_memory \in Instants
  BY JobsAssumption DEF Shape, Instants
<1>4. Allowed <=> /\ Len(job.rows) <= job.max_rows /\ Max({Total, result}) <= job.max_bytes
                  /\ job.max_memory = None \/ Total + 8 * Len(job.rows) + result <= job.max_memory
  BY Zenon DEF Allowed
<1> HIDE DEF result
<1>5. Max({Total, result}) = IF Total >= result THEN Total ELSE result
  <2> DEFINE m == IF Total >= result THEN Total ELSE result
             S == {Total, result}
  <2>1. m \in S /\ \A y \in S : m >= y
    BY <1>1, <1>2
  <2>2. \A x \in S : (\A y \in S : x >= y) => x = m
    BY <1>1, <1>2
  <2> HIDE DEF m, S
  <2>3. Max(S) = m
    BY <2>1, <2>2, Zenon DEF Max
  <2> QED BY <2>3 DEF m, S
<1>6. Max({Total, result}) <= job.max_bytes <=> Total <= job.max_bytes /\ result <= job.max_bytes
  BY <1>1, <1>2, <1>3, <1>5
<1> QED BY <1>1, <1>2, <1>3, <1>4, <1>6, Zenon DEF result

\* A job that stays keeps its bytes, its tags and whether it is allowed.
LEMMA JobStays ==
  ASSUME job' = job
  PROVE  /\ IsIndex' = IsIndex /\ SourceBytes' = SourceBytes /\ Total' = Total
         /\ Tags' = Tags /\ Allowed' = Allowed
<1>1. SourceBytes' = SourceBytes
  BY DEF SourceBytes
<1>2. Total' = Total
  BY <1>1, Zenon DEF Total
<1>3. Tags' = Tags
  BY DEF Tags
<1>4. Allowed' = Allowed
  BY <1>2, <1>3, Zenon DEF Allowed
<1> QED BY <1>1, <1>2, <1>3, <1>4, Zenon DEF IsIndex

\* An answer that is neither a result nor a refused one needs a reason only if it is a limit.
LEMMA Ends ==
  ASSUME call'.pc \in {"exit", "done"},
         call'.outcome \in {"limit", "deadline", "OperationCancelled", "KeyboardInterrupt", "ValueError"},
         call'.outcome = "limit" /\ IsIndex' => ~ Allowed'
  PROVE  Indexed'
BY DEF Indexed, Answered, Before, Running

\* What is counted before native code is the source.
LEMMA EarlyIndexed ==
  ASSUME Shape, Caused, Indexed, IsIndex,
         StartPartition \/ EncodeAxiom \/ EncodedAll \/ Check \/ Configure \/ EnterRelay
  PROVE  Indexed'
<1> DEFINE N == Len(job.rows)
<1>1. job' = job /\ IsIndex' /\ call.outcome = "none" /\ call.pc \in Before
  <2>1. job' = job /\ call.pc \in Before
    BY EarlySteps
  <2> QED BY <2>1, JobStays DEF Caused
<1>2. /\ SourceBytes' = SourceBytes /\ Total' = Total /\ Allowed' = Allowed
      /\ N' = N
  BY <1>1, JobStays, Zenon
<1>3. /\ N \in Nat /\ Sums(SourceBytes, job.rows, N)
      /\ \A n \in 0..N : SourceBytes[n] \in Nat /\ SourceBytes[n] <= Total
  BY SourceAre, AllowedIs, Zenon DEF Sums
<1>4. job.max_rows \in Nat /\ job.max_bytes \in Nat /\ Total \in Nat
  BY AllowedIs
<1>5. CASE StartPartition
  <2>1. /\ call.pc = "start" /\ index' = index /\ Counting
    BY <1>5 DEF StartPartition, At, Indexed
  <2>2. CASE N > job.max_rows
    <3>1. call'.pc = "done" /\ call'.outcome = "limit"
      BY <1>5, <2>2, ReturnEffect, Zenon DEF StartPartition, Places, Before, Running, Outcomes
    <3>2. ~ Allowed
      BY <1>3, <1>4, <2>2, AllowedIs, SMTT(20)
    <3> QED BY <1>2, <3>1, <3>2, Ends, Zenon
  <2>3. CASE ~ (N > job.max_rows)
    <3>1. call'.pc = "encode" /\ call'.outcome = "none"
      BY <1>1, <1>5, <2>3, GotoEffect, Zenon DEF StartPartition, Places, Before
    <3>2. N <= job.max_rows
      BY <1>3, <1>4, <2>3, SMTT(20)
    <3>3. Counting'
      BY <1>2, <2>1, <3>1, Zenon DEF Counting
    <3> QED BY <1>1, <3>1, <3>2, <3>3, Zenon DEF Indexed, Answered, Before, Running
  <2> QED BY <2>2, <2>3, Zenon
<1>6. CASE EncodeAxiom
  <2> DEFINE ordinal == index.done + 1
             source == index.source + 8 + job.rows[ordinal].bytes
  <2>1. /\ call.pc = "encode" /\ index.done < N /\ Counting /\ N <= job.max_rows
    BY <1>6, Zenon DEF EncodeAxiom, At, Indexed, Before
  <2>2. index.done \in 0..(N - 1) /\ ordinal \in 0..N
    BY <1>3, <2>1 DEF Counting
  <2>3. source = SourceBytes[ordinal]
    BY <1>3, <2>1, <2>2, Zenon DEF Sums, Counting
  <2>4. /\ DOMAIN index = {"source", "done", "groups", "result"}
    BY DEF Shape, IndexShape
  <2> HIDE DEF ordinal, source, N
  <2>5. CASE ordinal % job.stride = 0 /\ TokenCancelled
    <3>1. call'.pc = "done" /\ call'.outcome = "OperationCancelled"
      BY <1>6, <2>5, ReturnEffect, Zenon DEF EncodeAxiom, ordinal, Places, Before, Running, Outcomes
    <3> QED BY <3>1, Ends, Zenon
  <2>6. CASE ~ (ordinal % job.stride = 0 /\ TokenCancelled)
    <3>1. index' = [index EXCEPT !.done = ordinal, !.source = source]
      BY <1>6, <2>6 DEF EncodeAxiom, ordinal, source
    <3>2. index'.done = ordinal /\ index'.source = source /\ index'.groups = index.groups
      BY <2>4, <3>1, Zenon
    <3>3. CASE source > job.max_bytes
      <4>1. call'.pc = "done" /\ call'.outcome = "limit"
        BY <1>6, <2>6, <3>3, ReturnEffect, Zenon DEF EncodeAxiom, ordinal, source, Places, Before, Running, Outcomes
      <4>2. Total > job.max_bytes
        BY <1>3, <1>4, <2>2, <2>3, <3>3, SMTT(20)
      <4>3. ~ Allowed
        BY <1>4, <4>2, AllowedIs, SMTT(20)
      <4> QED BY <1>2, <4>1, <4>3, Ends, Zenon
    <3>4. CASE ~ (source > job.max_bytes)
      <4>1. call' = call
        BY <1>6, <2>6, <3>4, Zenon DEF EncodeAxiom, ordinal, source
      <4>2. Counting'
        BY <1>2, <2>1, <2>2, <2>3, <3>2, <4>1, Zenon DEF Counting, N
      <4> QED BY <1>1, <2>1, <4>1, <4>2, Zenon DEF Indexed, Answered, Before, Running, N
    <3> QED BY <3>3, <3>4, Zenon
  <2> QED BY <2>5, <2>6, Zenon
<1>7. CASE EncodedAll
  <2>1. call.pc = "encode" /\ index.done = N /\ Counting /\ N <= job.max_rows
    BY <1>7 DEF EncodedAll, At, Indexed, Before
  <2>2. call'.pc = "check" /\ call'.outcome = "none"
    BY <1>1, <1>7, GotoEffect, Zenon DEF EncodedAll, Places, Before
  <2>3. index'.done = 0 /\ index'.source = index.source /\ index'.groups = index.groups
    BY <1>7, Zenon DEF EncodedAll, Shape, IndexShape
  <2>4. Counted'
    BY <1>2, <2>1, <2>3, Zenon DEF Counting, Counted, Total
  <2> QED BY <1>1, <2>1, <2>2, <2>4, Zenon DEF Indexed, Answered, Before, Running
<1>8. CASE Check \/ Configure \/ EnterRelay
  <2>1. index' = index /\ call.pc \in {"check", "configure", "relay"} /\ call'.pc \in {"configure", "relay", "native", "done"}
    <3> USE GotoEffect, ReturnEffect DEF At, Places, Before, Running, Outcomes
    <3>1. CASE Check
      BY <3>1, Zenon DEF Check
    <3>2. CASE Configure
      BY <3>2, Zenon DEF Configure, Shape, Calls
    <3>3. CASE EnterRelay
      BY <3>3 DEF EnterRelay
    <3> QED BY <1>8, <3>1, <3>2, <3>3, Zenon
  <2>2. Counted /\ N <= job.max_rows
    BY <1>1, <2>1 DEF Indexed, Before
  <2>3. Counted'
    BY <1>2, <2>1, <2>2 DEF Counted
  <2>4. CASE call'.outcome = "none" /\ call'.pc # "done"
    BY <1>1, <2>1, <2>2, <2>3, <2>4, Zenon DEF Indexed, Answered, Before, Running
  <2>5. CASE ~ (call'.outcome = "none" /\ call'.pc # "done")
    <3>1. call'.pc = "done" /\ call'.outcome \in {"OperationCancelled", "ValueError"}
      <4> USE GotoEffect, ReturnEffect DEF At, Places, Before, Running, Outcomes
      <4>1. CASE Check
        BY <1>1, <2>5, <4>1, Zenon DEF Check
      <4>2. CASE Configure
        BY <1>1, <2>5, <4>2, Zenon DEF Configure, Shape, Calls
      <4>3. CASE EnterRelay
        BY <1>1, <2>5, <4>3 DEF EnterRelay
      <4> QED BY <1>8, <4>1, <4>2, <4>3, Zenon
    <3> QED BY <3>1, Ends, Zenon
  <2> QED BY <2>4, <2>5, Zenon
<1> QED BY <1>5, <1>6, <1>7, <1>8, Zenon

\* Native code groups the rows, and refuses what does not fit.
LEMMA NativeIndexed ==
  ASSUME Shape, Caused, Budgeted, Indexed, IsIndex, EnterNative \/ IndexRow \/ IndexEncode
  PROVE  Indexed'
<1> DEFINE N == Len(job.rows)
           size == Header + 16 * Cardinality(Tags) + 8 * N
<1>1. job' = job
  BY DEF EnterNative, IndexRow, IndexEncode
<1>2. IsIndex' /\ Total' = Total /\ Allowed' = Allowed /\ N' = N
  BY <1>1, JobStays, Zenon
<1>3. N \in Nat /\ size \in Nat /\ Total \in Nat /\ job.max_bytes \in Nat /\ job.max_memory \in Instants
  BY AllowedIs, Zenon
<1>4. Allowed <=> /\ N <= job.max_rows /\ Total <= job.max_bytes /\ size <= job.max_bytes
                  /\ job.max_memory = None \/ Total + 8 * N + size <= job.max_memory
  BY AllowedIs, Zenon
<1>5. native \in Session /\ None \notin Nat /\ DOMAIN index = {"source", "done", "groups", "result"}
  BY JobTypes DEF Shape, IndexShape
<1>6. native.temporary \in Nat /\ native.persistent \in Nat /\ native.used \in Nat
  BY <1>5, SessionFields
<1> HIDE DEF N, size
<1>7. CASE EnterNative
  <2>1. /\ call.pc = "native" /\ index' = index /\ Counted /\ N <= job.max_rows /\ call.outcome = "none"
        /\ native.temporary = 0 /\ native.persistent = 0
    BY <1>7, Zenon DEF EnterNative, At, Indexed, Before, Budgeted, Charged, Uncharged, Caused, N
  <2>2. Input = Total
    BY <2>1 DEF Input, Counted
  <2>3. CASE RefusesInput
    <3>1. call'.pc = "exit" /\ call'.outcome = "limit"
      BY <1>7, <2>3, ReturnEffect, Zenon DEF EnterNative, Places, Outcomes
    <3>2. Total > job.max_bytes \/ (job.max_memory # None /\ Total > job.max_memory)
      BY <2>2, <2>3, Zenon DEF RefusesInput
    <3>3. ~ Allowed
      BY <1>3, <1>4, <1>5, <3>2 DEF Instants
    <3> QED BY <1>2, <3>1, <3>3, Ends, Zenon
  <2>4. CASE ~ RefusesInput
    <3> DEFINE n == 8 * N
    <3>1. n \in Nat /\ Total <= job.max_bytes
      BY <1>3, <2>2, <2>4, SMTT(20) DEF RefusesInput
    <3>2. NewSession.used = Total /\ NewSession.temporary = 0 /\ NewSession.persistent = 0 /\ NewSession \in Session
      BY <2>1, <2>2, NewSessionEffect, SessionTypes, Zenon
    <3>3. StartBuild
      BY <1>7, <2>4, Zenon DEF EnterNative
    <3>4. CASE ~ Fits(NewSession, n)
      <4>1. call'.pc = "exit" /\ call'.outcome = "limit"
        BY <3>3, <3>4, ReturnEffect, Zenon DEF StartBuild, Places, Outcomes, N
      <4>2. job.max_memory # None /\ ~ (Total + n <= job.max_memory)
        BY <3>2, <3>4, Zenon DEF Fits
      <4>3. ~ Allowed
        BY <1>3, <1>4, <1>5, <4>2, SMTT(20) DEF Instants
      <4> QED BY <1>2, <4>1, <4>3, Ends
    <3>5. CASE Fits(NewSession, n)
      <4>1. native' = ReserveBytes(NewSession, n) /\ call'.pc = "build" /\ call'.outcome = "none"
        BY <2>1, <3>3, <3>5, GotoEffect, Zenon DEF StartBuild, Places, Running, N
      <4> HIDE DEF n
      <4>2. native'.temporary = 0 /\ native'.persistent = 0 + n
        BY <3>1, <3>2, <4>1, ReserveEffect, Zenon
      <4>3. native'.persistent = n
        BY <3>1, <4>2
      <4>4. Grouped(index.groups, index.done)'
        <5>1. index'.groups = <<>> /\ index'.done = 0 /\ DOMAIN index'.groups = {}
          BY <2>1 DEF Counted
        <5>2. \A i \in 1..0 : FALSE
          OBVIOUS
        <5> QED BY <5>1, <5>2, Zenon DEF Grouped
      <4>5. /\ index'.source = Total' /\ Total' <= job'.max_bytes
            /\ native'.persistent = 8 * Len(job'.rows)
            /\ index'.done \in 0..Len(job'.rows)
        BY <1>1, <1>2, <1>3, <2>1, <3>1, <4>3, SMTT(20) DEF Counted, N, n
      <4>6. Building'
        BY <4>2, <4>4, <4>5, Zenon DEF Building
      <4> QED BY <1>1, <2>1, <4>1, <4>6, Zenon DEF Indexed, Answered, Before, Running, N
    <3> QED BY <3>4, <3>5, Zenon
  <2> QED BY <2>3, <2>4, Zenon
<1>8. CASE IndexRow
  <2>1. call.pc = "build" /\ index.done < N /\ Building /\ N <= job.max_rows /\ call.outcome = "none"
    BY <1>8 DEF IndexRow, At, Indexed, Running, Caused, N
  <2>2. Polled \in {"ok", "deadline", "OperationCancelled", "KeyboardInterrupt"}
    BY DEF Polled, Checkpoint
  <2>3. CASE Step(native, 1).poll /\ Polled # "ok"
    <3>1. call'.pc = "exit" /\ call'.outcome = Polled
      BY <1>8, <2>2, <2>3, ReturnEffect, Zenon DEF IndexRow, Places, Outcomes
    <3> QED BY <2>2, <2>3, <3>1, Ends, Zenon
  <2>4. CASE ~ (Step(native, 1).poll /\ Polled # "ok")
    <3> DEFINE n == index.done
               tag == job.rows[n + 1].tag
               h == [t \in DOMAIN index.groups \cup {tag} |->
                       IF t = tag THEN Append(Posting(t), n) ELSE index.groups[t]]
    <3>1. call' = call /\ native' = Step(native, 1).session /\ index' = [index EXCEPT !.done = n + 1, !.groups = h]
      BY <1>8, <2>4, Zenon DEF IndexRow
    <3>2. native'.temporary = native.temporary /\ native'.persistent = native.persistent
      BY <3>1, StepEffect, Zenon
    <3>3. n \in Nat /\ n + 1 \in 0..N /\ Grouped(index.groups, n)
      BY <1>3, <2>1 DEF Building, N
    <3>4. h = [t \in DOMAIN index.groups \cup {tag} |->
                 IF t = tag THEN Append(IF t \in DOMAIN index.groups THEN index.groups[t] ELSE <<>>, n)
                 ELSE index.groups[t]]
      BY DEF Posting
    <3> HIDE DEF h
    <3>5. index'.done = n + 1 /\ index'.groups = h /\ index'.source = index.source
      BY <1>5, <3>1, Zenon
    <3> HIDE DEF tag
    <3>6. Grouped(h, n + 1)
      <4>1. tag = job.rows[n + 1].tag
        BY DEF tag
      <4> DEFINE g == index.groups
      <4>2. Grouped(g, n) /\ n \in Nat
        BY <3>3
      <4>3. h = [t \in DOMAIN g \cup {tag} |->
                   IF t = tag THEN Append(IF t \in DOMAIN g THEN g[t] ELSE <<>>, n) ELSE g[t]]
        BY <3>4, Zenon
      <4> HIDE DEF n, g
      <4> QED BY <4>1, <4>2, <4>3, GroupedMore
    <3> HIDE DEF n
    <3>7. Grouped(index.groups, index.done)'
      BY <1>1, <3>5, <3>6, Zenon DEF Grouped, RowsBefore
    <3>8. Building'
      BY <1>1, <1>2, <2>1, <3>2, <3>3, <3>5, <3>7 DEF Building, N
    <3> QED BY <1>1, <2>1, <3>1, <3>8, Zenon DEF Indexed, Answered, Before, Running, N
  <2> QED BY <2>3, <2>4, Zenon
<1>9. CASE IndexEncode
  <2>1. call.pc = "build" /\ index.done = N /\ Building /\ N <= job.max_rows /\ call.outcome = "none"
    BY <1>9 DEF IndexEncode, At, Indexed, Running, Caused, N
  <2>2. Polled \in {"ok", "deadline", "OperationCancelled", "KeyboardInterrupt"}
    BY DEF Polled, Checkpoint
  <2>3. Grouped(index.groups, Len(job.rows))
    BY <2>1 DEF Building, N
  <2>4. DOMAIN index.groups = Tags /\ Partitioned(Encode(index.groups)) /\ Canonical(Encode(index.groups))
    BY <2>3, EncodedAccepted, Zenon
  <2>5. ResultBytes(index.groups) = size
    BY <2>4 DEF ResultBytes, size, N
  <2>6. native.used = Total + 8 * N
    <3>1. Charged
      BY <2>1, Zenon DEF Budgeted, Uncharged, Running
    <3>2. Input = Total /\ native.temporary = 0 /\ native.persistent = 8 * N
      BY <2>1 DEF Building, Input, N
    <3> QED BY <1>3, <3>1, <3>2 DEF Charged
  <2>7. Fits(native, size) <=> job.max_memory = None \/ Total + 8 * N + size <= job.max_memory
    BY <2>6, Zenon DEF Fits
  <2>8. CASE size > job.max_bytes \/ ~ Fits(native, size)
    <3>1. call'.pc = "exit" /\ call'.outcome = "limit"
      BY <1>9, <2>5, <2>8, ReturnEffect, Zenon DEF IndexEncode, Places, Outcomes
    <3>2. ~ Allowed
      BY <1>3, <1>4, <2>7, <2>8
    <3> QED BY <1>2, <3>1, <3>2, Ends
  <2>9. CASE ~ (size > job.max_bytes \/ ~ Fits(native, size))
    <3>1. call'.pc = "exit" /\ call'.outcome = Polled /\ index' = [index EXCEPT !.result = Encode(index.groups)]
      BY <1>9, <2>2, <2>5, <2>9, ReturnEffect, Zenon DEF IndexEncode, Places, Outcomes
    <3>2. CASE Polled # "ok"
      BY <2>2, <3>1, <3>2, Ends, Zenon
    <3>3. CASE Polled = "ok"
      <4> DEFINE r == Encode(index.groups)
      <4>1. index'.result = r
        BY <1>5, <3>1, Zenon
      <4>2. Partitioned(r) /\ Canonical(r)
        BY <2>4
      <4> HIDE DEF r
      <4>3. Partitioned(index.result)'
        <5>1. Len(index'.result) = Cardinality(Tags') /\ {index'.result[i].tag : i \in DOMAIN index'.result} = Tags'
          <6>1. Tags' = Tags
            BY <1>1, JobStays
          <6> QED BY <4>1, <4>2, <6>1, Zenon DEF Partitioned
        <5>2. ASSUME NEW i \in DOMAIN index'.result
              PROVE  /\ Ascending(index'.result[i].ordinals)
                     /\ Range(index'.result[i].ordinals)
                          = {x - 1 : x \in {k \in DOMAIN job'.rows : job'.rows[k].tag = index'.result[i].tag}}
          <6>1. Ascending(r[i].ordinals) /\ Range(r[i].ordinals) = RowsOf(r[i].tag)
            BY <4>1, <4>2, Zenon DEF Partitioned
          <6>2. RowsOf(r[i].tag) = {x - 1 : x \in {k \in DOMAIN job'.rows : job'.rows[k].tag = r[i].tag}}
            BY <1>1, Zenon DEF RowsOf
          <6> QED BY <4>1, <6>1, <6>2, Zenon
        <5> QED BY <5>1, <5>2, Zenon DEF Partitioned, RowsOf
      <4>4. Canonical(index.result)'
        BY <1>1, <4>1, <4>2, Zenon DEF Canonical
      <4>5. Allowed
        BY <1>3, <1>4, <2>1, <2>7, <2>9, SMTT(20) DEF Building
      <4> QED BY <1>2, <3>1, <3>3, <4>3, <4>4, <4>5, Zenon DEF Indexed, Answered, Before, Running
    <3> QED BY <3>2, <3>3
  <2> QED BY <2>8, <2>9
<1> QED BY <1>7, <1>8, <1>9

\* A result stays as good as it is while the job and the index stay.
LEMMA ResultStays ==
  ASSUME UNCHANGED <<job, index>>
  PROVE  Partitioned(index.result)' = Partitioned(index.result) /\ Canonical(index.result)' = Canonical(index.result)
<1>1. job' = job /\ index' = index
  OBVIOUS
<1>2. Tags' = Tags /\ \A tag : RowsOf(tag)' = RowsOf(tag)
  BY <1>1 DEF Tags, RowsOf
<1>3. Partitioned(index.result)' = Partitioned(index.result)
  BY <1>1, <1>2, Zenon DEF Partitioned
<1>4. Canonical(index.result)' = Canonical(index.result)
  BY <1>1, <1>2, Zenon DEF Canonical
<1> QED BY <1>3, <1>4, Zenon

\* Leaving native code keeps the answer, and the decoder accepts every result.
LEMMA LateIndexed ==
  ASSUME Shape, Indexed, Exit \/ Join \/ DecodePartition
  PROVE  Indexed'
<1>1. UNCHANGED <<job, native, index>> /\ call'.pc \notin Before \cup Running
  BY LateSteps
<1>2. /\ IsIndex' = IsIndex /\ Allowed' = Allowed
  BY <1>1, JobStays, Zenon
<1>3. Partitioned(index.result)' = Partitioned(index.result) /\ Canonical(index.result)' = Canonical(index.result)
  BY <1>1, ResultStays, Zenon
<1>4. call'.outcome = call.outcome /\ (call'.pc = "decode" => call.outcome = "ok")
  <2> USE GotoEffect, ReturnEffect DEF At, Places, Before, Running, Outcomes
  <2>1. CASE Exit
    BY <2>1, SMTT(20) DEF Exit, Leave
  <2>2. CASE Join
    BY <2>2, SMTT(20) DEF Join, Leave
  <2>3. CASE DecodePartition
    <3>1. call.pc = "decode" /\ IsIndex
      BY <2>3, Zenon DEF DecodePartition, Shape
    <3>2. Canonical(index.result)
      BY <3>1 DEF Indexed, Answered
    <3> QED BY <2>3, <3>2, SMTT(20) DEF DecodePartition
  <2> QED BY <2>1, <2>2, <2>3, Zenon
<1>5. Answered => Answered'
  BY <1>2, <1>3, <1>4, Zenon DEF Answered
<1>6. call.outcome # "BackendProtocolError" /\ (IsIndex => Answered)
  BY Zenon DEF Indexed
<1> QED BY <1>1, <1>2, <1>4, <1>5, <1>6, Zenon DEF Indexed, Before, Running

\* The relay thread and the environment change nothing a partition has.
LEMMA OutsideIndexed ==
  ASSUME Shape, Indexed, Poll \/ Look \/ Cancel \/ Tick \/ Interrupt \/ UNCHANGED vars
  PROVE  Indexed'
<1>1. /\ UNCHANGED <<job, call, index>>
      /\ native'.temporary = native.temporary /\ native'.persistent = native.persistent
  BY OutsideSteps, Zenon DEF SameCounters
<1>2. /\ IsIndex' = IsIndex /\ Allowed' = Allowed /\ Total' = Total /\ SourceBytes' = SourceBytes
  BY <1>1, JobStays, Zenon
<1>3. Partitioned(index.result)' = Partitioned(index.result) /\ Canonical(index.result)' = Canonical(index.result)
  BY <1>1, ResultStays, Zenon
<1>4. Answered => Answered'
  BY <1>1, <1>2, <1>3, Zenon DEF Answered
<1>5. Grouped(index.groups, index.done)' = Grouped(index.groups, index.done)
  BY <1>1 DEF Grouped, RowsBefore
<1>6. Building => Building'
  BY <1>1, <1>2, <1>5 DEF Building
<1>7. (Counting => Counting') /\ (Counted => Counted')
  BY <1>1, <1>2 DEF Counting, Counted
<1> QED BY <1>1, <1>2, <1>4, <1>6, <1>7, Zenon DEF Indexed

\* Every step keeps the progress of a partition exact and its answers justified.
LEMMA IndexedStep ==
  ASSUME Shape, Budgeted, Caused, Indexed, [Next]_vars
  PROVE  Indexed'
<1>1. CASE StartPartition \/ EncodeAxiom \/ EncodedAll \/ Check \/ Configure \/ EnterRelay
  <2>1. CASE IsIndex
    BY <1>1, <2>1, EarlyIndexed, Zenon
  <2>2. CASE ~ IsIndex
    <3>1. job' = job /\ call'.outcome # "BackendProtocolError"
      BY <1>1, EarlyAnswers, Zenon
    <3> QED BY <2>2, <3>1, Zenon DEF Indexed, IsIndex
  <2> QED BY <2>1, <2>2
<1>2. CASE EnterNative \/ IndexRow \/ IndexEncode
  <2>1. CASE IsIndex
    BY <1>2, <2>1, NativeIndexed, Zenon
  <2>2. CASE ~ IsIndex
    <3>1. EnterNative
      BY <1>2, <2>2, Zenon DEF IndexRow, IndexEncode, Shape, At
    <3>2. job' = job /\ call.outcome = "none"
      BY <3>1, Zenon DEF EnterNative, At, Caused, Before
    <3>3. call'.outcome \in {"none", "limit"}
      BY <2>2, <3>1, <3>2, GotoEffect, ReturnEffect, Zenon DEF EnterNative, Places, Outcomes, Running
    <3> QED BY <2>2, <3>2, <3>3, Zenon DEF Indexed, IsIndex
  <2> QED BY <2>1, <2>2
<1>3. CASE SessionCall \/ SessionFinish
  <2>1. call.pc = "session" /\ job' = job
    BY <1>3, Zenon DEF SessionCall, SessionStep, SessionReserve, SessionReserveTemporary, SessionFinish, At
  <2>2. ~ IsIndex /\ call.outcome = "none"
    BY <2>1, Zenon DEF Indexed, Caused, Running
  <2>3. Polled # "BackendProtocolError"
    BY DEF Polled, Checkpoint
  <2>4. call'.outcome # "BackendProtocolError"
    <3>1. CASE \E n \in Amounts : SessionStep(n)
      <4> PICK k \in Nat : Worked(k)
        BY <3>1, WorkSteps, Zenon
      <4> QED BY <2>2, <2>3, Zenon DEF Worked
    <3>2. CASE SessionFinish \/ \E n \in Amounts : SessionReserve(n) \/ SessionReserveTemporary(n)
      <4> PICK k \in Nat : Reserved(k)
        BY <3>2, ReserveSteps
      <4> QED BY <2>2, <2>3, Zenon DEF Reserved
    <3> QED BY <1>3, <3>1, <3>2, Zenon DEF SessionCall
  <2> QED BY <2>1, <2>2, <2>4, Zenon DEF Indexed, IsIndex
<1>4. CASE Exit \/ Join \/ DecodePartition
  BY <1>4, LateIndexed
<1>5. CASE Poll \/ Look \/ Cancel \/ Tick \/ Interrupt \/ UNCHANGED vars
  BY <1>5, OutsideIndexed
<1> QED BY Steps, <1>1, <1>2, <1>3, <1>4, <1>5, Zenon

-----------------------------------------------------------------------------
Inductive == Shape /\ Paced /\ Budgeted /\ Caused /\ Indexed

\* A call about to start satisfies the invariants.
LEMMA InductiveInit ==
  ASSUME Init
  PROVE  Inductive
<1>1. Shape
  <2>1. index = [source |-> Header, done |-> 0, groups |-> <<>>, result |-> <<>>]
    BY DEF Init
  <2>2. IsFiniteSet(DOMAIN <<>>)
    BY FS_EmptySet
  <2>3. IndexShape(index)
    BY <2>1, <2>2, Zenon DEF IndexShape, Header
  <2>4. /\ job \in Jobs /\ now \in 0..MaxTime /\ cancelled \in BOOLEAN /\ signal = "none"
        /\ relay \in [pc : {"none", "waiting", "looking", "ended"}, stop : BOOLEAN]
    <3>1. 0 \in 0..MaxTime
      BY JobsAssumption
    <3> QED BY <3>1, Zenon DEF Init
  <2>5. call \in Calls /\ (call.pc = "start" => IsIndex) /\ call.pc \in {"start", "check"}
    BY Zenon DEF Init, Calls, Places, Before, Outcomes, Instants
  <2>6. native \in Session
    BY Zenon DEF Init, Session, Instants
  <2> QED BY <2>3, <2>4, <2>5, <2>6, Zenon DEF Shape
<1>2. /\ call.pc \in {"start", "check"} /\ call.outcome = "none" /\ call.config = None
      /\ native.flag = FALSE /\ native.expires = None /\ native.ends = None
      /\ native.slack = 0 /\ native.overrun = 0
      /\ native.used = 0 /\ native.temporary = 0 /\ native.persistent = 0
  BY Zenon DEF Init
<1>3. Paced
  BY <1>1, <1>2, JobTypes DEF Paced, Before, Running
<1>4. Budgeted
  BY <1>2, Zenon DEF Budgeted, Uncharged, Running
<1>5. Caused
  BY <1>2 DEF Caused, CauseIsReal, Late, Long
<1>6. Indexed
  <2>1. CASE IsIndex
    <3>1. call.pc = "start" /\ index.done = 0 /\ index.source = Header /\ index.groups = <<>>
      BY <2>1, Zenon DEF Init
    <3>2. SourceBytes[0] = Header /\ Len(job.rows) \in Nat
      BY <1>1, <2>1, SourceAre, AllowedIs, Zenon DEF Sums
    <3>3. Counting
      BY <3>1, <3>2 DEF Counting
    <3> QED BY <1>2, <3>1, <3>3, Zenon DEF Indexed, Answered, Before, Running
  <2>2. CASE ~ IsIndex
    BY <1>2, <2>2 DEF Indexed
  <2> QED BY <2>1, <2>2, Zenon
<1> QED BY <1>1, <1>3, <1>4, <1>5, <1>6, Zenon DEF Inductive

\* Every reachable state has the shape, keeps pace, budgets and causes, and counts and groups the rows exactly.
THEOREM InductiveHolds == Spec => []Inductive
<1>1. Init => Inductive
  BY InductiveInit
<1>2. Inductive /\ [Next]_vars => Inductive'
  BY ShapeStep, PacedStep, BudgetedStep, CausedStep, IndexedStep, Zenon DEF Inductive
<1> QED BY <1>1, <1>2, PTL DEF Spec

\* The state of a call keeps its types.
THEOREM TypeCorrect == Spec => []TypeOK
<1>1. Inductive => TypeOK
  <2> SUFFICES ASSUME Inductive PROVE TypeOK
    BY Zenon
  <2>1. native.slack \in 0..job.stride /\ native.flag \in BOOLEAN
    BY JobTypes DEF Inductive, Paced, Shape, Session
  <2>2. call.outcome \in Outcomes
    BY Zenon DEF Inductive, Shape, Calls
  <2> QED BY <2>1, <2>2 DEF Inductive, Shape, TypeOK, Outcomes
<1> QED BY <1>1, InductiveHolds, PTL

\* Native code does less than one stride of work after it was asked to end,
\* for every stride and every sequence of amounts given to Session.step.
THEOREM StopIsPrompt == Spec => []StopsWithinAStride
<1>1. Inductive => StopsWithinAStride
  BY JobTypes, SessionFields, SMTT(20), ZenonT(20), SMTT(40) DEF Inductive, Paced, Shape, Running, StopsWithinAStride
<1> QED BY <1>1, InductiveHolds, PTL

\* The memory charged to an operation is its input, its temporaries and what it
\* keeps, within both ceilings, after every accepted and every refused
\* reservation.
THEOREM BudgetsHold == Spec => []BudgetsAreExact
<1>1. Inductive => BudgetsAreExact
  BY SMTT(20) DEF Inductive, Budgeted, Charged, Uncharged, BudgetsAreExact
<1> QED BY <1>1, InductiveHolds, PTL

\* Cancellation, deadline and interrupt are reported only when they happened,
\* however the relay thread, the clock and the two deadlines race.
THEOREM CausesAreReal == Spec => []CauseIsReal
<1>1. Inductive => CauseIsReal
  BY DEF Inductive, Caused
<1> QED BY <1>1, InductiveHolds, PTL

\* Every answer has its cause.  A partition is refused for a limit only if it
\* does not fit and returned only if it does; then it holds every row under
\* its own constructor in row order, and the decoder has accepted it, for
\* every list of rows, every limit and every race with the relay thread.
THEOREM HonestAnswers == Spec => []AnswersAreHonest
<1>1. Inductive /\ TypeOK => AnswersAreHonest
  BY DEF Inductive, Caused, Indexed, Answered, AnswersAreHonest
<1> QED BY <1>1, InductiveHolds, TypeCorrect, PTL
=============================================================================
