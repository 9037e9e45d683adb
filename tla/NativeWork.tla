----------------------------- MODULE NativeWork -----------------------------
(***************************************************************************)
(* One call from Python into native code: the cancellation token and its   *)
(* deadline (cancellation.py), the thread that relays it to the native     *)
(* flag (_Relay, backends/native.py), the guard that polls the flag, two   *)
(* deadlines and pending signals (cancel.rs), the session that counts work *)
(* and charges two budgets (session.rs, limits.rs), and as a complete      *)
(* operation the partition of axioms by constructor (partition_axioms and  *)
(* index/mod.rs).                                                          *)
(*                                                                         *)
(* Time is a counter.  The work counter and the guard's next poll only     *)
(* matter by their difference, which is kept as `slack`.                   *)
(***************************************************************************)
EXTENDS Integers, Sequences, FiniteSets, FiniteSetsExt

CONSTANTS
  Jobs,     \* calls: see JobsAssumption
  Amounts,  \* what session.step, reserve_bytes, reserve_temporary_bytes are given
  MaxTime,  \* bound on the clock
  None

\* rows is None for an operation that uses its session as it likes; else the
\* axioms to partition, each with its constructor's tag and its size.
ASSUME JobsAssumption ==
  /\ \A j \in Jobs :
       /\ j.token \in BOOLEAN /\ j.stride \in Nat \ {0} /\ j.input \in Nat
       /\ {j.deadline, j.expiry, j.max_memory} \subseteq (Nat \ {0}) \cup {None}
       /\ {j.max_temporary, j.max_rows, j.max_bytes} \subseteq Nat
       /\ ~ j.token => j.expiry = None
       /\ j.rows # None => j.rows \in Seq([tag : Nat, bytes : Nat])
  /\ Amounts \subseteq Nat \ {0} /\ MaxTime \in Nat
  /\ None \notin Nat

VARIABLES
  job,
  now,
  cancelled,  \* CancellationSource.cancel was called
  signal,     \* "none", "pending", "raised": an interrupt of the main thread
  call,       \* the caller: place, outcome and the deadline in its config
  relay,      \* the relay thread: "none", "waiting", "looking", "ended"; and _stop
  native,     \* Cancellation, Guard and Session
  index       \* source bytes, rows done, postings by tag, the encoded result

vars == <<job, now, cancelled, signal, call, relay, native, index>>

Header == 20
IsIndex == job.rows # None

Init ==
  /\ job \in Jobs
  /\ now = 0 /\ cancelled = FALSE /\ signal = "none"
  /\ call = [pc |-> IF IsIndex THEN "start" ELSE "check", outcome |-> "none", config |-> None]
  /\ relay = [pc |-> "none", stop |-> FALSE]
  /\ native = [flag |-> FALSE, expires |-> None, ends |-> None, slack |-> 0, overrun |-> 0,
               used |-> 0, temporary |-> 0, persistent |-> 0]
  /\ index = [source |-> Header, done |-> 0, groups |-> <<>>, result |-> <<>>]

At(place) == call.pc = place
Goto(place) == call' = [call EXCEPT !.pc = place]
Return(place, outcome) == call' = [call EXCEPT !.pc = place, !.outcome = outcome]

-----------------------------------------------------------------------------
(* CancellationToken.                                                         *)

DeadlineExceeded == job.expiry # None /\ now >= job.expiry
TokenCancelled == job.token /\ (cancelled \/ DeadlineExceeded)

\* CancellationSource.cancel, in another thread.
Cancel ==
  /\ job.token /\ ~ cancelled
  /\ cancelled' = TRUE
  /\ UNCHANGED <<job, now, signal, call, relay, native, index>>

Tick ==
  /\ now < MaxTime
  /\ now' = now + 1
  /\ UNCHANGED <<job, cancelled, signal, call, relay, native, index>>

\* A signal while native code runs; one it does not poll is Python's to raise.
Interrupt ==
  /\ signal = "none" /\ call.pc \in {"session", "build"}
  /\ signal' = "pending"
  /\ UNCHANGED <<job, now, cancelled, call, relay, native, index>>

-----------------------------------------------------------------------------
(* The caller, before native code: partition_axioms, _encode_config, _Relay.  *)

StartPartition ==
  /\ At("start")
  /\ IF Len(job.rows) > job.max_rows THEN Return("done", "limit") ELSE Goto("encode")
  /\ UNCHANGED <<job, now, cancelled, signal, relay, native, index>>

EncodeAxiom ==
  LET ordinal == index.done + 1
      source == index.source + 8 + job.rows[ordinal].bytes
  IN
  /\ At("encode") /\ index.done < Len(job.rows)
  /\ IF ordinal % job.stride = 0 /\ TokenCancelled THEN Return("done", "OperationCancelled") /\ UNCHANGED index
     ELSE /\ index' = [index EXCEPT !.done = ordinal, !.source = source]
          /\ IF source > job.max_bytes THEN Return("done", "limit") ELSE UNCHANGED call
  /\ UNCHANGED <<job, now, cancelled, signal, relay, native>>

EncodedAll ==
  /\ At("encode") /\ index.done = Len(job.rows)
  /\ index' = [index EXCEPT !.done = 0]
  /\ Goto("check")
  /\ UNCHANGED <<job, now, cancelled, signal, relay, native>>

Check ==
  /\ At("check")
  /\ IF TokenCancelled THEN Return("done", "OperationCancelled") ELSE Goto("configure")
  /\ UNCHANGED <<job, now, cancelled, signal, relay, native, index>>

\* The lesser of deadline_seconds and what the token has left, if any.
Remaining ==
  LET left == IF job.expiry = None THEN {} ELSE {Max({0, job.expiry - now})}
      all == left \cup ({job.deadline} \ {None})
  IN  IF all = {} THEN None ELSE Min(all)

Configure ==
  /\ At("configure")
  /\ IF Remaining = 0 THEN Return("done", "OperationCancelled")
     ELSE call' = [call EXCEPT !.pc = "relay", !.config = Remaining]
  /\ UNCHANGED <<job, now, cancelled, signal, relay, native, index>>

After(duration) == IF duration = None THEN None ELSE now + duration

\* The token is read again; _Cancellation refuses a deadline that is not positive.
EnterRelay ==
  /\ At("relay")
  /\ IF Remaining = 0 THEN Return("done", "ValueError") /\ UNCHANGED <<relay, native>>
     ELSE /\ Goto("native")
          /\ native' = [native EXCEPT !.expires = After(Remaining)]
          /\ relay' = [relay EXCEPT !.pc = IF job.token THEN "waiting" ELSE "none"]
  /\ UNCHANGED <<job, now, cancelled, signal, index>>

-----------------------------------------------------------------------------
(* The relay thread: _watch.                                                  *)

Poll ==
  /\ relay.pc = "waiting"
  /\ relay' = [relay EXCEPT !.pc = IF relay.stop THEN "ended" ELSE "looking"]
  /\ UNCHANGED <<job, now, cancelled, signal, call, native, index>>

\* Mutant: the thread looks once.
LookOnce ==
  /\ relay.pc = "looking"
  /\ native' = [native EXCEPT !.flag = @ \/ TokenCancelled]
  /\ relay' = [relay EXCEPT !.pc = "ended"]
  /\ UNCHANGED <<job, now, cancelled, signal, call, index>>

Look ==
  /\ relay.pc = "looking"
  /\ native' = [native EXCEPT !.flag = @ \/ TokenCancelled]
  /\ relay' = [relay EXCEPT !.pc = IF TokenCancelled THEN "ended" ELSE "waiting"]
  /\ UNCHANGED <<job, now, cancelled, signal, call, index>>

-----------------------------------------------------------------------------
(* Native code: Cancellation.checkpoint, Guard.check, Session.                *)

Passed(instant) == instant # None /\ now >= instant

Checkpoint ==
  IF native.flag THEN "OperationCancelled" ELSE IF Passed(native.expires) THEN "deadline" ELSE "ok"

\* A signal is raised by check_signals, kept in the slot and re-raised by run_detached.
Polled ==
  IF Checkpoint # "ok" THEN Checkpoint
  ELSE IF signal = "pending" THEN "KeyboardInterrupt"
  ELSE IF Passed(native.ends) THEN "deadline" ELSE "ok"

\* Whether the caller has asked for an end in any of the ways Guard polls.
EndAskedFor == native.flag \/ Passed(native.expires) \/ signal = "pending" \/ Passed(native.ends)

\* session with the work done; polled when the next multiple is reached exactly.
StepOnMultiples(session, amount) ==
  [poll |-> session.slack = amount,
   session |-> [session EXCEPT !.slack = IF @ > amount THEN @ - amount ELSE job.stride,
                               !.overrun = IF EndAskedFor THEN @ + amount ELSE 0]]

\* Session.step and the unforced Guard.check: poll once `next` is reached.
Step(session, amount) ==
  [poll |-> session.slack <= amount,
   session |-> [session EXCEPT !.slack = IF @ > amount THEN @ - amount ELSE job.stride,
                               !.overrun = IF EndAskedFor THEN @ + amount ELSE 0]]

\* Taking the interrupt out of its slot.
Raise(outcome) == signal' = IF outcome = "KeyboardInterrupt" THEN "raised" ELSE signal

\* MemoryBudget.reserve.
Fits(session, bytes) == job.max_memory = None \/ session.used + bytes <= job.max_memory

ReserveBytes(session, bytes) == [session EXCEPT !.used = @ + bytes, !.persistent = @ + bytes]

\* Mutant: the temporary counter moves before the memory budget has agreed.
ReserveTemporaryFirst(session, bytes) ==
  IF session.temporary + bytes > job.max_temporary THEN [ok |-> FALSE, session |-> session]
  ELSE [ok |-> Fits(session, bytes),
        session |-> [session EXCEPT !.temporary = @ + bytes,
                                    !.used = IF Fits(session, bytes) THEN @ + bytes ELSE @]]

ReserveTemporaryBytes(session, bytes) ==
  IF session.temporary + bytes > job.max_temporary \/ ~ Fits(session, bytes) THEN [ok |-> FALSE, session |-> session]
  ELSE [ok |-> TRUE, session |-> [session EXCEPT !.temporary = @ + bytes, !.used = @ + bytes]]

\* owned_index_source and MemoryBudget.new: the input is charged before any work.
Input == IF IsIndex THEN index.source ELSE job.input
RefusesInput ==
  \/ IsIndex /\ Input > job.max_bytes
  \/ job.max_memory # None /\ Input > job.max_memory

\* Guard.with_interrupt starts its own deadline and polls after one stride.
NewSession == [native EXCEPT !.ends = After(call.config), !.slack = job.stride, !.used = Input]

\* index::build reserves the postings of all rows at once.
StartBuild ==
  LET postings == 8 * Len(job.rows)
  IN  IF ~ Fits(NewSession, postings) THEN native' = NewSession /\ Return("exit", "limit")
      ELSE native' = ReserveBytes(NewSession, postings) /\ Goto("build")

EnterNative ==
  /\ At("native")
  /\ IF RefusesInput THEN Return("exit", "limit") /\ UNCHANGED native
     ELSE IF IsIndex THEN StartBuild
     ELSE native' = NewSession /\ Goto("session")
  /\ UNCHANGED <<job, now, cancelled, signal, relay, index>>

\* A parser, a builder: any sequence of session calls that ends in finish.
SessionStep(amount) ==
  LET s == Step(native, amount) IN
  /\ At("session")
  /\ native' = s.session
  /\ IF s.poll /\ Polled # "ok" THEN Return("exit", Polled) /\ Raise(Polled) ELSE UNCHANGED <<call, signal>>
  /\ UNCHANGED <<job, now, cancelled, relay, index>>

SessionReserve(bytes) ==
  /\ At("session")
  /\ IF ~ Fits(native, bytes) THEN Return("exit", "limit") /\ UNCHANGED native
     ELSE native' = ReserveBytes(native, bytes) /\ UNCHANGED call
  /\ UNCHANGED <<job, now, cancelled, signal, relay, index>>

SessionReserveTemporary(bytes) ==
  LET r == ReserveTemporaryBytes(native, bytes) IN
  /\ At("session")
  /\ native' = r.session
  /\ IF r.ok THEN UNCHANGED call ELSE Return("exit", "limit")
  /\ UNCHANGED <<job, now, cancelled, signal, relay, index>>

SessionFinish ==
  /\ At("session")
  /\ Return("exit", Polled) /\ Raise(Polled)
  /\ UNCHANGED <<job, now, cancelled, relay, native, index>>

-----------------------------------------------------------------------------
(* index::build and encode: postings by tag, in the order of the tags.        *)

Posting(tag) == IF tag \in DOMAIN index.groups THEN index.groups[tag] ELSE <<>>

IndexRow ==
  LET s == Step(native, 1)
      tag == job.rows[index.done + 1].tag
  IN
  /\ At("build") /\ index.done < Len(job.rows)
  /\ native' = s.session
  /\ IF s.poll /\ Polled # "ok" THEN Return("exit", Polled) /\ Raise(Polled) /\ UNCHANGED index
     ELSE /\ index' = [index EXCEPT !.done = @ + 1,
                !.groups = [t \in DOMAIN @ \cup {tag} |->
                              IF t = tag THEN Append(Posting(t), index.done) ELSE @[t]]]
          /\ UNCHANGED <<call, signal>>
  /\ UNCHANGED <<job, now, cancelled, relay>>

Encoded(groups, tags) == [i \in DOMAIN tags |-> [tag |-> tags[i], ordinals |-> groups[tags[i]]]]

\* The domain of rank, by rising rank.
ByRank(rank) ==
  CHOOSE s \in Bijection(1..Cardinality(DOMAIN rank), DOMAIN rank) :
    \A i, j \in DOMAIN s : i < j => rank[s[i]] < rank[s[j]]

\* Mutant: the groups in the order in which their tags were first met.
EncodeAsMet(groups) == Encoded(groups, ByRank([t \in DOMAIN groups |-> groups[t][1]]))

Encode(groups) == Encoded(groups, ByRank([t \in DOMAIN groups |-> t]))

ResultBytes(groups) == Header + 16 * Cardinality(DOMAIN groups) + 8 * Len(job.rows)

IndexEncode ==
  LET size == ResultBytes(index.groups) IN
  /\ At("build") /\ index.done = Len(job.rows)
  /\ IF size > job.max_bytes \/ ~ Fits(native, size)
     THEN Return("exit", "limit") /\ UNCHANGED <<signal, native, index>>
     ELSE /\ native' = ReserveBytes(native, size)
          /\ index' = [index EXCEPT !.result = Encode(index.groups)]
          /\ Return("exit", Polled) /\ Raise(Polled)
  /\ UNCHANGED <<job, now, cancelled, relay>>

-----------------------------------------------------------------------------
(* The caller, after native code: _Relay.__exit__, _decode_axiom_partition.   *)

Leave == Goto(IF IsIndex /\ call.outcome = "ok" THEN "decode" ELSE "done")

Exit ==
  /\ At("exit")
  /\ relay' = [relay EXCEPT !.stop = TRUE]
  /\ IF relay.pc = "none" THEN Leave ELSE Goto("join")
  /\ UNCHANGED <<job, now, cancelled, signal, native, index>>

\* The thread has ended, or a second has passed: the caller goes on either way.
Join ==
  /\ At("join")
  /\ Leave
  /\ UNCHANGED <<job, now, cancelled, signal, relay, native, index>>

\* What the decoder demands of the groups.
Canonical(result) ==
  LET n == Len(job.rows) IN
  /\ Len(result) <= n
  /\ \A g \in DOMAIN result :
       LET ordinals == result[g].ordinals IN
       /\ g > 1 => result[g - 1].tag < result[g].tag
       /\ Len(ordinals) >= 1
       /\ \A k \in DOMAIN ordinals :
            /\ k > 1 => ordinals[k - 1] < ordinals[k]
            /\ ordinals[k] < n /\ job.rows[ordinals[k] + 1].tag = result[g].tag
  /\ UNION {Range(result[g].ordinals) : g \in DOMAIN result} = 0..(n - 1)

DecodePartition ==
  /\ At("decode")
  /\ IF Canonical(index.result) THEN Goto("done") ELSE Return("done", "BackendProtocolError")
  /\ UNCHANGED <<job, now, cancelled, signal, relay, native, index>>

-----------------------------------------------------------------------------

Caller ==
  \/ StartPartition \/ EncodeAxiom \/ EncodedAll \/ Check \/ Configure \/ EnterRelay \/ EnterNative
  \/ IndexRow \/ IndexEncode \/ Exit \/ Join \/ DecodePartition
SessionWork == \E n \in Amounts : SessionStep(n)
Relaying == Poll \/ Look

Settled == At("done") /\ relay.pc \in {"none", "ended"}
Finished == Settled /\ UNCHANGED vars

Next ==
  \/ Caller
  \/ SessionWork
  \/ \E n \in Amounts : SessionReserve(n) \/ SessionReserveTemporary(n)
  \/ SessionFinish
  \/ Relaying
  \/ Cancel \/ Tick \/ Interrupt \/ Finished

\* Both threads run; an operation in native code goes on counting its work.
Fairness == WF_vars(Caller) /\ WF_vars(SessionWork) /\ WF_vars(Relaying)

Spec == Init /\ [][Next]_vars /\ Fairness

-----------------------------------------------------------------------------

TypeOK ==
  /\ job \in Jobs /\ now \in 0..MaxTime /\ cancelled \in BOOLEAN
  /\ signal \in {"none", "pending", "raised"}
  /\ call.outcome \in {"none", "ok", "limit", "deadline", "OperationCancelled", "KeyboardInterrupt",
                       "ValueError", "BackendProtocolError"}
  /\ relay.pc \in {"none", "waiting", "looking", "ended"} /\ relay.stop \in BOOLEAN
  /\ native.flag \in BOOLEAN /\ native.slack \in 0..job.stride

\* The bytes of the source and of the result, and whether they pass the limits.
SourceBytes[n \in 0..Len(job.rows)] == IF n = 0 THEN Header ELSE SourceBytes[n - 1] + 8 + job.rows[n].bytes
Total == SourceBytes[Len(job.rows)]
Tags == {job.rows[i].tag : i \in DOMAIN job.rows}
Allowed ==
  LET result == Header + 16 * Cardinality(Tags) + 8 * Len(job.rows) IN
  /\ Len(job.rows) <= job.max_rows /\ Max({Total, result}) <= job.max_bytes
  /\ job.max_memory = None \/ Total + 8 * Len(job.rows) + result <= job.max_memory

\* Each constructor once, with its rows in their order.
RowsOf(tag) == {i - 1 : i \in {k \in DOMAIN job.rows : job.rows[k].tag = tag}}
Ascending(s) == \A i, j \in DOMAIN s : i < j => s[i] < s[j]
Partitioned(result) ==
  /\ Len(result) = Cardinality(Tags) /\ {result[g].tag : g \in DOMAIN result} = Tags
  /\ \A g \in DOMAIN result : Ascending(result[g].ordinals) /\ Range(result[g].ordinals) = RowsOf(result[g].tag)

\* The cause of an answer: cancellation only of a token that is cancelled or
\* has expired, a deadline only when one has passed, an interrupt only when
\* one was raised.
CauseIsReal ==
  /\ call.outcome \in {"OperationCancelled", "ValueError"} => TokenCancelled
  /\ call.outcome = "ValueError" => DeadlineExceeded
  /\ call.outcome = "deadline" => DeadlineExceeded \/ Passed(job.deadline)
  /\ call.outcome = "KeyboardInterrupt" => signal = "raised"

\* The answer has its cause, whatever raced the work; a partition is refused
\* for a limit only if it does not fit, is returned only if it does, and then
\* holds every row under its own constructor in row order, so that the Python
\* decoder never rejects what native code has built.
AnswersAreHonest ==
  /\ TypeOK
  /\ CauseIsReal
  /\ call.outcome # "BackendProtocolError"
  /\ IsIndex /\ call.outcome = "limit" => ~ Allowed
  /\ IsIndex /\ At("done") /\ call.outcome = "ok" =>
       /\ Allowed
       /\ Partitioned(index.result)

\* While native code goes on, it has done less than one stride of work since
\* its caller asked it to end: Guard.check may skip polls, never for longer.
StopsWithinAStride ==
  call.pc \in {"session", "build"} => native.overrun < job.stride

\* Every byte charged to the operation is input, temporary or kept, each
\* counted once, also after a refused reservation; neither ceiling is passed.
BudgetsAreExact ==
  native.used > 0 =>
    /\ native.used = Input + native.temporary + native.persistent
    /\ native.temporary <= job.max_temporary
    /\ job.max_memory # None => native.used <= job.max_memory

\* A call whose token is cancelled returns, however long its operation, and
\* its relay thread ends; so does every partition.
CancelledCallsReturn == (TokenCancelled \/ IsIndex) ~> Settled
=============================================================================
