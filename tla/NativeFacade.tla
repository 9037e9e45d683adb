---------------------------- MODULE NativeFacade ----------------------------
(***************************************************************************)
(* A published storage behind its handles (publication/facade_v2.rs,       *)
(* publication/handle.rs): requests are validated, select a table and are  *)
(* answered in pages; handles are closed; every call is counted in a       *)
(* CounterStateV2 that several threads share and that a forked child       *)
(* inherits in whatever state it was.                                      *)
(***************************************************************************)
EXTENDS FacadeAuxiliary

CONSTANTS Threads, Handles, MaxCount, MaxProcesses

ASSUME FacadeAssumption ==
  IsFiniteSet(Threads) /\ IsFiniteSet(Handles) /\ MaxCount \in Nat /\ MaxProcesses \in Nat \ {0}

\* Processes share no memory after a fork, and a parent goes on as if it had not
\* forked: the model follows one process, and a fork follows the child.
VARIABLES
  self,    \* identifier of the process followed
  pid, gate, values,  \* CounterStateV2
  open,    \* handle -> not yet closed
  pc, op,  \* thread -> where its call is, and the call
  calls,   \* calls started, bounded by call.calls
  done,    \* what the completed calls of this process add up to
  lost     \* the process was forked while its counters were being reset
counterVars == <<pid, gate, values>>
liveVars == <<self, counterVars, open, pc, op, calls, done, lost>>
vars == <<auxVars, liveVars>>

-----------------------------------------------------------------------------
(* Requests                                                                *)

DocumentOnly == Collections \ {"OriginEntries"}
DigestFilterSupported == {"SourceMapEntries", "OriginEntries"}
RequiredCapability(c) == CASE c \in {"SourceMapEntries", "SourceMapPrefixes"} -> 8
                           [] c = "OriginEntries" -> 16
                           [] OTHER -> 32
HasBit(bits, bit) == (bits \div bit) % 2 = 1

\* fixed is the ordinal of a document handle, or None for a snapshot handle.
ValidateRequest(request, fixed) ==
  /\ request.maxRowBytes = storage.maximum
  /\ request.coordinate.document < storage.count
  /\ fixed # None => request.coordinate.document = fixed
  /\ request.coordinate.collection \in DocumentOnly => request.coordinate.document # Closure
  /\ HasBit(storage.bits, RequiredCapability(request.coordinate.collection))
  /\ request.filter # None => request.coordinate.collection \in DigestFilterSupported

TableRows(tables, coordinate) ==
  LET found == SelectSeq(tables, LAMBDA t : t.coordinate = coordinate)
  IN  IF found = <<>> THEN None ELSE found[1].rows

\* The source tables are always raw, but only origins have raw tables.
SelectRows(coordinate, rawOwner) ==
  LET useRaw == /\ coordinate.document # Closure
                /\ \/ coordinate.collection \in {"SourceMapEntries", "SourceMapPrefixes"}
                   \/ rawOwner /\ coordinate.collection = "OriginEntries"
      raw == IF useRaw THEN TableRows(storage.raw, coordinate) ELSE None
      shown == TableRows(storage.effective, coordinate)
  IN  IF raw # None THEN raw ELSE IF shown # None THEN shown ELSE <<>>

\* The rows from lower up to upper have the digest, if the rows are grouped:
\* partition_point searches by halves.
PartitionPoint(rows, Holds(_)) ==
  LET search[range \in (0..Len(rows)) \X (0..Len(rows))] ==
        LET middle == (range[1] + range[2]) \div 2
        IN  IF range[1] = range[2] THEN range[1]
            ELSE IF Holds(rows[middle + 1]) THEN search[<<middle + 1, range[2]>>] ELSE search[<<range[1], middle>>]
  IN  search[<<0, Len(rows)>>]
DigestRange(rows, filter) ==
  IF filter = None THEN <<0, Len(rows)>>
  ELSE <<PartitionPoint(rows, LAMBDA r : r.digest < filter), PartitionPoint(rows, LAMBDA r : r.digest <= filter)>>

\* Mutant: a page ends at the end of the table.
PageStopUnfiltered(rows, range, start, maxRows) == Min({Len(rows), range[1] + start + maxRows})

PageStop(rows, range, start, maxRows) == Min({range[2], range[1] + start + maxRows})
BoundedPageEnd(rows, start, stop, maxBytes) ==
  LET bytes(end) == Sum(SubSeq(rows, start + 1, end), LAMBDA r : r.len)
  IN  Max({start} \cup {end \in start + 1..stop : end = start + 1 \/ bytes(end) <= maxBytes})

Page(request, rawOwner, fixed) ==
  LET rows == SelectRows(request.coordinate, rawOwner)
      range == DigestRange(rows, request.filter)
      total == range[2] - range[1]
      end == BoundedPageEnd(rows, range[1] + request.start,
                            PageStop(rows, range, request.start, request.maxRows), request.maxBytes)
      emitted == SubSeq(rows, range[1] + request.start + 1, end)
      next == request.start + Len(emitted)
  IN  IF ~ValidateRequest(request, fixed) \/ request.start > total THEN None
      ELSE [rows |-> emitted, total |-> total, terminal |-> next = total, next |-> IF next = total THEN None ELSE next]

-----------------------------------------------------------------------------
(* Handles and counters                                                    *)

\* The counters this model tells apart: those of the publication, of a process
\* epoch and of the native runtime.
ZeroEpoch == [requests |-> 0, rows |-> 0, emitted |-> 0, closes |-> 0, transitions |-> 0, encoded |-> 0]
Values(reinit, parser) ==
  [f \in DOMAIN ZeroEpoch \cup {"reinit", "parser"} |->
     CASE f = "reinit" -> reinit [] f = "parser" -> parser [] OTHER -> ZeroEpoch[f]]
InitialValues == Values(0, call.parser)
\* Every counter from PAGE_REQUESTS on is cleared.
ResetValues == Values(1, 0)

\* What a call adds; [rows] and [emitted] are two counters of one amount.
Amount(o) ==
  [ZeroEpoch EXCEPT !.requests = IF o.name = "page" THEN 1 ELSE 0,
                    !.rows = IF o.name = "page" THEN o.rows ELSE 0,
                    !.emitted = IF o.name = "page" THEN o.rows ELSE 0,
                    !.closes = IF o.name = "close" THEN 1 ELSE 0,
                    !.transitions = IF o.name = "close" /\ o.transitioned THEN 1 ELSE 0,
                    !.encoded = IF o.name = "encode" THEN 1 ELSE 0]
Add(held, o, fields) == [f \in DOMAIN held |-> IF f \in fields THEN held[f] + Amount(o)[f] ELSE held[f]]
FirstHalf == {"requests", "rows", "closes"}
SecondHalf == {"emitted", "transitions", "encoded"}
Overflows(held, o) == \E f \in DOMAIN ZeroEpoch : held[f] + Amount(o)[f] > MaxCount

Idle == [name |-> "none", rows |-> 0, transitioned |-> FALSE, observed |-> 0]

Init == /\ AuxInit
        /\ self = 1 /\ pid = 1 /\ gate = FALSE /\ values = InitialValues
        /\ open = [h \in Handles |-> TRUE]
        /\ pc = [t \in Threads |-> "idle"] /\ op = [t \in Threads |-> Idle]
        /\ calls = 0 /\ done = ZeroEpoch /\ lost = FALSE

At(t, from) == stage = "ready" /\ pc[t] = from
Goto(t, to) == pc' = [pc EXCEPT ![t] = to]

StartCall(t, o) == /\ At(t, "idle") /\ calls < call.calls
                   /\ calls' = calls + 1
                   /\ op' = [op EXCEPT ![t] = o]
                   /\ Goto(t, "prepare")
                   /\ UNCHANGED <<auxVars, self, counterVars, done, lost>>

\* page: require_open, the page itself, and then the counters.
StartPage(t, h) == /\ open[h]
                   /\ StartCall(t, [Idle EXCEPT !.name = "page", !.rows = 1])
                   /\ UNCHANGED open

\* close_v2: the swap decides who closed; the request is counted either way.
StartClose(t, h) == /\ StartCall(t, [Idle EXCEPT !.name = "close", !.transitioned = open[h]])
                    /\ open' = [open EXCEPT ![h] = FALSE]

\* Neither requires an open handle.
StartOther(t, name) == StartCall(t, [Idle EXCEPT !.name = name]) /\ UNCHANGED open

\* prepare_process_id: nobody, the calling process, or the process it was
\* forked from owns the counters.  While nobody does, the thread spins.
PrepareLoad(t) ==
  /\ At(t, "prepare") /\ pid # 0
  /\ Goto(t, IF pid = self THEN "lock" ELSE "claim")
  /\ op' = [op EXCEPT ![t].observed = pid]
  /\ UNCHANGED <<auxVars, self, counterVars, open, calls, done, lost>>

PrepareClaim(t) ==
  LET claimed == pid = op[t].observed
  IN  /\ At(t, "claim")
      /\ Goto(t, IF claimed THEN "clear" ELSE "prepare")
      /\ pid' = IF claimed THEN 0 ELSE pid
      /\ UNCHANGED <<auxVars, self, gate, values, open, op, calls, done, lost>>

\* Mutant: the gate is inherited as it is.
ClearGateKeeping(t) == /\ At(t, "clear") /\ Goto(t, "resetlock")
                       /\ UNCHANGED <<auxVars, self, counterVars, open, op, calls, done, lost>>

ClearGate(t) == /\ At(t, "clear") /\ Goto(t, "resetlock")
                /\ gate' = FALSE
                /\ UNCHANGED <<auxVars, self, pid, values, open, op, calls, done, lost>>

Lock(t, from, to) == /\ At(t, from) /\ ~gate
                     /\ Goto(t, to)
                     /\ gate' = TRUE
                     /\ UNCHANGED <<auxVars, self, pid, values, open, op, calls, done, lost>>

\* Mutant: only the process identifier changes.
ResetKeeping(t) == /\ At(t, "reset") /\ Goto(t, "resetunlock")
                   /\ pid' = self
                   /\ UNCHANGED <<auxVars, self, gate, values, open, op, calls, done, lost>>

Reset(t) == /\ At(t, "reset") /\ Goto(t, "resetunlock")
            /\ values' = ResetValues /\ pid' = self
            /\ UNCHANGED <<auxVars, self, gate, open, op, calls, done, lost>>

ResetUnlock(t) == /\ At(t, "resetunlock") /\ Goto(t, "lock")
                  /\ gate' = FALSE
                  /\ UNCHANGED <<auxVars, self, pid, values, open, op, calls, done, lost>>

\* add_pairs: all additions are checked before the first is made.
AddFirst(t) ==
  LET refused == Overflows(values, op[t])
  IN  /\ At(t, "add") /\ Goto(t, IF refused THEN "unlock" ELSE "add2")
      /\ values' = IF refused THEN values ELSE Add(values, op[t], FirstHalf)
      /\ UNCHANGED <<auxVars, self, pid, gate, open, op, calls, done, lost>>

AddSecond(t) == /\ At(t, "add2") /\ Goto(t, "unlock")
                /\ values' = Add(values, op[t], SecondHalf)
                /\ done' = Add(done, op[t], DOMAIN ZeroEpoch)
                /\ UNCHANGED <<auxVars, self, pid, gate, open, op, calls, lost>>

Return(t) == /\ At(t, "unlock") /\ Goto(t, "idle")
             /\ gate' = FALSE
             /\ op' = [op EXCEPT ![t] = Idle]
             /\ UNCHANGED <<auxVars, self, pid, values, open, calls, done, lost>>

\* The child has the memory of its parent and one thread, the caller.
Fork(t) ==
  /\ At(t, "idle") /\ self < MaxProcesses
  /\ self' = self + 1
  /\ pc' = [u \in Threads |-> "idle"] /\ op' = [u \in Threads |-> Idle]
  /\ done' = ZeroEpoch
  /\ lost' = (pid = 0)
  /\ UNCHANGED <<auxVars, counterVars, open, calls>>

Continue(t) == \/ PrepareLoad(t) \/ PrepareClaim(t) \/ ClearGate(t)
               \/ Lock(t, "resetlock", "reset") \/ Reset(t) \/ ResetUnlock(t)
               \/ Lock(t, "lock", "add") \/ AddFirst(t) \/ AddSecond(t) \/ Return(t)

Next == \/ AuxNext /\ UNCHANGED liveVars
        \/ \E t \in Threads : \/ Continue(t) \/ Fork(t)
                              \/ \E h \in Handles : StartPage(t, h) \/ StartClose(t, h)
                              \/ \E name \in {"encode", "counters"} : StartOther(t, name)

\* Threads are scheduled, and a spinning thread yields.  No fairness of the gate
\* is assumed: calls are bounded, so contention for it ends.
Spec == Init /\ [][Next]_vars /\ \A t \in Threads : WF_vars(Continue(t))

-----------------------------------------------------------------------------
(* Properties                                                              *)

TypeOK ==
  /\ stage \in {"begin", "source", "rdf", "origins", "combine", "sort", "commit", "ready", "failed"}
  /\ (stage = "failed") = (err # None)
  /\ pid \in 0..MaxProcesses /\ self \in 1..MaxProcesses
  /\ \A t \in Threads : pc[t] # "idle" => stage = "ready"

\* Pages of every handle, collection and digest, read by following the cursor,
\* are the rows the input holds for that document: a document handle sees its
\* own origins and never leaves its document, a snapshot handle sees the
\* effective ones, and a filter selects the rows of its digest.
Expected(coordinate, rawOwner) ==
  LET d == coordinate.document + 1
      report == call.rdf.docs[d]
  IN  CASE coordinate.collection = "SourceMapEntries" -> call.sources.docs[d].entries.rows
        [] coordinate.collection = "SourceMapPrefixes" -> call.sources.docs[d].prefixes.rows
        [] coordinate.collection = "RdfReportHeader" -> IF report = None THEN <<>> ELSE <<HeaderRow>>
        [] coordinate.collection = "RdfUnconsumedTriples" -> IF report = None THEN <<>> ELSE report.triples.rows
        [] coordinate.collection = "RdfRuleIds" -> IF report = None THEN <<>> ELSE report.rules.rows
        [] coordinate.collection = "RdfDiagnostics" -> IF report = None THEN <<>> ELSE report.diagnostics.rows
        [] coordinate.collection = "OriginEntries" /\ d = 0 -> ClosureOrigins(call.origins.docs)
        [] OTHER -> IF rawOwner /\ call.raw # None THEN call.raw.docs[d].rows ELSE call.origins.docs[d].rows

Granted(coordinate) ==
  /\ coordinate.collection \in {"SourceMapEntries", "SourceMapPrefixes"} => call.sources # None
  /\ coordinate.collection = "OriginEntries" => call.origins # None
  /\ coordinate.collection \in {"RdfReportHeader", "RdfUnconsumedTriples", "RdfRuleIds", "RdfDiagnostics"} => RdfReportCount # 0
  /\ coordinate.collection # "OriginEntries" => coordinate.document # Closure

Follow(coordinate, rawOwner, fixed, filter, size) ==
  LET request(start) == [coordinate |-> coordinate, start |-> start, filter |-> filter, maxRowBytes |-> storage.maximum,
                         maxRows |-> size[1], maxBytes |-> size[2]]
      read[start \in 0..20] ==
        LET page == Page(request(start), rawOwner, fixed)
        IN  IF page = None THEN None
            ELSE IF page.terminal THEN page.rows
            ELSE IF page.rows = <<>> \/ read[page.next] = None THEN None
            ELSE page.rows \o read[page.next]
  IN  read[0]

PagesAreExact ==
  stage = "ready" /\ calls = 0 =>
    \A c \in Collections, d \in {Closure} \cup 0..call.count - 1, rawOwner \in BOOLEAN, size \in {<<2, 4>>, <<1, 9>>},
       filter \in {None} \cup 1..2 :
      LET at == Coordinate(c, d)
          rows == Follow(at, rawOwner, IF rawOwner THEN 0 ELSE None, filter, size)
      IN  IF ~Granted(at) \/ (rawOwner /\ d # 0) \/ (filter # None /\ c \notin DigestFilterSupported)
          THEN rows = None
          ELSE rows = SelectSeq(Expected(at, rawOwner), LAMBDA r : filter = None \/ r.digest = filter)

\* The counters of a process are the calls it completed, no update is lost or
\* half made, and a child starts from zero whatever its parent was doing when
\* it forked.  A handle is closed once in a process: the transitions counted,
\* and those of calls under way, are never more than the handles closed.
CountersAreExact ==
  LET under == {t \in Threads : op[t].transitioned /\ pc[t] # "unlock"}
  IN  /\ TypeOK
      /\ pid = self /\ ~gate => \A f \in DOMAIN ZeroEpoch : values[f] = done[f]
      /\ done.transitions + Cardinality(under) <= Cardinality({h \in Handles : ~open[h]})

\* Every call returns, in a child forked while another thread held the gate
\* too.  The one exception is a process forked while a thread of its parent was
\* resetting the counters: it inherits the process identifier 0 and spins.
CallsReturn == \A t \in Threads : (pc[t] # "idle") ~> (pc[t] = "idle" \/ lost)

=============================================================================
