--------------------------- MODULE FacadeAuxiliary ---------------------------
(***************************************************************************)
(* prepare_typed_auxiliary_documents_v2 and the commit that follows        *)
(* (publication/facade_v2.rs): source maps, RDF reports and origins are    *)
(* moved into facade tables under a workspace budget that counts what is   *)
(* allocated and what of the input is given back, and the tables are       *)
(* published when they are what the attestation says.                      *)
(*                                                                         *)
(* A row is [digest, key, occ, enc, len, cap, ok]: its digest, the document*)
(* key or prefix it names, its occurrence, what orders it after those, its *)
(* length and capacity, and whether its fields decode.  A vector is        *)
(* [rows, cap].  Reservations are exact.                                   *)
(***************************************************************************)
EXTENDS Integers, Sequences, FiniteSets, FiniteSetsExt, TLC

CONSTANTS None, Preparations

ASSUME NoneAssumption == None \notin {"CANCELLED", "PROTOCOL", "LIMIT", "ACCOUNTING"}

\* Sizes of the Rust types, different so that no error cancels another.
VecBytes == 3      \* Vec<u8>, Vec<Vec<u8>>
RefBytes == 1      \* Arc<Vec<u8>>
ArcBytes == 5      \* the allocation behind it
TableBytes == 7    \* FacadeTableV2
SourceBytes == 6   \* TypedSourceMapRowsV2
ReportBytes == 11  \* Option<TypedRdfReportRowsV2>
StructuralBytes == 20  \* what the typed structural owner retains

VARIABLES
  call,       \* arguments of prepare and of the commit
  stage,      \* "source", "rdf", "origins", "combine", "commit", "ready" or "failed"
  cancelled,
  err,
  budget,     \* AuxiliaryPreparationBudget
  source, rdf, origins,  \* Retained*TablesV2
  storage     \* the published tables and their counters
auxVars == <<call, stage, cancelled, err, budget, source, rdf, origins, storage>>

\* Op applied to the indices 1..n, and to the elements of a sequence, in their order.
FoldUpTo(Op(_, _), base, n) ==
  LET upto[i \in 0..n] == IF i = 0 THEN base ELSE Op(upto[i - 1], i) IN upto[n]
FoldRows(Op(_, _), base, seq) == FoldUpTo(LAMBDA acc, i : Op(acc, seq[i]), base, Len(seq))
Sum(seq, Op(_)) == FoldRows(LAMBDA total, x : total + Op(x), 0, seq)
Larger(a, b) == IF a > b THEN a ELSE b
RowCount(vecs) == Sum(vecs, LAMBDA v : Len(v.rows))

-----------------------------------------------------------------------------
(* AuxiliaryPreparationBudget                                              *)

NewBudget(releasable) == [prepared |-> 0, releasable |-> releasable, released |-> 0, peak |-> 0, err |-> None]
Live(b) == Larger(0, b.prepared - b.released)

\* preflight_allocation and retain_allocation of the same size.
Claim(b, bytes) ==
  LET following == [b EXCEPT !.prepared = @ + bytes]
  IN  IF b.err # None THEN b
      ELSE IF call.workspace # None /\ Live(following) > call.workspace THEN [b EXCEPT !.err = "LIMIT"]
      ELSE [following EXCEPT !.peak = Larger(@, Live(following))]

ReleaseInput(b, bytes) ==
  IF b.err # None THEN b
  ELSE [b EXCEPT !.released = @ + bytes, !.err = IF b.released + bytes > b.releasable THEN "ACCOUNTING" ELSE None]

ReleasePrepared(b, bytes) ==
  IF b.err # None THEN b
  ELSE [b EXCEPT !.prepared = @ - bytes, !.err = IF bytes > b.prepared THEN "ACCOUNTING" ELSE None]

Reject(b) == IF b.err = None THEN [b EXCEPT !.err = "PROTOCOL"] ELSE b

InputRowTable(vec) == VecBytes * vec.cap
Documents(documents) == IF documents = None THEN <<>> ELSE documents.docs
Outer(documents, size) == IF documents = None THEN 0 ELSE size * documents.cap
Reports(reports) == SelectSeq(Documents(reports), LAMBDA r : r # None)
Releasable(c) ==
  LET sum(vecs) == Sum(vecs, InputRowTable)
  IN  Outer(c.origins, VecBytes) + sum(Documents(c.origins))
      + Outer(c.raw, VecBytes) + sum(Documents(c.raw))
      + Outer(c.sources, SourceBytes)
      + Sum(Documents(c.sources), LAMBDA s : InputRowTable(s.entries) + InputRowTable(s.prefixes))
      + Outer(c.rdf, ReportBytes)
      + Sum(Reports(c.rdf), LAMBDA r : InputRowTable(r.triples) + InputRowTable(r.rules) + InputRowTable(r.diagnostics))

-----------------------------------------------------------------------------
(* Moving rows into tables                                                 *)

Payload(vec) == Sum(vec.rows, LAMBDA r : r.len)
Metadata(vec) == RefBytes * Len(vec.rows) + Sum(vec.rows, LAMBDA r : ArcBytes + r.cap - r.len)
PredictedOwner(vec) ==
  Payload(vec) + Sum(vec.rows, LAMBDA r : r.cap - r.len) + Len(vec.rows) * (ArcBytes + RefBytes)

\* The header vector was allocated here; every other one belongs to the input.
RetainRows(b, vec, outer) ==
  LET claimed == FoldRows(LAMBDA acc, r : IF r.len = 0 THEN Reject(acc) ELSE Claim(acc, ArcBytes),
                          Claim(b, RefBytes * Len(vec.rows)), vec.rows)
      freed == IF outer = "Input" THEN ReleaseInput(claimed, VecBytes * vec.cap)
                                  ELSE ReleasePrepared(claimed, VecBytes * vec.cap)
  IN  IF freed.err = None /\ Payload(vec) + Metadata(vec) < PredictedOwner(vec)
      THEN [freed EXCEPT !.err = "ACCOUNTING"] ELSE freed

Coordinate(collection, document) == [collection |-> collection, document |-> document]
Closure == -1
Empty == [b |-> None, tables |-> <<>>, payload |-> 0, metadata |-> 0, maximum |-> 1]

AddTable(acc, coordinate, vec, outer) ==
  [b |-> RetainRows(acc.b, vec, outer),
   tables |-> Append(acc.tables, [coordinate |-> coordinate, rows |-> vec.rows]),
   payload |-> acc.payload + Payload(vec), metadata |-> acc.metadata + Metadata(vec),
   maximum |-> Max({acc.maximum} \cup {r.len : r \in Range(vec.rows)})]

RetainTable(acc, coordinate, vec, outer) ==
  IF vec.rows = <<>> THEN [acc EXCEPT !.b = ReleaseInput(@, InputRowTable(vec))]
  ELSE AddTable(acc, coordinate, vec, outer)

Filled(vecs) == Len(SelectSeq(vecs, LAMBDA v : v.rows # <<>>))
Rejecting(acc, ok) == IF ok THEN acc ELSE [acc EXCEPT !.b = Reject(@)]
WithTables(b, count) == [Empty EXCEPT !.b = Claim(b, TableBytes * count), !.metadata = TableBytes * count]

-----------------------------------------------------------------------------
(* Source maps                                                             *)

Groups(rows) == \A i \in 1..Len(rows) - 1 : rows[i].digest <= rows[i + 1].digest
ValidEntries(rows) == (\A r \in Range(rows) : r.ok) /\ Groups(rows)
ValidPrefixes(rows) == (\A r \in Range(rows) : r.ok) /\ \A i \in 1..Len(rows) - 1 : rows[i].key < rows[i + 1].key

RetainSourceTables(b) ==
  LET docs == Documents(call.sources)
      start == WithTables(b, Sum(docs, LAMBDA s : Filled(<<s.entries, s.prefixes>>)))
      document(acc, d) ==
        RetainTable(RetainTable(Rejecting(acc, ValidEntries(docs[d].entries.rows) /\ ValidPrefixes(docs[d].prefixes.rows)),
                                Coordinate("SourceMapEntries", d - 1), docs[d].entries, "Input"),
                    Coordinate("SourceMapPrefixes", d - 1), docs[d].prefixes, "Input")
      all == FoldUpTo(LAMBDA acc, d : document(acc, d), start, Len(docs))
  IN  IF call.sources = None THEN [Empty EXCEPT !.b = b]
      ELSE [all EXCEPT !.b = ReleaseInput(@, SourceBytes * call.sources.cap)]

-----------------------------------------------------------------------------
(* RDF reports                                                             *)

ReportHolds(report) ==
  /\ report.consumed <= report.total
  /\ report.conformant => report.consumed = report.total /\ report.triples.rows = <<>>

HeaderRow == [digest |-> 0, key |-> 0, occ |-> 0, enc |-> 0, len |-> 17, cap |-> 17, ok |-> TRUE]
Header == [rows |-> <<HeaderRow>>, cap |-> 1]
RetainReport(acc, report, d) ==
  LET checked == Rejecting(acc, ReportHolds(report))
      header == AddTable([checked EXCEPT !.b = Claim(@, VecBytes)], Coordinate("RdfReportHeader", d), Header, "Prepared")
      triples == RetainTable(header, Coordinate("RdfUnconsumedTriples", d), report.triples, "Input")
      rules == RetainTable(triples, Coordinate("RdfRuleIds", d), report.rules, "Input")
  IN  RetainTable(rules, Coordinate("RdfDiagnostics", d), report.diagnostics, "Input")

RetainRdfTables(b) ==
  LET docs == Documents(call.rdf)
      start == WithTables(b, Sum(Reports(call.rdf), LAMBDA r : 1 + Filled(<<r.triples, r.rules, r.diagnostics>>)))
      all == FoldUpTo(LAMBDA acc, d : IF docs[d] = None THEN acc ELSE RetainReport(acc, docs[d], d - 1), start, Len(docs))
  IN  IF call.rdf = None THEN [Empty EXCEPT !.b = b]
      ELSE [all EXCEPT !.b = ReleaseInput(@, ReportBytes * call.rdf.cap)]

-----------------------------------------------------------------------------
(* Origins                                                                 *)

OriginOrderKey(row) == <<row.digest, row.key, row.occ, row.enc>>
KeyLess(a, b) == \E i \in 1..4 : a[i] < b[i] /\ \A j \in 1..i - 1 : a[j] = b[j]
OriginLess(r, s) == KeyLess(OriginOrderKey(r), OriginOrderKey(s))
Decodes(rows) == \A r \in Range(rows) : r.ok
OneDocument(rows) == \A r \in Range(rows) : r.key = rows[1].key
StrictlyAscending(rows) == \A i \in 1..Len(rows) - 1 : OriginLess(rows[i], rows[i + 1])
ValidEffectiveOrigins(rows) == Decodes(rows) /\ OneDocument(rows) /\ StrictlyAscending(rows)
ValidRawOrigins(rows) == Decodes(rows) /\ OneDocument(rows) /\ Groups(rows)

\* An insertion keeps equal rows, which are then refused.
ClosureOrigins(docs) ==
  FoldRows(LAMBDA sorted, r : LET before == Cardinality({i \in DOMAIN sorted : ~OriginLess(r, sorted[i])})
                              IN  SubSeq(sorted, 1, before) \o <<r>> \o SubSeq(sorted, before + 1, Len(sorted)),
           <<>>, FoldRows(LAMBDA all, v : all \o v.rows, <<>>, docs))

RetainOriginTables(b) ==
  LET docs == Documents(call.origins)
      count == RowCount(docs)
      closureVec == [rows |-> ClosureOrigins(docs), cap |-> count]
      valid == /\ \A d \in DOMAIN docs : ValidEffectiveOrigins(docs[d].rows)
               /\ \A d \in DOMAIN Documents(call.raw) : ValidRawOrigins(Documents(call.raw)[d].rows)
      table == IF count = 0 THEN 0 ELSE 1
      start == [WithTables(IF valid THEN Claim(b, RefBytes * count) ELSE Reject(b), Filled(docs) + table)
                  EXCEPT !.metadata = @ + RefBytes * count]
      shown == FoldUpTo(LAMBDA acc, d : RetainTable(acc, Coordinate("OriginEntries", d - 1), docs[d], "Input"), start, Len(docs))
      freed == Rejecting([shown EXCEPT !.b = ReleaseInput(@, VecBytes * call.origins.cap)], StrictlyAscending(closureVec.rows))
      rawStart == [freed EXCEPT !.b = Claim(@, TableBytes * Len(call.raw.docs)),
                                !.metadata = @ + TableBytes * Len(call.raw.docs), !.tables = <<>>]
      raw == FoldUpTo(LAMBDA acc, d : AddTable(acc, Coordinate("OriginEntries", d - 1), call.raw.docs[d], "Input"),
                       rawStart, Len(call.raw.docs))
      effective == freed.tables \o (IF count = 0 THEN <<>>
                                    ELSE <<[coordinate |-> Coordinate("OriginEntries", Closure), rows |-> closureVec.rows]>>)
      result == IF call.raw = None THEN freed ELSE [raw EXCEPT !.b = ReleaseInput(@, VecBytes * call.raw.cap)]
  IN  IF call.origins = None THEN [Empty EXCEPT !.b = b] @@ [raw |-> <<>>, rowCount |-> 0]
      ELSE [result EXCEPT !.tables = effective]
           @@ [raw |-> IF call.raw = None THEN <<>> ELSE raw.tables,
               rowCount |-> 2 * count + (IF call.raw = None THEN 0 ELSE RowCount(call.raw.docs))]

-----------------------------------------------------------------------------
(* prepare_typed_auxiliary_documents_v2                                    *)

OriginMinimum == 2  \* a row shorter than a digest is refused at once
Aligned(documents) == documents = None \/ Len(documents.docs) = call.count
AllOrigins == Documents(call.origins) \o Documents(call.raw)
Retained(acc) == [acc EXCEPT !.b = None]

AuxInit == /\ call \in Preparations
           /\ stage = "begin" /\ cancelled = FALSE /\ err = None
           /\ budget = NewBudget(0)
           /\ source = Empty /\ rdf = Empty /\ origins = Empty /\ storage = None

Fails(e) == stage' = "failed" /\ err' = e
\* A stage ends with the state of the budget after it.
Proceed(b, to) == /\ budget' = b
                  /\ IF b.err = None THEN stage' = to /\ UNCHANGED err ELSE Fails(b.err)
Checkpoint(from) == stage = from /\ cancelled = FALSE

Cancel == /\ stage \notin {"commit", "ready", "failed"} /\ ~cancelled
          /\ cancelled' = TRUE
          /\ UNCHANGED <<call, stage, err, budget, source, rdf, origins, storage>>

SeeCancellation == /\ stage \in {"source", "rdf", "origins", "combine", "sort"} /\ cancelled
                   /\ Fails("CANCELLED")
                   /\ UNCHANGED <<call, cancelled, budget, source, rdf, origins, storage>>

BeginPreparation ==
  LET short == \E v \in Range(AllOrigins) : \E r \in Range(v.rows) : r.len < OriginMinimum
      refused == \/ call.raw # None /\ call.origins = None
                 \/ \E d \in {call.origins, call.raw, call.sources, call.rdf} : ~Aligned(d)
                 \/ short
      b == NewBudget(Releasable(call))
  IN  /\ stage = "begin"
      /\ Proceed(IF refused THEN Reject(b) ELSE b, "source")
      /\ UNCHANGED <<call, cancelled, source, rdf, origins, storage>>

RetainSource ==
  LET acc == RetainSourceTables(budget)
  IN  /\ Checkpoint("source") /\ Proceed(acc.b, "rdf") /\ source' = Retained(acc)
      /\ UNCHANGED <<call, cancelled, rdf, origins, storage>>

RetainRdf ==
  LET acc == RetainRdfTables(budget)
  IN  /\ Checkpoint("rdf") /\ Proceed(acc.b, "origins") /\ rdf' = Retained(acc)
      /\ UNCHANGED <<call, cancelled, source, origins, storage>>

RetainOrigins ==
  LET acc == RetainOriginTables(budget)
  IN  /\ Checkpoint("origins") /\ Proceed(acc.b, "combine") /\ origins' = Retained(acc)
      /\ UNCHANGED <<call, cancelled, source, rdf, storage>>

\* The tables of the three parts move into one vector, which grows in place of
\* the one the origins had.
TableVector(acc) == TableBytes * Len(acc.tables)
CombinedTables == origins.tables \o source.tables \o rdf.tables
\* Mutant: the vectors the tables are moved out of stay counted.
CombineTablesKeeping(b) ==
  IF source.tables \o rdf.tables = <<>> THEN b
  ELSE ReleasePrepared(Claim(b, TableBytes * Len(CombinedTables)), TableVector(origins))

\* Grown in place: the old vector is given back.
CombineTables(b) ==
  LET grown == IF source.tables \o rdf.tables = <<>> THEN b
               ELSE ReleasePrepared(Claim(b, TableBytes * Len(CombinedTables)), TableVector(origins))
  IN  ReleasePrepared(ReleasePrepared(grown, TableVector(source)), TableVector(rdf))

Combine == /\ Checkpoint("combine")
           /\ Proceed(CombineTables(budget), "sort")
           /\ source' = [source EXCEPT !.metadata = @ - TableVector(source)]
           /\ rdf' = [rdf EXCEPT !.metadata = @ - TableVector(rdf)]
           /\ UNCHANGED <<call, cancelled, origins, storage>>

UniqueCoordinates(tables) ==
  \A i, j \in DOMAIN tables : tables[i].coordinate = tables[j].coordinate => i = j
FinishPreparation ==
  LET b == IF ~UniqueCoordinates(CombinedTables) THEN Reject(budget)
           ELSE IF budget.released # budget.releasable THEN [budget EXCEPT !.err = "ACCOUNTING"]
           ELSE budget
  IN  /\ Checkpoint("sort")
      /\ Proceed(b, "commit")
      /\ origins' = [origins EXCEPT !.metadata = @ - TableVector(origins) + TableBytes * Len(CombinedTables)]
      /\ UNCHANGED <<call, cancelled, source, rdf, storage>>

-----------------------------------------------------------------------------
(* validate_commit and commit_typed_auxiliary                              *)

StructuralMaximum == 2
Rows(tables, collection) ==
  Sum(SelectSeq(tables, LAMBDA t : t.coordinate.collection = collection), LAMBDA t : Len(t.rows))
RdfReportCount == Len(Reports(call.rdf))
RawOriginCount == RowCount(Documents(IF call.raw = None THEN call.origins ELSE call.raw))
OriginMaximum == Max({1} \cup UNION {{r.len : r \in Range(v.rows)} : v \in Range(AllOrigins)})
CapabilityBits == 7 + (IF call.sources # None THEN 8 ELSE 0) + (IF call.origins # None THEN 16 ELSE 0)
                  + (IF RdfReportCount # 0 THEN 32 ELSE 0)

Attests(att) ==
  /\ att.documents = call.count
  /\ att.maximum = Max({StructuralMaximum, OriginMaximum, source.maximum, rdf.maximum})
  /\ att.bits = CapabilityBits
  /\ att.sourceEntries = Rows(source.tables, "SourceMapEntries")
  /\ att.originEntries = RawOriginCount
  /\ att.reports = RdfReportCount
  /\ call.parser \in {0, att.bytes}

Collections == {"SourceMapEntries", "SourceMapPrefixes", "OriginEntries", "RdfReportHeader",
                "RdfUnconsumedTriples", "RdfRuleIds", "RdfDiagnostics"}

InitialCounters ==
  LET metadata == origins.metadata + source.metadata + rdf.metadata
  IN  [rows |-> [c \in Collections |-> IF c = "OriginEntries" THEN origins.rowCount ELSE Rows(source.tables \o rdf.tables, c)],
       source |-> source.payload, origin |-> origins.payload, rdf |-> rdf.payload, metadata |-> metadata,
       owner |-> StructuralBytes + metadata + source.payload + origins.payload + rdf.payload]

RetainedTotal(c) == StructuralBytes + c.source + c.origin + c.rdf + c.metadata

Commit ==
  LET counters == InitialCounters
      e == IF ~Attests(call.att) THEN "PROTOCOL"
           ELSE IF call.memory # None /\ counters.owner > call.memory THEN "LIMIT"
           ELSE IF RetainedTotal(counters) # counters.owner THEN "ACCOUNTING" ELSE None
  IN  /\ stage = "commit"
      /\ IF e # None THEN Fails(e) /\ UNCHANGED storage
         ELSE /\ stage' = "ready" /\ UNCHANGED err
              /\ storage' = [effective |-> CombinedTables, raw |-> origins.raw, bits |-> call.att.bits,
                             maximum |-> call.att.maximum, count |-> call.count, counters |-> counters]
      /\ UNCHANGED <<call, cancelled, budget, source, rdf, origins>>

AuxNext == \/ Cancel \/ SeeCancellation \/ BeginPreparation
           \/ RetainSource \/ RetainRdf \/ RetainOrigins
           \/ Combine \/ FinishPreparation \/ Commit

-----------------------------------------------------------------------------
(* Properties                                                              *)

\* The books balance.  Whatever reports are absent and vectors empty or with
\* spare room, the preparation gives back exactly the input it said it would,
\* and no ledger underflows or diverges.  What is prepared, and the row buffers
\* moved from the input, are what retained_owner_bytes reports.  And the
\* retained-row counters count every row of every table that can be served,
\* the closure's and the raw owners' included.
BooksBalance ==
  /\ err # "ACCOUNTING"
  /\ stage \in {"commit", "ready"} =>
       LET moved(tables) == Sum(tables, LAMBDA t : Sum(t.rows, LAMBDA r : r.cap))
           own == SelectSeq(CombinedTables, LAMBDA t : t.coordinate # Coordinate("OriginEntries", Closure))
           bytes(acc) == acc.payload + acc.metadata
       IN  budget.prepared + moved(own \o origins.raw) = bytes(source) + bytes(rdf) + bytes(origins)
  /\ stage = "ready" =>
       \A c \in Collections : storage.counters.rows[c] = Rows(storage.effective \o storage.raw, c)

\* What the caller should have passed, said of the input alone: every row
\* decodes, groups and keys are in order, no origin is claimed by two documents,
\* and the attestation counts what is there.
InputRows(documents) == UNION {Range(v.rows) : v \in Range(Documents(documents))}
SourceVectors == {s.entries : s \in Range(Documents(call.sources))} \cup {s.prefixes : s \in Range(Documents(call.sources))}
ReportVectors == UNION {{r.triples, r.rules, r.diagnostics} : r \in Range(Reports(call.rdf))}
Lengths == UNION {{r.len : r \in Range(v.rows)} : v \in SourceVectors \cup ReportVectors \cup Range(AllOrigins)}
OrderedBy(rows, Before(_, _)) == \A i, j \in DOMAIN rows : i < j => Before(rows[i], rows[j])
WellFormed ==
  /\ call.raw # None => call.origins # None
  /\ \A d \in {call.origins, call.raw, call.sources, call.rdf} : Aligned(d)
  /\ 0 \notin Lengths
  /\ \A r \in InputRows(call.origins) \cup InputRows(call.raw) : r.ok /\ r.len >= OriginMinimum
  /\ \A v \in SourceVectors : \A r \in Range(v.rows) : r.ok
  /\ \A s \in Range(Documents(call.sources)) :
       /\ OrderedBy(s.entries.rows, LAMBDA a, b : a.digest <= b.digest)
       /\ OrderedBy(s.prefixes.rows, LAMBDA a, b : a.key < b.key)
  /\ \A r \in Range(Reports(call.rdf)) : ReportHolds(r)
  /\ \A v \in Range(AllOrigins) : \A r, s \in Range(v.rows) : r.key = s.key
  /\ \A v \in Range(Documents(call.origins)) : OrderedBy(v.rows, OriginLess)
  /\ \A v \in Range(Documents(call.raw)) : OrderedBy(v.rows, LAMBDA a, b : a.digest <= b.digest)
  /\ \A d, e \in DOMAIN Documents(call.origins) :
       d # e => Range(call.origins.docs[d].rows) \cap Range(call.origins.docs[e].rows) = {}
  /\ call.att = [documents |-> call.count, bits |-> CapabilityBits, reports |-> RdfReportCount,
                 sourceEntries |-> Sum(Documents(call.sources), LAMBDA s : Len(s.entries.rows)),
                 originEntries |-> RawOriginCount, bytes |-> call.att.bytes,
                 maximum |-> Max({StructuralMaximum} \cup Lengths \cup (IF RdfReportCount = 0 THEN {} ELSE {17}))]
  /\ call.parser \in {0, call.att.bytes}

\* A preparation is refused as malformed exactly when it is: the order in which
\* parts are validated, merged and compared with the attestation hides nothing.
\* What is accepted serves the origins of all documents in one strict order.
RefusesExactlyTheMalformed ==
  /\ err = "PROTOCOL" => ~WellFormed
  /\ stage = "ready" =>
       LET closure == SelectSeq(storage.effective, LAMBDA t : t.coordinate = Coordinate("OriginEntries", Closure))
           all == UNION {Range(v.rows) : v \in Range(Documents(call.origins))}
       IN  /\ WellFormed
           /\ IF all = {} THEN closure = <<>>
              ELSE Range(closure[1].rows) = all /\ StrictlyAscending(closure[1].rows)

\* Preparation is exact: prepare_typed_auxiliary_documents_v2 accepts what is well formed
\* and nothing else, and its books balance whether it accepts or refuses.
PreparationIsExact == BooksBalance /\ RefusesExactlyTheMalformed
=============================================================================
