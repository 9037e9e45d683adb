----------------------------- MODULE TypedTables -----------------------------
(***************************************************************************)
(* How a typed owner is put together and read (publication/typed_v2.rs,    *)
(* publication/typed_builder_v2.rs): documents become root tables over a   *)
(* component arena, tables are validated and indexed, and a table answers  *)
(* pages and membership questions.                                         *)
(*                                                                         *)
(* A canonical row is a number: rows are compared as the code compares     *)
(* their bytes.  A ComponentId is the row it encodes to and the arena      *)
(* partition that owns it, so that one row has several identifiers once    *)
(* parser owners are composed.                                             *)
(***************************************************************************)
EXTENDS Integers, Sequences, FiniteSets, FiniteSetsExt, SequencesExt

CONSTANTS
  Category,  \* row -> "annotation", "axiom", "swrl" or "entity"
  Mentions,  \* structural row -> the entity rows below it
  Kind,      \* entity row -> its signature kind
  Builtin,   \* the entity rows of the OWL, RDF and XSD vocabularies
  Bytes,     \* row -> length of its canonical encoding
  Digest,    \* row -> its structural digest, on which two rows may collide
  None,      \* no value
  Rescope    \* scope -> (raw row -> the row with its blank nodes in that scope)

IdBytes == 1
TableBytes == 1
OwnerBytes == 1

Structural == <<"OntologyAnnotations", "Axioms", "Extensions">>
CategoryOf == [OntologyAnnotations |-> "annotation", Axioms |-> "axiom",
               Extensions |-> "swrl", Signature |-> "entity"]
Kinds == {"All", "Class", "Datatype", "ObjectProperty", "DataProperty",
          "AnnotationProperty", "NamedIndividual"}

Id(part, row) == [part |-> part, row |-> row]
RowsOf(ids) == [i \in DOMAIN ids |-> ids[i].row]
Ids(part, rows) == [i \in DOMAIN rows |-> Id(part, rows[i])]

\* A coordinate; only a signature is selected by kind and by include_builtins.
Coordinate(c, d, k, b) == [collection |-> c, document |-> d, kind |-> k, builtins |-> b]
Closure == -1
StructuralAt(c, d) == Coordinate(c, d, "All", TRUE)

NoIndex == [shared |-> FALSE, ids |-> {}]
Table(coordinate, roots) == [coordinate |-> coordinate, roots |-> roots, index |-> NoIndex]
Find(tables, coordinate) == SelectSeq(tables, LAMBDA t : t.coordinate = coordinate)
Has(tables, coordinate) == Find(tables, coordinate) # <<>>

Over(limit, observed) == limit # None /\ observed > limit
SumOver(tables, Op(_)) == FoldLeft(LAMBDA total, t : total + Op(t), 0, tables)
Largest(S) == IF S = {} THEN 0 ELSE Max(S)

Ascending(S) == [i \in 1..Cardinality(S) |-> CHOOSE r \in S : Cardinality({q \in S : q <= r}) = i]
IsAscending(rows) == \A i \in 1..Len(rows) - 1 : rows[i] < rows[i + 1]

-----------------------------------------------------------------------------
(* The arena                                                               *)

\* An arena is, for each of its partitions, the set of rows it can encode.
ArenaBytes(arena) ==
  MapThenSumSet(LAMBDA p : MapThenSumSet(LAMBDA r : Bytes[r], arena[p]), DOMAIN arena)
Owned(arena, id) == id.part \in DOMAIN arena /\ id.row \in arena[id.part]

\* sort_deduplicate_ids: a stable sort by canonical row keeps, of the
\* identifiers of one row, the first one.
FirstOf(ids, row) == ids[Min({i \in DOMAIN ids : ids[i].row = row})]
SortDeduplicate(ids) ==
  LET rows == Ascending({ids[i].row : i \in DOMAIN ids})
  IN  [i \in DOMAIN rows |-> FirstOf(ids, rows[i])]

-----------------------------------------------------------------------------
(* Documents to tables                                                     *)

\* A resolved document: its own roots, and for some collections the roots a
\* snapshot shows in their place.
EffectiveRoots(document, c) ==
  IF document.effective[c] = None THEN document.roots[c] ELSE document.effective[c]

ValidateOrdinals(ordinals, count) == IsAscending(ordinals) /\ \A i \in DOMAIN ordinals : ordinals[i] < count

ValidateReachability(effective, closure, count) ==
  /\ Len(effective) = count /\ count # 0
  /\ \A d \in 0..count - 1 : /\ ValidateOrdinals(effective[d + 1], count)
                             /\ \E i \in DOMAIN effective[d + 1] : effective[d + 1][i] = d
  /\ ValidateOrdinals(closure, count) /\ closure # <<>>

ReachableRoots(documents, ordinals, c) ==
  FlattenSeq([i \in DOMAIN ordinals |-> EffectiveRoots(documents[ordinals[i] + 1], c)])

\* Mutant: a union of two documents is left in document order.
UnionUnsorted(documents, ordinals) ==
  [c \in 1..3 |-> ReachableRoots(documents, ordinals, c)]

\* One document is already canonical; the union of several is sorted.
UnionDocumentRoots(documents, ordinals) ==
  [c \in 1..3 |-> IF Len(ordinals) > 1 THEN SortDeduplicate(ReachableRoots(documents, ordinals, c))
                                       ELSE ReachableRoots(documents, ordinals, c)]

UnionFits(documents, ordinals, limits) ==
  \A c \in 1..3 : ~Over(limits.max_index_rows, Len(ReachableRoots(documents, ordinals, c)))

ScopesOf(documents, effective, closure) ==
  [s \in 1..Len(effective) + 1 |->
     IF s <= Len(effective)
     THEN [document |-> s - 1, roots |-> UnionDocumentRoots(documents, effective[s])]
     ELSE [document |-> Closure, roots |-> UnionDocumentRoots(documents, closure)]]

\* collect_signature: the entities below the roots, each identifier once, and
\* each entity once whatever the partitions it was met in.
CollectSignature(scope) ==
  LET roots == UNION {Range(scope.roots[c]) : c \in 1..3}
      met == UNION {{Id(id.part, e) : e \in Mentions[id.row]} : id \in roots}
      rows == Ascending({id.row : id \in met})
  IN  [i \in DOMAIN rows |-> CHOOSE id \in met : id.row = rows[i]]

SignatureRows(entities, k, b) ==
  SelectSeq(entities, LAMBDA id : (b \/ id.row \notin Builtin) /\ (k = "All" \/ Kind[id.row] = k))

\* append_signature_tables: one table for each selector that has rows.
SignatureTables(scope, entities) ==
  LET filled == {kb \in Kinds \X BOOLEAN : SignatureRows(entities, kb[1], kb[2]) # <<>>}
  IN  {Table(Coordinate("Signature", scope.document, kb[1], kb[2]),
             SignatureRows(entities, kb[1], kb[2])) : kb \in filled}

\* append_scope_signature_tables: the closure takes over the entities of the
\* first document that reaches exactly the documents of the closure.
ClosureSource(effective, closure) == {d \in DOMAIN effective : effective[d] = closure}
\* Mutant: the entities of the first document are taken without comparing what it reaches.
ClosureEntitiesOfRoot(scopes, effective, closure) == CollectSignature(scopes[1])

ClosureEntities(scopes, effective, closure) ==
  IF ClosureSource(effective, closure) # {}
  THEN CollectSignature(scopes[Min(ClosureSource(effective, closure))])
  ELSE CollectSignature(Last(scopes))

ScopeSignatureTables(scopes, effective, closure) ==
  SignatureTables(Last(scopes), ClosureEntities(scopes, effective, closure))
  \cup UNION {SignatureTables(scopes[s], CollectSignature(scopes[s])) : s \in 1..Len(effective)}

\* A document whose own roots are what a snapshot shows needs no second table.
RawTables(documents, scopes) ==
  LET differs == {dc \in (DOMAIN documents) \X (1..3) :
                    documents[dc[1]].roots[dc[2]] # scopes[dc[1]].roots[dc[2]]}
  IN  {Table(StructuralAt(Structural[dc[2]], dc[1] - 1), documents[dc[1]].roots[dc[2]]) : dc \in differs}

StructuralTables(scopes) ==
  LET filled == {sc \in (DOMAIN scopes) \X (1..3) : scopes[sc[1]].roots[sc[2]] # <<>>}
  IN  {Table(StructuralAt(Structural[sc[2]], scopes[sc[1]].document),
             scopes[sc[1]].roots[sc[2]]) : sc \in filled}

-----------------------------------------------------------------------------
(* freeze_with_external                                                    *)

AsSequence(S) == FoldSet(LAMBDA x, seq : Append(seq, x), <<>>, S)

ValidCoordinate(coordinate, count, raw) ==
  /\ coordinate.document \in {Closure} \cup 0..count - 1
  /\ raw => coordinate.document # Closure /\ coordinate.collection # "Signature"
  /\ coordinate.collection # "Signature" => coordinate.kind = "All" /\ coordinate.builtins

UniqueCoordinates(tables) ==
  \A i, j \in DOMAIN tables : tables[i].coordinate = tables[j].coordinate => i = j

ValidRoots(arena, table) ==
  /\ \A i \in DOMAIN table.roots : Owned(arena, table.roots[i])
  /\ \A i \in DOMAIN table.roots : Category[table.roots[i].row] = CategoryOf[table.coordinate.collection]
  /\ IsAscending(RowsOf(table.roots))

MaximumRow(table) == Largest({Bytes[id.row] : id \in Range(table.roots)})
TotalBytes(table) == FoldLeft(LAMBDA total, id : total + Bytes[id.row], 0, table.roots)
\* Two encoded rows are alive while their order is compared.
PairWorkspace(table) ==
  LET bytes(i) == Bytes[table.roots[i].row]
  IN  Largest({bytes(i) + (IF i = 1 THEN 0 ELSE bytes(i - 1)) : i \in DOMAIN table.roots})

RootBytes(eff, raw) == IdBytes * SumOver(eff \o raw, LAMBDA t : Len(t.roots))
MetadataBytes(eff, raw) == OwnerBytes + TableBytes * Len(eff \o raw)

\* What a document was given: its own table where there is one.
IsCanonicalInput(table, eff, raw) ==
  /\ table.coordinate.document # Closure /\ table.coordinate.collection # "Signature"
  /\ table \in Range(raw) \/ ~Has(raw, table.coordinate)

ValidateTables(arena, eff, raw, count, limits, caller) ==
  LET live == RootBytes(eff, raw) + MetadataBytes(eff, raw) + caller
      all == eff \o raw
  IN  CASE Over(limits.max_documents, count) -> "LIMIT"
        [] ~UniqueCoordinates(eff) \/ ~UniqueCoordinates(raw) -> "PROTOCOL"
        [] \E t \in Range(eff) : ~ValidCoordinate(t.coordinate, count, FALSE) -> "PROTOCOL"
        [] \E t \in Range(raw) : ~ValidCoordinate(t.coordinate, count, TRUE) -> "PROTOCOL"
        [] Over(limits.max_index_rows, SumOver(all, LAMBDA t : Len(t.roots))) -> "LIMIT"
        [] Over(limits.max_memory, ArenaBytes(arena) + live) -> "LIMIT"
        [] \E t \in Range(all) : ~ValidRoots(arena, t) -> "PROTOCOL"
        [] \E t \in Range(all) : Over(limits.max_memory, ArenaBytes(arena) + live + PairWorkspace(t)) -> "LIMIT"
        [] OTHER -> "OK"

\* attach_axiom_indexes: an index lists the rows of its table.  The closure of
\* a single document points at the index of that document when the roots agree.
SharesIndex(table, eff, count) ==
  /\ count = 1 /\ table.coordinate.document = Closure
  /\ \E t \in Range(Find(eff, StructuralAt("Axioms", 0))) : t.roots = table.roots

Indexed(table, eff, count, raw) ==
  IF table.coordinate.collection # "Axioms" THEN table
  ELSE IF ~raw /\ SharesIndex(table, eff, count) THEN [table EXCEPT !.index = [shared |-> TRUE, ids |-> {}]]
  ELSE [table EXCEPT !.index = [shared |-> FALSE, ids |-> Range(table.roots)]]

AttachAxiomIndexes(tables, eff, count, raw) ==
  [i \in DOMAIN tables |-> Indexed(tables[i], eff, count, raw)]

IndexBytes(tables) ==
  SumOver(tables, LAMBDA t : Cardinality(t.index.ids))

Failure(err) == [err |-> err]
Freeze(arena, effTables, rawTables, count, limits, caller) ==
  LET unindexed == AsSequence(effTables)
      verdict == ValidateTables(arena, unindexed, AsSequence(rawTables), count, limits, caller)
      eff == AttachAxiomIndexes(unindexed, unindexed, count, FALSE)
      raw == AttachAxiomIndexes(AsSequence(rawTables), unindexed, count, TRUE)
      all == eff \o raw
      index == IndexBytes(all)
      base == RootBytes(eff, raw) + MetadataBytes(eff, raw)
      maximum == Max({1} \cup {MaximumRow(t) : t \in Range(all)})
      ordering == ArenaBytes(arena) + base + caller + Largest({PairWorkspace(t) : t \in Range(all)})
      owner == ArenaBytes(arena) + base + index
      peak == Max({owner + caller + maximum, ordering})
      input == SelectSeq(all, LAMBDA t : IsCanonicalInput(t, eff, raw))
  IN  CASE verdict # "OK" -> Failure(verdict)
        [] Over(limits.max_index_bytes, index) -> Failure("LIMIT")
        [] Over(limits.max_memory, ArenaBytes(arena) + base + caller + index) -> Failure("LIMIT")
        [] Over(limits.max_memory, peak) -> Failure("LIMIT")
        [] OTHER -> [err |-> None, arena |-> arena, eff |-> eff, raw |-> raw, count |-> count,
                     limits |-> limits, maximum |-> maximum, owner |-> owner, index |-> index,
                     external |-> base + index, peak |-> peak,
                     inputRows |-> SumOver(input, LAMBDA t : Len(t.roots)),
                     inputBytes |-> SumOver(input, LAMBDA t : TotalBytes(t))]

-----------------------------------------------------------------------------
(* Reading an owner                                                        *)

SelectTable(owner, coordinate, raw) ==
  IF raw /\ coordinate.document # Closure /\ Has(owner.raw, coordinate)
  THEN Find(owner.raw, coordinate) ELSE Find(owner.eff, coordinate)

SelectedRoots(owner, coordinate, raw) ==
  LET t == SelectTable(owner, coordinate, raw) IN IF t = <<>> THEN <<>> ELSE t[1].roots

\* axiom_index, matching_ids: the digest selects candidates, the bytes decide.
AxiomIndex(owner, table) ==
  IF table.index.shared THEN Find(owner.eff, StructuralAt("Axioms", 0))[1].index.ids ELSE table.index.ids

\* Mutant: the digest decides.
ContainsByDigest(owner, coordinate, raw, row) ==
  LET t == SelectTable(owner, coordinate, raw)
  IN  /\ Category[row] = "axiom" /\ t # <<>>
      /\ \E id \in AxiomIndex(owner, t[1]) : Digest[id.row] = Digest[row]

ContainsAxiom(owner, coordinate, raw, row) ==
  LET t == SelectTable(owner, coordinate, raw)
      candidates == {id \in AxiomIndex(owner, t[1]) : Digest[id.row] = Digest[row]}
  IN  /\ Category[row] = "axiom" /\ t # <<>>
      /\ \E id \in candidates : id.row = row

\* The rows of a page: as many as fit, and always the first.
PageStop(roots, start, maxRows) == Min({Len(roots), start + maxRows})
FitsPage(roots, start, stop, maxBytes) ==
  FoldLeft(LAMBDA total, id : total + Bytes[id.row], 0, SubSeq(roots, start + 1, stop)) <= maxBytes
\* Mutant: a row that does not fit is not emitted even when the page is empty.
PageEndStrict(roots, start, maxRows, maxBytes) ==
  Max({start} \cup {stop \in start + 1..PageStop(roots, start, maxRows) :
                      FitsPage(roots, start, stop, maxBytes)})

PageEnd(roots, start, maxRows, maxBytes) ==
  Max({start} \cup {stop \in start + 1..PageStop(roots, start, maxRows) :
                      stop = start + 1 \/ FitsPage(roots, start, stop, maxBytes)})

\* structural_counts: what the documents themselves hold.
RawDocumentCount(owner, c) ==
  LET own == SelectSeq(owner.raw, LAMBDA t : t.coordinate.collection = c)
      shown == SelectSeq(owner.eff, LAMBDA t : /\ t.coordinate.collection = c
                                               /\ t.coordinate.document # Closure
                                               /\ ~Has(owner.raw, t.coordinate))
  IN  SumOver(own \o shown, LAMBDA t : Len(t.roots))

-----------------------------------------------------------------------------
(* Parser owners: fork and composition                                     *)

\* fork_parser_document: the copy is frozen while the original is alive.
ForkPreflight(owner) ==
  ~Over(owner.limits.max_memory,
        ArenaBytes(owner.arena) + owner.external + IdBytes * SumOver(owner.eff \o owner.raw, LAMBDA t : Len(t.roots))
        + MetadataBytes(owner.eff, owner.raw) + owner.index)
ForkCaller(owner) == owner.owner - ArenaBytes(owner.arena)

Unindexed(tables) == {[t EXCEPT !.index = NoIndex] : t \in Range(tables)}
ForkParserDocument(owner) ==
  IF owner.count # 1 THEN Failure("PROTOCOL")
  ELSE IF ~ForkPreflight(owner) THEN Failure("LIMIT")
  ELSE Freeze(owner.arena, Unindexed(owner.eff), Unindexed(owner.raw), 1, owner.limits, ForkCaller(owner))

\* into_flat_document: own roots, and the shown ones where they differ.
RootsAt(tables, c) ==
  LET t == Find(tables, StructuralAt(Structural[c], 0)) IN IF t = <<>> THEN <<>> ELSE t[1].roots
IntoFlatDocument(owner) ==
  LET overridden(c) == Has(owner.raw, StructuralAt(Structural[c], 0))
  IN  [roots |-> [c \in 1..3 |-> IF overridden(c) THEN RootsAt(owner.raw, c) ELSE RootsAt(owner.eff, c)],
       effective |-> [c \in 1..3 |-> IF overridden(c) THEN RootsAt(owner.eff, c) ELSE None]]

\* rescope_flat_documents: the raw roots that have blank nodes are encoded,
\* moved to the target scope, and interned into a partition of their own.
RescopeRows(document, c, target) == Ascending({Rescope[target][id.row] : id \in Range(document.roots[c])})
RescopeDocument(document, target, part) ==
  IF target = None THEN document
  ELSE [document EXCEPT !.effective =
          [c \in 1..3 |-> IF document.effective[c] = None THEN None
                          ELSE Ids(part, RescopeRows(document, c, target))]]

HasAnonymousRoots(document) == \E c \in 1..3 : document.effective[c] # None

DerivedRows(documents, part) ==
  UNION {UNION {{id.row : id \in {i \in Range(EffectiveRoots(documents[d], c)) : i.part = part}} : c \in 1..3}
         : d \in DOMAIN documents}
WithEntities(rows) == rows \cup UNION {Mentions[r] : r \in rows}
=============================================================================
