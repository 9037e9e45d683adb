--------------------------- MODULE ComponentArena ---------------------------
(***************************************************************************)
(* NativeComponentBuilder: canonical rows are decoded depth first into     *)
(* hash-consed tables under the caller's limits, and freeze renumbers      *)
(* every table so that the result does not depend on the order of the      *)
(* rows.  A builder is a record; each operator gives the record after one  *)
(* step of the decoder.                                                    *)
(***************************************************************************)
EXTENDS ComponentTables

\* Sizes in units of memory, scaled down.
SlotBytes == 2
IdBytes == 1
ValueBytes == 1
HashBucketBytes == 2
Overhead == 1
TablesBytes == 3

Interners == {"strings", "bytes", "integers", "sequences", "nodes"}

\* buckets is the number of distinct hashes: 1 makes every key collide.
NewBuilder(owner, buckets, limits, external) ==
  [owner |-> owner, buckets |-> buckets, limits |-> limits,
   accounted |-> 0, transient |-> 0, external |-> external, peak |-> 0, poisoned |-> FALSE,
   strings |-> <<>>, bytes |-> <<>>, integers |-> <<>>, sequences |-> <<>>,
   components |-> [c \in Categories |-> <<>>],
   index |-> [i \in Interners |-> <<>>],
   counters |-> [i \in Interners |-> [requests |-> 0, hits |-> 0, unique |-> 0]],
   todo |-> <<>>, values |-> <<>>]

Poisoned(b) == [b EXCEPT !.poisoned = TRUE]
Live(b) == b.accounted + b.transient + b.external

\* Each charge is checked before the table grows.
Charged(b, after) ==
  IF Live(after) > b.limits.max_memory THEN Poisoned(b)
  ELSE [after EXCEPT !.peak = Largest({@, Live(after)})]

VectorBytes(n, size) == IF n = 0 THEN 0 ELSE n * size + Overhead
TemporaryVectorBytes(n) == VectorBytes(n, ValueBytes)
TableSlotCharge == 2 * SlotBytes + Overhead
BucketCharge(new) == 2 * IdBytes + (IF new THEN HashBucketBytes + Overhead ELSE 0)
ScalarInternCharge(payload, new) == Len(payload) + Overhead + TableSlotCharge + BucketCharge(new)

ReserveTransient(b, n) == Charged(b, [b EXCEPT !.transient = @ + n])
KeepTransient(b, n) == b
ReleaseTransient(b, n) == [b EXCEPT !.transient = @ - n]
PromoteTransient(b, n, extra) == [b EXCEPT !.transient = @ - n, !.accounted = @ + n + extra]

-----------------------------------------------------------------------------
(* Interners.  A bucket lists the identifiers whose keys share a hash; only   *)
(* comparing the keys tells whether one of them is the row asked for.         *)

ValueHash(v) ==
  CASE v[1] = 0 -> 0
    [] v[1] = 1 -> 10 + v[2][1] + v[2][2]
    [] OTHER -> v[1] + v[2]
ScalarBucket(b, payload) == Total(payload) % b.buckets
RowBucket(b, head, values) == (head + Total([j \in DOMAIN values |-> ValueHash(values[j])])) % b.buckets

Candidates(b, interner, bucket) ==
  IF bucket \in DOMAIN b.index[interner] THEN b.index[interner][bucket] ELSE <<>>
File(b, interner, bucket, identifier) ==
  [b EXCEPT !.index[interner] = (bucket :> Append(Candidates(b, interner, bucket), identifier)) @@ @,
            !.counters[interner].unique = @ + 1]
Ask(b, interner) == [b EXCEPT !.counters[interner].requests = @ + 1]
Hit(b, interner) == [b EXCEPT !.counters[interner].hits = @ + 1]
Push(b, value) == [b EXCEPT !.values = Append(@, value)]

InternScalar(b, table, marker, payload) ==
  LET bucket == ScalarBucket(b, payload)
      retained == SelectSeq(Candidates(b, table, bucket), LAMBDA i : b[table][i] = payload)
      asked == Ask(b, table)
      new == Len(b[table]) + 1
  IN  IF retained # <<>> THEN Push(Hit(asked, table), <<marker, Head(retained)>>)
      ELSE Charged(b, Push(File([asked EXCEPT ![table] = Append(@, payload),
                                   !.accounted = @ + ScalarInternCharge(payload, Candidates(b, table, bucket) = <<>>)],
                                table, bucket, new), <<marker, new>>))

InternString(b, marker, text) ==
  IF text \notin ToSet(b.strings) /\ Len(b.strings) + 1 > b.limits.max_strings THEN Poisoned(b)
  ELSE InternScalar(b, "strings", marker, text)
InternBytes(b, value) == InternScalar(b, "bytes", 3, value)
InternInteger(b, varint) == InternScalar(b, "integers", 4, varint)

ValueHeight(b, v) ==
  CASE v[1] = 1 -> b.components[v[2][1]][v[2][2]].height
    [] v[1] = 7 -> b.sequences[v[2]].height
    [] OTHER -> 0
ValuesHeight(b, values) == 1 + Largest({ValueHeight(b, values[j]) : j \in DOMAIN values})

CheckNewTerm(b) == b.counters["nodes"].unique + b.counters["sequences"].unique + 1 <= b.limits.max_terms
CheckCategoryLimit(b, category) ==
  LET n == Len(b.components[category]) + 1
  IN  /\ category = Annotation => n <= b.limits.max_annotations
      /\ category = Axiom => n <= b.limits.max_axioms

\* The last n values decoded are the elements of the vector that closes.
Closing(b, n) == SubSeq(b.values, Len(b.values) - n + 1, Len(b.values))
Closed(b, n) == [b EXCEPT !.values = SubSeq(@, 1, Len(@) - n)]

SameSequence(row, kind, elements) == row.kind = kind /\ row.elements = elements
SameComponent(row, tag, values) == row.tag = tag /\ row.fields = values

InternSequence(b, kind, n) ==
  LET elements == Closing(b, n)
      bytes == TemporaryVectorBytes(n)
      bucket == RowBucket(b, kind, elements)
      candidates == Candidates(b, "sequences", bucket)
      retained == SelectSeq(candidates, LAMBDA i : SameSequence(b.sequences[i], kind, elements))
      asked == Closed(Ask(b, "sequences"), n)
      new == Len(b.sequences) + 1
      row == [kind |-> kind, elements |-> elements, height |-> ValuesHeight(b, elements)]
  IN  IF retained # <<>>
      THEN Push(ReleaseTransient(Hit(asked, "sequences"), bytes), <<7, Head(retained)>>)
      ELSE IF ~ CheckNewTerm(b) THEN Poisoned(b)
      ELSE Charged(b, Push(File(
             PromoteTransient([asked EXCEPT !.sequences = Append(@, row)], bytes,
                              TableSlotCharge + BucketCharge(candidates = <<>>)),
             "sequences", bucket, new), <<7, new>>))

ComponentRow(b, local) == b.components[local[1]][local[2]]
PushComponent(b, category, row) == [b EXCEPT !.components[category] = Append(@, row)]

\* decode_node once its fields are decoded.
InternNode(b, tag, n) ==
  LET values == Closing(b, n)
      bytes == TemporaryVectorBytes(n)
      category == TagCategory(tag)
      bucket == RowBucket(b, tag, values)
      candidates == Candidates(b, "nodes", bucket)
      retained == SelectSeq(candidates, LAMBDA l : SameComponent(ComponentRow(b, l), tag, values))
      asked == Closed(Ask(b, "nodes"), n)
      new == <<category, Len(b.components[category]) + 1>>
      row == [tag |-> tag, fields |-> values, height |-> ValuesHeight(b, values)]
  IN  IF retained # <<>>
      THEN Push(ReleaseTransient(Hit(asked, "nodes"), bytes), <<1, Head(retained)>>)
      ELSE IF ~ CheckNewTerm(b) \/ ~ CheckCategoryLimit(b, category) THEN Poisoned(b)
      ELSE Charged(b, Push(File(
             PromoteTransient(PushComponent(asked, category, row), bytes,
                              TableSlotCharge + BucketCharge(candidates = <<>>)),
             "nodes", bucket, new), <<1, new>>))

-----------------------------------------------------------------------------
(* The order in which decode_node and decode_value visit a row: open reserves *)
(* the vector of a component or sequence before its elements are decoded.     *)

RECURSIVE Visit(_)
VisitValue(v) == IF v[1] = 1 THEN Visit(v[2]) ELSE <<[op |-> "scalar", value |-> v]>>
VisitSequence(v) ==
  <<[op |-> "open_sequence", n |-> Len(v[2])]>> \o Concat([j \in DOMAIN v[2] |-> VisitValue(v[2][j])])
  \o <<[op |-> "sequence", kind |-> v[1], n |-> Len(v[2])]>>
Visit(node) ==
  <<[op |-> "open", n |-> Len(node[2])]>>
  \o Concat([i \in DOMAIN node[2] |->
       IF node[2][i][1] \in {6, 7} THEN VisitSequence(node[2][i]) ELSE VisitValue(node[2][i])])
  \o <<[op |-> "node", tag |-> node[1], n |-> Len(node[2])]>>

DecodeScalar(b, v) ==
  CASE v[1] = 0 -> Push(b, v)
    [] v[1] \in {2, 5} -> InternString(b, v[1], v[2])
    [] v[1] = 3 -> InternBytes(b, v[2])
    [] v[1] = 4 -> InternInteger(b, v[2])
DecodeOpenSequence(b, n) ==
  IF n > b.limits.max_sequence_arity THEN Poisoned(b) ELSE ReserveTransient(b, TemporaryVectorBytes(n))
DecodeOp(b, op) ==
  CASE op.op = "open" -> ReserveTransient(b, TemporaryVectorBytes(op.n))
    [] op.op = "open_sequence" -> DecodeOpenSequence(b, op.n)
    [] op.op = "scalar" -> DecodeScalar(b, op.value)
    [] op.op = "sequence" -> InternSequence(b, op.kind, op.n)
    [] op.op = "node" -> InternNode(b, op.tag, op.n)

\* begin_canonical_intern, one step of the decoder, and its end: the last
\* value is the component of the row.
BeginIntern(b, row) == [b EXCEPT !.todo = Visit(row), !.values = <<>>]
DecodeStep(b) == [DecodeOp(b, Head(b.todo)) EXCEPT !.todo = Tail(b.todo)]
Pending(b) == Head(b.values)[2]

SetExternalBytes(b, bytes) ==
  IF b.accounted + b.transient + bytes > b.limits.max_memory THEN b
  ELSE [b EXCEPT !.external = bytes, !.peak = Largest({@, b.accounted + b.transient + bytes})]

-----------------------------------------------------------------------------
(* Memory of the tables, counted from the tables themselves.                  *)

ScalarStorage(table) == VectorBytes(Len(table), SlotBytes) + Total([i \in DOMAIN table |-> VectorBytes(Len(table[i]), 1)])
RowStorage(lengths) == VectorBytes(Len(lengths), SlotBytes) + Total([i \in DOMAIN lengths |-> TemporaryVectorBytes(lengths[i])])
RetainedStorage(t) ==
  ScalarStorage(t.strings) + ScalarStorage(t.bytes) + ScalarStorage(t.integers)
  + RowStorage([i \in DOMAIN t.sequences |-> Len(t.sequences[i].elements)])
  + Total([c \in 1..11 |-> RowStorage([i \in DOMAIN t.components[c - 1] |-> Len(t.components[c - 1][i].fields)])])

TableLengths(b) ==
  <<Len(b.strings), Len(b.bytes), Len(b.integers), Len(b.sequences)>> \o [c \in 1..11 |-> Len(b.components[c - 1])]
MaximumHeight(b) ==
  Largest({b.sequences[i].height : i \in DOMAIN b.sequences}
          \cup UNION {{b.components[c][i].height : i \in DOMAIN b.components[c]} : c \in Categories})
EdgeCount(b) ==
  Total([i \in DOMAIN b.sequences |-> Len(b.sequences[i].elements)])
  + Total([c \in 1..11 |-> Total([i \in DOMAIN b.components[c - 1] |-> Len(b.components[c - 1][i].fields)])])
FreezeWorkspaceBound(b) ==
  LET lengths == TableLengths(b)
      mappings == Total(lengths)
      rankItems == Total(SubSeq(lengths, 4, 15))
      largest == Largest(ToSet(lengths))
      heights == MaximumHeight(b) + 1
      allocations == Len(SelectSeq(lengths, LAMBDA n : n # 0)) + rankItems + 4 + 26
  IN  mappings * IdBytes + 2 * rankItems + 3 * EdgeCount(b) + 3 * rankItems + 2 * largest + largest * IdBytes
      + 12 * (heights + 1) + heights + 11 + allocations * Overhead

-----------------------------------------------------------------------------
(* Freeze.  A rank of 0 is not assigned yet.                                  *)

SortedRemap(values) ==
  LET order == FallibleIndexOrder(Len(values), Greater(values))
  IN  Tabulated([i \in DOMAIN values |-> CHOOSE k \in DOMAIN order : order[k] = i])

StableValueKey(b, ranks, v) ==
  CASE v[1] = 0 -> <<0, 0, 0>>
    [] v[1] = 1 -> <<1, v[2][1], ranks.components[v[2][1]][v[2][2]]>>
    [] v[1] \in {2, 5} -> <<v[1], 0, ranks.strings[v[2]]>>
    [] v[1] = 3 -> <<3, 0, ranks.bytes[v[2]]>>
    [] v[1] = 4 -> <<4, 0, ranks.integers[v[2]]>>
    [] v[1] = 7 -> <<b.sequences[v[2]].kind, 0, ranks.sequences[v[2]]>>
StructuralOrderKey(b, ranks, kind, head, values) ==
  <<kind, head, Len(values)>> \o Concat([j \in DOMAIN values |-> StableValueKey(b, ranks, values[j])])

\* HeightPlan: the rows of one height, in their order of insertion.
AtHeight(rows, height) == SelectSeq([i \in DOMAIN rows |-> i], LAMBDA i : rows[i].height = height)

\* The batch takes the ranks after those assigned so far.  Equal keys are two
\* rows for one value, which fails the freeze.
AssignRankBatch(mapping, batch, keys) ==
  LET order == FallibleIndexOrder(Len(batch), Greater(keys))
      next == Cardinality({i \in DOMAIN mapping : mapping[i] # 0})
  IN  Tabulated([i \in DOMAIN mapping |->
        IF i \in ToSet(batch) THEN next + CHOOSE k \in DOMAIN order : batch[order[k]] = i ELSE mapping[i]])

RankSequenceHeight(b, ranks, height) ==
  LET batch == AtHeight(b.sequences, height)
  IN  AssignRankBatch(ranks.sequences, batch, [k \in DOMAIN batch |->
        StructuralOrderKey(b, ranks, 1, b.sequences[batch[k]].kind, b.sequences[batch[k]].elements)])
RankComponentHeight(b, ranks, category, height) ==
  LET rows == b.components[category]
      batch == AtHeight(rows, height)
  IN  AssignRankBatch(ranks.components[category], batch, [k \in DOMAIN batch |->
        StructuralOrderKey(b, ranks, 0, rows[batch[k]].tag, rows[batch[k]].fields)])

RECURSIVE RankHeights(_, _, _)
RankHeights(b, ranks, height) ==
  IF height > MaximumHeight(b) THEN ranks
  ELSE LET sequenced == [ranks EXCEPT !.sequences = RankSequenceHeight(b, ranks, height)]
       IN  RankHeights(b, [sequenced EXCEPT !.components =
             LET ranked == Tabulated([k \in 1..11 |-> RankComponentHeight(b, sequenced, k - 1, height)])
             IN  [c \in Categories |-> ranked[c + 1]]], height + 1)

KeepInsertionOrder(b) ==
  [strings |-> SortedRemap(b.strings), bytes |-> SortedRemap(b.bytes), integers |-> SortedRemap(b.integers),
   sequences |-> [i \in DOMAIN b.sequences |-> i],
   components |-> [c \in Categories |-> [i \in DOMAIN b.components[c] |-> i]]]
FreezeRemaps(b) ==
  RankHeights(b, [strings |-> SortedRemap(b.strings), bytes |-> SortedRemap(b.bytes),
                  integers |-> SortedRemap(b.integers),
                  sequences |-> [i \in DOMAIN b.sequences |-> 0],
                  components |-> [c \in Categories |-> [i \in DOMAIN b.components[c] |-> 0]]], 1)

ResolveLocal(ranks, local) == <<local[1], ranks.components[local[1]][local[2]]>>
ResolveValue(ranks, v) ==
  CASE v[1] = 0 -> v
    [] v[1] = 1 -> <<1, ResolveLocal(ranks, v[2])>>
    [] v[1] \in {2, 5} -> <<v[1], ranks.strings[v[2]]>>
    [] v[1] = 3 -> <<3, ranks.bytes[v[2]]>>
    [] v[1] = 4 -> <<4, ranks.integers[v[2]]>>
    [] v[1] = 7 -> <<7, ranks.sequences[v[2]]>>

ApplyFreezeRemaps(b, ranks) ==
  LET resolved(values) == [j \in DOMAIN values |-> ResolveValue(ranks, values[j])]
  IN  [strings |-> Reorder(b.strings, ranks.strings),
       bytes |-> Reorder(b.bytes, ranks.bytes),
       integers |-> Reorder(b.integers, ranks.integers),
       sequences |-> Reorder([i \in DOMAIN b.sequences |->
                       [b.sequences[i] EXCEPT !.elements = resolved(@)]], ranks.sequences),
       components |-> [c \in Categories |-> Reorder([i \in DOMAIN b.components[c] |->
                       [b.components[c][i] EXCEPT !.fields = resolved(@)]], ranks.components[c])]]

FreezePeak(b) == RetainedStorage(b) + TablesBytes + b.external + FreezeWorkspaceBound(b)
Freezable(b) == ~ b.poisoned /\ b.transient = 0 /\ FreezePeak(b) <= b.limits.max_memory
Freeze(b) ==
  LET ranks == FreezeRemaps(b)
  IN  [owner |-> b.owner, tables |-> ApplyFreezeRemaps(b, ranks), roots |-> ranks.components,
       additional |-> <<>>, retained |-> RetainedStorage(b) + TablesBytes,
       peak |-> Largest({b.peak, RetainedStorage(b), FreezePeak(b)}), limits |-> b.limits]

-----------------------------------------------------------------------------
(***************************************************************************)
(* NativeComponentArena: frozen tables behind identifiers that carry the   *)
(* owner they belong to.  compose_flat puts several arenas behind one      *)
(* lookup without touching their tables, so equal values may have one      *)
(* identifier per owner.  An identifier is [owner, local].                 *)
(***************************************************************************)

PartitionBytes == 2

Resolve(arena, pending) ==
  [owner |-> arena.owner, local |-> <<pending[1], arena.roots[pending[1]][pending[2]]>>]

\* Rust's binary search over the partitions, by owner; 0 when it is not there.
RECURSIVE BinarySearch(_, _, _, _)
BinarySearch(partitions, owner, low, high) ==
  IF low > high THEN 0
  ELSE LET middle == (low + high) \div 2 IN
       CASE partitions[middle].owner = owner -> middle
         [] partitions[middle].owner < owner -> BinarySearch(partitions, owner, middle + 1, high)
         [] OTHER -> BinarySearch(partitions, owner, low, middle - 1)
Partition(arena, owner) == BinarySearch(arena.additional, owner, 1, Len(arena.additional))

\* lookup_tables and validate_identifier refuse an owner that is not here and
\* a row that its table does not have.
Knows(arena, owner) == owner = arena.owner \/ Partition(arena, owner) # 0
LookupTables(arena, owner) ==
  IF owner = arena.owner THEN arena.tables ELSE arena.additional[Partition(arena, owner)].tables
Valid(arena, id) ==
  /\ Knows(arena, id.owner)
  /\ id.local[2] \in DOMAIN LookupTables(arena, id.owner).components[id.local[1]]
CategoryOf(id) == ComponentCategory(id.local[1])

Record(arena, id) == LookupTables(arena, id.owner).components[id.local[1]][id.local[2]]

\* A field as its reader sees it: an identifier with an owner, the bytes of a
\* scalar, or the fields of a set (marker 6) or sequence (marker 7).
ElementOf(t, owner, v) ==
  CASE v[1] = 0 -> v
    [] v[1] = 1 -> <<1, [owner |-> owner, local |-> v[2]]>>
    [] v[1] \in {2, 5} -> <<v[1], t.strings[v[2]]>>
    [] v[1] = 3 -> <<3, t.bytes[v[2]]>>
    [] v[1] = 4 -> <<4, t.integers[v[2]]>>
ElementRef(arena, owner, v) == ElementOf(LookupTables(arena, owner), owner, v)
SequenceRef(arena, owner, row) == <<row.kind, [j \in DOMAIN row.elements |-> ElementRef(arena, owner, row.elements[j])]>>
FieldRef(arena, owner, v) ==
  IF v[1] = 7 THEN SequenceRef(arena, owner, LookupTables(arena, owner).sequences[v[2]])
  ELSE ElementRef(arena, owner, v)
Fields(arena, id) == LET row == Record(arena, id) IN [j \in DOMAIN row.fields |-> FieldRef(arena, id.owner, row.fields[j])]

\* encode_with_work and encoded_len: the other partitions count as external.
EncodeId(arena, id) == EncodeNode(LookupTables(arena, id.owner), id.local)
EncodedLen(arena, id) == EncodedNodeLen(LookupTables(arena, id.owner), id.local)
EncodableId(arena, id, limits, held) ==
  Encodable(LookupTables(arena, id.owner), id.local, limits, arena.retained + held)
TreeOf(arena, id) == Tree(LookupTables(arena, id.owner), id.local)

-----------------------------------------------------------------------------
(* Entities compare by the variable parts of their rows, in wire order.       *)

EntityOrderParts(arena, id) ==
  LET fields == Fields(arena, id)
  IN  [kind |-> fields[1][2], iri |-> Fields(arena, fields[2][2])[1][2]]
EncodedIriLen(n) == 2 + FramedLen(n)
CompareVarint(a, b) == Before(EncodeVarint(a), EncodeVarint(b))
PartsBefore(a, b) ==
  IF Len(a.kind) # Len(b.kind) THEN CompareVarint(Len(a.kind), Len(b.kind))
  ELSE IF a.kind # b.kind THEN Before(a.kind, b.kind)
  ELSE IF Len(a.iri) # Len(b.iri)
       THEN LET m == EncodedIriLen(Len(a.iri))
                n == EncodedIriLen(Len(b.iri))
            IN  IF m # n THEN CompareVarint(m, n) ELSE CompareVarint(Len(a.iri), Len(b.iri))
  ELSE Before(a.iri, b.iri)
EntityBefore(arena, left, right) == PartsBefore(EntityOrderParts(arena, left), EntityOrderParts(arena, right))
SameEntity(arena, left, right) == ~ EntityBefore(arena, left, right) /\ ~ EntityBefore(arena, right, left)

\* sort_deduplicate_ids checks every identifier before it moves one; any two
\* rows may be held encoded at once.
CheckSortWorkspace(arena, live, workspace, limits) ==
  /\ workspace <= limits.max_temporary
  /\ arena.retained + live + workspace <= limits.max_memory
Sortable(arena, ids, expected, limits, external) ==
  /\ \A i \in DOMAIN ids : Valid(arena, ids[i]) /\ CategoryOf(ids[i]) = expected
  /\ Len(ids) >= 2 =>
       LET n == Len(ids)
           live == external + n
       IN  /\ CheckSortWorkspace(arena, live, 2 * n, limits)
           /\ IF expected = Entity THEN limits.max_nesting_depth >= 1
              ELSE \A i, j \in 1..n : EncodableId(arena, ids[i], limits,
                     live + 2 * n + (IF i = j THEN 0 ELSE EncodedLen(arena, ids[j])))

SortIds(arena, ids, expected) ==
  LET n == Len(ids)
      bytes == [i \in 1..n |-> EncodeId(arena, ids[i])]
      greater == IF expected = Entity
                 THEN [i \in 1..n |-> [j \in 1..n |-> EntityBefore(arena, ids[j], ids[i])]]
                 ELSE Greater(bytes)
      order == FallibleIndexOrder(n, greater)
  IN  [k \in 1..n |-> ids[order[k]]]

\* Of a run of equal rows the first stays.
DeduplicateIds(arena, ordered, expected) ==
  LET same(i, j) == IF expected = Entity THEN SameEntity(arena, ordered[i], ordered[j])
                    ELSE EncodeId(arena, ordered[i]) = EncodeId(arena, ordered[j])
      At(kept) == [k \in DOMAIN kept |-> ordered[kept[k]]]
  IN  At(SelectSeq([k \in DOMAIN ordered |-> k], LAMBDA k : k = 1 \/ ~ same(k - 1, k)))
SortDeduplicateIds(arena, ids, expected) ==
  IF Len(ids) < 2 THEN ids ELSE DeduplicateIds(arena, SortIds(arena, ids, expected), expected)

-----------------------------------------------------------------------------
\* compose_flat: the first source leads, the others are sorted by owner.
AsGiven(partitions) == partitions
SortedByOwner(partitions) ==
  LET order == FallibleIndexOrder(Len(partitions), Greater([k \in DOMAIN partitions |-> <<partitions[k].owner>>]))
  IN  [k \in DOMAIN partitions |-> partitions[order[k]]]
Composable(sources) ==
  /\ sources # <<>>
  /\ \A s \in DOMAIN sources : sources[s].additional = <<>>
  /\ \A s, r \in DOMAIN sources : s # r => sources[s].owner # sources[r].owner
ComposeFlat(sources) ==
  LET retained == Total([s \in DOMAIN sources |-> sources[s].retained]) + (Len(sources) - 1) * PartitionBytes
      others == Tail([s \in DOMAIN sources |-> [owner |-> sources[s].owner, tables |-> sources[s].tables]])
  IN  [owner |-> Head(sources).owner, tables |-> Head(sources).tables, roots |-> Head(sources).roots,
       additional |-> SortedByOwner(others), retained |-> retained,
       peak |-> Largest({sources[s].peak : s \in DOMAIN sources} \cup {retained}),
       limits |-> Head(sources).limits]
=============================================================================
