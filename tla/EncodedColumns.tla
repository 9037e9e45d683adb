---------------------------- MODULE EncodedColumns ----------------------------
(***************************************************************************)
(* model/encoded_columns.rs: the structural columns of a set of roots.     *)
(* Every node below the roots is found, the nodes are put in the order of  *)
(* their canonical bytes without writing those bytes, equal nodes of       *)
(* different owners become one, and eleven buffers are measured and then   *)
(* filled.  A multi-byte element of a buffer is one number here.           *)
(***************************************************************************)
EXTENDS ComponentArena

OntologyAnnotationRoot == 1
AxiomRoot == 2
ExtensionRoot == 3
RootAccepts(kind, tag) ==
  CASE kind = OntologyAnnotationRoot -> tag = 5
    [] kind = AxiomRoot -> tag \in (60..64) \cup (70..82) \cup (90..95) \cup {100, 101} \cup (110..116) \cup (120..123)
    [] kind = ExtensionRoot -> tag = 148

\* The root tables of a scope, read as one list.
RootsOfTables(tables) ==
  Concat([k \in DOMAIN tables |-> [i \in DOMAIN tables[k].ids |-> [kind |-> tables[k].kind, id |-> tables[k].ids[i]]]])

NewColumns(roots, external) ==
  [phase |-> "roots", err |-> "", roots |-> roots, external |-> external, at |-> 1,
   nodes |-> <<>>, stack |-> <<>>, lengths |-> <<>>, ids |-> <<>>, workspace |-> 0,
   counts |-> <<>>, owned |-> <<>>, prepared |-> <<>>]
Refuse(c, err) == [c EXCEPT !.err = err, !.phase = "end"]

-----------------------------------------------------------------------------
(* Discovery.  Capacities are taken to be lengths, and every size one unit.   *)

CheckDiscoveryMemory(arena, c, n, limits) == arena.retained + c.external + 5 * n <= limits.max_memory

\* An error stops the rest of the list.
DiscoverNode(arena, c, id, limits) ==
  IF c.err # "" THEN c
  ELSE IF Record(arena, id).height - 1 > limits.max_nesting_depth THEN Refuse(c, "max_nesting_depth")
  ELSE IF id \in ToSet(c.nodes) THEN c
  ELSE IF Len(c.nodes) + 1 > limits.max_terms THEN Refuse(c, "max_terms")
  ELSE IF ~ CheckDiscoveryMemory(arena, c, Len(c.nodes) + 1, limits) THEN Refuse(c, "max_memory")
  ELSE [c EXCEPT !.nodes = Append(@, id), !.stack = Append(@, id)]

DiscoverFieldNodes(arena, c, field, limits) ==
  CASE field[1] = 1 -> DiscoverNode(arena, c, field[2], limits)
    [] field[1] \in {6, 7} ->
         IF c.err = "" /\ Len(field[2]) > limits.max_sequence_arity THEN Refuse(c, "max_sequence_arity")
         ELSE FoldLeft(LAMBDA d, e : IF e[1] = 1 THEN DiscoverNode(arena, d, e[2], limits) ELSE d, c, field[2])
    [] OTHER -> c

CountRoots(c, limits) ==
  IF Len(c.roots) > limits.max_index_rows THEN Refuse(c, "max_index_rows")
  ELSE IF Len(SelectSeq(c.roots, LAMBDA r : r.kind = AxiomRoot)) > limits.max_axioms THEN Refuse(c, "max_axioms")
  ELSE [c EXCEPT !.phase = IF c.roots = <<>> THEN "lengths" ELSE "discover_roots"]
DiscoverRoot(arena, c, limits) ==
  LET root == c.roots[c.at]
  IN  IF ~ Valid(arena, root.id) \/ ~ RootAccepts(root.kind, Record(arena, root.id).tag) THEN Refuse(c, "protocol")
      ELSE LET d == DiscoverNode(arena, c, root.id, limits)
           IN  IF d.err # "" THEN d
               ELSE [d EXCEPT !.at = @ + 1, !.phase = IF c.at = Len(c.roots) THEN "discover" ELSE @]
DiscoverNext(arena, c, limits) ==
  LET id == Last(c.stack)
      d == FoldLeft(LAMBDA x, f : DiscoverFieldNodes(arena, x, f, limits), [c EXCEPT !.stack = Front(@)], Fields(arena, id))
  IN  IF d.err = "" /\ d.stack = <<>> THEN [d EXCEPT !.phase = "lengths"] ELSE d

-----------------------------------------------------------------------------
(* Lengths, and the bytes of a node produced one at a time from a stack of    *)
(* tasks, so that no row is ever written out to be compared.                  *)

RECURSIVE CanonicalNodeLen(_, _)
CanonicalLeafLen(arena, field) ==
  CASE field[1] = 0 -> 1
    [] field[1] = 1 -> 1 + FramedLen(CanonicalNodeLen(arena, field[2]))
    [] field[1] = 4 -> 1 + Len(field[2])
    [] OTHER -> 1 + FramedLen(Len(field[2]))
CanonicalFieldLen(arena, field) ==
  CASE field[1] = 6 -> 1 + VarintLen(Len(field[2])) + Total([j \in DOMAIN field[2] |-> FramedLen(CanonicalNodeLen(arena, field[2][j][2]))])
    [] field[1] = 7 -> 1 + VarintLen(Len(field[2])) + Total([j \in DOMAIN field[2] |-> CanonicalLeafLen(arena, field[2][j])])
    [] OTHER -> CanonicalLeafLen(arena, field)
CanonicalNodeLen(arena, id) ==
  LET fields == Fields(arena, id)
  IN  VarintLen(Record(arena, id).tag) + Total([j \in DOMAIN fields |-> CanonicalFieldLen(arena, fields[j])])

LengthWorkspace(n) == 6 * n
SortWorkspaceEstimate(n, depth) == IF n < 2 THEN 5 * n ELSE 7 * n + 16 * (depth + 2)
DeduplicationWorkspace(n, depth) == 7 * n + 16 * (depth + 2)
CheckWorkspaceMemory(arena, c, workspace, limits) == arena.retained + c.external + workspace <= limits.max_memory

MeasureLengths(arena, c, limits) ==
  LET n == Len(c.nodes)
      lengths == [id \in ToSet(c.nodes) |-> CanonicalNodeLen(arena, id)]
      workspace == Largest({4 * n, LengthWorkspace(n), SortWorkspaceEstimate(n, limits.max_nesting_depth)})
  IN  IF \E id \in ToSet(c.nodes) : lengths[id] > limits.max_canonical_work THEN Refuse(c, "max_canonical_work")
      ELSE IF ~ CheckWorkspaceMemory(arena, c, workspace, limits) THEN Refuse(c, "max_memory")
      ELSE [c EXCEPT !.lengths = lengths, !.workspace = workspace, !.phase = "order"]

Task(kind, value) == [kind |-> kind, value |-> value]
ScheduleNodeFrame(lengths, id, marker) ==
  <<Task("node", id), Task("varint", lengths[id])>> \o (IF marker THEN <<Task("byte", 1)>> ELSE <<>>)
ScheduleFramedScalar(marker, value) ==
  (IF value = <<>> THEN <<>> ELSE <<Task("slice", value)>>) \o <<Task("varint", Len(value)), Task("byte", marker)>>
ScheduleLeaf(lengths, field) ==
  CASE field[1] = 0 -> <<Task("byte", 0)>>
    [] field[1] = 1 -> ScheduleNodeFrame(lengths, field[2], TRUE)
    [] field[1] = 4 -> <<Task("slice", field[2]), Task("byte", 4)>>
    [] OTHER -> ScheduleFramedScalar(field[1], field[2])
ScheduleField(lengths, field) ==
  IF field[1] \in {6, 7}
  THEN <<Task("sequence", [kind |-> field[1], items |-> field[2]]), Task("varint", Len(field[2])), Task("byte", field[1])>>
  ELSE ScheduleLeaf(lengths, field)
ScheduleItem(lengths, kind, item) ==
  IF kind = 6 THEN ScheduleNodeFrame(lengths, item[2], FALSE) ELSE ScheduleLeaf(lengths, item)

\* The bytes that next_byte gives until the stack is empty; the bytes of a
\* varint or a slice, which it gives one by one, are taken together.
RECURSIVE CursorBytes(_, _, _)
CursorBytes(arena, lengths, stack) ==
  IF stack = <<>> THEN <<>>
  ELSE LET task == Last(stack)
           rest == Front(stack)
           v == task.value
       IN  CASE task.kind = "byte" -> <<v>> \o CursorBytes(arena, lengths, rest)
             [] task.kind = "varint" -> EncodeVarint(v) \o CursorBytes(arena, lengths, rest)
             [] task.kind = "slice" -> v \o CursorBytes(arena, lengths, rest)
             [] task.kind = "node" ->
                  LET fields == Fields(arena, v)
                  IN  EncodeVarint(Record(arena, v).tag)
                      \o CursorBytes(arena, lengths, rest \o Reverse([j \in DOMAIN fields |-> Task("field", fields[j])]))
             [] task.kind = "field" -> CursorBytes(arena, lengths, rest \o ScheduleField(lengths, v))
             [] task.kind = "sequence" ->
                  CursorBytes(arena, lengths,
                    IF v.items = <<>> THEN rest
                    ELSE Append(rest, Task("sequence", [v EXCEPT !.items = Tail(@)]))
                         \o ScheduleItem(lengths, v.kind, Head(v.items)))
NodeStream(arena, c, id) == CursorBytes(arena, c.lengths, <<Task("node", id)>>)

\* canonical_node_order, and the ids that deduplicate_canonical_nodes gives:
\* a node equal to the one kept before it shares its number.
CanonicalNodeOrder(arena, c) ==
  LET order == FallibleIndexOrder(Len(c.nodes), Greater([i \in DOMAIN c.nodes |-> NodeStream(arena, c, c.nodes[i])]))
  IN  [k \in DOMAIN order |-> c.nodes[order[k]]]
ValidateRootOrder(arena, c) ==
  \A i \in 2..Len(c.roots) :
    LET prior == c.roots[i - 1]
        current == c.roots[i]
    IN  \/ prior.kind < current.kind
        \/ prior.kind = current.kind /\ Before(NodeStream(arena, c, prior.id), NodeStream(arena, c, current.id))
DistinctNodes(arena, c) ==
  SelectSeq([i \in DOMAIN c.nodes |-> i], LAMBDA i : i = 1 \/ NodeStream(arena, c, c.nodes[i - 1]) # NodeStream(arena, c, c.nodes[i]))
OrderNodes(arena, c) == [c EXCEPT !.nodes = CanonicalNodeOrder(arena, c), !.phase = "validate"]
OneIdPerOwner(arena, c, limits) ==
  [c EXCEPT !.ids = [id \in ToSet(c.nodes) |-> CHOOSE k \in DOMAIN c.nodes : c.nodes[k] = id], !.phase = "measure"]
DeduplicateNodes(arena, c, limits) ==
  LET distinct == DistinctNodes(arena, c)
      workspace == Largest({c.workspace, DeduplicationWorkspace(Len(c.nodes), limits.max_nesting_depth)})
  IN  IF ~ ValidateRootOrder(arena, c) THEN Refuse(c, "protocol")
      ELSE IF ~ CheckWorkspaceMemory(arena, c, workspace, limits) THEN Refuse(c, "max_memory")
      ELSE [c EXCEPT !.nodes = [k \in DOMAIN distinct |-> c.nodes[distinct[k]]],
                     !.ids = [id \in ToSet(c.nodes) |->
                               LET i == CHOOSE k \in DOMAIN c.nodes : c.nodes[k] = id
                               IN  Len(SelectSeq(distinct, LAMBDA k : k <= i))],
                     !.workspace = workspace, !.phase = "measure"]

-----------------------------------------------------------------------------
(* Measuring.  An integer is kept as base-2^PayloadBits digits and written    *)
(* out as bytes of one bit more.                                              *)

RECURSIVE BitLength(_)
BitLength(n) == IF n = 0 THEN 0 ELSE 1 + BitLength(n \div 2)
IntegerMagnitudeLen(varint) ==
  LET bits == (Len(varint) - 1) * PayloadBits + BitLength(Last(varint) % Radix)
  IN  Largest({1, (bits + PayloadBits) \div (PayloadBits + 1)})

Leaves(field) == IF field[1] = 7 THEN field[2] ELSE IF field[1] = 6 THEN <<>> ELSE <<field>>
MeasureLeaf(leaf) ==
  CASE leaf[1] \in {0, 1} -> 0
    [] leaf[1] = 4 -> IntegerMagnitudeLen(leaf[2])
    [] OTHER -> Len(leaf[2])
StringLeaf(leaf) == leaf[1] \in {2, 5}
MeasureColumns(arena, nodes) ==
  LET fields == Concat([i \in DOMAIN nodes |-> Fields(arena, nodes[i])])
      leaves == Concat([j \in DOMAIN fields |-> Leaves(fields[j])])
      tagged(S) == Len(SelectSeq(nodes, LAMBDA id : Record(arena, id).tag \in S))
  IN  [fields |-> Len(fields),
       items |-> Total([j \in DOMAIN fields |-> IF fields[j][1] \in {6, 7} THEN Len(fields[j][2]) ELSE 0]),
       strings |-> Len(SelectSeq(leaves, StringLeaf)),
       scalars |-> Total([k \in DOMAIN leaves |-> MeasureLeaf(leaves[k])]),
       annotations |-> tagged({5}), atoms |-> tagged(141..147)]

\* The bytes of each buffer, in their order in the backing arena.
BufferLengths(roots, nodes, counts) ==
  <<roots, 4 * roots, 2 * nodes, 8 * (nodes + 1), counts.fields, 8 * counts.fields, 8 * counts.fields,
    counts.items, 8 * counts.items, 8 * counts.items, counts.scalars>>
CheckLayoutLimits(arena, c, counts, limits) ==
  LET bytes == Total(BufferLengths(Len(c.roots), Len(c.nodes), counts))
  IN  CASE Largest({Len(c.roots), Len(c.nodes), counts.fields, counts.items}) > limits.max_index_rows -> "max_index_rows"
        [] bytes > limits.max_index_bytes -> "max_index_bytes"
        [] arena.retained + c.external + bytes + c.workspace > limits.max_memory -> "max_memory"
        [] OTHER -> ""
MeasureAll(arena, c, limits) ==
  LET counts == MeasureColumns(arena, c.nodes)
      err == CheckLayoutLimits(arena, c, counts, limits)
  IN  CASE counts.strings > limits.max_strings -> Refuse(c, "max_strings")
        [] counts.annotations > limits.max_annotations -> Refuse(c, "max_annotations")
        [] counts.atoms > limits.max_rule_atoms -> Refuse(c, "max_rule_atoms")
        [] err # "" -> Refuse(c, err)
        [] OTHER -> [c EXCEPT !.counts = counts, !.phase = "fill"]

-----------------------------------------------------------------------------
(* Filling.  capacity is the size of the scalar buffer: the backing arena of  *)
(* write_into cannot grow, the vectors of into_columns can.                   *)

EmptyBuffers ==
  [err |-> "", root_kinds |-> <<>>, root_ids |-> <<>>, node_tags |-> <<>>, node_field_offsets |-> <<0>>,
   fields |-> <<>>, items |-> <<>>, scalars |-> <<>>]

\* append_integer_magnitude: the bytes it pushes, then the zeros it pops.
RECURSIVE PushedBytes(_, _, _)
PushedBytes(varint, accumulator, bits) ==
  IF bits >= PayloadBits + 1
  THEN <<accumulator % (2 * Radix)>> \o PushedBytes(varint, accumulator \div (2 * Radix), bits - PayloadBits - 1)
  ELSE IF varint # <<>>
  THEN PushedBytes(Tail(varint), accumulator + (Head(varint) % Radix) * 2 ^ bits, bits + PayloadBits)
  ELSE IF bits # 0 THEN <<accumulator>> ELSE <<>>
RECURSIVE PopZeros(_)
PopZeros(bytes) == IF Len(bytes) > 1 /\ Last(bytes) = 0 THEN PopZeros(Front(bytes)) ELSE bytes

Fits(out, bytes, capacity) == Len(out.scalars) + Len(bytes) <= capacity
AppendScalar(out, payload, capacity) ==
  IF ~ Fits(out, payload, capacity) THEN [out EXCEPT !.err = "overflow"]
  ELSE [out EXCEPT !.scalars = @ \o payload]
AppendIntegerMagnitude(out, varint, capacity) ==
  LET pushed == PushedBytes(varint, 0, 0)
      kept == PopZeros(pushed)
  IN  IF ~ Fits(out, pushed, capacity) THEN [out EXCEPT !.err = "overflow"]
      ELSE IF Len(kept) # IntegerMagnitudeLen(varint) THEN [out EXCEPT !.err = "drifted"]
      ELSE [out EXCEPT !.scalars = @ \o kept]

\* A leaf is a row of the fields or of the items: its kind, value and length.
LeafRow(leaf, ids, start, end) ==
  CASE leaf[1] = 0 -> <<0, 0, 0>>
    [] leaf[1] = 1 -> <<1, ids[leaf[2]], 0>>
    [] OTHER -> <<leaf[1], start, end - start>>
AppendLeaf(out, leaf, ids, table, capacity) ==
  LET filled == CASE leaf[1] \in {0, 1} -> out
                  [] leaf[1] = 4 -> AppendIntegerMagnitude(out, leaf[2], capacity)
                  [] OTHER -> AppendScalar(out, leaf[2], capacity)
  IN  IF out.err # "" \/ filled.err # "" THEN filled
      ELSE [filled EXCEPT ![table] = Append(@, LeafRow(leaf, ids, Len(out.scalars), Len(filled.scalars)))]
SetIsOrdered(items, ids) == \A j \in 2..Len(items) : ids[items[j - 1][2]] < ids[items[j][2]]
AppendField(out, field, ids, capacity) ==
  IF field[1] \notin {6, 7} THEN AppendLeaf(out, field, ids, "fields", capacity)
  ELSE IF field[1] = 6 /\ ~ SetIsOrdered(field[2], ids) THEN [out EXCEPT !.err = "unordered"]
  ELSE LET filled == FoldLeft(LAMBDA o, leaf : AppendLeaf(o, leaf, ids, "items", capacity), out, field[2])
       IN  [filled EXCEPT !.fields = Append(@, <<field[1], Len(out.items), Len(field[2])>>)]
AppendNode(arena, out, id, ids, capacity) ==
  LET filled == FoldLeft(LAMBDA o, f : AppendField(o, f, ids, capacity),
                         [out EXCEPT !.node_tags = Append(@, Record(arena, id).tag)], Fields(arena, id))
  IN  [filled EXCEPT !.node_field_offsets = Append(@, Len(filled.fields))]
\* fill_buffers writes the roots first, then node after node.
FillRoots(c) ==
  [EmptyBuffers EXCEPT !.root_kinds = [i \in DOMAIN c.roots |-> c.roots[i].kind],
                       !.root_ids = [i \in DOMAIN c.roots |-> c.ids[c.roots[i].id]]]
FillNode(arena, c, out, capacity) == IF out.err # "" THEN out ELSE AppendNode(arena, out, c.nodes[c.at], c.ids, capacity)

\* total_buffer_bytes, against the layout it was measured for.
BufferBytes(out) ==
  BufferLengths(Len(out.root_ids), Len(out.node_field_offsets) - 1,
                [fields |-> Len(out.fields), items |-> Len(out.items), scalars |-> Len(out.scalars)])
Layout(c) == BufferLengths(Len(c.roots), Len(c.nodes), c.counts)
Drifted(c, out) == IF out.err = "" /\ BufferBytes(out) # Layout(c) THEN [out EXCEPT !.err = "drifted"] ELSE out

Unbounded == 100000
StartFill(c) == [c EXCEPT !.owned = FillRoots(c), !.prepared = FillRoots(c), !.at = 1, !.phase = "nodes"]
FillNext(arena, c) ==
  IF c.at > Len(c.nodes)
  THEN [c EXCEPT !.owned = Drifted(c, @), !.prepared = Drifted(c, @), !.phase = "end"]
  ELSE [c EXCEPT !.owned = FillNode(arena, c, @, Unbounded),
                 !.prepared = FillNode(arena, c, @, c.counts.scalars), !.at = @ + 1]

ColumnStep(arena, c, limits) ==
  CASE c.phase = "roots" -> CountRoots(c, limits)
    [] c.phase = "discover_roots" -> DiscoverRoot(arena, c, limits)
    [] c.phase = "discover" -> DiscoverNext(arena, c, limits)
    [] c.phase = "lengths" -> MeasureLengths(arena, c, limits)
    [] c.phase = "order" -> OrderNodes(arena, c)
    [] c.phase = "validate" -> DeduplicateNodes(arena, c, limits)
    [] c.phase = "measure" -> MeasureAll(arena, c, limits)
    [] c.phase = "fill" -> StartFill(c)
    [] c.phase = "nodes" -> FillNext(arena, c)

-----------------------------------------------------------------------------
(* The tree a reader of the columns builds for a node.                        *)

RECURSIVE Digits(_, _)
Digits(bytes, base) == IF bytes = <<>> THEN 0 ELSE Head(bytes) + base * Digits(Tail(bytes), base)
RECURSIVE ReadNode(_, _)
ReadLeaf(out, row) ==
  CASE row[1] = 0 -> <<0>>
    [] row[1] = 1 -> <<1, ReadNode(out, row[2])>>
    [] row[1] = 4 -> <<4, EncodeVarint(Digits(SubSeq(out.scalars, row[2] + 1, row[2] + row[3]), 2 * Radix))>>
    [] OTHER -> <<row[1], SubSeq(out.scalars, row[2] + 1, row[2] + row[3])>>
ReadField(out, row) ==
  IF row[1] \in {6, 7} THEN <<row[1], [j \in 1..row[3] |-> ReadLeaf(out, out.items[row[2] + j])]>>
  ELSE ReadLeaf(out, row)
ReadNode(out, n) ==
  LET first == out.node_field_offsets[n]
      last == out.node_field_offsets[n + 1]
  IN  <<out.node_tags[n], [k \in 1..(last - first) |-> ReadField(out, out.fields[first + k])]>>
=============================================================================
