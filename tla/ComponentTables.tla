--------------------------- MODULE ComponentTables ---------------------------
(***************************************************************************)
(* The dense tables of model/components.rs and their canonical bytes.  A   *)
(* component is a row [tag, fields, height] of its category's table.  A    *)
(* field is a tuple that starts with its canonical marker: <<0>> nothing,  *)
(* <<1, local>> a component, <<2, s>> text, <<3, b>> bytes, <<4, i>> an    *)
(* integer, <<5, s>> an enum, <<7, q>> a row of the sequence table.  A     *)
(* local identifier is <<category, row>>.                                  *)
(***************************************************************************)
EXTENDS CanonicalRows

CONSTANTS PayloadBits, EncodeDepthCeiling   \* 7 and 1024 in the code

Radix == 2 ^ PayloadBits
Concat(s) == FlattenSeq(s)
Total(s) == FoldSeq(+, 0, s)
Largest(S) == IF S = {} THEN 0 ELSE CHOOSE x \in S : \A y \in S : y <= x
Least(a, b) == IF a < b THEN a ELSE b

RECURSIVE EncodeVarint(_)
EncodeVarint(v) == IF v < Radix THEN <<v>> ELSE <<Radix + (v % Radix)>> \o EncodeVarint(v \div Radix)
RECURSIVE VarintLen(_)
VarintLen(v) == IF v < Radix THEN 1 ELSE 1 + VarintLen(v \div Radix)
EncodeFrame(s) == EncodeVarint(Len(s)) \o s
FramedLen(n) == VarintLen(n) + n

-----------------------------------------------------------------------------
Categories == 0..10
Entity == 1
Annotation == 4
Axiom == 9
Swrl == 10

TagCategory(tag) ==
  CASE tag \in 1..5 -> tag - 1
    [] tag \in {10, 11} -> 5
    [] tag = 20 -> 6
    [] tag \in 21..25 -> 7
    [] tag \in 30..46 -> 8
    [] tag \in 60..123 -> Axiom
    [] tag \in 140..148 -> Swrl

\* Expressions, facets and data ranges are one category to the callers.
Term == 5
ComponentCategory(category) == IF category \in 5..8 THEN Term ELSE category

-----------------------------------------------------------------------------
(* encoded_len and encode: the lengths are measured before bytes are written. *)

RECURSIVE EncodedNodeLen(_, _)
EncodedSequenceMemberLen(t, v) ==
  CASE v[1] = 0 -> 1
    [] v[1] \in {2, 5} -> 1 + FramedLen(Len(t.strings[v[2]]))
    [] v[1] = 3 -> 1 + FramedLen(Len(t.bytes[v[2]]))
    [] v[1] = 4 -> 1 + Len(t.integers[v[2]])
    [] v[1] = 1 -> 1 + FramedLen(EncodedNodeLen(t, v[2]))
EncodedSequenceLen(t, row) ==
  1 + VarintLen(Len(row.elements)) + Total([j \in DOMAIN row.elements |->
        IF row.kind = 6 THEN FramedLen(EncodedNodeLen(t, row.elements[j][2]))
        ELSE EncodedSequenceMemberLen(t, row.elements[j])])
EncodedValueLen(t, v) ==
  IF v[1] = 7 THEN EncodedSequenceLen(t, t.sequences[v[2]]) ELSE EncodedSequenceMemberLen(t, v)
EncodedNodeLen(t, local) ==
  LET row == t.components[local[1]][local[2]]
  IN  VarintLen(row.tag) + Total([j \in DOMAIN row.fields |-> EncodedValueLen(t, row.fields[j])])

\* A member of a set or sequence is one level below the component that holds it.
RECURSIVE EncodeDepth(_, _)
EncodeDepth(t, local) ==
  LET row == t.components[local[1]][local[2]]
      held == UNION {IF v[1] = 7 THEN {e \in ToSet(t.sequences[v[2]].elements) : e[1] = 1}
                     ELSE IF v[1] = 1 THEN {v} ELSE {} : v \in ToSet(row.fields)}
  IN  Largest({1 + EncodeDepth(t, v[2]) : v \in held})

RECURSIVE EncodeNode(_, _)
EncodeSequenceElement(t, v) ==
  CASE v[1] = 0 -> <<0>>
    [] v[1] \in {2, 5} -> <<v[1]>> \o EncodeFrame(t.strings[v[2]])
    [] v[1] = 3 -> <<3>> \o EncodeFrame(t.bytes[v[2]])
    [] v[1] = 4 -> <<4>> \o t.integers[v[2]]
    [] v[1] = 1 -> <<1>> \o EncodeVarint(EncodedNodeLen(t, v[2])) \o EncodeNode(t, v[2])
EncodeSequence(t, row) ==
  <<row.kind>> \o EncodeVarint(Len(row.elements)) \o Concat([j \in DOMAIN row.elements |->
        IF row.kind = 6
        THEN EncodeVarint(EncodedNodeLen(t, row.elements[j][2])) \o EncodeNode(t, row.elements[j][2])
        ELSE EncodeSequenceElement(t, row.elements[j])])
EncodeNode(t, local) ==
  LET row == t.components[local[1]][local[2]]
  IN  EncodeVarint(row.tag) \o Concat([j \in DOMAIN row.fields |->
        IF row.fields[j][1] = 7 THEN EncodeSequence(t, t.sequences[row.fields[j][2]])
        ELSE EncodeSequenceElement(t, row.fields[j])])

\* encode_with_work refuses a row that is too deep, too long, or whose bytes do
\* not fit beside what is held already.
Encodable(t, local, limits, held) ==
  /\ EncodeDepth(t, local) <= Least(limits.max_nesting_depth, EncodeDepthCeiling)
  /\ EncodedNodeLen(t, local) <= limits.max_canonical_work
  /\ held + EncodedNodeLen(t, local) <= limits.max_memory

-----------------------------------------------------------------------------
(* fallible_index_order: a bottom-up merge sort that keeps equal items in     *)
(* their order.  greater[i][j] is what the comparison says of items i and j.  *)

RECURSIVE Merge(_, _, _)
Merge(left, right, greater) ==
  IF left = <<>> THEN right
  ELSE IF right = <<>> THEN left
  ELSE IF greater[Head(left)][Head(right)]
       THEN <<Head(right)>> \o Merge(left, Tail(right), greater)
       ELSE <<Head(left)>> \o Merge(Tail(left), right, greater)

RECURSIVE MergeRuns(_, _, _)
MergeRuns(order, width, greater) ==
  IF width >= Len(order) THEN order
  ELSE LET run(k) == SubSeq(order, 1 + k * width, Least((k + 1) * width, Len(order)))
           pairs == (Len(order) + 2 * width - 1) \div (2 * width)
       IN  MergeRuns(Concat([p \in 1..pairs |-> Merge(run(2 * p - 2), run(2 * p - 1), greater)]),
                     2 * width, greater)
FallibleIndexOrder(n, greater) == MergeRuns([i \in 1..n |-> i], 1, greater)

\* The sequence with its elements evaluated once.
Tabulated(s) == s \o <<>>
Greater(keys) ==
  LET listed == Tabulated(keys) IN [i \in DOMAIN keys |-> [j \in DOMAIN keys |-> Before(listed[j], listed[i])]]

\* reorder_with_work: rows move to their destinations by swaps, in place.
Swap(s, i, j) == [s EXCEPT ![i] = s[j], ![j] = s[i]]
RECURSIVE ReorderFrom(_, _, _)
ReorderFrom(rows, destinations, i) ==
  IF i > Len(rows) THEN rows
  ELSE IF destinations[i] = i THEN ReorderFrom(rows, destinations, i + 1)
  ELSE ReorderFrom(Swap(rows, i, destinations[i]), Swap(destinations, i, destinations[i]), i)
Reorder(rows, destinations) == ReorderFrom(rows, destinations, 1)

-----------------------------------------------------------------------------
(* The value a component stands for, as the tree its row was decoded from.    *)

RECURSIVE Tree(_, _)
TreeValue(t, v) ==
  CASE v[1] = 0 -> v
    [] v[1] = 1 -> <<1, Tree(t, v[2])>>
    [] v[1] \in {2, 5} -> <<v[1], t.strings[v[2]]>>
    [] v[1] = 3 -> <<3, t.bytes[v[2]]>>
    [] v[1] = 4 -> <<4, t.integers[v[2]]>>
TreeField(t, v) ==
  IF v[1] # 7 THEN TreeValue(t, v)
  ELSE LET row == t.sequences[v[2]]
       IN  <<row.kind, [j \in DOMAIN row.elements |-> TreeValue(t, row.elements[j])]>>
Tree(t, local) ==
  LET row == t.components[local[1]][local[2]]
  IN  <<row.tag, [j \in DOMAIN row.fields |-> TreeField(t, row.fields[j])]>>

\* The canonical bytes of a tree, and the trees below it: references that do
\* not look at any table.
RECURSIVE RowBytes(_)
ScalarBytes(v) == IF v[1] = 0 THEN v ELSE IF v[1] = 4 THEN <<4>> \o v[2] ELSE <<v[1]>> \o EncodeFrame(v[2])
FieldBytes(v) == IF v[1] = 1 THEN <<1>> \o EncodeFrame(RowBytes(v[2])) ELSE ScalarBytes(v)
RowBytes(node) ==
  EncodeVarint(node[1]) \o Concat([i \in DOMAIN node[2] |->
    LET v == node[2][i] IN
    CASE v[1] = 6 -> <<6>> \o EncodeVarint(Len(v[2])) \o
                     Concat([j \in DOMAIN v[2] |-> EncodeFrame(RowBytes(v[2][j][2]))])
      [] v[1] = 7 -> <<7>> \o EncodeVarint(Len(v[2])) \o Concat([j \in DOMAIN v[2] |-> FieldBytes(v[2][j])])
      [] OTHER -> FieldBytes(v)])

NodesIn(v) ==
  CASE v[1] = 1 -> {v[2]}
    [] v[1] \in {6, 7} -> {e[2] : e \in {x \in ToSet(v[2]) : x[1] = 1}}
    [] OTHER -> {}
RECURSIVE Subtrees(_)
Subtrees(node) == {node} \cup UNION {UNION {Subtrees(x) : x \in NodesIn(v)} : v \in ToSet(node[2])}
RECURSIVE TreeHeight(_)
TreeHeight(node) ==
  1 + Largest(UNION {{TreeHeight(x) + (IF v[1] = 1 THEN 0 ELSE 1) : x \in NodesIn(v)} : v \in ToSet(node[2])}
              \cup {1 : v \in {x \in ToSet(node[2]) : x[1] \in {6, 7}}})
=============================================================================
