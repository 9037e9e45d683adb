---------------------------- MODULE CanonicalRows ----------------------------
(***************************************************************************)
(* Canonical rows as parse/anonymous.rs reads them: a tree of constructors *)
(* over anonymous individuals and over subtrees that hold none, which stay *)
(* opaque.  Bytes are small naturals, compared as byte strings are.        *)
(***************************************************************************)
EXTENDS Integers, Sequences, FiniteSets, TLC, SequencesExt

\* <<2, n>> is the n-th anonymous-free subtree, <<3, identity>> an anonymous
\* individual, any other <<tag, fields>> a constructor that holds one.
Named(n) == <<2, n>>
Provisional(label) == <<3, <<0, label>>>>
IsAnonymous(node) == node[1] = 3
IsProvisional(identity) == identity[1] = 0
ContainsAnonymous(node) == node[1] # 2

\* The fields of a constructor: absent, one node, an integer, a set, a list.
Absent == <<0>>
One(node) == <<1, node>>
Number(n) == <<4, n>>
SetOf(nodes) == <<6, nodes>>
ListOf(nodes) == <<7, nodes>>

Before(a, b) ==
  \E i \in 1..Len(b) : /\ \A j \in 1..(i - 1) : j <= Len(a) /\ a[j] = b[j]
                       /\ i > Len(a) \/ a[i] < b[i]

Frame(s) == <<Len(s)>> \o s
Framed(s) == FlattenSeq([i \in DOMAIN s |-> Frame(s[i])])

RECURSIVE Bytes(_)
Bytes(node) ==
  CASE node[1] = 2 -> node
    [] node[1] = 3 -> <<3, node[2][2]>>
    [] OTHER -> <<node[1]>> \o FlattenSeq([i \in DOMAIN node[2] |->
         LET f == node[2][i] IN
         CASE f[1] = 1 -> <<1>> \o Frame(Bytes(f[2]))
           [] f[1] = 6 -> <<6, Cardinality(f[2])>> \o
                Framed(SortSeq(SetToSeq({Bytes(x) : x \in f[2]}), Before))
           [] f[1] = 7 -> <<7, Len(f[2])>> \o Framed([j \in DOMAIN f[2] |-> Bytes(f[2][j])])
           [] OTHER -> f])

\* The row with its individuals hidden.  Members of a set are ordered by their
\* skeletons, and by their bytes when those are equal.
RECURSIVE Skeleton(_)
SetOrder(nodes) ==
  SortSeq(SetToSeq(nodes), LAMBDA x, y :
    LET a == Skeleton(x)
        b == Skeleton(y)
    IN  IF a = b THEN Before(Bytes(x), Bytes(y)) ELSE Before(a, b))
SkeletonField(f) ==
  CASE f[1] = 0 -> <<48>>
    [] f[1] = 1 -> Skeleton(f[2])
    [] f[1] = 4 -> <<73, f[2]>>
    [] f[1] = 6 -> <<83, Cardinality(f[2])>> \o
         LET members == SetOrder(f[2]) IN Framed([j \in DOMAIN members |-> Skeleton(members[j])])
    [] f[1] = 7 -> <<81, Len(f[2])>> \o Framed([j \in DOMAIN f[2] |-> Skeleton(f[2][j])])
Skeleton(node) ==
  IF IsAnonymous(node) THEN <<66>>
  ELSE IF ~ ContainsAnonymous(node) THEN <<67>> \o Frame(Bytes(node))
  ELSE <<78, node[1]>> \o Framed([i \in DOMAIN node[2] |-> SkeletonField(node[2][i])])

\* The constructor's name and the names of its fields, one per field.
ConstructorLedger(node) == [name |-> node[1], fields |-> DOMAIN node[2]]

Children(f) ==
  CASE f[1] = 1 -> {f[2]}
    [] f[1] = 6 -> f[2]
    [] f[1] = 7 -> {f[2][j] : j \in DOMAIN f[2]}
    [] OTHER -> {}

RECURSIVE Identities(_)
Identities(node) ==
  IF IsAnonymous(node) THEN {node[2]}
  ELSE IF ~ ContainsAnonymous(node) THEN {}
  ELSE UNION {UNION {Identities(x) : x \in Children(node[2][i])} : i \in DOMAIN node[2]}

CollectLabels(node) == {id[2] : id \in {x \in Identities(node) : IsProvisional(x)}}

\* Where each provisional label occurs: constructor and field names, the
\* position in a list, and in a set the skeleton of the member.
RECURSIVE BlankOccurrences(_, _)
BlankOccurrences(node, path) ==
  IF IsAnonymous(node) THEN IF IsProvisional(node[2]) THEN <<[label |-> node[2][2], path |-> path]>> ELSE <<>>
  ELSE IF ~ ContainsAnonymous(node) THEN <<>>
  ELSE FlattenSeq([i \in ConstructorLedger(node).fields |->
         LET f == node[2][i]
             Members(m) == FlattenSeq([j \in DOMAIN m |->
                             BlankOccurrences(m[j], path \o <<i, 115>> \o Frame(Skeleton(m[j])))])
         IN
         CASE f[1] = 1 -> BlankOccurrences(f[2], path \o <<i>>)
           [] f[1] = 6 -> Members(SetOrder(f[2]))
           [] f[1] = 7 -> FlattenSeq([j \in DOMAIN f[2] |-> BlankOccurrences(f[2][j], path \o <<i, j>>)])
           [] OTHER -> <<>>])

\* The row under new identities; an identity without one is kept.
RECURSIVE EncodeReplaced(_, _)
EncodeReplaced(node, new) ==
  IF IsAnonymous(node) THEN IF node[2] \in DOMAIN new THEN <<3, new[node[2]]>> ELSE node
  ELSE IF ~ ContainsAnonymous(node) THEN node
  ELSE <<node[1], [i \in DOMAIN node[2] |->
         LET f == node[2][i] IN
         CASE f[1] = 1 -> One(EncodeReplaced(f[2], new))
           [] f[1] = 6 -> SetOf({EncodeReplaced(x, new) : x \in f[2]})
           [] f[1] = 7 -> ListOf([j \in DOMAIN f[2] |-> EncodeReplaced(f[2][j], new)])
           [] OTHER -> f]>>

\* What parse_node counts and bounds.
RECURSIVE Terms(_)
Terms(node) ==
  IF IsAnonymous(node) \/ ~ ContainsAnonymous(node) THEN 1
  ELSE 1 + FoldSeq(+, 0, [i \in DOMAIN node[2] |->
             LET f == node[2][i] IN
             CASE f[1] = 1 -> Terms(f[2])
               [] f[1] = 6 -> LET s == SetToSeq(f[2]) IN FoldSeq(+, 0, [j \in DOMAIN s |-> Terms(s[j])])
               [] f[1] = 7 -> FoldSeq(+, 0, [j \in DOMAIN f[2] |-> Terms(f[2][j])])
               [] OTHER -> 0])
RECURSIVE Depth(_)
Depth(node) ==
  IF IsAnonymous(node) \/ ~ ContainsAnonymous(node) THEN 0
  ELSE 1 + Max({0} \cup UNION {{Depth(x) : x \in Children(node[2][i])} : i \in DOMAIN node[2]})
=============================================================================
