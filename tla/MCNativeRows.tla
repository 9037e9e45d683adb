---------------------------- MODULE MCNativeRows ----------------------------
EXTENDS NativeRows

(* Documents to scope. *)

\* ClassAssertion, ObjectPropertyAssertion and SameIndividual.
Is(class, a) == <<112, <<One(Named(class)), One(Provisional(a)), SetOf({})>>>>
Related(a, b) == <<114, <<One(Named(9)), One(Provisional(a)), One(Provisional(b)), SetOf({})>>>>
Same(labels) == <<110, <<SetOf({Provisional(l) : l \in labels}), SetOf({})>>>>

Document(key, annotations, axioms) == [key |-> key, rows |-> <<annotations, axioms, <<>>>>]
Pair(d, e, limits) == [docs |-> <<d, e>>, limits |-> limits]
Roomy == [terms |-> 100, depth |-> 5, work |-> 500]

Axioms(n) == {Is(1, a) : a \in 1..n} \cup {Related(a, b) : a, b \in 1..n}
Relabelings(n) == {f \in Bijection(1..n, 1..n) : n < 4 \/ f[1] = 3 \/ f[2] = 1}
Moved(axioms, f) == [i \in DOMAIN axioms |-> Relabeled(axioms[i], f)]

\* A class expression and a chain, to nest individuals in sets and lists.
OneOf(labels) == <<33, <<SetOf({Provisional(l) : l \in labels})>>>>
InOneOf(labels, a) == <<112, <<One(OneOf(labels)), One(Provisional(a)), SetOf({Named(5)})>>>>
InSome(n, filler, a) ==
  <<112, <<One(<<38, <<Number(n), One(Named(9)), One(filler)>>>>), One(Provisional(a)), SetOf({})>>>>
Listed(labels) == <<148, <<ListOf([i \in DOMAIN labels |-> Provisional(labels[i])]), Absent>>>>

\* A document against itself, relabelled and read backwards.
Renamed(axioms, n) ==
  {Pair(Document(1, <<>>, axioms), Document(1, <<>>, Moved(Reverse(axioms), f)), Roomy) : f \in Relabelings(n)}
Small(sizes) == UNION {Renamed(SetToSeq(S), 3) : S \in UNION {kSubset(k, Axioms(3)) : k \in sizes}}

\* Documents against other documents: equal up to labels or not.
Unequal == {Pair(Document(1, <<>>, SetToSeq(S)), Document(1, <<>>, SetToSeq(T)), Roomy) :
              S, T \in kSubset(2, Axioms(2))}
Elsewhere == {Pair(Document(1, <<>>, <<Is(1, 1)>>), d, Roomy) :
                d \in {Document(2, <<>>, <<Is(1, 1)>>), Document(1, <<Is(1, 1)>>, <<>>),
                       Document(1, <<Is(1, 2)>>, <<Is(1, 1)>>), Document(1, <<>>, <<Named(3), Is(1, 2)>>)}}

\* Symmetric components, and components that look alike.
Shapes == {<<Related(1, 2), Related(2, 3), Related(3, 1)>>,
           <<Related(1, 2), Related(2, 1), Related(3, 4), Related(4, 3)>>,
           <<Related(1, 2), Related(2, 3), Related(3, 4), Related(4, 1)>>,
           <<Related(1, 2), Related(1, 3), Is(1, 4), Is(1, 2), Is(1, 4)>>,
           <<Listed(<<1, 2>>), Listed(<<3, 4>>), Listed(<<2, 3>>)>>,
           <<Related(1, 2), Is(1, 3), Related(2, 1), Is(2, 4)>>,
           <<InOneOf({1}, 2), InOneOf({2}, 1), InSome(1, OneOf({3}), 1), InSome(2, OneOf({4}), 1)>>}

\* Members of one set whose places do not tell them apart.
Tied == {<<Same({1, 2}), Is(1, 1)>>, <<InOneOf({1, 2}, 3), Is(1, 1)>>, <<Same({1, 2, 3}), Same({3, 4})>>}

Budgets == {[Roomy EXCEPT !.work = w] : w \in {10, 13, 20, 33, 34, 70, 78, 79, 105, 106}}
           \cup {[Roomy EXCEPT !.terms = t] : t \in {1, 4, 7, 12}} \cup {[Roomy EXCEPT !.depth = 0]}
Limited == {Pair(Document(1, <<>>, x), Document(1, <<Is(1, 1)>>, <<>>), l) :
              x \in {<<Related(1, 2), Related(2, 3), Related(3, 1)>>}, l \in Budgets}

ScopeJobs == Small({1, 2}) \cup Unequal \cup Elsewhere \cup UNION {Renamed(x, 4) : x \in Shapes \cup Tied} \cup Limited

-----------------------------------------------------------------------------
(* Rows to store.  A byte has three bits, a varint carries two in each.  The  *)
(* names n of entities are texts of two and of four bytes: the length prefix  *)
(* of the longer one sorts first.                                             *)

Text(n) == CASE n = 1 -> <<1, 1>> [] n = 2 -> <<1, 0, 0, 0>> [] n = 3 -> <<2, 1>>
Node(x) == <<1, x>>
SetTree(S) == <<6, [i \in 1..Cardinality(S) |-> Node(CHOOSE x \in S : Cardinality({y \in S : Before(RowBytes(y), RowBytes(x))}) = i - 1)]>>
IriTree(n) == <<1, <<<<2, Text(n)>>>>>>
EntityTree(kind, n) == <<2, <<<<5, kind>>, Node(IriTree(n))>>>>
Class(n) == EntityTree(<<0>>, n)
Property(n) == EntityTree(<<3, 3>>, n)
BlankTree(n) == <<3, <<<<3, <<7>>>>, <<3, <<n>>>>>>>>
LiteralTree(n) == <<4, <<<<2, <<n>>>>, Node(EntityTree(<<1>>, 3)), <<0>>>>>>
Note(n, S) == <<5, <<Node(Property(1)), Node(LiteralTree(n)), SetTree(S)>>>>
Chain(ps) == <<11, <<<<7, [i \in DOMAIN ps |-> Node(Property(ps[i]))]>>>>>>
AtLeast(n, c) == <<38, <<<<4, EncodeVarint(n)>>, Node(Property(1)), Node(c)>>>>
And(S) == <<30, <<SetTree(S)>>>>
SubClassOf(c, d, S) == <<61, <<Node(c), Node(d), SetTree(S)>>>>
SubProperty(p, q) == <<70, <<Node(p), Node(Property(q)), SetTree({})>>>>
Member(c, b) == <<112, <<Node(c), Node(BlankTree(b)), SetTree({})>>>>
Atom(c, b) == <<141, <<Node(c), Node(BlankTree(b))>>>>
Rule(S, T) == <<148, <<SetTree(S), SetTree(T), SetTree({})>>>>

Plenty == [max_memory |-> 100000, max_strings |-> 100, max_terms |-> 100, max_annotations |-> 100, max_axioms |-> 100,
           max_sequence_arity |-> 100, max_nesting_depth |-> 100, max_canonical_work |-> 1000, max_temporary |-> 100,
           max_index_rows |-> 1000, max_index_bytes |-> 10000, max_rule_atoms |-> 100]
Documents(rows, buckets, order, limits, interrupts) ==
  [docs |-> <<>>, limits |-> limits, order |-> order, interrupts |-> interrupts,
   sources |-> [k \in DOMAIN rows |-> [owner |-> k, buckets |-> buckets[k], rows |-> rows[k], external |-> k]]]

Axiom1 == SubClassOf(Class(1), Class(2), {Note(1, {}), Note(2, {Note(1, {})})})
Axiom2 == SubClassOf(AtLeast(5, Class(1)), And({Class(1), Class(2)}), {})
Axiom3 == SubProperty(Chain(<<1, 2>>), 1)
Axiom4 == SubProperty(Chain(<<2, 1>>), 1)
Rule1 == Rule({Atom(Class(1), 1), Atom(Class(2), 2)}, {Atom(Class(1), 2)})

\* The same rows twice, in every order, hashed apart and all alike.
Twice == {Documents(<<rows, Reverse(rows)>>, <<1, 5>>, <<1, 2>>, Plenty, FALSE) :
            rows \in {<<Axiom1, Axiom2>>, <<Axiom3, Axiom4, Member(Class(1), 1)>>,
                      <<Rule1, Member(Class(2), 2)>>}}
\* Three documents that share values, in every order of the closure.
Shared == {Documents(<<<<Axiom3, Note(2, {})>>, <<Axiom4, Axiom3>>, <<Note(2, {}), Rule1, Axiom4>>>>, <<3, 3, 3>>, order, Plenty, FALSE) :
             order \in {<<1, 2, 3>>, <<2, 3, 1>>, <<3, 2, 1>>, <<1, 3, 2>>}}
Interrupted == {Documents(<<<<Axiom2, Axiom2>>, <<Member(Class(1), 1)>>>>, <<2, 2>>, <<2, 1>>, Plenty, TRUE)}
Bounded ==
  {Documents(<<<<Axiom1, Rule1>>>>, <<2>>, <<1>>, l, FALSE) :
     l \in {[Plenty EXCEPT !.max_memory = m] : m \in {100 + 40 * i : i \in 0..20}}
           \cup {[Plenty EXCEPT !.max_strings = n] : n \in {3, 6, 7, 20, 30}}
           \cup {[Plenty EXCEPT !.max_terms = n] : n \in {5, 12, 17, 18, 24, 25}}
           \cup {[Plenty EXCEPT !.max_annotations = n] : n \in {1, 2}}
           \cup {[Plenty EXCEPT !.max_axioms = 0]}
           \cup {[Plenty EXCEPT !.max_sequence_arity = 1]}
           \cup {[Plenty EXCEPT !.max_nesting_depth = n] : n \in {4, 5, 6, 7}}
           \cup {[Plenty EXCEPT !.max_canonical_work = n] : n \in {50, 100, 200, 300}}
           \cup {[Plenty EXCEPT !.max_temporary = 1]}
           \cup {[Plenty EXCEPT !.max_index_rows = n] : n \in {1, 30, 60}}
           \cup {[Plenty EXCEPT !.max_index_bytes = n] : n \in {300, 900, 1100}}
           \cup {[Plenty EXCEPT !.max_rule_atoms = 2]}}
  \cup {Documents(<<<<Axiom3, Rule1>>, <<Axiom3, Axiom4>>>>, <<2, 2>>, <<2, 1>>, l, FALSE) :
          l \in {[Plenty EXCEPT !.max_terms = 20], [Plenty EXCEPT !.max_axioms = 1], [Plenty EXCEPT !.max_memory = 900],
                 [Plenty EXCEPT !.max_axioms = 2]}}
\* Cardinalities at the edges of a digit and of a byte, up to five digits.
Counted == {Documents(<<<<SubClassOf(Class(1), AtLeast(n, Class(1)), {})>>>>, <<2>>, <<1>>, Plenty, FALSE) : n \in (0..9) \cup {15, 16, 31, 32, 63, 64, 65, 257}}

StoreJobs == Twice \cup Shared \cup Interrupted \cup Bounded \cup Counted
MCJobs == ScopeJobs \cup StoreJobs
=============================================================================
