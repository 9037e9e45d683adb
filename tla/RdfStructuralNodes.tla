------------------------- MODULE RdfStructuralNodes -------------------------
(***************************************************************************)
(* Entity kinds, the order of the graph, and the annotation ledger of the  *)
(* native RDF mapper (rdfxml.rs): owl:Axiom and owl:Annotation nodes that  *)
(* reify a main triple and carry its annotations.                          *)
(*                                                                         *)
(* Beside the fields RdfExpressions uses, the mapping state m has          *)
(*   kinds    the set of <<iri, kind>> pairs the graph declares            *)
(*   records  the owl:Axiom nodes: [type, main, annotations, claimed]      *)
(*   nested   the owl:Annotation nodes: [type, main, claimed]              *)
(* where type and main are triple indexes.                                 *)
(***************************************************************************)
EXTENDS RdfExpressions

CONSTANT NameOrder  \* every IRI, label, predicate and lexical form, in byte order

NameRank == [n \in Range(NameOrder) |-> CHOOSE i \in DOMAIN NameOrder : NameOrder[i] = n]

-----------------------------------------------------------------------------
(* The two orders a graph reaches the mapper in.                           *)

KindRank(order, t) ==
  CASE IsLit(t) -> 3
    [] IsIri(t) -> IF order = "python" THEN 2 ELSE 1
    [] IsBlank(t) -> IF order = "python" THEN 1 ELSE 2

\* Literals compare by lexical form, then language and datatype, in Python's
\* order; the derived order has datatype before language.
TermKey(order, t) ==
  <<KindRank(order, t), NameRank[t[2]]>>
  \o (IF ~IsLit(t) THEN <<0, 0>>
      ELSE IF order = "python" THEN <<NameRank[t[4]], NameRank[t[3]]>>
      ELSE <<NameRank[t[3]], NameRank[t[4]]>>)

TripleKey(order, t) == TermKey(order, t.s) \o <<NameRank[t.p]>> \o TermKey(order, t.o)

KeyLess(a, b) ==
  \E i \in DOMAIN a : a[i] < b[i] /\ \A j \in 1..(i - 1) : a[j] = b[j]

TripleLess(order, a, b) == KeyLess(TripleKey(order, a), TripleKey(order, b))

\* RDF/XML sorts by the derived order, Turtle like Python.
SortGraph(order, graph) ==
  LET keyed == AsSeq({[key |-> TripleKey(order, t), triple |-> t] : t \in graph})
      sorted == SortSeq(keyed, LAMBDA a, b : KeyLess(a.key, b.key))
  IN  [k \in DOMAIN sorted |-> sorted[k].triple]

-----------------------------------------------------------------------------
(* Entity kinds.                                                           *)

DeclarationKind ==
  "owl:Class" :> "class" @@ "rdfs:Datatype" :> "datatype"
  @@ "owl:ObjectProperty" :> "object_property" @@ "owl:DatatypeProperty" :> "data_property"
  @@ "owl:AnnotationProperty" :> "annotation_property"
  @@ "owl:OntologyProperty" :> "annotation_property"
  @@ "owl:NamedIndividual" :> "named_individual"

InferredKind ==
  "owl:InverseFunctionalProperty" :> "object_property"
  @@ "owl:SymmetricProperty" :> "object_property" @@ "owl:TransitiveProperty" :> "object_property"

CollectEntityKinds(g) ==
  {<<g[i].s[2], (DeclarationKind @@ InferredKind)[g[i].o[2]]>> :
     i \in {i \in DOMAIN g : /\ g[i].p = "rdf:type" /\ IsIri(g[i].s) /\ IsIri(g[i].o)
                             /\ g[i].o[2] \in DOMAIN DeclarationKind \cup DOMAIN InferredKind}}

HasKind(m, iri, kind) ==
  \/ <<iri, kind>> \in m.kinds
  \/ kind = "object_property" /\ iri \in {"owl:topObjectProperty", "owl:bottomObjectProperty"}
  \/ kind = "data_property" /\ iri \in {"owl:topDataProperty", "owl:bottomDataProperty"}

IsBuiltinClass(iri) == iri \in {"owl:Thing", "owl:Nothing"}
IsBuiltinDatatype(iri) == iri \in {"rdfs:Literal", "rdf:PlainLiteral", "xsd:string", "xsd:integer"}

IsAnnotationProperty(m, iri) ==
  HasKind(m, iri, "annotation_property") \/ iri \in {"rdfs:label", "rdfs:comment", "owl:deprecated"}

-----------------------------------------------------------------------------
(* The annotation ledger.                                                  *)

AnnotationsFor(m, i) == UNION {r.annotations : r \in {r \in m.records : r.main = i}}

ClaimIndex(m, i) ==
  [m EXCEPT !.records = {IF r.main = i THEN [r EXCEPT !.claimed = TRUE] ELSE r : r \in @}]

Metadata == {"rdf:type", "owl:annotatedSource", "owl:annotatedProperty", "owl:annotatedTarget"}

SubjectIndexes(m, subject) == {i \in DOMAIN m.g : m.g[i].s = subject}

\* The annotation triples of a reification node, in graph order.
AnnotationIndexes(m, node) ==
  InOrder(m, {i \in SubjectIndexes(m, node) : m.g[i].p \notin Metadata})

ReificationNodes(m) ==
  {m.g[i].s : i \in {i \in DOMAIN m.g : /\ m.g[i].p = "rdf:type"
                                        /\ m.g[i].o \in {Iri("owl:Axiom"), Iri("owl:Annotation")}}}

MainIndexes(m, node) ==
  LET Part(p) == Target(m, Edges(m, node, p))
  IN  {i \in DOMAIN m.g : /\ m.g[i].s = Part("owl:annotatedSource")
                          /\ Iri(m.g[i].p) = Part("owl:annotatedProperty")
                          /\ m.g[i].o = Part("owl:annotatedTarget")}

\* inspect_reification_issue: one kind, one source, property and target of the
\* right types, and a main triple that is in the graph.
Malformed(m, node) ==
  \/ Typed(m, node, "owl:Axiom") # {} /\ Typed(m, node, "owl:Annotation") # {}
  \/ \E p \in Metadata \ {"rdf:type"} : Cardinality(Edges(m, node, p)) # 1
  \/ IsLit(Target(m, Edges(m, node, "owl:annotatedSource")))
  \/ ~IsIri(Target(m, Edges(m, node, "owl:annotatedProperty")))
  \/ MainIndexes(m, node) = {}

AnnotationValue(m, i) ==
  CASE IsIri(m.g[i].o) -> Ret(m, <<1, m.g[i].o[2]>>)
    [] IsBlank(m.g[i].o) -> DecodeIndividual(m, m.g[i].o)
    [] IsLit(m.g[i].o) -> DecodeLiteral(m, i)

AnnotationNode(m, i, nested) ==
  Then(AnnotationValue(m, i),
       LAMBDA v : Ret(v.m, <<5, Entity("annotation_property", m.g[i].p), v.n, nested>>))

\* The owl:Annotation nodes reifying triple i, in (main, type) order.
NestedFor(m, i) == {r \in m.nested : r.main = i}

\* No chain of annotations on annotations comes back to a triple it left.
RECURSIVE CycleFree(_, _, _)
CycleFree(m, i, stack) ==
  /\ i \notin stack
  /\ \A r \in NestedFor(m, i) :
        \A j \in Range(AnnotationIndexes(m, m.g[r.type].s)) : CycleFree(m, j, stack \cup {i})

RECURSIVE NestingDepth(_, _)
NestingDepth(m, i) ==
  IF NestedFor(m, i) = {} THEN 0
  ELSE 1 + Max({0} \cup {NestingDepth(m, j) :
                           j \in UNION {Range(AnnotationIndexes(m, m.g[r.type].s)) :
                                          r \in NestedFor(m, i)}})

\* The annotation triple j makes, with its own annotations.
RECURSIVE NestedAnnotations(_, _)
Annotation(m, j) == Then(NestedAnnotations(m, j), LAMBDA inner : AnnotationNode(inner.m, j, inner.n))

\* The annotations of triple i; every node that supplies one is claimed.
NestedAnnotations(m, i) ==
  LET claimed == [m EXCEPT !.nested = {IF r.main = i THEN [r EXCEPT !.claimed = TRUE] ELSE r : r \in @}]
      types == InOrder(m, {r.type : r \in NestedFor(m, i)})
      indexes == FlattenSeq([k \in DOMAIN types |-> AnnotationIndexes(m, m.g[types[k]].s)])
  IN  IF NestedFor(m, i) = {} THEN Ret(m, {})
      ELSE Then(DecodeEach(Annotation, claimed, indexes), LAMBDA all : Ret(all.m, NodeSet(all.n)))

\* collect_nested_annotation_records and their validation.
CollectNested(m) ==
  LET nodes == {i \in DOMAIN m.g : i \notin m.consumed /\ m.g[i].p = "rdf:type"
                                   /\ m.g[i].o = Iri("owl:Annotation")}
      m1 == [m EXCEPT !.nested = {[type |-> i, main |-> Min(MainIndexes(m, m.g[i].s)),
                                   claimed |-> FALSE] : i \in nodes}]
      mains == {r.main : r \in m1.nested}
  IN  CASE \E i \in mains : ~CycleFree(m1, i, {}) -> Fail(m1, "REIFICATION")
        [] \E i \in mains : NestingDepth(m1, i) > MaxNestingDepth -> Fail(m1, "LIMIT")
        [] OTHER -> Consume(m1, UNION {SubjectIndexes(m, m.g[i].s) : i \in nodes})

\* What comes after a decoder when the result is the state alone.
After(r, Step(_)) == IF Failed(r.m) THEN r.m ELSE Step(r)

\* One owl:Axiom node: its annotations with theirs, then all its triples.
CollectRecord(m, i) ==
  LET node == m.g[i].s
  IN  After(DecodeEach(Annotation, m, AnnotationIndexes(m, node)), LAMBDA all :
        Consume([all.m EXCEPT !.records = @ \cup
                   {[type |-> i, main |-> Min(MainIndexes(m, node)),
                     annotations |-> NodeSet(all.n), claimed |-> FALSE]}],
                SubjectIndexes(m, node)))

\* Run a step at every index of the graph in order, stopping at an error.
ForEach(Step(_, _), m) ==
  LET after[i \in 0..Len(m.g)] ==
        IF i = 0 THEN m ELSE LET acc == after[i - 1] IN IF Failed(acc) THEN acc ELSE Step(acc, i)
  IN  after[Len(m.g)]

CollectAxiomAnnotations(m) ==
  LET Step(acc, i) == IF i \notin acc.consumed /\ acc.g[i].p = "rdf:type"
                         /\ acc.g[i].o = Iri("owl:Axiom")
                      THEN CollectRecord(acc, i) ELSE acc
  IN  IF \E node \in ReificationNodes(m) : Malformed(m, node) THEN Fail(m, "REIFICATION")
      ELSE ForEach(Step, CollectNested(m))

FirstUnclaimed(m) == {r.main : r \in {r \in m.records \cup m.nested : ~r.claimed}}

-----------------------------------------------------------------------------
(***************************************************************************)
(* The structural nodes of the native RDF mapper (rdfxml.rs): SWRL rules,  *)
(* negative property assertions, owl:AllDifferent and owl:AllDisjoint*.    *)
(* Each is one node whose edges are read by name, whose other edges are    *)
(* its annotations, and whose triples are all consumed.                    *)
(*                                                                         *)
(* Beside the fields above, the mapping state m has axioms and extensions, *)
(* the roots in the order they are pushed, each with the index of the      *)
(* triple it was made from (the code keeps no such index: it recomputes it *)
(* as an anchor), and allowSwrl.                                           *)
(***************************************************************************)

Push(m, i, axiom) ==
  IF Failed(m) THEN m ELSE [m EXCEPT !.axioms = Append(@, [row |-> axiom, from |-> i])]
PushExtension(m, i, rule) ==
  IF Failed(m) THEN m ELSE [m EXCEPT !.extensions = Append(@, [row |-> rule, from |-> i])]

\* metadata_edge and required_metadata_edge over several predicates.
AtMostOne(m, node, predicates) == UniqueEdges(m, node, predicates)
ExactlyOne(m, node, predicates) ==
  IF \A p \in predicates : Cardinality(Edges(m, node, p)) = 1 THEN m ELSE Fail(m, "CARDINALITY")

EdgeTarget(m, node, predicate) == Target(m, Edges(m, node, predicate))

\* Every edge of the node that is not metadata is an annotation of its axiom.
AnnotationsOnStructuralNode(m, node, metadata) ==
  Then(DecodeEach(Annotation, m, InOrder(m, {i \in SubjectIndexes(m, node) : m.g[i].p \notin metadata})),
       LAMBDA all : Ret(all.m, NodeSet(all.n)))

ConsumeSubject(m, node) == Consume(m, SubjectIndexes(m, node))

-----------------------------------------------------------------------------
(* SWRL atoms.                                                             *)

\* A resource typed swrl:Variable is a variable, and its type triple is used.
DecodeSwrlVariable(m, term) ==
  LET types == IF IsLit(term) THEN {} ELSE Typed(m, term, "swrl:Variable")
  IN  CASE types = {} -> Ret(m, None)
        [] IsBlank(term) -> Err(m, "TYPE")
        [] OTHER -> Ret(Consume(m, types), <<140, <<1, term[2]>>>>)

DecodeSwrlIndividualArgument(m, term) ==
  Then(DecodeSwrlVariable(m, term),
       LAMBDA v : CASE v.n # None -> v
                    [] IsLit(term) -> Err(m, "TYPE")
                    [] OTHER -> DecodeIndividual(m, term))

DecodeSwrlDataArgument(m, i) ==
  Then(DecodeSwrlVariable(m, m.g[i].o),
       LAMBDA v : CASE v.n # None -> v
                    [] ~IsLit(m.g[i].o) -> Err(m, "TYPE")
                    [] OTHER -> DecodeLiteral(m, i))

\* The edges an atom of each type must have; it may have no other.
AtomEdges ==
  "swrl:ClassAtom" :> {"swrl:classPredicate", "swrl:argument1"}
  @@ "swrl:DataRangeAtom" :> {"swrl:dataRange", "swrl:argument1"}
  @@ "swrl:IndividualPropertyAtom" :> {"swrl:propertyPredicate", "swrl:argument1", "swrl:argument2"}
  @@ "swrl:DatavaluedPropertyAtom" :> {"swrl:propertyPredicate", "swrl:argument1", "swrl:argument2"}
  @@ "swrl:BuiltinAtom" :> {"swrl:builtin", "swrl:arguments"}
  @@ "swrl:SameIndividualAtom" :> {"swrl:argument1", "swrl:argument2"}
  @@ "swrl:DifferentIndividualsAtom" :> {"swrl:argument1", "swrl:argument2"}

\* The two individual arguments of an atom.
DecodeArguments(m, atom) ==
  DecodeEach(DecodeSwrlIndividualArgument, m,
             <<EdgeTarget(m, atom, "swrl:argument1"), EdgeTarget(m, atom, "swrl:argument2")>>)

DecodeClassAtom(m, atom) ==
  IF IsLit(EdgeTarget(m, atom, "swrl:classPredicate")) THEN Err(m, "TYPE")
  ELSE Then(DecodeTerm(m, EdgeTarget(m, atom, "swrl:classPredicate")), LAMBDA p :
         Then(DecodeSwrlIndividualArgument(p.m, EdgeTarget(m, atom, "swrl:argument1")), LAMBDA a :
           Ret(a.m, <<141, p.n, a.n>>)))

DecodeDataRangeAtom(m, atom) ==
  IF IsLit(EdgeTarget(m, atom, "swrl:dataRange")) THEN Err(m, "TYPE")
  ELSE Then(DecodeDataRange(m, EdgeTarget(m, atom, "swrl:dataRange")), LAMBDA p :
         Then(DecodeSwrlDataArgument(p.m, Min(Edges(m, atom, "swrl:argument1"))), LAMBDA a :
           Ret(a.m, <<142, p.n, a.n>>)))

DecodeObjectPropertyAtom(m, atom) ==
  IF IsLit(EdgeTarget(m, atom, "swrl:propertyPredicate")) THEN Err(m, "TYPE")
  ELSE Then(DecodeObjectProperty(m, EdgeTarget(m, atom, "swrl:propertyPredicate")), LAMBDA p :
         Then(DecodeArguments(p.m, atom), LAMBDA a : Ret(a.m, <<143, p.n>> \o a.n)))

DecodeDataPropertyAtom(m, atom) ==
  LET predicate == EdgeTarget(m, atom, "swrl:propertyPredicate")
  IN  IF ~IsIri(predicate) THEN Err(m, "TYPE")
      ELSE Then(DecodeSwrlIndividualArgument(m, EdgeTarget(m, atom, "swrl:argument1")), LAMBDA a :
             Then(DecodeSwrlDataArgument(a.m, Min(Edges(m, atom, "swrl:argument2"))), LAMBDA b :
               Ret(b.m, <<144, Entity("data_property", predicate[2]), a.n, b.n>>)))

\* Literal arguments are found through the rdf:first edge of their cell.
DecodeBuiltinAtom(m, atom) ==
  LET predicate == EdgeTarget(m, atom, "swrl:builtin")
      Argument(acc, cell) == DecodeSwrlDataArgument(acc, Min(Edges(m, Bl(cell), "rdf:first")))
  IN  IF ~IsIri(predicate) THEN Err(m, "TYPE")
      ELSE Then(DecodeRawCollection(m, EdgeTarget(m, atom, "swrl:arguments")), LAMBDA list :
             Then(DecodeEach(Argument, list.m, list.n.cells), LAMBDA args :
               Ret(args.m, <<145, <<1, predicate[2]>>, args.n>>)))

DecodeIndividualsAtom(m, atom, tag) ==
  Then(DecodeArguments(m, atom), LAMBDA a : Ret(a.m, <<tag>> \o a.n))

DecodeAtomOf(m, atom, type) ==
  CASE type = "swrl:ClassAtom" -> DecodeClassAtom(m, atom)
    [] type = "swrl:DataRangeAtom" -> DecodeDataRangeAtom(m, atom)
    [] type = "swrl:IndividualPropertyAtom" -> DecodeObjectPropertyAtom(m, atom)
    [] type = "swrl:DatavaluedPropertyAtom" -> DecodeDataPropertyAtom(m, atom)
    [] type = "swrl:BuiltinAtom" -> DecodeBuiltinAtom(m, atom)
    [] OTHER -> DecodeIndividualsAtom(m, atom, IF type = "swrl:SameIndividualAtom" THEN 146 ELSE 147)

DecodeSwrlAtom(m, atom) ==
  LET Whole(m1, type) ==
        Go(ExactlyOne(m1, atom, AtomEdges[type]),
           LAMBDA m2 : Then(DecodeAtomOf(m2, atom, type), LAMBDA r : Ret(ConsumeSubject(r.m, atom), r.n)))
      Of(m1, type) ==
        CASE ~IsIri(type) -> Err(m, "TYPE")
          [] type[2] \notin DOMAIN AtomEdges -> Err(m, "TYPE")
          [] \E i \in SubjectIndexes(m, atom) : m.g[i].p \notin AtomEdges[type[2]] \cup {"rdf:type"} ->
               Err(m, "INCOMPLETE")
          [] OTHER -> Whole(m1, type[2])
  IN  IF IsLit(atom) THEN Err(m, "TYPE")
      ELSE Go(ExactlyOne(m, atom, {"rdf:type"}), LAMBDA m1 : Of(m1, EdgeTarget(m, atom, "rdf:type")))

\* One swrl:Imp node; with SWRL disabled the first one is an error.  The atoms
\* of the body are decoded before those of the head.
MapSwrlRule(m, i) ==
  LET rule == m.g[i].s
      Annotated(atoms, size) ==
        After(AnnotationsOnStructuralNode(atoms.m, rule, {"rdf:type", "swrl:body", "swrl:head"}), LAMBDA ann :
          PushExtension(ConsumeSubject(ann.m, rule), i,
                        <<148, NodeSet(SubSeq(atoms.n, 1, size)),
                          NodeSet(SubSeq(atoms.n, size + 1, Len(atoms.n))), ann.n>>))
      Lists(m1) ==
        After(DecodeRawCollection(m1, EdgeTarget(m, rule, "swrl:body")), LAMBDA body :
          After(DecodeRawCollection(body.m, EdgeTarget(m, rule, "swrl:head")), LAMBDA head :
            After(DecodeEach(DecodeSwrlAtom, head.m, body.n.items \o head.n.items), LAMBDA atoms :
              Annotated(atoms, Len(body.n.items)))))
  IN  IF ~m.allowSwrl THEN Fail(m, "DISABLED")
      ELSE After(Ret(ExactlyOne(m, rule, {"swrl:body", "swrl:head"}), None), LAMBDA r : Lists(r.m))

\* The nodes of one type that no earlier step has consumed.
ForEachTyped(m, type, Step(_, _)) ==
  ForEach(LAMBDA acc, i : IF i \notin acc.consumed /\ acc.g[i].p = "rdf:type"
                             /\ acc.g[i].o = Iri(type)
                          THEN Step(acc, i) ELSE acc, m)

MapSwrlRules(m) == ForEachTyped(m, "swrl:Imp", MapSwrlRule)

-----------------------------------------------------------------------------
(* Negative property assertions, owl:AllDifferent, owl:AllDisjoint*.       *)

NegativeMetadata == {"rdf:type", "owl:sourceIndividual", "owl:assertionProperty",
                     "owl:targetIndividual", "owl:targetValue"}

MapNegativePropertyAssertion(m, i) ==
  LET node == m.g[i].s
      targets == Edges(m, node, "owl:targetIndividual")
      values == Edges(m, node, "owl:targetValue")
      property == EdgeTarget(m, node, "owl:assertionProperty")
      Made(source, ann) ==
        CASE targets # {} ->
               After(DecodeObjectProperty(ann.m, property), LAMBDA p :
                 After(DecodeIndividual(p.m, Target(m, targets)), LAMBDA t :
                   Push(ConsumeSubject(t.m, node), i, <<114, p.n, source.n, t.n, ann.n>>)))
          [] ~IsLit(Target(m, values)) \/ ~IsIri(property) -> Fail(ann.m, "UNSUPPORTED")
          [] OTHER ->
               After(DecodeLiteral(ann.m, Min(values)), LAMBDA v :
                 Push(ConsumeSubject(v.m, node), i,
                      <<116, Entity("data_property", property[2]), source.n, v.n, ann.n>>))
      Read(m1) ==
        CASE Failed(m1) -> m1
          [] (targets = {}) <=> (values = {}) -> Fail(m1, "UNSUPPORTED")
          [] OTHER ->
               After(DecodeIndividual(m1, EdgeTarget(m, node, "owl:sourceIndividual")), LAMBDA source :
                 After(AnnotationsOnStructuralNode(source.m, node, NegativeMetadata), LAMBDA ann :
                   Made(source, ann)))
  IN  Read(AtMostOne(ExactlyOne(m, node, {"owl:sourceIndividual", "owl:assertionProperty"}),
                     node, {"owl:targetIndividual", "owl:targetValue"}))

MapAllDifferentNode(m, i) ==
  LET node == m.g[i].s
      lists == Edges(m, node, "owl:members") \cup Edges(m, node, "owl:distinctMembers")
      Made(members) ==
        IF Cardinality(NodeSet(members.n)) < 2 THEN Fail(members.m, "UNSUPPORTED")
        ELSE After(AnnotationsOnStructuralNode(members.m, node, {"rdf:type", "owl:members", "owl:distinctMembers"}),
                   LAMBDA ann : Push(ConsumeSubject(ann.m, node), i, <<111, NodeSet(members.n), ann.n>>))
  IN  IF Cardinality(lists) # 1 THEN Fail(m, "CARDINALITY")
      ELSE After(DecodeIndividualCollection(m, Target(m, lists)), Made)

\* Two or more occurrences of one class are disjoint only from Nothing.
DisjointClasses(raw, annotations) ==
  IF Cardinality(NodeSet(raw)) = 1
  THEN <<61, raw[1], Nothing, annotations>>
  ELSE <<63, NodeSet(raw), annotations>>

MapAllDisjointNode(m, i) ==
  LET node == m.g[i].s
      head == EdgeTarget(m, node, "owl:members")
      Classes(c, ann) ==
        IF Len(c.n) < 2 THEN Fail(c.m, "UNSUPPORTED")
        ELSE Push(ConsumeSubject(c.m, node), i, DisjointClasses(c.n, ann.n))
      Properties(p, ann) ==
        IF Cardinality(NodeSet(p.n.nodes)) < 2 THEN Fail(p.m, "UNSUPPORTED")
        ELSE Push(ConsumeSubject(p.m, node), i,
                  <<IF p.n.data THEN 92 ELSE 72, NodeSet(p.n.nodes), ann.n>>)
      Members(ann) ==
        IF m.g[i].o = Iri("owl:AllDisjointClasses")
        THEN After(DecodeClassCollection(ann.m, head), LAMBDA c : Classes(c, ann))
        ELSE After(DecodePropertyCollection(ann.m, head), LAMBDA p : Properties(p, ann))
  IN  After(Go(ExactlyOne(m, node, {"owl:members"}),
               LAMBDA m1 : AnnotationsOnStructuralNode(m1, node, {"rdf:type", "owl:members"})), Members)

MapAllDisjointCollections(m) ==
  ForEach(LAMBDA acc, i :
            IF /\ i \notin acc.consumed /\ acc.g[i].p = "rdf:type"
               /\ acc.g[i].o \in {Iri("owl:AllDisjointClasses"), Iri("owl:AllDisjointProperties")}
            THEN MapAllDisjointNode(acc, i) ELSE acc, m)

MapSpecials(m) ==
  MapAllDisjointCollections(
    ForEachTyped(ForEachTyped(m, "owl:NegativePropertyAssertion", MapNegativePropertyAssertion),
                 "owl:AllDifferent", MapAllDifferentNode))
=============================================================================
