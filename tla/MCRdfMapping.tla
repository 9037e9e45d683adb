---------------------------- MODULE MCRdfMapping ----------------------------
(***************************************************************************)
(* The instances TLC checks RdfMapping on: every union of two of the       *)
(* graphs below.  They share names and some blank nodes on purpose, so     *)
(* that unions share list tails, blank roles, properties and main triples. *)
(***************************************************************************)
EXTENDS RdfMapping

T(s, p, o) == [s |-> s, p |-> p, o |-> o]
A == Iri("ex:A")
B == Iri("ex:B")
C == Iri("ex:C")
P == Iri("ex:P")
Q == Iri("ex:Q")
D == Iri("ex:D")
DT == Iri("ex:DT")
N == Iri("ex:N")
a == Iri("ex:a")
b == Iri("ex:b")
c == Iri("ex:c")
x == Iri("ex:x")
O == Iri("ex:O")
One == <<"lit", "1", "xsd:integer", "">>
English == <<"lit", "v", "", "EN">>
Type(s, t) == T(s, "rdf:type", Iri(t))
Cell(cell, first, rest) == {T(Bl(cell), "rdf:first", first), T(Bl(cell), "rdf:rest", rest)}
Reified(node, kind, t, p, v) ==
  {Type(node, kind), T(node, "owl:annotatedSource", t.s), T(node, "owl:annotatedProperty", Iri(t.p)),
   T(node, "owl:annotatedTarget", t.o), T(node, p, v)}

SubAB == T(A, "rdfs:subClassOf", B)
Labelled == T(Bl("r"), "rdfs:label", Lit("v"))
OntLabel == T(O, "rdfs:label", Lit("v"))
PDecl == Type(P, "owl:ObjectProperty")
DDecl == Type(D, "owl:DatatypeProperty")

HeaderGraph ==
    {Type(O, "owl:Ontology"), T(O, "owl:versionIRI", Iri("ex:V")), T(O, "owl:imports",
      Iri("ex:I")), T(O, "rdfs:comment", Lit("v"))}
NestedHeaderGraph ==
    {Type(O, "owl:Ontology"), OntLabel} \cup Reified(Bl("n"), "owl:Annotation", OntLabel,
      "rdfs:comment", Lit("w"))
NamelessVersionGraph ==
    {Type(Bl("o"), "owl:Ontology"), T(Bl("o"), "owl:versionIRI", Iri("ex:V"))}
AnnotatedGraph ==
    {SubAB} \cup Reified(Bl("r"), "owl:Axiom", SubAB, "rdfs:label", Lit("v"))
AnnotatedTwiceGraph ==
    {SubAB} \cup Reified(Bl("r2"), "owl:Axiom", SubAB, "rdfs:comment", English)
NestedGraph ==
    {SubAB} \cup Reified(Bl("r"), "owl:Axiom", SubAB, "rdfs:label", Lit("v"))
      \cup Reified(Bl("n"), "owl:Annotation", Labelled, "rdfs:comment", Lit("w"))
CyclicNestedGraph ==
    Reified(Bl("n"), "owl:Annotation", T(Bl("n2"), "rdfs:label", Lit("v")), "rdfs:comment",
      Lit("v")) \cup Reified(Bl("n2"), "owl:Annotation", T(Bl("n"), "rdfs:comment", Lit("v")),
      "rdfs:label", Lit("v"))
MissingMainGraph ==
    Reified(Bl("r"), "owl:Axiom", SubAB, "rdfs:label", Lit("v"))
UnclaimedGraph ==
    Cell("l1", A, Nil) \cup Reified(Bl("r3"), "owl:Axiom", T(Bl("l1"), "rdf:rest", Nil),
      "rdfs:label", Lit("v"))
RestrictionGraph ==
    {PDecl, T(A, "rdfs:subClassOf", Bl("e")), Type(Bl("e"), "owl:Restriction"), Type(Bl("e"),
      "owl:Class"), T(Bl("e"), "owl:onProperty", P), T(Bl("e"), "owl:someValuesFrom", B)}
CardinalityGraph ==
    {DDecl, T(A, "rdfs:subClassOf", Bl("k")), Type(Bl("k"), "owl:Restriction"), T(Bl("k"),
      "owl:onProperty", D), T(Bl("k"), "owl:maxCardinality", One)}
UnionGraph ==
    {T(A, "owl:equivalentClass", Bl("u")), Type(Bl("u"), "owl:Class"), T(Bl("u"), "owl:unionOf",
      Bl("l1"))} \cup Cell("l1", B, Bl("l2")) \cup Cell("l2", C, Nil)
SharedTailGraph ==
    {T(C, "rdfs:subClassOf", Bl("w")), T(Bl("w"), "owl:intersectionOf", Bl("l3"))}
      \cup Cell("l3", A, Bl("l2")) \cup Cell("l2", C, Nil)
CyclicListGraph ==
    {T(C, "rdfs:subClassOf", Bl("y")), T(Bl("y"), "owl:unionOf", Bl("l4"))} \cup Cell("l4", A,
      Bl("l4"))
RecursiveGraph ==
    {T(B, "rdfs:subClassOf", Bl("z")), T(Bl("z"), "owl:complementOf", Bl("z"))}
ExpressionIndividualGraph ==
    {T(C, "rdfs:subClassOf", Bl("i")), T(Bl("i"), "owl:complementOf", A)}
EquivalentsGraph ==
    {T(A, "owl:equivalentClass", B), T(C, "owl:equivalentClass", B)} \cup Reified(Bl("r4"),
      "owl:Axiom", T(C, "owl:equivalentClass", B), "rdfs:label", Lit("v"))
PropertiesGraph ==
    {T(P, "owl:equivalentProperty", Q), T(P, "rdfs:subPropertyOf", Q), T(P, "rdfs:domain", A),
      T(Q, "rdfs:range", B)}
SameGraph ==
    {T(a, "owl:sameAs", b), T(Bl("i"), "owl:sameAs", b)}
DataRangeGraph ==
    {DDecl, T(D, "rdfs:range", Bl("d")), Type(Bl("d"), "rdfs:Datatype"), T(Bl("d"),
      "owl:onDatatype", Iri("xsd:integer")), T(Bl("d"), "owl:withRestrictions", Bl("l5")),
      T(Bl("f"), "xsd:minInclusive", One)} \cup Cell("l5", Bl("f"), Nil)
DatatypeGraph ==
    {Type(DT, "rdfs:Datatype"), T(DT, "owl:equivalentClass", Bl("g")), Type(Bl("g"),
      "owl:DataRange"), T(Bl("g"), "owl:oneOf", Bl("l6"))} \cup Cell("l6", One, Nil)
NegativeGraph ==
    {Type(Bl("q"), "owl:NegativePropertyAssertion"), T(Bl("q"), "owl:sourceIndividual", a),
      T(Bl("q"), "owl:assertionProperty", P), T(Bl("q"), "owl:targetIndividual", Bl("i"))}
NegativeValueGraph ==
    {Type(Bl("p"), "owl:NegativePropertyAssertion"), T(Bl("p"), "owl:sourceIndividual", a),
      T(Bl("p"), "owl:assertionProperty", D), T(Bl("p"), "owl:targetValue", One), T(Bl("p"),
      "rdfs:label", Lit("v"))}
AllDifferentGraph ==
    {Type(Bl("s"), "owl:AllDifferent"), T(Bl("s"), "owl:distinctMembers", Bl("l7"))}
      \cup Cell("l7", a, Bl("l8")) \cup Cell("l8", b, Nil)
AllDisjointGraph ==
    {Type(Bl("b1"), "owl:AllDisjointClasses"), T(Bl("b1"), "owl:members", Bl("l9"))}
      \cup Cell("l9", A, Bl("m1")) \cup Cell("m1", A, Nil)
AllDisjointPropertiesGraph ==
    {Type(Bl("t2"), "owl:AllDisjointProperties"), T(Bl("t2"), "owl:members", Bl("m2"))}
      \cup Cell("m2", P, Bl("m3")) \cup Cell("m3", Q, Nil)
ChainGraph ==
    {T(P, "owl:propertyChainAxiom", Bl("m4"))} \cup Cell("m4", P, Bl("m5")) \cup Cell("m5", Q,
      Nil)
KeyGraph ==
    {DDecl, T(A, "owl:hasKey", Bl("m6"))} \cup Cell("m6", D, Nil)
DisjointUnionGraph ==
    {T(A, "owl:disjointUnionOf", Bl("m7"))} \cup Cell("m7", B, Bl("m8")) \cup Cell("m8", C, Nil)
CompatibilityGraph ==
    {Type(C, "owl:Class"), T(C, "owl:complementOf", B), T(C, "owl:oneOf", Bl("m9"))}
      \cup Cell("m9", a, Nil)
InverseGraph ==
    {T(P, "owl:inverseOf", Bl("v")), T(Bl("v"), "owl:inverseOf", Q)}
DetachedInverseGraph ==
    {PDecl, T(Bl("v2"), "owl:inverseOf", P)}
DetachedBooleansGraph ==
    {Type(A, "owl:Class"), Type(Bl("h"), "owl:Class"), T(Bl("h"), "owl:unionOf", Nil),
      Type(Bl("h2"), "owl:Class"), T(Bl("h2"), "owl:intersectionOf", Bl("n1"))} \cup Cell("n1",
      A, Nil)
DetachedClassesGraph ==
    {Type(Bl("h3"), "owl:Class"), T(Bl("h3"), "owl:complementOf", Iri("owl:Thing")),
      Type(Bl("h4"), "owl:Class"), T(Bl("h4"), "owl:oneOf", Nil)}
DetachedDataGraph ==
    {Type(Bl("h5"), "rdfs:Datatype"), T(Bl("h5"), "owl:datatypeComplementOf", Iri("xsd:string")),
      Type(Bl("h6"), "owl:DataRange"), T(Bl("h6"), "owl:oneOf", Nil)}
DetachedRestrictionGraph ==
    {Type(Bl("h7"), "rdfs:Datatype"), T(Bl("h7"), "owl:onDatatype", Iri("xsd:integer")),
      T(Bl("h7"), "owl:withRestrictions", Bl("n2")), T(Bl("f2"), "xsd:minInclusive", One)}
      \cup Cell("n2", Bl("f2"), Nil)
DetachedDataListsGraph ==
    {Type(Bl("h8"), "rdfs:Datatype"), T(Bl("h8"), "owl:unionOf", Bl("n3")), Type(Bl("h9"),
      "rdfs:Datatype"), T(Bl("h9"), "owl:oneOf", Bl("n5"))} \cup Cell("n3", Iri("xsd:string"),
      Bl("n4")) \cup Cell("n4", Iri("xsd:integer"), Nil) \cup Cell("n5", One, Nil)
Owl1Graph ==
    {Type(P, "rdf:Property"), Type(P, "owl:TransitiveProperty"), Type(D,
      "owl:FunctionalProperty"), DDecl}
AssertionsGraph ==
    {PDecl, DDecl, T(a, "ex:P", Bl("i")), T(Bl("i"), "ex:D", One), Type(Bl("i"), "ex:A"), T(a,
      "owl:differentFrom", b)}
AnnotationsGraph ==
    {Type(N, "owl:AnnotationProperty"), T(A, "rdfs:label", English), T(N, "rdfs:subPropertyOf",
      Iri("rdfs:label")), T(N, "rdfs:range", A), T(Bl("i"), "ex:N", Bl("j"))}
DeprecatedGraph ==
    {Type(A, "owl:DeprecatedClass"), T(A, "owl:disjointWith", A), T(P,
      "owl:propertyDisjointWith", Q)}
RuleGraph ==
    {Type(Bl("R"), "swrl:Imp"), T(Bl("R"), "swrl:body", Bl("n6")), T(Bl("R"), "swrl:head",
      Bl("n7")), T(Bl("R"), "rdfs:label", Lit("v")), Type(x, "swrl:Variable")} \cup Cell("n6",
      Bl("t3"), Nil) \cup Cell("n7", Bl("t4"), Nil) \cup {Type(Bl("t3"), "swrl:ClassAtom"),
      T(Bl("t3"), "swrl:classPredicate", A), T(Bl("t3"), "swrl:argument1", x), Type(Bl("t4"),
      "swrl:IndividualPropertyAtom"), T(Bl("t4"), "swrl:propertyPredicate", P), T(Bl("t4"),
      "swrl:argument1", x), T(Bl("t4"), "swrl:argument2", Bl("i"))}
BuiltinRuleGraph ==
    {Type(Bl("R2"), "swrl:Imp"), T(Bl("R2"), "swrl:body", Nil), T(Bl("R2"), "swrl:head",
      Bl("n8"))} \cup Cell("n8", Bl("t5"), Nil) \cup {Type(Bl("t5"), "swrl:BuiltinAtom"),
      T(Bl("t5"), "swrl:builtin", Iri("ex:F")), T(Bl("t5"), "swrl:arguments", Bl("n9"))}
      \cup Cell("n9", One, Nil)
UndeclaredGraph ==
    {T(a, "ex:U", b)}
Fragments ==
  {HeaderGraph, NestedHeaderGraph, NamelessVersionGraph, AnnotatedGraph, AnnotatedTwiceGraph,
   NestedGraph, CyclicNestedGraph, MissingMainGraph, UnclaimedGraph, RestrictionGraph,
   CardinalityGraph, UnionGraph, SharedTailGraph, CyclicListGraph, RecursiveGraph,
   ExpressionIndividualGraph, EquivalentsGraph, PropertiesGraph, SameGraph, DataRangeGraph,
   DatatypeGraph, NegativeGraph, NegativeValueGraph, AllDifferentGraph, AllDisjointGraph,
   AllDisjointPropertiesGraph, ChainGraph, KeyGraph, DisjointUnionGraph, CompatibilityGraph,
   InverseGraph, DetachedInverseGraph, DetachedBooleansGraph, DetachedClassesGraph,
   DetachedDataGraph, DetachedRestrictionGraph, DetachedDataListsGraph, Owl1Graph,
   AssertionsGraph, AnnotationsGraph, DeprecatedGraph, RuleGraph, BuiltinRuleGraph,
   UndeclaredGraph}

MCGraphs == {f \cup h : f \in Fragments, h \in Fragments}
MCOptions == {{"swrl", "capture"}, {"partial"}}
\* Every name, label and lexical form, in the byte order of the full IRIs.
MCNameOrder ==
  <<"", "1", "EN", "R", "R2", "b1", "d", "e", "f", "f2", "g", "h", "h2", "h3", "h4", "h5", "h6",
    "h7", "h8", "h9", "ex:A", "ex:B", "ex:C", "ex:D", "ex:DT", "ex:F", "ex:I", "ex:N", "ex:O",
    "ex:P", "ex:Q", "ex:U", "ex:V", "ex:a", "ex:b", "ex:c", "ex:x", "rdf:Property", "rdf:first",
    "rdf:nil", "rdf:rest", "rdf:type", "rdfs:Datatype", "rdfs:comment", "rdfs:domain",
    "rdfs:label", "rdfs:range", "rdfs:subClassOf", "rdfs:subPropertyOf", "xsd:integer",
    "xsd:minInclusive", "xsd:string", "owl:AllDifferent", "owl:AllDisjointClasses",
    "owl:AllDisjointProperties", "owl:Annotation", "owl:AnnotationProperty", "owl:Axiom",
    "owl:Class", "owl:DataRange", "owl:DatatypeProperty", "owl:DeprecatedClass",
    "owl:FunctionalProperty", "owl:NegativePropertyAssertion", "owl:ObjectProperty",
    "owl:Ontology", "owl:Restriction", "owl:Thing", "owl:TransitiveProperty",
    "owl:annotatedProperty", "owl:annotatedSource", "owl:annotatedTarget",
    "owl:assertionProperty", "owl:complementOf", "owl:datatypeComplementOf",
    "owl:differentFrom", "owl:disjointUnionOf", "owl:disjointWith", "owl:distinctMembers",
    "owl:equivalentClass", "owl:equivalentProperty", "owl:hasKey", "owl:imports",
    "owl:intersectionOf", "owl:inverseOf", "owl:maxCardinality", "owl:members",
    "owl:onDatatype", "owl:onProperty", "owl:oneOf", "owl:propertyChainAxiom",
    "owl:propertyDisjointWith", "owl:sameAs", "owl:someValuesFrom", "owl:sourceIndividual",
    "owl:targetIndividual", "owl:targetValue", "owl:unionOf", "owl:versionIRI",
    "owl:withRestrictions", "swrl:BuiltinAtom", "swrl:ClassAtom", "swrl:Imp",
    "swrl:IndividualPropertyAtom", "swrl:Variable", "swrl:argument1", "swrl:argument2",
    "swrl:arguments", "swrl:body", "swrl:builtin", "swrl:classPredicate", "swrl:head",
    "swrl:propertyPredicate", "i", "j", "k", "l1", "l2", "l3", "l4", "l5", "l6", "l7", "l8",
    "l9", "m1", "m2", "m3", "m4", "m5", "m6", "m7", "m8", "m9", "n", "n1", "n2", "n3", "n4",
    "n5", "n6", "n7", "n8", "n9", "o", "p", "q", "r", "r2", "r3", "r4", "s", "t2", "t3", "t4",
    "t5", "u", "v", "v2", "w", "y", "z">>
MCOwlNames ==
  {"owl:AllDifferent", "owl:AllDisjointClasses", "owl:AllDisjointProperties", "owl:Annotation",
   "owl:AnnotationProperty", "owl:Axiom", "owl:Class", "owl:DataRange", "owl:DatatypeProperty",
   "owl:DeprecatedClass", "owl:FunctionalProperty", "owl:NegativePropertyAssertion",
   "owl:ObjectProperty", "owl:Ontology", "owl:Restriction", "owl:Thing",
   "owl:TransitiveProperty", "owl:annotatedProperty", "owl:annotatedSource",
   "owl:annotatedTarget", "owl:assertionProperty", "owl:complementOf",
   "owl:datatypeComplementOf", "owl:differentFrom", "owl:disjointUnionOf", "owl:disjointWith",
   "owl:distinctMembers", "owl:equivalentClass", "owl:equivalentProperty", "owl:hasKey",
   "owl:imports", "owl:intersectionOf", "owl:inverseOf", "owl:maxCardinality", "owl:members",
   "owl:onDatatype", "owl:onProperty", "owl:oneOf", "owl:propertyChainAxiom",
   "owl:propertyDisjointWith", "owl:sameAs", "owl:someValuesFrom", "owl:sourceIndividual",
   "owl:targetIndividual", "owl:targetValue", "owl:unionOf", "owl:versionIRI",
   "owl:withRestrictions"}
=============================================================================
