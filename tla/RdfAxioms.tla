----------------------------- MODULE RdfAxioms ------------------------------
(***************************************************************************)
(* The steps of map_graph (rdfxml.rs) that make one axiom from one triple, *)
(* or from one connected component of triples.                             *)
(*                                                                         *)
(* Beside the fields of RdfStructuralNodes, the mapping state m has header *)
(* (the index of the owl:Ontology triple, 0 for none), ontologyIri,        *)
(* versionIri, imports, ontAnn (the ontology annotations) and components   *)
(* (the anchors of the equivalence axioms, in the order they are pushed).  *)
(***************************************************************************)
EXTENDS RdfStructuralNodes

Unconsumed(m) == DOMAIN m.g \ m.consumed

\* Push an axiom made from triple i, which is thereby used and whose
\* owl:Axiom annotations are claimed.
PushMain(m, i, axiom) ==
  IF Failed(m) THEN m ELSE ClaimIndex(Consume(Push(m, i, axiom), {i}), i)

-----------------------------------------------------------------------------
(* The ontology header.                                                    *)

HeaderIndexes(g) == {i \in DOMAIN g : g[i].p = "rdf:type" /\ g[i].o = Iri("owl:Ontology")}

ReadVersion(m, subject) ==
  LET versions == Edges(m, subject, "owl:versionIRI")
  IN  CASE versions = {} -> m
        [] Cardinality(versions) > 1 -> Fail(m, "CARDINALITY")
        [] ~IsIri(Target(m, versions)) \/ ~IsIri(subject) -> Fail(m, "HEADER")
        [] OTHER -> Consume([m EXCEPT !.versionIri = Target(m, versions)[2]], versions)

ReadImports(m, subject) ==
  LET imports == Edges(m, subject, "owl:imports")
  IN  IF \E i \in imports : ~IsIri(m.g[i].o) THEN Fail(m, "IMPORT")
      ELSE Consume([m EXCEPT !.imports = {m.g[i].o[2] : i \in imports}], imports)

ReadHeader(m) ==
  LET headers == HeaderIndexes(m.g)
      Under(m1, subject) == After(Ret(ReadVersion(m1, subject), None), LAMBDA r : ReadImports(r.m, subject))
      Named(header, subject) ==
        Under(Consume([m EXCEPT !.header = header,
                                !.ontologyIri = IF IsIri(subject) THEN subject[2] ELSE ""], headers), subject)
  IN  CASE headers = {} -> m
        [] Cardinality(headers) > 1 -> Fail(m, "HEADER")
        [] OTHER -> Named(Min(headers), m.g[Min(headers)].s)

\* The OWL 1 double types: the general type beside the specific one.
RedundantBeside ==
  "rdfs:Class" :> {"owl:Ontology", "owl:Class", "rdfs:Datatype", "owl:DataRange", "owl:Restriction"}
  @@ "rdf:Property" :> {"owl:ObjectProperty", "owl:FunctionalProperty",
                        "owl:InverseFunctionalProperty", "owl:SymmetricProperty",
                        "owl:TransitiveProperty", "owl:DatatypeProperty",
                        "owl:AnnotationProperty", "owl:OntologyProperty"}
  @@ "owl:Class" :> {"owl:Restriction"}

ConsumeOwl1RedundantTypes(m) ==
  Consume(m, {i \in DOMAIN m.g : /\ m.g[i].p = "rdf:type" /\ IsIri(m.g[i].o)
                                 /\ m.g[i].o[2] \in DOMAIN RedundantBeside
                                 /\ \E t \in RedundantBeside[m.g[i].o[2]] :
                                       Typed(m, m.g[i].s, t) # {}})

-----------------------------------------------------------------------------
(* Declarations and ontology annotations.                                  *)

HasExplicitDeclaration(m, subject, kind) ==
  \E i \in Edges(m, subject, "rdf:type") :
     /\ IsIri(m.g[i].o) /\ m.g[i].o[2] \in DOMAIN DeclarationKind
     /\ DeclarationKind[m.g[i].o[2]] = kind

\* An OWL 1 characteristic declares its property when nothing else does; the
\* triple stays for the characteristic itself.
MapDeclaration(m, i) ==
  LET t == m.g[i]
      explicit == t.o[2] \in DOMAIN DeclarationKind
      kind == (DeclarationKind @@ InferredKind)[t.o[2]]
  IN  CASE i \in m.consumed \/ t.p # "rdf:type" \/ ~IsIri(t.o) \/ ~IsIri(t.s) -> m
        [] explicit -> PushMain(m, i, <<60, Entity(kind, t.s[2]), AnnotationsFor(m, i)>>)
        [] t.o[2] \in DOMAIN InferredKind ->
             IF HasExplicitDeclaration(m, t.s, kind) THEN m
             ELSE Push(m, i, <<60, Entity(kind, t.s[2]), {}>>)
        [] OTHER -> m

MapDeclarations(m) == ForEach(MapDeclaration, m)

MapOntologyAnnotation(m, i) ==
  IF \/ m.header = 0 \/ i \in m.consumed
     \/ m.g[i].s # m.g[m.header].s \/ ~IsAnnotationProperty(m, m.g[i].p)
  THEN m
  ELSE After(Annotation(m, i), LAMBDA a : Consume([a.m EXCEPT !.ontAnn = @ \cup {a.n}], {i}))

MapOntologyAnnotations(m) == ForEach(MapOntologyAnnotation, m)

-----------------------------------------------------------------------------
(* Axioms whose main triple names a list.                                  *)

MapPropertyChain(m, i) ==
  LET Made(super, chain) ==
        IF Len(chain.n) < 2 THEN Fail(chain.m, "CARDINALITY")
        ELSE PushMain(chain.m, i, <<70, <<11, chain.n>>, super.n, AnnotationsFor(m, i)>>)
  IN  IF i \in m.consumed \/ m.g[i].p # "owl:propertyChainAxiom" THEN m
      ELSE After(DecodeObjectProperty(m, m.g[i].s), LAMBDA super :
             After(DecodeObjectPropertyCollection(super.m, m.g[i].o), LAMBDA chain : Made(super, chain)))

MapHasKey(m, i) ==
  LET Made(class, key, data) ==
        IF key.n = <<>> THEN Fail(key.m, "CARDINALITY")
        ELSE PushMain(key.m, i, <<101, class.n, NodeSet(key.n) \ data, data, AnnotationsFor(m, i)>>)
  IN  IF i \in m.consumed \/ m.g[i].p # "owl:hasKey" THEN m
      ELSE After(DecodeTerm(m, m.g[i].s), LAMBDA class :
             After(DecodeKeyCollection(class.m, m.g[i].o), LAMBDA key :
               Made(class, key, {n \in NodeSet(key.n) : n[1] = 0 /\ n[2] = "data_property"})))

MapDisjointUnion(m, i) ==
  LET Made(members) ==
        IF Cardinality(NodeSet(members.n)) < 2 THEN Fail(members.m, "UNSUPPORTED")
        ELSE PushMain(members.m, i, <<64, Entity("class", m.g[i].s[2]), NodeSet(members.n),
                                      AnnotationsFor(m, i)>>)
  IN  CASE i \in m.consumed \/ m.g[i].p # "owl:disjointUnionOf" -> m
        [] IsBlank(m.g[i].s) -> Fail(m, "TYPE")
        [] OTHER -> After(DecodeClassCollection(m, m.g[i].o), Made)

IsNamedClass(m, term) == IsIri(term) /\ (HasKind(m, term[2], "class") \/ IsBuiltinClass(term[2]))

\* OWL 1 puts a class constructor directly on a named class.
MapCompatibilityClass(m, i) ==
  LET t == m.g[i]
      Made(d, members) ==
        IF Cardinality(members) < 2 THEN Fail(d.m, "UNSUPPORTED")
        ELSE PushMain(d.m, i, <<62, members, AnnotationsFor(m, i)>>)
  IN  IF i \in m.consumed \/ ~IsNamedClass(m, t.s) \/ t.p \notin ClassConstructors THEN m
      ELSE After(IF t.p = "owl:oneOf" THEN DecodeCompatibilityNamedOneOf(m, t.o)
                 ELSE DecodeClassForm(m, t.p, t.o, TRUE),
                 LAMBDA d : Made(d, {Entity("class", t.s[2]), d.n}))

IsDatatypeDefinition(m, i) ==
  /\ m.g[i].p = "owl:equivalentClass"
  /\ IsIri(m.g[i].s) /\ HasKind(m, m.g[i].s[2], "datatype")

MapDatatypeDefinition(m, i) ==
  IF i \in m.consumed \/ ~IsDatatypeDefinition(m, i) THEN m
  ELSE After(DecodeDataRange(m, m.g[i].o), LAMBDA range :
         PushMain(range.m, i, <<100, Entity("datatype", m.g[i].s[2]), range.n, AnnotationsFor(m, i)>>))

\* The five loops, in the order of the code: chains, keys, disjoint unions,
\* OWL 1 class constructors, datatype definitions.
MapCollections(m) ==
  ForEach(MapDatatypeDefinition,
    ForEach(MapCompatibilityClass,
      ForEach(MapDisjointUnion,
        ForEach(MapHasKey,
          ForEach(MapPropertyChain, m)))))

-----------------------------------------------------------------------------
(* Axioms made from a connected component of symmetric edges.              *)

EquivalentClassEdge(m, i) ==
  /\ m.g[i].p = "owl:equivalentClass" /\ ~IsLit(m.g[i].o)
  /\ IsIri(m.g[i].s) => ~HasKind(m, m.g[i].s[2], "datatype")

EquivalentPropertyEdge(m, i) ==
  /\ m.g[i].p = "owl:equivalentProperty" /\ ~IsLit(m.g[i].o)
  /\ \A t \in {m.g[i].s, m.g[i].o} : IsIri(t) => ~HasKind(m, t[2], "annotation_property")

SameIndividualEdge(m, i) == m.g[i].p = "owl:sameAs" /\ ~IsLit(m.g[i].o)

SymmetricEdge(m, i, step) ==
  CASE step = 0 -> EquivalentClassEdge(m, i)
    [] step = 1 -> EquivalentPropertyEdge(m, i)
    [] step = 2 -> SameIndividualEdge(m, i)

\* The edges reachable from the members, through edges not yet consumed.
RECURSIVE ComponentEdges(_, _, _)
ComponentEdges(m, edges, members) ==
  LET incident == {i \in edges : {m.g[i].s, m.g[i].o} \cap members # {}}
      grown == members \cup UNION {{m.g[i].s, m.g[i].o} : i \in incident}
  IN  IF grown = members THEN incident ELSE ComponentEdges(m, edges, grown)

DecodePropertyMember(m, member, data) ==
  IF data THEN Ret(m, Entity("data_property", member[2])) ELSE DecodeObjectProperty(m, member)

\* One component: all its edges are consumed and their annotations united.
\* The members are decoded in an order the result does not depend on.
MapComponent(m, start, step, edges) ==
  LET Made(nodes, component, members, tag) ==
        LET axiom == <<tag, NodeSet(nodes.n), UNION {AnnotationsFor(m, i) : i \in component}>>
            claimed == FoldLeft(ClaimIndex, Push(nodes.m, start, axiom), InOrder(m, component))
        IN  IF Cardinality(NodeSet(nodes.n)) < 2 THEN Fail(nodes.m, "UNSUPPORTED")
            ELSE [claimed EXCEPT !.components = Append(@, [step |-> step, members |-> members])]
      Decoded(component, members, data) ==
        After(DecodeEach(LAMBDA acc, t : CASE step = 0 -> DecodeTerm(acc, t)
                                           [] step = 1 -> DecodePropertyMember(acc, t, data)
                                           [] step = 2 -> DecodeIndividual(acc, t),
                         Consume(m, component), AsSeq(members)), LAMBDA nodes :
          Made(nodes, component, members,
               CASE step = 0 -> 62 [] step = 1 -> (IF data THEN 91 ELSE 71) [] step = 2 -> 110))
      Linked(component, members) ==
        Decoded(component, members, \A t \in members : IsIri(t) /\ HasKind(m, t[2], "data_property"))
      Over(component) == Linked(component, UNION {{m.g[i].s, m.g[i].o} : i \in component})
  IN  Over(ComponentEdges(m, edges, {m.g[start].s, m.g[start].o}))

MapComponents(m, step) ==
  LET Among(edges) == ForEach(LAMBDA acc, i : IF i \in edges \ acc.consumed
                                              THEN MapComponent(acc, i, step, edges \ acc.consumed)
                                              ELSE acc, m)
  IN  Among({i \in Unconsumed(m) : SymmetricEdge(m, i, step)})

MapEquivalences(m) ==
  FoldLeft(LAMBDA acc, step : IF Failed(acc) THEN acc ELSE MapComponents(acc, step), m, <<0, 1, 2>>)

-----------------------------------------------------------------------------
(***************************************************************************)
(* The last loops of map_graph (rdfxml.rs): the axiom each remaining       *)
(* triple makes by itself, and the detached expressions that belong to no  *)
(* axiom but are well formed, so that their triples count as used.         *)
(***************************************************************************)

CONSTANT OwlNames  \* the names in the OWL namespace

\* An inverse axiom orders its two properties; as a set it has no order.
Pair(a, b) == {a, b}

CharacteristicTags ==
  "owl:FunctionalProperty" :> 76 @@ "owl:InverseFunctionalProperty" :> 77
  @@ "owl:ReflexiveProperty" :> 78 @@ "owl:IrreflexiveProperty" :> 79
  @@ "owl:SymmetricProperty" :> 80 @@ "owl:AsymmetricProperty" :> 81
  @@ "owl:TransitiveProperty" :> 82

CharacteristicTag(type, data) ==
  IF data /\ type = "owl:FunctionalProperty" THEN 95 ELSE CharacteristicTags[type]

IsStructuralType(type) ==
  type \in OwlNames \cup {"rdf:List", "rdf:Property", "rdfs:Class", "rdfs:Datatype"}

\* The structural vocabulary can never be asserted as a property, except the
\* annotation properties and owl:top/bottom properties of its namespace.
IsAssertionStructuralPredicate(p) ==
  \/ p \in {"rdf:type", "rdf:first", "rdf:rest", "rdfs:subClassOf", "rdfs:subPropertyOf",
            "rdfs:domain", "rdfs:range"}
  \/ p \in {"owl:imports", "owl:versionIRI", "owl:equivalentClass", "owl:disjointWith",
            "owl:disjointUnionOf", "owl:equivalentProperty", "owl:propertyDisjointWith",
            "owl:inverseOf", "owl:propertyChainAxiom", "owl:hasKey", "owl:sameAs",
            "owl:differentFrom", "owl:members", "owl:distinctMembers", "owl:onProperty",
            "owl:onProperties", "owl:onClass", "owl:onDataRange"}
           \cup ClassConstructors \cup DataConstructors \cup RestrictionOperators
           \cup NegativeMetadata \cup Metadata
  \/ p \in {"swrl:body", "swrl:head"} \cup UNION {AtomEdges[t] : t \in DOMAIN AtomEdges}

-----------------------------------------------------------------------------
(* class_expression_axiom                                                  *)

TwoClassAxiom(m, t, ann) ==
  Then(DecodeEach(DecodeTerm, m, <<t.s, t.o>>), LAMBDA c :
    Ret(c.m, IF t.p = "rdfs:subClassOf" THEN <<61, c.n[1], c.n[2], ann>> ELSE DisjointClasses(c.n, ann)))

\* Only with an inverse on one side: two names are left to NamedAxiom.
TwoPropertyAxiom(m, t, ann) ==
  Then(DecodeEach(DecodeObjectProperty, m, <<t.s, t.o>>), LAMBDA p :
    CASE t.p = "rdfs:subPropertyOf" -> Ret(p.m, <<70, p.n[1], p.n[2], ann>>)
      [] p.n[1] = p.n[2] -> Err(p.m, "UNSUPPORTED")
      [] OTHER -> Ret(p.m, <<72, NodeSet(p.n), ann>>))

InverseAxiom(m, t, ann) ==
  Then(DecodeObjectProperty(m, t.o), LAMBDA second :
    Ret(second.m, <<73, Pair(Entity("object_property", t.s[2]), second.n), ann>>))

DomainRangeAxiom(m, t, ann) ==
  LET data == IsIri(t.s) /\ HasKind(m, t.s[2], "data_property")
      tag == IF data THEN 93 ELSE IF t.p = "rdfs:domain" THEN 74 ELSE 75
  IN  IF data /\ t.p = "rdfs:range"
      THEN Then(DecodeDataRange(m, t.o), LAMBDA range :
             Ret(range.m, <<94, Entity("data_property", t.s[2]), range.n, ann>>))
      ELSE Then(IF data THEN Ret(m, Entity("data_property", t.s[2])) ELSE DecodeObjectProperty(m, t.s), LAMBDA p :
             Then(DecodeTerm(p.m, t.o), LAMBDA class : Ret(class.m, <<tag, p.n, class.n, ann>>)))

TypeAxiom(m, t, ann) ==
  LET characteristic == IsIri(t.o) /\ t.o[2] \in DOMAIN CharacteristicTags
  IN  CASE characteristic /\ IsIri(t.s) -> Ret(m, None)
        [] characteristic /\ ~IsIri(t.s) ->
             Then(DecodeObjectProperty(m, t.s), LAMBDA p :
               Ret(p.m, <<CharacteristicTag(t.o[2], FALSE), p.n, ann>>))
        [] ~characteristic /\ IsIri(t.o) /\ IsStructuralType(t.o[2]) -> Ret(m, None)
        [] OTHER ->
             Then(DecodeTerm(m, t.o), LAMBDA class :
               Then(DecodeIndividual(class.m, t.s), LAMBDA individual :
                 Ret(individual.m, <<112, class.n, individual.n, ann>>)))

\* None when the triple is no class-level axiom.
ClassExpressionAxiom(m, t, ann) ==
  LET named == IsIri(t.s) /\ IsIri(t.o)
  IN  CASE IsLit(t.o) -> Ret(m, None)
        [] t.p \in {"rdfs:subClassOf", "owl:disjointWith"} -> TwoClassAxiom(m, t, ann)
        [] t.p \in {"rdfs:subPropertyOf", "owl:propertyDisjointWith"} /\ ~named -> TwoPropertyAxiom(m, t, ann)
        [] t.p = "owl:inverseOf" /\ IsIri(t.s) -> InverseAxiom(m, t, ann)
        [] /\ t.p \in {"rdfs:domain", "rdfs:range"}
           /\ ~(IsIri(t.s) /\ IsAnnotationProperty(m, t.s[2])) -> DomainRangeAxiom(m, t, ann)
        [] t.p = "rdf:type" -> TypeAxiom(m, t, ann)
        [] OTHER -> Ret(m, None)

-----------------------------------------------------------------------------
(* annotation_axiom, assertion_axiom and named_axiom                       *)

AnnotationSubject(m, term) == IF IsIri(term) THEN Ret(m, <<1, term[2]>>) ELSE DecodeIndividual(m, term)

AnnotationAssertion(m, i, ann) ==
  Then(AnnotationSubject(m, m.g[i].s), LAMBDA subject :
    Then(AnnotationValue(subject.m, i), LAMBDA value :
      Ret(value.m, <<120, Entity("annotation_property", m.g[i].p), subject.n, value.n, ann>>)))

AnnotationAxiom(m, i, ann) ==
  LET t == m.g[i]
      Property(v) == Entity("annotation_property", v)
  IN  CASE t.p = "rdfs:subPropertyOf" ->
             IF /\ IsIri(t.s) /\ IsIri(t.o)
                /\ IsAnnotationProperty(m, t.s[2]) \/ IsAnnotationProperty(m, t.o[2])
             THEN Ret(m, <<121, Property(t.s[2]), Property(t.o[2]), ann>>) ELSE Ret(m, None)
        [] t.p \in {"rdfs:domain", "rdfs:range"} ->
             CASE ~IsIri(t.s) \/ IsLit(t.o) -> Ret(m, None)
               [] ~IsAnnotationProperty(m, t.s[2]) -> Ret(m, None)
               [] IsBlank(t.o) -> Err(m, "TYPE")
               [] OTHER -> Ret(m, <<IF t.p = "rdfs:domain" THEN 122 ELSE 123, Property(t.s[2]),
                                    <<1, t.o[2]>>, ann>>)
        [] t.p = "rdf:type" /\ ~IsLit(t.o) -> Ret(m, None)
        [] OTHER -> IF IsAnnotationProperty(m, t.p) THEN AnnotationAssertion(m, i, ann)
                    ELSE Ret(m, None)

DifferentFromAxiom(m, t, ann) ==
  Then(DecodeEach(DecodeIndividual, m, <<t.s, t.o>>), LAMBDA pair :
    IF pair.n[1] = pair.n[2] THEN Err(pair.m, "UNSUPPORTED")
    ELSE Ret(pair.m, <<111, NodeSet(pair.n), ann>>))

AssertionAxiom(m, i, ann) ==
  LET t == m.g[i]
      Asserted(tag, kind, Value(_)) ==
        Then(DecodeIndividual(m, t.s), LAMBDA subject :
          Then(Value(subject.m), LAMBDA v : Ret(v.m, <<tag, Entity(kind, t.p), subject.n, v.n, ann>>)))
  IN  CASE t.p = "owl:differentFrom" ->
             IF IsLit(t.o) THEN Ret(m, None) ELSE DifferentFromAxiom(m, t, ann)
        [] IsAnnotationProperty(m, t.p) \/ IsAssertionStructuralPredicate(t.p) -> Ret(m, None)
        [] IsLit(t.o) /\ HasKind(m, t.p, "data_property") ->
             Asserted(115, "data_property", LAMBDA m1 : DecodeLiteral(m1, i))
        [] ~IsLit(t.o) /\ HasKind(m, t.p, "object_property") ->
             Asserted(113, "object_property", LAMBDA m1 : DecodeIndividual(m1, t.o))
        [] OTHER -> Ret(m, None)

DeprecatedAxiom(subject, ann) ==
  <<120, Entity("annotation_property", "owl:deprecated"), <<1, subject>>,
    <<3, "true", "xsd:boolean", "">>, ann>>

NamedProperties(m, t, ann) ==
  LET Is(v, kind) == HasKind(m, v, kind)
      s == t.s[2]
      o == t.o[2]
  IN  CASE t.p = "rdfs:subPropertyOf" ->
             CASE Is(s, "annotation_property") \/ Is(o, "annotation_property") -> Ret(m, None)
               [] Is(s, "data_property") \/ Is(o, "data_property") ->
                    Ret(m, <<90, Entity("data_property", s), Entity("data_property", o), ann>>)
               [] OTHER -> Ret(m, <<70, Entity("object_property", s), Entity("object_property", o), ann>>)
        [] t.p = "owl:propertyDisjointWith" ->
             CASE s = o -> Err(m, "UNSUPPORTED")
               [] Is(s, "data_property") ->
                    Ret(m, <<92, {Entity("data_property", s), Entity("data_property", o)}, ann>>)
               [] OTHER -> Ret(m, <<72, {Entity("object_property", s), Entity("object_property", o)}, ann>>)
        [] OTHER -> Ret(m, None)

NamedType(m, t, ann) ==
  LET s == t.s[2]
      data == HasKind(m, s, "data_property")
      kind == IF data /\ t.o[2] = "owl:FunctionalProperty" THEN "data_property" ELSE "object_property"
  IN  CASE t.o[2] \in {"owl:DeprecatedClass", "owl:DeprecatedProperty"} ->
             Ret(m, DeprecatedAxiom(s, ann))
        [] HasKind(m, s, "annotation_property") -> Ret(m, None)
        [] t.o[2] \in DOMAIN CharacteristicTags ->
             Ret(m, <<CharacteristicTag(t.o[2], data), Entity(kind, s), ann>>)
        [] OTHER -> Ret(m, None)  \* a class assertion is made before, by TypeAxiom

NamedAxiom(m, t, ann) ==
  CASE ~IsIri(t.s) \/ ~IsIri(t.o) -> Ret(m, None)
    [] t.p = "rdf:type" -> NamedType(m, t, ann)
    [] OTHER -> NamedProperties(m, t, ann)

\* The four makers, in order; the first that makes an axiom uses the triple.
TripleAxiom(m, i, ann) ==
  LET Else(r, other) == IF Failed(r.m) \/ r.n # None THEN r ELSE other
  IN  Else(Else(Else(ClassExpressionAxiom(m, m.g[i], ann), AnnotationAxiom(m, i, ann)),
                AssertionAxiom(m, i, ann)),
           NamedAxiom(m, m.g[i], ann))

MapTriple(m, i) ==
  IF i \in m.consumed THEN m
  ELSE After(TripleAxiom(m, i, AnnotationsFor(m, i)),
             LAMBDA r : IF r.n = None THEN m ELSE PushMain(r.m, i, r.n))

MapTriples(m) == ForEach(MapTriple, m)
=============================================================================
