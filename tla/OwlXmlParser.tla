----------------------------- MODULE OwlXmlParser -----------------------------
(***************************************************************************)
(* The native OWL/XML parser (ingestion/owlxml.rs): a stack of open        *)
(* elements, each reduced to a canonical node when it ends.  The document  *)
(* is the stream of XML events.  Text and attribute values are sequences   *)
(* of numbers, 0 a space and Colon the colon of an abbreviated IRI.        *)
(***************************************************************************)
EXTENDS ParserJob

Colon == 8
XmlWhole(text) == {i \in DOMAIN text : text[i] # 0}
Trim(text) == IF XmlWhole(text) = {} THEN <<>> ELSE SubSeq(text, Min(XmlWhole(text)), Max(XmlWhole(text)))

NewOwlXmlParser ==
  [err |-> None, cursor |-> 1, out |-> None, frames |-> <<>>, namespaces |-> <<>>, sourcePrefixes |-> <<>>,
   prefixes |-> (<<1, Colon>> :> <<1>>) @@ (<<2, Colon>> :> <<2>>) @@ (<<3, Colon>> :> <<3>>) @@ (<<4, Colon>> :> <<4>>),
   ontology |-> <<>>, version |-> <<>>, imports |-> <<>>, annotations |-> <<>>, axioms |-> <<>>, occurrences |-> <<>>,
   spellings |-> <<>>, rootSeen |-> FALSE, rootClosed |-> FALSE, elements |-> 0, members |-> 0]

Within(p, limit, observed) == FailIf(p, observed > job.limits[limit], "limit")
Give(p, value) == IF Failed(p) THEN p ELSE [p EXCEPT !.out = value]

CheckedIri(p, value) == FailIf(Within(p, "iri", Len(value)), ~ ValidIri(value), "syntax")

-----------------------------------------------------------------------------
(* Elements and their attributes                                            *)

BindNamespace(p, prefix, value) ==
  LET bad == \/ prefix = "xmlns" \/ value = "xmlns"
             \/ (prefix = "xml") # (value = "xml")
             \/ prefix # "" /\ value = ""
      bound == [p EXCEPT !.namespaces = Append(@, <<prefix, value>>),
                         !.sourcePrefixes = IF job.sourceMap THEN (prefix :> value) @@ @ ELSE @]
  IN  IF Failed(p) \/ bad THEN Fail(p, "syntax")
      ELSE Within(bound, "prefixes", Cardinality(DOMAIN bound.sourcePrefixes))

ResolveNamespace(p, prefix) ==
  LET bindings == {i \in DOMAIN p.namespaces : p.namespaces[i][1] = prefix}
  IN  IF prefix = "xml" THEN "xml" ELSE IF bindings = {} THEN None ELSE p.namespaces[Max(bindings)][2]

IsBinding(a) == a.name[1] = "xmlns"
Bound(p, attrs) ==
  FoldLeft(LAMBDA q, a : IF IsBinding(a) THEN BindNamespace(q, a.name[2], a.val) ELSE q, p, attrs)

\* Attributes by namespace, None for those without a prefix.
Expanded(p, attrs) ==
  LET plain == SelectSeq(attrs, LAMBDA a : ~ IsBinding(a))
  IN  [i \in DOMAIN plain |->
         [space |-> IF plain[i].name[1] = "" THEN None ELSE ResolveNamespace(p, plain[i].name[1]),
          local |-> plain[i].name[2], val |-> plain[i].val]]
BadAttributes(p, attrs) ==
  LET plain == SelectSeq(attrs, LAMBDA a : ~ IsBinding(a))
      all == Expanded(p, attrs)
  IN  \/ \E i \in DOMAIN plain : plain[i].name[1] # "" /\ all[i].space = None
      \/ \E i, j \in DOMAIN all : i # j /\ all[i].space = all[j].space /\ all[i].local = all[j].local

AttributeOf(frame, space, local) ==
  LET found == {i \in DOMAIN frame.attrs : frame.attrs[i].space = space /\ frame.attrs[i].local = local}
  IN  IF found = {} THEN None ELSE frame.attrs[Min(found)].val
OptionalAttribute(frame, local) == AttributeOf(frame, None, local)

\* The first start tag is the ontology's; every element is of OWL.
RootChecks(p, event, root) ==
  LET namespace == ResolveNamespace(p, event.name[1])
  IN  IF root THEN FailIf(p, p.rootSeen \/ namespace # "owl" \/ event.name[2] # "Ontology", "root")
      ELSE FailIf(p, namespace # "owl", "syntax")

RootIris(p, frame) ==
  LET iri == OptionalAttribute(frame, "ontologyIRI")
      version == OptionalAttribute(frame, "versionIRI")
      q == IF iri = None THEN p ELSE CheckedIri([p EXCEPT !.ontology = <<iri>>], iri)
  IN  IF version = None THEN q ELSE CheckedIri([q EXCEPT !.version = <<version>>], version)

StartElement(p, event) ==
  LET root == p.frames = <<>>
      duplicate == \E i, j \in DOMAIN event.attrs : i # j /\ event.attrs[i].name = event.attrs[j].name
      read == FailIf(p, duplicate, "syntax")
      counted == Within([read EXCEPT !.elements = @ + 1], "terms", p.elements + 1)
      bound == Bound(FailIf(counted, p.rootClosed, "syntax"), event.attrs)
      allowed == FailIf(bound, event.name[1] \in {"", "xi"} /\ event.name[2] = "include", "forbidden")
      Described(q) == Within(FailIf(q, BadAttributes(q, event.attrs), "syntax"), "depth", Len(p.frames) + 1)
      Frame(q) == [name |-> event.name, attrs |-> Expanded(q, event.attrs), text |-> <<>>, children |-> <<>>,
                   mark |-> Len(p.namespaces), root |-> root]
      Entered(q) == IF root THEN RootIris(q, Last(q.frames)) ELSE q
      Pushed(q) == Entered([q EXCEPT !.frames = Append(@, Frame(q)), !.rootSeen = TRUE])
  IN  Then(Described(RootChecks(allowed, event, root)), Pushed)

CharacterData(p, value) ==
  LET top == Len(p.frames)
      following == p.frames[top].text \o value
  IN  IF p.frames = <<>> THEN FailIf(p, Trim(value) # <<>>, "syntax")
      ELSE Within([p EXCEPT !.frames[top].text = following], "literal",
                  IF p.frames[top].name[2] = "Literal" THEN Len(following) ELSE 0)

-----------------------------------------------------------------------------
(* Reducing an element.  A shape gives the kinds of the leading children,   *)
(* and for a set the kinds, the least number written and the least number   *)
(* that are distinct.                                                       *)

ClassKinds == {"Class", "ClassExpression"}
RangeKinds == {"Datatype", "DataRange"}
PropertyKinds == {"ObjectProperty", "ObjectInverseOf"}
IndividualKinds == {"NamedIndividual", "AnonymousIndividual"}
SubjectKinds == {"IRI", "AnonymousIndividual"}
ValueKinds == {"IRI", "AnonymousIndividual", "Literal"}

Exactly(kinds) == [first |-> kinds, rest |-> {}, minimum |-> Len(kinds), distinct |-> 0]
Gathers(kinds, rest, minimum, distinct) == [first |-> kinds, rest |-> rest, minimum |-> minimum, distinct |-> distinct]

\* Nodes of the children as fields; None when they do not fit the shape.
Shaped(children, shape) ==
  LET n == Len(shape.first)
      tail == SubSeq(children, n + 1, Len(children))
      members == CanonicalSet([i \in DOMAIN tail |-> tail[i].node], shape.distinct, None)
      first == [i \in 1..n |-> children[i].node]
  IN  IF \/ Len(children) < shape.minimum
         \/ shape.rest = {} /\ tail # <<>>
         \/ \E i \in 1..n : children[i].kind \notin shape.first[i]
         \/ \E i \in DOMAIN tail : tail[i].kind \notin shape.rest
      THEN None
      ELSE IF shape.rest = {} THEN first
      ELSE IF members = None THEN None ELSE Append(first, members)

ClassShapes ==
  [ObjectComplementOf |-> Exactly(<<ClassKinds>>),
   ObjectOneOf |-> Gathers(<<>>, IndividualKinds, 1, 1),
   ObjectSomeValuesFrom |-> Exactly(<<PropertyKinds, ClassKinds>>),
   ObjectAllValuesFrom |-> Exactly(<<PropertyKinds, ClassKinds>>),
   ObjectHasValue |-> Exactly(<<PropertyKinds, IndividualKinds>>),
   ObjectHasSelf |-> Exactly(<<PropertyKinds>>),
   DataHasValue |-> Exactly(<<{"DataProperty"}, {"Literal"}>>)]
RangeShapes ==
  [DataComplementOf |-> Exactly(<<RangeKinds>>),
   DataOneOf |-> Gathers(<<>>, {"Literal"}, 1, 1),
   DatatypeRestriction |-> Gathers(<<{"Datatype"}>>, {"FacetRestriction"}, 2, 1)]
ObjectCardinalities == {"ObjectMinCardinality", "ObjectMaxCardinality", "ObjectExactCardinality"}
DataCardinalities == {"DataMinCardinality", "DataMaxCardinality", "DataExactCardinality"}

TypedNode(kind, node) == [t |-> "node", kind |-> kind, node |-> node]
GiveBuilt(p, kind, constructor, fields) ==
  IF fields = None THEN Fail(p, "syntax") ELSE Give(p, TypedNode(kind, NodeBuild(constructor, fields)))
NodesOf(children) == [i \in DOMAIN children |-> children[i].node]
KindsOf(children) == {children[i].kind : i \in DOMAIN children}

ExpandIri(p, value) ==
  LET colons == {i \in DOMAIN value : value[i] = Colon}
      key == SubSeq(value, 1, Min(colons))
      iri == p.prefixes[key] \o SubSeq(value, Min(colons) + 1, Len(value))
  IN  IF colons = {} \/ key \notin DOMAIN p.prefixes THEN Fail(p, "syntax") ELSE Give(CheckedIri(p, iri), iri)
DirectIri(p, value) == Give(CheckedIri(p, value), value)

ReduceEntity(p, frame) ==
  LET direct == OptionalAttribute(frame, "IRI")
      abbreviated == OptionalAttribute(frame, "abbreviatedIRI")
      q == IF direct # None THEN DirectIri(p, direct) ELSE ExpandIri(p, abbreviated)
  IN  IF frame.children # <<>> \/ (direct = None) = (abbreviated = None) THEN Fail(p, "syntax")
      ELSE Give(q, TypedNode(frame.name[2], Entity(frame.name[2], IriNode(q.out))))

ReduceIri(p, frame) ==
  LET text == Trim(frame.text)
      q == IF frame.name[2] = "AbbreviatedIRI" THEN ExpandIri(p, text) ELSE DirectIri(p, text)
  IN  IF frame.children # <<>> THEN Fail(p, "syntax")
      ELSE Give(q, IF frame.name[2] = "Import" THEN [t |-> "import", iri |-> q.out]
                   ELSE TypedNode("IRI", IriNode(q.out)))

\* Without its own lang attribute a literal has that of XML; with either the
\* datatype is not looked at.
ReduceLiteral(p, frame) ==
  LET own == OptionalAttribute(frame, "lang")
      language == IF own = None THEN AttributeOf(frame, "xml", "lang") ELSE own
      datatype == OptionalAttribute(frame, "datatypeIRI")
      q == Within(FailIf(p, frame.children # <<>>, "syntax"), "literal", Len(frame.text))
      tagged == [FailIf(q, language = "bad", "syntax")
                   EXCEPT !.spellings = IF job.sourceMap THEN Append(@, language) ELSE @]
      Lexical(type, tag) == TypedNode("Literal", LiteralNode(frame.text, type, tag))
  IN  IF Failed(q) THEN q
      ELSE IF language # None THEN
        Give(tagged, Lexical(RdfPlainLiteral, IF language = "EN" THEN "en" ELSE language))
      ELSE IF datatype = None THEN Give(q, Lexical(RdfPlainLiteral, None))
      ELSE Give(CheckedIri(q, datatype), Lexical(Entity("Datatype", IriNode(datatype)), None))

\* A property, then the filler or nothing.
ReduceCardinality(p, frame, property, filler, default, kind) ==
  LET n == OptionalAttribute(frame, "cardinality")
      children == frame.children
      fields == <<n, children[1].node, IF Len(children) = 2 THEN children[2].node ELSE default>>
      bad == \/ Len(children) \notin {1, 2} \/ n = None
             \/ children[1].kind \notin property \/ (Len(children) = 2 /\ children[2].kind \notin filler)
  IN  IF bad THEN Fail(p, "syntax") ELSE GiveBuilt(p, kind, frame.name[2], fields)

ReduceQuantified(p, frame) ==
  LET children == frame.children
  IN  IF Len(children) < 2 \/ Last(children).kind \notin RangeKinds \/ KindsOf(Front(children)) # {"DataProperty"}
      THEN Fail(p, "syntax")
      ELSE GiveBuilt(p, "ClassExpression", frame.name[2], <<NodesOf(Front(children)), Last(children).node>>)

ReduceIdempotent(p, frame, kinds, kind) ==
  IF Len(frame.children) < 2 \/ ~ (KindsOf(frame.children) \subseteq kinds) THEN Fail(p, "syntax")
  ELSE Give(p, TypedNode(kind, IdempotentNode(frame.name[2], NodesOf(frame.children))))

\* The annotations that come first, as a set, and the children after them.
AnnotationCount(children) ==
  Max({n \in 0..Len(children) : \A i \in 1..n : children[i].kind = "Annotation"})
LeadingAnnotations(children) == Range(NodesOf(SubSeq(children, 1, AnnotationCount(children))))
AfterAnnotations(children) == SubSeq(children, AnnotationCount(children) + 1, Len(children))

ReduceAnnotation(p, frame) ==
  LET fields == Shaped(AfterAnnotations(frame.children), Exactly(<<{"AnnotationProperty"}, ValueKinds>>))
      q == Within(p, "annotations", AnnotationCount(frame.children))
  IN  IF fields = None THEN Fail(q, "syntax")
      ELSE GiveBuilt(q, "Annotation", "Annotation", Append(fields, LeadingAnnotations(frame.children)))

ClassesShape == Gathers(<<>>, ClassKinds, 2, 2)
PropertiesShape == Gathers(<<>>, PropertyKinds, 2, 2)
DataPropertiesShape == Gathers(<<>>, {"DataProperty"}, 2, 2)
IndividualsShape == Gathers(<<>>, IndividualKinds, 2, 2)
CharacteristicShape == Exactly(<<PropertyKinds>>)
PropertyClassShape == Exactly(<<PropertyKinds, ClassKinds>>)
ObjectAssertionShape == Exactly(<<PropertyKinds, IndividualKinds, IndividualKinds>>)
DataAssertionShape == Exactly(<<{"DataProperty"}, IndividualKinds, {"Literal"}>>)
PropertyIriShape == Exactly(<<{"AnnotationProperty"}, {"IRI"}>>)
AxiomShapes ==
  [Declaration |-> Exactly(<<EntityKinds>>),
   SubClassOf |-> Exactly(<<ClassKinds, ClassKinds>>),
   EquivalentClasses |-> ClassesShape,
   DisjointUnion |-> Gathers(<<{"Class"}>>, ClassKinds, 3, 2),
   SubObjectPropertyOf |-> Exactly(<<PropertyKinds \cup {"ObjectPropertyChain"}, PropertyKinds>>),
   EquivalentObjectProperties |-> PropertiesShape,
   DisjointObjectProperties |-> PropertiesShape,
   InverseObjectProperties |-> Exactly(<<PropertyKinds, PropertyKinds>>),
   ObjectPropertyDomain |-> PropertyClassShape,
   ObjectPropertyRange |-> PropertyClassShape,
   FunctionalObjectProperty |-> CharacteristicShape,
   InverseFunctionalObjectProperty |-> CharacteristicShape,
   ReflexiveObjectProperty |-> CharacteristicShape,
   IrreflexiveObjectProperty |-> CharacteristicShape,
   SymmetricObjectProperty |-> CharacteristicShape,
   AsymmetricObjectProperty |-> CharacteristicShape,
   TransitiveObjectProperty |-> CharacteristicShape,
   SubDataPropertyOf |-> Exactly(<<{"DataProperty"}, {"DataProperty"}>>),
   EquivalentDataProperties |-> DataPropertiesShape,
   DisjointDataProperties |-> DataPropertiesShape,
   DataPropertyDomain |-> Exactly(<<{"DataProperty"}, ClassKinds>>),
   DataPropertyRange |-> Exactly(<<{"DataProperty"}, RangeKinds>>),
   FunctionalDataProperty |-> Exactly(<<{"DataProperty"}>>),
   DatatypeDefinition |-> Exactly(<<{"Datatype"}, RangeKinds>>),
   SameIndividual |-> IndividualsShape,
   DifferentIndividuals |-> IndividualsShape,
   ClassAssertion |-> Exactly(<<ClassKinds, IndividualKinds>>),
   ObjectPropertyAssertion |-> ObjectAssertionShape,
   NegativeObjectPropertyAssertion |-> ObjectAssertionShape,
   DataPropertyAssertion |-> DataAssertionShape,
   NegativeDataPropertyAssertion |-> DataAssertionShape,
   AnnotationAssertion |-> Exactly(<<{"AnnotationProperty"}, SubjectKinds, ValueKinds>>),
   SubAnnotationPropertyOf |-> Exactly(<<{"AnnotationProperty"}, {"AnnotationProperty"}>>),
   AnnotationPropertyDomain |-> PropertyIriShape,
   AnnotationPropertyRange |-> PropertyIriShape]

\* A class, then object and data properties in any order.
KeyFields(children) ==
  LET keys == Tail(children)
      Keys(kinds) == {keys[i].node : i \in {j \in DOMAIN keys : keys[j].kind \in kinds}}
  IN  IF Len(children) < 2 \/ children[1].kind \notin ClassKinds
         \/ ~ (KindsOf(keys) \subseteq PropertyKinds \cup {"DataProperty"})
      THEN None
      ELSE <<children[1].node, Keys(PropertyKinds), Keys({"DataProperty"})>>

InOrder(fields) == IF PropertyBefore(fields[2], fields[1]) THEN <<fields[2], fields[1]>> ELSE fields

ReduceAxiom(p, frame) ==
  LET name == frame.name[2]
      children == AfterAnnotations(frame.children)
      annotations == LeadingAnnotations(frame.children)
      q == Within(p, "annotations", AnnotationCount(frame.children))
      fields == IF name = "HasKey" THEN KeyFields(children) ELSE Shaped(children, AxiomShapes[name])
      node == NodeBuild(name, Append(IF name = "InverseObjectProperties" THEN InOrder(fields) ELSE fields, annotations))
      Axioms(nodes) == Give(q, [t |-> "axioms", nodes |-> nodes])
  IN  IF name = "DisjointClasses" THEN
        IF Len(children) < 2 \/ ~ (KindsOf(children) \subseteq ClassKinds) THEN Fail(q, "syntax")
        ELSE Axioms(DisjointClassAxioms(NodesOf(children), annotations))
      ELSE IF fields = None THEN Fail(q, "syntax") ELSE Axioms(<<node>>)

ReducePrefix(p, frame) ==
  LET name == OptionalAttribute(frame, "name")
      iri == OptionalAttribute(frame, "IRI")
  IN  IF frame.children # <<>> \/ name = None \/ iri = None THEN Fail(p, "syntax")
      ELSE Give(CheckedIri(p, iri), [t |-> "prefix", name |-> name, iri |-> iri])

ReduceAnonymous(p, frame) ==
  LET label == OptionalAttribute(frame, "nodeID")
  IN  IF frame.children # <<>> \/ label \in {None, ""} THEN Fail(p, "syntax")
      ELSE Give(p, TypedNode("AnonymousIndividual", AnonymousNode(label)))

ReduceFacet(p, frame) ==
  LET facet == OptionalAttribute(frame, "facet")
      value == Shaped(frame.children, Exactly(<<{"Literal"}>>))
  IN  IF value = None \/ facet = None THEN Fail(p, "syntax")
      ELSE GiveBuilt(CheckedIri(p, facet), "FacetRestriction", "FacetRestriction", <<IriNode(facet)>> \o value)

ReduceChain(p, frame) ==
  IF Len(frame.children) < 2 \/ ~ (KindsOf(frame.children) \subseteq PropertyKinds) THEN Fail(p, "syntax")
  ELSE GiveBuilt(p, "ObjectPropertyChain", "ObjectPropertyChain", <<NodesOf(frame.children)>>)

TextElements == {"Literal", "IRI", "AbbreviatedIRI", "Import"}
Reduce(p, frame) ==
  LET name == frame.name[2]
  IN  CASE name \notin TextElements /\ Trim(frame.text) # <<>> -> Fail(p, "syntax")
        [] name = "Prefix" -> ReducePrefix(p, frame)
        [] name \in {"Import", "IRI", "AbbreviatedIRI"} -> ReduceIri(p, frame)
        [] name \in EntityKinds -> ReduceEntity(p, frame)
        [] name = "AnonymousIndividual" -> ReduceAnonymous(p, frame)
        [] name = "Literal" -> ReduceLiteral(p, frame)
        [] name = "Annotation" -> ReduceAnnotation(p, frame)
        [] name = "ObjectInverseOf" ->
             GiveBuilt(p, "ObjectInverseOf", name, Shaped(frame.children, Exactly(<<{"ObjectProperty"}>>)))
        [] name = "ObjectPropertyChain" -> ReduceChain(p, frame)
        [] name = "FacetRestriction" -> ReduceFacet(p, frame)
        [] name \in {"ObjectIntersectionOf", "ObjectUnionOf"} -> ReduceIdempotent(p, frame, ClassKinds, "ClassExpression")
        [] name \in {"DataIntersectionOf", "DataUnionOf"} -> ReduceIdempotent(p, frame, RangeKinds, "DataRange")
        [] name \in ObjectCardinalities ->
             ReduceCardinality(p, frame, PropertyKinds, ClassKinds, OwlThing, "ClassExpression")
        [] name \in DataCardinalities ->
             ReduceCardinality(p, frame, {"DataProperty"}, RangeKinds, RdfsLiteral, "ClassExpression")
        [] name \in {"DataSomeValuesFrom", "DataAllValuesFrom"} -> ReduceQuantified(p, frame)
        [] name \in DOMAIN ClassShapes ->
             GiveBuilt(p, "ClassExpression", name, Shaped(frame.children, ClassShapes[name]))
        [] name \in DOMAIN RangeShapes ->
             GiveBuilt(p, "DataRange", name, Shaped(frame.children, RangeShapes[name]))
        [] name \in DOMAIN AxiomShapes \cup {"DisjointClasses", "HasKey"} -> ReduceAxiom(p, frame)
        [] OTHER -> Fail(p, "syntax")

-----------------------------------------------------------------------------
(* The end of an element                                                    *)

PushRoot(p, node, collection) ==
  [p EXCEPT ![collection] = Append(@, node),
            !.occurrences = IF job.sourceMap THEN Append(@, <<collection, node>>) ELSE @]

RECURSIVE PushRootAxioms(_, _)
PushRootAxioms(p, nodes) ==
  IF Failed(p) \/ nodes = <<>> THEN p
  ELSE LET q == PushRoot(p, Head(nodes), "axioms")
       IN  PushRootAxioms(Within(q, "axioms", Len(q.axioms)), Tail(nodes))

AcceptRootChild(p, reduced) ==
  LET q == Within([p EXCEPT !.members = @ + 1], "terms", p.members + 1)
      prefixed == [q EXCEPT !.prefixes = (reduced.name :> reduced.iri) @@ q.prefixes]
  IN  IF Failed(q) THEN q
      ELSE CASE reduced.t = "prefix" -> Within(prefixed, "prefixes", Cardinality(DOMAIN prefixed.prefixes))
             [] reduced.t = "import" -> [q EXCEPT !.imports = Append(@, reduced.iri)]
             [] reduced.t = "axioms" -> PushRootAxioms(q, reduced.nodes)
             [] OTHER -> IF reduced.kind = "Annotation" THEN PushRoot(q, reduced.node, "annotations")
                         ELSE Fail(q, "syntax")

AddChild(p, reduced) ==
  LET top == Len(p.frames)
      child == [kind |-> reduced.kind, node |-> reduced.node]
  IN  IF reduced.t # "node" THEN Fail(p, "syntax")
      ELSE Within([p EXCEPT !.frames[top].children = Append(@, child)], "arity", Len(p.frames[top].children) + 1)

Popped(p, frame) ==
  LET Place(q) == IF Last(p.frames).root THEN AcceptRootChild(q, q.out) ELSE AddChild(q, q.out)
  IN  IF frame.root THEN FailIf([p EXCEPT !.rootClosed = TRUE], Trim(frame.text) # <<>>, "syntax")
      ELSE Then(Reduce(p, frame), Place)

\* Bindings end with their element.
LeaveScope(p, frame) == [p EXCEPT !.frames = Front(@)]
CloseScope(p, frame) == [p EXCEPT !.frames = Front(@), !.namespaces = SubSeq(@, 1, frame.mark)]

EndElement(p, name) ==
  Then(FailIf(p, p.frames = <<>> \/ Last(p.frames).name # name, "syntax"),
       LAMBDA q : Popped(CloseScope(q, Last(q.frames)), Last(q.frames)))

OwlXmlRunning(kinds) ==
  job.format = "owlxml" /\ outcome = "running" /\ parser.cursor <= Len(job.items) /\ job.items[parser.cursor].k \in kinds
ReadEvent(p) == Continue(IF Failed(p) THEN p ELSE [p EXCEPT !.out = None, !.cursor = @ + 1])

OwlXmlStart ==
  /\ OwlXmlRunning({"start"})
  /\ LET event == job.items[parser.cursor]
         Opened(p) == IF event.empty THEN EndElement(p, event.name) ELSE p
     IN  ReadEvent(Opened(StartElement(parser, event)))

OwlXmlEnd == OwlXmlRunning({"end"}) /\ ReadEvent(EndElement(parser, job.items[parser.cursor].name))

OwlXmlText == OwlXmlRunning({"text"}) /\ ReadEvent(CharacterData(parser, job.items[parser.cursor].value))

FinishOwlXml ==
  /\ job.format = "owlxml" /\ outcome = "running" /\ parser.cursor > Len(job.items)
  /\ Complete(FailIf(parser, ~ parser.rootSeen \/ ~ parser.rootClosed \/ parser.frames # <<>>, "root"))

OwlXmlNext == OwlXmlStart \/ OwlXmlEnd \/ OwlXmlText \/ FinishOwlXml
=============================================================================
