----------------------------- MODULE RdfMapping -----------------------------
(***************************************************************************)
(* map_graph of the native RDF mapper (rdfxml.rs), shared by RDF/XML and   *)
(* Turtle: one action per phase, from a sorted graph to the canonical      *)
(* document or an error.                                                   *)
(*                                                                         *)
(* The graph is one of Graphs; the syntax decides the order in which the   *)
(* mapper sees its triples.  With capture on, the mapper also records its  *)
(* roots as occurrences, in the order of the Python implementation: it     *)
(* keeps no link from a root to the triple it came from, but recomputes    *)
(* the list of those triples, the anchors, and zips the two.               *)
(***************************************************************************)
EXTENDS RdfAxioms

CONSTANTS Graphs,       \* the graphs a document may have, sets of triples
          Options,      \* sets of options: subsets of {"swrl", "partial", "capture"}
          MaxAxioms     \* LimitKey::MaxAxioms

VARIABLES graph, syntax, options, phase, m

vars == <<graph, syntax, options, phase, m>>

Syntaxes == {"rdfxml", "turtle"}
Order(s) == IF s = "turtle" THEN "python" ELSE "derived"

KindOf(kinds, kind) == {k[1] : k \in {k \in kinds : k[2] = kind}}

\* The state map_graph starts from: entity kinds are collected before anything
\* is mapped, and data properties and datatypes registered with the decoder.
Start(g, opts) ==
  LET kinds == CollectEntityKinds(g)
  IN  [g |-> g, kinds |-> kinds, err |-> "", consumed |-> {},
       owners |-> <<>>, roles |-> <<>>, active |-> <<>>, activeData |-> <<>>,
       dataProps |-> {"owl:topDataProperty", "owl:bottomDataProperty"}
                     \cup KindOf(kinds, "data_property"),
       datatypes |-> KindOf(kinds, "datatype"),
       records |-> {}, nested |-> {}, allowSwrl |-> "swrl" \in opts,
       capture |-> "capture" \in opts, partial |-> "partial" \in opts,
       header |-> 0, ontologyIri |-> "", versionIri |-> "", imports |-> {},
       ontAnn |-> {}, axioms |-> <<>>, extensions |-> <<>>, components |-> <<>>,
       marks |-> <<>>, anchors |-> <<>>, groups |-> <<>>, unconsumed |-> <<>>]

-----------------------------------------------------------------------------
(* Occurrences.                                                            *)

\* The roots pushed since the last mark, as a group of occurrences.
Since(m0, roots, start) == SubSeq(roots, start + 1, Len(roots))

IndexesOf(m0, Selected(_)) == InOrder(m0, {i \in DOMAIN m0.g : Selected(i)})

IsTyped(m0, i, types) ==
  m0.g[i].p = "rdf:type" /\ \E t \in types : m0.g[i].o = Iri(t)

SwrlRuleAnchors(m0) == IndexesOf(m0, LAMBDA i : IsTyped(m0, i, {"swrl:Imp"}))

\* Mutant: the three kinds of special node in one pass over the graph.
SpecialAnchorsOnePass(m0) ==
  IndexesOf(m0, LAMBDA i : IsTyped(m0, i, {"owl:NegativePropertyAssertion", "owl:AllDifferent",
                                           "owl:AllDisjointClasses", "owl:AllDisjointProperties"}))

SpecialAnchors(m0) ==
  IndexesOf(m0, LAMBDA i : IsTyped(m0, i, {"owl:NegativePropertyAssertion"}))
  \o IndexesOf(m0, LAMBDA i : IsTyped(m0, i, {"owl:AllDifferent"}))
  \o IndexesOf(m0, LAMBDA i : IsTyped(m0, i, {"owl:AllDisjointClasses", "owl:AllDisjointProperties"}))

\* The main triples of MapCollections, loop by loop, before it runs.
PreSimpleAnchors(m0) ==
  LET Free(i) == i \notin m0.consumed
  IN  IndexesOf(m0, LAMBDA i : Free(i) /\ m0.g[i].p = "owl:propertyChainAxiom")
      \o IndexesOf(m0, LAMBDA i : Free(i) /\ m0.g[i].p = "owl:hasKey")
      \o IndexesOf(m0, LAMBDA i : Free(i) /\ m0.g[i].p = "owl:disjointUnionOf")
      \o IndexesOf(m0, LAMBDA i : Free(i) /\ m0.g[i].p \in ClassConstructors
                                  /\ IsNamedClass(m0, m0.g[i].s))
      \o IndexesOf(m0, LAMBDA i : Free(i) /\ IsDatatypeDefinition(m0, i))

\* Mutant: the order of the graph, which depends on the syntax.
OrderByAnchorsUnsorted(m0, roots, anchors) ==
  [k \in DOMAIN roots |-> [row |-> roots[k].row, from |-> roots[k].from, anchor |-> anchors[k]]]

\* Zip roots with anchors and sort by the anchor triple in Python's order.
OrderByAnchors(m0, roots, anchors) ==
  LET zipped == [k \in DOMAIN roots |-> [row |-> roots[k].row, from |-> roots[k].from,
                                         anchor |-> anchors[k]]]
      Less(a, b) == TripleLess("python", m0.g[a.anchor], m0.g[b.anchor])
  IN  SortSeq(zipped, Less)

AddGroup(m0, roots, anchors) ==
  CASE Failed(m0) \/ ~m0.capture -> m0
    [] Len(roots) # Len(anchors) -> Fail(m0, "PROTOCOL")
    [] OTHER -> [m0 EXCEPT !.groups = Append(@, OrderByAnchors(m0, roots, anchors))]

\* Equivalence axioms sort by the least member of their component.
OrderByComponents(m0, roots) ==
  LET Key(k) == <<m0.components[k].step>>
                \o TermKey("python", CHOOSE t \in m0.components[k].members :
                     \A u \in m0.components[k].members :
                        ~KeyLess(TermKey("python", u), TermKey("python", t)))
      order == SortSeq([k \in DOMAIN roots |-> k], LAMBDA a, b : KeyLess(Key(a), Key(b)))
  IN  [k \in DOMAIN roots |-> [row |-> roots[order[k]].row, from |-> roots[order[k]].from,
                               anchor |-> roots[order[k]].from]]

-----------------------------------------------------------------------------
(* Detached expressions.                                                   *)

HasMarker(m0, subject, type) == Typed(m0, subject, type) \ m0.consumed # {}

\* A list whose members are all declared names of the kind, or builtins.  One
\* that is too long is passed on to the decoder, which refuses it: an error of
\* the code in either place.
RECURSIVE EstablishedNamedList(_, _, _, _, _)
EstablishedNamedList(m0, head, kind, minimum, visited) ==
  LET Named(member) ==
        /\ IsIri(member)
        /\ \/ HasKind(m0, member[2], kind)
           \/ kind = "class" /\ IsBuiltinClass(member[2])
           \/ kind = "datatype" /\ IsBuiltinDatatype(member[2])
      Onward(next) ==
        \/ next = Nil /\ Cardinality(visited) + 1 >= minimum
        \/ EstablishedNamedList(m0, next, kind, minimum, visited \cup {head})
      Cell(first, rest) ==
        /\ Cardinality(first) = 1 /\ Cardinality(rest) = 1
        /\ Named(Target(m0, first)) /\ Onward(Target(m0, rest))
  IN  /\ IsBlank(head)
      /\ \/ Cardinality(visited) + 1 > MaxRdfListLength
         \/ head \notin visited /\ Cell(Edges(m0, head, "rdf:first"), Edges(m0, head, "rdf:rest"))

RECURSIVE EstablishedFacetList(_, _, _)
EstablishedFacetList(m0, head, visited) ==
  LET first == Edges(m0, head, "rdf:first")
      rest == Edges(m0, head, "rdf:rest")
      facet == Target(m0, first)
  IN  /\ IsBlank(head) /\ head \notin visited
      /\ Cardinality(first) = 1 /\ Cardinality(rest) = 1
      /\ IsBlank(facet)
      /\ \E i \in DOMAIN m0.g : m0.g[i].s = facet /\ IsLit(m0.g[i].o)
      /\ \/ Target(m0, rest) = Nil
         \/ EstablishedFacetList(m0, Target(m0, rest), visited \cup {head})

\* What a consumer finds at triple i: no detached expression, one that has too
\* many targets, or the kind of the one to decode, which uses its triples.
\* Found by the predicate of the triple, whose targets are counted last.
Detached(m0, i, predicates, Candidate(_), kind) ==
  LET t == m0.g[i]
  IN  CASE t.p \notin predicates \/ ~Candidate(t) -> "none"
        [] Cardinality(Edges(m0, t.s, t.p)) > 1 -> "many"
        [] OTHER -> kind

DetachedInverse(m0, i) ==
  Detached(m0, i, {"owl:inverseOf"},
           LAMBDA t : IsIri(t.o) /\ HasKind(m0, t.o[2], "object_property"), "property")

Booleans == {"owl:intersectionOf", "owl:unionOf"}

DetachedEmptyBoolean(m0, i) ==
  Detached(m0, i, Booleans, LAMBDA t : t.o = Nil /\ HasMarker(m0, t.s, "owl:Class"), "class")

DetachedNamedBoolean(m0, i) ==
  Detached(m0, i, Booleans,
           LAMBDA t : HasMarker(m0, t.s, "owl:Class")
                      /\ EstablishedNamedList(m0, t.o, "class", 1, {}), "class")

DetachedDataBoolean(m0, i) ==
  Detached(m0, i, Booleans,
           LAMBDA t : HasMarker(m0, t.s, "rdfs:Datatype")
                      /\ EstablishedNamedList(m0, t.o, "datatype", 2, {}), "data")

\* Complements and enumerations count their targets before they look for the
\* marker: a second target is an error even without one.
Enumerated(m0, i, predicate, Candidate(_), marker, kind) ==
  LET t == m0.g[i]
  IN  CASE t.p # predicate \/ ~Candidate(t.o) -> "none"
        [] Cardinality(Edges(m0, t.s, t.p)) > 1 -> "many"
        [] ~HasMarker(m0, t.s, marker) -> "none"
        [] OTHER -> kind

DetachedClassComplement(m0, i) ==
  Enumerated(m0, i, "owl:complementOf", LAMBDA o : IsNamedClass(m0, o), "owl:Class", "class")

DetachedOneOf(m0, i) ==
  Enumerated(m0, i, "owl:oneOf", LAMBDA o : TRUE, "owl:Class", "class")

IsNamedDatatype(m0, o) ==
  IsIri(o) /\ (HasKind(m0, o[2], "datatype") \/ IsBuiltinDatatype(o[2]))

DetachedDataComplement(m0, i) ==
  Enumerated(m0, i, "owl:datatypeComplementOf", LAMBDA o : IsNamedDatatype(m0, o),
             "rdfs:Datatype", "data")

DetachedDataOneOf(m0, i) ==
  Enumerated(m0, i, "owl:oneOf", LAMBDA o : TRUE, "rdfs:Datatype", "data")

DetachedRestriction(m0, i) ==
  LET t == m0.g[i]
      facets == Edges(m0, t.s, "owl:withRestrictions")
  IN  CASE t.p # "owl:onDatatype" \/ ~IsNamedDatatype(m0, t.o) -> "none"
        [] ~HasMarker(m0, t.s, "rdfs:Datatype") -> "none"
        [] ~\E f \in facets : EstablishedFacetList(m0, m0.g[f].o, {}) -> "none"
        [] Cardinality(Edges(m0, t.s, t.p)) > 1 \/ Cardinality(facets) > 1 -> "many"
        [] OTHER -> "data"

\* The OWL 1 owl:DataRange is found by its marker.
DetachedOwl1DataOneOf(m0, i) ==
  LET t == m0.g[i]
      lists == Edges(m0, t.s, "owl:oneOf")
      others == UNION {Edges(m0, t.s, p) : p \in DataConstructors \ {"owl:oneOf"}}
  IN  CASE ~IsTyped(m0, i, {"owl:DataRange"}) -> "none"
        [] Cardinality(lists) > 1 -> "many"
        [] lists \cup others = {} -> "none"
        [] OTHER -> "data"

\* The ten consumers, in the order of the code, each over the whole graph.
Found(m0, i, pass) ==
  CASE i \in m0.consumed \/ ~IsBlank(m0.g[i].s) -> "none"
    [] OTHER ->
         CASE pass = 1 -> DetachedInverse(m0, i)
           [] pass = 2 -> DetachedEmptyBoolean(m0, i)
           [] pass = 3 -> DetachedNamedBoolean(m0, i)
           [] pass = 4 -> DetachedClassComplement(m0, i)
           [] pass = 5 -> DetachedOneOf(m0, i)
           [] pass = 6 -> DetachedDataBoolean(m0, i)
           [] pass = 7 -> DetachedRestriction(m0, i)
           [] pass = 8 -> DetachedDataComplement(m0, i)
           [] pass = 9 -> DetachedDataOneOf(m0, i)
           [] pass = 10 -> DetachedOwl1DataOneOf(m0, i)

ConsumeDetached(m0) ==
  LET Use(acc, subject, found) ==
        CASE found = "none" -> acc
          [] found = "many" -> Fail(acc, "CARDINALITY")
          [] found = "property" -> DecodeObjectProperty(acc, subject).m
          [] found = "class" -> DecodeTerm(acc, subject).m
          [] found = "data" -> DecodeDataRange(acc, subject).m
      Pass(acc, pass) == ForEach(LAMBDA m1, i : Use(m1, m1.g[i].s, Found(m1, i, pass)), acc)
  IN  FoldLeft(Pass, m0, [pass \in 1..10 |-> pass])

-----------------------------------------------------------------------------
(* The phases.                                                             *)

Header(m0) == ConsumeOwl1RedundantTypes(ReadHeader(m0))

Declarations(m0) ==
  LET Captured(m1) ==
        IF Failed(m1) \/ ~m1.capture THEN m1
        ELSE [m1 EXCEPT !.groups = <<[k \in DOMAIN m1.axioms |->
                [row |-> m1.axioms[k].row, from |-> m1.axioms[k].from, anchor |-> m1.axioms[k].from]]>>]
  IN  Captured(MapDeclarations(m0))

Rules(m0) ==
  LET Captured(m1) == AddGroup(m1, m1.extensions, SwrlRuleAnchors(m1)) IN Captured(MapSwrlRules(m0))

Specials(m0) ==
  LET Captured(m1) == AddGroup(m1, Since(m1, m1.axioms, Len(m0.axioms)), SpecialAnchors(m1))
  IN  Captured(MapSpecials(m0))

\* The anchors are computed before the loops they describe, and the roots kept
\* until the trailing loop adds its own.
Collections(m0) ==
  LET Kept(m1) == [m1 EXCEPT !.anchors = IF m0.capture THEN PreSimpleAnchors(m0) ELSE <<>>,
                             !.marks = Since(m1, m1.axioms, Len(m0.axioms))]
  IN  Kept(MapCollections(m0))

Equivalences(m0) ==
  LET Captured(m1, roots) ==
        CASE Failed(m1) \/ ~m1.capture -> m1
          [] Len(roots) # Len(m1.components) -> Fail(m1, "PROTOCOL")
          [] OTHER -> [m1 EXCEPT !.groups = Append(@, OrderByComponents(m1, roots))]
      Pushed(m1) == Captured(m1, Since(m1, m1.axioms, Len(m0.axioms)))
  IN  Pushed(MapEquivalences(m0))

Triples(m0) ==
  LET Captured(m1, roots) ==
        AddGroup(m1, m1.marks \o roots, m1.anchors \o [k \in DOMAIN roots |-> roots[k].from])
      Pushed(m1) == Captured(m1, Since(m1, m1.axioms, Len(m0.axioms)))
  IN  Pushed(MapTriples(m0))

\* Everything claimed, every root an occurrence, every triple used unless a
\* partial mapping was asked for; then roots are sets.
Finish(m0) ==
  LET occurrences == FlattenSeq(m0.groups)
      left == SortSeq(InOrder(m0, Unconsumed(m0)),
                      LAMBDA i, j : TripleLess("python", m0.g[i], m0.g[j]))
  IN  CASE Failed(m0) -> m0
        [] FirstUnclaimed(m0) # {} -> Fail(m0, "REIFICATION")
        [] m0.capture /\ Len(occurrences) # Len(m0.axioms) + Len(m0.extensions) -> Fail(m0, "PROTOCOL")
        [] Cardinality({m0.axioms[k].row : k \in DOMAIN m0.axioms}) > MaxAxioms -> Fail(m0, "LIMIT")
        [] left # <<>> /\ ~m0.partial -> Fail(m0, "INCOMPLETE")
        [] OTHER -> [m0 EXCEPT !.unconsumed = left]

\* The whole mapping, for comparing the two syntaxes.
MapGraph(g, s, opts) ==
  LET On(acc, Run(_)) == IF Failed(acc) THEN acc ELSE Run(acc)
      m1 == On(On(On(Start(SortGraph(Order(s), g), opts), Header), CollectAxiomAnnotations), Declarations)
      m2 == On(On(On(m1, MapOntologyAnnotations), Rules), Specials)
      m3 == On(On(On(m2, Collections), Equivalences), Triples)
  IN  On(On(m3, ConsumeDetached), Finish)

Init ==
  /\ graph \in Graphs
  /\ syntax \in Syntaxes
  /\ options \in Options
  /\ phase = "header"
  /\ m = Start(SortGraph(Order(syntax), graph), options)

\* One phase of map_graph; an error leaves the function.
Advance(from, Run(_), to) ==
  /\ phase = from
  /\ m' = Run(m)
  /\ phase' = IF Failed(m') THEN "failed" ELSE to
  /\ UNCHANGED <<graph, syntax, options>>

HeaderStep == Advance("header", Header, "annotations")
AnnotationsStep == Advance("annotations", CollectAxiomAnnotations, "declarations")
DeclarationsStep == Advance("declarations", Declarations, "ontologyAnnotations")
OntologyAnnotationsStep == Advance("ontologyAnnotations", MapOntologyAnnotations, "rules")
RulesStep == Advance("rules", Rules, "specials")
SpecialsStep == Advance("specials", Specials, "collections")
CollectionsStep == Advance("collections", Collections, "equivalences")
EquivalencesStep == Advance("equivalences", Equivalences, "triples")
TriplesStep == Advance("triples", Triples, "detached")
DetachedStep == Advance("detached", ConsumeDetached, "finish")
FinishStep == Advance("finish", Finish, "done")

\* Every session call of a phase may fail: cancellation, the deadline, a work
\* or memory budget.  The mapping stops there.
Abort ==
  /\ phase \notin {"done", "failed"}
  /\ m' = Fail(m, "SESSION")
  /\ phase' = "failed"
  /\ UNCHANGED <<graph, syntax, options>>

Run ==
  \/ HeaderStep \/ AnnotationsStep \/ DeclarationsStep \/ OntologyAnnotationsStep
  \/ RulesStep \/ SpecialsStep \/ CollectionsStep \/ EquivalencesStep
  \/ TriplesStep \/ DetachedStep \/ FinishStep

Next == Run \/ Abort

Spec == Init /\ [][Next]_vars

-----------------------------------------------------------------------------
(* Properties.                                                             *)

OccurrencesOf(m0) == FlattenSeq(m0.groups)
Occurrences == OccurrencesOf(m)
Rows(roots) == {roots[k].row : k \in DOMAIN roots}

\* Two finished mappings that tell the reader the same.
SameDocument(a, b) ==
  LET RowsInOrder(m0) == [k \in DOMAIN OccurrencesOf(m0) |-> OccurrencesOf(m0)[k].row]
  IN  /\ ~Failed(b)
      /\ Rows(a.axioms) = Rows(b.axioms) /\ Rows(a.extensions) = Rows(b.extensions)
      /\ <<a.ontologyIri, a.versionIri, a.imports, a.ontAnn>>
           = <<b.ontologyIri, b.versionIri, b.imports, b.ontAnn>>
      /\ RowsInOrder(a) = RowsInOrder(b)

\* The state of the mapping: indexes are indexes of the graph, list cells and
\* roles belong to its blank nodes, and exactly the failed mapping has an error.
TypeOK ==
  /\ graph \in Graphs /\ syntax \in Syntaxes /\ options \in Options
  /\ Range(m.g) = graph /\ Len(m.g) = Cardinality(graph)
  /\ m.consumed \subseteq DOMAIN m.g
  /\ \A r \in m.records \cup m.nested : {r.type, r.main} \subseteq DOMAIN m.g
  /\ DOMAIN m.owners \cup DOMAIN m.roles
       \subseteq {t[2] : t \in {t \in UNION {{u.s, u.o} : u \in graph} : IsBlank(t)}}
  /\ phase = "failed" <=> m.err # ""

\* The anchors map_graph recomputes for its captured roots name, position by
\* position, the triples the roots were built from: zipping the two lists never
\* gives a root the source position of another root.
AnchorsNameTheirRoots ==
  phase = "done" => \A k \in DOMAIN Occurrences : Occurrences[k].anchor = Occurrences[k].from

\* A graph means the same in RDF/XML and in Turtle, although the mapper sees its
\* triples in two different orders: when the last phase succeeds, the mapping of
\* the graph read in the other syntax succeeds too, with the same header, the
\* same roots, and the captured occurrences in the same order.
SyntaxIndependence ==
  [][phase' = "done" =>
       \A s \in Syntaxes \ {syntax} : SameDocument(m', MapGraph(graph, s, options))]_vars

\* Nothing is lost and nothing is shared.  The annotations of every owl:Axiom
\* node are among those of one mapped axiom or rule, or of the ontology.  A
\* blank node is an individual of the result or part of its structure (a list
\* cell, an expression, a facet), never both.  And no two list cells in use
\* have one tail, so no operand list serves two expressions.
EachPartUsedOnce ==
  /\ TypeOK
  /\ phase = "done" =>
       /\ \A r \in m.records :
            \/ r.annotations \subseteq m.ontAnn
            \/ \E row \in Rows(m.axioms) \cup Rows(m.extensions) : r.annotations \subseteq Last(row)
       /\ \A b \in DOMAIN m.roles :
            "individual" \in m.roles[b] => m.roles[b] = {"individual"} /\ b \notin DOMAIN m.owners
       /\ \A c, d \in DOMAIN m.owners :
            LET Rest(x) == Target(m, Edges(m, Bl(x), "rdf:rest"))
            IN  Rest(c) = Rest(d) => c = d \/ Rest(c) = Nil
=============================================================================
