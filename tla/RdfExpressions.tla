--------------------------- MODULE RdfExpressions ---------------------------
(***************************************************************************)
(* The decoders of the native RDF mapper: RDF collections (rdf_lists.rs)   *)
(* and class, data-range and property expressions                          *)
(* (rdf_class_expressions.rs).                                             *)
(*                                                                         *)
(* The code threads one mutable decoder through the whole mapping.  Here   *)
(* every operator takes the mapping state m, a record whose fields this    *)
(* module uses are                                                         *)
(*   g         the graph, a sequence of triples [s, p, o]                  *)
(*   owners    the list-cell ledger: cell -> root of the list that owns it *)
(*   roles     blank label -> the set of roles it has been decoded in      *)
(*   consumed  the indexes of the triples some decoder has accounted for   *)
(*   dataProps, datatypes   the registered entity kinds                    *)
(*   active, activeData     the blanks being decoded, innermost last       *)
(*   err       "" or the error code that aborts the mapping                *)
(* and returns [m |-> the state after it, n |-> the node or nodes].  An    *)
(* error is sticky: it stands for the `?' that leaves every caller.        *)
(*                                                                         *)
(* Terms are <<"iri", name>>, <<"blank", label>> and                       *)
(* <<"lit", lexical, datatype, language>>; canonical nodes are tuples that *)
(* start with the tag of the canonical encoding, sets where the encoding   *)
(* sorts and deduplicates.                                                 *)
(***************************************************************************)
EXTENDS Naturals, Sequences, FiniteSets, FiniteSetsExt, SequencesExt, TLC

CONSTANTS MaxRdfListLength, \* LimitKey::MaxRdfListLength and MaxSequenceArity
          MaxNestingDepth   \* LimitKey::MaxNestingDepth

ASSUME LimitsAssumption == MaxRdfListLength \in Nat /\ MaxNestingDepth \in Nat

Iri(v) == <<"iri", v>>
Bl(v) == <<"blank", v>>
Lit(v) == <<"lit", v, "", "">>
IsIri(t) == t[1] = "iri"
IsBlank(t) == t[1] = "blank"
IsLit(t) == t[1] = "lit"
Nil == Iri("rdf:nil")
None == <<0>>

Failed(m) == m.err # ""
Fail(m, code) == IF Failed(m) THEN m ELSE [m EXCEPT !.err = code]
Ret(m, n) == [m |-> m, n |-> n]
Err(m, code) == Ret(Fail(m, code), None)
Consume(m, indexes) == IF Failed(m) THEN m ELSE [m EXCEPT !.consumed = @ \cup indexes]

\* What comes after a decoder, or after a change of the state, unless it failed.
Then(r, Step(_)) == IF Failed(r.m) THEN Ret(r.m, None) ELSE Step(r)
Go(m, Step(_)) == IF Failed(m) THEN Ret(m, None) ELSE Step(m)

\* Run one decoder after another over a list of items, stopping at an error.
DecodeEach(Decode(_, _), m, items) ==
  FoldLeft(LAMBDA r, item : Then(r, LAMBDA q : Then(Decode(q.m, item), LAMBDA d : Ret(d.m, Append(q.n, d.n)))),
           Ret(m, <<>>), items)

\* The elements of a set in some order, and a set of indexes in graph order.
AsSeq(S) == FoldSet(LAMBDA x, acc : Append(acc, x), <<>>, S)
InOrder(m, indexes) == SelectSeq([i \in DOMAIN m.g |-> i], LAMBDA i : i \in indexes)

NodeSet(nodes) == {nodes[i] : i \in DOMAIN nodes}

\* canonical_set with a flatten tag: operands of the same boolean are merged.
Flatten(nodes, tag) ==
  UNION {IF n[1] = tag THEN n[2] ELSE {n} : n \in NodeSet(nodes)}

Entity(kind, iri) == <<0, kind, iri>>
Thing == Entity("class", "owl:Thing")
Nothing == Entity("class", "owl:Nothing")

-----------------------------------------------------------------------------
(* The graph, seen from one subject.                                       *)

Edges(m, subject, predicate) ==
  {i \in DOMAIN m.g : m.g[i].s = subject /\ m.g[i].p = predicate}

Typed(m, subject, type) ==
  {i \in Edges(m, subject, "rdf:type") : m.g[i].o = Iri(type)}

Target(m, indexes) == m.g[Min(indexes)].o

-----------------------------------------------------------------------------
(* rdf_lists.rs                                                            *)

\* Mutant: claims are granted to every list.
ClaimCellAlways(m, cell, root) == TRUE

\* A cell is owned by the first list that reached it: another root's claim is
\* a shared tail.
ClaimCell(m, cell, root) ==
  cell \in DOMAIN m.owners => m.owners[cell] = root

\* Walk one collection from the cell `current', having collected items and
\* cells; the owner ledger is only extended when the whole walk succeeds.
RECURSIVE WalkList(_, _, _, _, _)
WalkList(m, root, current, items, cells) ==
  LET Onward(m1, next, items1, cells1) ==
        CASE next = Nil -> Ret([m1 EXCEPT !.owners = [c \in Range(cells1) |-> root] @@ @],
                               [items |-> items1, cells |-> cells1])
          [] IsBlank(next) -> WalkList(m1, root, next[2], items1, cells1)
          [] OTHER -> Err(m, "UNSUPPORTED")
      From(first, rest) ==
        CASE Len(items) + 1 > MaxRdfListLength -> Err(m, "LIMIT")
          [] current \in Range(cells) \/ ~ClaimCell(m, current, root) -> Err(m, "UNSUPPORTED")
          [] Cardinality(first) # 1 \/ Cardinality(rest) # 1 -> Err(m, "CARDINALITY")
          [] OTHER -> Onward(Consume(m, first \cup rest \cup Typed(m, Bl(current), "rdf:List")),
                             Target(m, rest), Append(items, Target(m, first)), Append(cells, current))
  IN  From(Edges(m, Bl(current), "rdf:first"), Edges(m, Bl(current), "rdf:rest"))

DecodeList(m, head) ==
  CASE Failed(m) -> Ret(m, None)
    [] head = Nil -> Ret(m, [items |-> <<>>, cells |-> <<>>])
    [] IsBlank(head) -> WalkList(m, head[2], head[2], <<>>, <<>>)
    [] OTHER -> Err(m, "UNSUPPORTED")

-----------------------------------------------------------------------------
(* Blank-node roles and single-valued edges.                               *)

\* An individual or a facet is nothing else; an expression may also be a list
\* cell.
ClaimBlank(m, label, role) ==
  LET In(roles) ==
        IF \E r \in {"individual", "facet"} : r \in roles /\ roles # {r} THEN Fail(m, "UNSUPPORTED")
        ELSE IF Failed(m) THEN m ELSE [m EXCEPT !.roles = (label :> roles) @@ @]
  IN  In({role} \cup (IF label \in DOMAIN m.roles THEN m.roles[label] ELSE {}))

ClaimCells(m, cells) ==
  FoldLeft(LAMBDA acc, cell : ClaimBlank(acc, cell, "list"), m, cells)

\* lists.decode followed by the ROLE_LIST claim of every cell.
DecodeRawCollection(m, head) ==
  Then(DecodeList(m, head), LAMBDA d : Ret(ClaimCells(d.m, d.n.cells), d.n))

\* Every item of a collection, decoded.
DecodeMembers(m, head, Decode(_, _)) ==
  Then(DecodeRawCollection(m, head), LAMBDA d : DecodeEach(Decode, d.m, d.n.items))

\* unique_edge over several predicates: a second target is an error, in the
\* code before anything is decoded.
UniqueEdges(m, subject, predicates) ==
  IF \A p \in predicates : Cardinality(Edges(m, subject, p)) <= 1
  THEN m ELSE Fail(m, "CARDINALITY")

NamedDataProperty(m, term) ==
  IF IsIri(term) THEN Ret(m, Entity("data_property", term[2])) ELSE Err(m, "UNSUPPORTED")

DecodeIndividual(m, term) ==
  CASE IsIri(term) -> Ret(m, Entity("named_individual", term[2]))
    [] IsBlank(term) -> Ret(ClaimBlank(m, term[2], "individual"), <<2, term[2]>>)
    [] IsLit(term) -> Err(m, "UNSUPPORTED")

\* The lexical conversions, over the lexical forms and tags the instances use.
LowerTag(tag) == IF tag = "EN" THEN "en" ELSE tag
PlainLexical(lexical) == IF lexical = "v@" THEN "v" ELSE lexical
Decimal == "0" :> 0 @@ "1" :> 1 @@ "01" :> 1 @@ "2" :> 2
IsTrue(lexical) == lexical \in {"true", "TRUE"}

\* A language tag is lowered under rdf:PlainLiteral; without one the datatype
\* defaults to xsd:string and rdf:PlainLiteral drops one trailing '@'.
DecodeLiteral(m, i) ==
  LET t == m.g[i].o
      datatype == IF t[3] = "" THEN "xsd:string" ELSE t[3]
      lexical == IF datatype = "rdf:PlainLiteral" THEN PlainLexical(t[2]) ELSE t[2]
  IN  CASE t[3] # "" /\ t[4] # "" -> Err(m, "UNSUPPORTED")
        [] t[4] # "" -> Ret(m, <<3, t[2], "rdf:PlainLiteral", LowerTag(t[4])>>)
        [] OTHER -> Ret(m, <<3, lexical, datatype, "">>)

DecodeObjectProperty(m, term) ==
  CASE IsIri(term) -> Ret(m, Entity("object_property", term[2]))
    [] IsLit(term) -> Err(m, "UNSUPPORTED")
    [] IsBlank(term) ->
         LET Of(m1, inverse) ==
               CASE Cardinality(inverse) # 1 -> Err(m1, "CARDINALITY")
                 [] ~IsIri(Target(m, inverse)) -> Err(m1, "UNSUPPORTED")
                 [] OTHER -> Ret(Consume(m1, inverse),
                                 <<10, Entity("object_property", Target(m, inverse)[2])>>)
         IN  Go(ClaimBlank(m, term[2], "expression"), LAMBDA m1 : Of(m1, Edges(m, term, "owl:inverseOf")))

-----------------------------------------------------------------------------
(* Data ranges.                                                            *)

DataConstructors == {"owl:intersectionOf", "owl:unionOf", "owl:datatypeComplementOf",
                     "owl:oneOf", "owl:onDatatype", "owl:withRestrictions"}

\* The decoded operands as one canonical set.
AsSet(r, tag) == Then(r, LAMBDA q : Ret(q.m, <<tag, NodeSet(q.n)>>))

DecodeDataOneOf(m, head, compatibility) ==
  LET First(cell) == Min(Edges(m, Bl(cell), "rdf:first"))
      Value(acc, cell) == IF IsLit(acc.g[First(cell)].o) THEN DecodeLiteral(acc, First(cell))
                          ELSE Err(acc, "UNSUPPORTED")
      Values(d) ==
        CASE d.n.items = <<>> /\ compatibility -> Ret(d.m, <<23, Entity("datatype", "rdfs:Literal")>>)
          [] d.n.items = <<>> -> Err(d.m, "UNSUPPORTED")
          [] OTHER -> AsSet(DecodeEach(Value, d.m, d.n.cells), 24)
  IN  Then(DecodeRawCollection(m, head), Values)

\* A facet is a blank with exactly one literal-valued edge.
DecodeFacet(m, term) ==
  LET Valued(m1, edges) ==
        IF Cardinality(edges) # 1 THEN Err(m1, "UNSUPPORTED")
        ELSE Then(DecodeLiteral(Consume(m1, edges), Min(edges)),
                  LAMBDA v : Ret(v.m, <<20, <<1, m.g[Min(edges)].p>>, v.n>>))
  IN  IF ~IsBlank(term) THEN Err(m, "UNSUPPORTED")
      ELSE Go(ClaimBlank(m, term[2], "facet"),
              LAMBDA m1 : Valued(m1, {i \in DOMAIN m.g : m.g[i].s = term /\ IsLit(m.g[i].o)}))

DecodeDatatypeRestriction(m, onDatatype, withRestrictions) ==
  LET Facets(d) ==
        IF d.n.items = <<>> THEN Err(d.m, "UNSUPPORTED")
        ELSE Then(DecodeEach(DecodeFacet, Consume(d.m, onDatatype \cup withRestrictions), d.n.items),
                  LAMBDA f : Ret(f.m, <<25, Entity("datatype", Target(m, onDatatype)[2]), NodeSet(f.n)>>))
  IN  IF ~IsIri(Target(m, onDatatype)) THEN Err(m, "UNSUPPORTED")
      ELSE Then(DecodeRawCollection(m, Target(m, withRestrictions)), Facets)

\* The operands of a boolean, merged; a single one stands for itself.
Combine(operands, tag) ==
  LET Of(q, set) == Ret(q.m, IF Cardinality(set) = 1 THEN CHOOSE n \in set : TRUE ELSE <<tag, set>>)
  IN  Then(operands, LAMBDA q : Of(q, Flatten(q.n, tag)))

RECURSIVE DecodeDataRange(_, _)

DecodeDataBoolean(m, head, tag) ==
  Then(DecodeRawCollection(m, head),
       LAMBDA d : IF Len(d.n.items) < 2 THEN Err(d.m, "UNSUPPORTED")
                  ELSE Combine(DecodeEach(DecodeDataRange, d.m, d.n.items), tag))

DataBooleanTags == "owl:intersectionOf" :> 21 @@ "owl:unionOf" :> 22
FacetEdges == {"owl:onDatatype", "owl:withRestrictions"}

\* One constructor, its marker consumed; the two facet edges count as one.
DecodeDataForm(m, subject, op, compatibility) ==
  LET E(p) == Edges(m, subject, p)
      Operand(used, target) ==
        CASE op \in DOMAIN DataBooleanTags -> DecodeDataBoolean(used, target, DataBooleanTags[op])
          [] op = "owl:datatypeComplementOf" ->
               Then(DecodeDataRange(used, target), LAMBDA r : Ret(r.m, <<23, r.n>>))
          [] op = "owl:oneOf" -> DecodeDataOneOf(used, target, compatibility)
  IN  IF op = "facets" THEN DecodeDatatypeRestriction(m, E("owl:onDatatype"), E("owl:withRestrictions"))
      ELSE Operand(Consume(m, E(op)), Target(m, E(op)))

DecodeDataConstructor(m, subject) ==
  LET present == {p \in DataConstructors : Edges(m, subject, p) # {}}
      Form(m1, marker, owl1, constructors) ==
        CASE marker # {} /\ owl1 # {} -> Err(m1, "UNSUPPORTED")
          [] Cardinality(constructors) # 1 -> Err(m1, "UNSUPPORTED")
          [] "facets" \in constructors /\ ~(FacetEdges \subseteq present) -> Err(m1, "UNSUPPORTED")
          [] owl1 # {} /\ constructors # {"owl:oneOf"} -> Err(m1, "UNSUPPORTED")
          [] OTHER -> DecodeDataForm(Consume(m1, marker \cup owl1), subject,
                                     CHOOSE op \in constructors : TRUE, owl1 # {})
  IN  Go(UniqueEdges(m, subject, DataConstructors),
         LAMBDA m1 : Form(m1, Typed(m, subject, "rdfs:Datatype"), Typed(m, subject, "owl:DataRange"),
                          (present \ FacetEdges)
                          \cup (IF present \cap FacetEdges = {} THEN {} ELSE {"facets"})))

\* A blank is refused while it is being decoded, and beyond the depth limit.
DecodeDataBlank(m, label) ==
  LET Left(r) == Ret([r.m EXCEPT !.activeData = Front(@)], r.n)
      Enter(m1) ==
        CASE label \in Range(m.active) \cup Range(m.activeData) -> Err(m1, "UNSUPPORTED")
          [] Len(m.active) + Len(m.activeData) + 1 > MaxNestingDepth -> Err(m1, "LIMIT")
          [] OTHER -> Left(DecodeDataConstructor([m1 EXCEPT !.activeData = Append(@, label)], Bl(label)))
  IN  Go(ClaimBlank(m, label, "expression"), Enter)

DecodeDataRange(m, term) ==
  CASE Failed(m) -> Ret(m, None)
    [] IsIri(term) -> Ret(m, Entity("datatype", term[2]))
    [] IsBlank(term) -> DecodeDataBlank(m, term[2])
    [] IsLit(term) -> Err(m, "UNSUPPORTED")

-----------------------------------------------------------------------------
(* Class expressions.                                                      *)

RECURSIVE DecodeTerm(_, _)

DecodeBoolean(m, head, tag, compatibility) ==
  LET Operands(d, items) ==
        CASE Len(items) < 2 /\ ~compatibility -> Err(d.m, "UNSUPPORTED")
          [] Len(items) = 0 -> Ret(d.m, IF tag = 30 THEN Thing ELSE Nothing)
          [] Len(items) = 1 -> DecodeTerm(d.m, items[1])
          [] OTHER -> Combine(DecodeEach(DecodeTerm, d.m, items), tag)
  IN  Then(DecodeRawCollection(m, head), LAMBDA d : Operands(d, d.n.items))

DecodeOneOf(m, head, compatibility) ==
  Then(DecodeRawCollection(m, head),
       LAMBDA d : CASE d.n.items = <<>> /\ compatibility -> Ret(d.m, Nothing)
                    [] d.n.items = <<>> -> Err(d.m, "UNSUPPORTED")
                    [] OTHER -> AsSet(DecodeEach(DecodeIndividual, d.m, d.n.items), 33))

\* The OWL 1 form: a named class enumerates named individuals only.
DecodeCompatibilityNamedOneOf(m, head) ==
  LET Named(acc, item) == IF IsIri(item) THEN DecodeIndividual(acc, item)
                          ELSE Err(acc, "UNSUPPORTED")
  IN  Then(DecodeRawCollection(m, head),
           LAMBDA d : IF d.n.items = <<>> THEN Ret(d.m, Nothing)
                      ELSE AsSet(DecodeEach(Named, d.m, d.n.items), 33))

\* A quantified filler is a data range when the property is a registered data
\* property or the filler looks like a datatype.
RestrictionUsesDataRange(m, property, filler) ==
  \/ IsIri(property) /\ property[2] \in m.dataProps
  \/ IsIri(filler) /\ filler[2] \in m.datatypes
  \/ /\ IsBlank(filler)
     /\ Edges(m, filler, "owl:onDatatype") \cup Typed(m, filler, "rdfs:Datatype") # {}

DecodeQuantified(m, property, filler, tag) ==
  IF RestrictionUsesDataRange(m, property, filler)
  THEN Then(NamedDataProperty(m, property), LAMBDA p :
         Then(DecodeDataRange(p.m, filler), LAMBDA f : Ret(f.m, <<tag + 7, <<p.n>>, f.n>>)))
  ELSE Then(DecodeTerm(m, filler), LAMBDA f :
         Then(DecodeObjectProperty(f.m, property), LAMBDA p : Ret(p.m, <<tag, p.n, f.n>>)))

DecodeHasValue(m, property, i) ==
  IF IsLit(m.g[i].o)
  THEN Then(DecodeLiteral(m, i), LAMBDA v :
         Then(NamedDataProperty(v.m, property), LAMBDA p : Ret(p.m, <<43, p.n, v.n>>)))
  ELSE Then(DecodeIndividual(m, m.g[i].o), LAMBDA v :
         Then(DecodeObjectProperty(v.m, property), LAMBDA p : Ret(p.m, <<36, p.n, v.n>>)))

\* onClass and onDataRange select the filler; an unqualified restriction
\* without one follows the declared kind of the property.
DecodeCardinality(m, subject, property, i, tag, qualified) ==
  LET value == m.g[i].o
      declaredData == IsIri(property) /\ property[2] \in m.dataProps
      Filler(m1, onClass, onData, data) ==
        CASE onClass \cup onData = {} ->
               Ret(m1, IF data THEN Entity("datatype", "rdfs:Literal") ELSE Thing)
          [] data -> DecodeDataRange(m1, Target(m, onData))
          [] OTHER -> DecodeTerm(m1, Target(m, onClass))
      Counted(filler, data) ==
        Then(filler, LAMBDA f :
          Then(IF data THEN NamedDataProperty(f.m, property) ELSE DecodeObjectProperty(f.m, property), LAMBDA p :
            Ret(p.m, <<IF data THEN tag + 6 ELSE tag, Decimal[value[2]], p.n, f.n>>)))
      On(onClass, onData, data) ==
        Go(Consume(UniqueEdges(m, subject, {"owl:onClass", "owl:onDataRange"}), {i} \cup onClass \cup onData), LAMBDA m1 :
          CASE qualified /\ ((onClass = {}) <=> (onData = {})) -> Err(m1, "UNSUPPORTED")
            [] ~qualified /\ onClass # {} /\ (onData # {} \/ declaredData) -> Err(m1, "UNSUPPORTED")
            [] OTHER -> Counted(Filler(m1, onClass, onData, data), data))
      Choose(onClass, onData) ==
        On(onClass, onData, IF onClass \cup onData = {} THEN declaredData ELSE onData # {})
  IN  IF ~IsLit(value) \/ value[2] \notin DOMAIN Decimal THEN Err(m, "UNSUPPORTED")
      ELSE Choose(Edges(m, subject, "owl:onClass"), Edges(m, subject, "owl:onDataRange"))

\* owl:onProperties: an n-ary data restriction, quantified only.
DecodeNaryDataRestriction(m, subject, onProperties) ==
  LET Over(d, some, all) ==
        IF d.n.items = <<>> THEN Err(d.m, "UNSUPPORTED")
        ELSE Then(DecodeEach(NamedDataProperty, Consume(d.m, onProperties \cup some \cup all), d.n.items), LAMBDA props :
               Then(DecodeDataRange(props.m, Target(m, some \cup all)), LAMBDA f :
                 Ret(f.m, <<IF some # {} THEN 41 ELSE 42, props.n, f.n>>)))
      Quantified(m1, some, all) ==
        IF (some = {}) <=> (all = {}) THEN Err(m1, "UNSUPPORTED")
        ELSE Then(DecodeRawCollection(m1, Target(m, onProperties)), LAMBDA d : Over(d, some, all))
  IN  Go(UniqueEdges(m, subject, {"owl:someValuesFrom", "owl:allValuesFrom"}), LAMBDA m1 :
         Quantified(m1, Edges(m, subject, "owl:someValuesFrom"), Edges(m, subject, "owl:allValuesFrom")))

QuantifierTags == "owl:someValuesFrom" :> 34 @@ "owl:allValuesFrom" :> 35
CardinalityTags == "owl:minCardinality" :> 38 @@ "owl:maxCardinality" :> 39
                   @@ "owl:cardinality" :> 40
QualifiedTags == "owl:minQualifiedCardinality" :> 38 @@ "owl:maxQualifiedCardinality" :> 39
                 @@ "owl:qualifiedCardinality" :> 40
RestrictionOperators == {"owl:hasValue", "owl:hasSelf"} \cup DOMAIN QuantifierTags
                        \cup DOMAIN CardinalityTags \cup DOMAIN QualifiedTags

\* A restriction on one property by one operator, the edge i.
DecodeOperator(m, subject, property, op, i) ==
  LET value == m.g[i].o
      used == Consume(m, {i})
  IN  CASE op \in DOMAIN QuantifierTags -> DecodeQuantified(used, property, value, QuantifierTags[op])
        [] op = "owl:hasValue" -> DecodeHasValue(used, property, i)
        [] op = "owl:hasSelf" ->
             IF IsLit(value) /\ IsTrue(value[2])
             THEN Then(DecodeObjectProperty(used, property), LAMBDA p : Ret(p.m, <<37, p.n>>))
             ELSE Err(m, "UNSUPPORTED")
        [] OTHER -> DecodeCardinality(m, subject, property, i, (CardinalityTags @@ QualifiedTags)[op],
                                      op \in DOMAIN QualifiedTags)

\* One property selector and exactly one operator.
DecodeRestriction(m, subject) ==
  LET present == {p \in RestrictionOperators : Edges(m, subject, p) # {}}
      By(m2, onProperty, op) ==
        IF Cardinality(present) # 1 \/ IsLit(Target(m, onProperty)) THEN Err(m2, "UNSUPPORTED")
        ELSE DecodeOperator(Consume(m2, onProperty), subject, Target(m, onProperty), op,
                            Min(Edges(m, subject, op)))
      On(m1, onProperty, onProperties) ==
        CASE onProperty = {} /\ onProperties # {} -> DecodeNaryDataRestriction(m1, subject, onProperties)
          [] onProperty = {} \/ onProperties # {} -> Err(m1, "UNSUPPORTED")
          [] OTHER -> Go(UniqueEdges(m1, subject, RestrictionOperators),
                         LAMBDA m2 : By(m2, onProperty, CHOOSE p \in present : TRUE))
  IN  Go(UniqueEdges(m, subject, {"owl:onProperty", "owl:onProperties"}), LAMBDA m1 :
         On(m1, Edges(m, subject, "owl:onProperty"), Edges(m, subject, "owl:onProperties")))

ClassConstructors == {"owl:complementOf", "owl:intersectionOf", "owl:oneOf", "owl:unionOf"}
ClassBooleanTags == "owl:intersectionOf" :> 30 @@ "owl:unionOf" :> 31

\* One constructor on target; OWL 1 lets an operand list be short.
DecodeClassForm(m, op, target, compatibility) ==
  CASE op \in DOMAIN ClassBooleanTags -> DecodeBoolean(m, target, ClassBooleanTags[op], compatibility)
    [] op = "owl:complementOf" -> Then(DecodeTerm(m, target), LAMBDA r : Ret(r.m, <<32, r.n>>))
    [] op = "owl:oneOf" -> DecodeOneOf(m, target, compatibility)

DecodeConstructor(m, subject) ==
  LET E(p) == Edges(m, subject, p)
      Form(m1, restriction, class, present, op) ==
        CASE Cardinality(present) # 1 -> Err(m1, "UNSUPPORTED")
          [] op = "owl:Restriction" -> DecodeRestriction(Consume(m1, class \cup restriction), subject)
          [] OTHER -> DecodeClassForm(Consume(m1, class \cup E(op)), op, Target(m, E(op)), class # {})
      Among(m1, restriction, present) ==
        Form(m1, restriction, Typed(m, subject, "owl:Class"), present, CHOOSE p \in present : TRUE)
      Marked(m1, restriction) ==
        Among(m1, restriction, {p \in ClassConstructors : E(p) # {}}
                               \cup (IF restriction = {} THEN {} ELSE {"owl:Restriction"}))
  IN  Go(UniqueEdges(m, subject, ClassConstructors), LAMBDA m1 : Marked(m1, Typed(m, subject, "owl:Restriction")))

DecodeBlank(m, label) ==
  LET Left(r) == Ret([r.m EXCEPT !.active = Front(@)], r.n)
      Enter(m1) ==
        CASE label \in Range(m.active) -> Err(m1, "UNSUPPORTED")
          [] Len(m.active) + 1 > MaxNestingDepth -> Err(m1, "LIMIT")
          [] OTHER -> Left(DecodeConstructor([m1 EXCEPT !.active = Append(@, label)], Bl(label)))
  IN  Go(ClaimBlank(m, label, "expression"), Enter)

DecodeTerm(m, term) ==
  CASE Failed(m) -> Ret(m, None)
    [] IsIri(term) -> Ret(m, Entity("class", term[2]))
    [] IsBlank(term) -> DecodeBlank(m, term[2])
    [] IsLit(term) -> Err(m, "UNSUPPORTED")

-----------------------------------------------------------------------------
(* Collections of decoded members.                                         *)

DecodeIndividualCollection(m, head) == DecodeMembers(m, head, DecodeIndividual)
DecodeClassCollection(m, head) == DecodeMembers(m, head, DecodeTerm)
DecodeObjectPropertyCollection(m, head) == DecodeMembers(m, head, DecodeObjectProperty)

IsDataMember(m, item) == IsIri(item) /\ item[2] \in m.dataProps

\* All members registered data properties, or all object property expressions.
DecodePropertyCollection(m, head) ==
  LET Of(d, data) ==
        LET Member(acc, item) == IF data THEN NamedDataProperty(acc, item) ELSE DecodeObjectProperty(acc, item)
        IN  Then(DecodeEach(Member, d.m, d.n.items), LAMBDA q : Ret(q.m, [data |-> data, nodes |-> q.n]))
  IN  Then(DecodeRawCollection(m, head), LAMBDA d : Of(d, \A k \in DOMAIN d.n.items : IsDataMember(m, d.n.items[k])))

\* A key keeps its object and its data properties apart.
DecodeKeyCollection(m, head) ==
  DecodeMembers(m, head, LAMBDA acc, item : IF IsDataMember(m, item) THEN NamedDataProperty(acc, item)
                                            ELSE DecodeObjectProperty(acc, item))
=============================================================================
