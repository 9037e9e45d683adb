------------------------------ MODULE OwlMeaning ------------------------------
(***************************************************************************)
(* What a structural document says, and how each syntax writes it down:    *)
(* the reference for FunctionalParser and OwlXmlParser.                    *)
(*                                                                         *)
(* A document has prefixes, up to two IRIs and members.  A tree is a leaf, *)
(* or a constructor c over arguments, with annotations where the syntax    *)
(* has them.  An IRI is written in full or with a prefix p.                *)
(***************************************************************************)
EXTENDS FunctionalParser, OwlXmlParser

Direct(v) == [p |-> None, v |-> v]
Prefixed(p, v) == [p |-> p, v |-> v]
NamedAs(kind, ref) == [c |-> kind, iri |-> ref]
AnonymousAs(label) == [c |-> "Anonymous", label |-> label]
LiteralAs(lexical, lang, type) == [c |-> "Literal", lexical |-> lexical, lang |-> lang, type |-> type]
NumberAs(n) == [c |-> "Number", n |-> n]
FacetAs(iri, value) == [c |-> "FacetRestriction", iri |-> iri, args |-> <<value>>, ann |-> <<>>]
Tree(c, args) == [c |-> c, args |-> args, ann |-> <<>>]
Annotated(c, ann, args) == [c |-> c, args |-> args, ann |-> ann]

Leaves == EntityKinds \cup {"IRI", "Import", "Anonymous", "Literal", "Number"}
IsTree(t) == t.c \notin Leaves

-----------------------------------------------------------------------------
(* The grammar: the sorts of the fixed arguments, and the sort of the rest  *)
(* with the least number written and the least number distinct.             *)

Takes(fixed) == [fixed |-> fixed, rest |-> "none", written |-> 0, distinct |-> 0]
TakesMany(fixed, rest, written, distinct) ==
  [fixed |-> fixed, rest |-> rest, written |-> written, distinct |-> distinct]

ClassTrees == ClassConstructors
RangeTrees == RangeConstructors
Signature(c) ==
  CASE c \in {"ObjectIntersectionOf", "ObjectUnionOf", "DisjointClasses"} -> TakesMany(<<>>, "class", 2, 1)
    [] c \in {"DataIntersectionOf", "DataUnionOf"} -> TakesMany(<<>>, "range", 2, 1)
    [] c = "ObjectComplementOf" -> Takes(<<"class">>)
    [] c = "DataComplementOf" -> Takes(<<"range">>)
    [] c = "ObjectOneOf" -> TakesMany(<<>>, "individual", 1, 1)
    [] c = "DataOneOf" -> TakesMany(<<>>, "literal", 1, 1)
    [] c = "DatatypeRestriction" -> TakesMany(<<"Datatype">>, "facet", 1, 1)
    [] c = "FacetRestriction" -> Takes(<<"literal">>)
    [] c \in {"ObjectSomeValuesFrom", "ObjectAllValuesFrom", "ObjectPropertyDomain", "ObjectPropertyRange"} ->
         Takes(<<"property", "class">>)
    [] c = "ObjectHasValue" -> Takes(<<"property", "individual">>)
    [] c = "DataHasValue" -> Takes(<<"DataProperty", "literal">>)
    [] c = "ObjectInverseOf" -> Takes(<<"ObjectProperty">>)
    [] c = "ObjectPropertyChain" -> TakesMany(<<>>, "property", 2, 1)
    [] c = "Declaration" -> Takes(<<"entity">>)
    [] c = "SubClassOf" -> Takes(<<"class", "class">>)
    [] c = "EquivalentClasses" -> TakesMany(<<>>, "class", 2, 2)
    [] c = "DisjointUnion" -> TakesMany(<<"Class">>, "class", 2, 2)
    [] c = "SubObjectPropertyOf" -> Takes(<<"chain", "property">>)
    [] c \in {"EquivalentObjectProperties", "DisjointObjectProperties"} -> TakesMany(<<>>, "property", 2, 2)
    [] c = "InverseObjectProperties" -> Takes(<<"property", "property">>)
    [] c \in {"EquivalentDataProperties", "DisjointDataProperties"} -> TakesMany(<<>>, "DataProperty", 2, 2)
    [] c = "SubDataPropertyOf" -> Takes(<<"DataProperty", "DataProperty">>)
    [] c = "DataPropertyDomain" -> Takes(<<"DataProperty", "class">>)
    [] c = "DataPropertyRange" -> Takes(<<"DataProperty", "range">>)
    [] c = "FunctionalDataProperty" -> Takes(<<"DataProperty">>)
    [] c = "DatatypeDefinition" -> Takes(<<"Datatype", "range">>)
    [] c = "HasKey" -> TakesMany(<<"class">>, "key", 1, 1)
    [] c \in {"SameIndividual", "DifferentIndividuals"} -> TakesMany(<<>>, "individual", 2, 2)
    [] c = "ClassAssertion" -> Takes(<<"class", "individual">>)
    [] c \in {"ObjectPropertyAssertion", "NegativeObjectPropertyAssertion"} ->
         Takes(<<"property", "individual", "individual">>)
    [] c \in {"DataPropertyAssertion", "NegativeDataPropertyAssertion"} ->
         Takes(<<"DataProperty", "individual", "literal">>)
    [] c = "AnnotationAssertion" -> Takes(<<"AnnotationProperty", "subject", "value">>)
    [] c = "SubAnnotationPropertyOf" -> Takes(<<"AnnotationProperty", "AnnotationProperty">>)
    [] c \in {"AnnotationPropertyDomain", "AnnotationPropertyRange"} -> Takes(<<"AnnotationProperty", "IRI">>)
    [] c = "Annotation" -> Takes(<<"AnnotationProperty", "value">>)
    [] c = "ClassAtom" -> Takes(<<"class", "iarg">>)
    [] c = "DataRangeAtom" -> Takes(<<"range", "darg">>)
    [] c = "ObjectPropertyAtom" -> Takes(<<"property", "iarg", "iarg">>)
    [] c = "DataPropertyAtom" -> Takes(<<"DataProperty", "iarg", "darg">>)
    [] c = "BuiltInAtom" -> TakesMany(<<"IRI">>, "darg", 0, 0)
    [] c \in {"SameIndividualAtom", "DifferentIndividualsAtom"} -> Takes(<<"iarg", "iarg">>)
    [] c = "Variable" -> Takes(<<"IRI">>)
    [] OTHER -> Takes(<<"property">>)  \* ObjectHasSelf and the characteristics

SortsOf(t) ==
  CASE t.c = "Class" -> {"Class", "class", "entity"}
    [] t.c = "Datatype" -> {"Datatype", "range", "entity"}
    [] t.c = "ObjectProperty" -> {"ObjectProperty", "property", "chain", "key", "entity"}
    [] t.c = "DataProperty" -> {"DataProperty", "key", "entity"}
    [] t.c = "AnnotationProperty" -> {"AnnotationProperty", "entity"}
    [] t.c = "NamedIndividual" -> {"individual", "iarg", "entity"}
    [] t.c = "Anonymous" -> {"individual", "iarg", "subject", "value"}
    [] t.c = "IRI" -> {"IRI", "subject", "value"}
    [] t.c = "Literal" -> {"literal", "darg", "value"}
    [] t.c = "Variable" -> {"iarg", "darg"}
    [] t.c = "ObjectInverseOf" -> {"property", "chain", "key"}
    [] t.c = "ObjectPropertyChain" -> {"chain"}
    [] t.c = "FacetRestriction" -> {"facet"}
    [] t.c \in ClassTrees -> {"class"}
    [] t.c \in RangeTrees -> {"range"}
    [] OTHER -> {}

Cardinalities == ObjectCardinalities \cup DataCardinalities
CardinalitySorts(c) == IF c \in ObjectCardinalities THEN <<"property", "class">> ELSE <<"DataProperty", "range">>

SignatureFits(t) ==
  LET s == Signature(t.c)
      n == Len(s.fixed)
      keys == CardinalitySorts(t.c)
  IN  IF t.c \in Cardinalities THEN
        /\ Len(t.args) \in 2..3 /\ t.args[1].c = "Number"
        /\ \A i \in 2..Len(t.args) : keys[i - 1] \in SortsOf(t.args[i])
      ELSE IF t.c \in Quantified THEN
        /\ Len(t.args) >= 2 /\ "range" \in SortsOf(Last(t.args))
        /\ \A i \in 1..Len(t.args) - 1 : t.args[i].c = "DataProperty"
      ELSE
        /\ Len(t.args) >= n + s.written /\ (s.rest = "none" => Len(t.args) = n)
        /\ \A i \in DOMAIN t.args : (IF i <= n THEN s.fixed[i] ELSE s.rest) \in SortsOf(t.args[i])

-----------------------------------------------------------------------------
(* Meaning                                                                  *)

Binding(doc, p) ==
  LET last == {i \in DOMAIN doc.prefixes : doc.prefixes[i][1] = p}
  IN  IF last # {} THEN doc.prefixes[Max(last)][2] ELSE IF p \in 1..4 THEN <<p>> ELSE None
InFull(doc, ref) ==
  IF ref.p = None THEN ref.v
  ELSE IF Binding(doc, ref.p) = None THEN None ELSE Binding(doc, ref.p) \o ref.v

Flattened(c, nodes) == UNION {IF m[1] = c THEN m[2][1] ELSE {m} : m \in nodes}
Only(s) == CHOOSE x \in s : TRUE

RECURSIVE Denoted(_, _)
NodesFor(doc, trees) == [i \in DOMAIN trees |-> Denoted(doc, trees[i])]
Denoted(doc, t) ==
  CASE t.c \in EntityKinds -> Entity(t.c, IriNode(InFull(doc, t.iri)))
    [] t.c = "IRI" -> IriNode(InFull(doc, t.iri))
    [] t.c = "Anonymous" -> AnonymousNode(t.label)
    [] t.c = "Literal" ->
         LiteralNode(t.lexical, IF t.lang # None \/ t.type = None THEN RdfPlainLiteral ELSE Entity("Datatype", IriNode(InFull(doc, t.type))),
                     IF t.lang = "EN" THEN "en" ELSE t.lang)
    [] t.c = "Number" -> t.n
    [] OTHER ->
      LET fields == NodesFor(doc, t.args)
          n == Len(Signature(t.c).fixed)
          rest == Range(SubSeq(fields, n + 1, Len(fields)))
          KeysOf(kinds) == {fields[i] : i \in {j \in 2..Len(fields) : t.args[j].c \in kinds}}
          annotations == Range(NodesFor(doc, t.ann))
          Plain(f) == <<t.c, IF t.c \in DOMAIN AxiomForms \cup {"Annotation"} THEN Append(f, annotations) ELSE f>>
      IN  CASE t.c \in Idempotent ->
                 LET Of(m) == IF Cardinality(m) = 1 THEN Only(m) ELSE <<t.c, <<m>>>> IN Of(Flattened(t.c, rest))
            [] t.c \in Cardinalities ->
                 <<t.c, <<fields[1], fields[2], IF Len(fields) = 3 THEN fields[3]
                                                ELSE IF t.c \in ObjectCardinalities THEN OwlThing ELSE RdfsLiteral>>>>
            [] t.c \in Quantified -> <<t.c, <<Front(fields), Last(fields)>>>>
            [] t.c \in {"ObjectPropertyChain", "BuiltInAtom"} ->
                 <<t.c, Append(SubSeq(fields, 1, n), SubSeq(fields, n + 1, Len(fields)))>>
            [] t.c = "FacetRestriction" -> <<t.c, <<IriNode(InFull(doc, t.iri)), fields[1]>>>>
            [] t.c = "HasKey" -> Plain(<<fields[1], KeysOf(PropertyKinds), KeysOf({"DataProperty"})>>)
            [] t.c = "InverseObjectProperties" /\ PropertyBefore(fields[2], fields[1]) -> Plain(<<fields[2], fields[1]>>)
            [] Signature(t.c).rest # "none" -> Plain(Append(SubSeq(fields, 1, n), rest))
            [] OTHER -> Plain(fields)

\* A rule has two sequences of atoms.
RuleNode(doc, t) ==
  <<"SWRLRule", <<Range(NodesFor(doc, t.body)), Range(NodesFor(doc, t.head)), Range(NodesFor(doc, t.ann))>>>>

\* The rows of an axiom, as a set: disjoint classes make several.
RowsOf(doc, t) ==
  LET Disjoint(nodes, annotations) ==
        {<<"SubClassOf", <<x, OwlNothing, annotations>>>> :
           x \in {x \in Range(nodes) : Cardinality({i \in DOMAIN nodes : nodes[i] = x}) > 1}}
        \cup (IF Cardinality(Range(nodes)) > 1 THEN {<<"DisjointClasses", <<Range(nodes), annotations>>>>} ELSE {})
  IN  IF t.c # "DisjointClasses" THEN {Denoted(doc, t)}
      ELSE Disjoint(NodesFor(doc, t.args), Range(NodesFor(doc, t.ann)))

-----------------------------------------------------------------------------
(* Validity                                                                 *)

RECURSIVE Subtrees(_)
Subtrees(t) ==
  {t} \cup (IF ~ IsTree(t) THEN {}
            ELSE UNION {Subtrees(x) : x \in Range(t.ann)} \cup
                 UNION {Subtrees(x) : x \in IF t.c = "SWRLRule" THEN Range(t.body) \cup Range(t.head) ELSE Range(t.args)})

RefsIn(t) ==
  CASE t.c = "Literal" -> IF t.lang # None \/ t.type = None THEN {} ELSE {t.type}
    [] t.c \in EntityKinds \cup {"IRI", "FacetRestriction", "Import"} -> {t.iri}
    [] OTHER -> {}
AxiomTrees == DOMAIN AxiomForms \cup {"DisjointClasses"}
MemberTrees(doc) == UNION {Subtrees(doc.members[i]) : i \in DOMAIN doc.members}
IrisOf(doc) == {InFull(doc, r) : r \in Range(doc.head) \cup UNION {RefsIn(t) : t \in MemberTrees(doc)}}

WellFormed(doc, t) ==
  CASE t.c = "Anonymous" -> t.label # ""
    [] t.c = "Literal" -> t.lang # "bad"
    [] ~ IsTree(t) -> TRUE
    [] t.c = "SWRLRule" -> \A x \in Range(t.body) \cup Range(t.head) : x.c \in DOMAIN AtomForms
    [] OTHER ->
         LET s == Signature(t.c)
             gathered == SubSeq(t.args, Len(s.fixed) + 1, Len(t.args))
         IN  SignatureFits(t) /\ Cardinality(Range(NodesFor(doc, gathered))) >= s.distinct

\* Only the XML parser looks at what an IRI is, and it knows no rules.
ValidOwl(doc) ==
  /\ None \notin IrisOf(doc)
  /\ job.format = "owlxml" => \A iri \in IrisOf(doc) \cup {b[2] : b \in Range(doc.prefixes)} : ValidIri(iri)
  /\ \A t \in MemberTrees(doc) : WellFormed(doc, t)
  /\ \A i \in DOMAIN doc.members :
       \/ doc.members[i].c \in AxiomTrees \cup {"Import", "Annotation"}
       \/ doc.members[i].c = "SWRLRule" /\ job.format = "functional" /\ job.allowSwrl

-----------------------------------------------------------------------------
(* Functional-Style text, as tokens                                         *)

FTok(k, v) == [k |-> k, v |-> v]
FMark(k) == FTok(k, None)
FCall(name, tokens) == <<FTok("word", name), FMark("(")>> \o tokens \o <<FMark(")")>>
FParens(tokens) == <<FMark("(")>> \o tokens \o <<FMark(")")>>
FIri(ref) == IF ref.p = None THEN <<FTok("iri", ref.v)>> ELSE <<FTok("pname", <<ref.p, ref.v>>)>>

RECURSIVE FTokens(_)
FAll(trees) == FlattenSeq([i \in DOMAIN trees |-> FTokens(trees[i])])
FTokens(t) ==
  CASE t.c \in EntityKinds \cup {"IRI"} -> FIri(t.iri)
    [] t.c = "Anonymous" -> <<FTok("blank", t.label)>>
    [] t.c = "Number" -> <<FTok("integer", t.n)>>
    [] t.c = "Literal" -> <<FTok("string", t.lexical)>> \o
         (IF t.lang # None THEN <<FTok("lang", t.lang)>>
          ELSE IF t.type # None THEN <<FMark("hat")>> \o FIri(t.type) ELSE <<>>)
    [] t.c = "FacetRestriction" -> FIri(t.iri) \o FAll(t.args)
    [] t.c = "Import" -> FCall(t.c, FIri(t.iri))
    [] t.c = "Declaration" ->
         FCall(t.c, FAll(t.ann) \o FlattenSeq([i \in DOMAIN t.args |-> FCall(t.args[i].c, FTokens(t.args[i]))]))
    [] t.c = "HasKey" ->
         LET Keys(kinds) == SelectSeq(Tail(t.args), LAMBDA x : x.c \in kinds)
         IN  FCall(t.c, FAll(t.ann) \o FTokens(t.args[1]) \o FParens(FAll(Keys(PropertyKinds)))
                        \o FParens(FAll(Keys({"DataProperty"}))))
    [] t.c = "SWRLRule" -> FCall(t.c, FAll(t.ann) \o FParens(FAll(t.body)) \o FParens(FAll(t.head)))
    [] OTHER -> FCall(t.c, FAll(t.ann) \o FAll(t.args))

FPrefix(b) ==
  LET name == IF b[1] = Underscore THEN FTok("blank", "") ELSE FTok("pname", <<b[1], <<>>>>)
  IN  FCall("Prefix", <<name, FMark("="), FTok("iri", b[2])>>)
FunctionalTokens(doc) ==
  FlattenSeq([i \in DOMAIN doc.prefixes |-> FPrefix(doc.prefixes[i])])
  \o FCall("Ontology", FlattenSeq([i \in DOMAIN doc.head |-> FIri(doc.head[i])]) \o FAll(doc.members))
  \o <<FMark("eof")>>

-----------------------------------------------------------------------------
(* OWL/XML, as events                                                       *)

XAttr(local, value) == [name |-> <<"", local>>, val |-> value]
XStart(name, attrs) == [k |-> "start", name |-> <<"", name>>, attrs |-> attrs, empty |-> FALSE]
XEnd(name) == [k |-> "end", name |-> <<"", name>>]
XEmpty(name, attrs) == <<[XStart(name, attrs) EXCEPT !.empty = TRUE]>>
XText(value) == <<[k |-> "text", value |-> value]>>
XBlock(name, attrs, content) == <<XStart(name, attrs)>> \o content \o <<XEnd(name)>>
XIri(ref, direct, abbreviated) ==
  IF ref.p = None THEN <<XAttr(direct, ref.v)>> ELSE <<XAttr(abbreviated, <<ref.p, Colon>> \o ref.v)>>

RECURSIVE XEvents(_, _)
XAll(doc, trees) == FlattenSeq([i \in DOMAIN trees |-> XEvents(doc, trees[i])])
XEvents(doc, t) ==
  CASE t.c \in EntityKinds -> XEmpty(t.c, XIri(t.iri, "IRI", "abbreviatedIRI"))
    [] t.c = "IRI" ->
         IF t.iri.p = None THEN XBlock("IRI", <<>>, XText(<<0>> \o t.iri.v) \o XText(<<0>>))
         ELSE XBlock("AbbreviatedIRI", <<>>, XText(<<t.iri.p, Colon>> \o t.iri.v))
    [] t.c = "Anonymous" -> XEmpty("AnonymousIndividual", <<XAttr("nodeID", t.label)>>)
    [] t.c = "Literal" ->
         XBlock("Literal", (IF t.lang = "en" THEN <<[name |-> <<"xml", "lang">>, val |-> t.lang]>>
                            ELSE IF t.lang # None THEN <<XAttr("lang", t.lang)>> ELSE <<>>)
                           \o (IF t.type # None THEN <<XAttr("datatypeIRI", InFull(doc, t.type))>> ELSE <<>>),
                XText(t.lexical))
    [] t.c = "FacetRestriction" -> XBlock(t.c, <<XAttr("facet", InFull(doc, t.iri))>>, XAll(doc, t.args))
    [] t.c = "Import" -> XBlock(t.c, <<>>, XText(InFull(doc, t.iri)))
    [] t.c \in Cardinalities -> XBlock(t.c, <<XAttr("cardinality", t.args[1].n)>>, XAll(doc, Tail(t.args)))
    [] OTHER -> XBlock(t.c, <<>>, XAll(doc, t.ann) \o XText(<<0>>) \o XAll(doc, t.args))

XPrefix(b) == XEmpty("Prefix", <<XAttr("name", <<b[1], Colon>>), XAttr("IRI", b[2])>>)
OwlBinding == [name |-> <<"xmlns", "">>, val |-> "owl"]
XHead(doc) ==
  [i \in DOMAIN doc.head |-> XAttr(IF i = 1 THEN "ontologyIRI" ELSE "versionIRI", InFull(doc, doc.head[i]))]
OwlXmlEvents(doc) ==
  XBlock("Ontology", <<OwlBinding>> \o XHead(doc),
         FlattenSeq([i \in DOMAIN doc.prefixes |-> XPrefix(doc.prefixes[i])]) \o XAll(doc, doc.members))

-----------------------------------------------------------------------------
(* How large a document is, by the limit that bounds it                     *)

Greatest(s) == Max({0} \cup s)
Nesting(items, opens, closes) ==
  Greatest({Cardinality({j \in 1..i : items[j].k = opens}) - Cardinality({j \in 1..i - 1 : items[j].k = closes}) :
              i \in {n \in DOMAIN items : items[n].k = opens}})
\* An empty element opens and closes.
XNesting(items) ==
  LET Opened(i) == Cardinality({j \in 1..i : items[j].k = "start" /\ ~ items[j].empty})
      Ended(i) == Cardinality({j \in 1..i : items[j].k = "end"})
  IN  Greatest({Opened(i - 1) - Ended(i - 1) + 1 : i \in {n \in DOMAIN items : items[n].k = "start"}})

\* Functional-Style counts the members of a list, OWL/XML every child.
Lists(t) ==
  LET OfKind(kinds) == Cardinality({i \in 2..Len(t.args) : t.args[i].c \in kinds})
  IN  CASE t.c = "HasKey" -> {OfKind(PropertyKinds), OfKind({"DataProperty"})}
        [] t.c = "SWRLRule" -> {Len(t.body), Len(t.head)}
        [] t.c \in Quantified -> {Len(t.args) - 1}
        [] t.c \notin Cardinalities /\ Signature(t.c).rest # "none" -> {Len(t.args) - Len(Signature(t.c).fixed)}
        [] OTHER -> {}
XChildren(t) == Len(t.ann) + Len(t.args) - (IF t.c \in Cardinalities THEN 1 ELSE 0)

InnerTrees(doc) == {t \in MemberTrees(doc) : IsTree(t)}
AxiomRows(doc) ==
  LET axioms == SelectSeq(doc.members, LAMBDA t : t.c \in AxiomTrees)
  IN  FoldLeft(LAMBDA n, t : n + Cardinality(RowsOf(doc, t)), 0, axioms)
\* With a source map, OWL/XML counts the default namespace.
DeclaredPrefixes(doc) ==
  IF doc.prefixes # <<>> THEN Cardinality(1..4 \cup {b[1] : b \in Range(doc.prefixes)})
  ELSE IF job.format = "owlxml" /\ job.sourceMap THEN 1 ELSE 0

SizeOf(doc, limit) ==
  LET xml == job.format = "owlxml"
  IN  CASE limit = "depth" -> IF xml THEN XNesting(job.items) ELSE Nesting(job.items, "(", ")")
        [] limit = "arity" -> Greatest(IF xml THEN {XChildren(t) : t \in InnerTrees(doc)}
                                       ELSE UNION {Lists(t) : t \in InnerTrees(doc)})
        [] limit = "annotations" -> Greatest({Len(t.ann) : t \in InnerTrees(doc)})
        [] limit = "axioms" -> AxiomRows(doc)
        [] limit = "iri" -> Greatest({Len(iri) : iri \in IrisOf(doc) \cup {b[2] : b \in Range(doc.prefixes)}})
        [] limit = "prefixes" -> DeclaredPrefixes(doc)
        [] limit = "atoms" ->
             Greatest({Cardinality(Range(NodesFor(doc, atoms))) :
               atoms \in UNION {{t.body, t.head} : t \in {x \in Range(doc.members) : x.c = "SWRLRule"}}})
        [] limit = "terms" -> IF xml THEN Cardinality({i \in DOMAIN job.items : job.items[i].k = "start"}) ELSE 0
        [] limit = "literal" -> IF xml THEN Greatest({Len(t.lexical) : t \in {x \in MemberTrees(doc) : x.c = "Literal"}}) ELSE 0
OwlTooLarge(doc) == \E limit \in DOMAIN job.limits : SizeOf(doc, limit) > job.limits[limit]

-----------------------------------------------------------------------------
(* What an accepted document must have become                               *)

RowNodes(rows) == [i \in DOMAIN rows |-> rows[i].node]
Members(doc, kinds) == SelectSeq(doc.members, LAMBDA t : t.c \in kinds)
SameRows(rows, expected) == Range(rows) = UNION Range(expected) /\ Len(rows) = FoldLeft(LAMBDA n, s : n + Cardinality(s), 0, expected)
RowsExpected(doc) ==
  LET axioms == Members(doc, AxiomTrees) IN [i \in DOMAIN axioms |-> RowsOf(doc, axioms[i])]
ImportsExpected(doc) == LET m == Members(doc, {"Import"}) IN [i \in DOMAIN m |-> InFull(doc, m[i].iri)]

OwlRowsAreMeaning(doc) ==
  LET xml == job.format = "owlxml"
      annotations == NodesFor(doc, Members(doc, {"Annotation"}))
      heads == [i \in DOMAIN doc.head |-> InFull(doc, doc.head[i])]
      rules == Members(doc, {"SWRLRule"})
  IN  /\ SameRows(IF xml THEN parser.axioms ELSE RowNodes(parser.axioms), RowsExpected(doc))
      /\ annotations = IF xml THEN parser.annotations ELSE RowNodes(parser.annotations)
      /\ heads = IF xml THEN parser.ontology \o parser.version
                 ELSE [i \in DOMAIN parser.ontology |-> parser.ontology[i][2][1]]
      /\ ImportsExpected(doc) = IF xml THEN parser.imports ELSE [i \in DOMAIN parser.imports |-> parser.imports[i][2][1]]
      /\ ~ xml => RowNodes(parser.extensions) = [i \in DOMAIN rules |-> RuleNode(doc, rules[i])]

\* Where member i stands among the tokens.
SpanOf(doc, i) ==
  LET After(before) == <<before + 1, before + Len(FTokens(doc.members[i]))>>
  IN  After(Len(FlattenSeq([j \in DOMAIN doc.prefixes |-> FPrefix(doc.prefixes[j])])) + 2 + Len(doc.head)
            + Len(FAll(SubSeq(doc.members, 1, i - 1))))
Spanned(doc, kinds) ==
  UNION {{[node |-> n, span |-> SpanOf(doc, i)] :
            n \in IF doc.members[i].c = "SWRLRule" THEN {RuleNode(doc, doc.members[i])} ELSE RowsOf(doc, doc.members[i])} :
         i \in {j \in DOMAIN doc.members : doc.members[j].c \in kinds}}

RECURSIVE LanguagesOf(_)
LanguagesOf(t) ==
  IF t.c = "Literal" THEN IF t.lang = None THEN <<>> ELSE <<t.lang>>
  ELSE IF ~ IsTree(t) THEN <<>>
  ELSE LET parts == t.ann \o (IF t.c = "SWRLRule" THEN t.body \o t.head ELSE t.args)
       IN  FlattenSeq([i \in DOMAIN parts |-> LanguagesOf(parts[i])])

OwlSourceMap(doc) ==
  LET languages == FlattenSeq([i \in DOMAIN doc.members |-> LanguagesOf(doc.members[i])])
      Kept(collection) == SelectSeq(parser.occurrences, LAMBDA o : o[1] = collection)
  IN  /\ parser.spellings = IF job.sourceMap THEN languages ELSE <<>>
      /\ \A n \in DOMAIN parser.prefixes :
           parser.prefixes[n] = Binding(doc, IF job.format = "owlxml" THEN n[1] ELSE n)
      /\ job.format = "functional" =>
           \A kept \in {<<AxiomTrees, parser.axioms>>, <<{"Annotation"}, parser.annotations>>,
                        <<{"SWRLRule"}, parser.extensions>>} : Range(kept[2]) = Spanned(doc, kept[1])
      /\ job.format = "owlxml" =>
           /\ Kept("axioms") = IF job.sourceMap THEN [i \in DOMAIN parser.axioms |-> <<"axioms", parser.axioms[i]>>] ELSE <<>>
           /\ Kept("annotations") =
                IF job.sourceMap THEN [i \in DOMAIN parser.annotations |-> <<"annotations", parser.annotations[i]>>] ELSE <<>>
           /\ parser.sourcePrefixes = IF job.sourceMap THEN "" :> "owl" ELSE <<>>

-----------------------------------------------------------------------------
(* The tokens of a text                                                     *)

LinesBefore(text, i) ==
  Cardinality({j \in 1..i - 1 : text[j] = "\r" \/ (text[j] = "\n" /\ CharAt(text, j - 1) # "\r")})
ColumnOf(text, i) == i - Max({0} \cup {j \in 1..i - 1 : text[j] \in LineEnds})
Skippable(text, from, to) ==
  \A i \in from..to : \/ text[i] \in Blankspace
                      \/ \E j \in from..i : text[j] = "#" /\ \A k \in j..i : text[k] \notin LineEnds
Quoting(value) == FlattenSeq([i \in DOMAIN value |-> IF value[i] \in {"quote", "\\"} THEN <<"\\", value[i]>> ELSE <<value[i]>>])

TokenFits(text, t) ==
  LET inner == SubSeq(text, t.start + 1, t.end - 2)
      whole == SubSeq(text, t.start, t.end - 1)
  IN  /\ t.line = 1 + LinesBefore(text, t.start) /\ t.column = ColumnOf(text, t.start)
      /\ t.kind = "string" => text[t.start] = "quote" /\ text[t.end - 1] = "quote" /\ inner = Quoting(t.value)
      /\ t.kind = "iri" => text[t.start] = "<" /\ text[t.end - 1] = ">" /\ Range(inner) \cap LineEnds = {}
      /\ t.kind \in {"word", "integer"} =>
           /\ Range(whole) \cap Delimiters = {} /\ (t.end > Len(text) \/ text[t.end] \in Delimiters)
           /\ (t.kind = "integer") = (Range(whole) = {"1"})
      /\ t.kind = "language" => text[t.start] = "@" /\ Range(Tail(whole)) \subseteq Alphanumeric \cup {"-"} /\ Last(whole) # "-"
TokensTile(text, tokens) ==
  LET Ends(i) == IF i = 0 THEN 1 ELSE tokens[i].end
  IN  /\ \A i \in DOMAIN tokens : /\ tokens[i].start >= Ends(i - 1) /\ tokens[i].end > tokens[i].start
                                  /\ Skippable(text, Ends(i - 1), tokens[i].start - 1)
                                  /\ TokenFits(text, tokens[i])
      /\ Skippable(text, Ends(Len(tokens)), Len(text))
=============================================================================
