--------------------------- MODULE MCSourceParsers ---------------------------
EXTENDS SourceParsers

-----------------------------------------------------------------------------
(* IRIs                                                                    *)

E(local) == Name(Namespace("e"), local)
BaseIri == Reference("http", "h", <<"", "a", "b">>, "q", None)
Relative(path) == Reference(None, None, path, None, None)

Segments == {"", ".", "..", "a"}
\* Not "//...", which is an authority.
Paths == {path \in UNION {[1..n -> Segments] : n \in 1..3} : Len(path) < 3 \/ path[1] # "" \/ path[2] # ""}
Bases == {Reference("http", h, path, q, None) :
            h \in {"h", None}, path \in {<<"", "">>, <<"", "b", "c">>, <<"", "b", "", "c">>}, q \in {None, "q"}}
         \cup {Reference("http", "h", EmptyPath, None, None)}
IriSuites ==
  {{[format |-> "iri", reference |-> Reference(None, None, path, q, f), base |-> b] :
     path \in Paths, q \in {None, "r"}, f \in {None, "f"}, b \in Bases},
         {[format |-> "iri", reference |-> Reference(s, h, path, None, None), base |-> b] :
     s \in {"http", None}, h \in {"i", None}, path \in {EmptyPath, <<"", "a", "..", "b">>},
     b \in {None, BaseIri}}}

-----------------------------------------------------------------------------
(* RDF/XML                                                                 *)

Attr(prefix, local, kind, value) == [name |-> <<prefix, local>>, kind |-> kind, value |-> value]
Bind(prefix, namespace) == Attr("xmlns", prefix, "iri", namespace)
About(iri) == Attr("rdf", "about", "iri", iri)
Resource(iri) == Attr("rdf", "resource", "iri", iri)
Id(n) == Attr("rdf", "ID", "token", n)
NodeId(n) == Attr("rdf", "nodeID", "token", n)
ParseType(t) == Attr("rdf", "parseType", "token", t)
Lang(l) == Attr("xml", "lang", "token", l)
Base(r) == Attr("xml", "base", "iri", r)
Chars(s) == [i \in DOMAIN s |-> <<"c", s[i]>>]

Element(prefix, local, attrs, kids) ==
  [k |-> "element", name |-> <<prefix, local>>, attrs |-> attrs, kids |-> kids, empty |-> kids = <<>>]
TextKid(raw) == [k |-> "text", value |-> raw]
CDataKid(raw) == [k |-> "cdata", value |-> raw]
CommentKid == [k |-> "comment", dashes |-> FALSE]
Instruction == [k |-> "pi", target |-> "t", attrs |-> <<>>]
Space == TextKid(<<<<"c", "\r">>, <<"c", "\n">>>>)
X == TextKid(<<<<"c", "x">>>>)

Named1 == Element("e", "C", <<About(E("i"))>>, <<>>)
Anon == Element("rdf", "Description", <<>>, <<>>)
Labelled == Element("rdf", "Description", <<NodeId("n")>>, <<>>)

P(attrs, kids) == Element("e", "p", attrs, kids)
Li(attrs, kids) == Element("rdf", "li", attrs, kids)

\* Content of XML literals: two namespaces, one of them bound inside.
LiteralKids == {
  <<X>>,
  <<TextKid(<<<<"r", "&">>, <<"c", "\r">>, <<"c", "\n">>>>), Element("e", "b", <<>>, <<X, CommentKid, TextKid(<<<<"r", "<">>>>)>>), X>>,
  <<Element("e", "b", <<Bind("e", Namespace("f")), Attr("e", "u", "text", <<<<"r", "\n">>, <<"c", "\t">>>>)>>,
            <<Element("e", "c", <<>>, <<>>)>>), Element("e", "d", <<>>, <<CDataKid(Chars(<<"&">>))>>)>>,
  <<Element("f", "b", <<Bind("f", Namespace("f")), Attr("rdf", "v", "text", Chars(<<"x">>))>>,
            <<Element("rdf", "c", <<Attr("f", "v", "text", <<>>), Attr("xml", "space", "text", <<>>)>>, <<>>)>>)>>,
  <<Element("", "b", <<Attr("", "about", "text", <<>>)>>, <<Element("", "c", <<Bind("", Namespace("e"))>>, <<>>)>>)>>,
  <<Element("f", "b", <<>>, <<>>)>>}

Properties ==
  UNION {{P(<<ParseType("Literal")>>, kids) : kids \in LiteralKids},
         {P(id \o attrs, <<>>) : id \in {<<>>, <<Id("s")>>},
          attrs \in {<<>>, <<Resource(E("o"))>>, <<NodeId("n")>>, <<ParseType("Resource")>>,
                     <<ParseType("Collection")>>, <<ParseType("Literal")>>,
                     <<Attr("e", "q", "text", Chars(<<"v">>))>>,
                     <<Resource(E("o")), Attr("e", "q", "text", Chars(<<"v">>)), Lang("EN")>>}},
         {P(id, <<Space, kid, CommentKid>>) : id \in {<<>>, <<Id("s")>>}, kid \in {Named1, Anon, Labelled}},
         {P(<<ParseType("Collection")>>, kids) :
          kids \in {<<Labelled>>, <<Anon, Space, Named1>>, <<Named1, Named1>>}},
         {P(<<ParseType("Resource")>>, <<Li(<<>>, <<X>>), Li(<<Lang("en")>>, <<X>>)>>),
        Li(<<>>, <<X>>), Li(<<Resource(E("o"))>>, <<>>),
        Li(<<>>, <<Element("rdf", "Seq", <<>>, <<Li(<<>>, <<X>>)>>)>>),
        P(<<Lang("EN")>>, <<X>>), P(<<Lang("")>>, <<X, Instruction, CDataKid(Chars(<<"<">>))>>),
        P(<<Attr("rdf", "datatype", "iri", Relative(<<"d">>))>>, <<X>>),
        P(<<Base(Relative(<<"..", "z">>)), Id("s")>>, <<X>>),
        P(<<Base(Relative(<<"", "y">>)), Attr("", "resource", "iri", Relative(<<"">>))>>, <<>>),
        Element("g", "p", <<Bind("g", Namespace("f")), Bind("e", Namespace("g"))>>,
                <<Element("e", "D", <<About(E("i"))>>, <<P(<<>>, <<X>>)>>)>>),
        Element("", "p", <<Bind("", Namespace("f"))>>, <<Element("", "D", <<Bind("", Namespace("g"))>>, <<>>)>>)}}

\* Properties that are not RDF/XML.
BadProperties ==
  {P(<<Resource(E("o"))>>, <<X>>), P(<<Resource(E("o"))>>, <<Named1>>), P(<<>>, <<X, Named1>>),
   P(<<>>, <<Named1, Anon>>), P(<<>>, <<Named1, X>>),
   P(<<Resource(E("o")), NodeId("n")>>, <<>>), P(<<NodeId("0")>>, <<>>), P(<<Id("0")>>, <<X>>),
   P(<<ParseType("Literal"), Attr("e", "q", "text", <<>>)>>, <<>>),
   P(<<ParseType("Resource")>>, <<X>>), P(<<ParseType("Collection")>>, <<X>>),
   P(<<ParseType("Literal")>>, <<Element("e", "b", <<Attr("z", "v", "text", <<>>)>>, <<>>)>>),
   P(<<ParseType("Literal")>>, <<Element("xi", "b", <<Bind("xi", XInclude)>>, <<>>)>>),
   P(<<Attr("rdf", "aboutEach", "text", <<>>)>>, <<>>), P(<<Attr("", "q", "text", <<>>)>>, <<>>),
   P(<<Attr("", "resource", "iri", E("o")), Resource(E("o"))>>, <<>>),
   P(<<Resource(E("o")), Resource(E("o"))>>, <<>>),
   P(<<Bind("g", Namespace("f")), Attr("g", "q", "text", <<>>), Bind("h", Namespace("f")), Attr("h", "q", "text", <<>>)>>, <<>>),
   P(<<Bind("xml", Namespace("f"))>>, <<>>), P(<<Bind("g", NoNamespace)>>, <<>>), P(<<Bind("g", XmlnsNs)>>, <<>>),
   P(<<>>, <<TextKid(<<<<"r", "entity">>>>)>>), P(<<>>, <<TextKid(<<<<"c", "&">>>>)>>),
   P(<<>>, <<[k |-> "comment", dashes |-> TRUE]>>), P(<<>>, <<[k |-> "pi", target |-> "xml", attrs |-> <<>>]>>),
   Element("z", "p", <<>>, <<>>), Element("", "p", <<>>, <<>>), Element("rdf", "Description", <<>>, <<>>),
   Element("rdf", "li", <<>>, <<Li(<<>>, <<>>)>>)}

Node(attrs, properties) == Element("rdf", "Description", attrs, properties)
RdfRoot(kids) ==
  Element("rdf", "RDF", <<Bind("rdf", RdfNs), Bind("e", Namespace("e")), Bind("", NoNamespace)>>, kids)

Doc(root) == [prolog |-> <<>>, root |-> root, epilog |-> <<>>]
Around(prolog, epilog) == [prolog |-> prolog, root |-> RdfRoot(<<Named1>>), epilog |-> epilog]

Trees ==
  UNION {{RdfRoot(<<Node(<<About(E("i"))>>, <<p, q>>)>>) : p, q \in Properties},
         {RdfRoot(<<Node(<<About(E("i"))>>, <<p, Space, q>>)>>) : p \in BadProperties, q \in {P(<<>>, <<X>>)}},
         {RdfRoot(<<Node(<<>>, <<p>>), Node(attrs, <<>>)>>) : p \in Properties,
          attrs \in {<<Id("s")>>, <<NodeId("n"), Attr("rdf", "type", "iri", Relative(<<"t">>))>>,
                     <<Id("t"), NodeId("n")>>, <<Base(Relative(<<"..", "z">>)), Id("s")>>,
                     <<Attr("", "type", "iri", E("C")), Attr("e", "q", "text", Chars(<<"v">>))>>}},
         {Element("e", "C", <<Bind("rdf", RdfNs), Bind("e", Namespace("e"))>>, <<p>>) : p \in Properties},
         {Element("e", "C", <<Bind("rdf", RdfNs)>>, <<>>), RdfRoot(<<X>>), RdfRoot(<<Element("rdf", "li", <<>>, <<>>)>>),
        [RdfRoot(<<Named1>>) EXCEPT !.attrs = Append(@, Attr("e", "q", "text", <<>>))]}}

Declaration(attrs) == [k |-> "pi", target |-> "xml", attrs |-> attrs]
Declarations1 ==
  {Declaration(<<<<"version", v>>>> \o rest) : v \in {"1.0", "1.1"},
     rest \in {<<>>, <<<<"encoding", "utf-16">>>>, <<<<"encoding", "utf-8">>, <<"standalone", "yes">>>>,
               <<<<"standalone", "no">>, <<"encoding", "utf-8">>>>, <<<<"standalone", "maybe">>>>}}
  \cup {Declaration(<<<<"encoding", "utf-8">>>>)}
Arounds ==
  {Around(<<d>>, <<>>) : d \in Declarations1}
  \cup {Around(<<Space, CommentKid, Instruction>>, <<CommentKid, Space, Instruction>>), Around(<<X>>, <<>>),
        Around(<<>>, <<X>>), Around(<<Space, Declaration(<<<<"version", "1.0">>>>)>>, <<>>),
        Around(<<[k |-> "pi", target |-> "XML", attrs |-> <<>>]>>, <<>>)}

Start(prefix, local) == [k |-> "start", name |-> <<prefix, local>>, attrs |-> <<>>, empty |-> FALSE]
EndOf(prefix, local) == [k |-> "end", name |-> <<prefix, local>>]
Broken ==
  LET whole == Markup(RdfRoot(<<Named1>>))
  IN  {<<>>, <<[k |-> "doctype"]>> \o whole, whole \o <<EndOf("rdf", "RDF")>>, whole \o Markup(Named1),
       Front(whole), Front(whole) \o <<EndOf("e", "RDF")>>, <<EndOf("rdf", "RDF")>>}

Roomy == [triples |-> 40, prefixes |-> 20, depth |-> 10, list |-> 10, literal |-> 20]
XmlJob(doc, items, base, sourceMap, limits) ==
  [format |-> "rdfxml", doc |-> doc, items |-> items, base |-> base, encoding |-> "utf8",
   sourceMap |-> sourceMap, limits |-> limits]
TreeJob(doc, base, sourceMap, limits) == XmlJob(doc, DocumentItems(doc), base, sourceMap, limits)

Large == RdfRoot(<<Node(<<About(E("i"))>>, <<P(<<ParseType("Collection"), Id("s")>>, <<Named1, Node(<<Bind("f", Namespace("f"))>>, <<Li(<<>>, <<X>>)>>)>>),
                                             P(<<Bind("g", Namespace("g"))>>, <<X>>)>>)>>)
Bounds == {[Roomy EXCEPT !.triples = n] : n \in 0..14} \cup {[Roomy EXCEPT !.depth = n] : n \in 0..6}
          \cup {[Roomy EXCEPT !.prefixes = n] : n \in 0..6} \cup {[Roomy EXCEPT !.list = n] : n \in 0..3}

RdfXmlSuites ==
  {{TreeJob(Doc(tree), BaseIri, TRUE, Roomy) : tree \in Trees},
         {TreeJob(doc, BaseIri, FALSE, Roomy) : doc \in Arounds},
         {TreeJob(Doc(Large), BaseIri, TRUE, limits) : limits \in Bounds},
         {TreeJob(Doc(RdfRoot(<<Node(<<>>, <<p>>)>>)), None, FALSE, Roomy) : p \in Properties},
         {XmlJob(None, items, BaseIri, TRUE, Roomy) : items \in Broken}}

-----------------------------------------------------------------------------
(* Turtle                                                                  *)

Texts(chars, n) == UNION {[1..k -> chars] : k \in 1..n}
LexSuites ==
  {{[format |-> "number", text |-> text] : text \in {t \in Texts({"+", "1", ".", "e", ";"}, 5) : t[1] \notin {".", ";"}}},
         {[format |-> "word", text |-> text] : text \in {t \in Texts({"a", ".", "\\", " "}, 5) : t[1] \notin {".", " "}}},
         UNION {{[format |-> "string", text |-> w, value |-> value] : w \in Spellings(value, width)} :
                value \in {<<>>} \cup Texts({"quote", "\\", "\n", "tab"}, 3), width \in {1, 3}}}

SNode == [k |-> "iri", v |-> E("s")]
PName(prefix, local) == [k |-> "pname", v |-> <<prefix, local>>]
Label(stem, n) == [k |-> "blank", v |-> <<stem, n>>]
Str(v, lang, type) == [k |-> "string", v |-> v, lang |-> lang, type |-> type]
AnonTerm(pairs) == [k |-> "anon", pairs |-> pairs]
ListTerm(values) == [k |-> "list", values |-> values]
Has(object) == <<<<Tok("pname", <<"e", "p">>), <<object>>>>>>
PrefixIs(at, name, iri) == [k |-> "prefix", at |-> at, name |-> name, iri |-> iri]
BaseIs(at, iri) == [k |-> "base", at |-> at, iri |-> iri]
Says(subject, pairs) == [k |-> "triples", subject |-> subject, pairs |-> pairs]

Hash(path) == Reference(None, None, path, None, "")
Number(text) == [k |-> "number", v |-> text]
SimpleTerms ==
  {SNode, PName("e", "o"), PName("f", "o"), [k |-> "iri", v |-> Relative(<<"..", "x">>)], Label("n", 0), Label("m", 0),
   Str(<<"x">>, None, None), Str(<<"x">>, "EN", None), Str(<<"x">>, None, Tok("pname", <<"e", "t">>)),
   Number(<<"1">>), Number(<<"1", ".", "1">>), Number(<<"1", "e", "1">>), [k |-> "word", v |-> "true"]}
NestedTerms ==
  {AnonTerm(<<>>), ListTerm(<<>>)} \cup {AnonTerm(Has(o)) : o \in SimpleTerms}
  \cup {ListTerm(<<Label("n", 0), o>>) : o \in {SNode, AnonTerm(<<>>)}}
  \cup {ListTerm(<<ListTerm(<<SNode>>)>>), AnonTerm(Has(AnonTerm(Has(Label("n", 0))))),
        AnonTerm(Has(SNode) \o <<<<Tok("word", "a"), <<SNode, Label("m", 0)>>>>>>)}

Preambles ==
  {<<PrefixIs(TRUE, "e", E("")), PrefixIs(FALSE, "f", E(""))>>,
   <<PrefixIs(FALSE, "e", Hash(<<"">>)), BaseIs(TRUE, Relative(<<"z", "">>)), PrefixIs(TRUE, "f", Hash(<<"y">>))>>,
   <<PrefixIs(TRUE, "e", E("")), BaseIs(FALSE, E("")), PrefixIs(TRUE, "e", Hash(<<"">>)), PrefixIs(FALSE, "f", E(""))>>}
Preambles1 == <<<<PrefixIs(TRUE, "e", E("")), PrefixIs(FALSE, "f", E(""))>>>>
TurtleDocs ==
  UNION {{pre \o <<Says(s, Has(o))>> : pre \in Preambles, s \in {SNode, Label("m", 0)}, o \in SimpleTerms \cup NestedTerms},
         {Head(Preambles1) \o <<Says(s, Has(o)), Says(Label("n", 0), Has(Label("m", 0)))>> :
          s \in {x \in NestedTerms : x.k = "list" \/ x.pairs # <<>>}, o \in {SNode, AnonTerm(<<>>)}},
         {<<PrefixIs(TRUE, "e", E("")), Says(SNode, Has(SNode)), PrefixIs(TRUE, "e", Hash(<<"">>)), PrefixIs(FALSE, "f", E("")),
          Says(SNode, Has(o))>> : o \in SimpleTerms}}

TurtleJob(doc, items, base, limits) ==
  [format |-> "turtle", doc |-> doc, items |-> items, base |-> base, sourceMap |-> base # None,
   limits |-> limits]
DocJob(doc, base, limits) == TurtleJob(doc, TurtleTokens(doc), base, limits)

Alphabet == {Mark(t) : t \in {".", ";", ",", "[", "]", "(", ")"}} \cup {Tok("iri", E("s"))}
SentenceSets ==
  {{<<Tok("iri", E("s")), Tok("iri", E("p"))>> \o rest : rest \in {<<>>} \cup Texts(Alphabet, 4)},
         {<<Tok("iri", E("s")), Tok("iri", E("p")), open, Tok("iri", E("p"))>> \o rest : open \in {Mark("["), Mark("(")},
                                                                                rest \in Texts(Alphabet, 3)},
         Texts({Tok("directive", "prefix"), Tok("word", "prefix"), Tok("directive", "base"), Tok("word", "base"),
              Tok("pname", <<"e", "">>), Tok("iri", E("s")), Mark(".")}, 4),
         {<<Tok("iri", E("s")), verb>> \o rest \o <<Mark(".")>> : verb \in {Tok("word", "a"), Tok("word", "true")},
          rest \in Texts({Tok("string", <<>>), Tok("lang", "en"), Mark("hat"), Tok("iri", E("s")), Tok("word", "a"),
                         Tok("word", "true"), Tok("number", <<"1">>), Tok("blank", <<"n", 0>>)}, 3)},
         {<<Tok("directive", "prefix"), Tok("pname", <<"e", "x">>), Tok("iri", E("s")), Mark(".")>>}}

Sized == <<PrefixIs(TRUE, "e", E("")), PrefixIs(FALSE, "f", E("")), PrefixIs(TRUE, "e", E("")),
           Says(ListTerm(<<SNode, AnonTerm(Has(SNode)), SNode>>), Has(SNode) \o Has(ListTerm(<<SNode, SNode>>)) \o Has(SNode))>>
TurtleSuites ==
  {{DocJob(doc, BaseIri, Roomy) : doc \in TurtleDocs},
         {DocJob(doc, None, Roomy) : doc \in {Head(Preambles1) \o <<Says(SNode, Has(o))>> : o \in SimpleTerms}},
         {DocJob(Sized, BaseIri, limits) : limits \in Bounds}}
  \cup {{TurtleJob(None, items, BaseIri, Roomy) : items \in sentences} : sentences \in SentenceSets}

-----------------------------------------------------------------------------
(* Structural syntaxes                                                     *)

K(n) == NamedAs("Class", IF n = 1 THEN Prefixed(5, <<1>>) ELSE Direct(<<6, n>>))
Op(n) == NamedAs("ObjectProperty", Direct(<<6, n>>))
Inverse1 == Tree("ObjectInverseOf", <<Op(1)>>)
Dp(n) == NamedAs("DataProperty", Direct(<<6, n>>))
Ap == NamedAs("AnnotationProperty", Prefixed(3, <<2>>))
Dt == NamedAs("Datatype", Prefixed(4, <<1>>))
Ind == NamedAs("NamedIndividual", Prefixed(5, <<7>>))
Ano(label) == AnonymousAs(label)
Plain1 == LiteralAs(<<1, 2>>, "EN", None)
Typed1 == LiteralAs(<<0, 1>>, None, Prefixed(4, <<1>>))
Iri1 == [c |-> "IRI", iri |-> Prefixed(5, <<2>>)]
Iri2 == [c |-> "IRI", iri |-> Direct(<<6, 3>>)]
Var(n) == Tree("Variable", <<[c |-> "IRI", iri |-> Direct(<<6, n>>)]>>)
Chain == Tree("ObjectPropertyChain", <<Op(2), Inverse1, Op(2)>>)

Sample(sort, i) ==
  CASE sort \in {"Class", "class"} -> K(i)
    [] sort \in {"Datatype", "entity"} -> Dt
    [] sort = "range" -> IF i = 1 THEN Dt ELSE Tree("DataOneOf", <<Typed1, Typed1>>)
    [] sort = "property" -> IF i = 1 THEN Inverse1 ELSE Op(i)
    [] sort = "ObjectProperty" -> Op(i)
    [] sort = "chain" -> Chain
    [] sort = "key" -> IF i = 1 THEN Inverse1 ELSE Dp(i)
    [] sort = "DataProperty" -> Dp(i)
    [] sort = "AnnotationProperty" -> Ap
    [] sort \in {"individual", "iarg"} -> IF i = 1 THEN Ano("n") ELSE Ind
    [] sort = "subject" -> IF i = 1 THEN Iri1 ELSE Ano("n")
    [] sort \in {"literal", "value"} -> IF i = 1 THEN Plain1 ELSE Typed1
    [] sort = "darg" -> IF i = 1 THEN Var(1) ELSE Plain1
    [] sort = "IRI" -> Iri2
    [] sort = "facet" -> FacetAs(Prefixed(4, <<8, i>>), Typed1)

Example(c) ==
  LET s == Signature(c)
      n == Len(s.fixed)
  IN  CASE c \in Cardinalities -> Tree(c, <<NumberAs(2), Sample(CardinalitySorts(c)[1], 1), Sample(CardinalitySorts(c)[2], 1)>>)
        [] c \in Quantified -> Tree(c, <<Dp(1), Dp(2), Sample("range", 2)>>)
        [] s.rest = "none" -> Tree(c, [i \in 1..n |-> Sample(s.fixed[i], i)])
        [] OTHER -> Tree(c, [i \in 1..n + 2 |-> IF i <= n THEN Sample(s.fixed[i], i) ELSE Sample(s.rest, i - n)])

Within1(t) ==
  CASE t.c \in ClassTrees -> Tree("SubClassOf", <<t, K(1)>>)
    [] t.c \in RangeTrees -> Tree("DataPropertyRange", <<Dp(1), t>>)
    [] t.c \in DOMAIN AtomForms -> [c |-> "SWRLRule", ann |-> <<>>, body |-> <<t, t>>, head |-> <<t>>, args |-> <<>>]
    [] OTHER -> t
Constructors == ClassTrees \cup RangeTrees \cup AxiomTrees
DropLast(t) == [t EXCEPT !.args = Front(@)]
LastTwice(t) == [t EXCEPT !.args = Append(@, Last(@))]
LastForAll(t) == [t EXCEPT !.args = [i \in DOMAIN @ |-> IF i <= Len(Signature(t.c).fixed) THEN @[i] ELSE Last(@)]]
Odd == {K(1), Dt, Op(1), Inverse1, Dp(1), Ap, Ind, Ano("n"), Typed1, Iri1, Chain}
Misfits(t) == {[t EXCEPT !.args[i] = x] : i \in {j \in DOMAIN t.args : t.args[j].c # "Number"}, x \in Odd}

\* Nested operands, operands that collapse, and classes disjoint from themselves.
And(args) == Tree("ObjectIntersectionOf", args)
Or(args) == Tree("ObjectUnionOf", args)
Nested ==
  LET flat == And(<<K(1), K(2)>>)
      inner == {K(1), flat, And(<<K(2), flat>>), Or(<<flat, flat>>), And(<<K(1), K(1)>>), Or(<<K(1), flat>>)}
  IN  UNION {{Tree("SubClassOf", <<Tree(c, <<x, y>>), K(3)>>) : c \in {"ObjectIntersectionOf", "ObjectUnionOf"}, x, y \in inner},
           {Tree(c, <<x, y>> \o more) : c \in {"DisjointClasses", "EquivalentClasses"},
              x, y \in {K(1), flat, And(<<K(2), K(1)>>)}, more \in {<<>>, <<K(1)>>, <<K(1), K(1)>>}},
           {Tree("InverseObjectProperties", <<x, y>>) : x, y \in {Op(1), Op(2), Inverse1, Tree("ObjectInverseOf", <<Op(2)>>)}},
           {Tree("HasKey", <<K(1)>> \o keys) : keys \in {<<>>, <<Dp(1), Op(1), Dp(1)>>, <<Op(1)>>}},
           {DropLast(Example(c)) : c \in Cardinalities}}

Note(ann) == Annotated("Annotation", ann, <<Ap, Plain1>>)
Note2 == Annotated("Annotation", <<>>, <<Ap, Ano("n")>>)
ImportOf(v) == [c |-> "Import", iri |-> Direct(v)]
Rule == [c |-> "SWRLRule", ann |-> <<Note2>>, body |-> <<Example("ClassAtom"), Example("BuiltInAtom"), Example("ClassAtom")>>,
         head |-> <<Example("DataPropertyAtom")>>, args |-> <<>>]
Facts ==
  {Annotated("SubClassOf", ann, <<K(1), K(2)>>) : ann \in {<<>>, <<Note(<<>>), Note(<<>>)>>, <<Note(<<Note2, Note(<<>>)>>), Note2>>}}
  \cup {Annotated("DisjointClasses", <<Note2>>, <<K(1), K(2), K(1)>>), Note(<<Note2>>), ImportOf(<<6, 6>>)}
OwlDoc(prefixes, head, members) == [prefixes |-> prefixes, head |-> head, members |-> members]
E5 == <<<<5, <<6>>>>>>
Simple(members) == OwlDoc(E5, <<Direct(<<6>>)>>, members)

OwlLimits == [depth |-> 20, iri |-> 20, arity |-> 20, annotations |-> 20, axioms |-> 20, prefixes |-> 20, atoms |-> 20,
              terms |-> 99, literal |-> 20]
OwlJob(format, doc, items, sourceMap, limits) ==
  [format |-> format, doc |-> doc, items |-> items, sourceMap |-> sourceMap, allowSwrl |-> sourceMap, limits |-> limits]
FJob(doc, sourceMap, limits) == OwlJob("functional", doc, FunctionalTokens(doc), sourceMap, limits)
XJob(doc, sourceMap, limits) == OwlJob("owlxml", doc, OwlXmlEvents(doc), sourceMap, limits)

BothDocs ==
  UNION {{Simple(<<Within1(v)>>) : v \in UNION {{Example(c), LastTwice(Example(c)), LastForAll(Example(c))} :
                                           c \in Constructors \ (Quantified \cup Cardinalities)}},
         {Simple(<<Within1(DropLast(Example(c)))>>) : c \in Constructors \ (Quantified \cup {"HasKey"})},
         {Simple(<<Within1(Example(c))>>) : c \in Quantified \cup Cardinalities \cup DOMAIN AtomForms},
         {Simple(<<t>>) : t \in Nested},
         {OwlDoc(<<>>, h, <<x, y>>) : x, y \in Facts, h \in {<<>>}},
         {Simple(<<x, y, Rule>>) : x, y \in Facts},
         {OwlDoc(p, h, <<Example("ClassAssertion"), Rule>>) :
          p \in {<<>>, E5, E5 \o <<<<5, <<7, 7>>>>, <<1, <<5>>>>, <<Underscore, <<6>>>>>>},
          h \in {<<>>, <<Prefixed(1, <<1>>), Direct(<<7>>)>>, <<Prefixed(5, <<>>)>>}},
         {OwlDoc(p, <<Direct(<<NoScheme, 1>>)>>, <<>>) : p \in {<<>>, E5, <<<<5, <<6, 0>>>>>>}},
         {Simple(<<Tree("ClassAssertion", <<K(1), Ano("")>>)>>)}}
XmlDocs ==
  UNION {{Simple(<<Within1(t)>>) : t \in UNION {Misfits(Example(c)) : c \in Constructors}},
         {Simple(<<Tree("DataPropertyAssertion", <<Dp(1), Ind, LiteralAs(<<1>>, lang, type)>>)>>) :
          lang \in {None, "en", "EN", "bad"}, type \in {None, Direct(<<6>>)}}}

Sized1 == Simple(<<ImportOf(<<6, 6, 6, 6>>), Annotated("DisjointClasses", <<Note(<<Note2, Note2>>)>>, <<K(1), K(2), K(1), K(3)>>),
                   Tree("DisjointUnion", <<K(1), And(<<K(2), K(3), K(4)>>), Tree("ObjectComplementOf", <<K(2)>>)>>), Note(<<>>)>>)
OwlBounds == UNION {{[OwlLimits EXCEPT ![limit] = n] : n \in 0..6} : limit \in DOMAIN OwlLimits}
             \cup {[OwlLimits EXCEPT !.terms = n] : n \in 20..40}

Whole == Simple(<<Annotated("SubClassOf", <<Note2>>, <<K(1), And(<<K(2), K(3)>>)>>), Example("HasKey")>>)
Without(s, i) == SubSeq(s, 1, i - 1) \o SubSeq(s, i + 1, Len(s))
BrokenTokens ==
  LET s == FunctionalTokens(Whole)
      parens == {i \in DOMAIN s : s[i].k \in {"(", ")"}}
  IN  {Without(s, i) : i \in parens} \cup {InsertAt(s, i, s[i]) : i \in parens}
      \cup {[s EXCEPT ![i].v = "Unknown"] : i \in {j \in DOMAIN s : s[j].k = "word"}}
      \cup {<<FMark("eof")>>, FCall("Prefix", <<FTok("pname", <<5, <<1>>>>), FMark("="), FTok("iri", <<6>>)>>) \o s,
            FCall("Prefix", <<FTok("pname", <<5, <<>>>>), FTok("iri", <<6>>)>>) \o s}

\* Unbalanced, with text between elements, attributes missing or repeated,
\* namespaces wrong, reserved or out of scope.
Scoped == [name |-> <<"xmlns", "o">>, val |-> "owl"]
BrokenEvents ==
  LET s == OwlXmlEvents(Whole)
      starts == {i \in DOMAIN s : s[i].k = "start"}
      inner == {i \in starts : i > 1}
      bare == {i \in inner : s[i].attrs # <<>>}
      In(i, a) == [s EXCEPT ![i].attrs = Append(@, a)]
      BindTo(prefix, value) == [name |-> <<"xmlns", prefix>>, val |-> value]
      class == XEmpty("Class", <<XAttr("IRI", <<6>>)>>)
      Declared(first, second) == XBlock("Declaration", <<>>, first) \o XBlock("Declaration", <<>>, second)
      Under(e, attrs) == <<[e[1] EXCEPT !.name[1] = "o", !.attrs = @ \o attrs]>>
  IN  UNION {{Without(s, i) : i \in {j \in DOMAIN s : s[j].k = "end" \/ (s[j].k = "start" /\ ~ s[j].empty)}},
           {SubSeq(s, 1, i) \o XText(<<0, 7>>) \o SubSeq(s, i + 1, Len(s)) : i \in 0..Len(s)},
           {[s EXCEPT ![i].attrs = <<>>] : i \in bare},
           {[s EXCEPT ![i].attrs = @ \o @] : i \in bare},
           {In(i, BindTo("", "other")) : i \in starts \ {1}},
           {In(1, BindTo(b[1], b[2])) :
             b \in {<<"xmlns", "owl">>, <<"z", "xmlns">>, <<"xml", "owl">>, <<"z", "xml">>, <<"z", "">>}},
           {[s EXCEPT ![i].name[1] = "z"] : i \in starts},
           {In(i, [name |-> <<"z", "a">>, val |-> ""]) : i \in starts},
           {[s EXCEPT ![1].name[2] = "Class"], s \o class, s \o s, s \o <<XEnd("Ontology")>>, <<>>, XText(<<0>>), <<XEnd("Ontology")>>,
            XBlock("Ontology", <<OwlBinding>>, Declared(Under(class, <<Scoped>>), Under(class, <<>>))),
            XBlock("Ontology", <<OwlBinding>>, XEmpty("include", <<>>)),
            XBlock("Ontology", <<OwlBinding>>, XBlock("Declaration", <<>>, XEmpty("Prefix", <<XAttr("name", <<5, Colon>>), XAttr("IRI", <<6>>)>>))),
            XBlock("Ontology", <<OwlBinding>>, class), XBlock("Ontology", <<OwlBinding>>, XEmpty("Unknown", <<>>))}}

StructuralSuites ==
  {{FJob(doc, TRUE, OwlLimits) : doc \in BothDocs},
         {XJob(doc, TRUE, OwlLimits) : doc \in BothDocs \cup XmlDocs},
         {FJob(doc, FALSE, OwlLimits) : doc \in {Simple(<<x, y>>) : x \in Facts, y \in Facts \cup {Rule}}},
         {XJob(Simple(<<x, y>>), FALSE, OwlLimits) : x, y \in Facts},
         {FJob(doc, TRUE, l) : doc \in {Sized1, Simple(<<Rule>>)}, l \in OwlBounds},
         {XJob(Sized1, b, l) : b \in BOOLEAN, l \in OwlBounds},
         {XJob(OwlDoc(<<>>, <<>>, <<>>), b, l) : b \in BOOLEAN, l \in OwlBounds},
         {OwlJob("functional", None, items, TRUE, OwlLimits) : items \in BrokenTokens},
         {OwlJob("owlxml", None, items, TRUE, OwlLimits) : items \in BrokenEvents}}

TextSuites ==
  {{[format |-> "functional_text", text |-> text] : text \in texts} :
     texts \in {Texts({"a", "1", "-", "(", "<", ">", "quote", "\\", "@", "^", "#", "\r", "\n", " "}, 3),
                Texts({"quote", "\\", "a", "\r", "\n"}, 5), Texts({"#", "\r", "\n", "a", "<"}, 4),
                Texts({"@", "a", "-", "1", " "}, 4)}}

MCSuites == UNION {IriSuites, RdfXmlSuites, LexSuites, TurtleSuites, StructuralSuites, TextSuites}

=============================================================================
