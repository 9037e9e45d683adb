---------------------------- MODULE GraphMeaning ----------------------------
(***************************************************************************)
(* What an RDF/XML document says, told of its tree: scopes are inherited   *)
(* along the tree and blank nodes are named by their place in it, so that  *)
(* neither a stack nor a counter is needed.                                *)
(***************************************************************************)
EXTENDS RdfXmlParser, FiniteSetsExt, TurtleParser

IsElement(kid) == kid.k = "element"
Elements(el) == SelectSeq(el.kids, IsElement)
TextOf(kid) == IF kid.k \in {"text", "cdata"} THEN DecodeXmlValue(kid.value, "text") ELSE <<>>
Content(el) == FlattenSeq([i \in DOMAIN el.kids |-> TextOf(el.kids[i])])

\* The markup of a tree.
RECURSIVE Markup(_)
Markup(kid) ==
  IF ~ IsElement(kid) THEN <<kid>>
  ELSE LET start == [k |-> "start", name |-> kid.name, attrs |-> kid.attrs, empty |-> kid.empty]
       IN  IF kid.empty THEN <<start>>
           ELSE <<start>> \o FlattenSeq([i \in DOMAIN kid.kids |-> Markup(kid.kids[i])])
                \o <<[k |-> "end", name |-> kid.name]>>

TopScope(base) == [namespaces |-> <<<<"xml", XmlNs>>>>, base |-> base, language |-> None]

ScopeIn(outer, el) ==
  LET declared == SelectSeq(el.attrs, IsDeclaration)
      In(named) ==
        LET Base(base) == IF base = None THEN outer.base ELSE ResolveIri(base, outer.base)
            Language(language) == IF language = None THEN outer.language ELSE Lower[language]
        IN  [namespaces |-> named.namespaces,
             base |-> Base(Attribute(named, el.attrs, XmlNs, "base")),
             language |-> Language(Attribute(named, el.attrs, XmlNs, "lang"))]
  IN  In([namespaces |-> outer.namespaces
                         \o [i \in DOMAIN declared |-> <<declared[i].name[2], declared[i].value>>]])

Given(scope, el, local) == Attribute(scope, el.attrs, RdfNs, local)
ElementName(scope, el) == Expand(scope, el.name, FALSE)

SubjectOf(scope, el, path) ==
  IF Given(scope, el, "about") # None THEN Iri(ResolveIri(Given(scope, el, "about"), scope.base))
  ELSE IF Given(scope, el, "ID") # None THEN Iri(ResolveIri(RdfId(Given(scope, el, "ID")), scope.base))
  ELSE IF Given(scope, el, "nodeID") # None THEN Blank(<<"label", Given(scope, el, "nodeID")>>)
  ELSE Blank(<<"place", path>>)

PlainText(scope, value) ==
  IF scope.language \in {None, ""} THEN Literal(value, XsdString, None)
  ELSE Literal(value, None, scope.language)

\* The attributes that are statements about the subject.
AttributeTriples(scope, el, subject) ==
  {LET a == el.attrs[i]
       predicate == ExpandRdfAttribute(scope, a)
   IN  <<subject, predicate,
         IF predicate = Rdf("type") THEN Iri(ResolveIri(a.value, scope.base))
         ELSE PlainText(scope, DecodeXmlValue(a.value, "attribute"))>> :
   i \in {k \in RdfAttributes(el.attrs) : IsPropertyAttribute(ExpandRdfAttribute(scope, el.attrs[k]))}}

Statement(scope, el, s, predicate, o) ==
  {<<s, predicate, o>>} \cup
  IF Given(scope, el, "ID") = None THEN {}
  ELSE LET Reified(about) ==
             {<<about, Rdf("type"), Iri(Rdf("Statement"))>>, <<about, Rdf("subject"), s>>,
              <<about, Rdf("predicate"), Iri(predicate)>>, <<about, Rdf("object"), o>>}
       IN  Reified(Iri(ResolveIri(RdfId(Given(scope, el, "ID")), scope.base)))

\* The information set of literal content: characters, tags and their names.
RECURSIVE Infoset(_, _)
Infoset(scope, kids) ==
  LET Of(kid) ==
        IF ~ IsElement(kid) THEN LET t == TextOf(kid) IN [i \in DOMAIN t |-> <<"char", t[i]>>]
        ELSE LET inner == ScopeIn(scope, kid)
                 plain == SelectSeq(kid.attrs, LAMBDA a : ~ IsDeclaration(a))
             IN  <<<<"start", <<NamespaceOf(inner, kid.name, FALSE), kid.name[2]>>,
                     {<<NamespaceOf(inner, a.name, TRUE), a.name[2], DecodeXmlValue(a.value, "attribute")>> :
                        a \in Range(plain)}>>>>
                 \o Infoset(inner, kid.kids) \o <<<<"end">>>>
  IN  FlattenSeq([i \in DOMAIN kids |-> Of(kids[i])])

LiCount(scope, kids, i) ==
  Cardinality({k \in 1..i : ElementName(ScopeIn(scope, kids[k]), kids[k]) = Rdf("li")})

\* The triples of an element, in the scope of its own declarations.
RECURSIVE NodeTriples(_, _, _), PropertyTriples(_, _, _, _, _)

NodeTriples(scope, el, path) ==
  LET kids == Elements(el)
      TypeTriples(name, subject) ==
        IF name = Rdf("Description") THEN {} ELSE {<<subject, Rdf("type"), Iri(name)>>}
      About(subject) ==
        TypeTriples(ElementName(scope, el), subject)
        \cup AttributeTriples(scope, el, subject)
        \cup UNION {PropertyTriples(ScopeIn(scope, kids[i]), kids[i], subject, Append(path, i),
                                    LiCount(scope, kids, i)) : i \in DOMAIN kids}
  IN  About(SubjectOf(scope, el, path))

PropertyTriples(scope, el, s, path, li) ==
  LET kids == Elements(el)
      name == ElementName(scope, el)
      predicate == IF name = Rdf("li") THEN Rdf(Membership[li]) ELSE name
      parseType == Given(scope, el, "parseType")
      datatype == Given(scope, el, "datatype")
      Says(o) == Statement(scope, el, s, predicate, o)
      inner == Blank(<<"place", Append(path, 0)>>)
      Cell(i) == IF i > Len(kids) THEN Iri(Rdf("nil")) ELSE Blank(<<"place", path \o <<i, 0>>>>)
      Member(i) == SubjectOf(ScopeIn(scope, kids[i]), kids[i], Append(path, i))
      told == CASE Given(scope, el, "resource") # None -> Iri(ResolveIri(Given(scope, el, "resource"), scope.base))
                [] Given(scope, el, "nodeID") # None -> Blank(<<"label", Given(scope, el, "nodeID")>>)
                [] Describing(scope, el.attrs) # {} /\ datatype = None -> inner
                [] OTHER -> None
      Told(o) == Says(o) \cup AttributeTriples(scope, el, o)
  IN  CASE parseType = "Collection" ->
             Says(Cell(1)) \cup UNION {NodeTriples(ScopeIn(scope, kids[i]), kids[i], Append(path, i)) : i \in DOMAIN kids}
             \cup {<<Cell(i), Rdf("first"), Member(i)>> : i \in DOMAIN kids}
             \cup {<<Cell(i), Rdf("rest"), Cell(i + 1)>> : i \in DOMAIN kids}
        [] parseType = "Resource" ->
             Says(inner) \cup UNION {PropertyTriples(ScopeIn(scope, kids[i]), kids[i], inner, Append(path, i),
                                                     LiCount(scope, kids, i)) : i \in DOMAIN kids}
        [] parseType \notin {None, "Collection", "Resource"} ->
             Says(Literal(Infoset(scope, el.kids), Rdf("XMLLiteral"), None))
        [] parseType = None /\ datatype # None /\ kids = <<>> ->
             Says(Literal(Content(el), ResolveIri(datatype, scope.base), None))
        [] parseType = None /\ told # None ->
             Told(told)
        [] parseType = None /\ told = None /\ kids # <<>> ->
             Says(Member(1)) \cup NodeTriples(ScopeIn(scope, kids[1]), kids[1], Append(path, 1))
        [] OTHER -> Says(PlainText(scope, Content(el)))

\* The nodes of a document, each in its scope: below rdf:RDF, or the root itself.
NodesUnder(scope, root) ==
  IF ElementName(scope, root) # Rdf("RDF") THEN <<[scope |-> scope, el |-> root]>>
  ELSE LET kids == Elements(root)
       IN  [i \in DOMAIN kids |-> [scope |-> ScopeIn(scope, kids[i]), el |-> kids[i]]]

Meaning(root, base) ==
  LET Described(nodes) == UNION {NodeTriples(nodes[i].scope, nodes[i].el, <<i>>) : i \in DOMAIN nodes}
  IN  Described(NodesUnder(ScopeIn(TopScope(base), root), root))

-----------------------------------------------------------------------------
(* Which trees are RDF/XML, as far as the parser insists                    *)

Resolvable(scope, reference) == reference = None \/ ResolveIri(reference, scope.base) # None
Named(value) == value = None \/ IsNCName(value)

\* Names, prefixes and attributes of one element, whatever its role.
WellNamed(scope, el, rdf) ==
  /\ \A i, j \in DOMAIN el.attrs : el.attrs[i].name = el.attrs[j].name => i = j
  /\ \A i \in DOMAIN el.attrs :
       /\ IsDeclaration(el.attrs[i]) => BindingAllowed(el.attrs[i].name[2], el.attrs[i].value)
       /\ el.attrs[i].kind = "text" => DecodeError(el.attrs[i].value) = None
  /\ UniqueAttributes(scope, el.attrs, rdf)
  /\ ElementName(scope, el) # None
  /\ ElementName(scope, el).scheme # "xinclude"

\* A described subject: its attributes are properties.
WellDescribed(scope, el, syntax) ==
  \A i \in RdfAttributes(el.attrs) :
    LET iri == ExpandRdfAttribute(scope, el.attrs[i])
    IN  \/ iri \in syntax
        \/ /\ IsPropertyAttribute(iri) /\ iri.scheme # None
           /\ iri = Rdf("type") => Resolvable(scope, el.attrs[i].value)

WellSpaced(el) == \A i \in DOMAIN el.kids : IsElement(el.kids[i]) \/ IsSpace(TextOf(el.kids[i]))

ReadableKid(kid) ==
  \/ kid.k = "text" /\ DecodeError(kid.value) = None
  \/ kid.k = "comment" /\ ~ kid.dashes
  \/ kid.k = "pi" /\ kid.target = "t"
  \/ kid.k \in {"cdata", "element"}

\* An element, valid in the scope of its own declarations, themselves in `outer`.
RECURSIVE ValidLiteral(_, _), ValidNode(_, _, _), ValidProperty(_, _, _)

ValidLiteral(scope, el) ==
  LET In(inner, kid) == WellNamed(inner, kid, FALSE) /\ ValidLiteral(inner, kid)
  IN  \A i \in DOMAIN el.kids : /\ ReadableKid(el.kids[i])
                                /\ IsElement(el.kids[i]) => In(ScopeIn(scope, el.kids[i]), el.kids[i])

BaseKnown(outer, scope, el) == Resolvable(outer, Attribute(scope, el.attrs, XmlNs, "base"))

ValidNode(outer, scope, el) ==
  LET kids == Elements(el)
      identity == {n \in {"about", "ID", "nodeID"} : Given(scope, el, n) # None}
  IN  /\ WellNamed(scope, el, TRUE)
      /\ ElementName(scope, el).scheme # None
      /\ BaseKnown(outer, scope, el)
      /\ IsNodeElement(ElementName(scope, el))
      /\ Cardinality(identity) <= 1
      /\ Resolvable(scope, Given(scope, el, "about"))
      /\ Named(Given(scope, el, "ID")) /\ Named(Given(scope, el, "nodeID"))
      /\ Given(scope, el, "ID") # None => scope.base # None
      /\ WellDescribed(scope, el, {Rdf("about"), Rdf("ID"), Rdf("nodeID")})
      /\ WellSpaced(el)
      /\ \A i \in DOMAIN el.kids : ReadableKid(el.kids[i])
      /\ \A i \in DOMAIN kids : ValidProperty(scope, ScopeIn(scope, kids[i]), kids[i])

ValidProperty(outer, scope, el) ==
  LET kids == Elements(el)
      parseType == Given(scope, el, "parseType")
      exclusive == {n \in {"resource", "nodeID", "parseType", "datatype"} : Given(scope, el, n) # None}
      told == \/ {"resource", "nodeID"} \cap exclusive # {}
              \/ Describing(scope, el.attrs) # {} /\ Given(scope, el, "datatype") = None
      firstKid == {i \in DOMAIN el.kids : IsElement(el.kids[i])}
  IN  /\ WellNamed(scope, el, TRUE)
      /\ ElementName(scope, el).scheme # None
      /\ BaseKnown(outer, scope, el)
      /\ IsPropertyElement(ElementName(scope, el))
      /\ Cardinality(exclusive) <= 1
      /\ Named(Given(scope, el, "ID")) /\ Named(Given(scope, el, "nodeID"))
      /\ Given(scope, el, "ID") # None => scope.base # None
      /\ \A n \in {"resource", "datatype"} : Resolvable(scope, Given(scope, el, n))
      /\ \A i \in DOMAIN el.kids : ReadableKid(el.kids[i])
      /\ CASE parseType = "Collection" ->
                 /\ Describing(scope, el.attrs) = {}
                 /\ WellSpaced(el)
                 /\ \A i \in DOMAIN kids : ValidNode(scope, ScopeIn(scope, kids[i]), kids[i])
           [] parseType = "Resource" ->
                 /\ Describing(scope, el.attrs) = {}
                 /\ WellSpaced(el)
                 /\ \A i \in DOMAIN kids : ValidProperty(scope, ScopeIn(scope, kids[i]), kids[i])
           [] parseType \notin {None, "Collection", "Resource"} ->
                 Describing(scope, el.attrs) = {} /\ ValidLiteral(scope, el)
           [] parseType = None /\ told ->
                 /\ WellDescribed(scope, el, PropertySyntax)
                 /\ kids = <<>> /\ IsSpace(Content(el))
           [] OTHER ->
                 /\ \A iri \in Describing(scope, el.attrs) : IsPropertyAttribute(iri)
                 /\ Len(kids) <= 1
                 /\ kids # <<>> => IsSpace(Content(el)) /\ ValidNode(scope, ScopeIn(scope, kids[1]), kids[1])

\* Every identifier an element claims, with the base it is claimed under.
RECURSIVE Claims(_, _)
Claims(scope, el) ==
  LET own == IF Given(scope, el, "ID") = None THEN <<>> ELSE <<<<Given(scope, el, "ID"), scope.base>>>>
      literal == Given(scope, el, "parseType") \notin {None, "Collection", "Resource"}
      kids == IF literal THEN <<>> ELSE Elements(el)
  IN  own \o FlattenSeq([i \in DOMAIN kids |-> Claims(ScopeIn(scope, kids[i]), kids[i])])

ValidRoot(root, base) ==
  LET top == TopScope(base)
      In(scope) ==
        LET wrapped == ElementName(scope, root) = Rdf("RDF")
        IN  /\ WellNamed(scope, root, TRUE)
            /\ BaseKnown(top, scope, root)
            /\ wrapped => /\ RdfAttributes(root.attrs) = {}
                          /\ WellSpaced(root)
                          /\ \A i \in DOMAIN root.kids : ReadableKid(root.kids[i])
            /\ \A node \in Range(NodesUnder(scope, root)) :
                 ValidNode(IF wrapped THEN scope ELSE top, node.scope, node.el)
  IN  In(ScopeIn(top, root))

\* Around the root: comments, instructions and white space only.
ValidAround(items, first) ==
  \A i \in DOMAIN items :
    \/ items[i].k \in {"comment", "text"} /\ ReadableKid(items[i]) /\ IsSpace(TextOf(items[i]))
    \/ items[i].k = "pi" /\ items[i].target = "t"
    \/ /\ items[i].k = "pi" /\ items[i].target = "xml" /\ i = 1 /\ first
       /\ DeclarationError(items[i].attrs, job.encoding) = None

ValidDocument(doc) ==
  /\ ValidAround(doc.prolog, TRUE)
  /\ ValidAround(doc.epilog, FALSE)
  /\ ValidRoot(doc.root, job.base)
  /\ IsInjective(Claims(ScopeIn(TopScope(job.base), doc.root), doc.root))

DocumentItems(doc) == doc.prolog \o Markup(doc.root) \o doc.epilog

-----------------------------------------------------------------------------
(* The graph the parser made, its XML literals read again                   *)

\* Reading the markup of a literal back, by the declarations it carries.
Reread(lexical) ==
  LET markup == lexical[2]
      Depth(i) == Cardinality({k \in 1..i : markup[k].m = "start"})
                  - Cardinality({k \in 1..i : markup[k].m = "end"})
      Roots(i) == {k \in 1..i : markup[k].m = "start" /\ Depth(k) = 1}
      Declared(i) == markup[CHOOSE k \in Roots(i) : \A j \in Roots(i) : j <= k].xmlns
      NamespaceFor(i, prefix) ==
        IF prefix = "" THEN NoNamespace
        ELSE IF prefix = "xml" THEN XmlNs
        ELSE IF \E d \in Declared(i) : d[2] = prefix
        THEN (CHOOSE d \in Declared(i) : d[2] = prefix)[1] ELSE None
      Chars(text) == [k \in DOMAIN text |-> <<"char", text[k]>>]
      Read(i) ==
        CASE markup[i].m = "start" ->
               <<<<"start", <<NamespaceFor(i, markup[i].name[1]), markup[i].name[2]>>,
                   {<<NamespaceFor(i, a.name[1]), a.name[2], DecodeXmlValue(a.value, "attribute")>> :
                      a \in Range(markup[i].attrs)}>>>>
          [] markup[i].m = "text" -> Chars(DecodeXmlValue(markup[i].value, "text"))
          [] markup[i].m = "end" -> <<<<"end">>>>
  IN  Chars(lexical[1]) \o FlattenSeq([i \in DOMAIN markup |-> Read(i)])

RereadTerm(term) ==
  IF term[1] = "literal" /\ term[2] = Rdf("XMLLiteral")
  THEN Literal(Reread(term[4]), term[2], None) ELSE term
RereadGraph(g) == {<<t[1], t[2], RereadTerm(t[3])>> : t \in g}

-----------------------------------------------------------------------------
(* Sizes and source facts of a tree                                         *)

Max0(S) == IF S = {} THEN 0 ELSE Max(S)

RECURSIVE DepthOf(_)
DepthOf(el) == 1 + Max0({DepthOf(kid) : kid \in Range(Elements(el))})

RECURSIVE AllElements(_)
AllElements(el) == <<el>> \o FlattenSeq([i \in DOMAIN Elements(el) |-> AllElements(Elements(el)[i])])

Declarations(root) ==
  LET all == AllElements(root)
  IN  FlattenSeq([i \in DOMAIN all |-> SelectSeq(all[i].attrs, IsDeclaration)])

\* A list longer than the limit.
RECURSIVE Exceeds(_, _)
Exceeds(outer, el) ==
  LET scope == ScopeIn(outer, el)
      collection == Given(scope, el, "parseType") = "Collection"
  IN  \/ collection /\ Len(Elements(el)) > job.limits.list
      \/ \E kid \in Range(Elements(el)) : Exceeds(scope, kid)

TooLarge(doc) ==
  \/ Cardinality(Meaning(doc.root, job.base)) > job.limits.triples
  \/ DepthOf(doc.root) > job.limits.depth
  \/ Len(Declarations(doc.root)) > job.limits.prefixes
  \/ Exceeds(TopScope(job.base), doc.root)

\* The last binding of each prefix in document order, unless it was undone.
LastPrefixes(root) ==
  LET d == Declarations(root)
      last == {i \in DOMAIN d : \A j \in i + 1..Len(d) : d[j].name # d[i].name}
      kept == {i \in last : d[i].value # NoNamespace}
  IN  [x \in {d[i].name[2] : i \in kept} |-> d[CHOOSE i \in kept : d[i].name[2] = x].value]

RECURSIVE NodeLabels(_, _)
NodeLabels(outer, el) ==
  LET scope == ScopeIn(outer, el)
      literal == Given(scope, el, "parseType") \notin {None, "Collection", "Resource"}
      below == IF literal THEN {} ELSE Range(Elements(el))
  IN  ({Given(scope, el, "nodeID")} \ {None}) \cup UNION {NodeLabels(scope, kid) : kid \in below}

-----------------------------------------------------------------------------
(***************************************************************************)
(* Turtle by its grammar and by the meaning of its parse tree.  A document *)
(* is a sequence of statements; blank nodes without a label are named by   *)
(* their place.  EndsOf operators give every position at which a phrase    *)
(* that starts at a token may end, so that no lookahead is involved.       *)
(***************************************************************************)

IsTerm(i, kinds) == TokenAt(i).t \in kinds
IsWord(i, values) == TokenAt(i).t = "word" /\ TokenAt(i).v \in values
IsName(i) == IsTerm(i, {"iri", "pname"})
EndsBefore(ends, closer) == {j + 1 : j \in {k \in ends : TokenAt(k).t = closer}}

RECURSIVE ObjectEnds(_), ManyEnds(_), ObjectListEnds(_), MoreEnds(_), PairsEnds(_)

ObjectEnds(i) ==
  CASE IsTerm(i, {"iri", "pname", "blank", "number"}) \/ IsWord(i, {"true", "false"}) -> {i + 1}
    [] IsTerm(i, {"string"}) -> {i + 1} \cup {j \in {i + 2} : IsTerm(i + 1, {"lang"})}
                                \cup {j \in {i + 3} : IsTerm(i + 1, {"hat"}) /\ IsName(i + 2)}
    [] IsTerm(i, {"["}) -> EndsBefore({i + 1} \cup PairsEnds(i + 1), "]")
    [] IsTerm(i, {"("}) -> EndsBefore(ManyEnds(i + 1), ")")
    [] OTHER -> {}

ManyEnds(i) == {i} \cup UNION {ManyEnds(j) : j \in ObjectEnds(i)}

ObjectListEnds(i) ==
  ObjectEnds(i) \cup UNION {ObjectListEnds(j + 1) : j \in {k \in ObjectEnds(i) : TokenAt(k).t = ","}}

VerbEnds(i) == IF IsName(i) \/ IsWord(i, {"a"}) THEN ObjectListEnds(i + 1) ELSE {}

MoreEnds(i) ==
  {i} \cup IF TokenAt(i).t # ";" THEN {} ELSE UNION {MoreEnds(j) : j \in {i + 1} \cup VerbEnds(i + 1)}

PairsEnds(i) == UNION {MoreEnds(j) : j \in VerbEnds(i)}

SubjectEnds(i) == IF IsTerm(i, {"iri", "pname", "blank", "[", "("}) THEN ObjectEnds(i) ELSE {}

DirectiveEnds(i) ==
  LET declares == TokenAt(i).t \in {"directive", "word"} /\ TokenAt(i).v = "prefix"
      rebases == TokenAt(i).t \in {"directive", "word"} /\ TokenAt(i).v = "base"
      named == IF declares /\ IsTerm(i + 1, {"pname"}) THEN {i + 2} ELSE IF rebases THEN {i + 1} ELSE {}
      ends == {j + 1 : j \in {k \in named : IsTerm(k, {"iri"})}}
  IN  IF TokenAt(i).t = "directive" THEN EndsBefore(ends, ".") ELSE ends

StatementEnds(i) == DirectiveEnds(i) \cup EndsBefore(UNION {PairsEnds(j) : j \in SubjectEnds(i)}, ".")

RECURSIVE Grammatical(_)
Grammatical(i) == i > Len(job.items) \/ \E j \in StatementEnds(i) : Grammatical(j)

\* Every prefix is declared before it is used.
Declares(i) == TokenAt(i).t \in {"directive", "word"} /\ TokenAt(i).v = "prefix"
NamesKnown ==
  \A i \in DOMAIN job.items : TokenAt(i).t = "pname" =>
    \/ Declares(i - 1) /\ TokenAt(i).v[2] = ""
    \/ \E j \in 2..i - 1 : Declares(j - 1) /\ TokenAt(j).t = "pname" /\ TokenAt(j).v[1] = TokenAt(i).v[1]

-----------------------------------------------------------------------------
(* Trees, their tokens and their graph                                      *)

Mark(t) == [t |-> t, v |-> None]
Tok(t, v) == [t |-> t, v |-> v]

RECURSIVE TermTokens(_), PairTokens(_)
Joined(seqs, separator) ==
  FlattenSeq([i \in DOMAIN seqs |-> IF i = 1 THEN seqs[i] ELSE <<Mark(separator)>> \o seqs[i]])

TermTokens(term) ==
  CASE term.k = "anon" -> <<Mark("[")>> \o PairTokens(term.pairs) \o <<Mark("]")>>
    [] term.k = "list" -> <<Mark("(")>> \o FlattenSeq([i \in DOMAIN term.values |-> TermTokens(term.values[i])])
                          \o <<Mark(")")>>
    [] term.k = "string" -> <<Tok("string", term.v)>>
                            \o (IF term.lang = None THEN <<>> ELSE <<Tok("lang", term.lang)>>)
                            \o (IF term.type = None THEN <<>> ELSE <<Mark("hat"), term.type>>)
    [] OTHER -> <<Tok(term.k, term.v)>>

PairTokens(pairs) ==
  Joined([i \in DOMAIN pairs |-> <<pairs[i][1]>> \o
            Joined([j \in DOMAIN pairs[i][2] |-> TermTokens(pairs[i][2][j])], ",")], ";")

StatementTokens(s) ==
  IF s.k = "triples" THEN TermTokens(s.subject) \o PairTokens(s.pairs) \o <<Mark(".")>>
  ELSE <<Tok(IF s.at THEN "directive" ELSE "word", s.k)>>
       \o (IF s.k = "prefix" THEN <<Tok("pname", <<s.name, "">>)>> ELSE <<>>)
       \o <<Tok("iri", s.iri)>> \o (IF s.at THEN <<Mark(".")>> ELSE <<>>)

TurtleTokens(doc) == FlattenSeq([i \in DOMAIN doc |-> StatementTokens(doc[i])])

\* The base and the prefixes in force at a statement: the last declarations
\* before it.
BaseAt(doc, i) ==
  LET Rebase(base, s) == IF s.k = "base" THEN ResolveIri(s.iri, base) ELSE base
  IN  FoldLeft(Rebase, job.base, SubSeq(doc, 1, i - 1))
PrefixesAt(doc, i) ==
  LET bound == {j \in 1..i - 1 : doc[j].k = "prefix"}
      Of(name) == CHOOSE j \in bound : doc[j].name = name /\ \A k \in bound : doc[k].name = name => k <= j
  IN  [name \in {doc[j].name : j \in bound} |-> ResolveIri(doc[Of(name)].iri, BaseAt(doc, Of(name)))]

IriOf(env, token) == ReadIri([base |-> env[1], prefixes |-> env[2]], token)

RECURSIVE TermGraph(_, _, _), PairGraph(_, _, _, _)
NodeOf(env, term, path) ==
  CASE term.k \in {"iri", "pname"} -> Iri(IriOf(env, Tok(term.k, term.v)))
    [] term.k = "blank" -> Blank(<<"label", term.v>>)
    [] term.k = "string" -> Literal(term.v, IF term.lang # None THEN None ELSE IF term.type = None THEN XsdString
                                            ELSE IriOf(env, term.type), term.lang)
    [] term.k = "number" -> Literal(term.v, XsdType(NumberType(term.v)), None)
    [] term.k = "word" -> Literal(term.v, XsdType("boolean"), None)
    [] term.k = "list" /\ term.values = <<>> -> Iri(Rdf("nil"))
    [] OTHER -> Blank(<<"place", Append(path, 1)>>)

TermGraph(env, term, path) ==
  CASE term.k = "anon" -> PairGraph(env, Blank(<<"place", Append(path, 1)>>), term.pairs, path)
    [] term.k = "list" ->
         LET Cell(i) == IF i > Len(term.values) THEN Iri(Rdf("nil")) ELSE Blank(<<"place", Append(path, i)>>)
         IN  UNION {{<<Cell(i), Rdf("first"), NodeOf(env, term.values[i], path \o <<i, 0>>)>>,
                     <<Cell(i), Rdf("rest"), Cell(i + 1)>>}
                    \cup TermGraph(env, term.values[i], path \o <<i, 0>>) : i \in DOMAIN term.values}
    [] OTHER -> {}

PairGraph(env, subject, pairs, path) ==
  UNION {LET verb == IF pairs[i][1].t = "word" THEN Rdf("type") ELSE IriOf(env, pairs[i][1])
         IN  UNION {{<<subject, verb, NodeOf(env, pairs[i][2][j], path \o <<0, i, j>>)>>}
                    \cup TermGraph(env, pairs[i][2][j], path \o <<0, i, j>>) : j \in DOMAIN pairs[i][2]} :
         i \in DOMAIN pairs}

TurtleGraph(doc) ==
  UNION {LET env == <<BaseAt(doc, i), PrefixesAt(doc, i)>>
         IN  TermGraph(env, doc[i].subject, <<i>>)
             \cup PairGraph(env, NodeOf(env, doc[i].subject, <<i>>), doc[i].pairs, Append(<<i>>, 2)) :
         i \in {k \in DOMAIN doc : doc[k].k = "triples"}}

TokensOf(kind) == SelectSeq(job.items, LAMBDA token : token.t = kind)

\* The longest list, counting the values between its own parentheses.
RECURSIVE ListLengths(_)
ListLengths(term) ==
  CASE term.k = "list" -> {Len(term.values)} \cup UNION {ListLengths(v) : v \in Range(term.values)}
    [] term.k = "anon" -> UNION {UNION {ListLengths(o) : o \in Range(pair[2])} : pair \in Range(term.pairs)}
    [] OTHER -> {}

TurtleTooLarge(doc) ==
  \/ Cardinality(TurtleGraph(doc)) > job.limits.triples
  \/ Cardinality(DOMAIN PrefixesAt(doc, Len(doc) + 1)) > job.limits.prefixes
  \/ \E s \in {x \in Range(doc) : x.k = "triples"} :
       \E n \in ListLengths([k |-> "anon", pairs |-> s.pairs]) \cup ListLengths(s.subject) : n > job.limits.list

-----------------------------------------------------------------------------
(* Lexemes, declaratively                                                   *)

AllDigits(text) == text # <<>> /\ \A i \in DOMAIN text : text[i] \in Digits
Unsigned(text) == IF text # <<>> /\ text[1] \in Signs THEN Tail(text) ELSE text
IsDecimal(text) ==
  \/ AllDigits(text)
  \/ \E i \in DOMAIN text : /\ text[i] = "." /\ Len(text) > 1
                            /\ \A k \in DOMAIN text \ {i} : text[k] \in Digits
IsNumber(text) ==
  \/ IsDecimal(Unsigned(text))
  \/ \E i \in DOMAIN text : /\ text[i] \in {"e", "E"}
                            /\ IsDecimal(Unsigned(SubSeq(text, 1, i - 1)))
                            /\ AllDigits(Unsigned(SubSeq(text, i + 1, Len(text))))
LongestNumber(text) == Max({0} \cup {n \in DOMAIN text : IsNumber(SubSeq(text, 1, n))})

Escaped1(text, i) ==
  \E n \in 1..i - 1 : /\ n % 2 = 1
                     /\ \A k \in i - n..i - 1 : text[k] = "\\"
                     /\ (i - n = 1 \/ text[i - n - 1] # "\\")
WordEnd(text) ==
  LET stops == {i \in DOMAIN text : /\ ~ Escaped1(text, i)
                                    /\ (WordStop(text[i]) \/ (text[i] = "." /\ WordBoundary(text, i + 1)))}
  IN  IF stops # {} THEN Min(stops)
      ELSE IF text # <<>> /\ Last(text) = "\\" /\ ~ Escaped1(text, Len(text)) THEN None
      ELSE Len(text) + 1

\* The ways to write a value between quotes, as raw and escaped characters: a
\* long string may not hold its own delimiter, nor end in a bare quote.
Quotes(width) == [i \in 1..width |-> "quote"]
Units(c, width) ==
  {<<"\\", e>> : e \in {x \in DOMAIN Escape : Escape[x] = c}}
  \cup {<<x>> : x \in {c} \ (IF width = 1 THEN {"\\", "quote", "\n"} ELSE {"\\"})}
Spellings(value, width) ==
  LET written == {w \in [DOMAIN value -> UNION {Units(c, width) : c \in Range(value)}] :
                    \A i \in DOMAIN value : w[i] \in Units(value[i], width)}
      Bare(w, i) == w[i] = <<"quote">>
      Legal(w) == /\ value # <<>> => ~ Bare(w, Len(value))
                  /\ \A i \in 1..Len(value) - 2 : \E k \in i..i + 2 : ~ Bare(w, k)
  IN  {Quotes(width) \o FlattenSeq(w) \o Quotes(width) : w \in {x \in written : Legal(x)}}
=============================================================================
