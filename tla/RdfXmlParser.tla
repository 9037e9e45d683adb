----------------------------- MODULE RdfXmlParser -----------------------------
(***************************************************************************)
(* The streaming RDF/XML parser (ingestion/rdfxml.rs): XmlStream cuts the  *)
(* text into markup, GraphParser keeps a stack of open elements and adds   *)
(* triples as they close.                                                  *)
(*                                                                         *)
(* A document is a sequence of markup items.  A raw name is a pair of      *)
(* prefix and local part.  An attribute has a kind: "iri" (its value is a  *)
(* reference), "token" (an atom) or "text" (characters).  Raw text is a    *)
(* sequence of characters <<"c", x>> and character references <<"r", x>>. *)
(***************************************************************************)
EXTENDS ParserJob

XmlNs == Namespace("xml")
XmlnsNs == Namespace("xmlns")
XInclude == Namespace("xinclude")
WellKnownPrefix == RdfNs :> "rdf"

IsNCName(value) == value \notin {"", "0"}
Whitespace == {" ", "\n", "\r", "\t"}
IsSpace(text) == \A i \in DOMAIN text : text[i] \in Whitespace

NewRdfXmlParser ==
  [cursor |-> 1, declared |-> FALSE, namespaces |-> <<<<"xml", XmlNs>>>>, rdfIds |-> {},
   frames |-> <<>>, triples |-> {}, blanks |-> 0, prefixes |-> 0, rootClosed |-> FALSE,
   capture |-> None, spellings |-> <<>>, labels |-> {}, sourcePrefixes |-> <<>>, err |-> None]

-----------------------------------------------------------------------------
(* XmlStream: references, line ends, and the XML declaration               *)

Normalized(c, kind) ==
  IF kind = "attribute" /\ c \in {"\n", "\r", "\t"} THEN " "
  ELSE IF c = "\r" THEN "\n" ELSE c

\* A line feed after a carriage return is the same line end.  A referenced
\* character is never normalised.
DecodeXmlValue(raw, kind) ==
  LET kept == SelectSeq([i \in DOMAIN raw |-> i],
                LAMBDA i : ~ (i > 1 /\ raw[i] = <<"c", "\n">> /\ raw[i - 1] = <<"c", "\r">>))
  IN  [k \in DOMAIN kept |-> LET c == raw[kept[k]]
                             IN  IF c[1] = "r" THEN c[2] ELSE Normalized(c[2], kind)]

\* A general entity other than the five of XML would need a DTD.
DecodeError(raw) ==
  IF \E i \in DOMAIN raw : raw[i] = <<"r", "entity">> THEN "forbidden"
  ELSE IF \E i \in DOMAIN raw : raw[i] \in {<<"c", "&">>, <<"c", "]]>">>} THEN "syntax"
  ELSE None

Encodings == "utf8" :> {"utf-8", "us-ascii"} @@ "utf16le" :> {"utf-16", "utf-16le"}
             @@ "utf16be" :> {"utf-16", "utf-16be"}

\* validate_xml_declaration: version first, then encoding, then standalone,
\* each of the last two at most once.
DeclarationError(attrs, encoding) ==
  LET names == [i \in DOMAIN attrs |-> attrs[i][1]]
      Bad(i) == \/ names[i] \notin {"encoding", "standalone"}
                \/ \E j \in 2..i - 1 : names[j] = names[i] \/ names[j] = "standalone"
                \/ names[i] = "standalone" /\ attrs[i][2] \notin {"yes", "no"}
      Foreign(i) == names[i] = "encoding" /\ attrs[i][2] \notin Encodings[encoding]
      wrong == {i \in 2..Len(attrs) : Bad(i) \/ Foreign(i)}
      first == CHOOSE i \in wrong : \A j \in wrong : i <= j
  IN  IF attrs = <<>> \/ attrs[1] # <<"version", "1.0">> THEN "syntax"
      ELSE IF wrong = {} THEN None
      ELSE IF Bad(first) THEN "syntax" ELSE "forbidden"

-----------------------------------------------------------------------------
(* Names                                                                   *)

\* The innermost binding of a prefix; an unprefixed attribute has none.
NamespaceOf(p, raw, attribute) ==
  LET Innermost(bound) ==
        IF ~ IsNCName(raw[2]) THEN None
        ELSE IF raw[1] = "" /\ (attribute \/ bound = {}) THEN NoNamespace
        ELSE IF bound = {} THEN None
        ELSE p.namespaces[Max(bound)][2]
  IN  Innermost({i \in DOMAIN p.namespaces : p.namespaces[i][1] = raw[1]})

NameIn(namespace, local) == IF namespace = None THEN None ELSE Name(namespace, local)
Expand(p, raw, attribute) == NameIn(NamespaceOf(p, raw, attribute), raw[2])

IsDeclaration(a) == a.name[1] = "xmlns"
IsReservedXml(a) == (IF a.name[1] = "" THEN a.name[2] ELSE a.name[1]) \in {"xml", "xmlData"}
LegacyRdf == {"ID", "about", "resource", "parseType", "type"}
IsLegacy(a) == a.name[1] = "" /\ a.name[2] \in LegacyRdf

ExpandRdfAttribute(p, a) == IF IsLegacy(a) THEN Rdf(a.name[2]) ELSE Expand(p, a.name, TRUE)

\* attribute(): the value of the attribute with this name, or None.
FirstValue(attrs, found) ==
  IF found = {} THEN None ELSE attrs[CHOOSE i \in found : \A j \in found : i <= j].value
Attribute(p, attrs, namespace, local) ==
  FirstValue(attrs, {i \in DOMAIN attrs : /\ ~ IsDeclaration(attrs[i])
                                          /\ namespace = XmlNs \/ ~ IsReservedXml(attrs[i])
                                          /\ ExpandRdfAttribute(p, attrs[i]) = Name(namespace, local)})

\* The attributes that carry RDF, as indices.
RdfAttributes(attrs) == {i \in DOMAIN attrs : ~ IsDeclaration(attrs[i]) /\ ~ IsReservedXml(attrs[i])}

\* Outside an XML literal the old unqualified spelling of an RDF attribute
\* counts as the qualified one.
UniqueAttributes(p, attrs, rdf) ==
  LET plain == {i \in DOMAIN attrs : ~ IsDeclaration(attrs[i])}
      names == [i \in plain |-> Expand(p, attrs[i].name, TRUE)]
  IN  /\ \A i \in plain : names[i] # None
      /\ \A i, j \in plain : names[i] = names[j] => i = j
      /\ rdf => \A i, j \in RdfAttributes(attrs) :
                   IsLegacy(attrs[i]) => names[j] # Rdf(attrs[i].name[2])

RejectUnknownAttributes(p, attrs, allowed) ==
  FailIf(p, \E i \in RdfAttributes(attrs) : ExpandRdfAttribute(p, attrs[i]) \notin allowed, "syntax")

CoreSyntax == {Rdf(n) : n \in {"RDF", "ID", "about", "parseType", "resource", "nodeID", "datatype"}}
OldSyntax == {Rdf(n) : n \in {"aboutEach", "aboutEachPrefix", "bagID"}}
IsNodeElement(iri) == iri \notin CoreSyntax \cup OldSyntax \cup {Rdf("li")}
IsPropertyElement(iri) == iri \notin CoreSyntax \cup OldSyntax \cup {Rdf("Description")}
IsForbiddenAttribute(iri) == iri \in CoreSyntax \cup OldSyntax \cup {Rdf("Description"), Rdf("li")}
IsPropertyAttribute(iri) == ~ IsForbiddenAttribute(iri) /\ iri.scheme # "xml"

-----------------------------------------------------------------------------
(* start(): namespace declarations and the checks every element passes     *)

BindingAllowed(prefix, namespace) ==
  /\ prefix # "xmlns"
  /\ prefix = "" \/ IsNCName(prefix)
  /\ (prefix = "xml") = (namespace = XmlNs)
  /\ prefix # "" => namespace # NoNamespace
  /\ namespace # XmlnsNs

\* retain_source_prefix: the last declaration of a prefix is the one kept,
\* and undeclaring the default namespace forgets it.
RetainSourcePrefix(p, prefix, namespace) ==
  IF ~ job.sourceMap THEN p
  ELSE IF namespace = NoNamespace
  THEN [p EXCEPT !.sourcePrefixes = [x \in DOMAIN @ \ {prefix} |-> @[x]]]
  ELSE [p EXCEPT !.sourcePrefixes = (prefix :> namespace) @@ @]

Declare(p, a) ==
  IF Failed(p) \/ ~ IsDeclaration(a) THEN p
  ELSE IF ~ BindingAllowed(a.name[2], a.value) THEN Fail(p, "syntax")
  ELSE IF p.prefixes + 1 > job.limits.prefixes THEN Fail(p, "limit")
  ELSE RetainSourcePrefix([p EXCEPT !.prefixes = @ + 1, !.namespaces = Append(@, <<a.name[2], a.value>>)],
                          a.name[2], a.value)

\* The spelling of the tag is kept apart: the parser lowers it.
SelectedLanguage(attrs) ==
  LET Values(raw) == {attrs[i].value : i \in {k \in DOMAIN attrs : attrs[k].name = raw}}
      tagged == Values(<<"xml", "lang">>) \ {""}
      chosen == IF tagged = {} THEN Values(<<"", "lang">>) ELSE tagged
  IN  IF chosen = {} THEN None ELSE CHOOSE v \in chosen : TRUE

RetainSpelling(p, attrs) ==
  IF job.sourceMap /\ SelectedLanguage(attrs) # None
  THEN [p EXCEPT !.spellings = Append(@, SelectedLanguage(attrs))] ELSE p

RetainLabel(p, attrs) ==
  IF job.sourceMap THEN [p EXCEPT !.labels = @ \cup ({Attribute(p, attrs, RdfNs, "nodeID")} \ {None})] ELSE p

Parent(p) == Last(p.frames)
ParentKind(p) == IF p.frames = <<>> THEN "none" ELSE Parent(p).role.k
InXmlLiteral(p) == ParentKind(p) \in {"XmlLiteralProperty", "XmlLiteralElement"}

DecodedAttributes(attrs) ==
  [i \in DOMAIN attrs |-> IF attrs[i].kind = "text"
                          THEN [attrs[i] EXCEPT !.value = DecodeXmlValue(@, "attribute")] ELSE attrs[i]]

\* start_event.
Tokenized(p, e) ==
  LET errors == {DecodeError(e.attrs[i].value) : i \in {k \in DOMAIN e.attrs : e.attrs[k].kind = "text"}}
      repeated == \E i, j \in DOMAIN e.attrs : i # j /\ e.attrs[i].name = e.attrs[j].name
  IN  IF repeated THEN Fail(p, "syntax")
      ELSE IF "forbidden" \in errors THEN Fail(p, "forbidden")
      ELSE FailIf(p, p.rootClosed \/ "syntax" \in errors, "syntax")

\* The first half of start().
Opened(p, e) ==
  LET Named(q, name) == IF ~ UniqueAttributes(q, e.attrs, ~ InXmlLiteral(p)) \/ name = None
                        THEN Fail(q, "syntax") ELSE FailIf(q, name.scheme = "xinclude", "forbidden")
  IN  Then(FoldLeft(Declare, RetainSpelling(Tokenized(p, e), e.attrs), e.attrs),
           LAMBDA q : Named(q, Expand(q, e.name, FALSE)))

BaseOf(p, attrs) ==
  LET outer == IF p.frames = <<>> \/ Parent(p).base = None THEN job.base ELSE Parent(p).base
      given == Attribute(p, attrs, XmlNs, "base")
  IN  IF given = None THEN outer ELSE ResolveIri(given, outer)

Lower == "EN" :> "en" @@ "en" :> "en" @@ "" :> ""
LanguageOf(p, attrs) ==
  LET given == Attribute(p, attrs, XmlNs, "lang")
  IN  IF given # None THEN Lower[given]
      ELSE IF p.frames = <<>> THEN None ELSE Parent(p).language

PushFrame(p, raw, start, base, language, role) ==
  IF Failed(p) THEN p
  ELSE IF Len(p.frames) + 1 > job.limits.depth THEN Fail(p, "limit")
  ELSE [p EXCEPT !.frames = Append(@, [raw |-> raw, start |-> start, base |-> base,
                                       language |-> language, role |-> role])]

-----------------------------------------------------------------------------
(* Triples of one element                                                  *)

Fresh(p) == [p EXCEPT !.blanks = @ + 1]
FreshBlank(p) == Blank(<<"generated", p.blanks>>)

\* add_statement_reification, and add for the edge itself.
Reify(p, statement, s, predicate, o) ==
  IF statement = None THEN p
  ELSE LET about == Iri(statement)
           Put(q, t) == Add(q, about, Rdf(t[1]), t[2])
       IN  FoldLeft(Put, p, <<<<"type", Iri(Rdf("Statement"))>>, <<"subject", s>>,
                              <<"predicate", Iri(predicate)>>, <<"object", o>>>>)

State(p, statement, s, predicate, o) == Add(Reify(p, statement, s, predicate, o), s, predicate, o)

RdfId(value) == Reference(None, None, EmptyPath, None, value)
\* resolve_rdf_id: the same identifier may be used once per base.
ClaimId(p, value, base) ==
  IF Failed(p) \/ value = None THEN p
  ELSE IF ~ IsNCName(value) THEN Fail(p, "syntax")
  ELSE IF base = None THEN Fail(p, "relative")
  ELSE IF <<value, base>> \in p.rdfIds THEN Fail(p, "syntax")
  ELSE [p EXCEPT !.rdfIds = @ \cup {<<value, base>>}]

Resolved(p, reference, base) ==
  FailIf(p, reference # None /\ ResolveIri(reference, base) = None, "relative")

\* add_property_attributes, in source order.
AddPropertyAttributes(p, attrs, subject, base, language, ignored) ==
  LET plain == language \in {None, ""}
      AddAs(q, predicate, value) ==
        IF predicate \in ignored THEN q
        ELSE IF ~ IsPropertyAttribute(predicate)
        THEN Fail(q, IF IsForbiddenAttribute(predicate) THEN "syntax" ELSE "incomplete")
        ELSE IF predicate.scheme = None THEN Fail(q, "syntax")
        ELSE IF predicate = Rdf("type")
        THEN Then(Resolved(q, value, base),
                  LAMBDA r : Add(r, subject, predicate, Iri(ResolveIri(value, base))))
        ELSE Add(q, subject, predicate, Literal(value, IF plain THEN XsdString ELSE None,
                                                IF plain THEN None ELSE language))
      AddOne(q, a) == IF Failed(q) \/ IsDeclaration(a) \/ IsReservedXml(a) THEN q
                      ELSE AddAs(q, ExpandRdfAttribute(q, a), a.value)
  IN  FoldLeft(AddOne, p, attrs)

Role(p, role) == [p |-> p, role |-> role]
ThenRole(p, RoleOf(_)) == IF Failed(p) THEN Role(p, None) ELSE RoleOf(p)
NodeFrame(subject) == [k |-> "Node", subject |-> subject, nextLi |-> 1]

\* The subject of a node element: named, labelled or fresh.
NodeSyntax == {"about", "ID", "nodeID"}
NodeSubject(p, given, base) ==
  IF given.about # None THEN Iri(ResolveIri(given.about, base))
  ELSE IF given.ID # None THEN Iri(ResolveIri(RdfId(given.ID), base))
  ELSE IF given.nodeID # None THEN Blank(<<"label", given.nodeID>>)
  ELSE FreshBlank(p)

CheckedNode(p, name, given, base) ==
  IF ~ IsNodeElement(name) \/ Cardinality({n \in NodeSyntax : given[n] # None}) > 1 THEN Fail(p, "syntax")
  ELSE IF given.about # None THEN Resolved(p, given.about, base)
  ELSE IF given.ID # None THEN ClaimId(p, given.ID, base)
  ELSE IF given.nodeID # None THEN FailIf(p, ~ IsNCName(given.nodeID), "syntax")
  ELSE Fresh(p)

NodeRole(p, attrs, name, base, language) ==
  LET ignored == {Rdf(n) : n \in NodeSyntax} \cup {Name(XmlNs, "base"), Name(XmlNs, "lang")}
      Typed(q, subject) == IF name = Rdf("Description") THEN q ELSE Add(q, subject, Rdf("type"), Iri(name))
      Described(q, subject) ==
        Role(AddPropertyAttributes(Typed(q, subject), attrs, subject, base, language, ignored),
             NodeFrame(subject))
      Given(given) == ThenRole(CheckedNode(p, name, given, base),
                               LAMBDA q : Described(q, NodeSubject(q, given, base)))
  IN  Given([n \in NodeSyntax |-> Attribute(p, attrs, RdfNs, n)])

\* has_empty_property_attributes: what is left describes the object.
PropertySyntax == {Rdf(n) : n \in {"ID", "resource", "nodeID", "parseType", "datatype"}}
Describing(p, attrs) ==
  {ExpandRdfAttribute(p, attrs[i]) : i \in RdfAttributes(attrs)} \ PropertySyntax

\* parseType: a list, an implicit node, or (any other value) an XML literal.
ParseTypeRole(p, parseType, subject, predicate, statement) ==
  LET fresh == Fresh(p)
  IN  CASE parseType = "Collection" ->
             Role(p, [k |-> "Collection", subject |-> subject, predicate |-> predicate, head |-> None,
                      tail |-> None, members |-> 0, reification |-> statement])
        [] parseType = "Resource" ->
             Role(State(fresh, statement, subject, predicate, FreshBlank(fresh)), NodeFrame(FreshBlank(fresh)))
        [] OTHER ->
             Role(p, [k |-> "XmlLiteralProperty", subject |-> subject, predicate |-> predicate,
                      text |-> <<>>, reification |-> statement])

\* A property element whose object is told by its attributes, or is to come.
PlainPropertyRole(p, attrs, subject, predicate, base, language, statement) ==
  LET resource == Attribute(p, attrs, RdfNs, "resource")
      nodeId == Attribute(p, attrs, RdfNs, "nodeID")
      datatype == Attribute(p, attrs, RdfNs, "datatype")
      describing == Describing(p, attrs)
      wrong == {iri \in describing : ~ IsPropertyAttribute(iri)}
      checked == IF wrong # {}
                 THEN Fail(p, IF \E iri \in wrong : IsForbiddenAttribute(iri) THEN "syntax" ELSE "incomplete")
                 ELSE Resolved(Resolved(p, datatype, base), resource, base)
      implicit == describing # {} /\ resource = None /\ nodeId = None /\ datatype = None
      Object(q) == IF resource # None THEN Iri(ResolveIri(resource, base))
                   ELSE IF nodeId # None THEN Blank(<<"label", nodeId>>) ELSE FreshBlank(q)
      ignored == {Rdf(n) : n \in {"ID", "resource", "nodeID"}} \cup {Name(XmlNs, "base"), Name(XmlNs, "lang")}
      Described(q, object) == IF describing = {} THEN q
                              ELSE AddPropertyAttributes(q, attrs, object, base, language, ignored)
      Stated(q, object) == State(Described(q, object), statement, subject, predicate, object)
      Held(q, objectSet) ==
        Role(IF objectSet THEN Stated(q, Object(q)) ELSE q,
             [k |-> "Property", subject |-> subject, predicate |-> predicate,
              objectSet |-> objectSet, text |-> <<>>,
              datatype |-> IF datatype = None THEN None ELSE ResolveIri(datatype, base),
              language |-> language, reification |-> IF objectSet THEN None ELSE statement])
  IN  ThenRole(checked, LAMBDA q : Held(IF implicit THEN Fresh(q) ELSE q,
                                          resource # None \/ nodeId # None \/ implicit))

PropertyRole(p, attrs, subject, predicate, base, language) ==
  LET Given(n) == Attribute(p, attrs, RdfNs, n)
      exclusive == {n \in {"resource", "nodeID", "parseType", "datatype"} : Given(n) # None}
      refused == \/ ~ IsPropertyElement(predicate)
                 \/ Cardinality(exclusive) > 1
                 \/ Given("nodeID") # None /\ ~ IsNCName(Given("nodeID"))
      allowed == {Rdf("ID"), Rdf("parseType"), Name(XmlNs, "base"), Name(XmlNs, "lang")}
      Stated(q, statement) ==
        IF Given("parseType") # None
        THEN ThenRole(RejectUnknownAttributes(q, attrs, allowed),
                      LAMBDA r : ParseTypeRole(r, Given("parseType"), subject, predicate, statement))
        ELSE PlainPropertyRole(q, attrs, subject, predicate, base, language, statement)
      Identified(id) ==
        ThenRole(ClaimId(FailIf(p, refused, "syntax"), id, base),
                 LAMBDA q : Stated(q, IF id = None THEN None ELSE ResolveIri(RdfId(id), base)))
  IN  Identified(Given("ID"))

-----------------------------------------------------------------------------
(* XML literals: elements below a literal are captured as events, and are  *)
(* written out again, with prefixes of their own, when the property ends.  *)

CaptureStart(p, e) ==
  LET kept == SelectSeq(DecodedAttributes(e.attrs), LAMBDA a : ~ IsDeclaration(a))
      event == [e |-> "start", name |-> <<NamespaceOf(p, e.name, FALSE), e.name[2]>>,
                attrs |-> [i \in DOMAIN kept |-> <<NamespaceOf(p, kept[i].name, TRUE), kept[i].name[2],
                                                   kept[i].value>>]]
  IN  [p EXCEPT !.capture = Append(IF @ = None THEN <<>> ELSE @, event)]

CaptureText(p, text) == [p EXCEPT !.capture = Append(@, [e |-> "text", value |-> text])]
CaptureEnd(p) == [p EXCEPT !.capture = Append(@, [e |-> "end"])]

\* xml_literal_element_end: where the element that starts at i closes.
ElementEnd(events, i) ==
  CHOOSE j \in i..Len(events) :
    /\ events[j].e = "end"
    /\ LET Depth(k) == Cardinality({x \in i..k : events[x].e = "start"})
                       - Cardinality({x \in i..k : events[x].e = "end"})
       IN  Depth(j) = 0 /\ \A k \in i..j - 1 : Depth(k) > 0

\* The namespaces of an element in the order met.  A well known one has its
\* usual prefix, any other is numbered by its place.
NumberedPrefix == <<"ns0", "ns1", "ns2", "ns3">>
AddLiteralNamespace(table, namespace) ==
  IF namespace \in {NoNamespace, XmlNs} \/ \E i \in DOMAIN table : table[i][1] = namespace THEN table
  ELSE Append(table, <<namespace, IF namespace \in DOMAIN WellKnownPrefix THEN WellKnownPrefix[namespace]
                                  ELSE NumberedPrefix[Len(table) + 1]>>)

LiteralNamespaces(events) ==
  LET Named(event) == IF event.e # "start" THEN <<>>
                      ELSE <<event.name[1]>> \o [i \in DOMAIN event.attrs |-> event.attrs[i][1]]
      AddEach(table, event) == FoldLeft(AddLiteralNamespace, table, Named(event))
  IN  FoldLeft(AddEach, <<>>, events)

LiteralPrefix(table, namespace) ==
  IF namespace = NoNamespace THEN ""
  ELSE IF namespace = XmlNs THEN "xml"
  ELSE table[CHOOSE i \in DOMAIN table : table[i][1] = namespace][2]

\* append_xml_literal_escaped: carriage returns are escaped in attributes only.
Escaped(text, attribute) ==
  LET special == IF attribute THEN {"&", "<", ">", "quot", "\r", "\n", "\t"} ELSE {"&", "<", ">"}
  IN  [i \in DOMAIN text |-> <<IF text[i] \in special THEN "r" ELSE "c", text[i]>>]

\* One root element and the text after it, as markup with raw names.
SerializedEvent(events, i, table, root) ==
  LET event == events[i]
      Raw(name) == <<LiteralPrefix(table, name[1]), name[2]>>
      opener == CHOOSE k \in 1..i : events[k].e = "start" /\ ElementEnd(events, k) = i
      Attr(a) == [name |-> Raw(<<a[1], a[2]>>), value |-> Escaped(a[3], TRUE)]
  IN  CASE event.e = "start" ->
             [m |-> "start", name |-> Raw(event.name), xmlns |-> IF i = root THEN Range(table) ELSE {},
              attrs |-> [k \in DOMAIN event.attrs |-> Attr(event.attrs[k])]]
        [] event.e = "text" -> [m |-> "text", value |-> Escaped(event.value, FALSE)]
        [] event.e = "end" -> [m |-> "end", name |-> Raw(events[opener].name)]

RECURSIVE SerializeCapture(_, _)
SerializeCapture(events, i) ==
  IF i > Len(events) THEN <<>>
  ELSE IF events[i].e = "text"
  THEN <<SerializedEvent(events, i, <<>>, 0)>> \o SerializeCapture(events, i + 1)
  ELSE LET end == ElementEnd(events, i)
           table == LiteralNamespaces(SubSeq(events, i, end))
       IN  [k \in 1..end - i + 1 |-> SerializedEvent(events, i + k - 1, table, i)]
           \o SerializeCapture(events, end + 1)

\* The lexical form: the text before the first element, then the markup.
XmlLiteral(p, role) ==
  <<role.text, IF p.capture = None THEN <<>> ELSE SerializeCapture(p.capture, 1)>>

-----------------------------------------------------------------------------
(* end() and text()                                                        *)

EndProperty(p, role) ==
  LET language == IF role.datatype # None \/ role.language \in {None, ""} THEN None ELSE role.language
      datatype == IF role.datatype # None THEN role.datatype
                  ELSE IF language = None THEN XsdString ELSE None
  IN  IF role.objectSet THEN FailIf(p, ~ IsSpace(role.text), "syntax")
      ELSE State(p, role.reification, role.subject, role.predicate, Literal(role.text, datatype, language))

EndCollection(p, role) ==
  LET nil == Iri(Rdf("nil"))
      closed == IF role.tail = None THEN Add(p, role.subject, role.predicate, nil)
                ELSE Add(p, role.tail, Rdf("rest"), nil)
  IN  Reify(closed, role.reification, role.subject, role.predicate, IF role.head = None THEN nil ELSE role.head)

EndXmlLiteral(p, role) ==
  State([p EXCEPT !.capture = None], role.reification, role.subject, role.predicate,
        Literal(XmlLiteral(p, role), Rdf("XMLLiteral"), None))

EndRole(p, role) ==
  CASE role.k = "Property" -> EndProperty(p, role)
    [] role.k = "Collection" -> EndCollection(p, role)
    [] role.k = "XmlLiteralProperty" -> EndXmlLiteral(p, role)
    [] role.k = "XmlLiteralElement" -> CaptureEnd(p)
    [] OTHER -> p

\* The declarations of an element end with it.
End(p, raw) ==
  IF p.frames = <<>> \/ Last(p.frames).raw # raw THEN Fail(p, "syntax")
  ELSE [EndRole([p EXCEPT !.frames = Front(@)], Last(p.frames).role)
          EXCEPT !.namespaces = SubSeq(@, 1, Last(p.frames).start),
                 !.rootClosed = @ \/ Len(p.frames) = 1]

SetRole(p, role) == [p EXCEPT !.frames[Len(p.frames)].role = role]

\* Text before the first element of a literal is its own; later text belongs
\* to the capture.
Text(p, text) ==
  LET role == Parent(p).role
      kind == ParentKind(p)
  IN  CASE text = <<>> -> p
        [] kind = "XmlLiteralElement" \/ (kind = "XmlLiteralProperty" /\ p.capture # None) ->
             CaptureText(p, text)
        [] kind = "XmlLiteralProperty" \/ (kind = "Property" /\ ~ role.objectSet) ->
             IF Len(role.text) + Len(text) > job.limits.literal THEN Fail(p, "limit")
             ELSE SetRole(p, [role EXCEPT !.text = @ \o text])
        [] OTHER -> FailIf(p, ~ IsSpace(text), "syntax")

-----------------------------------------------------------------------------
(* parse(): one action per kind of markup, and per parent for a start tag  *)

RdfXmlRunning == outcome = "running" /\ job.format = "rdfxml"
Item == job.items[parser.cursor]
ItemIs(kind) == RdfXmlRunning /\ parser.cursor <= Len(job.items) /\ Item.k = kind
Advance(p) == [p EXCEPT !.cursor = @ + 1]

Comment ==
  /\ ItemIs("comment")
  /\ Continue(FailIf(Advance(parser), Item.dashes, "syntax"))

Doctype ==
  /\ ItemIs("doctype")
  /\ Continue(Fail(Advance(parser), "forbidden"))

\* Only the declaration, and only at the very start, may be called "xml".
ProcessingInstruction ==
  /\ ItemIs("pi")
  /\ LET error == DeclarationError(Item.attrs, job.encoding)
         next == Advance(parser)
     IN  Continue(IF Item.target = "xml"
                  THEN IF parser.cursor # 1 \/ parser.declared THEN Fail(next, "syntax")
                       ELSE IF error # None THEN Fail(next, error)
                       ELSE [next EXCEPT !.declared = TRUE]
                  ELSE FailIf(next, Item.target \in {"XML", "a:b"}, "syntax"))

TextItem ==
  /\ ItemIs("text")
  /\ LET error == DecodeError(Item.value)
     IN  Continue(IF error # None THEN Fail(Advance(parser), error)
                  ELSE Text(Advance(parser), DecodeXmlValue(Item.value, "text")))

CData ==
  /\ ItemIs("cdata")
  /\ Continue(Text(Advance(parser), DecodeXmlValue(Item.value, "text")))

EndTag ==
  /\ ItemIs("end")
  /\ Continue(End(Advance(parser), Item.name))

\* An empty element is closed at once.
Closed(p) == IF Failed(p) \/ ~ Item.empty THEN p ELSE End(p, Item.name)

\* The part of start() between the name checks and the role.
Entered(p) ==
  LET labelled == RetainLabel(p, Item.attrs)
      given == Attribute(p, Item.attrs, XmlNs, "base")
  IN  IF Expand(p, Item.name, FALSE).scheme = None THEN Fail(labelled, "syntax")
      ELSE FailIf(labelled, given # None /\ BaseOf(p, Item.attrs) = None, "relative")

\* StartAs(kinds, RoleOf(_, _, _, _, _)): an element under one of these parents.
StartAs(kinds, RoleOf(_, _, _, _, _)) ==
  /\ ItemIs("start")
  /\ ParentKind(parser) \in kinds
  /\ LET Framed(made, base, language) ==
           Closed(PushFrame(made.p, Item.name, Len(parser.namespaces), base, language, made.role))
         Placed(p, attrs, base, language) ==
           Framed(RoleOf(p, attrs, Expand(p, Item.name, FALSE), base, language), base, language)
         Entering(p, attrs) == Placed(p, attrs, BaseOf(p, attrs), LanguageOf(p, attrs))
     IN  Continue(Advance(Then(Then(Opened(parser, Item), Entered),
                               LAMBDA p : Entering(p, DecodedAttributes(Item.attrs)))))

RootRole(p, attrs, name, base, language) ==
  IF name = Rdf("RDF")
  THEN Role(RejectUnknownAttributes(p, attrs, {Name(XmlNs, "base"), Name(XmlNs, "lang")}), [k |-> "Root"])
  ELSE NodeRole(p, attrs, name, base, language)

\* rdf:li takes the next number of its node.
Membership == <<"_1", "_2", "_3", "_4">>
CountLiOnce(p, name) == p
CountLi(p, name) ==
  IF name = Rdf("li") THEN SetRole(p, [Parent(p).role EXCEPT !.nextLi = @ + 1]) ELSE p

ChildPropertyRole(p, attrs, name, base, language) ==
  LET node == Parent(p).role
  IN  PropertyRole(CountLi(p, name), attrs, node.subject,
                   IF name = Rdf("li") THEN Rdf(Membership[node.nextLi]) ELSE name, base, language)

\* set_parent_object: the statement is taken with the object.
ObjectRole(p, attrs, name, base, language) ==
  LET parent == Parent(p).role
      Taken(q) == SetRole(q, [parent EXCEPT !.objectSet = TRUE, !.reification = None])
      Stated(q, role) == State(Taken(q), parent.reification, parent.subject, parent.predicate, role.subject)
      Made(made) == IF Failed(made.p) THEN made ELSE Role(Stated(made.p, made.role), made.role)
  IN  IF parent.objectSet THEN Role(Fail(p, "syntax"), None)
      ELSE Made(NodeRole(p, attrs, name, base, language))

\* append_collection_member: a cell, linked to the subject or to the tail.
MemberRole(p, attrs, name, base, language) ==
  LET list == Parent(p).role
      Linked(q, cell) == IF list.tail = None THEN Add(q, list.subject, list.predicate, cell)
                         ELSE Add(q, list.tail, Rdf("rest"), cell)
      Filled(q, cell, item) ==
        SetRole(Add(Linked(q, cell), cell, Rdf("first"), item),
                [list EXCEPT !.head = IF @ = None THEN cell ELSE @, !.tail = cell, !.members = @ + 1])
      Celled(q, item) == Filled(q, FreshBlank(q), item)
      Made(made) == IF Failed(made.p) THEN made
                    ELSE Role(Celled(Fresh(made.p), made.role.subject), made.role)
  IN  IF list.members + 1 > job.limits.list THEN Role(Fail(p, "limit"), None)
      ELSE Made(NodeRole(p, attrs, name, base, language))

StartRoot == StartAs({"none"}, RootRole)
StartNode == StartAs({"Root"}, NodeRole)
StartProperty == StartAs({"Node"}, ChildPropertyRole)
StartObject == StartAs({"Property"}, ObjectRole)
StartMember == StartAs({"Collection"}, MemberRole)

StartLiteralElement ==
  /\ ItemIs("start")
  /\ InXmlLiteral(parser)
  /\ LET Captured(p) == Closed(PushFrame(CaptureStart(p, Item), Item.name, Len(parser.namespaces),
                                         None, None, [k |-> "XmlLiteralElement"]))
     IN  Continue(Advance(Then(Opened(parser, Item), Captured)))

FinishRdfXml ==
  /\ RdfXmlRunning
  /\ parser.cursor > Len(job.items)
  /\ Complete(FailIf(parser, parser.frames # <<>> \/ ~ parser.rootClosed, "syntax"))

RdfXmlNext ==
  \/ Comment \/ Doctype \/ ProcessingInstruction \/ TextItem \/ CData \/ EndTag
  \/ StartRoot \/ StartNode \/ StartProperty \/ StartObject \/ StartMember
  \/ StartLiteralElement \/ FinishRdfXml
=============================================================================
