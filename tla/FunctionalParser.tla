--------------------------- MODULE FunctionalParser ---------------------------
(***************************************************************************)
(* The native Functional-Style parser (parse/functional.rs): a lexer, and  *)
(* a recursive descent over its tokens.  A token has a kind k and a value  *)
(* v; a word is split by what the parser asks of it: a prefixed name, a    *)
(* blank label, or bare.  A production is a sequence of forms.             *)
(***************************************************************************)
EXTENDS ParserJob

-----------------------------------------------------------------------------
(* The lexer                                                                *)

LineEnds == {"\r", "\n"}
Blankspace == {" ", "\t"} \cup LineEnds
Delimiters == {"(", ")", "=", "<", ">", "@", "^", "quote", "'"} \cup Blankspace
Alphanumeric == {"a", "1"}

\* The first position from i on whose character is not in the class.
RunEnd(text, i, class) ==
  CHOOSE j \in i..Len(text) + 1 : CharAt(text, j) \notin class /\ \A k \in i..j - 1 : text[k] \in class

RECURSIVE LexIri(_, _, _), LexString(_, _, _), LanguageEnd(_, _)

\* An escaped ">" does not end an IRI.
LexIri(text, i, escaped) ==
  IF i > Len(text) \/ CharAt(text, i) \in LineEnds THEN None
  ELSE IF text[i] = ">" /\ ~ escaped THEN i + 1
  ELSE LexIri(text, i + 1, text[i] = "\\" /\ ~ escaped)

LexString(text, i, value) ==
  IF i > Len(text) THEN None
  ELSE IF text[i] = "quote" THEN [end |-> i + 1, value |-> value]
  ELSE IF text[i] # "\\" THEN LexString(text, i + 1, Append(value, text[i]))
  ELSE IF CharAt(text, i + 1) \in {"quote", "\\"} THEN LexString(text, i + 2, Append(value, text[i + 1]))
  ELSE None

LanguageEnd(text, i) ==
  LET end == RunEnd(text, i, Alphanumeric)
  IN  IF CharAt(text, end) = "-" /\ CharAt(text, end + 1) \in Alphanumeric THEN LanguageEnd(text, end + 1) ELSE end
LexLanguage(text, i) == IF CharAt(text, i) \in Alphanumeric THEN LanguageEnd(text, i) ELSE None

WordLimit(text, i) ==
  CHOOSE j \in i..Len(text) + 1 :
    (j > Len(text) \/ text[j] \in Delimiters) /\ \A k \in i..j - 1 : text[k] \notin Delimiters
LexWord(text, i) == IF WordLimit(text, i) = i THEN None ELSE WordLimit(text, i)

Lexeme(kind, end, value) == IF end = None THEN None ELSE [kind |-> kind, end |-> end, value |-> value]
LexToken(text, i) ==
  CASE text[i] \in {"(", ")", "="} -> Lexeme(text[i], i + 1, None)
    [] text[i] = "^" /\ CharAt(text, i + 1) = "^" -> Lexeme("hat", i + 2, None)
    [] text[i] = "<" -> Lexeme("iri", LexIri(text, i + 1, FALSE), None)
    [] text[i] = "quote" -> LET s == LexString(text, i + 1, <<>>)
                            IN  IF s = None THEN None ELSE Lexeme("string", s.end, s.value)
    [] text[i] = "@" -> Lexeme("language", LexLanguage(text, i + 1), None)
    [] OTHER -> LET end == LexWord(text, i)
                IN  Lexeme(IF end # None /\ RunEnd(text, i, {"1"}) = end THEN "integer" ELSE "word", end, None)

\* The position after one more character of a token; CR LF is one line end.
AdvancePosition(position, c) ==
  IF c = "\n" /\ position.cr THEN [position EXCEPT !.cr = FALSE]
  ELSE IF c \in LineEnds THEN [line |-> position.line + 1, column |-> 1, cr |-> c = "\r"]
  ELSE [line |-> position.line, column |-> position.column + 1, cr |-> FALSE]
After1(text, from, to, line, column) ==
  FoldLeft(AdvancePosition, [line |-> line, column |-> column, cr |-> FALSE], SubSeq(text, from, to - 1))

RECURSIVE Tokenize(_, _, _, _, _)
Tokenize(text, i, line, column, tokens) ==
  IF i > Len(text) THEN tokens
  ELSE IF text[i] \in {" ", "\t"} THEN Tokenize(text, i + 1, line, column + 1, tokens)
  ELSE IF text[i] \in LineEnds THEN
    Tokenize(text, IF text[i] = "\r" /\ CharAt(text, i + 1) = "\n" THEN i + 2 ELSE i + 1, line + 1, 1, tokens)
  ELSE IF text[i] = "#" THEN
    LET end == CHOOSE j \in i..Len(text) + 1 :
                 (j > Len(text) \/ text[j] \in LineEnds) /\ \A k \in i..j - 1 : text[k] \notin LineEnds
    IN  Tokenize(text, end, line, column + (end - i), tokens)
  ELSE LET t == LexToken(text, i)
       IN  IF t = None THEN None
           ELSE LET next == After1(text, i, t.end, line, column)
                IN  Tokenize(text, t.end, next.line, next.column,
                      Append(tokens, [kind |-> t.kind, value |-> t.value, start |-> i, end |-> t.end,
                                      line |-> line, column |-> column]))

-----------------------------------------------------------------------------
(* Cursor                                                                   *)

Peek(p) == job.items[p.cursor]
At(p, kind) == Peek(p).k = kind
AtWord(p, value) == At(p, "word") /\ Peek(p).v = value
Take(p) == [p EXCEPT !.cursor = @ + 1]
Expect(p, kind) == IF Failed(p) THEN p ELSE IF At(p, kind) THEN Take(p) ELSE Fail(p, "syntax")
ExpectWord(p, value) == IF Failed(p) THEN p ELSE IF AtWord(p, value) THEN Take(p) ELSE Fail(p, "syntax")
Return(p, value) == [p EXCEPT !.out = value]
Enforce(p, limit, observed) == FailIf(p, observed > job.limits[limit], "limit")

Open(p) == Then(Expect(p, "("), LAMBDA q : Enforce([q EXCEPT !.depth = @ + 1], "depth", q.depth + 1))
Close(p) == Then(Expect(p, ")"), LAMBDA q : [q EXCEPT !.depth = @ - 1])

StartsIri(p) == At(p, "iri") \/ At(p, "pname")
CallName(p) == IF At(p, "word") /\ job.items[p.cursor + 1].k = "(" THEN Peek(p).v ELSE "none"

IriValue(p, t) ==
  CASE t.k = "iri" -> t.v
    [] t.k = "pname" /\ t.v[1] \in DOMAIN p.prefixes -> p.prefixes[t.v[1]] \o t.v[2]
    [] OTHER -> None
ParseIri(p) ==
  LET Read(value) == IF value = None THEN Fail(p, "syntax")
                     ELSE Enforce(Return(Take(p), IriNode(value)), "iri", Len(value))
  IN  IF Failed(p) THEN p ELSE Read(IriValue(p, Peek(p)))

ParseNamed(p, kind) == Then(ParseIri(p), LAMBDA q : Return(q, Entity(kind, q.out)))

ParseEntity(p) ==
  IF ~ At(p, "word") \/ Peek(p).v \notin EntityKinds THEN Fail(p, "syntax")
  ELSE Close(ParseNamed(Open(Take(p)), Peek(p).v))

ParseIndividual(p) ==
  IF ~ At(p, "blank") THEN ParseNamed(p, "NamedIndividual")
  ELSE IF Peek(p).v = "" THEN Fail(p, "syntax")
  ELSE Return(Take(p), AnonymousNode(Peek(p).v))

ParseAnnotationSubject(p) == IF At(p, "blank") THEN ParseIndividual(p) ELSE ParseIri(p)

LowerTag(tag) == IF tag = "EN" THEN "en" ELSE tag

ParseLiteral(p) ==
  LET lexical == Peek(p).v
      Suffix(q) ==
        IF At(q, "lang") THEN
          Return([Take(q) EXCEPT !.spellings = IF job.sourceMap THEN Append(@, Peek(q).v) ELSE @],
                 LiteralNode(lexical, RdfPlainLiteral, LowerTag(Peek(q).v)))
        ELSE IF ~ At(q, "hat") THEN Return(q, LiteralNode(lexical, RdfPlainLiteral, None))
        ELSE Then(ParseNamed(Take(q), "Datatype"), LAMBDA r : Return(r, LiteralNode(lexical, r.out, None)))
  IN  Then(Expect(p, "string"), Suffix)

ParseAnnotationValue(p) ==
  IF At(p, "string") THEN ParseLiteral(p) ELSE ParseAnnotationSubject(p)

-----------------------------------------------------------------------------
(* Productions.  A form is one phrase, a set or sequence of them, a number,  *)
(* a filler that may be left out, or a parenthesis.                          *)

One(phrase) == <<"one", phrase>>
SetOf(phrase, minimum) == <<"set", phrase, minimum>>
ListOf(phrase, minimum) == <<"seq", phrase, minimum>>
Filler(phrase, default) == <<"filler", phrase, default>>
Integer == <<"integer">>
Left == <<"(">>
Right == <<")">>

RECURSIVE ParseOne(_, _), Many(_, _, _), AnnotationsFrom(_, _), Fields(_, _, _), QuantifiedArguments(_, _)

Many(p, phrase, values) ==
  LET Others(q) == Many(Enforce(q, "arity", Len(values) + 1), phrase, Append(values, q.out))
  IN  IF Failed(p) \/ At(p, ")") THEN Return(p, values) ELSE Others(ParseOne(p, phrase))

SetMany(p, phrase, minimum) ==
  LET Kept(q, members) == IF members = None THEN Fail(q, "syntax") ELSE Return(q, members)
  IN  Then(Many(p, phrase, <<>>), LAMBDA q : Kept(q, CanonicalSet(q.out, minimum, None)))

SeqMany(p, phrase, minimum) ==
  Then(Many(p, phrase, <<>>), LAMBDA q : FailIf(q, Len(q.out) < minimum, "syntax"))

ParseForm(p, form) ==
  CASE form[1] = "one" -> ParseOne(p, form[2])
    [] form[1] = "set" -> SetMany(p, form[2], form[3])
    [] form[1] = "seq" -> SeqMany(p, form[2], form[3])
    [] form[1] = "integer" -> Return(Expect(p, "integer"), Peek(p).v)
    [] form[1] = "filler" -> IF At(p, ")") THEN Return(p, form[3]) ELSE ParseOne(p, form[2])
    [] form[1] = "(" -> Open(p)
    [] form[1] = ")" -> Close(p)

Fields(p, forms, done) ==
  LET Others(q) == Fields(q, Tail(forms), IF Head(forms) \in {Left, Right} THEN done ELSE Append(done, q.out))
  IN  IF Failed(p) \/ forms = <<>> THEN Return(p, done) ELSE Others(ParseForm(p, Head(forms)))

Build(p, constructor, forms) ==
  Then(Fields(p, forms, <<>>), LAMBDA q : Return(q, NodeBuild(constructor, q.out)))
Call(p, constructor, forms) == Close(Build(Open(Take(p)), constructor, forms))

\* Two written operands, one distinct one.
ParseIdempotentExpression(p, phrase, constructor) ==
  Then(Many(Open(Take(p)), phrase, <<>>),
       LAMBDA q : IF Len(q.out) < 2 THEN Fail(q, "syntax")
                  ELSE Close(Return(q, IdempotentNode(constructor, q.out))))

RangeForms ==
  [DataComplementOf |-> <<One("DataRange")>>, DataOneOf |-> <<SetOf("Literal", 1)>>,
   DatatypeRestriction |-> <<One("Datatype"), SetOf("FacetRestriction", 1)>>]
RangeConstructors == DOMAIN RangeForms \cup {"DataIntersectionOf", "DataUnionOf"}

ParseDataRange(p) ==
  LET name == CallName(p)
  IN  IF name = "none" THEN ParseNamed(p, "Datatype")
      ELSE IF name \in Idempotent /\ name \in RangeConstructors THEN ParseIdempotentExpression(p, "DataRange", name)
      ELSE IF name \in DOMAIN RangeForms THEN Call(p, name, RangeForms[name])
      ELSE Fail(p, "syntax")

ObjectCardinality == <<Integer, One("ObjectPropertyExpression"), Filler("ClassExpression", OwlThing)>>
DataCardinality == <<Integer, One("DataProperty"), Filler("DataRange", RdfsLiteral)>>
ClassForms ==
  [ObjectComplementOf |-> <<One("ClassExpression")>>,
   ObjectOneOf |-> <<SetOf("Individual", 1)>>,
   ObjectSomeValuesFrom |-> <<One("ObjectPropertyExpression"), One("ClassExpression")>>,
   ObjectAllValuesFrom |-> <<One("ObjectPropertyExpression"), One("ClassExpression")>>,
   ObjectHasValue |-> <<One("ObjectPropertyExpression"), One("Individual")>>,
   ObjectHasSelf |-> <<One("ObjectPropertyExpression")>>,
   ObjectMinCardinality |-> ObjectCardinality,
   ObjectMaxCardinality |-> ObjectCardinality,
   ObjectExactCardinality |-> ObjectCardinality,
   DataHasValue |-> <<One("DataProperty"), One("Literal")>>,
   DataMinCardinality |-> DataCardinality,
   DataMaxCardinality |-> DataCardinality,
   DataExactCardinality |-> DataCardinality]
Quantified == {"DataSomeValuesFrom", "DataAllValuesFrom"}
ClassConstructors == DOMAIN ClassForms \cup Quantified \cup {"ObjectIntersectionOf", "ObjectUnionOf"}

\* Every name but the last is a property; the last one, or an expression, is
\* the range.
QuantifiedArguments(p, properties) ==
  LET last == CallName(p) \in RangeConstructors
      Named(q) == IF ~ At(q, ")")
                  THEN QuantifiedArguments(Enforce(q, "arity", Len(properties) + 1),
                                           Append(properties, Entity("DataProperty", q.out)))
                  ELSE IF properties = <<>> THEN Fail(q, "syntax")
                  ELSE Return(q, <<properties, Entity("Datatype", q.out)>>)
  IN  IF Failed(p) THEN p
      ELSE IF At(p, ")") \/ (last /\ properties = <<>>) THEN Fail(p, "syntax")
      ELSE IF last THEN Then(ParseOne(p, "DataRange"), LAMBDA q : Return(q, <<properties, q.out>>))
      ELSE Then(ParseIri(p), Named)

ParseClassExpression(p) ==
  LET name == CallName(p)
  IN  CASE name \notin ClassConstructors -> ParseNamed(p, "Class")
        [] name \in Idempotent -> ParseIdempotentExpression(p, "ClassExpression", name)
        [] name \in Quantified -> Close(Then(QuantifiedArguments(Open(Take(p)), <<>>),
                                             LAMBDA q : Return(q, NodeBuild(name, q.out))))
        [] OTHER -> Call(p, name, ClassForms[name])

ParseObjectProperty(p) ==
  IF AtWord(p, "ObjectInverseOf") THEN Call(p, "ObjectInverseOf", <<One("ObjectProperty")>>)
  ELSE ParseNamed(p, "ObjectProperty")
ParseSubObjectProperty(p) ==
  IF AtWord(p, "ObjectPropertyChain") THEN Call(p, "ObjectPropertyChain", <<ListOf("ObjectPropertyExpression", 2)>>)
  ELSE ParseObjectProperty(p)

ParseVariable(p) == Call(p, "Variable", <<One("IRI")>>)
ParseSwrlIarg(p) == IF AtWord(p, "Variable") THEN ParseVariable(p) ELSE ParseIndividual(p)
ParseSwrlDarg(p) == IF AtWord(p, "Variable") THEN ParseVariable(p) ELSE ParseLiteral(p)

AtomForms ==
  [ClassAtom |-> <<One("ClassExpression"), One("IArgument")>>,
   DataRangeAtom |-> <<One("DataRange"), One("DArgument")>>,
   ObjectPropertyAtom |-> <<One("ObjectPropertyExpression"), One("IArgument"), One("IArgument")>>,
   DataPropertyAtom |-> <<One("DataProperty"), One("IArgument"), One("DArgument")>>,
   BuiltInAtom |-> <<One("IRI"), ListOf("DArgument", 0)>>,
   SameIndividualAtom |-> <<One("IArgument"), One("IArgument")>>,
   DifferentIndividualsAtom |-> <<One("IArgument"), One("IArgument")>>]
ParseSwrlAtom(p) ==
  IF ~ At(p, "word") \/ Peek(p).v \notin DOMAIN AtomForms THEN Fail(p, "syntax")
  ELSE Call(p, Peek(p).v, AtomForms[Peek(p).v])

\* Annotations are counted as written and kept as a set.
ParseAnnotation(p) ==
  LET Annotated(q, nested) == Return(q, NodeBuild("Annotation", Append(q.out, nested)))
      Pair(q) == Close(Fields(q, <<One("AnnotationProperty"), One("AnnotationValue")>>, <<>>))
  IN  Then(AnnotationsFrom(Open(Take(p)), <<>>), LAMBDA q : Then(Pair(q), LAMBDA r : Annotated(r, q.out)))
AnnotationsFrom(p, values) ==
  LET Others(q) == AnnotationsFrom(Enforce(q, "annotations", Len(values) + 1), Append(values, q.out))
  IN  IF Failed(p) \/ ~ AtWord(p, "Annotation") THEN Return(p, Range(values)) ELSE Others(ParseAnnotation(p))
ParseAnnotations(p) == AnnotationsFrom(p, <<>>)

ParseOne(p, phrase) ==
  IF Failed(p) THEN p
  ELSE CASE phrase \in EntityKinds -> ParseNamed(p, phrase)
         [] phrase = "IRI" -> ParseIri(p)
         [] phrase = "Entity" -> ParseEntity(p)
         [] phrase = "Individual" -> ParseIndividual(p)
         [] phrase = "Literal" -> ParseLiteral(p)
         [] phrase = "AnnotationSubject" -> ParseAnnotationSubject(p)
         [] phrase = "AnnotationValue" -> ParseAnnotationValue(p)
         [] phrase = "ObjectPropertyExpression" -> ParseObjectProperty(p)
         [] phrase = "SubObjectPropertyExpression" -> ParseSubObjectProperty(p)
         [] phrase = "ClassExpression" -> ParseClassExpression(p)
         [] phrase = "DataRange" -> ParseDataRange(p)
         [] phrase = "FacetRestriction" -> Build(p, phrase, <<One("IRI"), One("Literal")>>)
         [] phrase = "IArgument" -> ParseSwrlIarg(p)
         [] phrase = "DArgument" -> ParseSwrlDarg(p)
         [] phrase = "Atom" -> ParseSwrlAtom(p)

-----------------------------------------------------------------------------
(* Members of a document                                                    *)

ClassSet == <<SetOf("ClassExpression", 2)>>
PropertySet == <<SetOf("ObjectPropertyExpression", 2)>>
DataPropertySet == <<SetOf("DataProperty", 2)>>
OneProperty == <<One("ObjectPropertyExpression")>>
PropertyAndClass == <<One("ObjectPropertyExpression"), One("ClassExpression")>>
ObjectAssertion == <<One("ObjectPropertyExpression"), One("Individual"), One("Individual")>>
DataAssertion == <<One("DataProperty"), One("Individual"), One("Literal")>>
PropertyAndIri == <<One("AnnotationProperty"), One("IRI")>>
AxiomForms ==
  [Declaration |-> <<One("Entity")>>,
   SubClassOf |-> <<One("ClassExpression"), One("ClassExpression")>>,
   EquivalentClasses |-> ClassSet,
   DisjointUnion |-> <<One("Class"), SetOf("ClassExpression", 2)>>,
   SubObjectPropertyOf |-> <<One("SubObjectPropertyExpression"), One("ObjectPropertyExpression")>>,
   EquivalentObjectProperties |-> PropertySet,
   DisjointObjectProperties |-> PropertySet,
   InverseObjectProperties |-> <<One("ObjectPropertyExpression"), One("ObjectPropertyExpression")>>,
   ObjectPropertyDomain |-> PropertyAndClass,
   ObjectPropertyRange |-> PropertyAndClass,
   FunctionalObjectProperty |-> OneProperty,
   InverseFunctionalObjectProperty |-> OneProperty,
   ReflexiveObjectProperty |-> OneProperty,
   IrreflexiveObjectProperty |-> OneProperty,
   SymmetricObjectProperty |-> OneProperty,
   AsymmetricObjectProperty |-> OneProperty,
   TransitiveObjectProperty |-> OneProperty,
   SubDataPropertyOf |-> <<One("DataProperty"), One("DataProperty")>>,
   EquivalentDataProperties |-> DataPropertySet,
   DisjointDataProperties |-> DataPropertySet,
   DataPropertyDomain |-> <<One("DataProperty"), One("ClassExpression")>>,
   DataPropertyRange |-> <<One("DataProperty"), One("DataRange")>>,
   FunctionalDataProperty |-> <<One("DataProperty")>>,
   DatatypeDefinition |-> <<One("Datatype"), One("DataRange")>>,
   HasKey |-> <<One("ClassExpression"), Left, SetOf("ObjectPropertyExpression", 0), Right,
                Left, SetOf("DataProperty", 0), Right>>,
   SameIndividual |-> <<SetOf("Individual", 2)>>,
   DifferentIndividuals |-> <<SetOf("Individual", 2)>>,
   ClassAssertion |-> <<One("ClassExpression"), One("Individual")>>,
   ObjectPropertyAssertion |-> ObjectAssertion,
   NegativeObjectPropertyAssertion |-> ObjectAssertion,
   DataPropertyAssertion |-> DataAssertion,
   NegativeDataPropertyAssertion |-> DataAssertion,
   AnnotationAssertion |-> <<One("AnnotationProperty"), One("AnnotationSubject"), One("AnnotationValue")>>,
   SubAnnotationPropertyOf |-> <<One("AnnotationProperty"), One("AnnotationProperty")>>,
   AnnotationPropertyDomain |-> PropertyAndIri,
   AnnotationPropertyRange |-> PropertyAndIri]

\* An inverse pair is kept in order.
AxiomFields(name, fields) ==
  IF name = "InverseObjectProperties" /\ PropertyBefore(fields[2], fields[1]) THEN <<fields[2], fields[1]>> ELSE fields

AxiomRow(p, name, annotations) ==
  IF name = "HasKey" /\ p.out[2] = {} /\ p.out[3] = {} THEN Fail(p, "syntax")
  ELSE Close(Return(p, <<NodeBuild(name, Append(AxiomFields(name, p.out), annotations))>>))

DisjointRows(p, annotations) ==
  Then(FailIf(Close(p), Len(p.out) < 2, "syntax"), LAMBDA q : Return(q, DisjointClassAxioms(p.out, annotations)))

ParseAxiom(p) ==
  LET name == Peek(p).v
      Rows(q) == IF name = "DisjointClasses"
                 THEN Then(Many(q, "ClassExpression", <<>>), LAMBDA r : DisjointRows(r, q.out))
                 ELSE Then(Fields(q, AxiomForms[name], <<>>), LAMBDA r : AxiomRow(r, name, q.out))
  IN  IF ~ At(p, "word") \/ name \notin DOMAIN AxiomForms \cup {"DisjointClasses"} THEN Fail(p, "syntax")
      ELSE Then(ParseAnnotations(Open(Take(p))), Rows)

ParseSwrlRule(p) ==
  LET sides == <<Left, SetOf("Atom", 0), Right, Left, SetOf("Atom", 0), Right>>
      Ruled(q, annotations) ==
        Return(Close(Enforce(Enforce(q, "atoms", Cardinality(q.out[1])), "atoms", Cardinality(q.out[2]))),
               NodeBuild("SWRLRule", Append(q.out, annotations)))
  IN  Then(ParseAnnotations(Open(Take(p))),
           LAMBDA q : Then(Fields(q, sides, <<>>), LAMBDA r : Ruled(r, q.out)))

NewFunctionalParser ==
  [err |-> None, cursor |-> 1, depth |-> 0, phase |-> "prefixes", prefixes |-> WellKnownPrefixes, out |-> None,
   ontology |-> <<>>, imports |-> <<>>, annotations |-> <<>>, axioms |-> <<>>, extensions |-> <<>>, spellings |-> <<>>]

RECURSIVE PushAxioms(_, _, _)
PushAxioms(p, nodes, span) ==
  IF Failed(p) \/ nodes = <<>> THEN p
  ELSE LET q == [p EXCEPT !.axioms = Append(@, [node |-> Head(nodes), span |-> span])]
       IN  PushAxioms(Enforce(q, "axioms", Len(q.axioms)), Tail(nodes), span)

FunctionalRunning == job.format = "functional" /\ outcome = "running"
Settled(p) == IF Failed(p) THEN p ELSE [p EXCEPT !.out = None]

Underscore == 0
PrefixName(t) ==
  CASE t.k = "pname" /\ t.v[2] = <<>> -> t.v[1]
    [] t.k = "blank" /\ t.v = "" -> Underscore
    [] OTHER -> None

\* A later declaration replaces an earlier one, and a well known one.
ParsePrefix(p) ==
  LET Counted(q) == Close(Enforce(q, "prefixes", Cardinality(DOMAIN q.prefixes)))
      Bound(q, name, value) ==
        Then(Enforce(Take(q), "iri", Len(value)),
             LAMBDA r : Counted([r EXCEPT !.prefixes = (name :> value) @@ @]))
      Valued(q, name) == IF At(q, "iri") THEN Bound(q, name, Peek(q).v) ELSE Fail(q, "syntax")
      Named(q, name) == IF name = None THEN Fail(q, "syntax")
                        ELSE Then(Expect(Take(q), "="), LAMBDA r : Valued(r, name))
  IN  Then(Open(Take(p)), LAMBDA q : Named(q, PrefixName(Peek(q))))

ReadPrefix ==
  /\ FunctionalRunning /\ parser.phase = "prefixes" /\ AtWord(parser, "Prefix")
  /\ Continue(Settled(ParsePrefix(parser)))

\* The ontology IRI, and after one a version.
ReadHeader ==
  /\ FunctionalRunning /\ parser.phase = "prefixes" /\ ~ AtWord(parser, "Prefix")
  /\ LET ReadIri(p) == IF StartsIri(p)
                       THEN Then(ParseIri(p), LAMBDA q : [q EXCEPT !.ontology = Append(@, q.out)]) ELSE p
         Versioned(p) == IF p.ontology = <<>> THEN p ELSE ReadIri(p)
         Headed(p) == [p EXCEPT !.phase = "members"]
     IN  Continue(Settled(Headed(Then(Then(Open(ExpectWord(parser, "Ontology")), ReadIri), Versioned))))

Member(p) ==
  LET Spanned(q) == [node |-> q.out, span |-> <<p.cursor, q.cursor - 1>>]
  IN  CASE AtWord(p, "Import") ->
             Then(Close(ParseIri(Open(Take(p)))), LAMBDA q : [q EXCEPT !.imports = Append(@, q.out)])
        [] AtWord(p, "Annotation") ->
             Then(ParseAnnotation(p), LAMBDA q : [q EXCEPT !.annotations = Append(@, Spanned(q))])
        [] AtWord(p, "SWRLRule") ->
             IF ~ job.allowSwrl THEN Fail(p, "disabled")
             ELSE Then(ParseSwrlRule(p), LAMBDA q : [q EXCEPT !.extensions = Append(@, Spanned(q))])
        [] OTHER -> Then(ParseAxiom(p), LAMBDA q : PushAxioms(q, q.out, Spanned(q).span))

ReadMember ==
  /\ FunctionalRunning /\ parser.phase = "members" /\ ~ At(parser, ")")
  /\ Continue(Settled(Member(parser)))

FinishFunctional ==
  /\ FunctionalRunning /\ parser.phase = "members" /\ At(parser, ")")
  /\ Complete(Expect(Close(parser), "eof"))

FunctionalNext == ReadPrefix \/ ReadHeader \/ ReadMember \/ FinishFunctional
=============================================================================
