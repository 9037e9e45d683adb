----------------------------- MODULE TurtleParser -----------------------------
(***************************************************************************)
(* The native Turtle parser (ingestion/turtle.rs).  Its recursive descent  *)
(* is a stack of frames; a term that is complete is delivered to the frame *)
(* below.  A token has a kind t and a value v; a word is split by what the *)
(* parser asks of it: a prefixed name, a blank label, or bare.             *)
(***************************************************************************)
EXTENDS ParserJob

-----------------------------------------------------------------------------
(* The lexer: where numbers, words and strings end                          *)

Digits == {"1"}
Signs == {"+", "-"}
Spaces == {" ", "\n"}
Closers == {";", ",", "[", "]", "(", ")"}

\* The first position from i on that holds no digit.
SkipDigits(text, i) ==
  CHOOSE j \in i..Len(text) + 1 : CharAt(text, j) \notin Digits /\ \A k \in i..j - 1 : text[k] \in Digits
SkipSign(text, i) == IF CharAt(text, i) \in Signs THEN i + 1 ELSE i

NumberBoundary(text, i) == i > Len(text) \/ text[i] \in Spaces \cup Closers \cup {"."}

\* number_end: one past the number that starts the text, or None.
NumberEnd(text) ==
  LET start == SkipSign(text, 1)
      whole == SkipDigits(text, start)
      dotted == CharAt(text, whole) = "."
      fraction == IF dotted THEN SkipDigits(text, whole + 1) ELSE whole
      exponent == IF CharAt(text, fraction) \in {"e", "E"} THEN SkipSign(text, fraction + 1) ELSE fraction
      end == SkipDigits(text, exponent)
      cut == IF exponent # fraction /\ end = exponent THEN fraction ELSE end
      digits == (whole - start) + (IF dotted THEN fraction - whole - 1 ELSE 0)
  IN  IF digits = 0 \/ ~ NumberBoundary(text, cut) THEN None ELSE cut

\* The datatype object() gives a number.
NumberType(text) ==
  IF \E i \in DOMAIN text : text[i] \in {"e", "E"} THEN "double"
  ELSE IF \E i \in DOMAIN text : text[i] = "." THEN "decimal" ELSE "integer"

WordStop(c) == c \in Spaces \cup Closers \cup {"<", ">", "quote", "^"}
WordBoundary(text, i) == i > Len(text) \/ WordStop(text[i]) \/ text[i] = "."

\* word_token: a backslash takes the next character whatever it is, and a dot
\* belongs to the word unless a boundary follows it.
RECURSIVE WordEndFrom(_, _)
WordEndFrom(text, i) ==
  IF i > Len(text) THEN i
  ELSE IF text[i] = "\\" THEN IF i = Len(text) THEN None ELSE WordEndFrom(text, i + 2)
  ELSE IF WordStop(text[i]) \/ (text[i] = "." /\ WordBoundary(text, i + 1)) THEN i
  ELSE WordEndFrom(text, i + 1)

\* A string is its value and the position after it, or None: a long one is
\* closed by three quotes, a short one by one and holds no line end.
Escape == "t" :> "tab" @@ "quote" :> "quote" @@ "\\" :> "\\"
DelimiterAt(text, i, width) == i + width - 1 <= Len(text) /\ \A k \in i..i + width - 1 : text[k] = "quote"

RECURSIVE StringFrom(_, _, _, _)
StringFrom(text, i, width, output) ==
  IF i > Len(text) THEN None
  ELSE IF DelimiterAt(text, i, width) THEN <<output, i + width>>
  ELSE IF width = 1 /\ text[i] = "\n" THEN None
  ELSE IF text[i] = "\\"
  THEN IF CharAt(text, i + 1) \notin DOMAIN Escape THEN None
       ELSE StringFrom(text, i + 2, width, Append(output, Escape[text[i + 1]]))
  ELSE StringFrom(text, i + 1, width, Append(output, text[i]))

StringToken(text) ==
  LET width == IF DelimiterAt(text, 1, 3) THEN 3 ELSE 1
  IN  StringFrom(text, width + 1, width, <<>>)

-----------------------------------------------------------------------------
(* The parser                                                              *)

NewTurtleParser ==
  [cursor |-> 1, stack |-> <<[k |-> "document"]>>, base |-> job.base, prefixes |-> <<>>, triples |-> {},
   blanks |-> 0, spellings |-> <<>>, labels |-> {}, err |-> None]

TurtleRunning == outcome = "running" /\ job.format = "turtle"
Eof == [t |-> "eof", v |-> None]
TokenAt(i) == IF i \in DOMAIN job.items THEN job.items[i] ELSE Eof
Token == TokenAt(parser.cursor)
Top == Last(parser.stack)
Took(p, n) == [p EXCEPT !.cursor = @ + n]
SetTop(p, frame) == [p EXCEPT !.stack[Len(p.stack)] = frame]
Push(p, frame) == [p EXCEPT !.stack = Append(@, frame)]
Pop(p) == [p EXCEPT !.stack = Front(@)]

ListFrame == [k |-> "list", values |-> <<>>]
\* predicate_object_list of this subject; want is what its loop reads next.
PairsFrame(subject, closer) ==
  [k |-> "pairs", subject |-> subject, predicate |-> None, want |-> "verb", closer |-> closer]

\* fresh: the label is the stem and the counter, as an author could write it.
FreshLabel(p, stem) == Blank(<<stem, p.blanks + 1>>)
Counted(p) == [p EXCEPT !.blanks = @ + 1]

RecordExplicitBlank(p, label) == IF job.sourceMap THEN [p EXCEPT !.labels = @ \cup {label}] ELSE p

\* A prefix bound again has its new value.
InstallPrefix(p, prefix, iri) ==
  IF prefix \notin DOMAIN p.prefixes /\ Cardinality(DOMAIN p.prefixes) + 1 > job.limits.prefixes
  THEN Fail(p, "limit")
  ELSE [p EXCEPT !.prefixes = (prefix :> iri) @@ @]

\* iri(): a reference against the base, or a prefix and a local name.
ReadIri(p, token) ==
  CASE token.t = "iri" -> ResolveIri(token.v, p.base)
    [] token.t = "pname" -> IF token.v[1] \in DOMAIN p.prefixes
                            THEN Name(p.prefixes[token.v[1]], token.v[2]) ELSE None
    [] OTHER -> None
IriError(p, token) ==
  IF ReadIri(p, token) # None THEN None ELSE IF token.t = "iri" THEN "relative" ELSE "syntax"

XsdType(local) == Name(Namespace("xsd"), local)

\* A complete term goes to whoever asked for it.
Deliver(p, term) ==
  LET frame == Last(p.stack)
      grown == [frame EXCEPT !.values = Append(@, term)]
  IN  CASE frame.k = "document" -> Push(p, PairsFrame(term, "."))
        [] frame.k = "list" -> FailIf(SetTop(p, grown), Len(grown.values) > job.limits.list, "limit")
        [] frame.k = "pairs" ->
             SetTop(Add(p, frame.subject, frame.predicate, term), [frame EXCEPT !.want = "after"])

Wants(kinds) ==
  /\ TurtleRunning
  /\ \/ Top.k \in kinds
     \/ "object" \in kinds /\ Top.k = "pairs" /\ Top.want = "object"

\* parse_directive.  The at forms end in a dot.
Directive ==
  /\ Wants({"document"})
  /\ \/ Token.t = "directive"
     \/ Token.t = "word" /\ Token.v \in {"prefix", "base"}
  /\ LET at == Token.t = "directive"
         declares == Token.v = "prefix"
         name == TokenAt(parser.cursor + 1)
         n == IF declares THEN 2 ELSE 1
         target == TokenAt(parser.cursor + n)
         iri == ResolveIri(target.v, parser.base)
         read == Took(parser, n + 1)
         done == IF declares THEN InstallPrefix(read, name.v[1], iri) ELSE [read EXCEPT !.base = iri]
     IN  Continue(IF declares /\ (name.t # "pname" \/ name.v[2] # "") THEN Fail(parser, "syntax")
                  ELSE IF target.t # "iri" THEN Fail(parser, "syntax")
                  ELSE IF iri = None THEN Fail(parser, "relative")
                  ELSE IF ~ at \/ Failed(done) THEN done
                  ELSE IF TokenAt(done.cursor).t # "." THEN Fail(done, "syntax") ELSE Took(done, 1))

\* A label, or an IRI, in subject or object position.
ResourceTerm ==
  /\ Wants({"document", "list", "object"})
  /\ Token.t \in {"iri", "pname", "blank"}
  /\ LET read == Took(parser, 1)
         error == IriError(parser, Token)
     IN  Continue(IF Token.t = "blank" THEN Deliver(RecordExplicitBlank(read, Token.v), Blank(Token.v))
                  ELSE IF error # None THEN Fail(parser, error)
                  ELSE Deliver(read, Iri(ReadIri(parser, Token))))

\* A string may carry a language or a datatype.
StringObject ==
  /\ Wants({"list", "object"})
  /\ Token.t = "string"
  /\ LET next == TokenAt(parser.cursor + 1)
         type == TokenAt(parser.cursor + 2)
         spelled == IF job.sourceMap THEN [parser EXCEPT !.spellings = Append(@, next.v)] ELSE parser
     IN  Continue(CASE next.t = "lang" -> Deliver(Took(spelled, 2), Literal(Token.v, None, next.v))
                    [] next.t = "hat" ->
                         IF IriError(parser, type) # None THEN Fail(parser, IriError(parser, type))
                         ELSE Deliver(Took(parser, 3), Literal(Token.v, ReadIri(parser, type), None))
                    [] OTHER -> Deliver(Took(parser, 1), Literal(Token.v, XsdString, None)))

WordObject ==
  /\ Wants({"list", "object"})
  /\ \/ Token.t = "number"
     \/ Token.t = "word" /\ Token.v \in {"true", "false"}
  /\ LET type == IF Token.t = "word" THEN "boolean" ELSE NumberType(Token.v)
     IN  Continue(Deliver(Took(parser, 1), Literal(Token.v, XsdType(type), None)))

\* blank_property_list
OpenBracket ==
  /\ Wants({"document", "list", "object"})
  /\ Token.t = "["
  /\ LET node == FreshLabel(parser, "anon")
         read == Counted(Took(parser, 1))
     IN  Continue(IF TokenAt(read.cursor).t = "]" THEN Deliver(Took(read, 1), node)
                  ELSE Push(read, PairsFrame(node, "]")))

OpenList ==
  /\ Wants({"document", "list", "object"})
  /\ Token.t = "("
  /\ Continue(Push(Took(parser, 1), ListFrame))

\* collection: one cell per value, made when the list closes.
CloseList ==
  /\ Wants({"list"})
  /\ Token.t = ")"
  /\ LET values == Top.values
         Cell(i) == IF i > Len(values) THEN Iri(Rdf("nil")) ELSE Blank(<<"list", parser.blanks + i>>)
         closed == [Pop(Took(parser, 1)) EXCEPT !.blanks = @ + Len(values)]
         Link(p, i) == Add(Add(p, Cell(i), Rdf("first"), values[i]), Cell(i), Rdf("rest"), Cell(i + 1))
         linked == FoldLeft(Link, closed, [i \in DOMAIN values |-> i])
     IN  Continue(IF Failed(linked) THEN linked ELSE Deliver(linked, Cell(1)))

Verb ==
  /\ TurtleRunning /\ Top.k = "pairs" /\ Top.want = "verb"
  /\ LET short == Token.t = "word" /\ Token.v = "a"
         predicate == IF short THEN Rdf("type") ELSE ReadIri(parser, Token)
     IN  Continue(IF ~ short /\ IriError(parser, Token) # None THEN Fail(parser, IriError(parser, Token))
                  ELSE SetTop(Took(parser, 1), [Top EXCEPT !.predicate = predicate, !.want = "object"]))

\* After an object: another object, another verb, or the end of the list.
After ==
  /\ TurtleRunning /\ Top.k = "pairs" /\ Top.want = "after"
  /\ LET here == parser.cursor
         past == CHOOSE j \in here..Len(job.items) + 1 :
                   TokenAt(j).t # ";" /\ \A k \in here..j - 1 : TokenAt(k).t = ";"
         skipped == [parser EXCEPT !.cursor = past]
         ends == past = here \/ TokenAt(past).t \in {Top.closer, "]"}
         closed == Took(Pop(skipped), 1)
     IN  Continue(IF Token.t = "," THEN SetTop(Took(parser, 1), [Top EXCEPT !.want = "object"])
                  ELSE IF ~ ends THEN SetTop(skipped, [Top EXCEPT !.want = "verb"])
                  ELSE IF TokenAt(past).t # Top.closer THEN Fail(skipped, "syntax")
                  ELSE IF Top.closer = "." THEN closed ELSE Deliver(closed, Top.subject))

\* Any other token where a term is wanted.
Unexpected ==
  /\ \/ Wants({"list", "object"})
     \/ Wants({"document"}) /\ Token.t # "eof"
  /\ Token.t \notin {"iri", "pname", "blank", "[", "("}
  /\ Top.k # "document" => /\ Token.t \notin {"string", "number"}
                           /\ ~ (Token.t = "word" /\ Token.v \in {"true", "false"})
                           /\ ~ (Top.k = "list" /\ Token.t = ")")
  /\ Top.k = "document" => Token.t # "directive" /\ ~ (Token.t = "word" /\ Token.v \in {"prefix", "base"})
  /\ Continue(Fail(parser, "syntax"))

FinishTurtle ==
  /\ Wants({"document"})
  /\ Token.t = "eof"
  /\ Complete(parser)

TurtleNext ==
  \/ Directive \/ ResourceTerm \/ StringObject \/ WordObject \/ OpenBracket \/ OpenList \/ CloseList
  \/ Verb \/ After \/ Unexpected \/ FinishTurtle
=============================================================================
