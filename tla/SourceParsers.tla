---------------------------- MODULE SourceParsers ----------------------------
(***************************************************************************)
(* One parse of one document, in any of the formats of the native backend. *)
(***************************************************************************)
EXTENDS GraphMeaning, OwlMeaning

CONSTANT Suites  \* sets of documents, each with its options and limits

Init ==
  /\ \E suite \in Suites : job \in suite
  /\ outcome = "running"
  /\ parser = CASE job.format = "rdfxml" -> NewRdfXmlParser
                [] job.format = "turtle" -> NewTurtleParser
                [] job.format = "functional" -> NewFunctionalParser
                [] job.format = "owlxml" -> NewOwlXmlParser
                [] OTHER -> [err |-> None, iri |-> None]

ResolveOne ==
  /\ job.format = "iri" /\ outcome = "running"
  /\ LET iri == ResolveIri(job.reference, job.base)
     IN  Complete([err |-> IF iri = None THEN "relative" ELSE None, iri |-> iri])

LexOne ==
  /\ job.format \in {"number", "word", "string", "functional_text"} /\ outcome = "running"
  /\ LET Read(read) == Complete([err |-> IF read = None THEN "syntax" ELSE None, read |-> read])
     IN  Read(CASE job.format = "number" -> NumberEnd(job.text)
                [] job.format = "word" -> WordEndFrom(job.text, 1)
                [] job.format = "string" -> StringToken(job.text)
                [] job.format = "functional_text" -> Tokenize(job.text, 1, 1, 1, <<>>))

Done == outcome # "running" /\ UNCHANGED jobVars

Next == RdfXmlNext \/ TurtleNext \/ FunctionalNext \/ OwlXmlNext \/ ResolveOne \/ LexOne \/ Done

Spec == Init /\ [][Next]_jobVars

IsJob(format) == outcome # "running" /\ job.format = format

Errors == {"syntax", "forbidden", "relative", "incomplete", "limit", "disabled", "root"}
TypeOK == outcome \in {"running", "ok"} \cup Errors /\ (outcome \in Errors) = Failed(parser)

\* resolve_iri gives the IRI of RFC 3986: over an absolute base, the segments
\* that no ".." takes back, with the query of the base kept only for a
\* reference that has neither a path nor a query of its own.
ResolvesLikeRfc3986 ==
  IsJob("iri") =>
    LET r == job.reference
        inherits == r.scheme = None /\ r.authority = None /\ r.path = EmptyPath
        path == IF inherits THEN job.base.path
                ELSE IF r.scheme # None \/ r.authority # None THEN r.path ELSE TargetPath(r, job.base)
    IN  /\ (outcome = "ok") = (r.scheme # None \/ job.base # None)
        /\ outcome = "ok" /\ (path = EmptyPath \/ path[1] = "") =>
             parser.iri = Serialize([scheme |-> IF r.scheme = None THEN job.base.scheme ELSE r.scheme,
                authority |-> IF r.scheme = None /\ r.authority = None THEN job.base.authority ELSE r.authority,
                path |-> IF inherits \/ path = EmptyPath THEN path ELSE NormalPath(path),
                query |-> IF inherits /\ r.query = None THEN job.base.query ELSE r.query,
                fragment |-> r.fragment])

\* The Turtle lexer takes the longest number, stops a word at the first stop
\* that is not escaped, and reads a string back however it was written; the
\* tokens of Functional-Style text tile it, each with its line and column.
LexemesAreMaximal ==
  /\ IsJob("number") =>
       LET n == LongestNumber(job.text)
       IN  parser.read = IF n = 0 \/ ~ NumberBoundary(job.text, n + 1) THEN None ELSE n + 1
  /\ IsJob("word") => parser.read = WordEnd(job.text)
  /\ IsJob("string") => parser.read = <<job.value, Len(job.text) + 1>>
  /\ IsJob("functional_text") /\ outcome = "ok" => TokensTile(job.text, parser.read)

StructuralJob == job.format \in {"functional", "owlxml"}

\* The parsers accept exactly the documents of their grammar, and a limit
\* refuses exactly those of them that are larger: nothing a parser met
\* earlier, and nothing it dropped, changes the verdict.  A document without a
\* tree is one with its markup broken.
Verdict(valid, large) ==
  /\ outcome # "limit" => (outcome = "ok") = valid
  /\ valid => (outcome = "limit") = large
AcceptsExactlyTheGrammar ==
  /\ (IsJob("rdfxml") \/ IsJob("functional") \/ IsJob("owlxml")) /\ job.doc = None => outcome # "ok"
  /\ IsJob("rdfxml") /\ job.doc # None => Verdict(ValidDocument(job.doc), TooLarge(job.doc))
  /\ IsJob("turtle") /\ outcome \notin {"limit", "relative"} => (outcome = "ok") = (NamesKnown /\ Grammatical(1))
  /\ IsJob("turtle") /\ job.doc # None =>
       (outcome \in {"ok", "limit"} => (outcome = "limit") = TurtleTooLarge(job.doc))
  /\ StructuralJob /\ outcome # "running" /\ job.doc # None => Verdict(ValidOwl(job.doc), OwlTooLarge(job.doc))

\* An accepted document becomes the graph its tree means, up to the names of
\* blank nodes.  In RDF/XML, scopes end with their element, rdf:li counts per
\* node, a statement is reified once, and an XML literal reads back as what
\* was captured; in Turtle, a prefix or base holds until the next one.  A
\* structural document becomes the rows of its axioms: operands nested in the
\* same constructor are its own, a lone operand stands for itself, and classes
\* said to be disjoint from themselves are empty.
GraphIsMeaning ==
  /\ outcome = "ok" /\ StructuralJob => OwlRowsAreMeaning(job.doc)
  /\ outcome = "ok" /\ job.format = "rdfxml" =>
       Isomorphic(RereadGraph(parser.triples), Meaning(job.doc.root, job.base))
  /\ outcome = "ok" /\ job.format = "turtle" =>
       (job.doc # None => Isomorphic(parser.triples, TurtleGraph(job.doc)))

\* What the source map keeps of an accepted document: the last binding of
\* every prefix, every label an author wrote (outside XML literals), the
\* language tags as spelled, and where each structural member stands.
SourceMapIsComplete ==
  /\ IsJob("rdfxml") /\ outcome = "ok" =>
       /\ parser.sourcePrefixes = IF job.sourceMap THEN LastPrefixes(job.doc.root) ELSE <<>>
       /\ parser.labels = IF job.sourceMap THEN NodeLabels(TopScope(job.base), job.doc.root) ELSE {}
  /\ IsJob("turtle") /\ outcome = "ok" =>
       /\ job.doc # None => parser.prefixes = PrefixesAt(job.doc, Len(job.doc) + 1)
       /\ parser.labels = IF job.sourceMap THEN {x.v : x \in Range(TokensOf("blank"))} ELSE {}
       /\ [i \in DOMAIN parser.spellings |-> Tok("lang", parser.spellings[i])]
            = IF job.sourceMap THEN TokensOf("lang") ELSE <<>>
  /\ StructuralJob /\ outcome = "ok" => OwlSourceMap(job.doc)

\* The pieces a document is made of are read as they are defined: IRI
\* references by RFC 3986, lexemes as the longest the grammar allows.
PiecesReadAsDefined == ResolvesLikeRfc3986 /\ LexemesAreMaximal

\* The verdict on a document depends on the document alone: accepted exactly
\* when it is grammatical and within the limits, whatever state the parser
\* carries from one element or statement to the next.
VerdictsAreExact == TypeOK /\ AcceptsExactlyTheGrammar

\* An accepted document means what its tree means, graph or rows, and the
\* source map tells where and how it was written.
ReadsAsMeant == GraphIsMeaning /\ SourceMapIsComplete
=============================================================================
