----------------------------- MODULE ParserJob ------------------------------
(***************************************************************************)
(* What the native source parsers share: one parse of one document, the    *)
(* sticky error of Rust's `?`, RDF terms, the resolution of IRIs, and the  *)
(* canonical nodes of the structural parsers.                              *)
(*                                                                         *)
(* resolve_iri (ingestion/rdfxml.rs), the RFC 3986 reference resolution    *)
(* that the RDF/XML and the Turtle parser share.  A reference is the       *)
(* record parse_iri_reference makes.  A path is kept split at its slashes: *)
(* "" is <<"">>, "/" is <<"", "">> and "/a/." is <<"", "a", ".">>.         *)
(***************************************************************************)
EXTENDS Sequences, Naturals, FiniteSets, SequencesExt, TLC, Functions

CONSTANT None

Reference(scheme, authority, path, query, fragment) ==
  [scheme |-> scheme, authority |-> authority, path |-> path, query |-> query, fragment |-> fragment]

EmptyPath == <<"">>
IsAbsolutePath(path) == Len(path) > 1 /\ path[1] = ""

\* remove_last_path_segment truncates at the last slash.
RemoveLastPathSegment(path) == IF Len(path) > 1 THEN Front(path) ELSE EmptyPath

RECURSIVE RemoveDots(_, _)
RemoveDots(input, output) ==
  LET below == <<"">> \o SubSeq(input, 3, Len(input))
      second == input[2]
  IN  CASE input = EmptyPath -> output
        [] input \in {<<".">>, <<"..">>} -> output
        [] input[1] \in {".", ".."} -> RemoveDots(Tail(input), output)
        [] input[1] # "" -> RemoveDots(IF Len(input) = 1 THEN EmptyPath ELSE <<"">> \o Tail(input),
                                       <<input[1]>>)
        [] second = "." -> RemoveDots(IF Len(input) = 2 THEN <<"", "">> ELSE below, output)
        [] second = ".." -> RemoveDots(IF Len(input) = 2 THEN <<"", "">> ELSE below,
                                       RemoveLastPathSegment(output))
        [] OTHER -> RemoveDots(below, Append(output, second))

RemoveDotSegments(path) == RemoveDots(path, EmptyPath)

MergeAtRoot(base, path) == <<"">> \o path

MergePaths(base, path) ==
  IF base.authority # None /\ base.path = EmptyPath THEN <<"">> \o path
  ELSE Front(base.path) \o path

\* An IRI is kept as text and parsed again when it is used as a base: without
\* an authority, a path that starts with two slashes is read back as one.
Serialize(r) ==
  IF r.authority = None /\ Len(r.path) > 2 /\ r.path[1] = "" /\ r.path[2] = ""
  THEN [r EXCEPT !.authority = r.path[3], !.path = <<"">> \o SubSeq(r.path, 4, Len(r.path))]
  ELSE r

\* None when a relative reference meets no base.  A reference without a path
\* keeps that of the base as it is.
ResolveIri(r, base) ==
  LET inherits == r.scheme = None /\ r.authority = None
      same == inherits /\ r.path = EmptyPath
      path == IF inherits /\ ~ IsAbsolutePath(r.path) THEN MergePaths(base, r.path) ELSE r.path
  IN  IF r.scheme = None /\ base = None THEN None
      ELSE Serialize([r EXCEPT !.scheme = IF @ = None THEN base.scheme ELSE @,
                               !.authority = IF inherits THEN base.authority ELSE @,
                               !.path = IF same THEN base.path ELSE RemoveDotSegments(path),
                               !.query = IF same /\ @ = None THEN base.query ELSE @])

-----------------------------------------------------------------------------
(* What resolution should compute, said of the segments of an absolute     *)
(* path: a segment stays unless it is a dot segment or a later ".." takes  *)
(* it back.                                                                *)

Dots == {".", ".."}
Survives(path, i) ==
  /\ path[i] \notin Dots
  /\ \A j \in i + 1..Len(path) :
       Cardinality({k \in i + 1..j : path[k] = ".."}) <= Cardinality({k \in i + 1..j : path[k] \notin Dots})

NormalPath(path) ==
  LET kept == SelectSeq([i \in 1..Len(path) |-> i], LAMBDA i : i > 1 /\ Survives(path, i))
  IN  <<"">> \o [k \in DOMAIN kept |-> path[kept[k]]] \o (IF Last(path) \in Dots THEN <<"">> ELSE <<>>)

TargetPath(r, base) ==
  IF r.path[1] = "" THEN r.path
  ELSE IF base.path = EmptyPath THEN <<"">> \o r.path
  ELSE SubSeq(base.path, 1, Len(base.path) - 1) \o r.path

-----------------------------------------------------------------------------
(* One parse of one document.                                                 *)

VARIABLES
  job,      \* the document, its options and limits, chosen once
  parser,   \* the parser's fields while it runs
  outcome   \* "running", "ok" or the code of the error

jobVars == <<job, parser, outcome>>

CharAt(text, i) == IF i \in DOMAIN text THEN text[i] ELSE None

Failed(p) == p.err # None
Fail(p, code) == IF Failed(p) THEN p ELSE [p EXCEPT !.err = code]
FailIf(p, bad, code) == IF bad THEN Fail(p, code) ELSE p
Then(p, Step(_)) == IF Failed(p) THEN p ELSE Step(p)

\* An error drops the parser; nothing of it is published.
Continue(p) ==
  /\ parser' = p
  /\ outcome' = IF Failed(p) THEN p.err ELSE "running"
  /\ UNCHANGED job

Complete(p) ==
  /\ parser' = p
  /\ outcome' = IF Failed(p) THEN p.err ELSE "ok"
  /\ UNCHANGED job

Iri(r) == <<"iri", r>>
Blank(label) == <<"blank", label>>
Literal(lexical, datatype, language) == <<"literal", datatype, language, lexical>>
IsBlank(term) == term[1] = "blank"

Namespace(scheme) == Reference(scheme, None, EmptyPath, None, "")
NoNamespace == Reference(None, None, EmptyPath, None, None)
Name(namespace, local) ==
  IF namespace = NoNamespace THEN Reference(None, None, <<local>>, None, None)
  ELSE [namespace EXCEPT !.fragment = local]

RdfNs == Namespace("rdf")
Rdf(local) == Name(RdfNs, local)
XsdString == Name(Namespace("xsd"), "string")

\* The graph is a set; a triple that is there already costs nothing.
Add(p, s, predicate, o) ==
  IF Failed(p) \/ <<s, predicate, o>> \in p.triples THEN p
  ELSE IF Cardinality(p.triples) + 1 > job.limits.triples THEN Fail(p, "limit")
  ELSE [p EXCEPT !.triples = @ \cup {<<s, predicate, o>>}]

-----------------------------------------------------------------------------
(* Two graphs say the same when a renaming of blank nodes makes them equal. *)

Blanks(g) == {t \in UNION {{x[1], x[3]} : x \in g} : IsBlank(t)}
Renamed(g, f) ==
  LET New(t) == IF IsBlank(t) THEN f[t] ELSE t
  IN  {<<New(x[1]), x[2], New(x[3])>> : x \in g}

Isomorphic(g, h) ==
  /\ Cardinality(g) = Cardinality(h)
  /\ Cardinality(Blanks(g)) = Cardinality(Blanks(h))
  /\ \E f \in Bijection(Blanks(g), Blanks(h)) : Renamed(g, f) = h

-----------------------------------------------------------------------------
(***************************************************************************)
(* The canonical nodes that the structural parsers build (canonical.rs).   *)
(* A node is <<constructor, fields>>; a field is a node, a set or sequence *)
(* of nodes, or a value.  An IRI is a sequence of numbers, so that a       *)
(* prefixed name is a concatenation and an IRI has a length.               *)
(***************************************************************************)

NodeBuild(constructor, fields) == <<constructor, fields>>
IriNode(value) == NodeBuild("IRI", <<value>>)
EntityKinds == {"Class", "Datatype", "ObjectProperty", "DataProperty", "AnnotationProperty", "NamedIndividual"}
Entity(kind, iri) == NodeBuild("Entity", <<kind, iri>>)
AnonymousNode(label) == NodeBuild("AnonymousIndividual", <<label>>)
LiteralNode(lexical, datatype, language) == NodeBuild("Literal", <<lexical, datatype, language>>)

\* A prefix is a number: owl 1, rdf 2, rdfs 3, xsd 4.  An IRI that starts with
\* NoScheme is relative; 0 is a space.
NoScheme == 9
OwlThing == Entity("Class", IriNode(<<1, 1>>))
OwlNothing == Entity("Class", IriNode(<<1, 2>>))
RdfPlainLiteral == Entity("Datatype", IriNode(<<2, 1>>))
RdfsLiteral == Entity("Datatype", IriNode(<<3, 1>>))
WellKnownPrefixes == [n \in 1..4 |-> <<n>>]
ValidIri(value) == value # <<>> /\ 0 \notin Range(value) /\ value[1] # NoScheme

Idempotent == {"ObjectIntersectionOf", "ObjectUnionOf", "DataIntersectionOf", "DataUnionOf"}

\* The distinct members, those of a member of the same idempotent constructor
\* in its place; None when they are too few.
CanonicalSet(values, minimum, flatten) ==
  LET members == UNION {IF v[1] = flatten THEN v[2][1] ELSE {v} : v \in Range(values)}
  IN  IF Cardinality(members) < minimum THEN None ELSE members

\* One distinct operand is the expression itself.
IdempotentNode(constructor, operands) ==
  LET members == CanonicalSet(operands, 1, constructor)
  IN  IF Cardinality(members) = 1 THEN CHOOSE x \in members : TRUE ELSE NodeBuild(constructor, <<members>>)

\* Bytewise order of object properties: named ones before inverses, a shorter
\* IRI before a longer one.
PropertyIri(property) ==
  IF property[1] = "Entity" THEN property[2][2][2][1] ELSE property[2][1][2][2][2][1]
IriBefore(a, b) ==
  \/ Len(a) < Len(b)
  \/ Len(a) = Len(b) /\ \E i \in DOMAIN a : a[i] < b[i] /\ \A j \in 1..i - 1 : a[j] = b[j]
PropertyBefore(a, b) ==
  \/ a[1] = "Entity" /\ b[1] # "Entity"
  \/ a[1] = b[1] /\ IriBefore(PropertyIri(a), PropertyIri(b))

\* Equal expressions side by side, as sorting puts them.
Copies(s, x) == SelectSeq(s, LAMBDA y : y = x)
Grouped(s) == LET distinct == SetToSeq(Range(s)) IN FlattenSeq([i \in DOMAIN distinct |-> Copies(s, distinct[i])])

\* A class said to be disjoint from itself is empty: one axiom for each class
\* that is repeated, next to the one for the classes that are distinct.
DisjointClassAxioms(expressions, annotations) ==
  LET sorted == Grouped(expressions)
      repeated == {i \in 2..Len(sorted) : sorted[i - 1] = sorted[i] /\ (i = 2 \/ sorted[i - 2] # sorted[i])}
      Axiom(i) == NodeBuild("SubClassOf", <<sorted[i], OwlNothing, annotations>>)
  IN  (IF Cardinality(Range(sorted)) >= 2 THEN <<NodeBuild("DisjointClasses", <<Range(sorted), annotations>>)>> ELSE <<>>)
      \o [n \in DOMAIN SetToSeq(repeated) |-> Axiom(SetToSeq(repeated)[n])]

=============================================================================
