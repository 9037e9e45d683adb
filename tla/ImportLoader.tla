----------------------------- MODULE ImportLoader -----------------------------
(***************************************************************************)
(* SnapshotLoader.load (pyowl_core/document/imports.py): the import        *)
(* closure of a root document, level by level.  All imports of a level are *)
(* resolved, acquired and parsed (in parallel), then entered in sorted     *)
(* order; a document is known by its bytes and structure, keyed by its     *)
(* ontology identity or, anonymous, by its structure and import IRI.       *)
(*                                                                         *)
(* A document is a model value with its ontology and version IRI, bytes,   *)
(* structure and imports; axiom, term and byte limits work like the        *)
(* document limit and are left out.  What resolving, acquiring and parsing *)
(* one import can come to is one answer of the constant Answers; a         *)
(* resolver may answer the same IRI differently each time.                 *)
(***************************************************************************)
EXTENDS Integers, Sequences, FiniteSets, FiniteSetsExt

CONSTANTS
  Docs, Root,
  IRIs,            \* import IRIs, numbered in canonical order
  Nothing,         \* no ontology IRI, no version IRI, no import IRI, no key
  Ontology,        \* Ontology[d]: the ontology IRI of d, or Nothing
  Version,         \* Version[d]: the version IRI of d, or Nothing
  Bytes,           \* Bytes[d]: source_sha256
  Structure,       \* Structure[d]: document_fingerprint
  Imports,         \* Imports[d]: direct_imports
  Answers,         \* Answers[i]: documents and failures importing i may give
  Policies,        \* ImportPolicy values in use
  Limits,          \* the ParseLimits in use
  MaxTries         \* attempts a chain of resolvers may make beyond one per import

\* Not found, denied and failed resolutions and acquisitions; a parse error; a
\* limit met while acquiring.
Failures == {"not_found", "denied", "failed", "malformed", "resource_limit"}

ASSUME ImportLoaderAssumption ==
  /\ IRIs \subseteq Nat /\ IsFiniteSet(IRIs)
  /\ IsFiniteSet(Docs) /\ Docs \cap Failures = {}
  /\ Root \in Docs /\ Nothing \notin IRIs
  /\ Imports \in [Docs -> SUBSET IRIs]
  /\ Answers \in [IRIs -> SUBSET (Docs \cup Failures)]
  /\ Policies \subseteq {"IGNORE", "RECORD_UNRESOLVED", "RESOLVE_STRICT"}
  /\ Limits \subseteq [depth: Nat \ {0}, documents: Nat \ {0}, attempts: Nat \ {0},
                       diagnostics: Nat \ {0}]
  /\ MaxTries \in Nat
  /\ \A d \in Docs : Ontology[d] = Nothing => Version[d] = Nothing

VARIABLES
  policy,       \* options.imports
  limits,       \* options.limits
  resolver,     \* a resolver was given
  phase,        \* "start", "resolve", "enter", or the end: "done", "failed"
  reason,       \* why the load failed
  pending,      \* the imports of the level to resolve
  batch,        \* the level's imports left to enter, in order, with their answers
  nextPending,  \* the imports of the next level found so far
  nodes,        \* nodes: the retained documents, with their keys
  edges,        \* edges of the manifest
  attempts,     \* counters["resolver_attempts"]
  shown,        \* diagnostics retained, the suppression marker included
  suppressed    \* the count of the suppression marker, 0 if there is none

vars == <<policy, limits, resolver, phase, reason, pending, batch, nextPending, nodes,
          edges, attempts, shown, suppressed>>

options == <<policy, limits, resolver>>
found   == <<nodes, edges, shown, suppressed>>

-----------------------------------------------------------------------------
\* _identity_claim
Claim(d) == <<Ontology[d], Version[d]>>

\* _document_key
DocumentKey(d, iri) ==
  IF Ontology[d] = Nothing THEN <<"anonymous", Structure[d], iri>>
                           ELSE <<"named", Ontology[d], Version[d]>>

\* _source_identity
SourceIdentity(d) == <<Bytes[d], Structure[d]>>

\* Mutant: documents are not looked up by source identity.
KnownNever(d) == {}

\* source_identity.get(...)
Known(d) == {n \in nodes : SourceIdentity(n.doc) = SourceIdentity(d)}

\* Mutant: only the ontology identity is compared.
IdentityConflictVersionless(d) ==
  \E n \in nodes : /\ Ontology[d] # Nothing
                   /\ Claim(n.doc) = Claim(d) /\ Bytes[n.doc] # Bytes[d]

(***************************************************************************)
(* _register_identity: one identity, one byte source; one version IRI, one *)
(* ontology identity.                                                      *)
(***************************************************************************)
IdentityConflict(d) ==
  /\ Ontology[d] # Nothing
  /\ \E n \in nodes :
       \/ Claim(n.doc) = Claim(d) /\ Bytes[n.doc] # Bytes[d]
       \/ Version[d] # Nothing /\ Version[n.doc] = Version[d] /\ Claim(n.doc) # Claim(d)

\* A document of a known key but other bytes or structure.
KeyConflict(d, iri) ==
  \E n \in nodes : n.key = DocumentKey(d, iri) /\ SourceIdentity(n.doc) # SourceIdentity(d)

\* _initial_pending
InitialPending(key, d, depth) == {[from |-> key, iri |-> i, depth |-> depth] : i \in Imports[d]}

\* limits.enforce("max_import_depth", depth), once per import
TooDeep(d, depth) == Imports[d] # {} /\ depth > limits.depth

Edge(item, status, to) == [from |-> item.from, iri |-> item.iri, status |-> status, to |-> to]

\* _failed_edge
FailedEdge(item, answer) ==
  Edge(item, CASE answer = "denied" -> "DENIED"
               [] answer = "not_found" -> "UNRESOLVED"
               [] OTHER -> "FAILED", Nothing)

\* Mutant: the diagnostic that the marker replaces is not counted.
AppendDiagnosticUncounted ==
  IF shown < limits.diagnostics
    THEN shown' = shown + 1 /\ UNCHANGED suppressed
    ELSE UNCHANGED shown /\ suppressed' = suppressed + 1

(***************************************************************************)
(* _append_diagnostic: at the limit the last diagnostic makes way for a    *)
(* marker that counts what is missing.                                     *)
(***************************************************************************)
AppendDiagnostic ==
  IF shown < limits.diagnostics
    THEN shown' = shown + 1 /\ UNCHANGED suppressed
    ELSE /\ UNCHANGED shown
         /\ suppressed' = IF suppressed > 0 THEN suppressed + 1 ELSE 2

-----------------------------------------------------------------------------
RootKey == DocumentKey(Root, Nothing)

Init ==
  /\ policy \in Policies
  /\ limits \in Limits
  /\ resolver \in BOOLEAN
  /\ phase = "start" /\ reason = "none"
  /\ pending = {} /\ nextPending = {}
  /\ batch = << >>
  /\ nodes = {[key |-> RootKey, doc |-> Root]}
  /\ edges = {} /\ attempts = 0
  /\ shown = 0 /\ suppressed = 0

Raise(why) == phase' = "failed" /\ reason' = why

(***************************************************************************)
(* The root's own imports are ignored, recorded as unresolved when there   *)
(* is no resolver, or become the first level.                              *)
(***************************************************************************)
Ignore ==
  /\ phase = "start" /\ policy = "IGNORE"
  /\ edges' = {Edge(x, "IGNORED", Nothing) : x \in InitialPending(RootKey, Root, 1)}
  /\ phase' = "done"
  /\ UNCHANGED <<options, reason, pending, batch, nextPending, nodes, attempts,
                 shown, suppressed>>

RecordUnresolved ==
  LET n == Cardinality(Imports[Root])
  IN  /\ phase = "start" /\ policy = "RECORD_UNRESOLVED" /\ ~resolver
      /\ n <= limits.attempts
      /\ edges' = {FailedEdge(x, "not_found") : x \in InitialPending(RootKey, Root, 1)}
      /\ shown' = IF n <= limits.diagnostics THEN n ELSE limits.diagnostics
      /\ suppressed' = IF n <= limits.diagnostics THEN 0 ELSE n - limits.diagnostics + 1
      /\ attempts' = n
      /\ phase' = "done"
      /\ UNCHANGED <<options, reason, pending, batch, nextPending, nodes>>

Start ==
  /\ phase = "start"
  /\ policy = "RESOLVE_STRICT" \/ (policy = "RECORD_UNRESOLVED" /\ resolver)
  /\ pending' = InitialPending(RootKey, Root, 1)
  /\ phase' = "resolve"
  /\ UNCHANGED <<options, reason, batch, nextPending, found, attempts>>

RecordTooMany ==
  /\ phase = "start" /\ policy = "RECORD_UNRESOLVED" /\ ~resolver
  /\ Cardinality(Imports[Root]) > limits.attempts
  /\ Raise("attempts")
  /\ UNCHANGED <<options, pending, batch, nextPending, found, attempts>>

-----------------------------------------------------------------------------
(***************************************************************************)
(* One level.  The pending imports are sorted by import IRI, then by the   *)
(* digest that is the importer's key, which is as good as any order.       *)
(***************************************************************************)
Orders(S) == Bijection(1 .. Cardinality(S), S)
Sorted(order) ==
  \A i, j \in DOMAIN order : i < j => order[i].iri <= order[j].iri

\* The resolution or acquisition loop goes no further than this answer.
Stops(answer) ==
  \/ answer = "resource_limit"
  \/ policy # "RECORD_UNRESOLVED" /\ answer \in {"not_found", "denied", "failed"}

Possible(item) == IF resolver THEN Answers[item.iri] ELSE {"not_found"}

Outcomes ==
  {a \in [pending -> UNION {Possible(x) : x \in pending}] : \A x \in pending : a[x] \in Possible(x)}

\* process_count
Processed(order, answers) ==
  LET stops == {i \in DOMAIN order : Stops(answers[order[i]])}
  IN  IF stops = {} THEN Len(order) ELSE Min(stops)

Resolve ==
  /\ phase = "resolve" /\ pending # {}
  /\ attempts + Cardinality(pending) <= limits.attempts
  /\ \E order \in {o \in Orders(pending) : Sorted(o)} :
     \E answers \in Outcomes :
     \E more \in 0 .. MaxTries :
       LET n     == Processed(order, answers)
           spent == attempts + n + more
       IN  IF spent > limits.attempts
             THEN Raise("attempts") /\ UNCHANGED <<pending, batch, attempts>>
             ELSE /\ batch' = [i \in 1 .. n |-> [item |-> order[i], answer |-> answers[order[i]]]]
                  /\ attempts' = spent
                  /\ pending' = {}
                  /\ phase' = "enter"
                  /\ UNCHANGED reason
  /\ UNCHANGED <<options, nextPending, found>>

ResolveTooMany ==
  /\ phase = "resolve" /\ pending # {}
  /\ attempts + Cardinality(pending) > limits.attempts
  /\ Raise("attempts")
  /\ UNCHANGED <<options, pending, batch, nextPending, found, attempts>>

\* The item being entered, its answer, and the document it would add.
item == Head(batch).item
answer == Head(batch).answer
Entering == phase = "enter" /\ batch # << >>
EnteringNew ==
  /\ Entering /\ answer \in Docs /\ Known(answer) = {}
  /\ ~IdentityConflict(answer) /\ ~KeyConflict(answer, item.iri)

\* A failed import is recorded, or ends the load.
EnterFailed ==
  /\ Entering /\ answer \in Failures \ {"resource_limit"}
  /\ policy = "RECORD_UNRESOLVED"
  /\ edges' = edges \cup {FailedEdge(item, answer)}
  /\ AppendDiagnostic
  /\ batch' = Tail(batch)
  /\ UNCHANGED <<options, phase, reason, pending, nextPending, nodes, attempts>>

RaiseFailed ==
  /\ Entering /\ answer \in Failures
  /\ policy # "RECORD_UNRESOLVED" \/ answer = "resource_limit"
  /\ Raise("unresolved")
  /\ UNCHANGED <<options, pending, batch, nextPending, found, attempts>>

\* A document of known bytes and structure is retained once.
EnterKnown ==
  /\ Entering /\ answer \in Docs
  /\ \E n \in Known(answer) : edges' = edges \cup {Edge(item, "RESOLVED", n.key)}
  /\ batch' = Tail(batch)
  /\ UNCHANGED <<options, phase, reason, pending, nextPending, nodes, attempts,
                 shown, suppressed>>

EnterConflict ==
  /\ Entering /\ answer \in Docs /\ Known(answer) = {}
  /\ IdentityConflict(answer) \/ KeyConflict(answer, item.iri)
  /\ Raise("conflict")
  /\ UNCHANGED <<options, pending, batch, nextPending, found, attempts>>

EnterNew ==
  LET key == DocumentKey(answer, item.iri)
  IN  /\ EnteringNew
      /\ Cardinality(nodes) < limits.documents /\ ~TooDeep(answer, item.depth + 1)
      /\ nodes' = nodes \cup {[key |-> key, doc |-> answer]}
      /\ nextPending' = nextPending \cup InitialPending(key, answer, item.depth + 1)
      /\ edges' = edges \cup {Edge(item, "RESOLVED", key)}
      /\ batch' = Tail(batch)
      /\ UNCHANGED <<options, phase, reason, pending, attempts, shown, suppressed>>

EnterOverLimit ==
  /\ EnteringNew
  /\ \/ Cardinality(nodes) >= limits.documents /\ Raise("documents")
     \/ /\ Cardinality(nodes) < limits.documents /\ TooDeep(answer, item.depth + 1)
        /\ Raise("depth")
  /\ UNCHANGED <<options, pending, batch, nextPending, found, attempts>>

NextLevel ==
  /\ phase = "enter" /\ batch = << >>
  /\ pending' = nextPending /\ nextPending' = {}
  /\ phase' = "resolve"
  /\ UNCHANGED <<options, reason, batch, found, attempts>>

Publish ==
  /\ phase = "resolve" /\ pending = {}
  /\ phase' = "done"
  /\ UNCHANGED <<options, reason, pending, batch, nextPending, found, attempts>>

\* _check_operation: cancellation or the deadline; or the resolver raises.
Interrupt ==
  /\ phase \in {"start", "resolve", "enter"}
  /\ Raise("interrupted")
  /\ UNCHANGED <<options, pending, batch, nextPending, found, attempts>>

Next ==
  \/ Ignore \/ RecordUnresolved \/ RecordTooMany \/ Start
  \/ Resolve \/ ResolveTooMany
  \/ EnterFailed \/ RaiseFailed \/ EnterKnown \/ EnterConflict
  \/ EnterNew \/ EnterOverLimit
  \/ NextLevel \/ Publish \/ Interrupt

Spec == Init /\ [][Next]_vars

-----------------------------------------------------------------------------
Keys == {n.key : n \in nodes}
Targets(k) == {e.to : e \in {x \in edges : x.from = k /\ x.status = "RESOLVED"}}

\* Levels[n]: the documents at most n resolved imports away from the root.
Levels[n \in 0 .. Cardinality(Docs) * (Cardinality(IRIs) + 1)] ==
  IF n = 0 THEN {RootKey} ELSE Levels[n - 1] \cup UNION {Targets(k) : k \in Levels[n - 1]}

\* The state of a load in progress is well formed.
TypeOK ==
  /\ policy \in Policies /\ resolver \in BOOLEAN
  /\ phase \in {"start", "resolve", "enter", "done", "failed"}
  /\ reason \in {"none", "attempts", "depth", "documents", "conflict", "unresolved", "interrupted"}
  /\ \A x \in pending \cup nextPending : x.from \in Keys /\ x.iri \in IRIs /\ x.depth \in 1 .. limits.depth
  /\ \A n \in nodes : n.doc \in Docs
  /\ attempts \in 0 .. limits.attempts /\ shown \in 0 .. limits.diagnostics /\ suppressed \in Nat

\* Documents can be told apart: by key, and, named, by ontology and version IRI
\* and by version IRI alone (_register_identity).
Distinguished(m, n) ==
  /\ m.key # n.key /\ SourceIdentity(m.doc) # SourceIdentity(n.doc)
  /\ Ontology[m.doc] # Nothing =>
       /\ Claim(m.doc) # Claim(n.doc)
       /\ Version[m.doc] # Nothing => Version[m.doc] # Version[n.doc]

(***************************************************************************)
(* What load returns is the import closure: every import of every retained *)
(* document has exactly one edge, a resolved edge leads to a retained      *)
(* document, and every retained document is reached from the root along    *)
(* resolved edges.  Only RECORD_UNRESOLVED leaves imports unresolved.  No  *)
(* two retained documents have one identity, in whatever order and at      *)
(* whatever depth the rivals are reached.                                  *)
(***************************************************************************)
ClosureIsExact ==
  /\ TypeOK
  /\ \A m, n \in nodes : m = n \/ Distinguished(m, n)
  /\ phase = "done" /\ policy # "IGNORE" =>
       /\ \A n \in nodes : \A i \in Imports[n.doc] :
            Cardinality({e \in edges : e.from = n.key /\ e.iri = i}) = 1
       /\ \A e \in edges : e.status = "RESOLVED" => e.to \in Keys
       /\ Keys = Levels[Cardinality(nodes)]
       /\ policy = "RESOLVE_STRICT" => \A e \in edges : e.status = "RESOLVED"

(***************************************************************************)
(* The depth held against max_import_depth is the length of a shortest     *)
(* import chain: no cycle and no diamond of imports can use the limit up.  *)
(***************************************************************************)
DepthIsShortest ==
  \A x \in pending \cup nextPending \cup {batch[i].item : i \in DOMAIN batch} :
    x.from \in Levels[x.depth - 1] /\ (x.depth > 1 => x.from \notin Levels[x.depth - 2])

(***************************************************************************)
(* No failed import goes unreported: the diagnostics kept and those the    *)
(* suppression marker counts add up to the imports recorded as failed.     *)
(***************************************************************************)
DiagnosticsAddUp ==
  (shown - IF suppressed > 0 THEN 1 ELSE 0) + suppressed
    = Cardinality({e \in edges : e.status \in {"UNRESOLVED", "DENIED", "FAILED"}})

=============================================================================
