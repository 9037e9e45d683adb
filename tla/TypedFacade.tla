----------------------------- MODULE TypedFacade -----------------------------
(***************************************************************************)
(* The life of a typed owner: documents are added to one builder, or       *)
(* parsed into owners of their own that are forked and composed; scopes,   *)
(* tables and indexes are derived; the frozen owner is read.  Cancellation *)
(* may be requested by another thread at any moment and is seen at the     *)
(* next checkpoint.                                                        *)
(***************************************************************************)
EXTENDS TypedTables

CONSTANTS Inputs,  \* what a call can be given: documents, scopes, reachability, limits
          Views,   \* coordinates and owner roles a reader asks for
          PageSizes  \* pairs <<max_rows, max_bytes>>

VARIABLES
  inp,        \* the call's arguments
  phase,      \* "documents", "fork", "flat", "scopes", "tables", "freeze", "ready" or "failed"
  cancelled,  \* the cancellation flag
  err,        \* the error the call returned
  documents,  \* builder documents, or the flat documents of the parser owners
  sources,    \* parser owners
  forks,      \* their forks, which the composition consumes
  work,       \* arena, scopes and tables under construction
  owner,      \* the published owner
  reader      \* one reader following page cursors
vars == <<inp, phase, cancelled, err, documents, sources, forks, work, owner, reader>>
read == <<owner, reader>>
parser == <<sources, forks>>

Count == Len(inp.docs)
NoWork == [arena |-> <<>>, scopes |-> <<>>, eff |-> {}, raw |-> {}]

\* The scope the blank nodes of document d end up in.
FinalScope(d) == IF inp.targets[d] = None THEN inp.scopes[d] ELSE inp.targets[d]
ScopedRows(d, c, scope) == Ascending({Rescope[scope][r] : r \in Range(inp.docs[d][c])})
IsAnonymous(d) == \E c \in 1..3 : ScopedRows(d, c, inp.scopes[d]) # inp.docs[d][c]

Init == /\ inp \in Inputs
        /\ phase = "documents" /\ cancelled = FALSE /\ err = None
        /\ documents = <<>>
        /\ sources = <<>> /\ forks = <<>>
        /\ work = NoWork /\ owner = None /\ reader = None

Fail(e) == phase' = "failed" /\ err' = e
Step(to) == phase' = to /\ UNCHANGED err

Cancel == /\ phase \notin {"ready", "failed"} /\ ~cancelled
          /\ cancelled' = TRUE
          /\ UNCHANGED <<inp, phase, err, documents, parser, work, read>>

-----------------------------------------------------------------------------
(* One builder for all documents                                           *)

RowsFit(rows, limits) == ~Over(limits.max_annotations, Len(rows[1])) /\ ~Over(limits.max_axioms, Len(rows[2]))
RowsValid(rows) ==
  \A c \in 1..3 : /\ IsAscending(rows[c])
                  /\ \A r \in Range(rows[c]) : Category[r] = CategoryOf[Structural[c]]

AddVerdict(following, raw, eff, limits) ==
  CASE cancelled -> "CANCELLED"
    [] Over(limits.max_documents, following) -> "LIMIT"
    [] ~RowsFit(raw, limits) -> "LIMIT"
    [] ~RowsValid(raw) -> "PROTOCOL"
    [] eff # None /\ ~RowsFit(eff, limits) -> "LIMIT"
    [] eff # None /\ ~RowsValid(eff) -> "PROTOCOL"
    [] OTHER -> None

Pending(part, raw, eff) ==
  [roots |-> [c \in 1..3 |-> Ids(part, raw[c])],
   effective |-> [c \in 1..3 |-> IF eff = None THEN None ELSE Ids(part, eff[c])]]

\* add_document and add_scoped_document: all documents are added the same way.
\* A failed mutation poisons the builder: no step leaves "failed".
AddDocument ==
  LET d == Len(documents) + 1
      eff == IF inp.scoped THEN [c \in 1..3 |-> ScopedRows(d, c, FinalScope(d))] ELSE None
      verdict == AddVerdict(d, inp.docs[d], eff, inp.limits)
  IN  /\ phase = "documents" /\ inp.path = "builder" /\ d <= Count
      /\ IF verdict = None
         THEN /\ documents' = Append(documents, Pending(0, inp.docs[d], eff))
              /\ UNCHANGED <<phase, err>>
         ELSE Fail(verdict) /\ UNCHANGED documents
      /\ UNCHANGED <<inp, cancelled, parser, work, read>>

AllRows(docs) ==
  UNION {UNION {{id.row : id \in Range(docs[d].roots[c]) \cup Range(EffectiveRoots(docs[d], c))}
                : c \in 1..3} : d \in DOMAIN docs}

\* freeze, as far as the resolved documents.
FreezeBuilder ==
  /\ inp.path = "builder"
  /\ phase = "documents" /\ Len(documents) = Count
  /\ IF ~ValidateReachability(inp.reach, inp.closure, Count) THEN Fail("PROTOCOL") /\ UNCHANGED work
     ELSE IF cancelled THEN Fail("CANCELLED") /\ UNCHANGED work
     ELSE /\ Step("scopes")
          /\ work' = [work EXCEPT !.arena = 0 :> WithEntities(AllRows(documents))]
  /\ UNCHANGED <<inp, cancelled, documents, parser, read>>

-----------------------------------------------------------------------------
(* Parser owners                                                           *)

\* The owner a parse leaves behind: one document, its closure itself.
ParsedOwner(d) ==
  LET eff == IF IsAnonymous(d) THEN [c \in 1..3 |-> ScopedRows(d, c, inp.scopes[d])] ELSE None
      docs == <<Pending(d, inp.docs[d], eff)>>
      scopes == ScopesOf(docs, <<<<0>>>>, <<0>>)
      verdict == AddVerdict(1, inp.docs[d], eff, inp.limits)
  IN  IF verdict # None THEN Failure(verdict)
      ELSE Freeze(d :> WithEntities(AllRows(docs)),
                  ScopeSignatureTables(scopes, <<<<0>>>>, <<0>>) \cup StructuralTables(scopes),
                  RawTables(docs, scopes), 1, inp.limits, 0)

ParseDocument ==
  LET parsed == ParsedOwner(Len(sources) + 1)
  IN  /\ phase = "documents" /\ inp.path = "compose" /\ Len(sources) < Count
      /\ IF parsed.err # None THEN Fail(parsed.err) /\ UNCHANGED sources
         ELSE /\ sources' = Append(sources, parsed)
              /\ Step(IF Len(sources) + 1 = Count THEN "fork" ELSE phase)
      /\ UNCHANGED <<inp, cancelled, documents, forks, work, read>>

\* fork_parser_document: a failure hands the parser owner back unchanged.
ForkDocument ==
  LET fork == ForkParserDocument(sources[Len(forks) + 1])
  IN  /\ phase = "fork" /\ Len(forks) < Count
      /\ IF cancelled THEN Fail("CANCELLED") /\ UNCHANGED forks
         ELSE IF fork.err # None THEN Fail(fork.err) /\ UNCHANGED forks
         ELSE /\ forks' = Append(forks, fork)
              /\ Step(IF Len(forks) + 1 = Count THEN "flat" ELSE phase)
      /\ UNCHANGED <<inp, cancelled, documents, sources, work, read>>

\* compose_native_documents, as far as the composite arena.
FlatFits(flat) ==
  \A d \in DOMAIN flat :
    /\ RowsFit(flat[d].roots, inp.limits)
    /\ \A c \in 1..3 : flat[d].effective[c] # None =>
         ~Over(IF c = 1 THEN inp.limits.max_annotations ELSE inp.limits.max_axioms, Len(flat[d].effective[c]))

ComposeDocuments ==
  LET derived == Count + 1
      flat == [d \in DOMAIN forks |-> IntoFlatDocument(forks[d])]
      targets == [d \in DOMAIN flat |-> IF HasAnonymousRoots(flat[d]) THEN inp.targets[d] ELSE None]
      rescoped == [d \in DOMAIN flat |-> RescopeDocument(flat[d], targets[d], derived)]
      parts == [d \in DOMAIN forks |-> forks[d].arena[d]]
  IN  /\ phase = "flat"
      /\ IF ~ValidateReachability(inp.reach, inp.closure, Count) THEN Fail("PROTOCOL") /\ UNCHANGED <<documents, work>>
         ELSE IF cancelled THEN Fail("CANCELLED") /\ UNCHANGED <<documents, work>>
         ELSE IF ~FlatFits(flat) THEN Fail("LIMIT") /\ UNCHANGED <<documents, work>>
         ELSE /\ documents' = rescoped
              /\ work' = [work EXCEPT !.arena =
                            Append(parts, WithEntities(DerivedRows(rescoped, derived)))]
              /\ Step("scopes")
      /\ UNCHANGED <<inp, cancelled, parser, read>>

-----------------------------------------------------------------------------
(* Scopes, tables, owner: the same for both                                *)

DeriveScopes ==
  /\ phase = "scopes"
  /\ IF cancelled THEN Fail("CANCELLED") /\ UNCHANGED work
     ELSE IF \E o \in Range(inp.reach) \cup {inp.closure} : ~UnionFits(documents, o, inp.limits)
     THEN Fail("LIMIT") /\ UNCHANGED work
     ELSE Step("tables") /\ work' = [work EXCEPT !.scopes = ScopesOf(documents, inp.reach, inp.closure)]
  /\ UNCHANGED <<inp, cancelled, documents, parser, read>>

DeriveTables ==
  /\ phase = "tables"
  /\ IF cancelled THEN Fail("CANCELLED") /\ UNCHANGED work
     ELSE /\ Step("freeze")
          /\ work' = [work EXCEPT
               !.eff = ScopeSignatureTables(work.scopes, inp.reach, inp.closure) \cup StructuralTables(work.scopes),
               !.raw = RawTables(documents, work.scopes)]
  /\ UNCHANGED <<inp, cancelled, documents, parser, read>>

FreezeOwner ==
  LET frozen == Freeze(work.arena, work.eff, work.raw, Count, inp.limits, 0)
  IN  /\ phase = "freeze"
      /\ IF cancelled THEN Fail("CANCELLED") /\ UNCHANGED owner
         ELSE IF frozen.err # None THEN Fail(frozen.err) /\ UNCHANGED owner
         ELSE Step("ready") /\ owner' = frozen
      /\ documents' = <<>> /\ work' = NoWork
      /\ UNCHANGED <<inp, cancelled, parser, reader>>

-----------------------------------------------------------------------------
(* A reader                                                                *)

Open(view, size) ==
  /\ phase = "ready" /\ reader = None
  /\ ValidCoordinate(view.coordinate, owner.count, FALSE)
  /\ reader' = [view |-> view, size |-> size, cursor |-> 0, emitted |-> <<>>, done |-> FALSE]
  /\ UNCHANGED <<inp, phase, cancelled, err, documents, parser, work, owner>>

NextPage ==
  LET roots == SelectedRoots(owner, reader.view.coordinate, reader.view.raw)
      end == PageEnd(roots, reader.cursor, reader.size[1], reader.size[2])
  IN  /\ reader # None /\ ~reader.done
      /\ reader' = [reader EXCEPT !.cursor = end, !.done = (end = Len(roots)),
                      !.emitted = @ \o RowsOf(SubSeq(roots, reader.cursor + 1, end))]
      /\ UNCHANGED <<inp, phase, cancelled, err, documents, parser, work, owner>>

Next == \/ Cancel \/ AddDocument \/ FreezeBuilder
        \/ ParseDocument \/ ForkDocument \/ ComposeDocuments
        \/ DeriveScopes \/ DeriveTables \/ FreezeOwner
        \/ \E view \in Views, size \in PageSizes : Open(view, size)
        \/ NextPage

\* A reader asks for the next page until the cursor is terminal.
Spec == Init /\ [][Next]_vars /\ WF_vars(NextPage)

-----------------------------------------------------------------------------
(* Properties                                                              *)

TypeOK ==
  /\ phase \in {"documents", "fork", "flat", "scopes", "tables", "freeze", "ready", "failed"}
  /\ cancelled \in BOOLEAN
  /\ err \in {None, "CANCELLED", "LIMIT", "PROTOCOL"}
  /\ (phase = "failed") = (err # None)
  /\ (phase = "ready") = (owner # None)
  /\ Len(forks) <= Len(sources) /\ Len(sources) <= Count

\* What the inputs say a view shows, without tables or identifiers.
Own(d, c) == Range(inp.docs[d][c])
Shown(d, c) ==
  LET scope == IF inp.path = "compose" \/ inp.scoped THEN FinalScope(d) ELSE None
  IN  IF scope = None THEN Own(d, c) ELSE {Rescope[scope][r] : r \in Own(d, c)}
ReachedBy(document) == IF document = Closure THEN inp.closure ELSE inp.reach[document + 1]
ShownBy(document, c) == UNION {Shown(o + 1, c) : o \in Range(ReachedBy(document))}
CollectionNumber(name) == CHOOSE c \in 1..3 : Structural[c] = name
InDocument(view) == view.coordinate.document < Count
Promised(view) ==
  LET at == view.coordinate
      below == UNION {UNION {Mentions[r] : r \in ShownBy(at.document, c)} : c \in 1..3}
  IN  CASE ~InDocument(view) -> {}
        [] at.collection = "Signature" ->
             {e \in below : (at.builtins \/ e \notin Builtin) /\ (at.kind = "All" \/ Kind[e] = at.kind)}
        [] at.collection # "Signature" /\ view.raw /\ at.document # Closure ->
             Own(at.document + 1, CollectionNumber(at.collection))
        [] OTHER -> ShownBy(at.document, CollectionNumber(at.collection))

\* The owner, whichever way it was built, implements the contract: every view
\* is the union its inputs promise, and page cursors hand it out in canonical
\* order without a gap or a repetition.
Contract == INSTANCE FacadeContract WITH
  Rows <- DOMAIN Category,
  promise <- [v \in Views |-> Promised(v)],
  published <- owner # None,
  reader <- IF reader = None THEN None ELSE [view |-> reader.view, emitted |-> reader.emitted]
ImplementsContract == Contract!Spec

\* Tables derived from valid documents always pass the validation of freeze, so
\* that only a limit or a cancellation can fail; and the counts the publication
\* attests are those of the documents as given, a document whose own table was
\* replaced by the effective one included (structural_counts and
\* canonical_input_rows agree with the input).  While a parser owner and its
\* fork are both alive they share one arena, and together with the longest row
\* a page may encode they fit the memory limit.
FrozenAsGiven ==
  /\ TypeOK /\ err # "PROTOCOL"
  /\ owner # None =>
       LET given(c) == FoldLeft(LAMBDA total, d : total + Len(d[c]), 0, inp.docs)
       IN  /\ \A c \in 1..3 : RawDocumentCount(owner, Structural[c]) = given(c)
           /\ owner.inputRows = given(1) + given(2) + given(3)
  /\ \A d \in DOMAIN forks :
       ~Over(inp.limits.max_memory,
             ArenaBytes(sources[d].arena) + sources[d].external + forks[d].external + forks[d].maximum)

\* contains_axiom answers exactly what paging the same view would, although
\* digests collide and the closure of a single document borrows an index.
MembershipIsExact ==
  owner # None =>
    \A view \in Views : view.coordinate.collection = "Axioms" /\ InDocument(view) =>
      \A row \in DOMAIN Category :
        ContainsAxiom(owner, view.coordinate, view.raw, row) = (row \in Promised(view))

\* A reader that follows the cursors reaches the end of its view, also when a
\* row is longer than the page it asked for.
ReaderFinishes == [](reader # None => <>(reader # None /\ reader.done))
=============================================================================
