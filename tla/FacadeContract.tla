--------------------------- MODULE FacadeContract ---------------------------
(***************************************************************************)
(* What a published owner promises its readers, without tables, arenas,    *)
(* identifiers or pages: a view is a set of rows fixed before publication, *)
(* and a reader of a view is handed those rows once each, in canonical     *)
(* order, in as many portions as the owner likes.                          *)
(***************************************************************************)
EXTENDS Naturals, Sequences, FiniteSets

CONSTANTS Views, Rows, None

VARIABLES
  promise,    \* view -> the rows it shows
  published,  \* has the owner been handed out
  reader      \* None, or [view, emitted]
vars == <<promise, published, reader>>

InOrder(S) == [i \in 1..Cardinality(S) |-> CHOOSE r \in S : Cardinality({q \in S : q <= r}) = i]

Init == /\ promise \in [Views -> SUBSET Rows]
        /\ published = FALSE
        /\ reader = None

Publish == /\ ~published
           /\ published' = TRUE
           /\ UNCHANGED <<promise, reader>>

Open(v) == /\ published
           /\ reader = None
           /\ reader' = [view |-> v, emitted |-> <<>>]
           /\ UNCHANGED <<promise, published>>

\* The next portion is not empty, unless nothing is left.
Emit == /\ reader # None
        /\ \E n \in 0..Cardinality(promise[reader.view]) :
             /\ n > Len(reader.emitted) \/ n = Cardinality(promise[reader.view])
             /\ reader' = [reader EXCEPT !.emitted = SubSeq(InOrder(promise[reader.view]), 1, n)]
        /\ UNCHANGED <<promise, published>>

Next == Publish \/ Emit \/ \E v \in Views : Open(v)

Spec == Init /\ [][Next]_vars
=============================================================================
