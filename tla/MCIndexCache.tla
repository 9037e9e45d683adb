---------------------------- MODULE MCIndexCache ----------------------------
(***************************************************************************)
(* Constants for the model-checking run of IndexCache.                    *)
(***************************************************************************)
EXTENDS IndexCache

CONSTANTS k1, k2

\* The builder of k2 asks for the view k1 and, by mistake, for k2 itself.
NestedDeps == [k \in Keys |-> IF k = k2 THEN {k1, k2} ELSE {}]

=============================================================================
