---------------------------- MODULE MCImportLoader ----------------------------
(***************************************************************************)
(* A root importing 1 and 2; `mid` imports 2 and 3, `back` imports 1 and   *)
(* closes cycles; `rival` claims the identity of `mid` with other bytes,   *)
(* `fork` its version IRI under another ontology IRI; `anon` and `twin`    *)
(* are anonymous, equal in structure and different in bytes; `reread` is   *)
(* `mid` parsed to another structure.                                      *)
(***************************************************************************)
EXTENDS ImportLoader

CONSTANTS root, mid, back, rival, fork, anon, twin, reread

MCDocs == {root, mid, back, rival, fork, anon, twin, reread}
MCOntology == [d \in MCDocs |->
  CASE d \in {mid, rival, reread} -> "M" [] d = fork -> "F" [] d = back -> "B" [] d = root -> "R"
    [] OTHER -> Nothing]
MCVersion == [d \in MCDocs |-> IF d \in {mid, rival, reread, fork} THEN "V" ELSE Nothing]
MCBytes == [d \in MCDocs |-> IF d = reread THEN mid ELSE d]
MCStructure == [d \in MCDocs |-> IF d = twin THEN anon ELSE d]
MCImports == [d \in MCDocs |->
  CASE d = root -> {1, 2} [] d = mid -> {2, 3} [] d = back -> {1} [] d = anon -> {3}
    [] OTHER -> {}]
MCAnswers == [i \in 1 .. 3 |->
  CASE i = 1 -> {mid, anon, "denied"}
    [] i = 2 -> {back, rival, fork, "not_found", "resource_limit"}
    [] i = 3 -> {root, anon, twin, reread, "malformed"}]
MCLimits ==
  {[depth |-> 3, documents |-> 4, attempts |-> a, diagnostics |-> g] : a \in {1, 7}, g \in {1, 2}}
    \cup {[depth |-> 2, documents |-> 3, attempts |-> 6, diagnostics |-> 1]}

=============================================================================
