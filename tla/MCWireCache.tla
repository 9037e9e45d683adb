------------------------------ MODULE MCWireCache ------------------------------
(***************************************************************************)
(* Instances of WireCache for TLC: two processes publish and open one      *)
(* entry and export to one path; two export to one path in place; or one   *)
(* opens, closes and collects two entries.                                 *)
(***************************************************************************)
EXTENDS WireCache, TLC

Publishers(e, policies) ==
  [processes |-> Processes, entries |-> {e}, exports |-> Exports, policies |-> policies,
   atomic |-> {TRUE}, quotas |-> {}, files |-> 2, open |-> 1]
InPlace ==
  [processes |-> Processes, entries |-> {}, exports |-> Exports, policies |-> {"full"},
   atomic |-> {FALSE}, quotas |-> {}, files |-> 2, open |-> 1]
Collector(p) ==
  [processes |-> {p}, entries |-> Entries, exports |-> {}, policies |-> {"data"},
   atomic |-> {}, quotas |-> {0, 1}, files |-> 3, open |-> 2]

MCPlans ==
  {InPlace} \cup {Collector(p) : p \in Processes} \cup
  {Publishers(e, policies) : e \in Entries, policies \in {{"none", "full"}, {"data"}}}

Symmetry == Permutations(Processes) \cup Permutations(Entries)

=============================================================================
