------------------------------- MODULE Overlay -------------------------------
(***************************************************************************)
(* Persistent overlays of an ontology (pyowl_core/document/overlay.py,     *)
(* delta.py).  Applying a delta to a view makes a layer that reads through *)
(* to its base and carries, besides its own delta, the cumulative delta    *)
(* relative to the anchor at the bottom of the layers.  compact() keeps    *)
(* the anchor and the cumulative delta only; materialize() copies the      *)
(* contents into a snapshot of its own.  Views are immutable and branch.   *)
(*                                                                         *)
(* Axioms and ontology annotations obey the same rules one by one and are  *)
(* one set of items.  A view's `content` is what contains() and iter_axioms*)
(* read through its base, which never changes once the view exists.        *)
(***************************************************************************)
EXTENDS Integers, Sequences, FiniteSets, TLC

CONSTANTS
  Items,        \* axioms and ontology annotations
  MaxDepth,     \* limits.max_overlay_depth
  MaxEntries,   \* limits.max_delta_entries
  MaxViews      \* bound: views made in one behaviour

ASSUME OverlayAssumption ==
  /\ IsFiniteSet(Items)
  /\ MaxDepth \in Nat \ {0} /\ MaxEntries \in Nat \ {0} /\ MaxViews \in Nat \ {0}

\* Items are alike: only their identity matters.
Symmetry == Permutations(Items)

VARIABLE
  views   \* every view made, in order

vars == views

Ids == DOMAIN views
Delta == [add: SUBSET Items, remove: SUBSET Items]
NoDelta == [add |-> {}, remove |-> {}]
EntryCount(d) == Cardinality(d.add) + Cardinality(d.remove)

(***************************************************************************)
(* A structural fingerprint is the hash of a context and the contents.  An *)
(* overlay's context is its anchor's, traced through materialized views to *)
(* the snapshot that was loaded; that snapshot's own context differs.      *)
(***************************************************************************)
Fingerprint == [loaded: BOOLEAN, content: SUBSET Items]

-----------------------------------------------------------------------------
\* Mutant: a removal of what an earlier delta added stays in the delta.
CombineDeltasOnto(first, second) ==
  [add    |-> first.add \cup (second.add \ first.remove),
   remove |-> (first.remove \ second.add) \cup (second.remove \ first.add)]

\* combine_deltas
CombineDeltas(first, second) ==
  [add    |-> (first.add \ second.remove) \cup (second.add \ first.remove),
   remove |-> (first.remove \ second.add) \cup (second.remove \ first.add)]

\* validate_delta: the part of the request that changes the base
Effective(base, requested) ==
  [add |-> requested.add \ base.content, remove |-> requested.remove \cap base.content]

\* DeltaPolicy.STRICT refuses a request with a part that changes nothing.
Accepted(base, requested, policy) ==
  policy = "strict" => Effective(base, requested) = requested

\* max_overlay_depth
DepthAllowed(base) == base.depth < MaxDepth

\* contains: what a layer of this delta shows of this base
ReadThrough(base, delta) == (base.content \ delta.remove) \cup delta.add

\* effective_axiom_count
AddedCount(base, delta) == base.count + Cardinality(delta.add) - Cardinality(delta.remove)

\* Mutant: the place is counted in layers.
AdditionOriginsByDepth(base, effective, cumulative, place) ==
  [x \in Items |-> IF x \notin cumulative.add THEN 0
                  ELSE IF x \in effective.add THEN base.depth + 1 ELSE base.origins[x]]

\* _addition_origins: where in the edit chain each active addition was made, or 0
Placed(origins) == {x \in Items : origins[x] # 0}

AdditionOrigins(base, effective, cumulative, place) ==
  LET active == (Placed(base.origins) \ effective.remove) \cup effective.add
  IN  [x \in Items |->
         IF x \notin active \cap cumulative.add THEN 0
         ELSE IF x \in effective.add THEN place ELSE base.origins[x]]

\* Mutant: the anchor's fingerprint is kept when additions and removals balance.
StructuralFingerprintByCount(anchor, cumulative, content) ==
  IF Cardinality(cumulative.add) = Cardinality(cumulative.remove)
    THEN anchor.fingerprint ELSE [loaded |-> FALSE, content |-> content]

\* _fingerprints: an empty cumulative delta reuses the anchor's
StructuralFingerprint(anchor, cumulative, content) ==
  IF cumulative = NoDelta THEN anchor.fingerprint
                          ELSE [loaded |-> FALSE, content |-> content]

\* materialize: structural_fingerprint_override and the overlay's context
MaterializedFingerprint(v) ==
  StructuralFingerprint(views[v.anchor], v.cumulative, v.content)

-----------------------------------------------------------------------------
(***************************************************************************)
(* Views.  `made` is the view that a compacted or materialized view was    *)
(* made from, and 0 in the others.                                         *)
(***************************************************************************)
View ==
  [base: Nat, anchor: Nat, delta: Delta, cumulative: Delta, chain: Seq(Delta),
   origins: [Items -> Nat], depth: Nat, content: SUBSET Items, count: Int,
   fingerprint: Fingerprint, made: Nat]

Snapshot(id, content, fingerprint, made) ==
  [base |-> id, anchor |-> id, delta |-> NoDelta, cumulative |-> NoDelta,
   chain |-> << >>, origins |-> [x \in Items |-> 0], depth |-> 0, content |-> content,
   count |-> Cardinality(content), fingerprint |-> fingerprint, made |-> made]

Init ==
  \E content \in SUBSET Items :
    views = <<Snapshot(1, content, [loaded |-> TRUE, content |-> content], 0)>>

\* OntologyOverlay._initialize
Layer(id, requested) ==
  LET base       == views[id]
      effective  == Effective(base, requested)
      cumulative == CombineDeltas(base.cumulative, effective)
      chain      == Append(base.chain, requested)
      content    == ReadThrough(base, effective)
  IN  [base |-> id, anchor |-> base.anchor, delta |-> effective, cumulative |-> cumulative,
       chain |-> chain, origins |-> AdditionOrigins(base, effective, cumulative, Len(chain)),
       depth |-> base.depth + 1, content |-> content, count |-> AddedCount(base, effective),
       fingerprint |-> StructuralFingerprint(views[base.anchor], cumulative, content),
       made |-> 0]

ApplyDelta(id, requested, policy) ==
  /\ Len(views) < MaxViews
  /\ requested.add \cap requested.remove = {}
  /\ EntryCount(requested) <= MaxEntries
  /\ Accepted(views[id], requested, policy)
  /\ DepthAllowed(views[id])
  /\ EntryCount(Layer(id, requested).cumulative) <= MaxEntries
  /\ views' = Append(views, Layer(id, requested))

\* OntologyOverlay._compacted
Compacted(id) ==
  LET v       == views[id]
      anchor  == views[v.anchor]
      content == ReadThrough(anchor, v.cumulative)
  IN  [base |-> v.anchor, anchor |-> v.anchor, delta |-> v.cumulative,
       cumulative |-> v.cumulative, chain |-> v.chain, origins |-> v.origins,
       depth |-> 1, content |-> content, count |-> AddedCount(anchor, v.cumulative),
       fingerprint |-> StructuralFingerprint(anchor, v.cumulative, content),
       made |-> id]

\* compact: a view of depth 1 is compact already
Compact(id) ==
  /\ Len(views) < MaxViews
  /\ views[id].depth > 1
  /\ views' = Append(views, Compacted(id))

\* materialize, materialize_view
Materialize(id) ==
  LET v == views[id]
  IN  /\ Len(views) < MaxViews
      /\ v.depth > 0
      /\ views' = Append(views, Snapshot(Len(views) + 1, v.content,
                                           MaterializedFingerprint(v), id))

Next ==
  \/ \E id \in Ids, requested \in Delta, policy \in {"strict", "idempotent"} :
       ApplyDelta(id, requested, policy)
  \/ \E id \in Ids : Compact(id)
  \/ \E id \in Ids : Materialize(id)

Spec == Init /\ [][Next]_vars

-----------------------------------------------------------------------------
\* Views are well formed, and made from earlier ones.
TypeOK ==
  /\ views \in Seq(View) /\ Len(views) \in 1 .. MaxViews
  /\ \A id \in Ids : LET v == views[id] IN
       /\ v.base \in 1 .. id /\ v.anchor \in 1 .. id
       /\ v.made < id /\ v.depth <= MaxDepth

(***************************************************************************)
(* The layers and the cumulative delta tell the same story: reading        *)
(* through all layers (contains) gives what the anchor gives with the      *)
(* cumulative delta applied (compact), and the cumulative delta never      *)
(* adds what the anchor has or removes what it lacks (combine_deltas).     *)
(***************************************************************************)
CumulativeIsExact ==
  \A id \in Ids : LET v == views[id]  anchor == views[v.anchor] IN
    /\ v.content = ReadThrough(anchor, v.cumulative)
    /\ v.cumulative.add \cap anchor.content = {}
    /\ v.cumulative.remove \subseteq anchor.content

(***************************************************************************)
(* A compacted or materialized view has the contents, the axiom count and  *)
(* the fingerprint of the view it was made from, and compaction keeps the  *)
(* origins of its additions, after any history of layers, compactions and  *)
(* materializations.                                                       *)
(***************************************************************************)
CollapsePreserves ==
  \A id \in Ids : views[id].made # 0 =>
    LET v == views[id]  w == views[v.made] IN
      /\ v.content = w.content /\ v.count = w.count /\ v.fingerprint = w.fingerprint
      /\ v.depth = 1 => v.origins = w.origins

(***************************************************************************)
(* The axiom count that is passed from layer to layer without walking the  *)
(* base (effective_axiom_count) is the number of items in the view.        *)
(***************************************************************************)
CountIsExact ==
  \A id \in Ids : views[id].count = Cardinality(views[id].content)

(***************************************************************************)
(* Every active addition, and nothing else, has an origin in the edit      *)
(* chain, and it is the edit that last made the item present: that edit    *)
(* asked for it and no later edit of the chain removed it (origins_for).   *)
(***************************************************************************)
OriginsNameTheirEdit ==
  \A id \in Ids : LET v == views[id] IN
    /\ Placed(v.origins) = v.cumulative.add
    /\ \A x \in v.cumulative.add :
         /\ v.origins[x] \in DOMAIN v.chain
         /\ x \in v.chain[v.origins[x]].add
         /\ \A later \in v.origins[x] + 1 .. Len(v.chain) : x \notin v.chain[later].remove

(***************************************************************************)
(* Over one anchor the fingerprint tells exactly whether two views have    *)
(* equal contents, whatever edits, undone edits and compactions led there  *)
(* (_fingerprints reuses the anchor's when the cumulative delta is empty). *)
(***************************************************************************)
FingerprintIsContent ==
  \A i, j \in Ids : views[i].anchor = views[j].anchor =>
    (views[i].fingerprint = views[j].fingerprint <=> views[i].content = views[j].content)

=============================================================================
