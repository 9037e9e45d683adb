---------------------------- MODULE OverlayProofs ----------------------------
(***************************************************************************)
(* Proofs about overlays for every set of items and every limit.  What the *)
(* invariants say of one view is stated of records alone (Sound), so that  *)
(* making a view needs one lemma per way of making it, and the views that  *)
(* exist stay as they are.                                                 *)
(***************************************************************************)
EXTENDS Overlay, FiniteSetTheorems, TLAPS

\* The cumulative delta of v relative to its anchor a.
Exact(v, a) ==
  /\ v.content = ReadThrough(a, v.cumulative)
  /\ v.cumulative.add \cap a.content = {}
  /\ v.cumulative.remove \subseteq a.content

\* The fingerprint of v, and that an anchor's covers its contents.
Fingerprinted(v, a) ==
  /\ v.fingerprint = StructuralFingerprint(a, v.cumulative, v.content)
  /\ a.fingerprint.content = a.content

\* The origins of v.
Originated(v) ==
  /\ Placed(v.origins) = v.cumulative.add
  /\ \A x \in v.cumulative.add :
       /\ v.origins[x] \in DOMAIN v.chain
       /\ x \in v.chain[v.origins[x]].add
       /\ \A later \in v.origins[x] + 1 .. Len(v.chain) : x \notin v.chain[later].remove

Counted(v) == v.count = Cardinality(v.content)

\* What the invariants say of a view v with anchor a.
Sound(v, a) == Exact(v, a) /\ Fingerprinted(v, a) /\ Originated(v) /\ Counted(v)

\* What compaction and materialization keep of w.
Collapsed(v, w) ==
  /\ v.content = w.content /\ v.count = w.count /\ v.fingerprint = w.fingerprint
  /\ v.depth = 1 => v.origins = w.origins

\* The inductive invariant.
IInv ==
  /\ TypeOK
  /\ \A id \in Ids : Sound(views[id], views[views[id].anchor])
  /\ \A id \in Ids : views[id].made # 0 => Collapsed(views[id], views[views[id].made])

-----------------------------------------------------------------------------
\* combine_deltas and contains agree: layering a reduced delta over a view that
\* its cumulative delta describes gives a view that the combined one describes.
LEMMA CombineIsExact ==
  ASSUME NEW a \in View, NEW b \in View, Exact(b, a), NEW q \in Delta
  PROVE  LET e == Effective(b, q)
             c == CombineDeltas(b.cumulative, e)
         IN  /\ e \in Delta /\ c \in Delta
             /\ ReadThrough(b, e) = ReadThrough(a, c)
             /\ c.add \cap a.content = {}
             /\ c.remove \subseteq a.content
<1> DEFINE e == Effective(b, q)
           c == CombineDeltas(b.cumulative, e)
<1>1. e \in Delta /\ c \in Delta
  BY Zenon DEF Effective, CombineDeltas, Delta, View
<1>2. /\ e.add = q.add \ b.content
      /\ e.remove = q.remove \cap b.content
      /\ c.add = (b.cumulative.add \ e.remove) \cup (e.add \ b.cumulative.remove)
      /\ c.remove = (b.cumulative.remove \ e.add) \cup (e.remove \ b.cumulative.add)
  BY DEF Effective, CombineDeltas
<1>3. /\ b.content = (a.content \ b.cumulative.remove) \cup b.cumulative.add
      /\ b.cumulative.add \cap a.content = {}
      /\ b.cumulative.remove \subseteq a.content
  BY DEF Exact, ReadThrough
<1>4. (b.content \ e.remove) \cup e.add = (a.content \ c.remove) \cup c.add
  BY <1>2, <1>3
<1>5. c.add \cap a.content = {} /\ c.remove \subseteq a.content
  BY <1>2, <1>3
<1> QED
  BY <1>1, <1>4, <1>5 DEF ReadThrough

\* effective_axiom_count: sizes add up when the delta is reduced against the base.
LEMMA CountIsPassedOn ==
  ASSUME NEW b \in View, Counted(b), NEW d \in Delta,
         d.add \cap b.content = {}, d.remove \subseteq b.content
  PROVE  /\ AddedCount(b, d) = Cardinality(ReadThrough(b, d))
         /\ AddedCount(b, d) \in Nat
<1>1. /\ IsFiniteSet(b.content) /\ IsFiniteSet(d.add) /\ IsFiniteSet(d.remove)
  <2>1. b.content \subseteq Items /\ d.add \subseteq Items /\ d.remove \subseteq Items
    BY DEF View, Delta
  <2> QED BY <2>1, OverlayAssumption, FS_Subset
<1> DEFINE rest == b.content \ d.remove
<1>2. /\ IsFiniteSet(rest)
      /\ Cardinality(rest) = Cardinality(b.content) - Cardinality(b.content \cap d.remove)
  BY <1>1, FS_Difference, Zenon
<1>3. b.content \cap d.remove = d.remove /\ rest \cap d.add = {}
  OBVIOUS
<1>4. Cardinality(rest \cup d.add)
        = Cardinality(rest) + Cardinality(d.add) - Cardinality(rest \cap d.add)
  BY <1>1, <1>2, FS_Union
<1>5. Cardinality({}) = 0
  BY FS_EmptySet
<1>6. IsFiniteSet(rest \cup d.add)
  BY <1>1, <1>2, FS_Union, Zenon
<1>7. /\ Cardinality(rest \cup d.add) \in Nat /\ Cardinality(rest) \in Nat
      /\ Cardinality(b.content) \in Nat /\ Cardinality(d.add) \in Nat
      /\ Cardinality(d.remove) \in Nat
  BY <1>1, <1>2, <1>6, FS_CardinalityType
<1> HIDE DEF rest
<1>8. Cardinality(rest \cup d.add)
        = Cardinality(b.content) + Cardinality(d.add) - Cardinality(d.remove)
  <2>1. /\ Cardinality(b.content \cap d.remove) = Cardinality(d.remove)
        /\ Cardinality(rest \cap d.add) = 0
    BY <1>3, <1>5
  <2> QED BY <2>1, <1>2, <1>4, <1>7
<1> QED
  BY <1>7, <1>8 DEF AddedCount, ReadThrough, Counted, rest

\* A reduced delta adds only what is absent and removes only what is there.
LEMMA EffectiveReduces ==
  ASSUME NEW b, NEW q
  PROVE  /\ Effective(b, q).add \cap b.content = {}
         /\ Effective(b, q).remove \subseteq b.content
BY DEF Effective

\* The chain of a layer is a sequence of deltas again.
LEMMA ChainGrows ==
  ASSUME NEW b \in View, NEW q \in Delta
  PROVE  Append(b.chain, q) \in Seq(Delta)
BY DEF View

\* The views that exist stay what and where they are.
LEMMA AppendView ==
  ASSUME TypeOK, NEW w \in View, views' = Append(views, w)
  PROVE  /\ views' \in Seq(View) /\ Len(views') = Len(views) + 1
         /\ Ids = 1 .. Len(views) /\ Ids' = 1 .. Len(views) + 1
         /\ \A i \in Ids : views'[i] = views[i]
         /\ views'[Len(views) + 1] = w
BY DEF TypeOK, Ids

\* A new view that is well formed, sound and true to what it was made from keeps
\* the invariant.
LEMMA NewView ==
  ASSUME IInv, Len(views) < MaxViews, NEW w \in View, views' = Append(views, w),
         w.base \in 1 .. Len(views) + 1, w.anchor \in 1 .. Len(views) + 1,
         w.made \in 0 .. Len(views), w.depth <= MaxDepth,
         Sound(w, views'[w.anchor]),
         w.made # 0 => Collapsed(w, views[w.made])
  PROVE  IInv'
<1> DEFINE n == Len(views) + 1
<1>0. n - 1 \in Nat /\ Len(views) \in Nat
  BY DEF IInv, TypeOK
<1>1. /\ views' \in Seq(View) /\ Len(views') = n
      /\ Ids = 1 .. Len(views) /\ Ids' = 1 .. n
      /\ \A i \in Ids : views'[i] = views[i]
      /\ views'[n] = w
  BY AppendView DEF IInv
<1>2. \A i \in Ids : /\ views[i].base \in 1 .. i /\ views[i].anchor \in 1 .. i
                     /\ views[i].made < i /\ views[i].depth <= MaxDepth
                     /\ views[i] \in View
  BY <1>1 DEF IInv, TypeOK, Ids
<1>3. \A i \in Ids' : i = n \/ i \in Ids
  BY <1>0, <1>1
<1>4. TypeOK'
  <2>1. Len(views') \in 1 .. MaxViews
    BY <1>0, <1>1, OverlayAssumption
  <2>2. ASSUME NEW i \in Ids'
        PROVE  /\ views'[i].base \in 1 .. i /\ views'[i].anchor \in 1 .. i
               /\ views'[i].made < i /\ views'[i].depth <= MaxDepth
    <3>1. CASE i = n
      BY <3>1, <1>0, <1>1
    <3>2. CASE i \in Ids
      BY <3>2, <1>1, <1>2
    <3> QED BY <3>1, <3>2, <1>3, Zenon
  <2> QED BY <2>1, <2>2, <1>1 DEF TypeOK
<1>5. ASSUME NEW i \in Ids' PROVE Sound(views'[i], views'[views'[i].anchor])
  <2>1. CASE i = n
    BY <2>1, <1>1
  <2>2. CASE i \in Ids
    <3>1. views[i].anchor \in Ids
      BY <2>2, <1>0, <1>1, <1>2
    <3> QED BY <2>2, <3>1, <1>1 DEF IInv
  <2> QED BY <2>1, <2>2, <1>3, Zenon
<1>6. ASSUME NEW i \in Ids', views'[i].made # 0
      PROVE  Collapsed(views'[i], views'[views'[i].made])
  <2>1. CASE i = n
    <3>1. w.made \in Ids
      BY <2>1, <1>0, <1>1, <1>6
    <3> QED BY <2>1, <3>1, <1>1, <1>6
  <2>2. CASE i \in Ids
    <3>1. views[i].made \in Ids
      <4>1. views[i].made \in Nat
        BY <2>2, <1>2 DEF View
      <4> QED BY <2>2, <4>1, <1>0, <1>1, <1>2, <1>6
    <3> QED BY <2>2, <3>1, <1>1, <1>6 DEF IInv
  <2> QED BY <2>1, <2>2, <1>3, Zenon
<1> QED
  BY <1>4, <1>5, <1>6, Zenon DEF IInv

-----------------------------------------------------------------------------
\* A snapshot whose fingerprint covers its contents is its own sound anchor.
LEMMA SnapshotIsSound ==
  ASSUME NEW id \in Nat, NEW content \in SUBSET Items, NEW f \in Fingerprint,
         f.content = content, NEW made \in Nat
  PROVE  /\ Snapshot(id, content, f, made) \in View
         /\ Sound(Snapshot(id, content, f, made), Snapshot(id, content, f, made))
<1> DEFINE v == Snapshot(id, content, f, made)
<1>1. Cardinality(content) \in Nat
  <2>1. IsFiniteSet(content)
    BY OverlayAssumption, FS_Subset
  <2> QED BY <2>1, FS_CardinalityType
<1>2. /\ v.base = id /\ v.anchor = id /\ v.made = made /\ v.depth = 0
      /\ v.delta = NoDelta /\ v.cumulative = NoDelta /\ v.chain = << >>
      /\ v.origins = [x \in Items |-> 0] /\ v.content = content
      /\ v.count = Cardinality(content) /\ v.fingerprint = f
  BY DEF Snapshot
<1>3. v \in View
  <2>1. NoDelta \in Delta /\ << >> \in Seq(Delta) /\ [x \in Items |-> 0] \in [Items -> Nat]
    BY DEF NoDelta, Delta
  <2> QED BY <1>1, <2>1 DEF Snapshot, View
<1> HIDE DEF v
<1>4. Exact(v, v)
  BY <1>2 DEF Exact, ReadThrough, NoDelta
<1>5. Fingerprinted(v, v)
  BY <1>2 DEF Fingerprinted, StructuralFingerprint
<1>6. Originated(v)
  BY <1>2 DEF Originated, Placed, NoDelta
<1>7. Counted(v)
  BY <1>2 DEF Counted
<1> QED
  BY <1>3, <1>4, <1>5, <1>6, <1>7 DEF Sound, v

\* A fingerprint computed for a view over its anchor covers the view's contents.
LEMMA FingerprintCovers ==
  ASSUME NEW a \in View, NEW v \in View, Exact(v, a), Fingerprinted(v, a)
  PROVE  v.fingerprint \in Fingerprint /\ v.fingerprint.content = v.content
<1>1. CASE v.cumulative = NoDelta
  <2>1. v.fingerprint = a.fingerprint /\ v.content = a.content
    BY <1>1 DEF Fingerprinted, StructuralFingerprint, Exact, ReadThrough, NoDelta
  <2> QED BY <2>1 DEF View, Fingerprinted
<1>2. CASE v.cumulative # NoDelta
  <2>1. v.fingerprint = [loaded |-> FALSE, content |-> v.content]
    BY <1>2 DEF Fingerprinted, StructuralFingerprint
  <2>2. v.fingerprint.content = v.content
    BY <2>1
  <2> QED BY <2>2 DEF View
<1> QED BY <1>1, <1>2

\* The state the program starts from: one loaded snapshot.
LEMMA InitSound ==
  Init => IInv
<1> SUFFICES ASSUME Init PROVE IInv
  OBVIOUS
<1> PICK content \in SUBSET Items :
      views = <<Snapshot(1, content, [loaded |-> TRUE, content |-> content], 0)>>
  BY Zenon DEF Init
<1> DEFINE f == [loaded |-> TRUE, content |-> content]
           v == Snapshot(1, content, f, 0)
<1>1. v \in View /\ Sound(v, v)
  <2>1. f \in Fingerprint /\ f.content = content
    BY DEF Fingerprint
  <2> QED BY <2>1, SnapshotIsSound
<1>2. v.base = 1 /\ v.anchor = 1 /\ v.made = 0 /\ v.depth = 0
  BY DEF Snapshot
<1> HIDE DEF v
<1>3. views = <<v>>
  BY DEF v
<1>4. /\ views \in Seq(View) /\ Len(views) = 1 /\ Ids = {1} /\ views[1] = v
  BY <1>1, <1>3 DEF Ids
<1>5. TypeOK
  BY <1>2, <1>4, OverlayAssumption DEF TypeOK
<1> QED
  BY <1>1, <1>2, <1>4, <1>5 DEF IInv

-----------------------------------------------------------------------------
\* apply_delta: the origins of a layer, from those of its base.
LEMMA OriginsOfLayer ==
  ASSUME NEW a \in View, NEW b \in View, Exact(b, a), Originated(b), NEW q \in Delta,
         NEW w, w.chain = Append(b.chain, q),
         w.cumulative = CombineDeltas(b.cumulative, Effective(b, q)),
         w.origins = AdditionOrigins(b, Effective(b, q), w.cumulative, Len(w.chain))
  PROVE  w.origins \in [Items -> Nat] /\ Originated(w)
<1> DEFINE e == Effective(b, q)
           n == Len(b.chain)
<1>1. /\ b.chain \in Seq(Delta) /\ n \in Nat
      /\ w.chain \in Seq(Delta) /\ Len(w.chain) = n + 1
      /\ \A i \in 1 .. n : w.chain[i] = b.chain[i]
      /\ w.chain[n + 1] = q /\ DOMAIN b.chain = 1 .. n /\ DOMAIN w.chain = 1 .. n + 1
  BY SMTT(20) DEF View
<1>2. /\ e.add = q.add \ b.content /\ e.remove = q.remove \cap b.content
      /\ e.add \subseteq Items
      /\ w.cumulative.add = (b.cumulative.add \ e.remove) \cup (e.add \ b.cumulative.remove)
  BY DEF Effective, CombineDeltas, Delta
<1>3. b.cumulative.add \subseteq b.content /\ b.cumulative.add \subseteq Items
  BY DEF Exact, ReadThrough, View, Delta
<1>4. Placed(b.origins) = b.cumulative.add /\ b.origins \in [Items -> Nat]
  BY DEF Originated, View
<1>5. w.origins = [x \in Items |->
         IF x \notin w.cumulative.add THEN 0
         ELSE IF x \in e.add THEN n + 1 ELSE b.origins[x]]
  <2>1. ((Placed(b.origins) \ e.remove) \cup e.add) \cap w.cumulative.add = w.cumulative.add
    BY <1>2, <1>4
  <2> QED BY <2>1, <1>1 DEF AdditionOrigins
<1> HIDE DEF e, n
<1>6. w.origins \in [Items -> Nat]
  BY <1>1, <1>4, <1>5
<1>7. Placed(w.origins) = w.cumulative.add
  <2>1. w.cumulative.add \subseteq Items
    BY <1>2, <1>3
  <2>2. \A x \in w.cumulative.add \ e.add : b.origins[x] # 0
    BY <1>2, <1>4 DEF Placed
  <2>3. n + 1 # 0
    BY <1>1
  <2> QED BY <2>1, <2>2, <2>3, <1>5 DEF Placed
<1>8. ASSUME NEW x \in w.cumulative.add
      PROVE  /\ w.origins[x] \in DOMAIN w.chain
             /\ x \in w.chain[w.origins[x]].add
             /\ \A later \in w.origins[x] + 1 .. Len(w.chain) : x \notin w.chain[later].remove
  <2>0. x \in Items
    BY <1>2, <1>3
  <2>1. CASE x \in e.add
    <3>1. w.origins[x] = n + 1
      BY <2>0, <2>1, <1>5
    <3>2. x \in q.add
      BY <2>1, <1>2
    <3>3. n + 1 \in 1 .. n + 1 /\ (n + 1) + 1 .. n + 1 = {}
      BY <1>1
    <3> QED BY <3>1, <3>2, <3>3, <1>1
  <2>2. CASE x \notin e.add
    <3>1. w.origins[x] = b.origins[x]
      BY <2>0, <2>2, <1>5
    <3>2. x \in b.cumulative.add /\ x \notin e.remove
      BY <2>2, <1>2
    <3>3. /\ b.origins[x] \in 1 .. n /\ x \in b.chain[b.origins[x]].add
          /\ \A later \in b.origins[x] + 1 .. n : x \notin b.chain[later].remove
      BY <3>2, <1>1 DEF Originated, n
    <3>4. x \notin q.remove
      BY <3>2, <1>2, <1>3
    <3>5. ASSUME NEW later \in b.origins[x] + 1 .. n + 1
          PROVE  x \notin w.chain[later].remove
      <4>1. CASE later = n + 1
        BY <4>1, <3>4, <1>1
      <4>2. CASE later # n + 1
        <5>1. later \in b.origins[x] + 1 .. n /\ later \in 1 .. n
          BY <4>2, <3>3, <1>1
        <5> QED BY <5>1, <3>3, <1>1
      <4> QED BY <4>1, <4>2, Zenon
    <3>6. b.origins[x] \in 1 .. n + 1
      BY <3>3, <1>1
    <3> QED BY <3>1, <3>3, <3>5, <3>6, <1>1
  <2> QED BY <2>1, <2>2, Zenon
<1> QED
  BY <1>6, <1>7, <1>8, Zenon DEF Originated

\* What the invariant gives of a view and its anchor.
LEMMA ViewAndAnchor ==
  ASSUME IInv, NEW id \in Ids
  PROVE  /\ views[id] \in View /\ views[id].anchor \in 1 .. id
         /\ id \in 1 .. Len(views) /\ Len(views) \in Nat
         /\ views[id].anchor \in Ids /\ views[views[id].anchor] \in View
         /\ Sound(views[id], views[views[id].anchor])
         /\ Counted(views[views[id].anchor])
         /\ views[id].depth <= MaxDepth
<1>1. /\ views \in Seq(View) /\ Ids = 1 .. Len(views) /\ Len(views) \in Nat
      /\ views[id].anchor \in 1 .. id /\ views[id].depth <= MaxDepth
  BY DEF IInv, TypeOK, Ids
<1>2. views[id].anchor \in Ids
  BY <1>1
<1> QED
  BY <1>1, <1>2 DEF IInv, Sound

\* The fingerprint of a new view is one.
LEMMA FingerprintType ==
  ASSUME NEW a \in View, NEW c, NEW content \in SUBSET Items
  PROVE  StructuralFingerprint(a, c, content) \in Fingerprint
<1>1. a.fingerprint \in Fingerprint
  BY DEF View
<1>2. [loaded |-> FALSE, content |-> content] \in Fingerprint
  BY Zenon DEF Fingerprint
<1> QED
  BY <1>1, <1>2 DEF StructuralFingerprint

\* OntologyOverlay._initialize: a new layer keeps the invariant.
LEMMA ApplyDeltaStep ==
  ASSUME IInv, NEW id \in Ids, NEW q \in Delta, NEW policy, ApplyDelta(id, q, policy)
  PROVE  IInv'
<1> PICK w : w = Layer(id, q)
  OBVIOUS
<1> PICK b : b = views[id]
  OBVIOUS
<1> PICK a : a = views[b.anchor]
  OBVIOUS
<1> PICK e : e = Effective(b, q)
  OBVIOUS
<1>1. /\ b \in View /\ a \in View /\ Sound(b, a)
      /\ b.anchor \in 1 .. id /\ id \in 1 .. Len(views) /\ Len(views) \in Nat
      /\ b.anchor \in Ids
  BY ViewAndAnchor
<1>2. /\ Len(views) < MaxViews /\ b.depth < MaxDepth /\ views' = Append(views, w)
  BY Zenon DEF ApplyDelta, DepthAllowed
<1>3. /\ w.base = id /\ w.anchor = b.anchor /\ w.delta = e /\ w.made = 0
      /\ w.cumulative = CombineDeltas(b.cumulative, e)
      /\ w.chain = Append(b.chain, q)
      /\ w.origins = AdditionOrigins(b, e, w.cumulative, Len(w.chain))
      /\ w.depth = b.depth + 1 /\ w.content = ReadThrough(b, e)
      /\ w.count = AddedCount(b, e)
      /\ w.fingerprint = StructuralFingerprint(a, w.cumulative, w.content)
      /\ w = [base |-> w.base, anchor |-> w.anchor, delta |-> w.delta,
              cumulative |-> w.cumulative, chain |-> w.chain, origins |-> w.origins,
              depth |-> w.depth, content |-> w.content, count |-> w.count,
              fingerprint |-> w.fingerprint, made |-> w.made]
  BY Zenon DEF Layer
<1>4. /\ e \in Delta /\ w.cumulative \in Delta /\ Exact(w, a)
  <2>1. Exact(b, a)
    BY <1>1, Zenon DEF Sound
  <2>2. /\ e \in Delta /\ CombineDeltas(b.cumulative, e) \in Delta
        /\ ReadThrough(b, e) = ReadThrough(a, CombineDeltas(b.cumulative, e))
        /\ CombineDeltas(b.cumulative, e).add \cap a.content = {}
        /\ CombineDeltas(b.cumulative, e).remove \subseteq a.content
    BY <1>1, <2>1, CombineIsExact, SMTT(30)
  <2> QED BY <1>3, <2>2, ZenonT(30) DEF Exact
<1>5. w.origins \in [Items -> Nat] /\ Originated(w)
  BY <1>1, <1>3, OriginsOfLayer, SMTT(20), ZenonT(20), SMTT(40) DEF Sound
<1>6. Counted(w) /\ w.count \in Nat
  <2>1. e.add \cap b.content = {} /\ e.remove \subseteq b.content
    BY EffectiveReduces, Zenon
  <2>2. b \in View /\ Counted(b) /\ e \in Delta
    BY <1>1, <1>4, Zenon DEF Sound
  <2>3. AddedCount(b, e) = Cardinality(ReadThrough(b, e)) /\ AddedCount(b, e) \in Nat
    BY <2>1, <2>2, CountIsPassedOn, Zenon
  <2> QED BY <1>3, <2>3, Zenon DEF Counted
<1>7. w.content \in SUBSET Items
  BY <1>1, <1>3, <1>4, Zenon DEF ReadThrough, View, Delta
<1>8. w.fingerprint \in Fingerprint
  BY <1>1, <1>3, <1>7, FingerprintType
<1>9. w \in View
  <2>1. w.base \in Nat /\ w.anchor \in Nat /\ w.made \in Nat /\ w.depth \in Nat
    <3>1. b.anchor \in Nat /\ b.depth \in Nat /\ id \in Nat
      BY <1>1, SMTT(20) DEF View
    <3>2. b.depth + 1 \in Nat
      BY ONLY <3>1
    <3> QED BY ONLY <3>1, <3>2, <1>3
  <2>2. w.chain \in Seq(Delta)
    BY <1>1, <1>3, ChainGrows, Zenon
  <2>3. w.delta \in Delta /\ w.count \in Int
    BY <1>3, <1>4, <1>6
  <2> QED BY ONLY <2>1, <2>2, <2>3, <1>3, <1>4, <1>5, <1>7, <1>8, Zenon DEF View
<1>10. Sound(w, a)
  BY <1>1, <1>3, <1>4, <1>5, <1>6, Zenon DEF Sound, Fingerprinted
<1>11. views'[w.anchor] = a
  <2>1. TypeOK /\ b.anchor \in Ids /\ w.anchor = b.anchor /\ views' = Append(views, w)
    BY <1>1, <1>2, <1>3, Zenon DEF IInv
  <2> QED BY <1>9, <2>1, AppendView, Zenon
<1>12. /\ w.base \in 1 .. Len(views) + 1 /\ w.anchor \in 1 .. Len(views) + 1
       /\ w.made \in 0 .. Len(views) /\ w.depth <= MaxDepth
  <2>1. b.depth \in Nat /\ MaxDepth \in Nat
    BY <1>1, OverlayAssumption, Zenon DEF View
  <2>2. /\ b.anchor \in 1 .. id /\ id \in 1 .. Len(views) /\ Len(views) \in Nat /\ b.depth < MaxDepth
        /\ w.base = id /\ w.anchor = b.anchor /\ w.made = 0 /\ w.depth = b.depth + 1
    BY <1>1, <1>2, <1>3, Zenon
  <2> QED BY ONLY <2>1, <2>2
<1> QED
  BY <1>2, <1>3, <1>9, <1>10, <1>11, <1>12, NewView

\* OntologyOverlay._compacted: a compacted view keeps the invariant and is true
\* to the view it was made from.
LEMMA CompactStep ==
  ASSUME IInv, NEW id \in Ids, Compact(id)
  PROVE  IInv'
<1> PICK w : w = Compacted(id)
  OBVIOUS
<1> PICK v : v = views[id]
  OBVIOUS
<1> PICK a : a = views[v.anchor]
  OBVIOUS
<1>1. /\ v \in View /\ a \in View /\ Sound(v, a) /\ Counted(a)
      /\ v.anchor \in 1 .. id /\ id \in 1 .. Len(views) /\ Len(views) \in Nat
      /\ v.anchor \in Ids
  BY ViewAndAnchor
<1>2. Len(views) < MaxViews /\ views' = Append(views, w)
  BY Zenon DEF Compact
<1>3. /\ w.base = v.anchor /\ w.anchor = v.anchor /\ w.delta = v.cumulative
      /\ w.cumulative = v.cumulative /\ w.chain = v.chain /\ w.origins = v.origins
      /\ w.depth = 1 /\ w.content = ReadThrough(a, v.cumulative)
      /\ w.count = AddedCount(a, v.cumulative) /\ w.made = id
      /\ w.fingerprint = StructuralFingerprint(a, v.cumulative, w.content)
      /\ w = [base |-> w.base, anchor |-> w.anchor, delta |-> w.delta,
              cumulative |-> w.cumulative, chain |-> w.chain, origins |-> w.origins,
              depth |-> w.depth, content |-> w.content, count |-> w.count,
              fingerprint |-> w.fingerprint, made |-> w.made]
  BY Zenon DEF Compacted
<1>4. w.content = v.content /\ w.fingerprint = v.fingerprint
  BY <1>1, <1>3, SMTT(30), ZenonT(40) DEF Sound, Exact, Fingerprinted
<1>5. w.count = Cardinality(w.content) /\ w.count \in Nat
  <2>1. /\ v.cumulative \in Delta /\ v.cumulative.add \cap a.content = {}
        /\ v.cumulative.remove \subseteq a.content
    BY <1>1, Zenon DEF Sound, Exact, View
  <2> QED BY <2>1, <1>1, <1>3, CountIsPassedOn, SMTT(30), ZenonT(40)
<1>6. w \in View
  <2>1. /\ w.base \in Nat /\ w.anchor \in Nat /\ w.made \in Nat /\ w.depth \in Nat
        /\ w.count \in Int
    BY <1>1, <1>3, <1>5
  <2>2. /\ w.delta \in Delta /\ w.cumulative \in Delta /\ w.chain \in Seq(Delta)
        /\ w.origins \in [Items -> Nat] /\ w.content \in SUBSET Items
        /\ w.fingerprint \in Fingerprint
    BY <1>1, <1>3, <1>4, ZenonT(40) DEF View
  <2> QED BY ONLY <2>1, <2>2, <1>3 DEF View
<1>7. Sound(w, a)
  <2>1. Exact(w, a) /\ Fingerprinted(w, a)
    BY <1>1, <1>3, SMTT(30), ZenonT(40) DEF Sound, Exact, Fingerprinted
  <2>2. Originated(w)
    BY <1>1, <1>3, Zenon DEF Sound, Originated
  <2> QED BY <2>1, <2>2, <1>5 DEF Sound, Counted
<1>8. Collapsed(w, v)
  BY <1>1, <1>3, <1>4, <1>5 DEF Collapsed, Sound, Counted
<1>9. views'[w.anchor] = a
  <2>1. TypeOK /\ v.anchor \in Ids /\ w.anchor = v.anchor /\ views' = Append(views, w)
    BY <1>1, <1>2, <1>3, Zenon DEF IInv
  <2> QED BY <1>6, <2>1, AppendView, Zenon
<1>10. /\ w.base \in 1 .. Len(views) + 1 /\ w.anchor \in 1 .. Len(views) + 1
       /\ w.made \in 0 .. Len(views) /\ w.depth <= MaxDepth
  <2>1. /\ v.anchor \in 1 .. id /\ id \in 1 .. Len(views) /\ Len(views) \in Nat /\ MaxDepth \in Nat \ {0}
        /\ w.base = v.anchor /\ w.anchor = v.anchor /\ w.made = id /\ w.depth = 1
    BY <1>1, <1>3, OverlayAssumption, Zenon
  <2> QED BY ONLY <2>1
<1> QED
  BY <1>2, <1>3, <1>6, <1>7, <1>8, <1>9, <1>10, NewView

\* materialize: a materialized view keeps the invariant and is true to the view
\* it was made from.
LEMMA MaterializeStep ==
  ASSUME IInv, NEW id \in Ids, Materialize(id)
  PROVE  IInv'
<1> PICK v : v = views[id]
  OBVIOUS
<1> PICK a : a = views[v.anchor]
  OBVIOUS
<1> PICK n : n = Len(views) + 1
  OBVIOUS
<1> PICK w : w = Snapshot(n, v.content, v.fingerprint, id)
  OBVIOUS
<1>1. /\ v \in View /\ a \in View /\ Sound(v, a)
      /\ id \in 1 .. Len(views) /\ Len(views) \in Nat
  BY ViewAndAnchor
<1>2. Len(views) < MaxViews /\ views' = Append(views, w)
  BY <1>1 DEF Materialize, MaterializedFingerprint, Sound, Fingerprinted
<1>3. v.fingerprint \in Fingerprint /\ v.fingerprint.content = v.content
  BY <1>1, FingerprintCovers DEF Sound
<1>4. w \in View /\ Sound(w, w)
  <2>1. n \in Nat /\ id \in Nat /\ v.content \in SUBSET Items
    BY <1>1, SMTT(20) DEF View
  <2> QED BY <2>1, <1>3, SnapshotIsSound
<1>5. /\ w.base = n /\ w.anchor = n /\ w.made = id /\ w.depth = 0
      /\ w.content = v.content /\ w.count = Cardinality(v.content)
      /\ w.fingerprint = v.fingerprint
  BY DEF Snapshot
<1>6. Collapsed(w, v)
  BY <1>1, <1>5, SMTT(20), ZenonT(20), SMTT(40) DEF Collapsed, Sound, Counted
<1>7. views'[w.anchor] = w
  BY <1>2, <1>4, <1>5, AppendView, SMTT(30), ZenonT(40) DEF IInv
<1>8. /\ w.base \in 1 .. Len(views) + 1 /\ w.anchor \in 1 .. Len(views) + 1
      /\ w.made \in 0 .. Len(views) /\ w.depth <= MaxDepth
  BY <1>1, <1>5, OverlayAssumption
<1> QED
  BY <1>2, <1>4, <1>5, <1>6, <1>7, <1>8, NewView

-----------------------------------------------------------------------------
\* Every view that deltas, compactions and materializations make is sound.
THEOREM Invariance ==
  Spec => []IInv
<1>1. ASSUME IInv, [Next]_vars
      PROVE  IInv'
  <2>1. ASSUME NEW id \in Ids, NEW q \in Delta, NEW policy \in {"strict", "idempotent"},
               ApplyDelta(id, q, policy)
        PROVE  IInv'
    BY <1>1, <2>1, ApplyDeltaStep
  <2>2. ASSUME NEW id \in Ids, Compact(id)
        PROVE  IInv'
    BY <1>1, <2>2, CompactStep
  <2>3. ASSUME NEW id \in Ids, Materialize(id)
        PROVE  IInv'
    BY <1>1, <2>3, MaterializeStep
  <2>4. CASE UNCHANGED vars
    BY <1>1, <2>4 DEF IInv, TypeOK, Ids, vars
  <2> QED BY <1>1, <2>1, <2>2, <2>3, <2>4 DEF Next
<1> QED
  BY <1>1, InitSound, PTL DEF Spec

\* Views are well formed and made from earlier ones, whatever the items and limits.
THEOREM TypeCorrect ==
  Spec => []TypeOK
BY Invariance, PTL DEF IInv

(***************************************************************************)
(* combine_deltas is right: reading through any number of layers gives     *)
(* what the anchor gives with the one cumulative delta applied.            *)
(***************************************************************************)
THEOREM LayersEqualCumulative ==
  Spec => []CumulativeIsExact
<1>1. IInv => CumulativeIsExact
  BY DEF IInv, Sound, Exact, CumulativeIsExact
<1> QED
  BY <1>1, Invariance, PTL

(***************************************************************************)
(* compact() and materialize() preserve contents, count and fingerprint of *)
(* the view they are called on, and compact() its origins.                 *)
(***************************************************************************)
THEOREM CollapseIsFaithful ==
  Spec => []CollapsePreserves
<1>1. IInv => CollapsePreserves
  BY DEF IInv, Collapsed, CollapsePreserves
<1> QED
  BY <1>1, Invariance, PTL

\* effective_axiom_count, passed from layer to layer, is the size of the view.
THEOREM CountsAreExact ==
  Spec => []CountIsExact
<1>1. IInv => CountIsExact
  BY Zenon DEF IInv, Sound, Counted, CountIsExact
<1> QED
  BY <1>1, Invariance, PTL

\* origins_for names the edit that last made an added item present.
THEOREM OriginsAreExact ==
  Spec => []OriginsNameTheirEdit
<1>1. IInv => OriginsNameTheirEdit
  BY DEF IInv, Sound, Originated, OriginsNameTheirEdit
<1> QED
  BY <1>1, Invariance, PTL

(***************************************************************************)
(* Over one anchor, structural fingerprints are equal exactly when the     *)
(* contents are: reusing the anchor's for an empty cumulative delta        *)
(* (_fingerprints) loses nothing, because a delta that is not empty does   *)
(* change the contents.                                                    *)
(***************************************************************************)
THEOREM FingerprintsAreExact ==
  Spec => []FingerprintIsContent
<1>1. ASSUME NEW a \in View, NEW v \in View, NEW w \in View, Sound(v, a), Sound(w, a)
      PROVE  v.fingerprint = w.fingerprint <=> v.content = w.content
  <2>1. v.fingerprint.content = v.content /\ w.fingerprint.content = w.content
    BY <1>1, FingerprintCovers DEF Sound
  <2>2. ASSUME NEW x \in View, Sound(x, a)
        PROVE  /\ x.cumulative = NoDelta => x.fingerprint = a.fingerprint
               /\ x.cumulative # NoDelta =>
                    /\ x.fingerprint = [loaded |-> FALSE, content |-> x.content]
                    /\ x.content # a.content
               /\ x.cumulative = NoDelta => x.content = a.content
    <3>1. /\ x.content = (a.content \ x.cumulative.remove) \cup x.cumulative.add
          /\ x.cumulative.add \cap a.content = {}
          /\ x.cumulative.remove \subseteq a.content
      BY <2>2 DEF Sound, Exact, ReadThrough
    <3>2. x.cumulative # NoDelta => x.content # a.content
      <4>1. x.cumulative # NoDelta => x.cumulative.add # {} \/ x.cumulative.remove # {}
        <5>1. x.cumulative \in Delta
          BY DEF View
        <5>2. \A d \in Delta : d.add = {} /\ d.remove = {} => d = NoDelta
          BY DEF Delta, NoDelta
        <5> QED BY <5>1, <5>2
      <4> QED BY <4>1, <3>1
    <3>3. x.cumulative = NoDelta => x.content = a.content
      BY <3>1 DEF NoDelta
    <3> QED BY <2>2, <3>2, <3>3 DEF Sound, Fingerprinted, StructuralFingerprint
  <2>3. v.content = w.content => v.fingerprint = w.fingerprint
    BY <1>1, <2>2, Zenon
  <2> QED BY <2>1, <2>3
<1>2. IInv => FingerprintIsContent
  <2> SUFFICES ASSUME IInv, NEW i \in Ids, NEW j \in Ids, views[i].anchor = views[j].anchor
               PROVE  views[i].fingerprint = views[j].fingerprint
                        <=> views[i].content = views[j].content
    BY DEF FingerprintIsContent
  <2>1. /\ views[i] \in View /\ views[j] \in View /\ views[views[i].anchor] \in View
        /\ Sound(views[i], views[views[i].anchor]) /\ Sound(views[j], views[views[i].anchor])
    BY ViewAndAnchor
  <2> QED BY <2>1, <1>1
<1> QED
  BY <1>2, Invariance, PTL

=============================================================================
