------------------------- MODULE ImportLoaderProofs -------------------------
(***************************************************************************)
(* Proofs about the import closure of SnapshotLoader.load: what it returns *)
(* is the closure of the root, the depth it counts is the shortest, and no *)
(* failed import goes unreported, for every import graph, every behaviour  *)
(* of the resolver and every limit.                                        *)
(***************************************************************************)
EXTENDS ImportLoader, FiniteSetTheorems, WellFoundedInduction, TLAPS

-----------------------------------------------------------------------------
(* The inductive invariant.                                                  *)

Items == [from : Keys, iri : IRIs, depth : 1 .. limits.depth]
Entries == [item : Items, answer : Docs \cup Failures]
Statuses == {"RESOLVED", "IGNORED", "DENIED", "UNRESOLVED", "FAILED"}
Edges == [from : Keys, iri : IRIs, status : Statuses, to : Keys \cup {Nothing}]

\* A document is retained under one of its keys.
Keyed == \A n \in nodes : \E d \in Docs : \E i \in IRIs \cup {Nothing} :
           n = [key |-> DocumentKey(d, i), doc |-> d]

Finite ==
  IsFiniteSet(nodes) /\ IsFiniteSet(edges) /\ IsFiniteSet(pending) /\ IsFiniteSet(nextPending)

Shape ==
  /\ policy \in Policies /\ limits \in Limits /\ resolver \in BOOLEAN
  /\ phase \in {"start", "resolve", "enter", "done", "failed"}
  /\ reason \in {"none", "attempts", "depth", "documents", "conflict", "unresolved", "interrupted"}
  /\ pending \subseteq Items /\ nextPending \subseteq Items /\ batch \in Seq(Entries)
  /\ edges \subseteq Edges /\ \A e \in edges : e.status = "RESOLVED" => e.to \in Keys
  /\ attempts \in 0 .. limits.attempts /\ shown \in 0 .. limits.diagnostics /\ suppressed \in Nat

\* Which of the work lists can be in use.
Staged ==
  /\ phase = "start" => /\ nodes = {[key |-> RootKey, doc |-> Root]} /\ edges = {}
                        /\ shown = 0 /\ suppressed = 0
  /\ phase \in {"start", "done"} => pending = {}
  /\ phase \in {"start", "resolve", "done"} => batch = << >> /\ nextPending = {}
  /\ phase = "enter" => pending = {}

Unique == \A m, n \in nodes : m = n \/ Distinguished(m, n)

\* The imports still to be entered.
InBatch == {batch[i].item : i \in DOMAIN batch}
Asked == pending \cup nextPending \cup InBatch

\* Two items or edges for the same import of the same document.
Same(x, y) == x.from = y.from /\ x.iri = y.iri

\* No import is entered twice.
Once ==
  /\ \A x, y \in Asked : Same(x, y) => x = y
  /\ \A e, f \in edges : Same(e, f) => e = f
  /\ \A x \in Asked, e \in edges : ~Same(x, e)
  /\ \A i, j \in DOMAIN batch : batch[i].item = batch[j].item => i = j
  /\ InBatch \cap nextPending = {}

\* No import is forgotten; a batch that was cut short ends the load.
Covered ==
  phase \in {"resolve", "enter"} \/ (phase = "done" /\ policy # "IGNORE") =>
    \/ \A n \in nodes : \A i \in Imports[n.doc] : \E x \in Asked \cup edges : x.from = n.key /\ x.iri = i
    \/ \E k \in DOMAIN batch : Stops(batch[k].answer)

Strict == policy = "RESOLVE_STRICT" => \A e \in edges : e.status = "RESOLVED"

\* The level being resolved or entered, and what has been reached so far.
Layered(d) ==
  /\ \A x \in pending \cup InBatch : x.depth = d /\ d <= Cardinality(nodes)
  /\ \A x \in nextPending : x.depth = d + 1 /\ d + 1 <= Cardinality(nodes)
  /\ d - 1 <= Cardinality(nodes)
  /\ phase = "resolve" => Keys \subseteq Levels[d - 1]
  /\ phase = "enter" => d <= Cardinality(nodes) /\ Keys \subseteq Levels[d]
Layers == \E d \in Nat \ {0} : Layered(d)
Reached == phase = "done" => Keys \subseteq Levels[Cardinality(nodes)]

\* The root stays retained.
Rooted == RootKey \in Keys

Inductive ==
  /\ Shape /\ Rooted /\ Keyed /\ Finite /\ Staged /\ Unique /\ Once /\ Covered /\ Strict
  /\ Layers /\ Reached /\ DepthIsShortest /\ DiagnosticsAddUp

-----------------------------------------------------------------------------
(* Induction, by least counterexample.                                       *)

\* A nonempty set of naturals has a least element.
LEMMA Least ==
  ASSUME NEW S \in SUBSET Nat, S # {}
  PROVE  \E x \in S : \A y \in S : x <= y
<1>1. PICK x \in S : \A y \in S : ~(<<y, x>> \in OpToRel(<, Nat))
  BY WFMin, NatLessThanWellFounded, Zenon
<1>2. ASSUME NEW y \in S PROVE x <= y
  <2>1. ~(<<y, x>> \in OpToRel(<, Nat))
    BY <1>1, Zenon
  <2>2. x \in Nat /\ y \in Nat
    OBVIOUS
  <2>3. ~ (y < x)
    BY <2>1, <2>2 DEF OpToRel
  <2> QED BY <2>2, <2>3
<1> QED BY <1>2, Zenon

\* A set of naturals that has m, and with n < N its successor, has all of m .. N.
LEMMA Climb ==
  ASSUME NEW S, NEW m \in Nat, NEW N \in Nat, m \in S, \A n \in m .. N - 1 : n \in S => n + 1 \in S
  PROVE  m .. N \subseteq S
<1> DEFINE bad == {n \in m .. N : n \notin S}
<1> SUFFICES ASSUME bad # {} PROVE FALSE
  OBVIOUS
<1>1. PICK x \in bad : \A y \in bad : x <= y
  <2>1. bad \in SUBSET Nat
    OBVIOUS
  <2> HIDE DEF bad
  <2> QED BY <2>1, Least, Zenon
<1>2. x \in m .. N /\ x \notin S /\ x # m
  OBVIOUS
<1>3. x - 1 \in m .. N - 1 /\ x - 1 \notin bad
  BY <1>1, <1>2
<1>4. x - 1 \in S
  BY <1>2, <1>3
<1>5. (x - 1) + 1 \in S
  BY <1>3, <1>4
<1> QED BY <1>2, <1>5

-----------------------------------------------------------------------------
(* Levels of a graph.                                                        *)

To(E, k) == {e.to : e \in {x \in E : x.from = k /\ x.status = "RESOLVED"}}
Top == Cardinality(Docs) * (Cardinality(IRIs) + 1)

IsLevels(f, E) ==
  /\ f[0] = {RootKey}
  /\ \A n \in 0 .. Top - 1 : f[n + 1] = f[n] \cup UNION {To(E, k) : k \in f[n]}

\* There are as many levels as there are documents, at least.
LEMMA TopType == Top \in Nat /\ Cardinality(Docs) \in Nat /\ Cardinality(Docs) <= Top
<1>1. Cardinality(Docs) \in Nat /\ Cardinality(IRIs) \in Nat
  BY ImportLoaderAssumption, FS_CardinalityType
<1> DEFINE a == Cardinality(Docs)
           b == Cardinality(IRIs)
<1>2. a \in Nat /\ b \in Nat
  BY <1>1
<1> HIDE DEF a, b
<1>3. a * (b + 1) \in Nat /\ a * (b + 1) = a * b + a /\ a * b >= 0
  BY <1>2
<1>4. a * (b + 1) >= a
  BY <1>2, <1>3
<1> QED BY <1>2, <1>3, <1>4 DEF a, b, Top

\* The first two levels exist as soon as there is a document to import.
LEMMA TopStarts == ASSUME 1 <= Top PROVE 0 \in 0 .. Top /\ 1 \in 0 .. Top
BY TopType

\* The empty sequence has no indices.
LEMMA EmptyDomain == DOMAIN << >> = {}
OBVIOUS

\* Nothing is asked for while nothing is pending or in the batch.
LEMMA NothingAsked ==
  ASSUME pending = {}, nextPending = {}, batch = << >>
  PROVE  InBatch = {} /\ Asked = {}
BY EmptyDomain DEF InBatch, Asked

\* The parts of the node of a document.
LEMMA NodeParts ==
  ASSUME NEW k, NEW d, NEW n \in {[key |-> k, doc |-> d]}
  PROVE  n.key = k /\ n.doc = d
OBVIOUS

\* A depth within Top is one of the levels.
LEMMA DepthIsLevel ==
  ASSUME NEW d \in 1 .. Top
  PROVE  d \in 0 .. Top
BY TopType

\* A depth that was within reach still is when one document more is retained,
\* and so is the next depth.
LEMMA OneDeeper ==
  ASSUME NEW d \in Nat \ {0}, NEW c \in Nat, d <= c, NEW more, more = c + 1
  PROVE  d - 1 <= more /\ d <= more /\ d + 1 <= more
OBVIOUS

\* The root alone is one document, and the first depth within reach.
LEMMA FirstDepth ==
  ASSUME NEW c, c = 1
  PROVE  1 - 1 <= c /\ 1 <= c /\ 1 \in Nat \ {0}
OBVIOUS

\* Equal claims are equal in both parts.
LEMMA ClaimParts ==
  ASSUME NEW c, NEW d, Claim(c) = Claim(d)
  PROVE  Ontology[c] = Ontology[d] /\ Version[c] = Version[d]
BY DEF Claim

\* An item and its answer are an entry of a batch.
LEMMA EntryIs ==
  ASSUME NEW x \in Items, NEW a \in Docs \cup Failures
  PROVE  [item |-> x, answer |-> a] \in Entries
BY DEF Entries

\* g iterates F on A, N times.
Iterates(g, A, F, N, U) ==
  g \in [0 .. N -> SUBSET U] /\ g[0] = A /\ \A n \in 0 .. N - 1 : g[n + 1] = F[g[n]]

\* Iterating a function from sets to sets is well defined.
LEMMA Iteration ==
  ASSUME NEW U, NEW A, A \subseteq U, NEW F, F \in [SUBSET U -> SUBSET U], NEW N, N \in Nat
  PROVE  \E g : Iterates(g, A, F, N, U)
<1> DEFINE P(g, n) == g[0] = A /\ \A i \in 0 .. n - 1 : g[i + 1] = F[g[i]]
           S == {n \in Nat : \E g \in [0 .. n -> SUBSET U] : P(g, n)}
<1>1. 0 \in S
  <2> DEFINE g == [i \in 0 .. 0 |-> A]
  <2>1. g \in [0 .. 0 -> SUBSET U] /\ P(g, 0)
    OBVIOUS
  <2> QED BY <2>1, Zenon
<1>2. ASSUME NEW n \in 0 .. N - 1, n \in S PROVE n + 1 \in S
  <2>1. PICK g \in [0 .. n -> SUBSET U] : P(g, n)
    BY <1>2
  <2> DEFINE h == [i \in 0 .. n + 1 |-> IF i = n + 1 THEN F[g[n]] ELSE g[i]]
  <2>2. h \in [0 .. n + 1 -> SUBSET U]
    BY <2>1
  <2>3. h[0] = A
    BY <2>1
  <2>4. ASSUME NEW i \in 0 .. (n + 1) - 1 PROVE h[i + 1] = F[h[i]]
    <3>1. CASE i = n
      BY <3>1
    <3>2. CASE i # n
      BY <2>1, <3>2
    <3> QED BY <3>1, <3>2
  <2>5. P(h, n + 1)
    BY <2>3, <2>4, Zenon
  <2> HIDE DEF P, h
  <2>6. \E k \in [0 .. n + 1 -> SUBSET U] : P(k, n + 1)
    BY <2>2, <2>5, Zenon
  <2> QED BY <2>6
<1>3. N \in S
  <2> HIDE DEF S
  <2>1. 0 .. N \subseteq S
    BY <1>1, <1>2, Climb
  <2> QED BY <2>1
<1>4. PICK g \in [0 .. N -> SUBSET U] : P(g, N)
  BY <1>3, Zenon
<1>5. Iterates(g, A, F, N, U)
  BY <1>4 DEF Iterates
<1> QED BY <1>5

\* Levels are what their recursive definition says, before and after a step.
LEMMA LevelsAre ==
  ASSUME NEW E, NEW f,
         f = CHOOSE g : g = [n \in 0 .. Top |-> IF n = 0 THEN {RootKey}
                                                ELSE g[n - 1] \cup UNION {To(E, k) : k \in g[n - 1]}]
  PROVE  IsLevels(f, E)
<1> DEFINE U == {RootKey} \cup {e.to : e \in E}
           R(g) == [n \in 0 .. Top |-> IF n = 0 THEN {RootKey}
                                      ELSE g[n - 1] \cup UNION {To(E, k) : k \in g[n - 1]}]
           F == [S \in SUBSET U |-> S \cup UNION {To(E, k) : k \in S}]
<1>1. ASSUME NEW k PROVE To(E, k) \subseteq U
  BY DEF To
<1>2. F \in [SUBSET U -> SUBSET U]
  BY <1>1
<1>3. PICK g \in [0 .. Top -> SUBSET U] :
        g[0] = {RootKey} /\ \A n \in 0 .. Top - 1 : g[n + 1] = F[g[n]]
  <2> DEFINE A == {RootKey}
             N == Top
  <2>1. A \subseteq U /\ N \in Nat
    BY TopType
  <2>2. \E g : Iterates(g, A, F, N, U)
    <3> HIDE DEF F, U, A, N
    <3> QED BY <1>2, <2>1, Iteration, Zenon
  <2> HIDE DEF F
  <2> QED BY <2>2, Zenon DEF Iterates
<1>4. g = R(g)
  <2>1. ASSUME NEW n \in 0 .. Top
        PROVE  g[n] = IF n = 0 THEN {RootKey} ELSE g[n - 1] \cup UNION {To(E, k) : k \in g[n - 1]}
    <3>1. CASE n = 0
      BY <1>3, <3>1
    <3>2. CASE n # 0
      <4> DEFINE m == n - 1
      <4>1. m \in 0 .. Top - 1 /\ m + 1 = n /\ m \in 0 .. Top
        BY <3>2, TopType
      <4>2. g[n] = F[g[m]] /\ g[m] \in SUBSET U
        <5> HIDE DEF F, U, m
        <5> QED BY <1>3, <4>1
      <4>3. F[g[m]] = g[m] \cup UNION {To(E, k) : k \in g[m]}
        <5> HIDE DEF U, m
        <5> QED BY <4>2
      <4> QED BY <3>2, <4>2, <4>3
    <3> QED BY <3>1, <3>2
  <2> QED BY <2>1, Zenon
<1>5. f = R(f)
  <2> HIDE DEF R
  <2>1. f = CHOOSE h : h = R(h)
    BY DEF R
  <2> QED BY <1>4, <2>1, Zenon
<1>6. f[0] = {RootKey}
  <2>1. 0 \in 0 .. Top
    BY TopType
  <2>2. R(f)[0] = {RootKey}
    BY <2>1
  <2> HIDE DEF R
  <2> QED BY <1>5, <2>2, Zenon
<1>7. ASSUME NEW n \in 0 .. Top - 1 PROVE f[n + 1] = f[n] \cup UNION {To(E, k) : k \in f[n]}
  <2>1. n + 1 \in 0 .. Top /\ n + 1 # 0 /\ (n + 1) - 1 = n
    BY TopType
  <2>2. R(f)[n + 1] = f[n] \cup UNION {To(E, k) : k \in f[n]}
    BY <2>1
  <2> HIDE DEF R
  <2> QED BY <1>5, <2>2, Zenon
<1> QED BY <1>6, <1>7, Zenon DEF IsLevels

\* e leads from A to x.
Leads(e, A, x) == e.status = "RESOLVED" /\ e.from \in A /\ e.to = x

\* What is in the next level.
LEMMA LevelStep ==
  ASSUME NEW f, NEW E, IsLevels(f, E), NEW n \in 0 .. Top - 1, NEW x
  PROVE  x \in f[n + 1] <=> x \in f[n] \/ \E e \in E : Leads(e, f[n], x)
<1>1. f[n + 1] = f[n] \cup UNION {To(E, k) : k \in f[n]}
  BY DEF IsLevels
<1>2. x \in UNION {To(E, k) : k \in f[n]} <=> \E k \in f[n] : x \in To(E, k)
  OBVIOUS
<1>3. ASSUME NEW k PROVE x \in To(E, k) <=> \E e \in E : e.from = k /\ e.status = "RESOLVED" /\ e.to = x
  <2> DEFINE T == {y \in E : y.from = k /\ y.status = "RESOLVED"}
  <2>1. To(E, k) = {e.to : e \in T}
    BY DEF To
  <2>2. x \in {e.to : e \in T} <=> \E e \in T : e.to = x
    BY Zenon
  <2> QED BY <2>1, <2>2
<1>4. (\E k \in f[n] : x \in To(E, k)) <=> \E e \in E : Leads(e, f[n], x)
  <2>1. ASSUME NEW k \in f[n], x \in To(E, k) PROVE \E e \in E : Leads(e, f[n], x)
    <3>1. PICK e \in E : e.from = k /\ e.status = "RESOLVED" /\ e.to = x
      BY <1>3, <2>1
    <3> QED BY <3>1 DEF Leads
  <2>2. ASSUME NEW e \in E, Leads(e, f[n], x) PROVE \E k \in f[n] : x \in To(E, k)
    <3>1. e.from \in f[n] /\ x \in To(E, e.from)
      BY <1>3, <2>2 DEF Leads
    <3> QED BY <3>1
  <2> QED BY <2>1, <2>2
<1> QED BY <1>1, <1>2, <1>4

\* Levels only grow.
LEMMA LevelsGrow ==
  ASSUME NEW f, NEW E, IsLevels(f, E), NEW m \in 0 .. Top, NEW n \in m .. Top
  PROVE  f[m] \subseteq f[n]
<1> DEFINE S == {i \in Nat : f[m] \subseteq f[i]}
<1>1. m \in S /\ m \in Nat /\ Top \in Nat
  BY TopType
<1>2. ASSUME NEW i \in m .. Top - 1, i \in S PROVE i + 1 \in S
  <2>1. i \in 0 .. Top - 1
    BY TopType
  <2>2. \A x : x \in f[i] => x \in f[i + 1]
    BY <2>1, LevelStep
  <2> QED BY <1>2, <2>1, <2>2
<1>3. m .. Top \subseteq S
  <2> HIDE DEF S
  <2> QED BY <1>1, <1>2, Climb
<1> QED BY <1>3

\* Levels hold nothing but the root and what resolved edges lead to.
LEMMA LevelsInside ==
  ASSUME NEW f, NEW E, IsLevels(f, E), NEW K, RootKey \in K, \A e \in E : e.status = "RESOLVED" => e.to \in K,
         NEW n \in 0 .. Top
  PROVE  f[n] \subseteq K
<1> DEFINE S == {i \in Nat : f[i] \subseteq K}
<1>1. 0 \in S /\ Top \in Nat
  BY TopType DEF IsLevels
<1>2. ASSUME NEW i \in 0 .. Top - 1, i \in S PROVE i + 1 \in S
  <2>1. ASSUME NEW x \in f[i + 1] PROVE x \in K
    <3>1. x \in f[i] \/ \E e \in E : Leads(e, f[i], x)
      BY LevelStep
    <3> QED BY <1>2, <3>1 DEF Leads
  <2> QED BY <2>1
<1>3. 0 .. Top \subseteq S
  <2> HIDE DEF S
  <2> QED BY <1>1, <1>2, Climb
<1> QED BY <1>3

\* An edge that is not resolved, or a resolved one from level d - 1 or later to
\* a document that level d has already.
AddsNothing(e, f) ==
  e.status = "RESOLVED" => \E d \in 1 .. Top : e.to \in f[d] /\ (d > 1 => e.from \notin f[d - 2])

\* Such an edge changes no level.
LEMMA EdgeToKnown ==
  ASSUME NEW f, NEW E, IsLevels(f, E), NEW g, NEW e, IsLevels(g, E \cup {e}), NEW n \in 0 .. Top,
         AddsNothing(e, f)
  PROVE  g[n] = f[n]
<1> DEFINE S == {i \in Nat : g[i] = f[i]}
<1>1. 0 \in S /\ Top \in Nat
  BY TopType, Zenon DEF IsLevels
<1>2. ASSUME NEW i \in 0 .. Top - 1, i \in S PROVE i + 1 \in S
  <2>1. g[i] = f[i]
    BY <1>2
  <2>2. ASSUME e.status = "RESOLVED", e.from \in f[i] PROVE e.to \in f[i + 1]
    <3>1. PICK d \in 1 .. Top : e.to \in f[d] /\ (d > 1 => e.from \notin f[d - 2])
      BY <2>2 DEF AddsNothing
    <3>2. i >= d - 1
      <4>1. SUFFICES ASSUME i < d - 1 PROVE FALSE
        OBVIOUS
      <4>2. d > 1 /\ d - 2 \in i .. Top /\ i \in 0 .. Top
        BY <4>1, TopType
      <4>3. f[i] \subseteq f[d - 2]
        BY <4>2, LevelsGrow
      <4> QED BY <2>2, <3>1, <4>2, <4>3
    <3>3. d \in 0 .. Top /\ i + 1 \in d .. Top
      BY <3>2, TopType
    <3>4. f[d] \subseteq f[i + 1]
      BY <3>3, LevelsGrow
    <3> QED BY <3>1, <3>4
  <2>3. ASSUME NEW x PROVE x \in g[i + 1] <=> x \in f[i + 1]
    <3>1. x \in g[i + 1] <=> x \in f[i] \/ \E y \in E \cup {e} : Leads(y, f[i], x)
      BY <2>1, LevelStep
    <3>2. x \in f[i + 1] <=> x \in f[i] \/ \E y \in E : Leads(y, f[i], x)
      BY LevelStep
    <3>3. Leads(e, f[i], x) => x \in f[i + 1]
      BY <2>2 DEF Leads
    <3> QED BY <3>1, <3>2, <3>3
  <2>4. g[i + 1] = f[i + 1]
    <3>1. f[i + 1] = f[i] \cup UNION {To(E, k) : k \in f[i]}
      BY DEF IsLevels
    <3>2. g[i + 1] = g[i] \cup UNION {To(E \cup {e}, k) : k \in g[i]}
      BY Zenon DEF IsLevels
    <3> QED BY <2>3, <3>1, <3>2, Zenon
  <2> QED BY <2>4
<1>3. 0 .. Top \subseteq S
  <2> HIDE DEF S
  <2> QED BY <1>1, <1>2, Climb
<1> QED BY <1>3

\* A resolved edge from level d - 1 to a new document.
AddsNew(e, f, E, d) ==
  /\ e.status = "RESOLVED" /\ e.from \in f[d - 1] /\ (d > 1 => e.from \notin f[d - 2])
  /\ (\A y \in E : y.from # e.to) /\ e.from # e.to

\* Such an edge puts the document in level d, and changes nothing else.
LEMMA EdgeToNew ==
  ASSUME NEW f, NEW E, IsLevels(f, E), NEW g, NEW e, IsLevels(g, E \cup {e}),
         NEW d \in 1 .. Top, AddsNew(e, f, E, d), NEW n \in 0 .. Top, NEW x
  PROVE  x \in g[n] <=> x \in f[n] \/ (n >= d /\ x = e.to)
<1> USE DEF AddsNew
<1> DEFINE P(i) == \A y : y \in g[i] <=> y \in f[i] \/ (i >= d /\ y = e.to)
           S == {i \in Nat : P(i)}
<1>1. 0 \in S /\ Top \in Nat
  BY TopType DEF IsLevels
<1>2. ASSUME NEW i \in 0 .. Top - 1, i \in S PROVE i + 1 \in S
  <2>1. P(i)
    BY <1>2
  <2>2. e.from \in f[i] <=> i >= d - 1
    <3>1. CASE i < d - 1
      <4>2. d > 1 /\ d - 2 \in i .. Top /\ i \in 0 .. Top
        BY <3>1, TopType
      <4>3. f[i] \subseteq f[d - 2]
        BY <4>2, LevelsGrow
      <4> QED BY <3>1, <4>2, <4>3
    <3>2. CASE i >= d - 1
      <4>1. d - 1 \in 0 .. Top /\ i \in d - 1 .. Top
        BY <3>2, TopType
      <4>2. f[d - 1] \subseteq f[i]
        BY <4>1, LevelsGrow
      <4> QED BY <3>2, <4>2
    <3> QED BY <3>1, <3>2
  <2>3. \A y \in E \cup {e} : y.from \in g[i] <=> y.from \in f[i]
    BY <2>1
  <2>4. ASSUME NEW y PROVE y \in g[i + 1] <=> y \in f[i + 1] \/ (i + 1 >= d /\ y = e.to)
    <3>1. y \in g[i + 1] <=> y \in g[i] \/ \E z \in E \cup {e} : Leads(z, g[i], y)
      BY LevelStep
    <3>2. y \in f[i + 1] <=> y \in f[i] \/ \E z \in E : Leads(z, f[i], y)
      BY LevelStep
    <3>3. \A z \in E \cup {e} : Leads(z, g[i], y) <=> Leads(z, f[i], y)
      BY <2>3 DEF Leads
    <3>4. Leads(e, f[i], y) <=> i + 1 >= d /\ y = e.to
      BY <2>2 DEF Leads
    <3>5. y \in g[i] <=> y \in f[i] \/ (i >= d /\ y = e.to)
      BY <2>1
    <3>6. i >= d => i + 1 >= d
      OBVIOUS
    <3>7. (\E z \in E \cup {e} : Leads(z, g[i], y)) <=> (\E z \in E : Leads(z, f[i], y)) \/ Leads(e, f[i], y)
      BY <3>3
    <3> QED BY <3>1, <3>2, <3>4, <3>5, <3>6, <3>7, Zenon
  <2> QED BY <2>4
<1>3. 0 .. Top \subseteq S
  <2> HIDE DEF S
  <2> QED BY <1>1, <1>2, Climb, Zenon
<1>4. P(n)
  BY <1>3
<1> QED BY <1>4

-----------------------------------------------------------------------------
(* Facts about the state.                                                    *)

\* A bijection keeps finiteness and the number of elements.
LEMMA Counted ==
  ASSUME NEW S, IsFiniteSet(S), NEW T, NEW f, f \in [S -> T],
         \A x, y \in S : f[x] = f[y] => x = y, \A t \in T : \E x \in S : f[x] = t
  PROVE  IsFiniteSet(T) /\ Cardinality(T) = Cardinality(S)
<1>1. f \in Surjection(S, T)
  BY Zenon DEF Surjection
<1>2. f \in Injection(S, T)
  BY DEF Injection, IsInjective
<1> QED BY <1>1, <1>2, FS_Surjection, Zenon

Paired(f, S, T) ==
  /\ f \in [S -> T]
  /\ \A x, y \in S : f[x] = f[y] => x = y
  /\ \A t \in T : \E x \in S : f[x] = t

\* The same, of an f that pairs the two sets off.
LEMMA CountedPairs ==
  ASSUME NEW S, IsFiniteSet(S), NEW T, NEW f, Paired(f, S, T)
  PROVE  IsFiniteSet(T) /\ Cardinality(T) = Cardinality(S)
<1>1. f \in [S -> T] /\ (\A x, y \in S : f[x] = f[y] => x = y) /\ \A t \in T : \E x \in S : f[x] = t
  BY Zenon DEF Paired
<1> QED BY <1>1, Counted

\* Levels are levels of the edges so far.
LEMMA LevelsNow == IsLevels(Levels, edges)
BY LevelsAre, Zenon DEF Levels, Targets, To, Top

\* After a step they are levels of the edges it leaves.
LEMMA LevelsThen == IsLevels(Levels', edges')
BY LevelsAre, Zenon DEF Levels, Targets, To, Top

\* Levels depend on the edges alone.
LEMMA LevelsSame == ASSUME edges' = edges PROVE Levels' = Levels
BY DEF Levels, Targets

\* No more documents are retained than there are.
LEMMA NodesCount ==
  ASSUME Keyed, Unique
  PROVE  Cardinality(nodes) \in Nat /\ Cardinality(nodes) <= Top
<1> DEFINE f == [n \in nodes |-> n.doc]
<1>1. f \in [nodes -> Docs]
  BY DEF Keyed
<1>2. ASSUME NEW m \in nodes, NEW n \in nodes, f[m] = f[n] PROVE m = n
  BY <1>2 DEF Unique, Distinguished
<1>3. f \in Injection(nodes, Docs)
  BY <1>1, <1>2 DEF Injection, IsInjective
<1>4. IsFiniteSet(Docs)
  BY ImportLoaderAssumption
<1>5. IsFiniteSet(nodes) /\ Cardinality(nodes) <= Cardinality(Docs)
  <2> HIDE DEF f
  <2> QED BY <1>3, <1>4, FS_Injection, Zenon
<1>6. Cardinality(nodes) \in Nat
  BY <1>5, FS_CardinalityType
<1> QED BY <1>5, <1>6, TopType

\* The documents of the levels are retained.
LEMMA LevelsRetained ==
  ASSUME Shape, Rooted, NEW n \in 0 .. Top
  PROVE  Levels[n] \subseteq Keys
<1>1. \A e \in edges : e.status = "RESOLVED" => e.to \in Keys
  BY DEF Shape
<1> HIDE DEF Keys
<1> QED BY <1>1, LevelsNow, LevelsInside DEF Rooted

\* The entries left to enter, once the first one is entered.
LEMMA Entered ==
  ASSUME Shape, batch # << >>, Once, batch' = Tail(batch)
  PROVE  /\ InBatch = InBatch' \cup {item} /\ item \notin InBatch'
         /\ item \in Items /\ answer \in Docs \cup Failures
         /\ batch' \in Seq(Entries) /\ DOMAIN batch' = 1 .. Len(batch) - 1
         /\ \A i \in DOMAIN batch' : i + 1 \in DOMAIN batch /\ batch'[i] = batch[i + 1]
         /\ \A i \in DOMAIN batch : i = 1 \/ (i - 1 \in DOMAIN batch' /\ batch'[i - 1] = batch[i])
         /\ 1 \in DOMAIN batch /\ batch[1].item = item /\ batch[1].answer = answer
<1>1. batch \in Seq(Entries)
  BY DEF Shape
<1>2. /\ batch' \in Seq(Entries) /\ Len(batch') = Len(batch) - 1 /\ Len(batch) \in Nat \ {0}
      /\ \A i \in 1 .. Len(batch) - 1 : batch'[i] = batch[i + 1]
  BY <1>1
<1>3. DOMAIN batch' = 1 .. Len(batch) - 1 /\ DOMAIN batch = 1 .. Len(batch) /\ Head(batch) = batch[1]
  BY <1>1, <1>2
<1>4. batch[1] \in Entries
  BY <1>1, <1>2
<1>5. item \in Items /\ answer \in Docs \cup Failures /\ batch[1].item = item /\ batch[1].answer = answer
  BY <1>3, <1>4 DEF item, answer, Entries
<1>6. /\ \A i \in DOMAIN batch' : i + 1 \in DOMAIN batch /\ batch'[i] = batch[i + 1]
      /\ \A i \in DOMAIN batch : i = 1 \/ (i - 1 \in DOMAIN batch' /\ batch'[i - 1] = batch[i])
      /\ 1 \in DOMAIN batch
  BY <1>2, <1>3
<1>7. InBatch = InBatch' \cup {item}
  <2>1. ASSUME NEW x \in InBatch PROVE x \in InBatch' \cup {item}
    <3>1. PICK i \in DOMAIN batch : x = batch[i].item
      BY DEF InBatch
    <3> QED BY <1>5, <1>6, <3>1 DEF InBatch
  <2>2. ASSUME NEW x \in InBatch' PROVE x \in InBatch
    <3>1. PICK i \in DOMAIN batch' : x = batch'[i].item
      BY DEF InBatch
    <3> QED BY <1>6, <3>1 DEF InBatch
  <2>3. item \in InBatch
    BY <1>5, <1>6 DEF InBatch
  <2> QED BY <2>1, <2>2, <2>3
<1>8. item \notin InBatch'
  <2>1. SUFFICES ASSUME item \in InBatch' PROVE FALSE
    OBVIOUS
  <2>2. PICK i \in DOMAIN batch' : item = batch'[i].item
    BY <2>1 DEF InBatch
  <2>3. i + 1 \in DOMAIN batch /\ batch[i + 1].item = batch[1].item /\ i \in Nat \ {0}
    BY <1>2, <1>3, <1>5, <1>6, <2>2
  <2>4. i + 1 = 1
    BY <1>6, <2>3 DEF Once
  <2> QED BY <2>3, <2>4
<1> QED BY <1>2, <1>3, <1>5, <1>6, <1>7, <1>8

-----------------------------------------------------------------------------
(* Steps that only end the load, or turn to the next phase.                  *)

\* What is kept by a step that changes neither documents nor edges.
LEMMA SameClosure ==
  ASSUME UNCHANGED <<options, nodes, edges>>
  PROVE  /\ Keys' = Keys /\ Items' = Items /\ Edges' = Edges /\ Entries' = Entries /\ Levels' = Levels
         /\ Rooted' = Rooted /\ Keyed' = Keyed /\ Unique' = Unique /\ Strict' = Strict
<1>1. policy' = policy /\ limits' = limits /\ resolver' = resolver /\ nodes' = nodes /\ edges' = edges
  BY DEF options
<1>2. Keys' = Keys
  BY <1>1 DEF Keys
<1>3. Items' = Items
  BY <1>1, <1>2 DEF Items
<1>4. Entries' = Entries /\ Edges' = Edges
  BY <1>2, <1>3 DEF Entries, Edges
<1>5. Rooted' = Rooted
  BY <1>2, Zenon DEF Rooted, RootKey
<1>6. Keyed' = Keyed
  BY <1>1, Zenon DEF Keyed
<1>7. Unique' = Unique
  BY <1>1, Zenon DEF Unique
<1>8. Strict' = Strict
  BY <1>1, Zenon DEF Strict
<1> QED BY <1>1, <1>2, <1>3, <1>4, <1>5, <1>6, <1>7, <1>8, LevelsSame, Zenon

Reasons == {"none", "attempts", "depth", "documents", "conflict", "unresolved", "interrupted"}

\* Only the phase and the reason change.
Kept == UNCHANGED <<options, pending, batch, nextPending, found, attempts>>

\* Only the phase and the reason change: what does not mention them stays.
LEMMA KeptKeeps ==
  ASSUME Inductive, Kept
  PROVE  /\ Rooted' /\ Keyed' /\ Finite' /\ Unique' /\ Once' /\ Strict' /\ DepthIsShortest' /\ DiagnosticsAddUp'
         /\ Asked' = Asked /\ InBatch' = InBatch
         /\ \A d : (phase' = phase \/ phase' = "failed") /\ Layered(d) => Layered(d)'
<1>1. /\ UNCHANGED <<options, nodes, edges>>
      /\ pending' = pending /\ batch' = batch /\ nextPending' = nextPending /\ shown' = shown
      /\ suppressed' = suppressed /\ nodes' = nodes /\ edges' = edges
  BY DEF Kept, options, found
<1>2. Rooted' /\ Keyed' /\ Unique' /\ Strict' /\ Levels' = Levels /\ Keys' = Keys
  BY <1>1, SameClosure DEF Inductive
<1>3. Finite'
  BY <1>1 DEF Finite, Inductive
<1>4. InBatch' = InBatch
  BY <1>1 DEF InBatch
<1>5. Asked' = Asked
  BY <1>1, <1>4 DEF Asked
<1>6. Once'
  BY <1>1, <1>4, <1>5 DEF Once, Inductive
<1>7. DepthIsShortest'
  BY <1>1, <1>2 DEF DepthIsShortest, Inductive
<1>8. DiagnosticsAddUp'
  BY <1>1 DEF DiagnosticsAddUp, Inductive
<1>9. ASSUME NEW d, phase' = phase \/ phase' = "failed", Layered(d) PROVE Layered(d)'
  BY <1>1, <1>2, <1>4, <1>9 DEF Layered
<1> QED BY <1>2, <1>3, <1>4, <1>5, <1>6, <1>7, <1>8, <1>9, Zenon

\* The shape of the state, after such a step.
LEMMA KeptShape ==
  ASSUME Shape, Kept, phase' \in {"start", "resolve", "enter", "done", "failed"}, reason' \in Reasons
  PROVE  Shape'
<1>1. /\ UNCHANGED <<options, nodes, edges>>
      /\ policy' = policy /\ limits' = limits /\ resolver' = resolver /\ attempts' = attempts
      /\ pending' = pending /\ batch' = batch /\ nextPending' = nextPending /\ shown' = shown
      /\ suppressed' = suppressed /\ nodes' = nodes /\ edges' = edges
  BY DEF Kept, options, found
<1>2. Keys' = Keys /\ Items' = Items /\ Edges' = Edges /\ Entries' = Entries
  BY <1>1, SameClosure
<1> QED BY <1>1, <1>2 DEF Shape, Reasons

\* A load that fails keeps what it has.
LEMMA FailingKeeps ==
  ASSUME Inductive, Kept, phase' = "failed", reason' \in Reasons
  PROVE  Inductive'
<1>1. Shape'
  BY KeptShape DEF Inductive
<1>2. Staged'
  BY DEF Staged
<1>3. Covered'
  BY DEF Covered
<1>4. Reached'
  BY DEF Reached
<1>5. Layers'
  BY KeptKeeps DEF Layers, Inductive
<1> QED BY <1>1, <1>2, <1>3, <1>4, <1>5, KeptKeeps DEF Inductive

\* The load that has nothing pending is complete.
LEMMA PublishKeeps ==
  ASSUME Inductive, Publish
  PROVE  Inductive'
<1>1. Kept /\ phase = "resolve" /\ pending = {} /\ phase' = "done" /\ reason' = reason /\ policy' = policy
  BY DEF Publish, Kept, options
<1>2. Shape'
  BY <1>1, KeptShape DEF Inductive, Shape, Reasons
<1>3. nextPending' = nextPending /\ batch' = batch /\ pending' = pending /\ nodes' = nodes /\ edges' = edges
  BY <1>1 DEF Kept, found
<1>4. Staged'
  BY <1>1, <1>3 DEF Staged, Inductive
<1>5. Asked' = Asked
  BY <1>1, KeptKeeps
<1>6. Covered'
  <2>1. \A k \in DOMAIN batch : FALSE
    BY <1>1 DEF Inductive, Staged
  <2>2. \A n \in nodes : \A i \in Imports[n.doc] : \E x \in Asked \cup edges : x.from = n.key /\ x.iri = i
    BY <1>1, <2>1 DEF Inductive, Covered
  <2> QED BY <1>3, <1>5, <2>2 DEF Covered
<1>7. Keys' = Keys /\ Levels' = Levels
  BY <1>1, SameClosure DEF Kept, found
<1>8. PICK d \in Nat \ {0} : Layered(d)
  BY DEF Inductive, Layers
<1>9. Reached'
  <2>1. d - 1 \in Nat /\ d - 1 <= Cardinality(nodes) /\ Keys \subseteq Levels[d - 1]
    BY <1>1, <1>8 DEF Layered
  <2>2. Cardinality(nodes) \in d - 1 .. Top /\ d - 1 \in 0 .. Top
    BY <2>1, NodesCount, TopType DEF Inductive
  <2>3. Levels[d - 1] \subseteq Levels[Cardinality(nodes)]
    BY <2>2, LevelsNow, LevelsGrow
  <2> QED BY <1>3, <1>7, <2>1, <2>3, Zenon DEF Reached
<1>10. Layers'
  <2>1. Layered(d)'
    BY <1>1, <1>3, <1>8, KeptKeeps DEF Layered
  <2> QED BY <2>1, Zenon DEF Layers
<1> QED BY <1>1, <1>2, <1>4, <1>6, <1>9, <1>10, KeptKeeps, Zenon DEF Inductive

-----------------------------------------------------------------------------
(* The first steps.                                                          *)

\* P has one item per import of d, with the given key and depth.
ItemsOf(P, d, key, depth) ==
  /\ IsFiniteSet(P) /\ Cardinality(P) = Cardinality(Imports[d]) /\ Imports[d] \subseteq IRIs
  /\ \A x : x \in P => x = [from |-> key, iri |-> x.iri, depth |-> depth] /\ x.iri \in Imports[d]
  /\ \A i \in Imports[d] : \E x \in P : x.from = key /\ x.iri = i
  /\ \A x, y \in P : x.iri = y.iri => x = y

\* The imports of a document as items, one per import (_initial_pending).
LEMMA Initial ==
  ASSUME NEW d \in Docs, NEW key, NEW depth
  PROVE  ItemsOf(InitialPending(key, d, depth), d, key, depth)
<1> DEFINE P == InitialPending(key, d, depth)
           I == Imports[d]
           f == [i \in I |-> [from |-> key, iri |-> i, depth |-> depth]]
<1>1. I \subseteq IRIs
  BY ImportLoaderAssumption
<1>2. IsFiniteSet(I)
  BY <1>1, ImportLoaderAssumption, FS_Subset, Zenon
<1>3. f \in [I -> P]
  BY DEF InitialPending
<1>4. \A i, j \in I : f[i] = f[j] => i = j
  OBVIOUS
<1>5. \A x \in P : \E i \in I : f[i] = x
  BY DEF InitialPending
<1>6. IsFiniteSet(P) /\ Cardinality(P) = Cardinality(I)
  <2> HIDE DEF P, I, f
  <2> QED BY <1>2, <1>3, <1>4, <1>5, Counted, Zenon
<1>7. \A x : x \in P => x = [from |-> key, iri |-> x.iri, depth |-> depth] /\ x.iri \in I
  BY DEF InitialPending
<1>8. \A i \in I : \E x \in P : x.from = key /\ x.iri = i
  <2>1. ASSUME NEW i \in I PROVE \E x \in P : x.from = key /\ x.iri = i
    <3>1. f[i] \in P /\ f[i].from = key /\ f[i].iri = i
      BY <1>3
    <3> QED BY <3>1, Zenon
  <2> QED BY <2>1
<1>9. \A x, y \in P : x.iri = y.iri => x = y
  BY <1>7
<1> QED BY <1>1, <1>6, <1>7, <1>8, <1>9, Zenon DEF ItemsOf

\* Before the first step there is only the root.
LEMMA Beginning ==
  ASSUME Inductive, phase = "start"
  PROVE  /\ nodes = {[key |-> RootKey, doc |-> Root]} /\ Keys = {RootKey} /\ edges = {} /\ shown = 0 /\ suppressed = 0
         /\ pending = {} /\ batch = << >> /\ nextPending = {} /\ InBatch = {} /\ Asked = {}
         /\ Cardinality(nodes) = 1 /\ limits.depth \in Nat \ {0} /\ 1 <= Top
<1>1. /\ nodes = {[key |-> RootKey, doc |-> Root]} /\ edges = {} /\ shown = 0 /\ suppressed = 0
      /\ pending = {} /\ batch = << >> /\ nextPending = {}
  BY Zenon DEF Inductive, Staged
<1>2. InBatch = {}
  BY <1>1 DEF InBatch
<1>3. Keys = {RootKey}
  BY <1>1 DEF Keys
<1>4. Cardinality(nodes) = 1
  BY <1>1, FS_Singleton, Zenon
<1>5. limits.depth \in Nat \ {0}
  BY ImportLoaderAssumption DEF Inductive, Shape
<1>6. 1 <= Top
  BY <1>4, NodesCount DEF Inductive
<1> QED BY <1>1, <1>2, <1>3, <1>4, <1>5, <1>6, Zenon DEF Asked

\* The first level is the root's imports.
LEMMA StartKeeps ==
  ASSUME Inductive, Start
  PROVE  Inductive'
<1> DEFINE P == InitialPending(RootKey, Root, 1)
<1>0. Root \in Docs
  BY ImportLoaderAssumption
<1>1. /\ UNCHANGED <<options, nodes, edges>> /\ policy' = policy /\ limits' = limits /\ resolver' = resolver
      /\ phase = "start" /\ phase' = "resolve" /\ reason' = reason /\ attempts' = attempts /\ pending' = P
      /\ batch' = batch /\ nextPending' = nextPending /\ nodes' = nodes /\ edges' = edges /\ shown' = shown
      /\ suppressed' = suppressed
  BY DEF Start, options, found
<1>2. /\ nodes = {[key |-> RootKey, doc |-> Root]} /\ Keys = {RootKey} /\ edges = {} /\ shown = 0 /\ suppressed = 0
      /\ batch = << >> /\ nextPending = {}
      /\ Cardinality(nodes) = 1 /\ limits.depth \in Nat \ {0} /\ 1 <= Top
  BY <1>1, Beginning
<1>3. /\ IsFiniteSet(P) /\ Imports[Root] \subseteq IRIs
      /\ \A x : x \in P => x = [from |-> RootKey, iri |-> x.iri, depth |-> 1] /\ x.iri \in Imports[Root]
      /\ \A i \in Imports[Root] : \E x \in P : x.from = RootKey /\ x.iri = i
      /\ \A x, y \in P : x.iri = y.iri => x = y
  <2>1. ItemsOf(P, Root, RootKey, 1)
    BY <1>0, Initial
  <2> QED BY <2>1 DEF ItemsOf
<1> HIDE DEF P
<1>4. /\ Keys' = Keys /\ Items' = Items /\ Edges' = Edges /\ Entries' = Entries /\ Levels' = Levels
      /\ Rooted' /\ Keyed' /\ Unique' /\ Strict'
  BY <1>1, SameClosure DEF Inductive
<1>5. P \subseteq Items
  BY <1>2, <1>3 DEF Items
<1>6. Shape'
  BY <1>1, <1>4, <1>5, Zenon DEF Inductive, Shape
<1>7. Finite'
  BY <1>1, <1>3 DEF Inductive, Finite
<1>8. Staged'
  BY <1>1, <1>2, Zenon DEF Staged
<1>9. InBatch' = {} /\ Asked' = P
  BY <1>1, <1>2 DEF InBatch, Asked
<1>10. Once'
  BY <1>1, <1>2, <1>3, <1>9, SMTT(20) DEF Once, Same
<1>11. Covered'
  BY <1>1, <1>2, <1>3, <1>9 DEF Covered
<1>12. Levels[0] = {RootKey}
  BY LevelsNow DEF IsLevels
<1>13. Layers'
  <2>1. Layered(1)'
    BY <1>1, <1>2, <1>3, <1>4, <1>9, <1>12, SMTT(20) DEF Layered
  <2> QED BY <2>1 DEF Layers
<1>14. Reached'
  BY <1>1, Zenon DEF Reached
<1>15. DepthIsShortest'
  BY <1>1, <1>2, <1>3, <1>4, <1>12 DEF DepthIsShortest
<1>16. DiagnosticsAddUp'
  BY <1>1, Zenon DEF DiagnosticsAddUp, Inductive
<1> QED BY <1>4, <1>6, <1>7, <1>8, <1>10, <1>11, <1>13, <1>14, <1>15, <1>16, Zenon DEF Inductive

\* The root's imports are recorded, one edge each, and nothing else is done.
LEMMA RecordedKeeps ==
  ASSUME Inductive, phase = "start", phase' = "done", policy # "RESOLVE_STRICT",
         NEW status \in {"IGNORED", "UNRESOLVED"}, status = "UNRESOLVED" \/ policy = "IGNORE",
         edges' = {Edge(x, status, Nothing) : x \in InitialPending(RootKey, Root, 1)},
         UNCHANGED <<options, reason, pending, batch, nextPending, nodes>>,
         attempts' \in 0 .. limits.attempts, shown' \in 0 .. limits.diagnostics, suppressed' \in Nat,
         (shown' - IF suppressed' > 0 THEN 1 ELSE 0) + suppressed'
           = IF status = "UNRESOLVED" THEN Cardinality(Imports[Root]) ELSE 0
  PROVE  Inductive'
<1> DEFINE P == InitialPending(RootKey, Root, 1)
<1>0. Root \in Docs
  BY ImportLoaderAssumption
<1>1. /\ policy' = policy /\ limits' = limits /\ resolver' = resolver
      /\ reason' = reason /\ batch' = batch /\ nextPending' = nextPending /\ nodes' = nodes /\ pending' = pending
      /\ edges' = {Edge(x, status, Nothing) : x \in P}
  BY Zenon DEF options
<1>2. /\ nodes = {[key |-> RootKey, doc |-> Root]} /\ Keys = {RootKey}
      /\ batch = << >> /\ nextPending = {} /\ pending = {} /\ InBatch = {} /\ Asked = {}
      /\ Cardinality(nodes) = 1 /\ limits.depth \in Nat \ {0} /\ 1 <= Top
  BY Beginning, Zenon
<1>3. /\ IsFiniteSet(P) /\ Imports[Root] \subseteq IRIs /\ Cardinality(P) = Cardinality(Imports[Root])
      /\ \A x : x \in P => x = [from |-> RootKey, iri |-> x.iri, depth |-> 1] /\ x.iri \in Imports[Root]
      /\ \A i \in Imports[Root] : \E x \in P : x.from = RootKey /\ x.iri = i
      /\ \A x, y \in P : x.iri = y.iri => x = y
  <2>1. ItemsOf(P, Root, RootKey, 1)
    BY <1>0, Initial, SMTT(20)
  <2> QED BY <2>1 DEF ItemsOf
<1> HIDE DEF P
<1>4. Keys' = Keys /\ Items' = Items /\ Edges' = Edges /\ Entries' = Entries
  BY <1>1, Zenon DEF Keys, Items, Edges, Entries
<1>5. \A e \in edges' : /\ e.from = RootKey /\ e.status = status /\ e.to = Nothing
                        /\ \E x \in P : e = Edge(x, status, Nothing) /\ e.iri = x.iri
  BY <1>1, <1>3, SMTT(20) DEF Edge
<1>6. edges' \subseteq Edges
  BY <1>1, <1>2, <1>3, SMTT(20) DEF Edge, Edges, Statuses
<1>7. Shape'
  BY <1>1, <1>4, <1>5, <1>6, Zenon DEF Inductive, Shape
<1>8. IsFiniteSet(edges') /\ Cardinality(edges') = Cardinality(Imports[Root])
  <2> DEFINE f == [x \in P |-> Edge(x, status, Nothing)]
  <2>1. f \in [P -> edges']
    BY <1>1, Zenon
  <2>2. ASSUME NEW x \in P, NEW y \in P, f[x] = f[y] PROVE x = y
    BY <1>3, <2>2 DEF Edge
  <2>3. \A t \in edges' : \E x \in P : f[x] = t
    BY <1>1, Zenon
  <2> DEFINE T == edges'
  <2>4. IsFiniteSet(T) /\ Cardinality(T) = Cardinality(P)
    <3>1. Paired(f, P, T)
      BY <2>1, <2>2, <2>3, Zenon DEF Paired
    <3>2. IsFiniteSet(P)
      BY <1>3, Zenon
    <3> HIDE DEF f, T
    <3> QED BY <3>1, <3>2, CountedPairs, Zenon
  <2> QED BY <1>3, <2>4
<1>9. Finite'
  BY <1>1, <1>8 DEF Inductive, Finite
<1>10. Rooted' /\ Keyed' /\ Unique'
  <2>1. Rooted'
    BY <1>4, Zenon DEF Rooted, RootKey, Inductive
  <2>2. Keyed'
    BY <1>1, Zenon DEF Keyed, Inductive
  <2>3. Unique'
    BY <1>1, Zenon DEF Unique, Inductive
  <2> QED BY <2>1, <2>2, <2>3
<1>11. Strict'
  BY <1>1, Zenon DEF Strict
<1>12. Staged'
  BY <1>1, <1>2, Zenon DEF Staged
<1>13. InBatch' = {} /\ Asked' = {}
  BY <1>1, <1>2, Zenon DEF InBatch, Asked
<1>14. Once'
  <2>1. ASSUME NEW e \in edges', NEW f \in edges', Same(e, f) PROVE e = f
    BY <1>3, <1>5, <2>1, SMTT(20) DEF Same
  <2>2. \A x : x \notin Asked' /\ x \notin InBatch'
    BY <1>13, Zenon
  <2>3. \A j \in DOMAIN batch' : FALSE
    BY <1>1, <1>2, EmptyDomain, Zenon
  <2> QED BY <2>1, <2>2, <2>3, Zenon DEF Once
<1>15. Covered'
  <2>1. ASSUME policy # "IGNORE", NEW i \in Imports[Root]
        PROVE  \E x \in edges' : x.from = RootKey /\ x.iri = i
    <3>1. PICK x \in P : x.from = RootKey /\ x.iri = i
      BY <1>3, Zenon
    <3>2. Edge(x, status, Nothing) \in edges' /\ Edge(x, status, Nothing).from = RootKey
          /\ Edge(x, status, Nothing).iri = i
      BY <1>1, <3>1, Zenon DEF Edge
    <3> QED BY <3>2, Zenon
  <2>2. CASE policy # "IGNORE"
    <3>1. ASSUME NEW n \in nodes', NEW i \in Imports[n.doc]
          PROVE  \E x \in Asked' \cup edges' : x.from = n.key /\ x.iri = i
      <4>0. n \in {[key |-> RootKey, doc |-> Root]}
        BY <1>1, <1>2, Zenon
      <4>1. n.key = RootKey /\ n.doc = Root
        BY <4>0, NodeParts, Zenon
      <4> QED BY <2>1, <2>2, <4>1, Zenon
    <3> QED BY <3>1, Zenon DEF Covered
  <2>3. CASE policy = "IGNORE"
    BY <1>1, <2>3, Zenon DEF Covered
  <2> QED BY <2>2, <2>3, Zenon
<1>16. Levels'[0] = {RootKey} /\ {RootKey} \subseteq Levels'[1]
  <2>1. Levels'[0] = {RootKey}
    BY LevelsThen, Zenon DEF IsLevels
  <2>2. 0 \in 0 .. Top /\ 1 \in 0 .. Top
    BY <1>2, TopStarts, Zenon
  <2>3. Levels'[0] \subseteq Levels'[1]
    BY <2>2, LevelsThen, LevelsGrow, Zenon
  <2> QED BY <2>1, <2>3, Zenon
<1>17. Layers'
  <2>1. Layered(1)'
    <3>1. Cardinality(nodes') = 1 /\ Keys' = {RootKey}
      BY <1>1, <1>2, <1>4, Zenon
    <3>2. 1 - 1 <= Cardinality(nodes') /\ 1 <= Cardinality(nodes')
      BY <3>1, FirstDepth, Zenon
    <3>3. \A x : x \notin pending' /\ x \notin InBatch' /\ x \notin nextPending'
      BY <1>1, <1>2, <1>13, Zenon
    <3> QED BY <1>1, <1>16, <3>1, <3>2, <3>3, Zenon DEF Layered
  <2> QED BY <2>1, SMTT(20) DEF Layers
<1>18. Reached'
  BY <1>1, <1>2, <1>4, <1>16, Zenon DEF Reached
<1>19. DepthIsShortest'
  <2>1. \A x \in pending' \cup nextPending' \cup InBatch' : FALSE
    BY <1>1, <1>2, <1>13, Zenon
  <2> QED BY <2>1, Zenon DEF DepthIsShortest, InBatch
<1>20. DiagnosticsAddUp'
  <2> DEFINE F == {e \in edges' : e.status \in {"UNRESOLVED", "DENIED", "FAILED"}}
  <2>1. F = IF status = "UNRESOLVED" THEN edges' ELSE {}
    BY <1>5
  <2>2. Cardinality(F) = IF status = "UNRESOLVED" THEN Cardinality(Imports[Root]) ELSE 0
    BY <1>8, <2>1, FS_EmptySet, Zenon
  <2> QED BY <2>2 DEF DiagnosticsAddUp
<1> QED BY <1>7, <1>9, <1>10, <1>11, <1>12, <1>14, <1>15, <1>17, <1>18, <1>19, <1>20, Zenon DEF Inductive

\* The root's imports, ignored or recorded as unresolved.
LEMMA FirstStepsKeep ==
  ASSUME Inductive, Ignore \/ RecordUnresolved
  PROVE  Inductive'
<1>1. phase = "start" => attempts \in 0 .. limits.attempts /\ shown = 0 /\ suppressed = 0 /\ limits \in Limits
  BY Beginning DEF Inductive, Shape
<1>2. CASE Ignore
  <2>1. /\ phase = "start" /\ phase' = "done" /\ policy = "IGNORE" /\ attempts' = attempts
        /\ shown' = shown /\ suppressed' = suppressed
        /\ edges' = {Edge(x, "IGNORED", Nothing) : x \in InitialPending(RootKey, Root, 1)}
        /\ UNCHANGED <<options, reason, pending, batch, nextPending, nodes>>
    BY <1>2, Zenon DEF Ignore
  <2>2. /\ attempts' \in 0 .. limits.attempts /\ shown' \in 0 .. limits.diagnostics /\ suppressed' \in Nat
        /\ (shown' - IF suppressed' > 0 THEN 1 ELSE 0) + suppressed' = 0
    BY <1>1, <2>1, SMTT(20) DEF Inductive, Shape
  <2> QED BY <2>1, <2>2, RecordedKeeps, Zenon
<1>3. CASE RecordUnresolved
  <2> DEFINE n == Cardinality(Imports[Root])
  <2>1. /\ phase = "start" /\ phase' = "done" /\ policy = "RECORD_UNRESOLVED" /\ attempts' = n
        /\ shown' = IF n <= limits.diagnostics THEN n ELSE limits.diagnostics
        /\ suppressed' = IF n <= limits.diagnostics THEN 0 ELSE n - limits.diagnostics + 1
        /\ edges' = {FailedEdge(x, "not_found") : x \in InitialPending(RootKey, Root, 1)}
        /\ UNCHANGED <<options, reason, pending, batch, nextPending, nodes>>
        /\ n <= limits.attempts
    BY <1>3 DEF RecordUnresolved
  <2>2. n \in Nat
    <3>1. Imports[Root] \subseteq IRIs
      BY ImportLoaderAssumption
    <3>2. IsFiniteSet(Imports[Root])
      BY <3>1, ImportLoaderAssumption, FS_Subset, Zenon
    <3> QED BY <3>2, FS_CardinalityType
  <2>3. \A x : FailedEdge(x, "not_found") = Edge(x, "UNRESOLVED", Nothing)
    BY Zenon DEF FailedEdge
  <2>4. edges' = {Edge(x, "UNRESOLVED", Nothing) : x \in InitialPending(RootKey, Root, 1)}
    BY <2>1, <2>3, Zenon
  <2>5. limits.diagnostics \in Nat \ {0} /\ limits.attempts \in Nat
    BY ImportLoaderAssumption DEF Inductive, Shape
  <2> HIDE DEF n
  <2>6. /\ attempts' \in 0 .. limits.attempts /\ shown' \in 0 .. limits.diagnostics /\ suppressed' \in Nat
        /\ (shown' - IF suppressed' > 0 THEN 1 ELSE 0) + suppressed' = n
    BY <2>1, <2>2, <2>5
  <2> QED BY <2>1, <2>4, <2>6, RecordedKeeps, Zenon DEF n
<1> QED BY <1>2, <1>3, Zenon

-----------------------------------------------------------------------------
(* A level is resolved, and the next one begins.                             *)

\* An order of the pending imports has each of them once.
LEMMA Ordered ==
  ASSUME NEW S, IsFiniteSet(S), NEW order \in Orders(S)
  PROVE  /\ Len(order) \in Nat /\ DOMAIN order = 1 .. Len(order)
         /\ \A i \in DOMAIN order : order[i] \in S
         /\ \A i, j \in DOMAIN order : order[i] = order[j] => i = j
         /\ \A x \in S : \E i \in DOMAIN order : order[i] = x
<1> DEFINE N == Cardinality(S)
           D == 1 .. N
<1>1. N \in Nat
  BY FS_CardinalityType
<1>2. order \in Injection(D, S) /\ order \in Surjection(D, S)
  BY Zenon DEF Orders, Bijection
<1>3. order \in [D -> S] /\ \A i, j \in D : order[i] = order[j] => i = j
  BY <1>2 DEF Injection, IsInjective
<1>4. DOMAIN order = D /\ Len(order) = N
  BY <1>1, <1>3
<1>5. \A x \in S : \E i \in D : order[i] = x
  BY <1>2, Zenon DEF Surjection
<1> QED BY <1>1, <1>3, <1>4, <1>5

\* The batch ends at the first answer that stops the loop.
LEMMA ProcessedUpTo ==
  ASSUME NEW order, NEW answers, Len(order) \in Nat, DOMAIN order = 1 .. Len(order)
  PROVE  LET n == Processed(order, answers)
         IN  /\ n \in 0 .. Len(order)
             /\ n = Len(order) \/ (n \in 1 .. Len(order) /\ Stops(answers[order[n]]))
<1> DEFINE stops == {i \in DOMAIN order : Stops(answers[order[i]])}
<1>1. CASE stops = {}
  BY <1>1, SMTT(20) DEF Processed
<1>2. CASE stops # {}
  <2>1. stops \in SUBSET Nat
    OBVIOUS
  <2>2. \E x \in stops : \A y \in stops : x <= y
    <3> HIDE DEF stops
    <3> QED BY <1>2, <2>1, Least, Zenon
  <2>3. Min(stops) \in stops
    <3> HIDE DEF stops
    <3> QED BY <2>2, Zenon DEF Min
  <2>4. Processed(order, answers) = Min(stops)
    BY <1>2, Zenon DEF Processed
  <2> QED BY <2>3, <2>4
<1> QED BY <1>1, <1>2, Zenon

\* What resolving a level yields.
LEMMA Resolved ==
  ASSUME Inductive, Resolve, phase' # "failed"
  PROVE  /\ phase = "resolve" /\ phase' = "enter" /\ pending # {} /\ pending' = {} /\ reason' = reason
         /\ attempts' \in 0 .. limits.attempts
         /\ batch' \in Seq(Entries) /\ InBatch' \subseteq pending
         /\ \A i, j \in DOMAIN batch' : batch'[i].item = batch'[j].item => i = j
         /\ pending \subseteq InBatch' \/ \E k \in DOMAIN batch' : Stops(batch'[k].answer)
<1> DEFINE Entry(order, answers) == [i \in 1 .. Processed(order, answers) |->
                                       [item |-> order[i], answer |-> answers[order[i]]]]
<1>1. PICK order \in Orders(pending), answers \in Outcomes, more \in 0 .. MaxTries :
        IF attempts + Processed(order, answers) + more > limits.attempts
          THEN Raise("attempts") /\ UNCHANGED <<pending, batch, attempts>>
          ELSE /\ batch' = Entry(order, answers)
               /\ attempts' = attempts + Processed(order, answers) + more
               /\ pending' = {} /\ phase' = "enter" /\ UNCHANGED reason
  BY Zenon DEF Resolve
<1>2. ~(attempts + Processed(order, answers) + more > limits.attempts)
  BY <1>1, Zenon DEF Raise
<1>3. /\ batch' = Entry(order, answers)
      /\ attempts' = attempts + Processed(order, answers) + more
      /\ pending' = {} /\ phase' = "enter" /\ reason' = reason
  BY <1>1, <1>2, Zenon
<1> DEFINE n == Processed(order, answers)
<1>4. /\ Len(order) \in Nat /\ DOMAIN order = 1 .. Len(order)
      /\ \A i \in DOMAIN order : order[i] \in pending
      /\ \A i, j \in DOMAIN order : order[i] = order[j] => i = j
      /\ \A x \in pending : \E i \in DOMAIN order : order[i] = x
  <2>1. IsFiniteSet(pending)
    BY Zenon DEF Inductive, Finite
  <2> QED BY <2>1, Ordered
<1>5. n \in 0 .. Len(order) /\ (n = Len(order) \/ (n \in 1 .. Len(order) /\ Stops(answers[order[n]])))
  BY <1>4, ProcessedUpTo
<1>6. \A x \in pending : answers[x] \in Docs \cup Failures
  <2>1. \A x \in pending : answers[x] \in Possible(x)
    BY DEF Outcomes
  <2>2. \A x \in pending : x.iri \in IRIs
    BY DEF Inductive, Shape, Items
  <2>3. \A x \in pending : Possible(x) \subseteq Docs \cup Failures
    BY <2>2, ImportLoaderAssumption, Zenon DEF Possible, Failures
  <2> QED BY <2>1, <2>3
<1> HIDE DEF n
<1>7. batch' = [i \in 1 .. n |-> [item |-> order[i], answer |-> answers[order[i]]]]
  BY <1>3, Zenon DEF n
<1>8. n \in Nat /\ 1 .. n \subseteq DOMAIN order /\ DOMAIN batch' = 1 .. n
  <2>0. \A a \in Nat : \A b \in 0 .. a : b \in Nat /\ 1 .. b \subseteq 1 .. a
    OBVIOUS
  <2>1. n \in Nat /\ 1 .. n \subseteq 1 .. Len(order)
    BY <1>4, <1>5, <2>0, Zenon
  <2>2. DOMAIN batch' = 1 .. n
    BY <1>7, Zenon
  <2> QED BY <1>4, <2>1, <2>2, Zenon
<1>9. \A i \in 1 .. n : /\ batch'[i] = [item |-> order[i], answer |-> answers[order[i]]]
                        /\ batch'[i].item = order[i] /\ batch'[i].answer = answers[order[i]]
                        /\ order[i] \in pending
  BY <1>4, <1>7, <1>8
<1>10. batch' \in Seq(Entries)
  <2>1. pending \subseteq Items
    BY Zenon DEF Inductive, Shape
  <2>2. ASSUME NEW i \in 1 .. n PROVE batch'[i] \in Entries
    <3>1. order[i] \in Items /\ answers[order[i]] \in Docs \cup Failures
      BY <1>6, <1>9, <2>1, Zenon
    <3>2. batch'[i] = [item |-> order[i], answer |-> answers[order[i]]]
      BY <1>9, Zenon
    <3> QED BY <3>1, <3>2, EntryIs, Zenon
  <2>3. batch' \in [1 .. n -> Entries]
    BY <1>7, <2>2, Zenon
  <2> QED BY <1>8, <2>3
<1>11. InBatch' \subseteq pending
  BY <1>8, <1>9, SMTT(20), ZenonT(20), SMTT(40) DEF InBatch
<1>12. \A i, j \in DOMAIN batch' : batch'[i].item = batch'[j].item => i = j
  BY <1>4, <1>8, <1>9, SMTT(20)
<1>13. pending \subseteq InBatch' \/ \E k \in DOMAIN batch' : Stops(batch'[k].answer)
  <2>1. CASE n = Len(order)
    <3>1. ASSUME NEW x \in pending PROVE x \in InBatch'
      <4>1. PICK i \in DOMAIN order : order[i] = x
        BY <1>4, Zenon
      <4>2. i \in DOMAIN batch' /\ batch'[i].item = x
        BY <1>4, <1>8, <1>9, <2>1, <4>1, Zenon
      <4> QED BY <4>2 DEF InBatch
    <3> QED BY <3>1
  <2>2. CASE n \in 1 .. Len(order) /\ Stops(answers[order[n]])
    <3>1. n \in 1 .. n
      BY <2>2, SMTT(20)
    <3>2. n \in DOMAIN batch' /\ Stops(batch'[n].answer)
      BY <1>8, <1>9, <2>2, <3>1, Zenon
    <3> QED BY <3>2
  <2> QED BY <1>5, <2>1, <2>2
<1>14. attempts' \in 0 .. limits.attempts
  <2>1. attempts \in Nat /\ limits.attempts \in Nat /\ more \in Nat
    BY ImportLoaderAssumption, SMTT(20) DEF Inductive, Shape
  <2>2. ~(attempts + n + more > limits.attempts) /\ attempts' = attempts + n + more
    BY <1>2, <1>3 DEF n
  <2> QED BY <1>8, <2>1, <2>2, SMTT(20)
<1>15. phase = "resolve" /\ phase' = "enter" /\ pending # {} /\ pending' = {} /\ reason' = reason
  BY <1>3, Zenon DEF Resolve
<1> QED BY <1>10, <1>11, <1>12, <1>13, <1>14, <1>15

\* A resolved level is entered in order, each import once.
LEMMA ResolveKeeps ==
  ASSUME Inductive, Resolve
  PROVE  Inductive'
<1>0. /\ UNCHANGED <<options, nodes, edges>> /\ policy' = policy /\ limits' = limits /\ resolver' = resolver
      /\ nextPending' = nextPending /\ nodes' = nodes /\ edges' = edges /\ shown' = shown
      /\ suppressed' = suppressed
  BY DEF Resolve, options, found
<1>1. CASE phase' = "failed"
  <2>1. Raise("attempts") /\ UNCHANGED <<pending, batch, attempts>>
    BY <1>1, Zenon DEF Resolve
  <2>2. Kept /\ reason' \in Reasons
    BY <1>0, <2>1, Zenon DEF Kept, Raise, Reasons, options, found
  <2> QED BY <1>1, <2>2, FailingKeeps, SMTT(20)
<1>2. CASE phase' # "failed"
  <2>1. /\ phase = "resolve" /\ phase' = "enter" /\ pending # {} /\ pending' = {} /\ reason' = reason
        /\ attempts' \in 0 .. limits.attempts
        /\ batch' \in Seq(Entries) /\ InBatch' \subseteq pending
        /\ \A i, j \in DOMAIN batch' : batch'[i].item = batch'[j].item => i = j
        /\ pending \subseteq InBatch' \/ \E k \in DOMAIN batch' : Stops(batch'[k].answer)
    BY <1>2, Resolved, Zenon
  <2>2. batch = << >> /\ nextPending = {}
    BY <2>1 DEF Inductive, Staged
  <2>3. /\ Keys' = Keys /\ Items' = Items /\ Edges' = Edges /\ Entries' = Entries /\ Levels' = Levels
        /\ Rooted' /\ Keyed' /\ Unique' /\ Strict'
    BY <1>0, SameClosure, Zenon DEF Inductive
  <2>4. Shape'
    BY <1>0, <2>1, <2>2, <2>3, Zenon DEF Inductive, Shape
  <2>5. Finite'
    BY <1>0, <2>1, FS_EmptySet, Zenon DEF Inductive, Finite
  <2>6. Staged'
    BY <2>1, Zenon DEF Staged
  <2>7. Asked' = InBatch' /\ pending \subseteq Asked /\ Asked = pending
    <3>1. InBatch = {}
      BY <2>2, EmptyDomain, Zenon DEF InBatch
    <3> QED BY <1>0, <2>1, <2>2, <3>1, Zenon DEF Asked
  <2>8. Once'
    <3>1. Asked' \subseteq Asked
      BY <2>1, <2>7
    <3> QED BY <1>0, <2>1, <2>2, <3>1, Zenon DEF Inductive, Once
  <2>9. Covered'
    <3>1. CASE pending \subseteq InBatch'
      <4>1. \A k \in DOMAIN batch : FALSE
        BY <2>2
      <4>2. \A n \in nodes : \A i \in Imports[n.doc] : \E x \in Asked \cup edges : x.from = n.key /\ x.iri = i
        BY <2>1, <4>1 DEF Inductive, Covered
      <4>3. Asked' = Asked
        BY <2>1, <2>7, <3>1, Zenon
      <4> QED BY <1>0, <4>2, <4>3 DEF Covered
    <3>2. CASE \E k \in DOMAIN batch' : Stops(batch'[k].answer)
      <4>1. PICK k \in DOMAIN batch' : Stops(batch'[k].answer)
        BY <3>2
      <4>2. Stops(batch[k].answer)'
        BY <1>0, <4>1, Zenon DEF Stops
      <4> QED BY <4>2 DEF Covered
    <3> QED BY <2>1, <3>1, <3>2, Zenon
  <2>10. Layers'
    <3>1. PICK d \in Nat \ {0} : Layered(d)
      BY DEF Inductive, Layers
    <3>2. /\ \A x \in pending : x.depth = d
          /\ d <= Cardinality(nodes) /\ Keys \subseteq Levels[d - 1]
      BY <2>1, <3>1 DEF Layered
    <3>3. d - 1 \in 0 .. Top /\ d \in d - 1 .. Top
      BY <3>2, NodesCount, TopType DEF Inductive
    <3>4. Levels[d - 1] \subseteq Levels[d]
      BY <3>3, LevelsNow, LevelsGrow, Zenon
    <3>5. Layered(d)'
      BY <1>0, <2>1, <2>2, <2>3, <3>1, <3>2, <3>4, Zenon DEF Layered
    <3> QED BY <3>5 DEF Layers
  <2>11. Reached'
    BY <2>1, Zenon DEF Reached
  <2>12. DepthIsShortest'
    <3>1. ASSUME NEW x \in pending' \cup nextPending' \cup InBatch'
          PROVE  x.from \in Levels[x.depth - 1] /\ (x.depth > 1 => x.from \notin Levels[x.depth - 2])
      <4>1. x \in pending
        BY <1>0, <2>1, <2>2, Zenon
      <4> QED BY <4>1, Zenon DEF Inductive, DepthIsShortest
    <3> QED BY <2>3, <3>1 DEF DepthIsShortest, InBatch
  <2>13. DiagnosticsAddUp'
    BY <1>0, Zenon DEF DiagnosticsAddUp, Inductive
  <2> QED BY <2>3, <2>4, <2>5, <2>6, <2>8, <2>9, <2>10, <2>11, <2>12, <2>13 DEF Inductive
<1> QED BY <1>1, <1>2, Zenon

\* An entered level is followed by the imports it has brought.
LEMMA NextLevelKeeps ==
  ASSUME Inductive, NextLevel
  PROVE  Inductive'
<1>1. /\ UNCHANGED <<options, nodes, edges>> /\ policy' = policy /\ limits' = limits /\ resolver' = resolver
      /\ phase = "enter" /\ batch = << >> /\ pending' = nextPending /\ nextPending' = {} /\ phase' = "resolve"
      /\ reason' = reason /\ batch' = batch /\ attempts' = attempts
      /\ nodes' = nodes /\ edges' = edges /\ shown' = shown /\ suppressed' = suppressed
  BY DEF NextLevel, options, found
<1>2. /\ Keys' = Keys /\ Items' = Items /\ Edges' = Edges /\ Entries' = Entries /\ Levels' = Levels
      /\ Rooted' /\ Keyed' /\ Unique' /\ Strict'
  BY <1>1, SameClosure, Zenon DEF Inductive
<1>3. Shape'
  BY <1>1, <1>2, Zenon DEF Inductive, Shape
<1>4. Finite'
  BY <1>1, FS_EmptySet, Zenon DEF Inductive, Finite
<1>5. Staged'
  BY <1>1, Zenon DEF Staged
<1>6. pending = {} /\ InBatch = {} /\ InBatch' = {}
  BY <1>1, SMTT(20), SMTT(40) DEF Inductive, Staged, InBatch
<1>7. Asked' = Asked
  BY <1>1, <1>6, Zenon DEF Asked
<1>8. Once'
  BY <1>1, <1>6, <1>7, Zenon DEF Inductive, Once
<1>9. Covered'
  <2>1. \A k \in DOMAIN batch : FALSE
    BY <1>1, SMTT(20)
  <2>2. \A n \in nodes : \A i \in Imports[n.doc] : \E x \in Asked \cup edges : x.from = n.key /\ x.iri = i
    BY <1>1, <2>1 DEF Inductive, Covered
  <2> QED BY <1>1, <1>7, <2>2 DEF Covered
<1>10. Layers'
  <2>1. PICK d \in Nat \ {0} : Layered(d)
    BY DEF Inductive, Layers
  <2>2. /\ \A x \in nextPending : x.depth = d + 1 /\ d + 1 <= Cardinality(nodes)
        /\ d <= Cardinality(nodes) /\ Keys \subseteq Levels[d]
    BY <1>1, <2>1 DEF Layered
  <2>3. d + 1 \in Nat \ {0} /\ (d + 1) - 1 = d
    BY SMTT(20)
  <2>4. Layered(d + 1)'
    BY <1>1, <1>2, <1>6, <2>2, <2>3, Zenon DEF Layered
  <2> QED BY <2>3, <2>4, Zenon DEF Layers
<1>11. Reached'
  BY <1>1, Zenon DEF Reached
<1>12. DepthIsShortest'
  <2>1. ASSUME NEW x \in pending' \cup nextPending' \cup InBatch'
        PROVE  x.from \in Levels[x.depth - 1] /\ (x.depth > 1 => x.from \notin Levels[x.depth - 2])
    <3>1. x \in nextPending
      BY <1>1, <1>6, Zenon
    <3> QED BY <3>1 DEF Inductive, DepthIsShortest
  <2> QED BY <1>2, <2>1 DEF DepthIsShortest, InBatch
<1>13. DiagnosticsAddUp'
  BY <1>1, SMTT(20) DEF DiagnosticsAddUp, Inductive
<1> QED BY <1>2, <1>3, <1>4, <1>5, <1>8, <1>9, <1>10, <1>11, <1>12, <1>13 DEF Inductive

-----------------------------------------------------------------------------
(* The answer to one import is entered.                                      *)

\* Where the entered item is: its importer is as far from the root as the depth says.
Located(d) ==
  /\ d \in 1 .. Top /\ d <= Cardinality(nodes) /\ Keys \subseteq Levels[d]
  /\ item.depth = d /\ item.from \in Levels[d - 1] /\ (d > 1 => item.from \notin Levels[d - 2])
  /\ \A x \in InBatch : x.depth = d
  /\ \A x \in nextPending : x.depth = d + 1 /\ d + 1 <= Cardinality(nodes)

\* While a level is entered, its depth is known.
LEMMA EnteringPlace ==
  ASSUME Inductive, Entering
  PROVE  /\ pending = {} /\ item \in InBatch /\ item \in Items
         /\ \E d \in Nat \ {0} : Layered(d) /\ Located(d)
<1>1. phase = "enter" /\ pending = {} /\ batch # << >>
  BY DEF Entering, Inductive, Staged
<1>2. batch \in Seq(Entries)
  BY DEF Inductive, Shape
<1>3. Len(batch) \in Nat \ {0} /\ Head(batch) = batch[1] /\ 1 \in DOMAIN batch /\ batch[1] \in Entries
  BY <1>1, <1>2
<1>4. item \in InBatch /\ item \in Items
  BY <1>3, SMTT(20) DEF item, InBatch, Entries
<1>5. PICK d \in Nat \ {0} : Layered(d)
  BY DEF Inductive, Layers
<1>6. /\ d <= Cardinality(nodes) /\ Keys \subseteq Levels[d] /\ \A x \in InBatch : x.depth = d
      /\ \A x \in nextPending : x.depth = d + 1 /\ d + 1 <= Cardinality(nodes)
  BY <1>1, <1>5 DEF Layered
<1>7. d \in 1 .. Top
  BY <1>6, NodesCount, TopType DEF Inductive
<1>8. item.depth = d
  BY <1>4, <1>6, SMTT(20)
<1>9. item.from \in Levels[item.depth - 1] /\ (item.depth > 1 => item.from \notin Levels[item.depth - 2])
  BY <1>4 DEF Inductive, DepthIsShortest, InBatch
<1> QED BY <1>1, <1>4, <1>5, <1>6, <1>7, <1>8, <1>9, Zenon DEF Located

\* One import is entered: e is its edge, P the imports it brings.
Enters(e, P) ==
  /\ Entering /\ ~Stops(answer)
  /\ batch' = Tail(batch) /\ nextPending' = nextPending \cup P /\ edges' = edges \cup {e}
  /\ e.from = item.from /\ e.iri = item.iri
  /\ UNCHANGED <<options, phase, reason, pending, attempts>>
  /\ \A x \in P : x.from \notin Keys
  /\ \A x, y \in P : Same(x, y) => x = y

\* The entered import makes way for its edge and for what it brings.
LEMMA EntersOnce ==
  ASSUME Inductive, NEW e, NEW P, Enters(e, P)
  PROVE  /\ Once' /\ Staged' /\ Reached' /\ Asked' \cup {item} = Asked \cup P /\ item \in Asked
         /\ InBatch' \subseteq InBatch /\ pending' = {} /\ pending = {} /\ e \notin edges
<1>1. pending = {} /\ pending' = {} /\ phase = "enter" /\ phase' = "enter" /\ batch # << >>
  BY EnteringPlace DEF Enters, Entering
<1>2. Shape /\ Once
  BY SMTT(20) DEF Inductive
<1>3. /\ InBatch = InBatch' \cup {item} /\ item \notin InBatch' /\ item \in Items
      /\ \A i \in DOMAIN batch' : i + 1 \in DOMAIN batch /\ batch'[i] = batch[i + 1]
      /\ DOMAIN batch' = 1 .. Len(batch) - 1
  <2>1. batch' = Tail(batch)
    BY Zenon DEF Enters
  <2> QED BY <1>1, <1>2, <2>1, Entered, Zenon
<1>4. /\ nextPending' = nextPending \cup P /\ edges' = edges \cup {e}
      /\ e.from = item.from /\ e.iri = item.iri
      /\ \A x \in P : x.from \notin Keys
      /\ \A x, y \in P : Same(x, y) => x = y
  BY DEF Enters
<1>5. Asked = nextPending \cup InBatch /\ Asked' = nextPending' \cup InBatch'
  BY <1>1 DEF Asked
<1>6. \A x \in Asked : x.from \in Keys
  <2>1. \A i \in DOMAIN batch : batch[i].item \in Items
    <3>1. \A i \in DOMAIN batch : batch[i] \in Entries
      BY <1>2 DEF Shape
    <3> QED BY <3>1 DEF Entries
  <2>2. InBatch \subseteq Items /\ nextPending \subseteq Items
    BY <1>2, <2>1 DEF InBatch, Shape
  <2> QED BY <1>5, <2>2 DEF Items
<1>7. \A f \in edges : f.from \in Keys
  BY <1>2, SMTT(20) DEF Shape, Edges
<1>8. item \in Asked /\ item \notin nextPending /\ item \notin P /\ item.from \in Keys
  BY <1>2, <1>3, <1>4, <1>5, <1>6, Zenon DEF Once
<1>9. Asked' \cup {item} = Asked \cup P /\ item \notin Asked'
  BY <1>3, <1>4, <1>5, <1>8
<1>10. \A x, y \in Asked' : Same(x, y) => x = y
  <2>1. ASSUME NEW x \in Asked', NEW y \in Asked', Same(x, y) PROVE x = y
    <3>1. (x \in Asked \/ x \in P) /\ (y \in Asked \/ y \in P)
      BY <1>9
    <3>2. x.from = y.from
      BY <2>1, SMTT(20) DEF Same
    <3> QED BY <1>2, <1>4, <1>6, <2>1, <3>1, <3>2, Zenon DEF Once
  <2> QED BY <2>1, SMTT(20)
<1>11. \A f \in edges : ~Same(f, e) /\ ~Same(e, f)
  BY <1>2, <1>4, <1>8, Zenon DEF Once, Same
<1>12. \A f, g \in edges' : Same(f, g) => f = g
  <2>1. ASSUME NEW f \in edges', NEW g \in edges', Same(f, g) PROVE f = g
    <3>1. (f \in edges \/ f = e) /\ (g \in edges \/ g = e)
      BY <1>4, Zenon
    <3> QED BY <1>2, <1>11, <2>1, <3>1, Zenon DEF Once
  <2> QED BY <2>1, Zenon
<1>13. \A x \in Asked', f \in edges' : ~Same(x, f)
  <2>1. ASSUME NEW x \in Asked', NEW f \in edges', Same(x, f) PROVE FALSE
    <3>1. x \in Asked \/ x \in P
      BY <1>9, SMTT(20)
    <3>2. CASE x \in P
      BY <1>4, <1>7, <1>8, <2>1, <3>2, Zenon DEF Same
    <3>3. CASE x \in Asked /\ f = e
      BY <1>2, <1>4, <1>8, <1>9, <2>1, <3>3, Zenon DEF Once, Same
    <3>4. CASE x \in Asked /\ f \in edges
      BY <1>2, <2>1, <3>4 DEF Once
    <3> QED BY <1>4, <3>1, <3>2, <3>3, <3>4, Zenon
  <2> QED BY <2>1, SMTT(20)
<1>14. \A i, j \in DOMAIN batch' : batch'[i].item = batch'[j].item => i = j
  <2>1. ASSUME NEW i \in DOMAIN batch', NEW j \in DOMAIN batch', batch'[i].item = batch'[j].item PROVE i = j
    <3>1. i + 1 = j + 1
      BY <1>2, <1>3, <2>1, SMTT(20), ZenonT(20), SMTT(40) DEF Once
    <3>2. i \in Int /\ j \in Int
      BY <1>3, SMTT(20)
    <3> QED BY <3>1, <3>2, SMTT(20)
  <2> QED BY <2>1
<1>15. InBatch' \cap nextPending' = {}
  <2>1. ASSUME NEW x \in InBatch', x \in P PROVE FALSE
    BY <1>3, <1>4, <1>5, <1>6, <2>1, Zenon
  <2> QED BY <1>2, <1>3, <1>4, <2>1, Zenon DEF Once
<1>16. Once'
  BY <1>10, <1>12, <1>13, <1>14, <1>15, Zenon DEF Once
<1>17. Staged' /\ Reached'
  BY <1>1 DEF Staged, Reached
<1>18. e \notin edges
  BY <1>11, SMTT(20) DEF Same
<1> QED BY <1>1, <1>3, <1>8, <1>9, <1>16, <1>17, <1>18, Zenon

\* No import is forgotten when one is entered.
LEMMA EntersCovered ==
  ASSUME Inductive, NEW e, NEW P, Enters(e, P),
         \A n \in nodes' : n \in nodes \/ \A i \in Imports[n.doc] : \E x \in P : x.from = n.key /\ x.iri = i
  PROVE  Covered'
<1>1. /\ Asked' \cup {item} = Asked \cup P /\ edges' = edges \cup {e}
      /\ e.from = item.from /\ e.iri = item.iri /\ ~Stops(answer) /\ policy' = policy
      /\ phase = "enter" /\ batch # << >> /\ batch' = Tail(batch)
  BY EntersOnce, Zenon DEF Enters, Entering, options
<1>2. CASE \E k \in DOMAIN batch : Stops(batch[k].answer)
  <2>1. PICK k \in DOMAIN batch : Stops(batch[k].answer)
    BY <1>2, SMTT(20)
  <2>2. /\ k = 1 \/ (k - 1 \in DOMAIN batch' /\ batch'[k - 1] = batch[k])
        /\ batch[1].answer = answer
    BY <1>1, Entered, Zenon DEF Inductive
  <2>3. k - 1 \in DOMAIN batch' /\ Stops(batch[k - 1].answer)'
    BY <1>1, <2>1, <2>2, Zenon DEF Stops
  <2> QED BY <2>3, SMTT(20) DEF Covered
<1>3. CASE \A n \in nodes : \A i \in Imports[n.doc] : \E x \in Asked \cup edges : x.from = n.key /\ x.iri = i
  <2>1. ASSUME NEW n \in nodes', NEW i \in Imports[n.doc]
        PROVE  \E x \in Asked' \cup edges' : x.from = n.key /\ x.iri = i
    <3>1. PICK x \in Asked \cup edges \cup P : x.from = n.key /\ x.iri = i
      <4>1. CASE n \in nodes
        BY <1>3, <4>1, SMTT(20), ZenonT(20), SMTT(40)
      <4>2. CASE n \notin nodes
        BY <4>2, Zenon
      <4> QED BY <4>1, <4>2, Zenon
    <3>2. CASE x = item
      BY <1>1, <3>1, <3>2, Zenon
    <3>3. CASE x # item
      BY <1>1, <3>1, <3>3, Zenon
    <3> QED BY <3>2, <3>3, Zenon
  <2> QED BY <2>1, SMTT(20) DEF Covered
<1> QED BY <1>1, <1>2, <1>3, Zenon DEF Inductive, Covered

\* An answer that adds no document: the import is entered as a failed one, or
\* leads to a document that is retained already.
LEMMA OldKeeps ==
  ASSUME Inductive, NEW e, Enters(e, {}), nodes' = nodes,
         e \in Edges, e.status = "RESOLVED" => e.to \in Keys, policy = "RESOLVE_STRICT" => e.status = "RESOLVED",
         shown' \in 0 .. limits.diagnostics, suppressed' \in Nat, DiagnosticsAddUp'
  PROVE  Inductive'
<1>1. /\ policy' = policy /\ limits' = limits /\ resolver' = resolver /\ phase' = phase /\ reason' = reason
      /\ phase = "enter" /\ batch # << >> /\ batch' = Tail(batch) /\ attempts' = attempts
      /\ edges' = edges \cup {e} /\ nextPending' = nextPending
      /\ e.from = item.from
  BY Zenon DEF Enters, Entering, options
<1>2. /\ Once' /\ Staged' /\ Reached' /\ InBatch' \subseteq InBatch /\ pending' = {} /\ pending = {}
  BY EntersOnce, SMTT(20)
<1>3. Covered'
  BY EntersCovered, Zenon
<1>4. Keys' = Keys /\ Items' = Items /\ Edges' = Edges /\ Entries' = Entries
  BY <1>1, Zenon DEF Keys, Items, Edges, Entries
<1>5. batch' \in Seq(Entries)
  BY <1>1, Entered, Zenon DEF Inductive
<1>6. Shape'
  BY <1>1, <1>2, <1>4, <1>5, Zenon DEF Inductive, Shape
<1>7. Finite'
  BY <1>1, <1>2, FS_AddElement, FS_EmptySet, Zenon DEF Inductive, Finite
<1>8. Rooted'
  BY <1>4, Zenon DEF Rooted, RootKey, Inductive
<1>9. Keyed'
  BY Zenon DEF Keyed, Inductive
<1>10. Unique'
  BY Zenon DEF Unique, Inductive
<1>11. Strict'
  BY <1>1 DEF Strict, Inductive
<1>12. PICK d \in Nat \ {0} : Layered(d) /\ Located(d)
  BY EnteringPlace, Zenon DEF Enters
<1>13. \A n \in 0 .. Top : Levels'[n] = Levels[n]
  <2>1. AddsNothing(e, Levels)
    BY <1>1, <1>12, Zenon DEF Located, AddsNothing
  <2>2. IsLevels(Levels', edges \cup {e})
    BY <1>1, LevelsThen, Zenon
  <2>3. ASSUME NEW n \in 0 .. Top PROVE Levels'[n] = Levels[n]
    <3> DEFINE f == Levels
               g == Levels'
               E == edges
    <3>1. IsLevels(f, E) /\ IsLevels(g, E \cup {e}) /\ AddsNothing(e, f)
      BY <2>1, <2>2, LevelsNow, SMTT(20)
    <3> HIDE DEF f, g, E
    <3>2. g[n] = f[n]
      BY <3>1, EdgeToKnown
    <3> QED BY <3>2 DEF f, g
  <2> QED BY <2>3, SMTT(20)
<1>14. Layers'
  <2>1. d \in 1 .. Top /\ d <= Cardinality(nodes) /\ Keys \subseteq Levels[d]
    BY <1>12, Zenon DEF Located
  <2>2. d \in 0 .. Top /\ Levels'[d] = Levels[d]
    BY <1>13, <2>1, DepthIsLevel, Zenon
  <2>3. Layered(d)'
    BY <1>1, <1>2, <1>4, <1>12, <2>1, <2>2, Zenon DEF Layered
  <2> QED BY <2>3, SMTT(20) DEF Layers
<1>15. DepthIsShortest'
  <2>1. ASSUME NEW x \in pending' \cup nextPending' \cup InBatch'
        PROVE  x.from \in Levels'[x.depth - 1] /\ (x.depth > 1 => x.from \notin Levels'[x.depth - 2])
    <3>1. x \in nextPending \cup InBatch
      BY <1>1, <1>2, Zenon
    <3>2. x.from \in Levels[x.depth - 1] /\ (x.depth > 1 => x.from \notin Levels[x.depth - 2])
      BY <3>1 DEF Inductive, DepthIsShortest, InBatch
    <3>3. x.depth \in 1 .. Top
      <4>1. x.depth = d \/ (x.depth = d + 1 /\ d + 1 <= Cardinality(nodes))
        BY <1>12, <3>1, ZenonT(30) DEF Located
      <4>2. d \in 1 .. Top /\ Cardinality(nodes) \in Nat /\ Cardinality(nodes) <= Top
        BY <1>12, NodesCount, SMTT(20), ZenonT(20), SMTT(40) DEF Located, Inductive
      <4> QED BY <4>1, <4>2, TopType, SMTT(20)
    <3>4. x.depth - 1 \in 0 .. Top /\ (x.depth > 1 => x.depth - 2 \in 0 .. Top)
      BY <3>3, TopType
    <3> QED BY <1>13, <3>2, <3>4, Zenon
  <2> QED BY <2>1, Zenon DEF DepthIsShortest, InBatch
<1> QED BY <1>2, <1>3, <1>6, <1>7, <1>8, <1>9, <1>10, <1>11, <1>14, <1>15, Zenon DEF Inductive

\* The imports recorded as failed.
FailedOnes == {f \in edges : f.status \in {"UNRESOLVED", "DENIED", "FAILED"}}

\* A failed import is recorded with a diagnostic, or counted by the marker.
LEMMA EnterFailedKeeps ==
  ASSUME Inductive, EnterFailed
  PROVE  Inductive'
<1> DEFINE e == FailedEdge(item, answer)
<1>1. /\ Entering /\ answer \in Failures \ {"resource_limit"} /\ policy = "RECORD_UNRESOLVED"
      /\ edges' = edges \cup {e} /\ AppendDiagnostic /\ batch' = Tail(batch)
      /\ UNCHANGED <<options, phase, reason, pending, nextPending, nodes, attempts>>
  BY DEF EnterFailed
<1>2. /\ e.from = item.from /\ e.iri = item.iri /\ e.to = Nothing
      /\ e.status \in {"UNRESOLVED", "DENIED", "FAILED"}
      /\ e = [from |-> item.from, iri |-> item.iri, status |-> e.status, to |-> Nothing]
  BY DEF FailedEdge, Edge
<1>3. item \in Items
  BY <1>1, EnteringPlace, SMTT(20)
<1> HIDE DEF e
<1>4. e \in Edges
  BY <1>2, <1>3, Zenon DEF Edges, Items, Statuses
<1>5. Enters(e, {})
  <2>1. ~Stops(answer)
    BY <1>1 DEF Stops
  <2> QED BY <1>1, <1>2, <2>1 DEF Enters
<1>6. e \notin edges
  BY <1>5, EntersOnce, Zenon
<1>7. limits.diagnostics \in Nat \ {0} /\ shown \in 0 .. limits.diagnostics /\ suppressed \in Nat
  BY ImportLoaderAssumption DEF Inductive, Shape
<1>8. shown' \in 0 .. limits.diagnostics /\ suppressed' \in Nat
  BY <1>1, <1>7 DEF AppendDiagnostic
<1>9. DiagnosticsAddUp'
  <2>1. FailedOnes' = FailedOnes \cup {e} /\ e \notin FailedOnes
    BY <1>1, <1>2, <1>6 DEF FailedOnes
  <2>2. IsFiniteSet(FailedOnes)
    <3>1. FailedOnes \in SUBSET edges /\ IsFiniteSet(edges)
      BY DEF FailedOnes, Inductive, Finite
    <3> QED BY <3>1, FS_Subset, Zenon
  <2>3. Cardinality(FailedOnes') = Cardinality(FailedOnes) + 1 /\ Cardinality(FailedOnes) \in Nat
    BY <2>1, <2>2, FS_AddElement, FS_CardinalityType, Zenon
  <2>4. (shown - IF suppressed > 0 THEN 1 ELSE 0) + suppressed = Cardinality(FailedOnes)
    BY DEF Inductive, DiagnosticsAddUp, FailedOnes
  <2>5. (shown' - IF suppressed' > 0 THEN 1 ELSE 0) + suppressed'
          = (shown - IF suppressed > 0 THEN 1 ELSE 0) + suppressed + 1
    BY <1>1, <1>7, SMTT(20) DEF AppendDiagnostic
  <2> QED BY <2>3, <2>4, <2>5, Zenon DEF DiagnosticsAddUp, FailedOnes
<1>10. nodes' = nodes /\ e.status # "RESOLVED"
  BY <1>1, <1>2, SMTT(20)
<1> QED BY <1>1, <1>4, <1>5, <1>8, <1>9, <1>10, OldKeeps, Zenon

\* An import that leads to a retained document adds an edge and nothing else.
LEMMA EnterKnownKeeps ==
  ASSUME Inductive, EnterKnown
  PROVE  Inductive'
<1>1. PICK n \in Known(answer) : edges' = edges \cup {Edge(item, "RESOLVED", n.key)}
  BY DEF EnterKnown
<1> DEFINE e == Edge(item, "RESOLVED", n.key)
<1>2. /\ Entering /\ answer \in Docs /\ edges' = edges \cup {e} /\ batch' = Tail(batch)
      /\ UNCHANGED <<options, phase, reason, pending, nextPending, nodes, attempts, shown, suppressed>>
  BY <1>1 DEF EnterKnown
<1>3. n.key \in Keys
  BY DEF Known, Keys
<1>4. /\ e.from = item.from /\ e.iri = item.iri /\ e.to = n.key /\ e.status = "RESOLVED"
      /\ e = [from |-> item.from, iri |-> item.iri, status |-> "RESOLVED", to |-> n.key]
  BY DEF Edge
<1>5. item \in Items
  BY <1>2, EnteringPlace, Zenon
<1> HIDE DEF e
<1>6. e \in Edges
  BY <1>3, <1>4, <1>5, SMTT(20) DEF Edges, Items, Statuses
<1>7. ~Stops(answer)
  BY <1>2, ImportLoaderAssumption, Zenon DEF Stops, Failures
<1>8. Enters(e, {})
  BY <1>2, <1>4, <1>7, Zenon DEF Enters
<1>9. shown' \in 0 .. limits.diagnostics /\ suppressed' \in Nat
  BY <1>2, SMTT(20), ZenonT(20), SMTT(40) DEF Inductive, Shape
<1>10. DiagnosticsAddUp'
  <2>1. FailedOnes' = FailedOnes
    BY <1>2, <1>4 DEF FailedOnes
  <2> QED BY <1>2, <2>1, Zenon DEF Inductive, DiagnosticsAddUp, FailedOnes
<1>11. nodes' = nodes /\ (e.status = "RESOLVED" => e.to \in Keys)
  BY <1>2, <1>3, <1>4
<1> QED BY <1>4, <1>6, <1>8, <1>9, <1>10, <1>11, OldKeeps, Zenon

\* A document that passed the checks of load and _register_identity can be told
\* apart from every retained one.
LEMMA NewIsDistinct ==
  ASSUME Keyed, NEW d \in Docs, NEW i, Known(d) = {}, ~IdentityConflict(d), ~KeyConflict(d, i),
         NEW n \in nodes, NEW m, m = [key |-> DocumentKey(d, i), doc |-> d]
  PROVE  n.key # m.key /\ Distinguished(m, n) /\ Distinguished(n, m)
<1>1. SourceIdentity(n.doc) # SourceIdentity(d)
  BY Zenon DEF Known
<1>2. n.key # DocumentKey(d, i)
  BY <1>1, Zenon DEF KeyConflict
<1>3. PICK c \in Docs : \E j : n = [key |-> DocumentKey(c, j), doc |-> c]
  BY DEF Keyed
<1>4. n.doc = c /\ \E j : n.key = DocumentKey(c, j)
  BY <1>3, SMTT(20)
<1>5. ASSUME Ontology[d] # Nothing PROVE Claim(c) # Claim(d)
  <2>1. SUFFICES ASSUME Claim(c) = Claim(d) PROVE FALSE
    BY SMTT(20)
  <2>2. Ontology[c] = Ontology[d] /\ Version[c] = Version[d]
    BY <2>1, ClaimParts, Zenon
  <2>3. n.key = <<"named", Ontology[c], Version[c]>>
    BY <1>4, <1>5, <2>2, Zenon DEF DocumentKey
  <2>4. DocumentKey(d, i) = <<"named", Ontology[d], Version[d]>>
    BY <1>5, Zenon DEF DocumentKey
  <2> QED BY <1>2, <2>2, <2>3, <2>4, Zenon
<1>6. ASSUME Ontology[d] # Nothing, Version[d] # Nothing PROVE Version[c] # Version[d]
  BY <1>4, <1>5, <1>6, Zenon DEF IdentityConflict
<1>7. Version[d] # Nothing => Ontology[d] # Nothing
  BY ImportLoaderAssumption, Zenon
<1>8. Claim(c) = Claim(d) => Ontology[c] = Ontology[d]
  BY Zenon DEF Claim
<1>9. m.key = DocumentKey(d, i) /\ m.doc = d
  OBVIOUS
<1>10. Distinguished(m, n)
  BY <1>1, <1>2, <1>4, <1>5, <1>6, <1>9, Zenon DEF Distinguished
<1>11. Distinguished(n, m)
  BY <1>1, <1>2, <1>4, <1>5, <1>6, <1>7, <1>8, <1>9, Zenon DEF Distinguished
<1> QED BY <1>2, <1>9, <1>10, <1>11, Zenon

\* A sequence over a set is one over a larger set.
LEMMA SeqWidens ==
  ASSUME NEW S, NEW T, S \subseteq T, NEW s \in Seq(S)
  PROVE  s \in Seq(T)
<1>1. Len(s) \in Nat /\ s \in [1 .. Len(s) -> S]
  OBVIOUS
<1>2. s \in [1 .. Len(s) -> T]
  BY <1>1, SMTT(20)
<1> QED BY <1>1, <1>2

\* What a document that is not too deep imports is at a depth the limit allows.
LEMMA NotTooDeep ==
  ASSUME limits \in Limits, NEW x \in Items, NEW d, Imports[d] # {}, ~TooDeep(d, x.depth + 1)
  PROVE  x.depth + 1 \in 1 .. limits.depth
<1>1. x.depth \in Nat /\ x.depth >= 1 /\ limits.depth \in Nat
  BY ImportLoaderAssumption DEF Items
<1>2. ~(x.depth + 1 > limits.depth)
  BY Zenon DEF TooDeep
<1> QED BY <1>1, <1>2

\* A new document is retained, with its imports to resolve one level further.
LEMMA EnterNewKeeps ==
  ASSUME Inductive, EnterNew
  PROVE  Inductive'
<1> DEFINE k == DocumentKey(answer, item.iri)
           m == [key |-> k, doc |-> answer]
           P == InitialPending(k, answer, item.depth + 1)
           e == Edge(item, "RESOLVED", k)
<1>1. /\ policy' = policy /\ limits' = limits /\ resolver' = resolver /\ phase' = phase /\ reason' = reason
      /\ pending' = pending /\ attempts' = attempts /\ shown' = shown /\ suppressed' = suppressed
      /\ nodes' = nodes \cup {m} /\ nextPending' = nextPending \cup P /\ edges' = edges \cup {e}
      /\ batch' = Tail(batch)
  BY Zenon DEF EnterNew, options
<1>2. /\ Entering /\ answer \in Docs /\ Known(answer) = {} /\ ~IdentityConflict(answer)
      /\ ~KeyConflict(answer, item.iri) /\ ~TooDeep(answer, item.depth + 1)
  BY Zenon DEF EnterNew, EnteringNew
<1>3. \A n \in nodes : n.key # k /\ Distinguished(m, n) /\ Distinguished(n, m)
  <2>1. ASSUME NEW n \in nodes PROVE n.key # m.key /\ Distinguished(m, n) /\ Distinguished(n, m)
    BY <1>2, NewIsDistinct, Zenon DEF Inductive
  <2> QED BY <2>1
<1>4. ItemsOf(P, answer, k, item.depth + 1)
  BY <1>2, Initial, Zenon
<1>5. /\ m.key = k /\ m.doc = answer
      /\ e.from = item.from /\ e.iri = item.iri /\ e.to = k /\ e.status = "RESOLVED"
      /\ e = [from |-> item.from, iri |-> item.iri, status |-> "RESOLVED", to |-> k]
  BY DEF Edge
<1>6. \E i \in IRIs \cup {Nothing} : m = [key |-> DocumentKey(answer, i), doc |-> answer]
  <2>1. item.iri \in IRIs
    BY <1>2, EnteringPlace DEF Items
  <2> QED BY <2>1
<1>7. phase = "enter" /\ batch # << >> /\ pending = {} /\ item \in Items
  BY <1>2, EnteringPlace, Zenon DEF Entering
<1>8. k \notin Keys /\ item.from \in Keys /\ item.iri \in IRIs
  BY <1>3, <1>7, Zenon DEF Keys, Items
<1> HIDE DEF k, m, P, e
<1>9. /\ \A x \in P : x = [from |-> k, iri |-> x.iri, depth |-> item.depth + 1] /\ x.iri \in Imports[answer]
      /\ \A x \in P : x.from = k /\ x.depth = item.depth + 1
      /\ \A i \in Imports[answer] : \E x \in P : x.from = k /\ x.iri = i
      /\ \A x, y \in P : x.iri = y.iri => x = y
      /\ IsFiniteSet(P) /\ Imports[answer] \subseteq IRIs
  BY <1>4, SMTT(20) DEF ItemsOf
<1>10. Enters(e, P)
  <2>1. ~Stops(answer)
    BY <1>2, ImportLoaderAssumption, Zenon DEF Stops, Failures
  <2>2. (\A x \in P : x.from \notin Keys) /\ \A x, y \in P : Same(x, y) => x = y
    BY <1>8, <1>9 DEF Same
  <2> QED BY <1>1, <1>2, <1>5, <2>1, <2>2, Zenon DEF Enters, options
<1>11. /\ Once' /\ Staged' /\ Reached' /\ InBatch' \subseteq InBatch /\ pending' = {} /\ e \notin edges
  BY <1>10, EntersOnce, Zenon
<1>12. Covered'
  <2>1. ASSUME NEW n \in nodes'
        PROVE  n \in nodes \/ \A i \in Imports[n.doc] : \E x \in P : x.from = n.key /\ x.iri = i
    <3>1. CASE n \in nodes
      BY <3>1, Zenon
    <3>2. CASE n = m
      <4>1. n.doc = answer /\ n.key = k
        BY <1>5, <3>2, Zenon
      <4> QED BY <1>9, <4>1, Zenon
    <3> QED BY <1>1, <3>1, <3>2, Zenon
  <2> QED BY <1>10, <2>1, EntersCovered, Zenon
<1>13. Keys' = Keys \cup {k}
  BY <1>1, <1>5, Zenon DEF Keys
<1>14. /\ Items \subseteq Items' /\ Entries \subseteq Entries' /\ Edges \subseteq Edges'
  <2>1. Items \subseteq Items'
    BY <1>1, <1>13 DEF Items
  <2>2. Edges \subseteq Edges'
    BY <1>13, Zenon DEF Edges
  <2> QED BY <2>1, <2>2, SMTT(20) DEF Entries
<1>15. e \in Edges'
  BY <1>5, <1>8, <1>13 DEF Edges, Statuses
<1>16. P \subseteq Items'
  <2>1. ASSUME NEW x \in P PROVE x \in Items'
    <3>1. Imports[answer] # {}
      BY <1>9, Zenon
    <3>2. item.depth + 1 \in 1 .. limits'.depth
      <4>1. limits \in Limits
        BY Zenon DEF Inductive, Shape
      <4> QED BY <1>1, <1>2, <1>7, <3>1, <4>1, NotTooDeep, Zenon
    <3>3. x.iri \in IRIs /\ k \in Keys' /\ x = [from |-> k, iri |-> x.iri, depth |-> item.depth + 1]
      BY <1>9, <1>13
    <3> QED BY <3>2, <3>3, SMTT(20) DEF Items
  <2> QED BY <2>1
<1>17. batch' \in Seq(Entries')
  <2>1. batch' \in Seq(Entries)
    BY <1>1, <1>7, Entered, Zenon DEF Inductive
  <2> QED BY <1>14, <2>1, SeqWidens, Zenon
<1>18. Shape'
  <2>1. /\ pending' \subseteq Items' /\ nextPending' \subseteq Items' /\ edges' \subseteq Edges'
    BY <1>1, <1>14, <1>15, <1>16, Zenon DEF Inductive, Shape
  <2>2. \A f \in edges' : f.status = "RESOLVED" => f.to \in Keys'
    BY <1>1, <1>5, <1>13, Zenon DEF Inductive, Shape
  <2> QED BY <1>1, <1>17, <2>1, <2>2, Zenon DEF Inductive, Shape
<1>19. Finite' /\ Cardinality(nodes') = Cardinality(nodes) + 1
  <2>1. IsFiniteSet(nodes) /\ IsFiniteSet(edges) /\ IsFiniteSet(pending) /\ IsFiniteSet(nextPending)
    BY Zenon DEF Inductive, Finite
  <2>2. m \notin nodes
    BY <1>5, <1>8 DEF Keys
  <2>3. IsFiniteSet(nodes \cup {m}) /\ Cardinality(nodes \cup {m}) = Cardinality(nodes) + 1
    BY <2>1, <2>2, FS_AddElement, Zenon
  <2>4. IsFiniteSet(edges \cup {e})
    BY <2>1, FS_AddElement, Zenon
  <2>5. IsFiniteSet(nextPending \cup P)
    BY <2>1, <1>9, FS_Union, Zenon
  <2> QED BY <1>1, <2>1, <2>3, <2>4, <2>5, Zenon DEF Finite
<1>20. Rooted'
  BY <1>13 DEF Rooted, RootKey, Inductive
<1>21. Keyed'
  <2>1. ASSUME NEW n \in nodes'
        PROVE  \E d \in Docs : \E i \in IRIs \cup {Nothing} : n = [key |-> DocumentKey(d, i), doc |-> d]
    <3>1. CASE n \in nodes
      BY <3>1, Zenon DEF Inductive, Keyed
    <3>2. CASE n = m
      BY <1>2, <1>6, <3>2, Zenon
    <3> QED BY <1>1, <3>1, <3>2
  <2> QED BY <2>1, Zenon DEF Keyed
<1>22. Unique'
  <2>1. ASSUME NEW a \in nodes', NEW b \in nodes' PROVE a = b \/ Distinguished(a, b)
    <3>1. CASE a \in nodes /\ b \in nodes
      BY <3>1, Zenon DEF Inductive, Unique
    <3>2. CASE a = m \/ b = m
      BY <1>1, <1>3, <3>2, Zenon
    <3> QED BY <1>1, <3>1, <3>2, Zenon
  <2> QED BY <2>1, Zenon DEF Unique
<1>23. Strict'
  BY <1>1, <1>5 DEF Strict, Inductive
<1>24. PICK d \in Nat \ {0} : Layered(d) /\ Located(d)
  BY <1>2, EnteringPlace, SMTT(20)
<1>25. \A n \in 0 .. Top : \A x : x \in Levels'[n] <=> x \in Levels[n] \/ (n >= d /\ x = k)
  <2>1. /\ d \in 1 .. Top /\ e.from \in Levels[d - 1] /\ (d > 1 => e.from \notin Levels[d - 2])
    BY <1>5, <1>24, Zenon DEF Located
  <2>2. IsLevels(Levels', edges \cup {e})
    BY <1>1, LevelsThen, Zenon
  <2>3. (\A y \in edges : y.from # e.to) /\ e.from # e.to
    BY <1>5, <1>8, Zenon DEF Inductive, Shape, Edges
  <2>5. e.status = "RESOLVED" /\ e.to = k
    BY <1>5, Zenon
  <2>4. ASSUME NEW n \in 0 .. Top, NEW x PROVE x \in Levels'[n] <=> x \in Levels[n] \/ (n >= d /\ x = k)
    <3> DEFINE f == Levels
               g == Levels'
               E == edges
    <3>0. IsLevels(Levels, edges)
      BY LevelsNow
    <3>1. IsLevels(f, E) /\ IsLevels(g, E \cup {e}) /\ AddsNew(e, f, E, d) /\ d \in 1 .. Top
      BY <2>1, <2>2, <2>3, <2>5, <3>0, Zenon DEF AddsNew
    <3> HIDE DEF f, g, E
    <3>2. x \in g[n] <=> x \in f[n] \/ (n >= d /\ x = e.to)
      BY <3>1, EdgeToNew, SMTT(20), ZenonT(20), SMTT(40)
    <3> QED BY <2>5, <3>2, Zenon DEF f, g
  <2> QED BY <2>4, SMTT(20)
<1>26. Keys \subseteq Levels[d] /\ d \in 1 .. Top /\ item.depth = d /\ Cardinality(nodes) \in Nat
       /\ d <= Cardinality(nodes) /\ Cardinality(nodes) <= Top
       /\ (\A x \in InBatch : x.depth = d)
       /\ \A x \in nextPending : x.depth = d + 1 /\ d + 1 <= Cardinality(nodes)
  BY <1>24, NodesCount, Zenon DEF Located, Inductive
<1>27. Layers'
  <2>0. d - 1 <= Cardinality(nodes') /\ d <= Cardinality(nodes') /\ d + 1 <= Cardinality(nodes')
    BY <1>19, <1>26, OneDeeper, Zenon
  <2>1. \A x \in pending' \cup InBatch' : x.depth = d /\ d <= Cardinality(nodes')
    BY <1>11, <1>26, <2>0, Zenon
  <2>2. \A x \in nextPending' : x.depth = d + 1 /\ d + 1 <= Cardinality(nodes')
    BY <1>1, <1>9, <1>26, <2>0, Zenon
  <2>3. d \in 0 .. Top /\ d >= d
    BY <1>26, DepthIsLevel
  <2>4. Keys' \subseteq Levels'[d]
    BY <1>13, <1>25, <1>26, <2>3, Zenon
  <2>5. phase' = "enter"
    BY <1>1, <1>7, Zenon
  <2>6. Layered(d)'
    BY <2>0, <2>1, <2>2, <2>4, <2>5, Zenon DEF Layered
  <2> QED BY <2>6, Zenon DEF Layers
<1>28. DepthIsShortest'
  <2>1. ASSUME NEW x \in pending' \cup nextPending' \cup InBatch'
        PROVE  x.from \in Levels'[x.depth - 1] /\ (x.depth > 1 => x.from \notin Levels'[x.depth - 2])
    <3>1. CASE x \in P
      <4>1. x.from = k /\ x.depth = d + 1
        BY <1>9, <1>26, <3>1, Zenon
      <4>2. d \in 0 .. Top /\ d - 1 \in 0 .. Top /\ (d + 1) - 1 = d /\ (d + 1) - 2 = d - 1 /\ ~(d - 1 >= d) /\ d >= d
        BY <1>26, TopType, SMTT(20), ZenonT(20), SMTT(40)
      <4>3. k \notin Levels[d - 1]
        BY <1>8, <4>2, LevelsRetained, Zenon DEF Inductive
      <4>4. k \in Levels'[d] /\ k \notin Levels'[d - 1]
        BY <1>25, <4>2, <4>3, Zenon
      <4> QED BY <4>1, <4>2, <4>4, Zenon
    <3>2. CASE x \in nextPending \cup InBatch
      <4>1. x.from \in Levels[x.depth - 1] /\ (x.depth > 1 => x.from \notin Levels[x.depth - 2])
        BY <3>2, Zenon DEF Inductive, DepthIsShortest, InBatch
      <4>2. x.depth \in 1 .. Top
        BY <1>26, <3>2, TopType, SMTT(20)
      <4>3. x.depth - 1 \in 0 .. Top /\ (x.depth > 1 => x.depth - 2 \in 0 .. Top)
        BY <4>2, TopType, SMTT(20)
      <4>4. x.from # k
        <5>1. Levels[x.depth - 1] \subseteq Keys
          BY <4>3, LevelsRetained, SMTT(20) DEF Inductive
        <5> QED BY <1>8, <4>1, <5>1, Zenon
      <4> QED BY <1>25, <4>1, <4>3, <4>4, Zenon
    <3> QED BY <1>1, <1>11, <3>1, <3>2, Zenon
  <2> QED BY <2>1, Zenon DEF DepthIsShortest, InBatch
<1>29. DiagnosticsAddUp'
  <2>1. FailedOnes' = FailedOnes
    BY <1>1, <1>5 DEF FailedOnes
  <2> QED BY <1>1, <2>1, Zenon DEF Inductive, DiagnosticsAddUp, FailedOnes
<1> QED
  BY <1>11, <1>12, <1>18, <1>19, <1>20, <1>21, <1>22, <1>23, <1>27, <1>28, <1>29, Zenon DEF Inductive

-----------------------------------------------------------------------------
(* The invariant holds, and with it the properties.                          *)

\* The state load begins with satisfies the invariant.
LEMMA InductiveInit ==
  ASSUME Init
  PROVE  Inductive
<1>1. /\ policy \in Policies /\ limits \in Limits /\ resolver \in BOOLEAN /\ phase = "start" /\ reason = "none"
      /\ pending = {} /\ nextPending = {} /\ batch = << >> /\ nodes = {[key |-> RootKey, doc |-> Root]}
      /\ edges = {} /\ attempts = 0 /\ shown = 0 /\ suppressed = 0
  BY DEF Init
<1>2. Keys = {RootKey}
  BY <1>1, SMTT(20) DEF Keys
<1>3. InBatch = {} /\ Asked = {}
  BY <1>1, NothingAsked, Zenon
<1>4. Shape
  <2>1. batch \in Seq(Entries)
    BY <1>1, SMTT(20)
  <2>2. limits.attempts \in Nat /\ limits.diagnostics \in Nat
    BY <1>1, ImportLoaderAssumption
  <2> QED BY <1>1, <2>1, <2>2, SMTT(20) DEF Shape
<1>5. Rooted
  BY <1>2, SMTT(20) DEF Rooted
<1>6. Keyed
  BY <1>1, ImportLoaderAssumption, Zenon DEF Keyed, RootKey
<1>7. Finite
  BY <1>1, FS_EmptySet, FS_Singleton, Zenon DEF Finite
<1>8. Staged
  BY <1>1 DEF Staged
<1>9. Unique
  BY <1>1, Zenon DEF Unique
<1>10. Once
  <2>1. \A x : x \notin Asked /\ x \notin InBatch /\ x \notin edges /\ x \notin DOMAIN batch
    BY <1>1, <1>3, EmptyDomain, Zenon
  <2> QED BY <2>1, Zenon DEF Once
<1>11. Covered /\ Strict /\ Reached
  BY <1>1 DEF Covered, Strict, Reached
<1>12. Layers
  <2>1. Cardinality(nodes) = 1
    BY <1>1, FS_Singleton, Zenon
  <2>2. Layered(1)
    <3>1. 1 - 1 <= Cardinality(nodes)
      BY <2>1, FirstDepth, Zenon
    <3>2. \A x : x \notin pending /\ x \notin InBatch /\ x \notin nextPending
      BY <1>1, <1>3, Zenon
    <3> QED BY <1>1, <3>1, <3>2, Zenon DEF Layered
  <2> QED BY <2>2 DEF Layers
<1>13. DepthIsShortest
  BY <1>1, <1>3, Zenon DEF DepthIsShortest, InBatch
<1>14. DiagnosticsAddUp
  <2>1. {e \in edges : e.status \in {"UNRESOLVED", "DENIED", "FAILED"}} = {}
    BY <1>1
  <2>2. Cardinality({}) = 0
    BY FS_EmptySet
  <2> QED BY <1>1, <2>1, <2>2, SMTT(20) DEF DiagnosticsAddUp
<1> QED BY <1>4, <1>5, <1>6, <1>7, <1>8, <1>9, <1>10, <1>11, <1>12, <1>13, <1>14, Zenon DEF Inductive

\* Every step of load preserves the invariant.
LEMMA InductiveStep ==
  ASSUME Inductive, [Next]_vars
  PROVE  Inductive'
<1>1. CASE RecordTooMany
  <2>1. Kept /\ phase' = "failed" /\ reason' \in Reasons
    BY <1>1, Zenon DEF RecordTooMany, Raise, Kept, Reasons
  <2> QED BY <2>1, FailingKeeps
<1>2. CASE ResolveTooMany
  <2>1. Kept /\ phase' = "failed" /\ reason' \in Reasons
    BY <1>2, Zenon DEF ResolveTooMany, Raise, Kept, Reasons
  <2> QED BY <2>1, FailingKeeps
<1>3. CASE RaiseFailed
  <2>1. Kept /\ phase' = "failed" /\ reason' \in Reasons
    BY <1>3, Zenon DEF RaiseFailed, Raise, Kept, Reasons
  <2> QED BY <2>1, FailingKeeps
<1>4. CASE EnterConflict
  <2>1. Kept /\ phase' = "failed" /\ reason' \in Reasons
    BY <1>4, Zenon DEF EnterConflict, Raise, Kept, Reasons
  <2> QED BY <2>1, FailingKeeps
<1>5. CASE EnterOverLimit
  <2>1. Kept /\ phase' = "failed" /\ reason' \in Reasons
    BY <1>5, Zenon DEF EnterOverLimit, Raise, Kept, Reasons
  <2> QED BY <2>1, FailingKeeps
<1>6. CASE Interrupt
  <2>1. Kept /\ phase' = "failed" /\ reason' \in Reasons
    BY <1>6, Zenon DEF Interrupt, Raise, Kept, Reasons
  <2> QED BY <2>1, FailingKeeps
<1>7. CASE UNCHANGED vars
  <2>1. /\ Kept /\ phase' = phase /\ reason' = reason /\ policy' = policy /\ nodes' = nodes /\ edges' = edges
        /\ pending' = pending /\ nextPending' = nextPending /\ batch' = batch /\ shown' = shown
        /\ suppressed' = suppressed
    BY <1>7, Zenon DEF vars, Kept, options, found
  <2>2. Shape'
    BY <2>1, KeptShape, Zenon DEF Inductive, Shape, Reasons
  <2>3. Staged'
    BY <2>1, ZenonT(30) DEF Inductive, Staged, RootKey
  <2>4. Covered'
    <3>1. Asked' = Asked
      BY <2>1, KeptKeeps, SMTT(20)
    <3> QED BY <2>1, <3>1, Zenon DEF Inductive, Covered, Stops
  <2>5. Reached'
    <3>1. Keys' = Keys /\ Levels' = Levels
      BY <2>1, SameClosure, Zenon DEF Kept, found
    <3> QED BY <2>1, <3>1, Zenon DEF Inductive, Reached
  <2>6. Layers'
    BY <2>1, KeptKeeps DEF Inductive, Layers
  <2> QED BY <2>1, <2>2, <2>3, <2>4, <2>5, <2>6, KeptKeeps, Zenon DEF Inductive
<1> QED
  BY <1>1, <1>2, <1>3, <1>4, <1>5, <1>6, <1>7, FirstStepsKeep, StartKeeps, ResolveKeeps, EnterFailedKeeps,
     EnterKnownKeeps, EnterNewKeeps, NextLevelKeeps, PublishKeeps, Zenon DEF Next

\* What every state of a load satisfies, for every import graph and resolver.
THEOREM InductiveHolds == Spec => []Inductive
<1>1. Init => Inductive
  BY InductiveInit
<1>2. Inductive /\ [Next]_vars => Inductive'
  BY InductiveStep, SMTT(20)
<1> QED BY <1>1, <1>2, PTL DEF Spec

\* A retained document's import has exactly one edge when load returns.
LEMMA OneEdge ==
  ASSUME Inductive, phase = "done", policy # "IGNORE", NEW n \in nodes, NEW i \in Imports[n.doc]
  PROVE  Cardinality({e \in edges : e.from = n.key /\ e.iri = i}) = 1
<1>1. pending = {} /\ nextPending = {} /\ batch = << >>
  BY DEF Inductive, Staged
<1>2. Asked = {} /\ \A k \in DOMAIN batch : FALSE
  BY <1>1, SMTT(20) DEF Asked, InBatch
<1>3. PICK e \in edges : e.from = n.key /\ e.iri = i
  BY <1>2, Zenon DEF Inductive, Covered
<1>4. {f \in edges : f.from = n.key /\ f.iri = i} = {e}
  BY <1>3 DEF Inductive, Once, Same
<1> QED BY <1>4, FS_Singleton, Zenon

\* load returns the import closure: one edge per import of a retained document,
\* resolved edges to retained documents, every document reached from the root,
\* no unresolved import under RESOLVE_STRICT, and no two documents of one
\* identity, whatever the documents, the resolver's answers and the limits.
THEOREM ClosureIsExactHolds == Spec => []ClosureIsExact
<1>1. ASSUME Inductive PROVE ClosureIsExact
  <2>1. TypeOK
    <3>1. \A x \in pending \cup nextPending : x.from \in Keys /\ x.iri \in IRIs /\ x.depth \in 1 .. limits.depth
      BY <1>1 DEF Inductive, Shape, Items
    <3>2. \A n \in nodes : n.doc \in Docs
      BY <1>1 DEF Inductive, Keyed
    <3> QED BY <1>1, <3>1, <3>2, Zenon DEF Inductive, Shape, TypeOK
  <2>2. ASSUME phase = "done" PROVE Keys = Levels[Cardinality(nodes)]
    <3>1. Cardinality(nodes) \in 0 .. Top
      BY <1>1, NodesCount, TopType DEF Inductive
    <3>2. Levels[Cardinality(nodes)] \subseteq Keys
      BY <1>1, <3>1, LevelsRetained, Zenon DEF Inductive
    <3>3. Keys \subseteq Levels[Cardinality(nodes)]
      BY <1>1, <2>2 DEF Inductive, Reached
    <3> QED BY <3>2, <3>3
  <2>3. \A e \in edges : e.status = "RESOLVED" => e.to \in Keys
    BY <1>1 DEF Inductive, Shape
  <2>4. Unique /\ Strict
    BY <1>1, Zenon DEF Inductive
  <2>5. ASSUME phase = "done", policy # "IGNORE"
        PROVE  \A n \in nodes : \A i \in Imports[n.doc] : Cardinality({e \in edges : e.from = n.key /\ e.iri = i}) = 1
    BY <1>1, <2>5, OneEdge
  <2> QED BY <2>1, <2>2, <2>3, <2>4, <2>5, Zenon DEF ClosureIsExact, Unique, Strict
<1> QED BY <1>1, InductiveHolds, PTL

\* The depth that load holds against max_import_depth is the length of a
\* shortest import chain from the root.
THEOREM DepthIsShortestHolds == Spec => []DepthIsShortest
<1>1. Inductive => DepthIsShortest
  BY DEF Inductive
<1> QED BY <1>1, InductiveHolds, PTL

\* Diagnostics kept and diagnostics suppressed (_append_diagnostic) add up to
\* the imports recorded as failed.
THEOREM DiagnosticsAddUpHolds == Spec => []DiagnosticsAddUp
<1>1. Inductive => DiagnosticsAddUp
  BY DEF Inductive
<1> QED BY <1>1, InductiveHolds, PTL

=============================================================================
