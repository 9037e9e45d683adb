-------------------------- MODULE IndexCacheProofs --------------------------
(***************************************************************************)
(* Theorems about IndexCache for every set of threads, keys and view       *)
(* objects and every byte limit: the type invariant, the exact byte        *)
(* accounting, the byte limit, one builder per key, one live view per key, *)
(* and the order of evictions.                                             *)
(*                                                                         *)
(* First come lemmas about the operators IndexCache is built from (what a  *)
(* set of keys is charged; the keys of slices, extensions and rotations of *)
(* a sequence without duplicates), then the inductive invariant and the    *)
(* steps that preserve it.                                                 *)
(***************************************************************************)
EXTENDS IndexCache, FiniteSetTheorems, SequenceTheorems, TLAPS

(***************************************************************************)
(* What a set of keys is charged: finitely many bytes.                     *)
(***************************************************************************)
LEMMA ChargeType ==
  ASSUME NEW S \in SUBSET Keys, NEW f \in [Keys -> Nat]
  PROVE  /\ IsFiniteSet(UNION {{k} \X (1 .. f[k]) : k \in S})
         /\ Charge(S, f) \in Nat
<1> DEFINE parts == {{k} \X (1 .. f[k]) : k \in S}
           g == [k \in S |-> {k} \X (1 .. f[k])]
<1>1. IsFiniteSet(S)
  BY FS_Subset, IndexCacheAssumption
<1>2. g \in Surjection(S, parts)
  BY Zenon DEF Surjection
<1>3. IsFiniteSet(parts)
  BY <1>1, <1>2, FS_Surjection
<1>4. ASSUME NEW k \in S PROVE IsFiniteSet({k} \X (1 .. f[k]))
  <2>1. IsFiniteSet({k})
    BY FS_Singleton, Zenon
  <2>2. f[k] \in Int /\ 1 \in Int
    OBVIOUS
  <2>3. IsFiniteSet(1 .. f[k])
    BY <2>2, FS_Interval
  <2> QED BY <2>1, <2>3, FS_Product
<1>5. \A T \in parts : IsFiniteSet(T)
  BY <1>4
<1>6. IsFiniteSet(UNION parts)
  BY <1>3, <1>5, FS_UNION, Zenon
<1> QED BY <1>6, FS_CardinalityType DEF Charge

(***************************************************************************)
(* No keys, no bytes.                                                      *)
(***************************************************************************)
LEMMA ChargeEmpty ==
  ASSUME NEW f
  PROVE  Charge({}, f) = 0
<1>1. UNION {{k} \X (1 .. f[k]) : k \in {}} = {}
  OBVIOUS
<1> QED BY <1>1, FS_EmptySet DEF Charge

(***************************************************************************)
(* The charge of one key is its own number of bytes.                       *)
(***************************************************************************)
LEMMA ChargeSingle ==
  ASSUME NEW k \in Keys, NEW f \in [Keys -> Nat]
  PROVE  Charge({k}, f) = f[k]
<1>1. UNION {{x} \X (1 .. f[x]) : x \in {k}} = {k} \X (1 .. f[k])
  OBVIOUS
<1>2. IsFiniteSet({k}) /\ Cardinality({k}) = 1
  BY FS_Singleton, Zenon
<1>3. f[k] \in Nat /\ f[k] \in Int /\ 1 \in Int
  OBVIOUS
<1>4. IsFiniteSet(1 .. f[k]) /\ Cardinality(1 .. f[k]) = f[k]
  BY <1>3, FS_Interval
<1>5. Cardinality({k} \X (1 .. f[k])) = Cardinality({k}) * Cardinality(1 .. f[k])
  BY <1>2, <1>4, FS_Product, Zenon
<1>6. 1 * f[k] = f[k]
  BY <1>3
<1> QED BY <1>1, <1>2, <1>4, <1>5, <1>6, Zenon DEF Charge

(***************************************************************************)
(* The charge of disjoint sets of keys adds up.                            *)
(***************************************************************************)
LEMMA ChargeSplit ==
  ASSUME NEW S \in SUBSET Keys, NEW T \in SUBSET Keys, S \cap T = {},
         NEW f \in [Keys -> Nat]
  PROVE  Charge(S \cup T, f) = Charge(S, f) + Charge(T, f)
<1> DEFINE B(U) == UNION {{k} \X (1 .. f[k]) : k \in U}
<1>1. B(S \cup T) = B(S) \cup B(T)
  OBVIOUS
<1>2. B(S) \cap B(T) = {}
  <2>1. ASSUME NEW p \in B(S), p \in B(T) PROVE FALSE
    <3>1. PICK k \in S : p \in {k} \X (1 .. f[k])
      OBVIOUS
    <3>2. PICK m \in T : p \in {m} \X (1 .. f[m])
      BY <2>1
    <3>3. p[1] = k /\ p[1] = m
      BY <3>1, <3>2
    <3> QED BY <3>3
  <2> QED BY <2>1
<1>3. IsFiniteSet(B(S)) /\ IsFiniteSet(B(T))
  BY ChargeType
<1>4. Cardinality(B(S)) \in Nat /\ Cardinality(B(T)) \in Nat
  BY <1>3, FS_CardinalityType
<1> HIDE DEF B
<1>5. Cardinality(B(S) \cup B(T)) = Cardinality(B(S)) + Cardinality(B(T)) - Cardinality({})
  BY <1>2, <1>3, FS_Union
<1>6. Cardinality({}) = 0
  BY FS_EmptySet
<1>7. Cardinality(B(S) \cup B(T)) = Cardinality(B(S)) + Cardinality(B(T))
  BY <1>4, <1>5, <1>6
<1> QED BY <1>1, <1>7, Zenon DEF Charge, B

(***************************************************************************)
(* The charge depends only on the bytes of the keys charged.               *)
(***************************************************************************)
LEMMA ChargeAgree ==
  ASSUME NEW S, NEW f, NEW g, \A k \in S : f[k] = g[k]
  PROVE  Charge(S, f) = Charge(S, g)
<1>1. {{k} \X (1 .. f[k]) : k \in S} = {{k} \X (1 .. g[k]) : k \in S}
  OBVIOUS
<1> QED BY <1>1, Zenon DEF Charge

(***************************************************************************)
(* Keys that are charged nothing.                                          *)
(***************************************************************************)
LEMMA ChargeZero ==
  ASSUME NEW S \in SUBSET Keys, NEW f \in [Keys -> Nat], \A k \in S : f[k] = 0
  PROVE  Charge(S, f) = 0
<1>1. \A k \in S : {k} \X (1 .. f[k]) = {}
  OBVIOUS
<1>2. UNION {{k} \X (1 .. f[k]) : k \in S} = {}
  BY <1>1
<1> QED BY <1>2, FS_EmptySet DEF Charge

(***************************************************************************)
(* Changing the bytes of one key changes the charge by the difference.     *)
(***************************************************************************)
LEMMA ChargeUpdate ==
  ASSUME NEW k \in Keys, NEW f \in [Keys -> Nat], NEW v \in Nat
  PROVE  /\ Charge(Keys, [f EXCEPT ![k] = v]) = Charge(Keys, f) - f[k] + v
         /\ f[k] <= Charge(Keys, f)
<1> DEFINE R == Keys \ {k}
           g == [f EXCEPT ![k] = v]
<1>1. Keys = R \cup {k} /\ R \cap {k} = {} /\ R \in SUBSET Keys /\ {k} \in SUBSET Keys
  OBVIOUS
<1>2. g \in [Keys -> Nat] /\ g[k] = v /\ \A x \in R : g[x] = f[x]
  OBVIOUS
<1> HIDE DEF R, g
<1>3. Charge(R \cup {k}, f) = Charge(R, f) + Charge({k}, f) /\ Charge({k}, f) = f[k]
  BY <1>1, ChargeSplit, ChargeSingle, Zenon
<1>4. Charge(R \cup {k}, g) = Charge(R, g) + Charge({k}, g) /\ Charge({k}, g) = v
  <2>1. Charge(R \cup {k}, g) = Charge(R, g) + Charge({k}, g)
    BY <1>1, <1>2, ChargeSplit, SMTT(30), ZenonT(40)
  <2>2. Charge({k}, g) = g[k]
    BY <1>2, ChargeSingle, Zenon
  <2> QED BY <1>2, <2>1, <2>2, Zenon
<1>5. Charge(R, g) = Charge(R, f)
  BY <1>2, ChargeAgree
<1>6. Charge(R, f) \in Nat /\ f[k] \in Nat
  BY <1>1, ChargeType, Zenon
<1> QED BY <1>1, <1>3, <1>4, <1>5, <1>6 DEF g

(***************************************************************************)
(* The keys of a sequence, of its parts and of an extension of it.         *)
(***************************************************************************)
LEMMA PartsOfSeq ==
  ASSUME NEW s \in Seq(Keys), NoDuplicates(s), NEW n \in 0 .. Len(s)
  PROVE  /\ SubSeq(s, 1, n) \in Seq(Keys)
         /\ SubSeq(s, n + 1, Len(s)) \in Seq(Keys)
         /\ NoDuplicates(SubSeq(s, 1, n))
         /\ NoDuplicates(SubSeq(s, n + 1, Len(s)))
         /\ KeysOf(SubSeq(s, 1, n)) \cup KeysOf(SubSeq(s, n + 1, Len(s))) = KeysOf(s)
         /\ KeysOf(SubSeq(s, 1, n)) \cap KeysOf(SubSeq(s, n + 1, Len(s))) = {}
         /\ n = Len(s) => KeysOf(SubSeq(s, n + 1, Len(s))) = {}
<1> DEFINE a == SubSeq(s, 1, n)
           b == SubSeq(s, n + 1, Len(s))
<1>1. Len(s) \in Nat /\ n \in Nat /\ n <= Len(s) /\ \A i \in 1 .. Len(s) : s[i] \in Keys
  BY LenProperties, ElementOfSeq
<1>2. a \in Seq(Keys) /\ Len(a) = n /\ \A i \in 1 .. n : a[i] = s[i]
  BY <1>1
<1>3. b \in Seq(Keys) /\ Len(b) = Len(s) - n /\ \A i \in 1 .. (Len(s) - n) : b[i] = s[n + i]
  BY <1>1
<1> HIDE DEF a, b
<1>4. NoDuplicates(a) /\ NoDuplicates(b)
  <2>1. \A i \in 1 .. Len(a) : i \in 1 .. Len(s) /\ a[i] = s[i]
    BY <1>1, <1>2
  <2>2. \A i \in 1 .. Len(b) : n + i \in 1 .. Len(s) /\ b[i] = s[n + i]
    BY <1>1, <1>3
  <2>3. ASSUME NEW i \in 1 .. Len(b), NEW j \in 1 .. Len(b), b[i] = b[j] PROVE i = j
    <3>1. n + i = n + j
      BY <2>2, <2>3 DEF NoDuplicates
    <3> QED BY <3>1, <1>1, <1>3
  <2> QED BY <2>1, <2>3 DEF NoDuplicates
<1>5. KeysOf(a) \cup KeysOf(b) \subseteq KeysOf(s)
  <2>1. \A i \in 1 .. Len(a) : i \in 1 .. Len(s) /\ a[i] = s[i]
    BY <1>1, <1>2
  <2>2. \A i \in 1 .. Len(b) : n + i \in 1 .. Len(s) /\ b[i] = s[n + i]
    BY <1>1, <1>3
  <2> QED BY <2>1, <2>2, Zenon DEF KeysOf
<1>6. ASSUME NEW i \in 1 .. Len(s) PROVE s[i] \in KeysOf(a) \cup KeysOf(b)
  <2>1. CASE i <= n
    BY <2>1, <1>1, <1>2 DEF KeysOf
  <2>2. CASE i > n
    <3>1. i - n \in 1 .. Len(b) /\ b[i - n] = s[i]
      BY <2>2, <1>1, <1>3
    <3> QED BY <3>1 DEF KeysOf
  <2> QED BY <2>1, <2>2, <1>1
<1>7. KeysOf(a) \cap KeysOf(b) = {}
  BY <1>1, <1>2, <1>3 DEF KeysOf, NoDuplicates
<1>8. n = Len(s) => KeysOf(b) = {}
  BY <1>1, <1>3 DEF KeysOf
<1>9. KeysOf(s) \subseteq KeysOf(a) \cup KeysOf(b)
  BY <1>6, Zenon DEF KeysOf
<1> QED BY <1>2, <1>3, <1>4, <1>5, <1>7, <1>8, <1>9 DEF a, b

\* The keys of a sequence after an append, and that it stays free of duplicates.
LEMMA AppendKey ==
  ASSUME NEW s \in Seq(Keys), NoDuplicates(s), NEW k \in Keys
  PROVE  /\ Append(s, k) \in Seq(Keys)
         /\ KeysOf(Append(s, k)) = KeysOf(s) \cup {k}
         /\ k \notin KeysOf(s) => NoDuplicates(Append(s, k))
         /\ Append(s, k) # << >>
<1>1. Len(s) \in Nat /\ \A i \in 1 .. Len(s) : s[i] \in Keys
  BY LenProperties, ElementOfSeq
<1> DEFINE a == Append(s, k)
<1>2. /\ a \in Seq(Keys) /\ Len(a) = Len(s) + 1
      /\ \A i \in 1 .. Len(s) : a[i] = s[i]
      /\ a[Len(s) + 1] = k /\ a # << >>
  BY AppendProperties
<1> HIDE DEF a
<1>3. KeysOf(a) \subseteq KeysOf(s) \cup {k}
  BY <1>1, <1>2 DEF KeysOf
<1>4. KeysOf(s) \cup {k} \subseteq KeysOf(a)
  BY <1>1, <1>2 DEF KeysOf
<1>5. k \notin KeysOf(s) => NoDuplicates(a)
  BY <1>1, <1>2 DEF KeysOf, NoDuplicates
<1> QED BY <1>2, <1>3, <1>4, <1>5 DEF a

(***************************************************************************)
(* Popping the innermost key removes exactly that key.                     *)
(***************************************************************************)
LEMMA PopKey ==
  ASSUME NEW s \in Seq(Keys), NoDuplicates(s), s # << >>
  PROVE  /\ s[Len(s)] \in Keys
         /\ s[Len(s)] \in KeysOf(s)
         /\ SubSeq(s, 1, Len(s) - 1) \in Seq(Keys)
         /\ NoDuplicates(SubSeq(s, 1, Len(s) - 1))
         /\ KeysOf(SubSeq(s, 1, Len(s) - 1)) = KeysOf(s) \ {s[Len(s)]}
<1>1. Len(s) \in Nat \ {0} /\ \A i \in 1 .. Len(s) : s[i] \in Keys
  BY EmptySeq, LenProperties, ElementOfSeq
<1> DEFINE a == SubSeq(s, 1, Len(s) - 1)
<1>2. a \in Seq(Keys) /\ Len(a) = Len(s) - 1 /\ \A i \in 1 .. (Len(s) - 1) : a[i] = s[i]
  <2>0. Len(s) - 1 \in 0 .. Len(s)
    BY <1>1
  <2>1. PICK m \in 0 .. Len(s) : m = Len(s) - 1
    BY <2>0, Zenon
  <2>2. SubSeq(s, 1, m) \in Seq(Keys) /\ Len(SubSeq(s, 1, m)) = m
        /\ \A i \in 1 .. m : SubSeq(s, 1, m)[i] = s[i]
    BY <1>1
  <2> QED BY <2>1, <2>2
<1> HIDE DEF a
<1>3. NoDuplicates(a)
  BY <1>1, <1>2 DEF NoDuplicates
<1>4. KeysOf(a) \subseteq KeysOf(s) \ {s[Len(s)]}
  BY <1>1, <1>2 DEF KeysOf, NoDuplicates
<1>5. KeysOf(s) \ {s[Len(s)]} \subseteq KeysOf(a)
  BY <1>1, <1>2 DEF KeysOf
<1>6. s[Len(s)] \in Keys /\ s[Len(s)] \in KeysOf(s)
  BY <1>1 DEF KeysOf
<1> QED BY <1>2, <1>3, <1>4, <1>5, <1>6 DEF a

(***************************************************************************)
(* move_to_end permutes the retained keys.                                 *)
(***************************************************************************)
LEMMA MoveKey ==
  ASSUME NEW s \in Seq(Keys), NoDuplicates(s), NEW i \in 1 .. Len(s)
  PROVE  /\ MoveToEnd(s, i) \in Seq(Keys)
         /\ NoDuplicates(MoveToEnd(s, i))
         /\ KeysOf(MoveToEnd(s, i)) = KeysOf(s)
<1>1. Len(s) \in Nat /\ \A j \in 1 .. Len(s) : s[j] \in Keys
  BY LenProperties, ElementOfSeq
<1> DEFINE a == MoveToEnd(s, i)
<1>2. /\ a \in Seq(Keys) /\ Len(a) = Len(s)
      /\ \A j \in 1 .. Len(s) :
           a[j] = IF j = Len(s) THEN s[i] ELSE IF j < i THEN s[j] ELSE s[j + 1]
  BY <1>1 DEF MoveToEnd
<1> HIDE DEF a
<1>3. NoDuplicates(a)
  BY <1>1, <1>2 DEF NoDuplicates
<1>4. KeysOf(a) \subseteq KeysOf(s)
  BY <1>1, <1>2 DEF KeysOf
<1>5. ASSUME NEW j \in 1 .. Len(s) PROVE \E m \in 1 .. Len(a) : a[m] = s[j]
  <2>1. CASE j < i
    BY <2>1, <1>1, <1>2
  <2>2. CASE j = i
    BY <2>2, <1>1, <1>2
  <2>3. CASE j > i
    <3>1. j - 1 \in 1 .. Len(a) /\ a[j - 1] = s[j]
      BY <2>3, <1>1, <1>2
    <3> QED BY <3>1
  <2> QED BY <2>1, <2>2, <2>3, <1>1
<1>6. KeysOf(s) \subseteq KeysOf(a)
  BY <1>5, Zenon DEF KeysOf
<1> QED BY <1>2, <1>3, <1>4, <1>6, Zenon DEF a

-----------------------------------------------------------------------------
(***************************************************************************)
(* The inductive invariant.  The byte limit needs the exact accounting (an *)
(* eviction that empties the cache leaves zero bytes); the accounting      *)
(* needs to know that only live, published keys are retained and that only *)
(* keys in flight have a budget; both need one builder per key.            *)
(***************************************************************************)
RetainedAreLive == \A k \in KeysOf(strong) : weak[k] \in Objs

RegisteredAsMade == \A k \in Keys : weak[k] \in Objs => made[weak[k]] = k

BudgetsInFlight == \A k \in Keys : inflight[k] = Nobody => budget[k] = 0

UnwindingBuilds ==
  \A t \in Threads : phase[t] # "run" => stack[t] # << >> /\ want[t] = Nobody

ReleasedBuilds ==
  \A t \in Threads : phase[t] = "released" => budget[Top(t)] = 0

IInv ==
  /\ TypeOK
  /\ ExactAccounting
  /\ WithinBudget
  /\ SingleBuilder
  /\ OneLiveView
  /\ RetainedAreLive
  /\ RegisteredAsMade
  /\ BudgetsInFlight
  /\ UnwindingBuilds
  /\ ReleasedBuilds

\* The limit in force is a natural number.
LEMMA MaximumType ==
  ASSUME NEW p \in [max : PolicyMax \cup {0}, retention : {"STRONG", "WEAK"}]
  PROVE  MaximumBytes(p) \in Nat
BY IndexCacheAssumption, Zenon DEF MaximumBytes

\* The keys of a sequence of keys are keys.
LEMMA KeysOfType ==
  ASSUME NEW s \in Seq(Keys)
  PROVE  KeysOf(s) \in SUBSET Keys
BY LenProperties, ElementOfSeq DEF KeysOf

(***************************************************************************)
(* What an eviction of the n oldest views leaves.                          *)
(***************************************************************************)
LEMMA EvictionAccounting ==
  ASSUME TypeOK, ExactAccounting, NEW n \in 0 .. Len(strong)
  PROVE  /\ Rest(n) \in Seq(Keys)
         /\ NoDuplicates(Rest(n))
         /\ KeysOf(Rest(n)) \subseteq KeysOf(strong)
         /\ BytesAfter(n) = Charge(KeysOf(Rest(n)), size)
         /\ BytesAfter(n) \in Nat
         /\ BytesAfter(n) <= bytes
         /\ n = Len(strong) => BytesAfter(n) = 0
<1>1. strong \in Seq(Keys) /\ size \in [Keys -> Nat] /\ NoDuplicates(strong)
      /\ bytes = Charge(KeysOf(strong), size)
  BY DEF TypeOK, ExactAccounting
<1> DEFINE E == KeysOf(SubSeq(strong, 1, n))
           R == KeysOf(SubSeq(strong, n + 1, Len(strong)))
<1>2. /\ Rest(n) \in Seq(Keys) /\ NoDuplicates(Rest(n))
      /\ SubSeq(strong, 1, n) \in Seq(Keys)
      /\ E \cup R = KeysOf(strong) /\ E \cap R = {} /\ (n = Len(strong) => R = {})
  BY <1>1, PartsOfSeq DEF Rest, PopOldest
<1>3. E \in SUBSET Keys /\ R \in SUBSET Keys /\ KeysOf(Rest(n)) = R /\ Evicted(n) = E
  BY <1>2, KeysOfType, Zenon DEF Rest, Evicted, PopOldest
<1> HIDE DEF E, R
<1>4. Charge(E \cup R, size) = Charge(E, size) + Charge(R, size)
  BY <1>1, <1>2, <1>3, ChargeSplit, SMTT(30), ZenonT(40)
<1>5. Charge(E, size) \in Nat /\ Charge(R, size) \in Nat
  BY <1>1, <1>3, ChargeType, Zenon
<1>6. BytesAfter(n) = bytes - Charge(E, size)
  BY <1>3 DEF BytesAfter
<1>7. n = Len(strong) => Charge(R, size) = 0
  BY <1>2, ChargeEmpty, Zenon
<1>8. bytes = Charge(E, size) + Charge(R, size)
  BY <1>1, <1>2, <1>4, Zenon
<1>9. BytesAfter(n) = Charge(R, size)
  BY <1>5, <1>6, <1>8
<1>10. BytesAfter(n) \in Nat /\ BytesAfter(n) <= bytes
  BY <1>5, <1>8, <1>9
<1> QED BY <1>2, <1>3, <1>7, <1>9, <1>10, Zenon

(***************************************************************************)
(* Retaining a further key adds its bytes.                                 *)
(***************************************************************************)
LEMMA RetainAccounting ==
  ASSUME NEW s \in Seq(Keys), NoDuplicates(s), NEW k \in Keys, k \notin KeysOf(s),
         NEW f \in [Keys -> Nat]
  PROVE  Charge(KeysOf(Append(s, k)), f) = Charge(KeysOf(s), f) + f[k]
<1>1. KeysOf(Append(s, k)) = KeysOf(s) \cup {k}
  BY AppendKey
<1>2. KeysOf(s) \in SUBSET Keys /\ {k} \in SUBSET Keys /\ KeysOf(s) \cap {k} = {}
  BY KeysOfType
<1>3. Charge(KeysOf(s) \cup {k}, f) = Charge(KeysOf(s), f) + Charge({k}, f)
  BY <1>2, ChargeSplit, Zenon
<1>4. Charge({k}, f) = f[k]
  BY ChargeSingle
<1> QED BY <1>1, <1>3, <1>4

\* A new cache satisfies the inductive invariant.
LEMMA InitInvariant == Init => IInv
<1> SUFFICES ASSUME Init PROVE IInv
  OBVIOUS
<1>1. KeysOf(<< >>) = {}
  BY DEF KeysOf
<1>2. TypeOK
  BY IndexCacheAssumption DEF Init, TypeOK
<1>3. Charge(KeysOf(strong), size) = 0
  BY <1>1, ChargeEmpty, Zenon DEF Init
<1>4. Charge(Keys, budget) = 0
  BY <1>2, ChargeZero DEF Init, TypeOK
<1>5. ExactAccounting
  BY <1>3, <1>4 DEF ExactAccounting, NoDuplicates, Init
<1>6. WithinBudget
  BY IndexCacheAssumption DEF Init, WithinBudget, MaximumBytes
<1>7. SingleBuilder
  BY <1>1, IndexCacheAssumption DEF Init, SingleBuilder, NoDuplicates
<1>8. OneLiveView /\ RetainedAreLive /\ RegisteredAsMade /\ BudgetsInFlight /\ UnwindingBuilds
      /\ ReleasedBuilds
  BY <1>1, IndexCacheAssumption, Zenon
  DEF Init, OneLiveView, RetainedAreLive, RegisteredAsMade, BudgetsInFlight, UnwindingBuilds,
      ReleasedBuilds
<1> QED BY <1>2, <1>5, <1>6, <1>7, <1>8 DEF IInv

-----------------------------------------------------------------------------
\* Entering get_or_build only records what the thread asks for.
LEMMA RequestStep ==
  ASSUME IInv, NEW t \in Threads, NEW k \in Keys, Request(t, k)
  PROVE  IInv'
<1>1. TypeOK'
  BY DEF IInv, TypeOK, Request, registry
<1>2. UnwindingBuilds'
  BY DEF IInv, TypeOK, UnwindingBuilds, Request, Idle, Building
<1> QED
  BY <1>1, <1>2, Zenon
  DEF IInv, Request, registry, ExactAccounting, WithinBudget, SingleBuilder, OneLiveView,
      RetainedAreLive, RegisteredAsMade, BudgetsInFlight, ReleasedBuilds, Top

(***************************************************************************)
(* A hit: whatever Promote does, the accounting stays exact and the bytes  *)
(* within the limit.                                                       *)
(***************************************************************************)
LEMMA PromoteAccounting ==
  ASSUME IInv, NEW k \in Keys, weak[k] \in Objs, Promote(k)
  PROVE  /\ strong' \in Seq(Keys)
         /\ NoDuplicates(strong')
         /\ KeysOf(strong') \subseteq KeysOf(strong) \cup {k}
         /\ bytes' = Charge(KeysOf(strong'), size)
         /\ bytes' \in Nat
         /\ bytes' + reserved <= MaximumBytes(policy)
<1>1. /\ TypeOK /\ ExactAccounting /\ WithinBudget
      /\ strong \in Seq(Keys) /\ size \in [Keys -> Nat] /\ bytes \in Nat /\ reserved \in Nat
      /\ NoDuplicates(strong) /\ bytes = Charge(KeysOf(strong), size)
      /\ bytes + reserved <= MaximumBytes(policy)
  BY Zenon DEF IInv, TypeOK, ExactAccounting, WithinBudget
<1>2. MaximumBytes(policy) \in Nat
  BY <1>1, MaximumType DEF TypeOK
<1>3. CASE strong' = strong /\ bytes' = bytes
  BY <1>1, <1>3
<1>4. CASE /\ k \in KeysOf(strong) /\ bytes' = bytes
           /\ \E i \in 1 .. Len(strong) : strong[i] = k /\ strong' = MoveToEnd(strong, i)
  BY <1>1, <1>4, MoveKey, Zenon
<1> DEFINE Fits(n) == BytesAfter(n) + reserved + size[k] <= MaximumBytes(policy)
<1>5. ASSUME k \notin KeysOf(strong), NEW n \in 0 .. Len(strong),
             strong' = IF Fits(n) THEN Append(Rest(n), k) ELSE Rest(n),
             bytes' = BytesAfter(n) + (IF Fits(n) THEN size[k] ELSE 0)
      PROVE  /\ strong' \in Seq(Keys)
             /\ NoDuplicates(strong')
             /\ KeysOf(strong') \subseteq KeysOf(strong) \cup {k}
             /\ bytes' = Charge(KeysOf(strong'), size)
             /\ bytes' \in Nat
             /\ bytes' + reserved <= MaximumBytes(policy)
  <2>1. /\ Rest(n) \in Seq(Keys) /\ NoDuplicates(Rest(n))
        /\ KeysOf(Rest(n)) \subseteq KeysOf(strong)
        /\ BytesAfter(n) = Charge(KeysOf(Rest(n)), size)
        /\ BytesAfter(n) \in Nat /\ BytesAfter(n) <= bytes
    BY <1>1, EvictionAccounting
  <2>2. CASE Fits(n)
    <3>1. k \notin KeysOf(Rest(n))
      BY <1>5, <2>1
    <3>2. /\ Append(Rest(n), k) \in Seq(Keys) /\ NoDuplicates(Append(Rest(n), k))
          /\ KeysOf(Append(Rest(n), k)) = KeysOf(Rest(n)) \cup {k}
      BY <2>1, <3>1, AppendKey
    <3>3. Charge(KeysOf(Append(Rest(n), k)), size) = BytesAfter(n) + size[k]
      BY <1>1, <2>1, <3>1, RetainAccounting, Zenon
    <3>4. strong' = Append(Rest(n), k) /\ bytes' = BytesAfter(n) + size[k]
      BY <1>5, <2>2
    <3>5. size[k] \in Nat
      BY <1>1
    <3>6. bytes' \in Nat /\ bytes' + reserved <= MaximumBytes(policy)
      <4>1. BytesAfter(n) \in Nat /\ reserved \in Nat
        BY <1>1, <2>1
      <4> QED BY <1>2, <2>2, <3>4, <3>5, <4>1
    <3> QED BY <2>1, <3>2, <3>3, <3>4, <3>6, Zenon
  <2>3. CASE ~Fits(n)
    <3>1. strong' = Rest(n) /\ bytes' = BytesAfter(n)
      BY <1>5, <2>1, <2>3
    <3>2. bytes' + reserved <= MaximumBytes(policy)
      BY <1>1, <1>2, <2>1, <3>1
    <3> QED BY <2>1, <3>1, <3>2
  <2> QED BY <2>2, <2>3
<1>6. policy.retention \in {"STRONG", "WEAK"}
  BY <1>1 DEF TypeOK
<1>7. CASE policy.retention = "WEAK"
  BY <1>3, <1>7 DEF Promote
<1>8. CASE policy.retention = "STRONG" /\ k \in KeysOf(strong)
  BY <1>4, <1>8, Zenon DEF Promote
<1>9. CASE policy.retention = "STRONG" /\ k \notin KeysOf(strong)
  <2>1. CASE size[k] > MaximumBytes(policy)
    BY <1>3, <1>9, <2>1, Zenon DEF Promote
  <2>2. CASE ~(size[k] > MaximumBytes(policy))
    <3>1. PICK n \in 0 .. Len(strong) :
            /\ strong' = IF Fits(n) THEN Append(Rest(n), k) ELSE Rest(n)
            /\ bytes' = BytesAfter(n) + (IF Fits(n) THEN size[k] ELSE 0)
      BY <1>9, <2>2, Zenon DEF Promote
    <3> QED BY <1>5, <1>9, <3>1, Zenon
  <2> QED BY <2>1, <2>2
<1> QED BY <1>6, <1>7, <1>8, <1>9, Zenon

\* A hit moves or re-retains a live view within the limit.
LEMMA HitStep ==
  ASSUME IInv, NEW t \in Threads, Hit(t)
  PROVE  IInv'
<1> DEFINE k == want[t]
<1>1. /\ k \in Keys /\ weak[k] \in Objs /\ Promote(k)
      /\ held' = held \cup {weak[k]} /\ want' = [want EXCEPT ![t] = Nobody]
      /\ UNCHANGED <<policy, weak, size, made, reserved, inflight, budget, stack, phase>>
  BY DEF IInv, TypeOK, Hit, registry
<1>2. /\ strong' \in Seq(Keys) /\ NoDuplicates(strong')
      /\ KeysOf(strong') \subseteq KeysOf(strong) \cup {k}
      /\ bytes' = Charge(KeysOf(strong'), size) /\ bytes' \in Nat
      /\ bytes' + reserved <= MaximumBytes(policy)
  BY <1>1, PromoteAccounting, Zenon
<1>3. TypeOK'
  BY <1>1, <1>2, Zenon DEF IInv, TypeOK
<1>4. ExactAccounting' /\ WithinBudget'
  BY <1>1, <1>2 DEF IInv, ExactAccounting, WithinBudget
<1>5. RetainedAreLive'
  BY <1>1, <1>2 DEF IInv, RetainedAreLive
<1>6. UnwindingBuilds'
  BY <1>1 DEF IInv, TypeOK, UnwindingBuilds
<1> QED
  BY <1>1, <1>3, <1>4, <1>5, <1>6, Zenon
  DEF IInv, SingleBuilder, OneLiveView, RegisteredAsMade, BudgetsInFlight, ReleasedBuilds, Top

\* A miss makes the caller the one builder of a key without an entry.
LEMMA MissStep ==
  ASSUME IInv, NEW t \in Threads, Miss(t)
  PROVE  IInv'
<1> DEFINE k == want[t]
<1>1. /\ k \in Keys /\ weak[k] \notin Objs /\ inflight[k] = Nobody
      /\ weak' = [weak EXCEPT ![k] = Absent] /\ size' = [size EXCEPT ![k] = 0]
      /\ inflight' = [inflight EXCEPT ![k] = t]
      /\ stack' = [stack EXCEPT ![t] = Append(@, k)]
      /\ want' = [want EXCEPT ![t] = Nobody]
      /\ UNCHANGED <<policy, strong, bytes, reserved, budget, phase, made, held>>
  BY DEF IInv, TypeOK, Miss
<1>2. TypeOK /\ SingleBuilder /\ k \notin KeysOf(strong) /\ phase[t] = "run"
  BY <1>1, IndexCacheAssumption, Zenon DEF IInv, RetainedAreLive, UnwindingBuilds
<1>3. k \notin KeysOf(stack[t]) /\ stack[t] \in Seq(Keys) /\ NoDuplicates(stack[t])
  BY <1>1, <1>2, IndexCacheAssumption DEF SingleBuilder, TypeOK
<1>4. /\ Append(stack[t], k) \in Seq(Keys) /\ NoDuplicates(Append(stack[t], k))
      /\ KeysOf(Append(stack[t], k)) = KeysOf(stack[t]) \cup {k}
      /\ Append(stack[t], k) # << >>
  BY <1>1, <1>3, AppendKey, Zenon
<1>5. TypeOK'
  BY <1>1, <1>2, <1>4 DEF TypeOK
<1>6. Charge(KeysOf(strong), size) = Charge(KeysOf(strong), size')
  <2>1. \A x \in KeysOf(strong) : size[x] = size'[x]
    BY <1>1, <1>2, KeysOfType, Zenon DEF TypeOK
  <2> QED BY <2>1, ChargeAgree, Zenon
<1>7. ExactAccounting' /\ WithinBudget'
  BY <1>1, <1>6 DEF IInv, ExactAccounting, WithinBudget
<1>8. SingleBuilder'
  <2>1. ASSUME NEW x \in Keys, NEW u \in Threads
        PROVE  inflight'[x] = u <=> x \in KeysOf(stack'[u])
    <3>1. inflight[x] = u <=> x \in KeysOf(stack[u])
      BY <1>2, Zenon DEF SingleBuilder
    <3>2. CASE u = t
      BY <1>1, <1>2, <1>4, <3>1, <3>2, Zenon DEF TypeOK
    <3>3. CASE u # t
      <4>1. stack'[u] = stack[u]
        BY <1>1, <1>2, <3>3, Zenon DEF TypeOK
      <4> QED BY <1>1, <1>2, <3>1, <3>3, <4>1, IndexCacheAssumption, SMTT(20) DEF TypeOK
    <3> QED BY <3>2, <3>3
  <2>2. \A u \in Threads : NoDuplicates(stack'[u])
    BY <1>1, <1>2, <1>4 DEF SingleBuilder, TypeOK
  <2>3. \A x \in Keys : inflight'[x] # Nobody => weak'[x] = Absent
    BY <1>1, <1>2 DEF SingleBuilder, TypeOK
  <2> QED BY <2>1, <2>2, <2>3 DEF SingleBuilder
<1>9. OneLiveView' /\ RetainedAreLive' /\ RegisteredAsMade'
  BY <1>1, <1>2, KeysOfType, IndexCacheAssumption, SMTT(20)
  DEF IInv, OneLiveView, RetainedAreLive, RegisteredAsMade, TypeOK
<1>10. BudgetsInFlight' /\ UnwindingBuilds'
  BY <1>1, <1>2, <1>4, IndexCacheAssumption, SMTT(20) DEF IInv, BudgetsInFlight, UnwindingBuilds, TypeOK
<1>11. ReleasedBuilds'
  BY <1>1, <1>2, Zenon DEF IInv, ReleasedBuilds, TypeOK, Top
<1> QED BY <1>5, <1>7, <1>8, <1>9, <1>10, <1>11, Zenon DEF IInv

\* A re-entrant or cancelled request leaves the cache as it was.
LEMMA NotAnsweredStep ==
  ASSUME IInv, NEW t \in Threads, Reentrant(t) \/ CancelWait(t)
  PROVE  IInv'
<1>1. /\ want' = [want EXCEPT ![t] = Nobody]
      /\ UNCHANGED <<policy, weak, size, made, strong, bytes, reserved, inflight, budget,
                     stack, phase, held>>
  BY Zenon DEF Reentrant, CancelWait, registry
<1>2. TypeOK' /\ UnwindingBuilds'
  BY <1>1, Zenon DEF IInv, TypeOK, UnwindingBuilds
<1> QED
  BY <1>1, <1>2, Zenon
  DEF IInv, ExactAccounting, WithinBudget, SingleBuilder, OneLiveView,
      RetainedAreLive, RegisteredAsMade, BudgetsInFlight, ReleasedBuilds, Top

(***************************************************************************)
(* Dropping dead entries leaves the live ones and their bytes alone.       *)
(***************************************************************************)
LEMMA DiscardKeepsLive ==
  ASSUME IInv, DiscardDeadWeak
  PROVE  /\ weak' \in [Keys -> Objs \cup {Absent, Dead}]
         /\ size' \in [Keys -> Nat]
         /\ \A k \in Keys : weak[k] # Dead => weak'[k] = weak[k] /\ size'[k] = size[k]
         /\ \A k \in Keys : weak[k] = Dead => weak'[k] = Absent
         /\ \A k \in KeysOf(strong) : size'[k] = size[k] /\ weak'[k] \in Objs
<1>1. /\ weak' \in [Keys -> Objs \cup {Absent, Dead}]
      /\ size' \in [Keys -> Nat]
      /\ \A k \in Keys : weak[k] # Dead => weak'[k] = weak[k] /\ size'[k] = size[k]
      /\ \A k \in Keys : weak[k] = Dead => weak'[k] = Absent
  BY DEF IInv, TypeOK, DiscardDeadWeak
<1>2. KeysOf(strong) \in SUBSET Keys /\ \A k \in KeysOf(strong) : weak[k] # Dead
  BY KeysOfType, IndexCacheAssumption DEF IInv, TypeOK, RetainedAreLive
<1> QED BY <1>1, <1>2 DEF IInv, RetainedAreLive

\* What the invariant says of the key a thread is building.
LEMMA BuilderFacts ==
  ASSUME IInv, NEW t \in Threads, stack[t] # << >>
  PROVE  /\ Top(t) \in Keys
         /\ inflight[Top(t)] = t
         /\ weak[Top(t)] = Absent
         /\ Top(t) \notin KeysOf(strong)
         /\ Popped(t) \in Seq(Keys)
         /\ NoDuplicates(Popped(t))
         /\ KeysOf(Popped(t)) = KeysOf(stack[t]) \ {Top(t)}
         /\ budget[Top(t)] \in Nat
         /\ budget[Top(t)] <= reserved
<1>1. stack[t] \in Seq(Keys) /\ NoDuplicates(stack[t])
  BY DEF IInv, TypeOK, SingleBuilder
<1>2. /\ Top(t) \in Keys /\ Top(t) \in KeysOf(stack[t])
      /\ Popped(t) \in Seq(Keys) /\ NoDuplicates(Popped(t))
      /\ KeysOf(Popped(t)) = KeysOf(stack[t]) \ {Top(t)}
  BY <1>1, PopKey, Zenon DEF Top, Popped
<1>3. inflight[Top(t)] = t /\ weak[Top(t)] = Absent
  BY <1>2, IndexCacheAssumption DEF IInv, SingleBuilder
<1>4. Top(t) \notin KeysOf(strong)
  BY <1>3, IndexCacheAssumption DEF IInv, RetainedAreLive
<1>5. budget \in [Keys -> Nat] /\ reserved = Charge(Keys, budget)
  BY DEF IInv, TypeOK, ExactAccounting
<1>6. budget[Top(t)] <= Charge(Keys, budget)
  BY <1>2, <1>5, ChargeUpdate, Zenon
<1> QED BY <1>2, <1>3, <1>4, <1>5, <1>6, Zenon

(***************************************************************************)
(* A charge of the builder, granted or refused.                            *)
(***************************************************************************)
LEMMA ReserveStep ==
  ASSUME IInv, NEW t \in Threads, NEW amount \in Nat, Building(t), Reserve(t, amount),
         UNCHANGED <<policy, inflight, stack, want, made, held>>
  PROVE  IInv'
<1> DEFINE k == Top(t)
<1>1. PICK n \in 0 .. Len(strong) :
        LET granted == BytesAfter(n) + reserved + amount <= MaximumBytes(policy)
        IN  /\ DiscardDeadWeak
            /\ strong' = Rest(n)
            /\ bytes' = BytesAfter(n)
            /\ reserved' = IF granted THEN reserved + amount ELSE reserved
            /\ budget' = IF granted THEN [budget EXCEPT ![k] = @ + amount] ELSE budget
            /\ phase' = IF granted THEN phase ELSE [phase EXCEPT ![t] = "raised"]
  BY DEF Reserve
<1>2. TypeOK /\ ExactAccounting /\ WithinBudget /\ stack[t] # << >> /\ want[t] = Nobody
  BY Zenon DEF IInv, Building
<1>3. /\ Rest(n) \in Seq(Keys) /\ NoDuplicates(Rest(n))
      /\ KeysOf(Rest(n)) \subseteq KeysOf(strong)
      /\ BytesAfter(n) = Charge(KeysOf(Rest(n)), size)
      /\ BytesAfter(n) \in Nat /\ BytesAfter(n) <= bytes
  BY <1>2, EvictionAccounting, Zenon
<1>4. /\ weak' \in [Keys -> Objs \cup {Absent, Dead}] /\ size' \in [Keys -> Nat]
      /\ \A x \in Keys : weak[x] # Dead => weak'[x] = weak[x] /\ size'[x] = size[x]
      /\ \A x \in Keys : weak[x] = Dead => weak'[x] = Absent
      /\ \A x \in KeysOf(strong) : size'[x] = size[x] /\ weak'[x] \in Objs
  BY <1>1, DiscardKeepsLive, Zenon
<1>5. k \in Keys /\ inflight[k] = t /\ budget[k] \in Nat
  BY <1>2, BuilderFacts, Zenon
<1>6. MaximumBytes(policy) \in Nat /\ bytes \in Nat /\ reserved \in Nat
      /\ budget \in [Keys -> Nat] /\ reserved = Charge(Keys, budget)
      /\ bytes + reserved <= MaximumBytes(policy)
  BY <1>2, MaximumType, Zenon DEF TypeOK, WithinBudget, ExactAccounting
<1>7. Charge(KeysOf(Rest(n)), size) = Charge(KeysOf(Rest(n)), size')
  <2>1. \A x \in KeysOf(Rest(n)) : size[x] = size'[x]
    BY <1>3, <1>4, Zenon
  <2> QED BY <2>1, ChargeAgree
<1>8. /\ budget' \in [Keys -> Nat] /\ reserved' \in Nat
      /\ reserved' = Charge(Keys, budget')
      /\ bytes' + reserved' <= MaximumBytes(policy)
      /\ \A x \in Keys \ {k} : budget'[x] = budget[x]
      /\ phase' \in [Threads -> {"run", "raised", "released"}]
      /\ phase'[t] # "released" /\ \A u \in Threads \ {t} : phase'[u] = phase[u]
  <2>1. CASE BytesAfter(n) + reserved + amount <= MaximumBytes(policy)
    <3>1. /\ reserved' = reserved + amount
          /\ budget' = [budget EXCEPT ![k] = budget[k] + amount]
          /\ phase' = phase /\ bytes' = BytesAfter(n)
      BY <1>1, <2>1, Zenon
    <3>2. budget[k] + amount \in Nat
      BY <1>5
    <3>3. Charge(Keys, [budget EXCEPT ![k] = budget[k] + amount])
            = Charge(Keys, budget) - budget[k] + (budget[k] + amount)
      BY <1>5, <1>6, <3>2, ChargeUpdate, Zenon
    <3>4. reserved' = Charge(Keys, budget')
      BY <1>5, <1>6, <3>1, <3>3, SMTT(20)
    <3>5. budget' \in [Keys -> Nat] /\ \A x \in Keys \ {k} : budget'[x] = budget[x]
      BY <1>5, <1>6, <3>1, <3>2, Zenon
    <3>6. reserved' \in Nat /\ bytes' + reserved' <= MaximumBytes(policy)
      <4>1. BytesAfter(n) \in Nat /\ reserved \in Nat /\ MaximumBytes(policy) \in Nat
        BY <1>3, <1>6, Zenon
      <4> QED BY <2>1, <3>1, <4>1
    <3> QED BY <1>2, <3>1, <3>4, <3>5, <3>6, Zenon DEF TypeOK, Building
  <2>2. CASE ~(BytesAfter(n) + reserved + amount <= MaximumBytes(policy))
    <3>1. /\ reserved' = reserved /\ budget' = budget
          /\ phase' = [phase EXCEPT ![t] = "raised"] /\ bytes' = BytesAfter(n)
      BY <1>1, <2>2, Zenon
    <3>2. bytes' + reserved' <= MaximumBytes(policy)
      BY <1>3, <1>6, <3>1, SMTT(20)
    <3> QED BY <1>2, <1>6, <3>1, <3>2, Zenon DEF TypeOK
  <2> QED BY <2>1, <2>2
<1>9. TypeOK'
  BY <1>1, <1>2, <1>3, <1>4, <1>8, Zenon DEF TypeOK
<1>10. ExactAccounting' /\ WithinBudget'
  BY <1>1, <1>3, <1>7, <1>8, Zenon DEF ExactAccounting, WithinBudget
<1>11. SingleBuilder'
  BY <1>4, IndexCacheAssumption, Zenon DEF IInv, SingleBuilder, TypeOK
<1>12. OneLiveView' /\ RegisteredAsMade'
  <2>1. ASSUME NEW o \in Objs, made'[o] # Nobody PROVE weak'[made'[o]] = o
    <3>1. made[o] \in Keys /\ weak[made[o]] = o /\ made' = made
      BY <2>1, Zenon DEF IInv, OneLiveView, TypeOK
    <3>2. weak[made[o]] # Dead
      BY <3>1, IndexCacheAssumption, Zenon
    <3> QED BY <1>4, <3>1, <3>2, Zenon
  <2>2. RegisteredAsMade'
    BY <1>4, IndexCacheAssumption, Zenon DEF IInv, RegisteredAsMade
  <2> QED BY <2>1, <2>2, Zenon DEF OneLiveView
<1>13. RetainedAreLive'
  BY <1>1, <1>3, <1>4, Zenon DEF RetainedAreLive
<1>14. BudgetsInFlight'
  BY <1>5, <1>8, IndexCacheAssumption DEF IInv, BudgetsInFlight
<1>15. UnwindingBuilds'
  BY <1>2, <1>8, Zenon DEF IInv, UnwindingBuilds
<1>16. ReleasedBuilds'
  <2>1. ASSUME NEW u \in Threads, phase'[u] = "released" PROVE budget'[Top(u)] = 0
    <3>1. u # t /\ phase[u] = "released" /\ budget[Top(u)] = 0 /\ stack[u] # << >>
      BY <1>8, <2>1, Zenon DEF IInv, ReleasedBuilds, UnwindingBuilds
    <3>2. Top(u) \in Keys /\ inflight[Top(u)] = u
      BY <3>1, BuilderFacts, Zenon
    <3> QED BY <1>5, <1>8, <3>1, <3>2, Zenon
  <2> QED BY <2>1, Zenon DEF ReleasedBuilds, Top
<1> QED BY <1>9, <1>10, <1>11, <1>12, <1>13, <1>14, <1>15, <1>16, Zenon DEF IInv

\* A builder that raises starts to unwind and changes nothing else.
LEMMA BuildRaisesStep ==
  ASSUME IInv, NEW t \in Threads, BuildRaises(t)
  PROVE  IInv'
<1>1. TypeOK' /\ UnwindingBuilds' /\ ReleasedBuilds'
  BY Zenon DEF IInv, TypeOK, UnwindingBuilds, ReleasedBuilds, BuildRaises, Building, registry, Top
<1> QED
  BY <1>1, Zenon
  DEF IInv, BuildRaises, registry, ExactAccounting, WithinBudget, SingleBuilder, OneLiveView,
      RetainedAreLive, RegisteredAsMade, BudgetsInFlight

\* Releasing a failed budget takes exactly its bytes off the reserved ones.
LEMMA ReleaseBudgetStep ==
  ASSUME IInv, NEW t \in Threads, ReleaseBudget(t)
  PROVE  IInv'
<1> DEFINE k == Top(t)
<1>1. /\ stack[t] # << >> /\ want[t] = Nobody
      /\ reserved' = reserved - budget[k]
      /\ budget' = [budget EXCEPT ![k] = 0]
      /\ phase' = [phase EXCEPT ![t] = "released"]
      /\ UNCHANGED <<policy, weak, size, made, strong, bytes, inflight, stack, want, held>>
  BY Zenon DEF IInv, UnwindingBuilds, ReleaseBudget, registry
<1>2. k \in Keys /\ budget[k] \in Nat /\ budget[k] <= reserved
  BY <1>1, BuilderFacts, Zenon
<1>3. /\ budget \in [Keys -> Nat] /\ reserved \in Nat /\ reserved = Charge(Keys, budget)
      /\ bytes \in Nat /\ bytes + reserved <= MaximumBytes(policy) /\ MaximumBytes(policy) \in Nat
  BY MaximumType DEF IInv, TypeOK, ExactAccounting, WithinBudget
<1>4. Charge(Keys, budget') = Charge(Keys, budget) - budget[k] + 0
  BY <1>1, <1>2, <1>3, ChargeUpdate, Zenon
<1>5. reserved' = Charge(Keys, budget') /\ reserved' \in Nat /\ reserved' <= reserved
  BY <1>1, <1>2, <1>3, <1>4
<1>6. TypeOK'
  BY <1>1, <1>5, Zenon DEF IInv, TypeOK
<1>7. ExactAccounting' /\ WithinBudget'
  BY <1>1, <1>3, <1>5, SMTT(20) DEF IInv, ExactAccounting, WithinBudget
<1>8. BudgetsInFlight' /\ UnwindingBuilds'
  <2>1. BudgetsInFlight'
    BY <1>1, <1>2, <1>3, Zenon DEF IInv, BudgetsInFlight
  <2>2. UnwindingBuilds'
    BY <1>1, Zenon DEF IInv, TypeOK, UnwindingBuilds
  <2> QED BY <2>1, <2>2
<1>9. ReleasedBuilds'
  <2>1. ASSUME NEW u \in Threads, u # t, phase'[u] = "released" PROVE budget'[Top(u)] = 0
    <3>1. phase[u] = "released" /\ budget[Top(u)] = 0 /\ stack[u] # << >>
      BY <1>1, <2>1, Zenon DEF IInv, TypeOK, ReleasedBuilds, UnwindingBuilds
    <3>2. Top(u) \in Keys
      BY <3>1, BuilderFacts, Zenon
    <3> QED BY <1>1, <1>2, <1>3, <3>1, <3>2, Zenon
  <2>2. budget'[Top(t)] = 0
    BY <1>1, <1>2, <1>3, Zenon
  <2> QED BY <1>1, <2>1, <2>2, Zenon DEF ReleasedBuilds, Top
<1> QED
  BY <1>1, <1>6, <1>7, <1>8, <1>9, Zenon
  DEF IInv, SingleBuilder, OneLiveView, RetainedAreLive, RegisteredAsMade

(***************************************************************************)
(* Giving up a key: the builder's stack and the owners stay in step.       *)
(***************************************************************************)
LEMMA GiveUpKey ==
  ASSUME IInv, NEW t \in Threads, stack[t] # << >>,
         inflight' = [inflight EXCEPT ![Top(t)] = Nobody],
         stack' = [stack EXCEPT ![t] = Popped(t)]
  PROVE  /\ inflight' \in [Keys -> Threads \cup {Nobody}]
         /\ stack' \in [Threads -> Seq(Keys)]
         /\ \A x \in Keys, u \in Threads : inflight'[x] = u <=> x \in KeysOf(stack'[u])
         /\ \A u \in Threads : NoDuplicates(stack'[u])
         /\ \A x \in Keys : inflight'[x] = IF x = Top(t) THEN Nobody ELSE inflight[x]
         /\ \A u \in Threads \ {t} : stack'[u] = stack[u]
<1> DEFINE k == Top(t)
<1>1. /\ k \in Keys /\ inflight[k] = t
      /\ Popped(t) \in Seq(Keys) /\ NoDuplicates(Popped(t))
      /\ KeysOf(Popped(t)) = KeysOf(stack[t]) \ {k}
  BY BuilderFacts
<1> HIDE DEF k
<1>2. TypeOK /\ SingleBuilder
  BY Zenon DEF IInv
<1>3. /\ inflight' \in [Keys -> Threads \cup {Nobody}] /\ stack' \in [Threads -> Seq(Keys)]
      /\ \A x \in Keys : inflight'[x] = IF x = k THEN Nobody ELSE inflight[x]
      /\ \A u \in Threads \ {t} : stack'[u] = stack[u]
      /\ stack'[t] = Popped(t)
  BY <1>1, <1>2 DEF TypeOK, k
<1>4. ASSUME NEW x \in Keys, NEW u \in Threads
      PROVE  inflight'[x] = u <=> x \in KeysOf(stack'[u])
  <2>1. inflight[x] = u <=> x \in KeysOf(stack[u])
    BY <1>2, Zenon DEF SingleBuilder
  <2>2. CASE u = t
    BY <1>1, <1>3, <2>1, <2>2, IndexCacheAssumption, Zenon
  <2>3. CASE u # t
    BY <1>1, <1>3, <2>1, <2>3, IndexCacheAssumption, Zenon
  <2> QED BY <2>2, <2>3, Zenon
<1>5. \A u \in Threads : NoDuplicates(stack'[u])
  BY <1>1, <1>2, <1>3, Zenon DEF SingleBuilder
<1> QED BY <1>3, <1>4, <1>5, Zenon DEF k

\* A failed build gives up its key after its budget.
LEMMA FailBuildStep ==
  ASSUME IInv, NEW t \in Threads, FailBuild(t)
  PROVE  IInv'
<1> DEFINE k == Top(t)
<1>1. /\ stack[t] # << >> /\ want[t] = Nobody /\ budget[k] = 0
      /\ inflight' = [inflight EXCEPT ![k] = Nobody]
      /\ stack' = [stack EXCEPT ![t] = Popped(t)]
      /\ phase' = [phase EXCEPT ![t] = "run"]
      /\ UNCHANGED <<policy, weak, size, made, strong, bytes, reserved, budget, want, held>>
  BY DEF IInv, UnwindingBuilds, ReleasedBuilds, FailBuild, registry
<1>2. /\ inflight' \in [Keys -> Threads \cup {Nobody}] /\ stack' \in [Threads -> Seq(Keys)]
      /\ \A x \in Keys, u \in Threads : inflight'[x] = u <=> x \in KeysOf(stack'[u])
      /\ \A u \in Threads : NoDuplicates(stack'[u])
      /\ \A x \in Keys : inflight'[x] = IF x = k THEN Nobody ELSE inflight[x]
      /\ \A u \in Threads \ {t} : stack'[u] = stack[u]
  BY <1>1, GiveUpKey, Zenon
<1> HIDE DEF k
<1>3. TypeOK'
  BY <1>1, <1>2, Zenon DEF IInv, TypeOK
<1>4. SingleBuilder'
  BY <1>1, <1>2, Zenon DEF IInv, SingleBuilder
<1>5. BudgetsInFlight'
  BY <1>1, <1>2, Zenon DEF IInv, BudgetsInFlight
<1>6. UnwindingBuilds' /\ ReleasedBuilds'
  BY <1>1, <1>2, ZenonT(40), SMTT(30) DEF IInv, TypeOK, UnwindingBuilds, ReleasedBuilds, Top
<1>7. ExactAccounting' /\ WithinBudget'
  BY <1>1 DEF IInv, ExactAccounting, WithinBudget
<1>8. OneLiveView' /\ RetainedAreLive' /\ RegisteredAsMade'
  BY <1>1, Zenon DEF IInv, OneLiveView, RetainedAreLive, RegisteredAsMade
<1> QED BY <1>3, <1>4, <1>5, <1>6, <1>7, <1>8, Zenon DEF IInv

(***************************************************************************)
(* A budget handed back, to become an entry or to be dropped.              *)
(***************************************************************************)
LEMMA BudgetHandedBack ==
  ASSUME IInv, NEW t \in Threads, stack[t] # << >>,
         reserved' = reserved - budget[Top(t)],
         budget' = [budget EXCEPT ![Top(t)] = 0]
  PROVE  /\ budget' \in [Keys -> Nat]
         /\ reserved' \in Nat
         /\ reserved' = Charge(Keys, budget')
         /\ \A x \in Keys : budget'[x] = IF x = Top(t) THEN 0 ELSE budget[x]
<1>1. Top(t) \in Keys /\ budget[Top(t)] \in Nat /\ budget[Top(t)] <= reserved
  BY BuilderFacts, Zenon
<1>2. budget \in [Keys -> Nat] /\ reserved \in Nat /\ reserved = Charge(Keys, budget)
  BY DEF IInv, TypeOK, ExactAccounting
<1>3. Charge(Keys, budget') = Charge(Keys, budget) - budget[Top(t)] + 0
  BY <1>1, <1>2, ChargeUpdate, Zenon
<1> QED BY <1>1, <1>2, <1>3

\* A view that supports no weak references is given up with its reservation and its key.
LEMMA PublishRejectedStep ==
  ASSUME IInv, NEW t \in Threads, PublishRejected(t)
  PROVE  IInv'
<1> DEFINE k == Top(t)
<1>1. /\ stack[t] # << >> /\ phase[t] = "run"
      /\ reserved' = reserved - budget[k]
      /\ budget' = [budget EXCEPT ![k] = 0]
      /\ inflight' = [inflight EXCEPT ![k] = Nobody]
      /\ stack' = [stack EXCEPT ![t] = Popped(t)]
      /\ UNCHANGED <<policy, weak, size, made, strong, bytes, want, phase, held>>
  BY DEF PublishRejected, Building, registry
<1>2. /\ inflight' \in [Keys -> Threads \cup {Nobody}] /\ stack' \in [Threads -> Seq(Keys)]
      /\ \A x \in Keys, u \in Threads : inflight'[x] = u <=> x \in KeysOf(stack'[u])
      /\ \A u \in Threads : NoDuplicates(stack'[u])
      /\ \A x \in Keys : inflight'[x] = IF x = k THEN Nobody ELSE inflight[x]
      /\ \A u \in Threads \ {t} : stack'[u] = stack[u]
  BY <1>1, GiveUpKey, Zenon
<1>3. /\ budget' \in [Keys -> Nat] /\ reserved' \in Nat /\ reserved' = Charge(Keys, budget')
      /\ \A x \in Keys : budget'[x] = IF x = k THEN 0 ELSE budget[x]
  BY <1>1, BudgetHandedBack, Zenon
<1>4. budget[k] \in Nat /\ reserved \in Nat /\ bytes \in Nat /\ MaximumBytes(policy) \in Nat
      /\ bytes + reserved <= MaximumBytes(policy)
  BY <1>1, BuilderFacts, MaximumType, Zenon DEF IInv, TypeOK, WithinBudget
<1>5. ReleasedBuilds'
  <2>1. ASSUME NEW u \in Threads, phase'[u] = "released" PROVE budget'[Top(u)'] = 0
    <3>1. u # t /\ budget[Top(u)] = 0 /\ stack[u] # << >> /\ Top(u)' = Top(u)
      BY <1>1, <1>2, <2>1, Zenon DEF IInv, ReleasedBuilds, UnwindingBuilds, Top
    <3>2. Top(u) \in Keys
      BY <3>1, BuilderFacts, Zenon
    <3> QED BY <1>3, <3>1, <3>2, Zenon
  <2> QED BY <2>1 DEF ReleasedBuilds
<1> HIDE DEF k
<1>6. TypeOK'
  BY <1>1, <1>2, <1>3, Zenon DEF IInv, TypeOK
<1>7. ExactAccounting' /\ WithinBudget'
  <2>1. reserved' <= reserved
    BY <1>1, <1>4, SMTT(20)
  <2>2. bytes + reserved' <= MaximumBytes(policy)
    BY <1>3, <1>4, <2>1, SMTT(20)
  <2> QED BY <1>1, <1>3, <2>2 DEF IInv, ExactAccounting, WithinBudget
<1>8. SingleBuilder'
  BY <1>1, <1>2, SMTT(20) DEF IInv, SingleBuilder
<1>9. BudgetsInFlight'
  BY <1>1, <1>2, <1>3, Zenon DEF IInv, BudgetsInFlight
<1>10. UnwindingBuilds'
  BY <1>1, <1>2, Zenon DEF IInv, UnwindingBuilds
<1> QED
  BY <1>1, <1>5, <1>6, <1>7, <1>8, <1>9, <1>10, Zenon
  DEF IInv, OneLiveView, RetainedAreLive, RegisteredAsMade

\* Publication turns the reservation of a build into a retained or a weak entry.
LEMMA PublishStep ==
  ASSUME IInv, NEW t \in Threads, Publish(t)
  PROVE  IInv'
<1> DEFINE k == Top(t)
<1>1. PICK o \in Objs :
        /\ made[o] = Nobody
        /\ made' = [made EXCEPT ![o] = k]
        /\ weak' = [weak EXCEPT ![k] = o]
        /\ held' = held \cup {o}
  BY Zenon DEF Publish
<1>2. /\ stack[t] # << >> /\ phase[t] = "run"
      /\ size' = [size EXCEPT ![k] = budget[k]]
      /\ reserved' = reserved - budget[k]
      /\ budget' = [budget EXCEPT ![k] = 0]
      /\ inflight' = [inflight EXCEPT ![k] = Nobody]
      /\ stack' = [stack EXCEPT ![t] = Popped(t)]
      /\ UNCHANGED <<policy, want, phase>>
      /\ \/ strong' = Append(strong, k) /\ bytes' = bytes + budget[k]
         \/ strong' = strong /\ bytes' = bytes
  BY Zenon DEF Publish, Building
<1>3. /\ inflight' \in [Keys -> Threads \cup {Nobody}] /\ stack' \in [Threads -> Seq(Keys)]
      /\ \A x \in Keys, u \in Threads : inflight'[x] = u <=> x \in KeysOf(stack'[u])
      /\ \A u \in Threads : NoDuplicates(stack'[u])
      /\ \A x \in Keys : inflight'[x] = IF x = k THEN Nobody ELSE inflight[x]
      /\ \A u \in Threads \ {t} : stack'[u] = stack[u]
  BY <1>2, GiveUpKey, Zenon
<1>4. /\ budget' \in [Keys -> Nat] /\ reserved' \in Nat /\ reserved' = Charge(Keys, budget')
      /\ \A x \in Keys : budget'[x] = IF x = k THEN 0 ELSE budget[x]
  BY <1>2, BudgetHandedBack, Zenon
<1>5. /\ k \in Keys /\ weak[k] = Absent /\ k \notin KeysOf(strong)
      /\ budget[k] \in Nat /\ budget[k] <= reserved
  BY <1>2, BuilderFacts
<1>6. ReleasedBuilds'
  <2>1. ASSUME NEW u \in Threads, phase'[u] = "released" PROVE budget'[Top(u)'] = 0
    <3>1. u # t /\ budget[Top(u)] = 0 /\ stack[u] # << >> /\ Top(u)' = Top(u)
      BY <1>2, <1>3, <2>1, Zenon DEF IInv, ReleasedBuilds, UnwindingBuilds, Top
    <3>2. Top(u) \in Keys
      BY <3>1, BuilderFacts, Zenon
    <3> QED BY <1>4, <3>1, <3>2, Zenon
  <2> QED BY <2>1, Zenon DEF ReleasedBuilds
<1> HIDE DEF k
<1>7. /\ strong \in Seq(Keys) /\ size \in [Keys -> Nat] /\ bytes \in Nat /\ reserved \in Nat
      /\ NoDuplicates(strong) /\ bytes = Charge(KeysOf(strong), size)
      /\ weak \in [Keys -> Objs \cup {Absent, Dead}] /\ made \in [Objs -> Keys \cup {Nobody}]
      /\ MaximumBytes(policy) \in Nat /\ bytes + reserved <= MaximumBytes(policy)
      /\ KeysOf(strong) \in SUBSET Keys
  BY MaximumType, KeysOfType, Zenon DEF IInv, TypeOK, ExactAccounting, WithinBudget
<1>8. size' \in [Keys -> Nat] /\ size'[k] = budget[k]
  BY <1>2, <1>5, <1>7, Zenon
<1>9. Charge(KeysOf(strong), size) = Charge(KeysOf(strong), size')
  <2>1. \A x \in KeysOf(strong) : size[x] = size'[x]
    BY <1>2, <1>5, <1>7, Zenon
  <2> QED BY <2>1, ChargeAgree, Zenon
<1>10. /\ strong' \in Seq(Keys) /\ NoDuplicates(strong')
       /\ KeysOf(strong') \subseteq KeysOf(strong) \cup {k}
       /\ bytes' = Charge(KeysOf(strong'), size')
       /\ bytes' \in Nat /\ bytes' <= bytes + budget[k]
  <2>1. CASE strong' = Append(strong, k) /\ bytes' = bytes + budget[k]
    <3>1. /\ Append(strong, k) \in Seq(Keys) /\ NoDuplicates(Append(strong, k))
          /\ KeysOf(Append(strong, k)) = KeysOf(strong) \cup {k}
      BY <1>5, <1>7, AppendKey, Zenon
    <3>2. Charge(KeysOf(Append(strong, k)), size') = Charge(KeysOf(strong), size') + size'[k]
      BY <1>5, <1>7, <1>8, RetainAccounting, Zenon
    <3> QED BY <1>5, <1>7, <1>8, <1>9, <2>1, <3>1, <3>2, SMTT(20)
  <2>2. CASE strong' = strong /\ bytes' = bytes
    BY <1>5, <1>7, <1>9, <2>2, SMTT(20)
  <2> QED BY <1>2, <2>1, <2>2, Zenon
<1>11. TypeOK'
  <2>1. /\ weak' \in [Keys -> Objs \cup {Absent, Dead}]
        /\ made' \in [Objs -> Keys \cup {Nobody}]
        /\ held' \subseteq Objs
    BY <1>1, <1>5, <1>7, Zenon DEF IInv, TypeOK
  <2>2. /\ policy' \in [max : PolicyMax \cup {0}, retention : {"STRONG", "WEAK"}]
        /\ want' \in [Threads -> Keys \cup {Nobody}]
        /\ phase' \in [Threads -> {"run", "raised", "released"}]
    BY <1>2, Zenon DEF IInv, TypeOK
  <2> QED BY <1>3, <1>4, <1>8, <1>10, <2>1, <2>2, Zenon DEF TypeOK
<1>12. bytes' + reserved' <= MaximumBytes(policy)
  <2>1. reserved' = reserved - budget[k]
    BY <1>2
  <2>2. bytes' \in Nat /\ bytes' <= bytes + budget[k]
    BY <1>10, Zenon
  <2>3. /\ bytes \in Nat /\ reserved \in Nat /\ MaximumBytes(policy) \in Nat
        /\ bytes + reserved <= MaximumBytes(policy)
    BY <1>7
  <2>4. budget[k] \in Nat
    BY <1>5, Zenon
  <2> QED BY <2>1, <2>2, <2>3, <2>4, SMTT(20)
<1>13. ExactAccounting' /\ WithinBudget'
  BY <1>2, <1>4, <1>10, <1>12, Zenon DEF ExactAccounting, WithinBudget
<1>14. SingleBuilder'
  <2>1. ASSUME NEW x \in Keys, inflight'[x] # Nobody PROVE weak'[x] = Absent
    <3>1. x # k /\ inflight[x] # Nobody
      BY <1>3, <2>1, Zenon
    <3>2. weak[x] = Absent
      BY <3>1, Zenon DEF IInv, SingleBuilder
    <3> QED BY <1>1, <1>5, <1>7, <3>1, <3>2, Zenon
  <2> QED BY <1>3, <2>1, Zenon DEF SingleBuilder
<1>15. OneLiveView'
  BY <1>1, <1>5, <1>7, IndexCacheAssumption, Zenon DEF IInv, OneLiveView
<1>16. RegisteredAsMade'
  BY <1>1, <1>5, <1>7, IndexCacheAssumption, Zenon DEF IInv, RegisteredAsMade
<1>17. RetainedAreLive'
  BY <1>1, <1>5, <1>7, <1>10, Zenon DEF IInv, RetainedAreLive
<1>18. BudgetsInFlight'
  BY <1>3, <1>4, Zenon DEF IInv, BudgetsInFlight
<1>19. UnwindingBuilds'
  BY <1>2, <1>3 DEF IInv, UnwindingBuilds
<1> QED
  BY <1>6, <1>11, <1>13, <1>14, <1>15, <1>16, <1>17, <1>18, <1>19, Zenon DEF IInv

(***************************************************************************)
(* configure and clear run with no build under way, so nothing is reserved *)
(* and a cache emptied by eviction is at zero bytes.                       *)
(***************************************************************************)
LEMMA NothingReserved ==
  ASSUME IInv, NoBuild
  PROVE  reserved = 0
<1>1. budget \in [Keys -> Nat] /\ reserved = Charge(Keys, budget)
  BY DEF IInv, TypeOK, ExactAccounting
<1>2. \A k \in Keys : budget[k] = 0
  BY DEF IInv, BudgetsInFlight, NoBuild
<1> QED BY <1>1, <1>2, ChargeZero, Zenon

\* An empty recency list charges nothing.
LEMMA NothingRetained ==
  /\ << >> \in Seq(Keys) /\ NoDuplicates(<< >>) /\ KeysOf(<< >>) = {}
  /\ Charge(KeysOf(<< >>), size) = 0
<1>1. << >> \in Seq(Keys) /\ NoDuplicates(<< >>) /\ KeysOf(<< >>) = {}
  BY SMTT(20) DEF NoDuplicates, KeysOf
<1> QED BY <1>1, ChargeEmpty, Zenon

\* configure evicts down to the new limit, or lets go of every retained view.
LEMMA ConfigureStep ==
  ASSUME IInv, NEW t \in Threads, NEW p \in Policies, Configure(t, p)
  PROVE  IInv'
<1>1. /\ NoBuild /\ policy' = p
      /\ UNCHANGED <<weak, size, made, reserved, inflight, budget, stack, want, phase, held>>
  BY DEF Configure, registry, threads
<1>2. reserved = 0
  BY <1>1, NothingReserved, Zenon
<1>3. TypeOK /\ ExactAccounting /\ size \in [Keys -> Nat]
  BY DEF IInv, TypeOK
<1>4. p \in [max : PolicyMax \cup {0}, retention : {"STRONG", "WEAK"}] /\ MaximumBytes(p) \in Nat
  BY MaximumType, Zenon DEF Policies
<1>5. /\ strong' \in Seq(Keys) /\ NoDuplicates(strong') /\ KeysOf(strong') \subseteq KeysOf(strong)
      /\ bytes' = Charge(KeysOf(strong'), size) /\ bytes' \in Nat /\ bytes' <= MaximumBytes(p)
  <2>1. CASE p.retention = "WEAK"
    <3>1. strong' = << >> /\ bytes' = 0
      BY <2>1, Zenon DEF Configure
    <3> QED BY <1>4, <3>1, NothingRetained
  <2>2. CASE p.retention # "WEAK"
    <3>1. PICK n \in 0 .. Len(strong) :
            EvictUntil(p, 0, n) /\ strong' = Rest(n) /\ bytes' = BytesAfter(n)
      BY <2>2, Zenon DEF Configure
    <3>2. /\ Rest(n) \in Seq(Keys) /\ NoDuplicates(Rest(n))
          /\ KeysOf(Rest(n)) \subseteq KeysOf(strong)
          /\ BytesAfter(n) = Charge(KeysOf(Rest(n)), size)
          /\ BytesAfter(n) \in Nat /\ (n = Len(strong) => BytesAfter(n) = 0)
      BY <1>3, EvictionAccounting, Zenon
    <3>3. n = Len(strong) \/ ~(BytesAfter(n) + reserved + 0 > MaximumBytes(p))
      BY <3>1, Zenon DEF EvictUntil
    <3>4. BytesAfter(n) <= MaximumBytes(p)
      BY <1>2, <1>4, <3>2, <3>3, SMTT(20)
    <3> QED BY <3>1, <3>2, <3>4, Zenon
  <2> QED BY <2>1, <2>2, Zenon
<1>6. TypeOK'
  BY <1>1, <1>3, <1>4, <1>5, Zenon DEF TypeOK
<1>7. ExactAccounting' /\ WithinBudget'
  BY <1>1, <1>2, <1>3, <1>5, SMTT(20) DEF ExactAccounting, WithinBudget
<1>8. RetainedAreLive'
  BY <1>1, <1>5, Zenon DEF IInv, RetainedAreLive
<1> QED
  BY <1>1, <1>6, <1>7, <1>8, Zenon
  DEF IInv, SingleBuilder, OneLiveView, RegisteredAsMade, BudgetsInFlight, UnwindingBuilds,
      ReleasedBuilds, Top

\* clear lets go of every retained view and of its bytes.
LEMMA ClearStep ==
  ASSUME IInv, NEW t \in Threads, Clear(t)
  PROVE  IInv'
<1>1. /\ NoBuild /\ strong' = << >> /\ bytes' = 0
      /\ UNCHANGED <<policy, weak, size, made, reserved, inflight, budget, stack, want, phase, held>>
  BY Zenon DEF Clear, registry, threads
<1>2. reserved = 0 /\ MaximumBytes(policy) \in Nat
  BY <1>1, NothingReserved, MaximumType, Zenon DEF IInv, TypeOK
<1>3. TypeOK'
  BY <1>1 DEF IInv, TypeOK
<1>4. ExactAccounting' /\ WithinBudget'
  BY <1>1, <1>2, NothingRetained DEF IInv, ExactAccounting, WithinBudget
<1>5. RetainedAreLive'
  BY <1>1, NothingRetained, Zenon DEF RetainedAreLive
<1> QED
  BY <1>1, <1>3, <1>4, <1>5, Zenon
  DEF IInv, SingleBuilder, OneLiveView, RegisteredAsMade, BudgetsInFlight, UnwindingBuilds,
      ReleasedBuilds, Top

\* report only removes entries whose view is dead.
LEMMA ReportStep ==
  ASSUME IInv, NEW t \in Threads, Report(t)
  PROVE  IInv'
<1>1. /\ DiscardDeadWeak
      /\ UNCHANGED <<policy, strong, bytes, made, reserved, inflight, budget, stack, want, phase, held>>
  BY Zenon DEF Report, threads
<1>2. /\ weak' \in [Keys -> Objs \cup {Absent, Dead}] /\ size' \in [Keys -> Nat]
      /\ \A k \in Keys : weak[k] # Dead => weak'[k] = weak[k] /\ size'[k] = size[k]
      /\ \A k \in Keys : weak[k] = Dead => weak'[k] = Absent
      /\ \A k \in KeysOf(strong) : size'[k] = size[k] /\ weak'[k] \in Objs
  BY <1>1, DiscardKeepsLive, Zenon
<1>3. Charge(KeysOf(strong), size') = Charge(KeysOf(strong), size)
  BY <1>2, ChargeAgree, Zenon
<1>4. TypeOK'
  BY <1>1, <1>2, Zenon DEF IInv, TypeOK
<1>5. ExactAccounting' /\ WithinBudget'
  BY <1>1, <1>3, Zenon DEF IInv, ExactAccounting, WithinBudget
<1>6. SingleBuilder'
  BY <1>1, <1>2, IndexCacheAssumption, Zenon DEF IInv, SingleBuilder, TypeOK
<1>7. OneLiveView'
  <2>1. ASSUME NEW o \in Objs, made[o] # Nobody PROVE weak'[made[o]] = o
    <3>1. made[o] \in Keys /\ weak[made[o]] = o
      BY <2>1, Zenon DEF IInv, OneLiveView, TypeOK
    <3>2. weak[made[o]] # Dead
      BY <3>1, IndexCacheAssumption, Zenon
    <3> QED BY <1>2, <3>1, <3>2, Zenon
  <2> QED BY <1>1, <2>1, Zenon DEF OneLiveView
<1>8. RegisteredAsMade' /\ RetainedAreLive'
  BY <1>1, <1>2, IndexCacheAssumption DEF IInv, RegisteredAsMade, RetainedAreLive
<1> QED
  BY <1>1, <1>4, <1>5, <1>6, <1>7, <1>8, Zenon
  DEF IInv, BudgetsInFlight, UnwindingBuilds, ReleasedBuilds, Top

\* A caller dropping its reference touches nothing the cache counts.
LEMMA DropStep ==
  ASSUME IInv, NEW o \in Objs, Drop(o)
  PROVE  IInv'
BY Zenon DEF Drop, registry, threads, IInv, TypeOK, ExactAccounting, WithinBudget, SingleBuilder,
       OneLiveView, RetainedAreLive, RegisteredAsMade, BudgetsInFlight, UnwindingBuilds,
       ReleasedBuilds, Top

\* Only a view that is not retained is collected, so no counted entry dies.
LEMMA CollectStep ==
  ASSUME IInv, NEW o \in Objs, Collect(o)
  PROVE  IInv'
<1>1. /\ made[o] \in Keys /\ weak[made[o]] = o /\ made[o] \notin KeysOf(strong)
      /\ weak' = [k \in Keys |-> IF weak[k] = o THEN Dead ELSE weak[k]]
      /\ made' = [made EXCEPT ![o] = Nobody]
      /\ UNCHANGED <<policy, size, strong, bytes, reserved, inflight, budget, stack, want, phase, held>>
  BY DEF Collect, threads, IInv, TypeOK, OneLiveView
<1>2. \A k \in Keys : weak[k] = o => k = made[o]
  BY Zenon DEF IInv, RegisteredAsMade
<1>3. TypeOK'
  BY <1>1 DEF IInv, TypeOK
<1>4. SingleBuilder'
  <2>1. ASSUME NEW k \in Keys, inflight[k] # Nobody PROVE weak'[k] = Absent
    <3>1. weak[k] = Absent /\ Absent # o
      BY <2>1, IndexCacheAssumption, Zenon DEF IInv, SingleBuilder
    <3> QED BY <1>1, <3>1
  <2>2. /\ \A k \in Keys, t \in Threads : inflight[k] = t <=> k \in KeysOf(stack[t])
        /\ \A t \in Threads : NoDuplicates(stack[t])
    BY Zenon DEF IInv, SingleBuilder
  <2> QED BY <1>1, <2>1, <2>2, Zenon DEF SingleBuilder
<1>5. OneLiveView'
  BY <1>1, IndexCacheAssumption, Zenon DEF IInv, TypeOK, OneLiveView
<1>6. RegisteredAsMade'
  BY <1>1, IndexCacheAssumption, Zenon DEF IInv, TypeOK, RegisteredAsMade
<1>7. RetainedAreLive'
  BY <1>1, <1>2, KeysOfType, Zenon DEF IInv, TypeOK, RetainedAreLive
<1> QED
  BY <1>1, <1>3, <1>4, <1>5, <1>6, <1>7, Zenon
  DEF IInv, ExactAccounting, WithinBudget, BudgetsInFlight, UnwindingBuilds, ReleasedBuilds, Top

-----------------------------------------------------------------------------
(***************************************************************************)
(* Every step of the cache preserves the inductive invariant.              *)
(***************************************************************************)
LEMMA NextInvariant == IInv /\ [Next]_vars => IInv'
<1> SUFFICES ASSUME IInv, [Next]_vars PROVE IInv'
  OBVIOUS
<1>1. ASSUME NEW t \in Threads, NEW k \in Keys, Request(t, k) PROVE IInv'
  BY <1>1, RequestStep, Zenon
<1>2. ASSUME NEW t \in Threads, Answer(t) \/ CancelWait(t) PROVE IInv'
  BY <1>2, HitStep, MissStep, NotAnsweredStep, Zenon DEF Answer
<1>3. ASSUME NEW t \in Threads, NEW a \in Amounts, Add(t, a) PROVE IInv'
  BY <1>3, ReserveStep, IndexCacheAssumption, Zenon DEF Add
<1>4. ASSUME NEW t \in Threads, ChargeObject(t) PROVE IInv'
  BY <1>4, ReserveStep, IndexCacheAssumption, Zenon DEF ChargeObject
<1>5. ASSUME NEW t \in Threads, EndBuild(t) PROVE IInv'
  BY <1>5, PublishStep, BuildRaisesStep, Zenon DEF EndBuild
<1>6. ASSUME NEW t \in Threads, PublishRejected(t) PROVE IInv'
  BY <1>6, PublishRejectedStep, Zenon
<1>7. ASSUME NEW t \in Threads, Unwind(t) PROVE IInv'
  BY <1>7, ReleaseBudgetStep, FailBuildStep, Zenon DEF Unwind
<1>8. ASSUME NEW t \in Threads, NEW p \in Policies, Configure(t, p) PROVE IInv'
  BY <1>8, ConfigureStep, Zenon
<1>9. ASSUME NEW t \in Threads, Clear(t) \/ Report(t) PROVE IInv'
  BY <1>9, ClearStep, ReportStep, Zenon
<1>10. ASSUME NEW o \in Objs, Drop(o) \/ Collect(o) PROVE IInv'
  BY <1>10, DropStep, CollectStep
<1>11. CASE UNCHANGED vars
  BY <1>11, Zenon
  DEF vars, IInv, TypeOK, ExactAccounting, WithinBudget, SingleBuilder, OneLiveView,
      RetainedAreLive, RegisteredAsMade, BudgetsInFlight, UnwindingBuilds, ReleasedBuilds, Top
<1> QED
  BY <1>1, <1>2, <1>3, <1>4, <1>5, <1>6, <1>7, <1>8, <1>9, <1>10, <1>11, Zenon DEF Next

\* The inductive invariant holds in every reachable state of the cache.
THEOREM Invariance == Spec => []IInv
BY InitInvariant, NextInvariant, PTL DEF Spec

(***************************************************************************)
(* The variables keep their types; in particular the byte counters never   *)
(* become negative.                                                        *)
(***************************************************************************)
THEOREM TypeCorrect == Spec => []TypeOK
<1>1. IInv => TypeOK
  BY DEF IInv
<1> QED BY <1>1, Invariance, PTL

(***************************************************************************)
(* For every limit, policy and schedule of builds, hits, evictions and     *)
(* failures the retained and reserved bytes are within the limit in force. *)
(***************************************************************************)
THEOREM BytesWithinBudget == Spec => []WithinBudget
<1>1. IInv => WithinBudget
  BY DEF IInv
<1> QED BY <1>1, Invariance, PTL

(***************************************************************************)
(* The byte counters are exactly the sums they stand for.                  *)
(***************************************************************************)
THEOREM AccountingIsExact == Spec => []ExactAccounting
<1>1. IInv => ExactAccounting
  BY Zenon DEF IInv
<1> QED BY <1>1, Invariance, PTL

(***************************************************************************)
(* No key is ever built by two threads, or twice by one.                   *)
(***************************************************************************)
THEOREM BuilderIsUnique == Spec => []SingleBuilder
<1>1. IInv => SingleBuilder
  BY DEF IInv
<1> QED BY <1>1, Invariance, PTL

(***************************************************************************)
(* A key never has two live views: equal requests get the same identity    *)
(* for as long as anybody holds it.                                        *)
(***************************************************************************)
THEOREM LiveViewIsUnique == Spec => []OneLiveView
<1>1. IInv => OneLiveView
  BY DEF IInv
<1> QED BY <1>1, Invariance, PTL

(***************************************************************************)
(* No step stops retaining a view and keeps an older one.                  *)
(***************************************************************************)
THEOREM EvictionByRecency == Spec => LeastRecentFirst
<1> DEFINE Oldest == \A i, j \in 1 .. Len(strong) :
                        (i < j /\ strong[j] \notin KeysOf(strong'))
                          => strong[i] \notin KeysOf(strong')
<1>1. ASSUME IInv, [Next]_vars PROVE [Oldest]_vars
  <2>1. strong \in Seq(Keys) /\ NoDuplicates(strong) /\ Len(strong) \in Nat
    BY <1>1, LenProperties, Zenon DEF IInv, TypeOK, ExactAccounting
  <2>2. ASSUME KeysOf(strong) \subseteq KeysOf(strong') PROVE Oldest
    <3>1. \A j \in 1 .. Len(strong) : strong[j] \in KeysOf(strong)
      BY DEF KeysOf
    <3> QED BY <2>2, <3>1, Zenon
  <2>3. ASSUME KeysOf(strong') = {} PROVE Oldest
    BY <2>3, Zenon
  <2>4. ASSUME NEW n \in 0 .. Len(strong), NEW S, KeysOf(strong') = KeysOf(Rest(n)) \cup S,
               S \cap KeysOf(strong) = {}
        PROVE  Oldest
    <3>1. /\ Rest(n) \in Seq(Keys)
          /\ Len(Rest(n)) = Len(strong) - n
          /\ \A i \in 1 .. (Len(strong) - n) : Rest(n)[i] = strong[n + i]
      BY <2>1 DEF Rest, PopOldest
    <3>2. ASSUME NEW j \in 1 .. Len(strong), j > n PROVE strong[j] \in KeysOf(Rest(n))
      <4>1. j - n \in 1 .. Len(Rest(n)) /\ Rest(n)[j - n] = strong[j]
        BY <2>1, <3>1, <3>2, SMTT(20)
      <4> QED BY <4>1, Zenon DEF KeysOf
    <3>3. ASSUME NEW i \in 1 .. Len(strong), i <= n PROVE strong[i] \notin KeysOf(Rest(n))
      <4>1. \A m \in 1 .. Len(Rest(n)) : n + m \in 1 .. Len(strong) /\ n + m # i
        BY <2>1, <3>1, <3>3
      <4>2. \A m \in 1 .. Len(Rest(n)) : Rest(n)[m] # strong[i]
        BY <2>1, <3>1, <4>1, Zenon DEF NoDuplicates
      <4> QED BY <4>2, Zenon DEF KeysOf
    <3>4. \A i \in 1 .. Len(strong) : strong[i] \notin S
      BY <2>4, Zenon DEF KeysOf
    <3> QED BY <2>1, <2>4, <3>2, <3>3, <3>4, SMTT(20)
  <2>5. ASSUME NEW k \in Keys, Promote(k) PROVE Oldest
    <3>1. CASE UNCHANGED strong
      BY <2>2, <3>1, Zenon
    <3>2. CASE \E i \in 1 .. Len(strong) : strong' = MoveToEnd(strong, i)
      BY <2>1, <2>2, <3>2, MoveKey, SMTT(20)
    <3>3. ASSUME k \notin KeysOf(strong), NEW n \in 0 .. Len(strong),
                 strong' = Append(Rest(n), k) \/ strong' = Rest(n)
          PROVE  Oldest
      <4>1. Rest(n) \in Seq(Keys) /\ NoDuplicates(Rest(n))
        BY <1>1, EvictionAccounting, Zenon DEF IInv
      <4>2. KeysOf(Append(Rest(n), k)) = KeysOf(Rest(n)) \cup {k}
        BY <4>1, AppendKey
      <4>3. CASE strong' = Append(Rest(n), k)
        <5>1. KeysOf(strong') = KeysOf(Rest(n)) \cup {k} /\ {k} \cap KeysOf(strong) = {}
          BY <3>3, <4>2, <4>3
        <5> QED BY <2>4, <5>1, Zenon
      <4>4. CASE strong' = Rest(n)
        <5>1. KeysOf(strong') = KeysOf(Rest(n)) \cup {} /\ {} \cap KeysOf(strong) = {}
          BY <4>4, Zenon
        <5> QED BY <2>4, <5>1, Zenon
      <4> QED BY <3>3, <4>3, <4>4, Zenon
    <3>4. policy.retention \in {"STRONG", "WEAK"}
      BY <1>1 DEF IInv, TypeOK
    <3> QED BY <2>5, <3>1, <3>2, <3>3, <3>4, Zenon DEF Promote
  <2>6. ASSUME NEW n \in 0 .. Len(strong), strong' = Rest(n) PROVE Oldest
    <3>1. KeysOf(strong') = KeysOf(Rest(n)) \cup {} /\ {} \cap KeysOf(strong) = {}
      BY <2>6, Zenon
    <3> QED BY <2>4, <3>1, Zenon
  <2>7. ASSUME NEW t \in Threads, Hit(t) PROVE Oldest
    BY <1>1, <2>5, <2>7, Zenon DEF Hit, IInv, TypeOK
  <2>8. ASSUME NEW t \in Threads, Publish(t) PROVE Oldest
    <3>1. Top(t) \in Keys
      BY <1>1, <2>8, BuilderFacts, Zenon DEF Publish, Building
    <3>2. KeysOf(Append(strong, Top(t))) = KeysOf(strong) \cup {Top(t)}
      BY <2>1, <3>1, AppendKey, Zenon
    <3> QED BY <2>2, <2>8, <3>2, Zenon DEF Publish
  <2>9. ASSUME strong' = << >> PROVE Oldest
    BY <2>3, <2>9, NothingRetained, Zenon
  <2>10. ASSUME UNCHANGED strong PROVE Oldest
    BY <2>2, <2>10, Zenon
  <2> HIDE DEF Oldest
  <2>11. ASSUME NEW t \in Threads, NEW a, Reserve(t, a) PROVE Oldest
    BY <2>6, <2>11, Zenon DEF Reserve
  <2>12. ASSUME NEW t \in Threads, NEW p, Configure(t, p) PROVE Oldest
    BY <2>6, <2>9, <2>12, Zenon DEF Configure
  <2>13. CASE Next
    BY <2>7, <2>8, <2>9, <2>10, <2>11, <2>12, <2>13, Zenon
    DEF Next, Request, Answer, Miss, Reentrant, CancelWait, Add, ChargeObject,
        EndBuild, BuildRaises, PublishRejected, Unwind, ReleaseBudget, FailBuild,
        Clear, Report, Drop, Collect
  <2>14. CASE UNCHANGED vars
    BY <2>14
  <2> QED BY <1>1, <2>13, <2>14, Zenon
<1> QED BY <1>1, Invariance, PTL DEF Spec, LeastRecentFirst
=============================================================================
