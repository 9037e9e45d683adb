------------------------------ MODULE IndexCache ------------------------------
(***************************************************************************)
(* The structural-view cache that every ontology view owns                 *)
(* (pyowl_core/index/cache.py).  Threads ask for a view by key; one of     *)
(* them builds it, charging bytes to the cache before every growth step,   *)
(* the others wait for it.  A finished view is registered weakly under its *)
(* key and, under the STRONG policy, retained in least-recently-used order *)
(* while the retained and the reserved bytes fit the limit.                *)
(*                                                                         *)
(* Every "with self._condition" block of the code is one action.  What     *)
(* runs outside the lock (the builder) is the sequence of its calls back   *)
(* into the cache.  The report counters (_hits, _misses, _builds,          *)
(* _evictions, _failures, _waits) are written and never read by the cache; *)
(* they are left out.                                                      *)
(***************************************************************************)
EXTENDS Integers, Sequences, FiniteSets

CONSTANTS
  Threads,      \* callers of ontology.view()
  Keys,         \* (factory, schema name, schema version, options)
  Objs,         \* identities of view objects
  Nobody,       \* "no thread", "no key"
  Absent,       \* key without a registry entry
  Dead,         \* registry entry whose weak reference is cleared
  Limit,        \* min(limits.max_index_bytes, limits.max_memory_bytes)
  PolicyMax,    \* values of IndexCachePolicy.max_bytes; 0 stands for None
  Amounts,      \* byte amounts a builder charges in one budget.add
  ObjectBytes,  \* the charge of a view that charged nothing itself (256)
  Deps          \* Deps[k]: keys whose views the builder of k may request

ASSUME IndexCacheAssumption ==
  /\ IsFiniteSet(Keys)
  /\ Nobody \notin Threads \cup Keys
  /\ Absent \notin Objs /\ Dead \notin Objs /\ Absent # Dead
  /\ Limit \in Nat \ {0}
  /\ PolicyMax \subseteq Nat
  /\ Amounts \subseteq Nat \ {0}
  /\ ObjectBytes \in Nat \ {0}
  /\ Deps \in [Keys -> SUBSET Keys]

VARIABLES
  policy,    \* _policy
  weak,      \* _entries: the weakly referenced view of each key
  size,      \* _entries: the bytes of each entry
  strong,    \* _strong: retained keys, least recently used first
  bytes,     \* _bytes
  reserved,  \* _reserved
  inflight,  \* _inflight: the building thread of each key
  budget,    \* IndexBuildBudget._bytes of the build of each key
  stack,     \* the keys each thread is building, innermost last
  want,      \* the key each thread is inside get_or_build for
  phase,     \* how the innermost build of each thread is going
  made,      \* the key each live view object was built for
  held       \* view objects some caller references

vars == <<policy, weak, size, strong, bytes, reserved, inflight, budget,
          stack, want, phase, made, held>>

registry == <<weak, size, made>>
threads  == <<inflight, budget, stack, want, phase>>

Policies == [max : PolicyMax, retention : {"STRONG", "WEAK"}]

(***************************************************************************)
(* Bytes charged for the keys of S: the sum of f[k] over S, as the number  *)
(* of (key, byte) pairs.                                                   *)
(***************************************************************************)
Charge(S, f) == Cardinality(UNION {{k} \X (1 .. f[k]) : k \in S})

KeysOf(s) == {s[i] : i \in 1 .. Len(s)}

NoDuplicates(s) == \A i, j \in 1 .. Len(s) : s[i] = s[j] => i = j

\* OrderedDict.move_to_end for the key at position i.
MoveToEnd(s, i) ==
  [j \in 1 .. Len(s) |->
     IF j = Len(s) THEN s[i] ELSE IF j < i THEN s[j] ELSE s[j + 1]]

Top(t) == stack[t][Len(stack[t])]

Popped(t) == SubSeq(stack[t], 1, Len(stack[t]) - 1)

(***************************************************************************)
(* maximum_bytes: the policy may only tighten the limit.                   *)
(***************************************************************************)
MaximumBytes(p) == IF p.max = 0 \/ p.max > Limit THEN Limit ELSE p.max

(***************************************************************************)
(* _evict_until(incoming): pop the n oldest retained views, one at a time, *)
(* until the incoming bytes fit or nothing is left.                        *)
(***************************************************************************)
PopOldest(n) == <<SubSeq(strong, 1, n), SubSeq(strong, n + 1, Len(strong))>>

Evicted(n) == KeysOf(PopOldest(n)[1])

Rest(n) == PopOldest(n)[2]

BytesAfter(n) == bytes - Charge(Evicted(n), size)

EvictUntil(p, incoming, n) ==
  LET Over(m) == BytesAfter(m) + reserved + incoming > MaximumBytes(p)
  IN  /\ n \in 0 .. Len(strong)
      /\ n = Len(strong) \/ ~Over(n)
      /\ \A m \in 0 .. (n - 1) : Over(m)

(***************************************************************************)
(* _discard_dead_weak: a retained view is strongly referenced, so a dead   *)
(* entry is never retained and dropping it changes no byte count.          *)
(***************************************************************************)
DiscardDeadWeak ==
  /\ weak' = [k \in Keys |-> IF weak[k] = Dead THEN Absent ELSE weak[k]]
  /\ size' = [k \in Keys |-> IF weak[k] = Dead THEN 0 ELSE size[k]]

-----------------------------------------------------------------------------
Init ==
  /\ policy = [max |-> 0, retention |-> "STRONG"]
  /\ weak = [k \in Keys |-> Absent]
  /\ size = [k \in Keys |-> 0]
  /\ strong = << >>
  /\ bytes = 0
  /\ reserved = 0
  /\ inflight = [k \in Keys |-> Nobody]
  /\ budget = [k \in Keys |-> 0]
  /\ stack = [t \in Threads |-> << >>]
  /\ want = [t \in Threads |-> Nobody]
  /\ phase = [t \in Threads |-> "run"]
  /\ made = [o \in Objs |-> Nobody]
  /\ held = {}

Idle(t) == stack[t] = << >> /\ want[t] = Nobody

Building(t) == stack[t] # << >> /\ want[t] = Nobody /\ phase[t] = "run"

(***************************************************************************)
(* A caller, or the builder of an outer view, enters get_or_build.         *)
(***************************************************************************)
Request(t, k) ==
  /\ Idle(t) \/ (Building(t) /\ k \in Deps[Top(t)])
  /\ want' = [want EXCEPT ![t] = k]
  /\ UNCHANGED <<policy, registry, strong, bytes, reserved, inflight, budget,
                 stack, phase, held>>

\* Mutant: a hit retains the view again without checking that it fits.
PromoteUnchecked(k) ==
  IF policy.retention = "STRONG" /\ k \notin KeysOf(strong)
    THEN strong' = Append(strong, k) /\ bytes' = bytes + size[k]
    ELSE UNCHANGED <<strong, bytes>>

(***************************************************************************)
(* get_or_build, live entry: refresh its recency or, if it had been        *)
(* evicted and fits again, retain it anew; return it.                      *)
(***************************************************************************)
Promote(k) ==
  CASE policy.retention = "WEAK" -> UNCHANGED <<strong, bytes>>
    [] policy.retention = "STRONG" /\ k \in KeysOf(strong) ->
         /\ \E i \in 1 .. Len(strong) :
              strong[i] = k /\ strong' = MoveToEnd(strong, i)
         /\ UNCHANGED bytes
    [] policy.retention = "STRONG" /\ k \notin KeysOf(strong)
         /\ size[k] > MaximumBytes(policy) -> UNCHANGED <<strong, bytes>>
    [] OTHER ->
         \E n \in 0 .. Len(strong) :
           /\ EvictUntil(policy, size[k], n)
           /\ LET fits == BytesAfter(n) + reserved + size[k] <= MaximumBytes(policy)
              IN  /\ strong' = IF fits THEN Append(Rest(n), k) ELSE Rest(n)
                  /\ bytes' = BytesAfter(n) + (IF fits THEN size[k] ELSE 0)

Hit(t) ==
  LET k == want[t]
  IN  /\ k # Nobody
      /\ weak[k] \in Objs
      /\ Promote(k)
      /\ held' = held \cup {weak[k]}
      /\ want' = [want EXCEPT ![t] = Nobody]
      /\ UNCHANGED <<policy, registry, reserved, inflight, budget, stack, phase>>

(***************************************************************************)
(* get_or_build, no live entry and no builder: become the builder.         *)
(***************************************************************************)
Miss(t) ==
  LET k == want[t]
  IN  /\ k # Nobody
      /\ weak[k] \notin Objs
      /\ inflight[k] = Nobody
      /\ weak' = [weak EXCEPT ![k] = Absent]
      /\ size' = [size EXCEPT ![k] = 0]
      /\ inflight' = [inflight EXCEPT ![k] = t]
      /\ stack' = [stack EXCEPT ![t] = Append(@, k)]
      /\ want' = [want EXCEPT ![t] = Nobody]
      /\ UNCHANGED <<policy, strong, bytes, reserved, budget, phase, made, held>>

(***************************************************************************)
(* get_or_build, the caller itself is building the key: ReentrancyError.   *)
(***************************************************************************)
Reentrant(t) ==
  LET k == want[t]
  IN  /\ k # Nobody
      /\ weak[k] \notin Objs
      /\ inflight[k] = t
      /\ want' = [want EXCEPT ![t] = Nobody]
      /\ UNCHANGED <<policy, registry, strong, bytes, reserved, inflight, budget,
                     stack, phase, held>>

(***************************************************************************)
(* get_or_build, another thread is building the key: the waiter's token    *)
(* may be found cancelled at a poll; otherwise it waits for another look.  *)
(***************************************************************************)
CancelWait(t) ==
  LET k == want[t]
  IN  /\ k # Nobody
      /\ weak[k] \notin Objs
      /\ inflight[k] \notin {Nobody, t}
      /\ want' = [want EXCEPT ![t] = Nobody]
      /\ UNCHANGED <<policy, registry, strong, bytes, reserved, inflight, budget,
                     stack, phase, held>>

(***************************************************************************)
(* budget.add -> _reserve: drop dead entries, evict if the amount does not *)
(* fit, then reserve it or raise ResourceLimitError into the builder.  The *)
(* evictions of a refused reservation stay.                                *)
(***************************************************************************)
Reserve(t, amount) ==
  \E n \in 0 .. Len(strong) :
    LET required == BytesAfter(n) + reserved + amount
        granted  == required <= MaximumBytes(policy)
        k == Top(t)
    IN  /\ EvictUntil(policy, amount, n)
        /\ DiscardDeadWeak
        /\ strong' = Rest(n)
        /\ bytes' = BytesAfter(n)
        /\ reserved' = IF granted THEN reserved + amount ELSE reserved
        /\ budget' = IF granted THEN [budget EXCEPT ![k] = @ + amount] ELSE budget
        /\ phase' = IF granted THEN phase ELSE [phase EXCEPT ![t] = "raised"]

Add(t, amount) ==
  /\ Building(t)
  /\ Reserve(t, amount)
  /\ UNCHANGED <<policy, inflight, stack, want, made, held>>

(***************************************************************************)
(* The builder returned without charging anything: the cache charges the   *)
(* object itself, under the same rules.                                    *)
(***************************************************************************)
ChargeObject(t) ==
  /\ Building(t)
  /\ budget[Top(t)] = 0
  /\ Reserve(t, ObjectBytes)
  /\ UNCHANGED <<policy, inflight, stack, want, made, held>>

(***************************************************************************)
(* The builder raises: a row limit, a cancelled token, an unusable factory *)
(* or an error of its own.                                                 *)
(***************************************************************************)
BuildRaises(t) ==
  /\ Building(t)
  /\ phase' = [phase EXCEPT ![t] = "raised"]
  /\ UNCHANGED <<policy, registry, strong, bytes, reserved, inflight, budget,
                 stack, want, held>>

(***************************************************************************)
(* A failed build gives its reservation back and then, in a lock section   *)
(* of its own, gives up the key.                                           *)
(***************************************************************************)
ReleaseBudget(t) ==
  /\ phase[t] = "raised"
  /\ reserved' = reserved - budget[Top(t)]
  /\ budget' = [budget EXCEPT ![Top(t)] = 0]
  /\ phase' = [phase EXCEPT ![t] = "released"]
  /\ UNCHANGED <<policy, registry, strong, bytes, inflight, stack, want, held>>

\* Mutant: a failed build keeps the key in flight.
FailBuildOwned(t) ==
  /\ phase[t] = "released"
  /\ stack' = [stack EXCEPT ![t] = Popped(t)]
  /\ phase' = [phase EXCEPT ![t] = "run"]
  /\ UNCHANGED <<policy, registry, strong, bytes, reserved, inflight, budget, want, held>>

FailBuild(t) ==
  /\ phase[t] = "released"
  /\ inflight' = [inflight EXCEPT ![Top(t)] = Nobody]
  /\ stack' = [stack EXCEPT ![t] = Popped(t)]
  /\ phase' = [phase EXCEPT ![t] = "run"]
  /\ UNCHANGED <<policy, registry, strong, bytes, reserved, budget, want, held>>

(***************************************************************************)
(* A finished build: its reservation becomes the bytes of the entry.  A    *)
(* key in flight has no entry, so it is new to the retained ones.          *)
(***************************************************************************)
Publish(t) ==
  LET k == Top(t)
      retain == policy.retention = "STRONG"
  IN  /\ Building(t)
      /\ budget[k] > 0
      /\ \E o \in Objs :
           /\ made[o] = Nobody
           /\ made' = [made EXCEPT ![o] = k]
           /\ weak' = [weak EXCEPT ![k] = o]
           /\ held' = held \cup {o}
      /\ size' = [size EXCEPT ![k] = budget[k]]
      /\ strong' = IF retain THEN Append(strong, k) ELSE strong
      /\ bytes' = IF retain THEN bytes + budget[k] ELSE bytes
      /\ reserved' = reserved - budget[k]
      /\ budget' = [budget EXCEPT ![k] = 0]
      /\ inflight' = [inflight EXCEPT ![k] = Nobody]
      /\ stack' = [stack EXCEPT ![t] = Popped(t)]
      /\ UNCHANGED <<policy, want, phase>>

(***************************************************************************)
(* The view type does not support weak references: TypeError, with the     *)
(* reservation and the key given up together.                              *)
(***************************************************************************)
PublishRejected(t) ==
  LET k == Top(t)
  IN  /\ Building(t)
      /\ budget[k] > 0
      /\ reserved' = reserved - budget[k]
      /\ budget' = [budget EXCEPT ![k] = 0]
      /\ inflight' = [inflight EXCEPT ![k] = Nobody]
      /\ stack' = [stack EXCEPT ![t] = Popped(t)]
      /\ UNCHANGED <<policy, registry, strong, bytes, want, phase, held>>

-----------------------------------------------------------------------------
NoBuild == \A k \in Keys : inflight[k] = Nobody

(***************************************************************************)
(* configure and clear raise RuntimeError while anything is being built.   *)
(***************************************************************************)
Configure(t, p) ==
  /\ Idle(t)
  /\ NoBuild
  /\ policy' = p
  /\ IF p.retention = "WEAK"
       THEN strong' = << >> /\ bytes' = 0
       ELSE \E n \in 0 .. Len(strong) :
              /\ EvictUntil(p, 0, n)
              /\ strong' = Rest(n)
              /\ bytes' = BytesAfter(n)
  /\ UNCHANGED <<registry, reserved, threads, held>>

\* Mutant: clear forgets the weak identities as well.
ClearRegistry(t) ==
  /\ Idle(t)
  /\ NoBuild
  /\ strong' = << >>
  /\ bytes' = 0
  /\ weak' = [k \in Keys |-> Absent]
  /\ size' = [k \in Keys |-> 0]
  /\ UNCHANGED <<policy, reserved, threads, made, held>>

\* Mutant: clear drops the retained views and keeps their bytes.
ClearKeepsBytes(t) ==
  /\ Idle(t)
  /\ NoBuild
  /\ strong' = << >>
  /\ UNCHANGED <<policy, registry, bytes, reserved, threads, held>>

Clear(t) ==
  /\ Idle(t)
  /\ NoBuild
  /\ strong' = << >>
  /\ bytes' = 0
  /\ UNCHANGED <<policy, registry, reserved, threads, held>>

Report(t) ==
  /\ Idle(t)
  /\ DiscardDeadWeak
  /\ UNCHANGED <<policy, strong, bytes, reserved, threads, made, held>>

(***************************************************************************)
(* Python: callers drop their references; an object that nobody and no     *)
(* retained key references is collected and its weak reference cleared.    *)
(***************************************************************************)
Drop(o) ==
  /\ o \in held
  /\ held' = held \ {o}
  /\ UNCHANGED <<policy, registry, strong, bytes, reserved, threads>>

Collect(o) ==
  /\ made[o] # Nobody
  /\ o \notin held
  /\ made[o] \notin KeysOf(strong)
  /\ weak' = [k \in Keys |-> IF weak[k] = o THEN Dead ELSE weak[k]]
  /\ made' = [made EXCEPT ![o] = Nobody]
  /\ UNCHANGED <<policy, size, strong, bytes, reserved, threads, held>>

-----------------------------------------------------------------------------
Answer(t) == Hit(t) \/ Miss(t) \/ Reentrant(t)

EndBuild(t) == Publish(t) \/ BuildRaises(t)

Unwind(t) == ReleaseBudget(t) \/ FailBuild(t)

Builds(t, k) == stack[t] # << >> /\ Top(t) = k

Next ==
  \/ \E t \in Threads :
       \/ \E k \in Keys : Request(t, k)
       \/ Answer(t)
       \/ CancelWait(t)
       \/ \E a \in Amounts : Add(t, a)
       \/ ChargeObject(t)
       \/ EndBuild(t)
       \/ PublishRejected(t)
       \/ Unwind(t)
       \/ \E p \in Policies : Configure(t, p)
       \/ Clear(t)
       \/ Report(t)
  \/ \E o \in Objs : Drop(o) \/ Collect(o)

Spec == Init /\ [][Next]_vars

(***************************************************************************)
(* Every builder terminates, an unwinding build is not suspended for ever, *)
(* and a waiter polls every 50 ms: it does not miss every moment at which  *)
(* its key is free or published.                                           *)
(***************************************************************************)
Fairness ==
  \A t \in Threads :
    /\ SF_vars(Answer(t))
    /\ \A k \in Keys : SF_vars(Builds(t, k) /\ EndBuild(t))
    /\ WF_vars(Unwind(t))

FairSpec == Spec /\ Fairness

-----------------------------------------------------------------------------
TypeOK ==
  /\ policy \in [max : PolicyMax \cup {0}, retention : {"STRONG", "WEAK"}]
  /\ weak \in [Keys -> Objs \cup {Absent, Dead}]
  /\ size \in [Keys -> Nat]
  /\ strong \in Seq(Keys)
  /\ bytes \in Nat
  /\ reserved \in Nat
  /\ inflight \in [Keys -> Threads \cup {Nobody}]
  /\ budget \in [Keys -> Nat]
  /\ stack \in [Threads -> Seq(Keys)]
  /\ want \in [Threads -> Keys \cup {Nobody}]
  /\ phase \in [Threads -> {"run", "raised", "released"}]
  /\ made \in [Objs -> Keys \cup {Nobody}]
  /\ held \subseteq Objs

(***************************************************************************)
(* The retained and the reserved bytes never exceed the limit in force:    *)
(* not between the charges of concurrent builds, not when a reservation    *)
(* becomes an entry, not when a live view is retained again by a hit, and  *)
(* not when configure lowers the limit (cache.py maximum_bytes, _reserve). *)
(***************************************************************************)
WithinBudget == bytes + reserved <= MaximumBytes(policy)

(***************************************************************************)
(* The counters are exact: _bytes is the sum of the retained entries and   *)
(* _reserved the sum of the budgets of the builds under way, whatever      *)
(* evictions, failures and policy changes came between.  No retained entry *)
(* is counted twice or stays counted after its eviction.                   *)
(***************************************************************************)
ExactAccounting ==
  /\ bytes = Charge(KeysOf(strong), size)
  /\ reserved = Charge(Keys, budget)
  /\ NoDuplicates(strong)

(***************************************************************************)
(* "Equivalent requests return the same immutable view identity while      *)
(* alive": no two live view objects were built for the same key, even      *)
(* across evictions, clear and policy changes, and the registry knows the  *)
(* one there is.                                                           *)
(***************************************************************************)
OneLiveView ==
  \A o \in Objs : made[o] # Nobody => weak[made[o]] = o

(***************************************************************************)
(* One builder per key: a key is in flight exactly when it is on the stack *)
(* of the thread recorded as its owner, and a key being built has no entry *)
(* (a failed or cancelled build publishes nothing).                        *)
(***************************************************************************)
SingleBuilder ==
  /\ \A k \in Keys, t \in Threads : inflight[k] = t <=> k \in KeysOf(stack[t])
  /\ \A t \in Threads : NoDuplicates(stack[t])
  /\ \A k \in Keys : inflight[k] # Nobody => weak[k] = Absent

(***************************************************************************)
(* Eviction is by recency: a step that stops retaining a view keeps none   *)
(* that was used less recently (_evict_until pops from the old end).       *)
(***************************************************************************)
LeastRecentFirst ==
  [][\A i, j \in 1 .. Len(strong) :
        (i < j /\ strong[j] \notin KeysOf(strong'))
          => strong[i] \notin KeysOf(strong')]_vars

(***************************************************************************)
(* Every request is answered: waiters outlive failed and cancelled builds, *)
(* and nobody waits for ever (cache.py notify_all, the polling wait).      *)
(***************************************************************************)
RequestsAnswered ==
  \A t \in Threads : (want[t] # Nobody) ~> (want[t] = Nobody)

=============================================================================
