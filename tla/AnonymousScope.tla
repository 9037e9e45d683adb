--------------------------- MODULE AnonymousScope ---------------------------
(***************************************************************************)
(* How the native parsers turn the blank labels of one document into       *)
(* anonymous individuals (parse/anonymous.rs).  A job scopes its documents *)
(* one after the other.  SHA-256 is injective: a digest is what it digests,*)
(* and where digests or serialised graphs are only ordered, any order that *)
(* depends on their content alone will do.                                 *)
(***************************************************************************)
EXTENDS CanonicalRows, Functions

CONSTANTS Jobs, None

VARIABLES
  job,      \* the documents and the limits
  stage,    \* the locals of scope_anonymous_rows_v2 and what it calls
  results   \* one record per document scoped

scopeVars == <<job, stage, results>>

Doc == job.docs[Len(results) + 1]
Roots(doc) == doc.rows[1] \o doc.rows[2] \o doc.rows[3]

NewStage == [phase |-> "read", at |-> 0, labels |-> {}, arcs |-> <<>>, payloads |-> <<>>,
             parents |-> <<>>, sizes |-> <<>>, components |-> <<>>, done |-> <<>>,
             setup |-> 0, work |-> 0, rounds |-> 0, colors |-> None, choices |-> None,
             candidates |-> 0, tried |-> 0, best |-> None, order |-> None]

ScopeInit ==
  /\ job \in Jobs
  /\ stage = NewStage
  /\ results = <<>>

\* A document ends with its rows or with the error that stopped it.
Finish(err, out) ==
  /\ results' = Append(results, [err |-> err, out |-> out])
  /\ stage' = IF Len(results) + 1 = Len(job.docs) THEN [NewStage EXCEPT !.phase = "end"] ELSE NewStage
  /\ UNCHANGED job

Fail(err) == Finish(err, None)

Proceed(s) == stage' = s /\ UNCHANGED <<job, results>>

\* After its last item, a loop gives way to the next phase.
Advance(s, count, phase) ==
  IF s.at + 1 = count THEN [s EXCEPT !.at = 0, !.phase = phase] ELSE [s EXCEPT !.at = @ + 1]

-----------------------------------------------------------------------------
(* Reading the rows, and the arcs between the labels of one root. *)

ParseRoot ==
  /\ stage.phase = "read"
  /\ LET root == Roots(Doc)[stage.at + 1]
     IN  IF Terms(root) > job.limits.terms THEN Fail("max_terms")
         ELSE IF Depth(root) > job.limits.depth THEN Fail("max_nesting_depth")
         ELSE Proceed(Advance([stage EXCEPT !.labels = @ \cup CollectLabels(root)],
                              Len(Roots(Doc)), "arcs"))

Index(label) == Cardinality({x \in stage.labels : x <= label})
Arc(source, role, target, payload) ==
  [source |-> source, role |-> role, target |-> target, payload |-> payload]


\* The arcs of one root: each occurrence alone, then each pair in order.
ArcsOf(occ, payload) ==
  [i \in DOMAIN occ |-> Arc(Index(occ[i].label), occ[i].path, None, payload)]
  \o FlattenSeq([i \in DOMAIN occ |-> [d \in 1..(Len(occ) - i) |->
       Arc(Index(occ[i].label), Frame(occ[i].path) \o occ[i + d].path, Index(occ[i + d].label), payload)]])

\* After the last root every label is a component of its own.
Singletons(s) ==
  IF s.phase = "arcs" THEN s
  ELSE [s EXCEPT !.parents = [l \in 1..Cardinality(s.labels) |-> l],
                 !.sizes = [l \in 1..Cardinality(s.labels) |-> 1]]

PushArcs(skeleton, arcs) ==
  IF Len(skeleton) > job.limits.work THEN Fail("max_canonical_work")
  ELSE IF Cardinality(stage.labels) + Len(arcs) > job.limits.terms THEN Fail("max_terms")
  ELSE Proceed(Singletons(Advance([stage EXCEPT !.arcs = arcs, !.payloads = Append(@, skeleton)],
                                  Len(Roots(Doc)), "join")))

BlankArcs ==
  /\ stage.phase = "arcs"
  /\ LET root == Roots(Doc)[stage.at + 1]
         occ == BlankOccurrences(root, <<ConstructorLedger(root).name>>)
     IN  PushArcs(Skeleton(root), stage.arcs \o ArcsOf(occ, Len(stage.payloads) + 1))

-----------------------------------------------------------------------------
(* Components: the union-find over labels that share a root. *)

RECURSIVE RootOf(_, _)
RootOf(parents, l) == IF parents[l] = l THEN l ELSE RootOf(parents, parents[l])

RECURSIVE PathOf(_, _)
PathOf(parents, l) == IF parents[l] = l THEN {} ELSE {l} \cup PathOf(parents, parents[l])

FindComponentRoot(parents, l) ==
  [x \in DOMAIN parents |-> IF x \in PathOf(parents, l) THEN RootOf(parents, l) ELSE parents[x]]

UnionLabelsOnly(s, left, right) ==
  [s EXCEPT !.parents[right] = RootOf(s.parents, left)]

UnionComponentLabels(s, left, right) ==
  LET parents == FindComponentRoot(FindComponentRoot(s.parents, left), right)
      l == RootOf(parents, left)
      r == RootOf(parents, right)
      large == IF s.sizes[l] < s.sizes[r] THEN r ELSE l
      small == IF large = l THEN r ELSE l
  IN  IF l = r THEN [s EXCEPT !.parents = parents]
      ELSE [s EXCEPT !.parents = [parents EXCEPT ![small] = large],
                     !.sizes[large] = @ + s.sizes[small]]

JoinLabels ==
  /\ stage.phase = "join"
  /\ LET arc == stage.arcs[stage.at + 1]
         s == IF arc.target = None THEN stage ELSE UnionComponentLabels(stage, arc.source, arc.target)
     IN  Proceed(Advance(s, Len(stage.arcs), "split"))

\* Components in the order of their least labels, with local label numbers.
CanonicalComponents ==
  /\ stage.phase = "split"
  /\ LET Top(l) == RootOf(stage.parents, l)
         labels == DOMAIN stage.parents
         firsts == {l \in labels : \A m \in labels : Top(m) = Top(l) => l <= m}
         Local(l) == Cardinality({m \in labels : Top(m) = Top(l) /\ m <= l})
         Localized(arc) == [arc EXCEPT !.source = Local(@), !.target = IF @ = None THEN None ELSE Local(@)]
         Component(first) ==
           LET arcs == SelectSeq(stage.arcs, LAMBDA a : Top(a.source) = Top(first))
           IN  [labels |-> SetToSortSeq({l \in labels : Top(l) = Top(first)}, <),
                arcs |-> [i \in DOMAIN arcs |-> Localized(arcs[i])]]
         order == SetToSortSeq(firsts, <)
     IN  Proceed([stage EXCEPT !.components = [c \in DOMAIN order |-> Component(order[c])],
                               !.phase = "setup"])

-----------------------------------------------------------------------------
(* alpha_order: refine the colours of one component, then try the orders   *)
(* that are left.                                                          *)

Component == stage.components[Len(stage.done) + 1]
LabelsOf(c) == DOMAIN c.labels

\* What label l sees of the arc: its direction, role, far end and payload.
ArcSignature(l, arc, colors) ==
  LET far == IF arc.source = l THEN arc.target ELSE arc.source
      neighbor == CASE far = None -> <<78>>
                    [] far = l -> <<76>>
                    [] colors = None -> <<66>>
                    [] OTHER -> <<67, colors[far]>>
  IN  <<IF arc.source = l THEN 83 ELSE 84>> \o Frame(arc.role) \o neighbor \o Frame(stage.payloads[arc.payload])

Neighborhoods(c, colors) ==
  [l \in LabelsOf(c) |->
     LET mine == SelectSeq(c.arcs, LAMBDA a : a.source = l \/ a.target = l)
     IN  SortSeq([i \in DOMAIN mine |-> ArcSignature(l, mine[i], colors)], Before)]

\* Equal signatures get equal colours.
ColorsFromSignatures(signatures) ==
  LET framed == [l \in DOMAIN signatures |-> Framed(signatures[l])]
  IN  [l \in DOMAIN framed |-> Cardinality({s \in Range(framed) : Before(s, framed[l])})]

SamePartition(a, b) == \A l, m \in DOMAIN a : (a[l] = a[m]) = (b[l] = b[m])

Partitions(colors) ==
  LET order == SetToSortSeq(Range(colors), <)
  IN  [k \in DOMAIN order |-> SetToSortSeq({l \in DOMAIN colors : colors[l] = order[k]}, <)]

SetupComponent ==
  /\ stage.phase = "setup"
  /\ LET c == Component
         work == Len(c.labels) + 2 * Len(c.arcs)
     IN  IF Len(c.labels) + Len(c.arcs) > job.limits.terms THEN Fail("max_terms")
         ELSE IF work > job.limits.work THEN Fail("max_canonical_work")
         ELSE Proceed([stage EXCEPT !.phase = "refine", !.setup = work, !.work = work, !.rounds = 0,
                                    !.colors = ColorsFromSignatures(Neighborhoods(c, None))])

\* The orders left by the colours, or None when they are more than the work
\* that remains.
RECURSIVE CountUpTo(_, _, _, _)
CountUpTo(count, factors, i, remaining) ==
  IF i > Len(factors) THEN count
  ELSE IF count > remaining \div factors[i] THEN None
  ELSE CountUpTo(count * factors[i], factors, i + 1, remaining)
PermutationCount(partitions, remaining) ==
  CountUpTo(1, FlattenSeq([k \in DOMAIN partitions |-> [i \in 1..(Len(partitions[k]) - 1) |-> i + 1]]), 1,
            remaining)

BeginOrders(s, c) ==
  LET partitions == Partitions(s.colors)
      remaining == IF s.work > job.limits.work THEN 0 ELSE job.limits.work - s.work
      candidates == PermutationCount(partitions, remaining)
      unit == Len(c.labels) + Len(c.arcs)
  IN  IF candidates = None THEN Fail("max_canonical_work")
      ELSE IF s.work + candidates * unit > job.limits.work THEN Fail("max_canonical_work")
      ELSE Proceed([s EXCEPT !.phase = "orders", !.choices = partitions, !.candidates = candidates,
                             !.tried = 0, !.best = None, !.order = None])

RefineComponent ==
  /\ stage.phase = "refine"
  /\ LET c == Component
         around == Neighborhoods(c, stage.colors)
         refined == ColorsFromSignatures([l \in LabelsOf(c) |-> <<<<stage.colors[l]>>>> \o around[l]])
         s == [stage EXCEPT !.rounds = @ + 1, !.colors = refined,
                            !.work = @ + 2 * Len(c.labels) + 2 * Len(c.arcs)]
     IN  IF s.work > job.limits.work THEN Fail("max_canonical_work")
         ELSE IF SamePartition(stage.colors, refined) THEN BeginOrders(s, c)
         ELSE IF s.rounds > Len(c.labels) + 1 THEN Fail("protocol")
         ELSE Proceed(s)

\* The graph of a component under an order of its labels.
SerializeGraph(order, arcs) ==
  LET At(l) == CHOOSE i \in DOMAIN order : order[i] = l
      Target(a) == IF a.target = None THEN <<0>> ELSE <<1, At(a.target)>>
  IN  [labels |-> Len(order),
       members |-> {<<At(a.source)>> \o Frame(a.role) \o Target(a) \o Frame(stage.payloads[a.payload]) :
                      a \in Range(arcs)}]

GraphBefore(g, h) ==
  \/ Cardinality(g.members) < Cardinality(h.members)
  \/ /\ Cardinality(g.members) = Cardinality(h.members)
     /\ \E m \in g.members \ h.members : \A n \in h.members \ g.members : Before(m, n)

NextPermutation(values) ==
  LET rises == {i \in 1..(Len(values) - 1) : values[i] < values[i + 1]}
      pivot == Max(rises)
      swap == Max({i \in (pivot + 1)..Len(values) : values[pivot] < values[i]})
      swapped == [values EXCEPT ![pivot] = values[swap], ![swap] = values[pivot]]
  IN  IF rises = {} THEN None
      ELSE SubSeq(swapped, 1, pivot) \o Reverse(SubSeq(swapped, pivot + 1, Len(values)))

\* The last partition that has a next order takes it, those after it restart.
AdvancePartitionProduct(choices) ==
  LET movable == {k \in DOMAIN choices : NextPermutation(choices[k]) # None}
  IN  IF movable = {} THEN None
      ELSE [k \in DOMAIN choices |->
              CASE k < Max(movable) -> choices[k]
                [] k = Max(movable) -> NextPermutation(choices[k])
                [] OTHER -> SortSeq(choices[k], <)]

KeepBest(s, order, graph) ==
  IF s.best # None /\ ~ GraphBefore(graph, s.best) THEN [s EXCEPT !.tried = @ + 1]
  ELSE [s EXCEPT !.tried = @ + 1, !.best = graph, !.order = order]

TryOrder ==
  /\ stage.phase = "orders"
  /\ LET c == Component
         order == FlattenSeq(stage.choices)
         s == KeepBest(stage, order, SerializeGraph(order, c.arcs))
         choices == AdvancePartitionProduct(s.choices)
         result == [labels |-> c.labels, arcs |-> c.arcs, order |-> s.order, graph |-> s.best,
                    partition |-> s.colors, setup |-> s.setup, refinement |-> s.work - s.setup,
                    candidates |-> s.candidates, tried |-> s.tried, rounds |-> s.rounds]
         last == Len(stage.done) + 1 = Len(stage.components)
     IN  Proceed(IF choices # None THEN [s EXCEPT !.choices = choices]
                 ELSE [s EXCEPT !.done = Append(@, result), !.phase = IF last THEN "scope" ELSE "setup"])

-----------------------------------------------------------------------------
(* Identities, rows and telemetry once every component has its order. *)

\* How many components have each graph.
ComponentManifest(done) ==
  [g \in {c.graph : c \in Range(done)} |-> Cardinality({i \in DOMAIN done : done[i].graph = g})]

\* Components that look alike are told apart by an ordinal.
Ordinal(done, i) ==
  Cardinality({k \in DOMAIN done : done[k].graph = done[i].graph /\ done[k].labels[1] < done[i].labels[1]})

IdentitiesForComponents(done, scope) ==
  [l \in UNION {Range(done[i].labels) : i \in DOMAIN done} |->
     LET i == CHOOSE k \in DOMAIN done : l \in Range(done[k].labels)
         c == done[i]
     IN  <<1, scope, <<c.graph, Ordinal(done, i),
                       CHOOSE k \in DOMAIN c.order : c.labels[c.order[k]] = l>>>>]

\* An individual moves to another scope under a key made of all it was.
RescopeIdentity(identity, scope) == <<2, scope, identity>>

Canonicalize(rows) == [k \in 1..3 |-> Range(rows[k])]
DocumentFingerprint(doc, raw) == <<doc.key, raw>>
SnapshotScope(fingerprint, ordinal) == <<fingerprint, ordinal>>

\* The first root of each row that is published, collection by collection.
CanonicalOccurrences(rows) ==
  LET before == [k \in 1..3 |-> FoldSeq(+, 0, [j \in 1..(k - 1) |-> Len(rows[j])])]
  IN  UNION {{before[k] + i : i \in {j \in DOMAIN rows[k] : \A h \in 1..(j - 1) : rows[k][h] # rows[k][j]}} :
               k \in 1..3}

\* rescope_anonymous_rows_v2, for a later member of a closure.
RescopeRows(rows, scope) ==
  [k \in 1..3 |-> {EncodeReplaced(x, [id \in Identities(x) |-> RescopeIdentity(id, scope)]) : x \in rows[k]}]

RootSpan(c) == {a.payload : a \in Range(c.arcs)}
LastRoot(c) == Max(RootSpan(c))

\* The root after the last one of a component, where its interval closes.
Close(c) == LastRoot(c) + 1

AnonymousMetrics(done) ==
  LET Most(F(_)) == Max({F(done[i]) : i \in DOMAIN done})
      Sum(F(_)) == FoldSeq(+, 0, [i \in DOMAIN done |-> F(done[i])])
      First(c) == Min(RootSpan(c))
      events == {First(done[i]) : i \in DOMAIN done} \cup {Close(done[i]) : i \in DOMAIN done}
      Active(p) == Cardinality({i \in DOMAIN done : First(done[i]) <= p})
                     - Cardinality({i \in DOMAIN done : Close(done[i]) <= p})
      Candidate(c) == c.candidates * (Len(c.labels) + Len(c.arcs))
  IN  [components |-> Len(done),
       largest |-> <<Most(LAMBDA c : Len(c.labels)), Most(LAMBDA c : Len(c.arcs)),
                     Most(LAMBDA c : Cardinality(RootSpan(c)))>>,
       span |-> Most(LAMBDA c : Close(c) - First(c)),
       open |-> Max({Active(p) : p \in events}),
       work |-> Sum(LAMBDA c : c.setup + c.refinement + Candidate(c)),
       permutations |-> Sum(LAMBDA c : c.candidates)]

ScopeRows ==
  /\ stage.phase = "scope"
  /\ LET doc == Doc
         scope == <<doc.key, ComponentManifest(stage.done)>>
         identity == IdentitiesForComponents(stage.done, scope)
         bind == [id \in {<<0, l>> : l \in stage.labels} |-> identity[Index(id[2])]]
         Encoded(new) == [k \in 1..3 |-> [i \in DOMAIN doc.rows[k] |-> EncodeReplaced(doc.rows[k][i], new)]]
         raw == Encoded(bind)
         fingerprint == DocumentFingerprint(doc, Canonicalize(raw))
         snapshot == SnapshotScope(fingerprint, 0)
         all == UNION {Identities(x) : x \in Range(Roots(doc))}
         effective == Encoded([id \in all |->
                        RescopeIdentity(IF id \in DOMAIN bind THEN bind[id] ELSE id, snapshot)])
         alike == \A k \in 1..3 : Cardinality(Range(raw[k])) = Cardinality(Range(effective[k]))
         rawRoots == raw[1] \o raw[2] \o raw[3]
         roots == effective[1] \o effective[2] \o effective[3]
     IN  IF ~ alike THEN Fail("protocol")
         ELSE Finish(None, [raw |-> Canonicalize(raw), effective |-> Canonicalize(effective),
                            fingerprint |-> fingerprint,
                            occurrences |-> [i \in DOMAIN roots |-> <<rawRoots[i], roots[i]>>],
                            canonical |-> {roots[i] : i \in CanonicalOccurrences(raw)},
                            metrics |-> AnonymousMetrics(stage.done)])

ScopeDone == stage.phase = "end" /\ UNCHANGED scopeVars

ScopeNext ==
  \/ ParseRoot \/ BlankArcs \/ JoinLabels \/ CanonicalComponents
  \/ SetupComponent \/ RefineComponent \/ TryOrder \/ ScopeRows
  \/ ScopeDone

-----------------------------------------------------------------------------
(* What the result has to be, said of the document alone. *)

BlankLabels(doc) == UNION {CollectLabels(x) : x \in Range(Roots(doc))}
Relabeled(node, f) == EncodeReplaced(node, [id \in Identities(node) |-> <<0, f[id[2]]>>])

SameButForLabels(d, e) ==
  /\ d.key = e.key
  /\ Cardinality(BlankLabels(d)) = Cardinality(BlankLabels(e))
  /\ \E f \in Bijection(BlankLabels(d), BlankLabels(e)) :
       \A k \in 1..3 : {Relabeled(x, f) : x \in Range(d.rows[k])} = Range(e.rows[k])

\* Every root has at most two individuals, and their places tell them apart.
PlacesTellApart(doc) ==
  \A x \in Range(Roots(doc)) :
    LET occ == BlankOccurrences(x, <<>>)
    IN  Len(occ) <= 2 /\ (Len(occ) = 2 => occ[1].path # occ[2].path)

\* The labels that sharing roots connects to each label.
RECURSIVE ConnectedTo(_, _)
ConnectedTo(doc, labels) ==
  LET more == labels \cup UNION {CollectLabels(x) : x \in {y \in Range(Roots(doc)) : CollectLabels(y) \cap labels # {}}}
  IN  IF more = labels THEN labels ELSE ConnectedTo(doc, more)
Classes(doc) == {ConnectedTo(doc, {l}) : l \in BlankLabels(doc)}
RootsOf(doc, class) == {i \in DOMAIN Roots(doc) : CollectLabels(Roots(doc)[i]) \cap class # {}}

Succeeded == {i \in DOMAIN results : results[i].err = None}

-----------------------------------------------------------------------------
Phases == {"read", "arcs", "join", "split", "setup", "refine", "orders", "scope", "end"}
ScopeTypeOK ==
  /\ stage.phase \in Phases
  /\ stage.phase # "end" => Len(results) < Len(job.docs) /\ stage.labels \subseteq BlankLabels(Doc)
  /\ \A i \in DOMAIN results : results[i].err \in {None, "max_terms", "max_nesting_depth", "max_canonical_work"}

\* The fingerprint and the rows that scope_anonymous_rows_v2 publishes are the
\* same for two documents exactly when a renaming of labels and a reordering
\* of roots makes one the other: refinement, the choice of the least order
\* and the ordinals never let a label or the order of the text show.  (For
\* documents whose roots place their individuals apart.)
LabelsDoNotShow ==
  Succeeded = {1, 2} /\ (\A i \in {1, 2} : PlacesTellApart(job.docs[i])) =>
    (results[1].out = [results[2].out EXCEPT !.occurrences = results[1].out.occurrences,
                                             !.metrics = results[1].out.metrics])
      = SameButForLabels(job.docs[1], job.docs[2])

\* However alike two blank nodes are, they become two individuals and no two
\* roots become one, in the raw and in the effective rows.
DistinctBlanksStayDistinct ==
  \A i \in Succeeded : \A raw \in BOOLEAN :
    LET rows == IF raw THEN results[i].out.raw ELSE results[i].out.effective
    IN
    /\ \A k \in 1..3 : Cardinality(rows[k]) = Cardinality(Range(job.docs[i].rows[k]))
    /\ Cardinality(UNION {Identities(x) : x \in UNION Range(rows)}) = Cardinality(BlankLabels(job.docs[i]))

\* Re-scoping the published raw rows, as closure composition does later, gives
\* the effective rows published with them, occurrence by occurrence, with a
\* provenance row for each, and a second member of the closure shares no individual with the first.
EffectiveIsRescopedRaw ==
  \A i \in Succeeded :
    LET out == results[i].out
        Ids(rows) == UNION {Identities(x) : x \in UNION Range(rows)}
        again == RescopeRows(out.raw, SnapshotScope(out.fingerprint, 1))
    IN  /\ out.effective = RescopeRows(out.raw, SnapshotScope(out.fingerprint, 0))
        /\ Ids(again) \cap Ids(out.effective) = {}
        /\ Cardinality(Ids(again)) = Cardinality(Ids(out.raw))
        /\ out.canonical = UNION Range(out.effective)
        /\ \A o \in Range(out.occurrences) :
             <<{o[2]}, {}, {}>> = RescopeRows(<<{o[1]}, {}, {}>>, SnapshotScope(out.fingerprint, 0))

\* The union-find ends with exactly the classes of labels that shared roots
\* connect, and every arc stays inside one of them.
ComponentsAreConnected ==
  stage.phase = "setup" /\ stage.done = <<>> =>
    LET Source(c) == {l \in stage.labels : Index(l) \in Range(c.labels)}
    IN  /\ {Source(c) : c \in Range(stage.components)} = Classes(Doc)
        /\ Len(stage.components) = Cardinality(Classes(Doc))
        /\ FoldSeq(+, 0, [c \in DOMAIN stage.components |-> Len(stage.components[c].arcs)]) = Len(stage.arcs)

\* No order is tried before the budget has paid for all of them.
WorkIsPaidFirst ==
  stage.phase = "orders" =>
    /\ stage.work + stage.candidates * (Len(Component.labels) + Len(Component.arcs)) <= job.limits.work
    /\ stage.tried < stage.candidates

\* The odometer over the partitions tries every order that keeps the colours
\* sorted, once, and the order kept has the least graph of them all.
LeastOrderIsKept ==
  \A i \in DOMAIN stage.done :
    LET c == stage.done[i]
        orders == {o \in Bijection(LabelsOf(c), LabelsOf(c)) :
                     \A k, n \in DOMAIN o : k < n => c.partition[o[k]] <= c.partition[o[n]]}
    IN  /\ c.tried = Cardinality(orders)
        /\ \A o \in orders : ~ GraphBefore(SerializeGraph(o, c.arcs), c.graph)
        /\ c.graph = SerializeGraph(c.order, c.arcs)

\* The telemetry counts what the document holds: its classes, the roots of
\* each, and how many classes are open at once when the roots are read in
\* order.
MetricsAreExact ==
  \A i \in Succeeded :
    LET doc == job.docs[i]
        m == results[i].out.metrics
        Span(c) == Min(RootsOf(doc, c))..Max(RootsOf(doc, c))
    IN  /\ m.components = Cardinality(Classes(doc))
        /\ m.largest[1] = Max({Cardinality(c) : c \in Classes(doc)})
        /\ m.largest[3] = Max({Cardinality(RootsOf(doc, c)) : c \in Classes(doc)})
        /\ m.span = Max({Cardinality(Span(c)) : c \in Classes(doc)})
        /\ m.open = Max({Cardinality({c \in Classes(doc) : p \in Span(c)}) : p \in DOMAIN Roots(doc)})

\* The rows a document publishes, raw and effective, are its own rows with one
\* individual per blank label, however often they are scoped again.
ScopedRowsAreExact == DistinctBlanksStayDistinct /\ EffectiveIsRescopedRaw

\* The search for a canonical labelling takes the connected classes one by
\* one, pays for all its candidates before it tries the first, keeps the
\* least of all of them, and reports the sizes it really met.
SearchIsExhaustive == ComponentsAreConnected /\ WorkIsPaidFirst /\ LeastOrderIsKept /\ MetricsAreExact

\* Scoping is canonical: labels and the order of the text do not show, rows
\* stay what they are, and the search behind it misses no candidate.
ScopingIsCanonical == LabelsDoNotShow /\ ScopedRowsAreExact /\ SearchIsExhaustive
=============================================================================
