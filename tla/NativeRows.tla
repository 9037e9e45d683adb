------------------------------ MODULE NativeRows ------------------------------
(***************************************************************************)
(* The life of the canonical rows of native documents: anonymous.rs scopes *)
(* the rows, each document's rows are interned by a component builder and  *)
(* frozen, the arenas are composed, the roots of the union are sorted, and *)
(* their structural columns are published.  A job does one of the two      *)
(* halves: it scopes documents, or it stores rows that are already scoped. *)
(***************************************************************************)
EXTENDS AnonymousScope, EncodedColumns

VARIABLE store

nativeVars == <<job, stage, results, store>>

Stores == "sources" \in DOMAIN job
Source == job.sources[Len(store.arenas) + 1]
RootCategories == <<Annotation, Axiom, Swrl>>
NoColumns == NewColumns(<<>>, 0)

\* A builder for the next document; its caller pays for the identifiers it
\* will keep beside it.
OpenSource(s, source) ==
  [s EXCEPT !.builder = NewBuilder(source.owner, source.buckets, job.limits, source.external),
            !.left = DOMAIN source.rows, !.row = 0, !.kept = <<>>, !.phase = "stage"]
NewStore ==
  [phase |-> "idle", builder |-> None, left |-> {}, row |-> 0, kept |-> <<>>, failed |-> FALSE,
   arenas |-> <<>>, ids |-> <<>>, arena |-> None, sorted |-> <<>>, entities |-> <<>>, columns |-> NoColumns]

StoreInit ==
  /\ job \in Jobs /\ Stores
  /\ stage = [NewStage EXCEPT !.phase = "end"]
  /\ results = <<>>
  /\ store = OpenSource(NewStore, job.sources[1])
Init == StoreInit \/ (ScopeInit /\ ~ Stores /\ store = NewStore)

Storing(s) == store' = s /\ UNCHANGED <<job, stage, results>>

-----------------------------------------------------------------------------
(* One document: stage, intern each row, freeze.  A failure poisons the typed *)
(* builder, whatever the state of the component builder.                      *)

Failed(s, b) == [s EXCEPT !.builder = b, !.failed = TRUE, !.phase = "freeze"]

StageRows ==
  /\ store.phase = "stage"
  /\ LET external == Source.external + Len(Source.rows) * IdBytes
         b == SetExternalBytes(store.builder, external)
     IN  Storing(IF b.external # external THEN Failed(store, b) ELSE [store EXCEPT !.builder = b, !.phase = "intern"])

InternRow(r) ==
  /\ store.phase = "intern" /\ store.builder.todo = <<>>
  /\ r \in store.left
  /\ Storing([store EXCEPT !.builder = BeginIntern(@, Source.rows[r]), !.left = @ \ {r}, !.row = r])

KeepRow(s, b) == [s EXCEPT !.builder = b, !.kept = Append(@, [row |-> s.row, pending |-> Pending(b)])]
Decode ==
  /\ store.phase = "intern" /\ store.builder.todo # <<>>
  /\ LET b == DecodeStep(store.builder)
     IN  Storing(IF b.poisoned THEN Failed(store, [b EXCEPT !.todo = <<>>])
                 ELSE IF b.todo = <<>> THEN KeepRow(store, b)
                 ELSE [store EXCEPT !.builder = b])

\* A checkpoint that fails: before a row, while it is decoded, or after it,
\* when the row is stored and only its identifier is lost.
Interrupt ==
  /\ store.phase = "intern" /\ job.interrupts
  /\ LET b == store.builder
     IN  \/ b.todo = <<>> /\ Storing(Failed(store, b))
         \/ b.todo # <<>> /\ Storing(Failed(store, [Poisoned(b) EXCEPT !.todo = <<>>]))
         \/ /\ Len(b.todo) = 1
            /\ LET d == DecodeStep(b) IN ~ d.poisoned /\ Storing(Failed(store, d))

Frozen(s, arena) ==
  LET ids == [k \in DOMAIN s.kept |-> [row |-> s.kept[k].row, id |-> Resolve(arena, s.kept[k].pending)]]
      frozen == [s EXCEPT !.arenas = Append(@, arena), !.ids = Append(@, ids)]
  IN  IF Len(frozen.arenas) = Len(job.sources) THEN [frozen EXCEPT !.phase = "compose"]
      ELSE OpenSource(frozen, job.sources[Len(frozen.arenas) + 1])
RowsEnded == store.phase = "freeze" \/ (store.phase = "intern" /\ store.left = {} /\ store.builder.todo = <<>>)
FreezeSource ==
  /\ RowsEnded
  /\ Storing(IF store.failed \/ ~ Freezable(store.builder) THEN [store EXCEPT !.failed = TRUE, !.phase = "end"]
             ELSE Frozen(store, Freeze(store.builder)))

-----------------------------------------------------------------------------
(* The union of the documents, in the order the closure lists them.           *)

Compose ==
  /\ store.phase = "compose"
  /\ LET sources == [k \in DOMAIN job.order |-> store.arenas[job.order[k]]]
     IN  Composable(sources) /\ Storing([store EXCEPT !.arena = ComposeFlat(sources), !.phase = "sort"])

\* union_document_roots for one collection, and collect_signature.
UnionRoots(category) ==
  Concat([k \in DOMAIN job.order |->
    LET ids == store.ids[job.order[k]]
    IN  SelectSeq([j \in DOMAIN ids |-> ids[j].id], LAMBDA id : id.local[1] = category)])
Signature ==
  Concat([k \in DOMAIN job.order |->
    LET arena == store.arenas[job.order[k]]
    IN  [i \in DOMAIN arena.tables.components[Entity] |-> [owner |-> arena.owner, local |-> <<Entity, i>>]]])

SortRoots ==
  /\ store.phase = "sort"
  /\ LET category == RootCategories[Len(store.sorted) + 1]
         ids == UnionRoots(category)
     IN  Storing(IF ~ Sortable(store.arena, ids, category, job.limits, Len(store.arenas)) THEN [store EXCEPT !.failed = TRUE, !.phase = "end"]
                 ELSE [store EXCEPT !.sorted = Append(@, SortDeduplicateIds(store.arena, ids, category)),
                                    !.phase = IF Len(store.sorted) = 2 THEN "signature" ELSE @])
SortSignature ==
  /\ store.phase = "signature"
  /\ LET tables == [k \in 1..3 |-> [kind |-> k, ids |-> store.sorted[k]]]
     IN  Storing(IF ~ Sortable(store.arena, Signature, Entity, job.limits, Len(store.arenas)) THEN [store EXCEPT !.failed = TRUE, !.phase = "end"]
                 ELSE [store EXCEPT !.entities = SortDeduplicateIds(store.arena, Signature, Entity),
                                    !.columns = NewColumns(RootsOfTables(tables), Len(store.arenas)), !.phase = "columns"])

FillColumns ==
  /\ store.phase = "columns"
  /\ LET Stepped(c) == [store EXCEPT !.columns = c, !.phase = IF c.phase = "end" THEN "end" ELSE @]
     IN  Storing(Stepped(ColumnStep(store.arena, store.columns, job.limits)))

StoreDone == store.phase = "end" /\ UNCHANGED nativeVars

StoreNext ==
  \/ StageRows \/ Decode \/ Interrupt \/ FreezeSource \/ Compose
  \/ SortRoots \/ SortSignature \/ FillColumns
  \/ \E r \in store.left : InternRow(r)
Next ==
  \/ ~ Stores /\ ScopeNext /\ UNCHANGED store
  \/ StoreNext
  \/ StoreDone

Spec == Init /\ [][Next]_nativeVars

-----------------------------------------------------------------------------
(* Properties.                                                                *)

StorePhases == {"idle", "stage", "intern", "freeze", "compose", "sort", "signature", "columns", "end"}
TypeOK ==
  /\ ScopeTypeOK
  /\ store.phase \in StorePhases
  /\ Stores => Len(store.arenas) <= Len(job.sources)
  /\ store.phase = "intern" => store.left \subseteq DOMAIN Source.rows /\ store.row \notin store.left

IdsOf(arena) == UNION {{[owner |-> arena.owner, local |-> <<c, i>>] : i \in DOMAIN arena.tables.components[c]} : c \in Categories}
RowsOf(k) == ToSet(job.sources[k].rows)
Below(trees) == UNION {Subtrees(x) : x \in trees}
StrictlyOrdered(rows) ==
  LET listed == Tabulated(rows) IN \A i, j \in DOMAIN listed : i < j => Before(listed[i], listed[j])

\* What a builder freezes depends on the set of its rows alone: neither the
\* order they came in, nor colliding hashes, nor a failure on the way decides
\* which component is where.  Every value below the rows has one identifier,
\* nothing else has one, and a builder that failed freezes nothing.
TablesForgetHistory ==
  store.phase \in {"stage", "compose"} =>
    \A k \in DOMAIN store.arenas :
      LET arena == store.arenas[k]
          trees == {TreeOf(arena, id) : id \in IdsOf(arena)}
      IN  /\ trees = Below(RowsOf(k))
          /\ Cardinality(IdsOf(arena)) = Cardinality(trees)
          /\ \A table \in {arena.tables.strings, arena.tables.bytes, arena.tables.integers} : StrictlyOrdered(table)
          /\ \A n \in 1..(k - 1) : RowsOf(n) = RowsOf(k) => store.arenas[n].tables = arena.tables

\* The vectors a row has open are exactly what is charged as transient, so
\* nothing stays charged between rows; the tables never outgrow what was
\* charged for them; and every charge was within max_memory_bytes.
OpenVectors(todo) ==
  Total([j \in DOMAIN todo |->
    CASE todo[j].op \in {"open", "open_sequence"} -> - TemporaryVectorBytes(todo[j].n)
      [] todo[j].op \in {"sequence", "node"} -> TemporaryVectorBytes(todo[j].n)
      [] OTHER -> 0])
MemoryIsAccounted ==
  /\ store.phase = "intern" =>
       LET b == store.builder
       IN  /\ b.transient = OpenVectors(b.todo)
           /\ RetainedStorage(b) <= b.accounted
           /\ Live(b) <= b.peak /\ b.peak <= job.limits.max_memory
  /\ \A k \in DOMAIN store.arenas : store.arenas[k].retained <= store.arenas[k].peak /\ store.arenas[k].peak <= job.limits.max_memory

\* The identifier handed out while a row was decoded leads, through the freeze
\* and through the partitions of the composed arena, back to that row: to its
\* bytes, to the length measured before they are written, and to the bytes
\* the column cursor would stream.
RowsReencode ==
  store.phase = "sort" /\ store.sorted = <<>> =>
    \A k \in DOMAIN store.ids : \A i \in DOMAIN store.ids[k] :
      LET id == store.ids[k][i].id
          row == job.sources[k].rows[store.ids[k][i].row]
      IN  /\ Valid(store.arena, id) /\ TreeOf(store.arena, id) = row
          /\ EncodeId(store.arena, id) = RowBytes(row)
          /\ EncodedLen(store.arena, id) = Len(RowBytes(row))
          /\ Record(store.arena, id).height = TreeHeight(row)

\* The roots of the union, and its signature, are each value once, in the
\* order of their bytes, whichever of its owners it is read from: the first
\* document of the closure that has it.
Canonical(ids, listed) ==
  /\ StrictlyOrdered([k \in DOMAIN ids |-> RowBytes(TreeOf(store.arena, ids[k]))])
  /\ {TreeOf(store.arena, id) : id \in ToSet(ids)} = {TreeOf(store.arena, id) : id \in ToSet(listed)}
  /\ \A k \in DOMAIN ids : \E i \in DOMAIN listed :
       listed[i] = ids[k] /\ \A j \in 1..(i - 1) : TreeOf(store.arena, listed[j]) # TreeOf(store.arena, ids[k])
SortedRootsAreCanonical ==
  store.phase = "columns" /\ store.columns.phase = "roots" =>
    /\ Canonical(store.entities, Signature)
    /\ \A k \in 1..3 : Canonical(store.sorted[k], UnionRoots(RootCategories[k]))

ColumnsEnded == store.phase = "end" /\ ~ store.failed
RootTrees == LET roots == store.columns.roots IN [i \in DOMAIN roots |-> TreeOf(store.arena, roots[i].id)]

\* Reading the columns gives the roots back, every value below them has one
\* node, shared across owners and in canonical order, and the buffers fill
\* exactly what was measured for them.
ColumnsReadBack ==
  ColumnsEnded /\ store.columns.err = "" =>
    LET out == store.columns.owned
        nodes == DOMAIN out.node_tags
    IN  /\ out.err = ""
        /\ [i \in DOMAIN out.root_ids |-> ReadNode(out, out.root_ids[i])] = RootTrees
        /\ {ReadNode(out, n) : n \in nodes} = Below(ToSet(RootTrees))
        /\ StrictlyOrdered([n \in nodes |-> RowBytes(ReadNode(out, n))])
        /\ BufferBytes(out) = Layout(store.columns)

\* Columns are refused for a limit exactly when the distinct values below the
\* roots exceed it.  With several owners an equal value is met once for each
\* before it is shared, so there a refusal may come early, never late.
Exceeded ==
  LET limits == job.limits
      trees == Below(ToSet(RootTrees))
      fields == UNION {{<<x, i>> : i \in DOMAIN x[2]} : x \in trees}
      items == UNION {{<<f[1], f[2], j>> : j \in DOMAIN f[1][2][f[2]][2]} : f \in {g \in fields : g[1][2][g[2]][1] \in {6, 7}}}
      leaves == {<<f, f[1][2][f[2]]>> : f \in {g \in fields : g[1][2][g[2]][1] \notin {6, 7}}}
                \cup {<<i, i[1][2][i[2]][2][i[3]]>> : i \in items}
      rows == Largest({Cardinality(trees), Cardinality(fields), Cardinality(items), Len(RootTrees)})
      tagged(S) == Cardinality({x \in trees : x[1] \in S})
  IN  {name \in {"max_index_rows"} : rows > limits.max_index_rows}
      \cup {name \in {"max_terms"} : Cardinality(trees) > limits.max_terms}
      \cup {name \in {"max_nesting_depth"} : \E x \in trees : TreeHeight(x) - 1 > limits.max_nesting_depth}
      \cup {name \in {"max_canonical_work"} : \E x \in trees : Len(RowBytes(x)) > limits.max_canonical_work}
      \cup {name \in {"max_strings"} : Cardinality({l \in leaves : l[2][1] \in {2, 5}}) > limits.max_strings}
      \cup {name \in {"max_annotations"} : tagged({5}) > limits.max_annotations}
      \cup {name \in {"max_axioms"} : Len(SelectSeq(store.columns.roots, LAMBDA r : r.kind = AxiomRoot)) > limits.max_axioms}
      \cup {name \in {"max_rule_atoms"} : tagged(141..147) > limits.max_rule_atoms}
ColumnsRefuseExactly ==
  ColumnsEnded =>
    LET err == store.columns.err
    IN  /\ err = "" => Exceeded = {}
        /\ err \notin {"", "max_memory", "max_index_bytes"} /\ Len(job.sources) = 1 => err \in Exceeded

\* Identifiers outlive freezing, composing and sorting, and what they name is
\* each row once, in the order of the wire.
RowsSurviveComposition == TypeOK /\ RowsReencode /\ SortedRootsAreCanonical

\* Columns are refused or exact, and a prepared buffer that could be filled
\* holds what the owned columns hold.
ColumnsAreExact ==
  /\ ColumnsReadBack /\ ColumnsRefuseExactly
  /\ ColumnsEnded /\ store.columns.err = "" /\ store.columns.prepared.err = "" =>
       store.columns.prepared = store.columns.owned
=============================================================================
