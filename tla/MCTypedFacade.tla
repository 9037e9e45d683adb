---------------------------- MODULE MCTypedFacade ----------------------------
EXTENDS TypedFacade, TLC

\* Rows in canonical order.  3 and 8 hold a blank node; scope "A" turns them
\* into 2 and 7, which changes their place in the order, and "B" into 6 and 9.
MCCategory == 1 :> "annotation" @@ [r \in 2..6 |-> "axiom"] @@ [r \in 7..9 |-> "swrl"]
              @@ [r \in 20..23 |-> "entity"]
MCMentions == 1 :> {23} @@ 4 :> {20} @@ 5 :> {20, 21} @@ [r \in {2, 3, 6, 7, 8, 9} |-> {22}]
MCKind == 20 :> "Class" @@ 21 :> "Class" @@ 22 :> "NamedIndividual" @@ 23 :> "AnnotationProperty"
MCBuiltin == {21, 23}
MCBytes == [r \in DOMAIN MCCategory |-> IF r = 4 THEN 3 ELSE 1]
MCDigest == [r \in DOMAIN MCCategory |-> IF r = 2 THEN 4 ELSE r]
MCRescope == "A" :> (3 :> 2 @@ 8 :> 7 @@ [r \in DOMAIN MCCategory |-> r])
          @@ "B" :> (3 :> 6 @@ 8 :> 9 @@ [r \in DOMAIN MCCategory |-> r])

\* Named only, anonymous only, both, and empty.
MCDocuments == {<<<<>>, <<>>, <<>>>>, <<<<1>>, <<4>>, <<>>>>, <<<<>>, <<3, 4>>, <<>>>>,
                <<<<1>>, <<3, 5>>, <<8>>>>}

Roomy == [max_documents |-> 2, max_annotations |-> 5, max_axioms |-> 5, max_index_rows |-> 60,
          max_index_bytes |-> 60, max_memory |-> None]
MCLimits == {[Roomy EXCEPT !.max_documents = 1], [Roomy EXCEPT !.max_axioms = 1],
             [Roomy EXCEPT !.max_annotations = 0], [Roomy EXCEPT !.max_index_rows = 2],
             [Roomy EXCEPT !.max_index_rows = 12],
             [Roomy EXCEPT !.max_index_bytes = 3]}
            \cup {[Roomy EXCEPT !.max_memory = b] : b \in {30, 60, 72, 73, 100, 134, 135, 150, 200}}

Call(docs, path, scoped, reach, closure, target, limits) ==
  [docs |-> docs, path |-> path, scoped |-> scoped, reach |-> reach, closure |-> closure,
   scopes |-> [d \in DOMAIN docs |-> "A"],
   targets |-> [d \in DOMAIN docs |-> IF d = 2 THEN target ELSE None], limits |-> limits]

Paths == {<<"builder", FALSE, None>>, <<"builder", TRUE, None>>, <<"builder", TRUE, "B">>,
          <<"compose", FALSE, None>>, <<"compose", FALSE, "B">>}
Topologies == {<<<<<<0>>, <<1>>>>, <<0, 1>>>>, <<<<<<0, 1>>, <<1>>>>, <<0, 1>>>>,
               <<<<<<0, 1>>, <<1>>>>, <<0>>>>, <<<<<<0>>, <<0, 1>>>>, <<0, 1>>>>}

MCInputs ==
  {Call(<<a, b>>, p[1], p[2], t[1], t[2], p[3], Roomy) : a, b \in MCDocuments, p \in Paths, t \in Topologies}
  \cup {Call(<<a>>, p[1], p[2], <<<<0>>>>, <<0>>, None, Roomy) : a \in MCDocuments, p \in Paths}
  \cup {Call(<<<<<<1>>, <<3, 5>>, <<8>>>>, <<<<1>>, <<4>>, <<>>>>>>, p[1], p[2],
             <<<<0, 1>>, <<1>>>>, <<0, 1>>, p[3], l) : p \in Paths, l \in MCLimits}

View(c, d, k, b, raw) == [coordinate |-> Coordinate(c, d, k, b), raw |-> raw]
MCViews ==
  {View(c, d, "All", TRUE, raw) : c \in {"OntologyAnnotations", "Axioms", "Extensions"},
                                  d \in {0, 1, Closure}, raw \in BOOLEAN}
  \cup {View("Signature", d, kb[1], kb[2], FALSE) :
          d \in {0, Closure}, kb \in {<<"All", TRUE>>, <<"All", FALSE>>, <<"Class", FALSE>>}}
MCPageSizes == {<<2, 2>>, <<1, 9>>}
=============================================================================
