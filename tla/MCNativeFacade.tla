--------------------------- MODULE MCNativeFacade ---------------------------
EXTENDS NativeFacade, TLC

Row(digest, key, occ, enc, len, spare) ==
  [digest |-> digest, key |-> key, occ |-> occ, enc |-> enc, len |-> len, cap |-> len + spare, ok |-> TRUE]
Vec(rows, spare) == [rows |-> rows, cap |-> Len(rows) + spare]
Listed(docs, spare) == [docs |-> docs, cap |-> Len(docs) + spare]

\* Documents 1 and 2, whose keys are in the other order.
KeyOf(d) == 3 - d
OriginVecs(d) == {Vec(<<>>, 0), Vec(<<>>, 2),
                  Vec(<<Row(1, KeyOf(d), 1, 1, 2, 0), Row(1, KeyOf(d), 2, 1, 3, 1)>>, 0),
                  Vec(<<Row(1, KeyOf(d), 1, 1, 2, 0), Row(2, KeyOf(d), 1, d, 2, 1)>>, 1)}
RawVecs(d) == {Vec(<<Row(2, KeyOf(d), 2, 1, 2, 0), Row(2, KeyOf(d), 1, 1, 2, 0)>>, 1), Vec(<<>>, 1)}
SourceMaps == {[entries |-> Vec(<<Row(1, 0, 1, 1, 3, 1), Row(1, 0, 2, 1, 2, 0)>>, 1), prefixes |-> Vec(<<Row(0, 1, 0, 0, 1, 0)>>, 0)],
               [entries |-> Vec(<<>>, 1), prefixes |-> Vec(<<>>, 0)]}
ReportOf(consumed, total, conformant, triples) ==
  [consumed |-> consumed, total |-> total, conformant |-> conformant, triples |-> triples,
   rules |-> Vec(<<Row(1, 0, 0, 0, 2, 0)>>, 1), diagnostics |-> Vec(<<>>, 1)]
RdfReports == {None, ReportOf(1, 2, FALSE, Vec(<<Row(1, 0, 0, 0, 4, 2)>>, 0)), ReportOf(2, 2, TRUE, Vec(<<>>, 2))}

\* The attestation a correct caller computes.
Lens(vecs) == UNION {{r.len : r \in Range(v.rows)} : v \in vecs}
Attestation(o, raw, s, r) ==
  LET reports == SelectSeq(Documents(r), LAMBDA x : x # None)
      vecs == Range(Documents(o)) \cup Range(Documents(raw))
              \cup UNION {{x.entries, x.prefixes} : x \in Range(Documents(s))}
              \cup UNION {{x.triples, x.rules, x.diagnostics} : x \in Range(reports)}
  IN  [documents |-> 2, maximum |-> Max({2} \cup Lens(vecs) \cup (IF reports = <<>> THEN {} ELSE {17})),
       bits |-> 7 + (IF s # None THEN 8 ELSE 0) + (IF o # None THEN 16 ELSE 0) + (IF reports # <<>> THEN 32 ELSE 0),
       sourceEntries |-> Sum(Documents(s), LAMBDA x : Len(x.entries.rows)),
       originEntries |-> RowCount(Documents(IF raw = None THEN o ELSE raw)), reports |-> Len(reports), bytes |-> 1]

Prepare(o, raw, s, r) ==
  [origins |-> o, raw |-> raw, sources |-> s, rdf |-> r, count |-> 2, workspace |-> None, memory |-> None,
   parser |-> 1, att |-> Attestation(o, raw, s, r), calls |-> 0]

Pairs(S(_)) == {<<a, b>> : a \in S(1), b \in S(2)}
Optional(pairs) == {None} \cup {Listed(p, 1) : p \in pairs}
Valid ==
  {Prepare(o, None, s, r) : o \in Optional(Pairs(OriginVecs)),
                            s \in Optional(Pairs(LAMBDA d : SourceMaps)), r \in Optional(Pairs(LAMBDA d : RdfReports))}
  \cup {Prepare(Listed(o, 0), Listed(raw, 2), None, None) : o \in Pairs(OriginVecs), raw \in Pairs(RawVecs)}

\* One preparation with everything, and ways to get it wrong.
Full == Prepare(Listed(<<Vec(<<Row(1, 2, 1, 1, 2, 0), Row(1, 2, 2, 1, 3, 1)>>, 0), Vec(<<Row(1, 1, 1, 1, 2, 0)>>, 0)>>, 1),
                Listed(<<Vec(<<Row(2, 2, 2, 1, 2, 0)>>, 1), Vec(<<>>, 1)>>, 0),
                Listed(<<[entries |-> Vec(<<Row(1, 0, 1, 1, 3, 1), Row(2, 0, 2, 1, 2, 0)>>, 1),
                          prefixes |-> Vec(<<Row(0, 1, 0, 0, 1, 0), Row(0, 2, 0, 0, 1, 0)>>, 0)],
                         [entries |-> Vec(<<>>, 0), prefixes |-> Vec(<<>>, 0)]>>, 0),
                Listed(<<None, ReportOf(1, 2, FALSE, Vec(<<Row(1, 0, 0, 0, 4, 2)>>, 0))>>, 0))
Swap(vec) == [vec EXCEPT !.rows = <<@[2], @[1]>>]
Malformed ==
  {[Full EXCEPT !.origins.docs[1] = Swap(@)], [Full EXCEPT !.origins.docs[2].rows[1].key = 2],
   [Full EXCEPT !.origins.docs[1].rows[2].key = 1], [Full EXCEPT !.origins.docs[1].rows[1].len = 1],
   [Full EXCEPT !.origins.docs[1].rows[1].ok = FALSE], [Full EXCEPT !.raw.docs[1].rows[1].ok = FALSE],
   [Full EXCEPT !.origins = None], [Full EXCEPT !.origins.docs = Tail(@)],
   [Full EXCEPT !.sources.docs[1].entries = Swap(@)], [Full EXCEPT !.sources.docs[1].prefixes = Swap(@)],
   [Full EXCEPT !.sources.docs[1].prefixes.rows[2].key = 1], [Full EXCEPT !.rdf.docs[2].consumed = 3],
   [Full EXCEPT !.rdf.docs[2].conformant = TRUE], [Full EXCEPT !.rdf.docs[2].triples.rows[1].len = 0],
   [Full EXCEPT !.parser = 2], [Full EXCEPT !.parser = 0], [Full EXCEPT !.count = 3]}
  \cup {[Full EXCEPT !.att[f] = @ + 1] : f \in {"documents", "maximum", "bits", "sourceEntries", "originEntries", "reports"}}
Tight == {[Full EXCEPT !.workspace = w] : w \in {0, 20, 40, 41, 60, 80, 100, 120}}
         \cup {[Full EXCEPT !.memory = b] : b \in {100, 150, 185, 186, 187, 200, 300}}
Concurrent == {[Prepare(None, None, None, None) EXCEPT !.calls = 4]}

MCPreparations == Valid \cup {Full} \cup Malformed \cup Tight \cup Concurrent
=============================================================================
