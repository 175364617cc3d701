--------------------------- MODULE MCBatchSearch ---------------------------
(* Instances of BatchSearch for TLC: a tree of two nodes and four leaves   *)
(* with a replicated row and equal scan keys, and the calls on it.         *)
EXTENDS BatchSearch

CONSTANTS j1, j2, f1, f2, x, y, A, B, C, D, n1, n2, m, half, some, rare, absent

Per(a, b) == (x :> a) @@ (y :> b)
RowOf(id, match, key, dist) == [row |-> id, match |-> match, key |-> key, dist |-> dist]
Entry(leaf, child, pages, may, dist) ==
    [leaf |-> leaf, child |-> child, pages |-> pages, may |-> may, dist |-> dist]

LeafA == [page |-> 5, may |-> {half, some}, rows |->
            <<RowOf(1, {half, some}, Per(2, 4), Per(9, 4)), RowOf(2, {half}, Per(2, 2), Per(5, 6))>>]
LeafB == [page |-> 6, may |-> {half, some, rare}, rows |->
            <<RowOf(2, {half}, Per(3, 2), Per(4, 7)), RowOf(3, {some, rare}, Per(2, 1), Per(1, 5)),
              RowOf(6, {half}, Per(2, 3), Per(6, 8))>>]
LeafC == [page |-> 3, may |-> {half, some, rare}, rows |-> <<RowOf(4, {half, rare}, Per(1, 2), Per(7, 1))>>]
LeafD == [page |-> 1, may |-> {half, some}, rows |-> <<RowOf(5, {some}, Per(2, 3), Per(2, 2))>>]

Node1 == <<Entry(TRUE, A, 1, {half, some}, Per(2, 3)), Entry(TRUE, B, 1, {half, some, rare}, Per(2, 9))>>
Node2 == <<Entry(TRUE, Nil, 0, {}, Per(9, 1)), Entry(TRUE, C, 1, {half, some, rare}, Per(5, 2))>>

Wide(plane) ==
    [root |-> <<Entry(FALSE, n1, 2, {half, some, rare}, Per(1, 4)), Entry(TRUE, D, 1, {half, some}, Per(2, 2)),
                Entry(FALSE, n2, 1, {half, some, rare}, Per(7, 1)), Entry(FALSE, Nil, 0, {half, some, rare}, Per(3, 3))>>,
     node |-> (n1 :> Node1) @@ (n2 :> Node2),
     leaf |-> (A :> LeafA) @@ (B :> LeafB) @@ (C :> LeafC) @@ (D :> LeafD),
     depth |-> 2, n_probe_l0 |-> 2, n_probe_ln |-> 1, fraction |-> 60, gap |-> 0,
     sel |-> (half :> 500) @@ (some :> 150) @@ (rare :> 5) @@ (absent :> 15), card |-> TRUE, plane |-> plane,
     kernel |-> [coder |-> "pq", lanes |-> 2]]

Deep ==
    [Wide(Nil) EXCEPT
        !.root = <<Entry(FALSE, m, 4, {half, some, rare}, Per(1, 1)), Entry(TRUE, D, 1, {half, some}, Per(3, 1))>>,
        !.node = (m :> <<Entry(FALSE, n1, 2, {half, some, rare}, Per(1, 3)), Entry(FALSE, n2, 1, {half, some, rare}, Per(3, 1))>>)
                    @@ (n1 :> Node1) @@ (n2 :> Node2),
        !.depth = 3, !.n_probe_ln = 0]

\* Scalar codes, scanned by portable code or by vectors of two lanes.
Scalar(lanes) == [Wide(Nil) EXCEPT !.kernel = [coder |-> "scalar", lanes |-> lanes]]

\* The far row of a leaf enters the heap in place of a nearer one of another leaf.
Flushed == [Scalar(2) EXCEPT !.leaf[D].rows[1].key[x] = 4,
                             !.leaf[A].rows[1].key[x] = 0, !.leaf[A].rows[2].key[x] = 3]

Planar == Wide(Per(<<B, D, A>>, <<C, B>>))

Config(pred, fraction, n_probe, gap, W, tau, threads) ==
    [pred |-> pred, fraction |-> fraction, n_probe |-> n_probe, n_probe_ln |-> 0, gap |-> gap,
     W |-> W, rerank |-> TRUE, tau |-> tau, use_plane |-> TRUE, threads |-> threads]

Batch(queries, k, cfg)  == [batch |-> TRUE, queries |-> queries, k |-> k, cfg |-> cfg,
                            preds |-> Nil, fractions |-> Nil, nested |-> FALSE,
                            inner |-> SubSeq(<<f1, f2>>, 1, Len(queries))]
Single(query, k, cfg)   == [Batch(<<query>>, k, cfg) EXCEPT !.batch = FALSE, !.inner = <<>>]
Own(c, preds, fractions) == [c EXCEPT !.preds = preds, !.fractions = fractions]

Case(index, pool, cache, fails, calls) == <<index, pool, cache, fails, calls>>
ModesOf(cases) == {Mode(c[1], c[2], c[3], c[4], c[5]) :
                       c \in {[d EXCEPT ![5] = WithFallbacks(d[1], @)] : d \in cases}}

SoundCases == {
    \* Two queries, every leaf, two workers, a shortlist smaller than the tree.
    Case(Wide(Nil), 2, FALSE, FALSE, j1 :> Batch(<<x, y>>, 1, Config(Nil, 100, 0, 0, 2, 0, 2))),
    \* Scalar codes, one worker.
    Case(Scalar(0), 1, FALSE, FALSE, j1 :> Batch(<<x, y>>, 1, Config(Nil, 100, 0, 0, 2, 0, 1))),
    \* Probe counts, gap pruning and an adaptive shortlist, with the cache on.
    Case(Wide(Nil), 1, TRUE, FALSE, j1 :> Batch(<<x, y>>, 2, Config(Nil, 0, 2, 2, 4, 3, 1))),
    \* Three levels and probe counts, no reranking.
    Case(Deep, 2, TRUE, FALSE,
         j1 :> Batch(<<y, x>>, 1, [Config(Nil, 0, 2, -1, 3, 0, 2) EXCEPT !.rerank = FALSE])),
    \* Each query with its own predicate and fraction.
    Case(Wide(Nil), 2, TRUE, FALSE,
         j1 :> Own(Batch(<<x, y>>, 1, Config(Nil, 50, 1, 0, 2, 0, 2)), <<half, Nil>>, <<0, 60>>)),
    \* A selective predicate, and one so selective that every query falls back.
    Case(Wide(Nil), 2, TRUE, FALSE, j1 :> Batch(<<x, y>>, 2, Config(some, 20, 0, 0, 2, 0, 2))),
    Case(Wide(Nil), 2, FALSE, FALSE, j1 :> Batch(<<x, y>>, 1, Config(rare, 20, 0, 0, 2, 0, 2))),
    \* A query's own predicate makes it fall back, to a search in shards, with a second
    \* pool thread and without.
    Case(Wide(Nil), 2, FALSE, FALSE,
         j1 :> Own(Batch(<<x, y>>, 1, Config(Nil, 100, 0, 0, 2, 0, 2)), <<rare, half>>, Nil)),
    Case(Wide(Nil), 1, TRUE, FALSE,
         j1 :> Own(Batch(<<x, y>>, 1, Config(half, 60, 0, 0, 2, 0, 2)), <<half, rare>>, Nil)),
    \* Two batches that share one pool thread and the stream.
    Case(Wide(Nil), 1, FALSE, FALSE, (j1 :> Batch(<<x>>, 1, Config(Nil, 60, 0, 0, 2, 0, 2)))
                                     @@ (j2 :> Batch(<<y>>, 1, Config(Nil, 30, 0, 0, 2, 0, 2)))),
    \* A split search beside a batch, with a filter and the cache on.
    Case(Wide(Nil), 2, TRUE, FALSE, (j1 :> Single(x, 1, Config(half, 100, 0, 0, 2, 0, 3)))
                                    @@ (j2 :> Batch(<<y>>, 1, Config(half, 30, 0, 0, 2, 0, 1)))),
    \* Searches that end in the routing.
    Case(Wide(Nil), 1, TRUE, FALSE, (j1 :> Single(x, 1, Config(absent, 50, 0, 0, 2, 0, 2)))
                                    @@ (j2 :> Single(y, 2, Config(rare, 50, 0, 0, 2, 0, 1)))),
    \* A serial search whose shortlist holds every row, with vectors.
    Case(Scalar(2), 1, TRUE, FALSE, j1 :> Single(x, 2, Config(half, 100, 0, 0, 4, 2, 1))),
    \* Vectors with a shortlist smaller than the tree.
    Case(Flushed, 1, FALSE, FALSE, j1 :> Batch(<<x, y>>, 2, Config(Nil, 100, 0, 0, 2, 0, 1))),
    \* Reads that fail, and fills of the cache that throw: in one worker, in two beside
    \* each other, in a search in shards, and in a search fallen back to.
    Case(Wide(Nil), 1, TRUE, TRUE, j1 :> Batch(<<x, y>>, 1, Config(half, 60, 0, 0, 2, 0, 1))),
    Case(Wide(Nil), 2, TRUE, TRUE, j1 :> Batch(<<x, y>>, 1, Config(half, 60, 0, 0, 2, 0, 2))),
    Case(Wide(Nil), 2, TRUE, TRUE, j1 :> Single(x, 1, Config(Nil, 100, 0, 0, 2, 0, 2))),
    Case(Wide(Nil), 1, TRUE, TRUE,
         j1 :> Own(Batch(<<x>>, 1, Config(Nil, 60, 0, 0, 2, 0, 1)), <<rare>>, Nil)),
    Case(Wide(Nil), 1, FALSE, TRUE, j1 :> Batch(<<x, y>>, 1, Config(Nil, 100, 0, 0, 2, 0, 1))),
    \* The routing plane, for a batch and a search.
    Case(Planar, 2, TRUE, FALSE, (j1 :> Batch(<<y>>, 1, Config(Nil, 0, 0, 0, 2, 0, 1)))
                                 @@ (j2 :> Single(x, 1, Config(half, 0, 0, 0, 2, 0, 2)))),
    \* A filtered batch over the plane leaves its summaries pinned.
    Case(Planar, 2, TRUE, FALSE, j1 :> Batch(<<x>>, 1, Config(half, 0, 0, 0, 2, 0, 2))),
    \* The plane's candidates are swept even when every query falls back.
    Case(Planar, 1, TRUE, FALSE, j1 :> Batch(<<y, x>>, 1, Config(rare, 0, 0, 0, 2, 0, 2)))}

Sound == ModesOf(SoundCases)

=============================================================================
