----------------------------- MODULE TreeSearch -----------------------------
(***************************************************************************)
(* Routing, shortlist and result selection of a tree search                *)
(* (src/src/tree/ivf_tree_search.cpp), as operators over an open index ix, *)
(* a query q and a search configuration cfg.  search is what one query     *)
(* alone returns; BatchSearch runs many of them on the scan pool.          *)
(*                                                                         *)
(* A predicate list is one value, Nil when empty.  A summary is the set of *)
(* predicates it may match, distances and scan keys are integers, fractions*)
(* are percentages and selectivities are per mille.                        *)
(***************************************************************************)
EXTENDS ScanHeap, SequencesExt, FiniteSetsExt

CONSTANTS Nil

\* ix.root     the root's child entries: [leaf, child, pages, may, dist], child a
\*             leaf or a node, or Nil for an empty child
\* ix.node     the child entries of every internal node
\* ix.leaf     every leaf: [page, may, rows]; a row is [row, match, key, dist],
\*             its id, the predicates it satisfies, its scan key and its reranked
\*             distance per query
\* ix.depth, ix.n_probe_l0, ix.n_probe_ln, ix.fraction, ix.gap   the manifest
\* ix.sel      selectivity per predicate; ix.card: a cardinality table gave it
\* ix.kernel   the scan kernel: [coder, lanes]
\* ix.plane    the plane's candidate leaves per query, or Nil
\* cfg         [pred, fraction, n_probe, n_probe_ln, gap, W, rerank, tau,
\*              use_plane, threads]

-----------------------------------------------------------------------------
(* Routing *)

\* A set as a sequence, by a strict total order on it.
SortedBy(S, Less(_, _)) == SortSeq(FoldSet(LAMBDA e, seq : Append(seq, e), <<>>, S), Less)

MayMatch(x, pred) == pred = Nil \/ pred \in x.may

\* The entries that may match, nearest first, as positions.
Scored(entries, q, pred) ==
    SortedBy({i \in DOMAIN entries : MayMatch(entries[i], pred)},
                 LAMBDA i, j : \/ entries[i].dist[q] < entries[j].dist[q]
                               \/ entries[i].dist[q] = entries[j].dist[q] /\ i < j)

\* The first n of order, cut where the distance jumps by more than the gap factor.
WithinGap(entries, order, n, q, gap) ==
    LET far == {j \in 2..n : /\ gap > 0
                             /\ entries[order[j]].dist[q] > gap * entries[order[j - 1]].dist[q]}
    IN  SubSeq(order, 1, IF far = {} THEN n ELSE Min(far) - 1)

Pick(entries, order) == [j \in DOMAIN order |-> entries[order[j]]]

Gap(ix, cfg) ==
    IF cfg.gap < 0 THEN 0 ELSE IF cfg.gap > 0 THEN cfg.gap ELSE ix.gap

\* 0 when an absolute probe count is asked for.
Fraction(ix, cfg) ==
    IF cfg.n_probe # 0 THEN 0 ELSE IF cfg.fraction > 0 THEN cfg.fraction ELSE ix.fraction

\* How many children of an internal node a descent may take.
NodeProbes(ix, cfg, n) ==
    LET p == IF cfg.n_probe_ln > 0 THEN cfg.n_probe_ln
             ELSE IF ix.n_probe_ln > 0 THEN ix.n_probe_ln ELSE 4
    IN  IF Fraction(ix, cfg) > 0 THEN n ELSE Min({p, n})

expand_probe_(ix, node, q, cfg) ==
    LET entries == ix.node[node]
        order   == Scored(entries, q, cfg.pred)
        near    == WithinGap(entries, order, NodeProbes(ix, cfg, Len(order)), q, Gap(ix, cfg))
    IN  SelectSeq(Pick(entries, near), LAMBDA e : e.child # Nil)

Selectivity(ix, cfg) == IF cfg.pred = Nil THEN 1000 ELSE ix.sel[cfg.pred]

\* Below one per cent the caller runs search_brute_force_filtered instead.
Extreme(cfg, sel) == cfg.pred # Nil /\ sel > 0 /\ sel < 10

\* At twenty per cent or less every root child that may match is entered.
Directed(ix, cfg) == cfg.pred # Nil /\ Selectivity(ix, cfg) <= 200

Pages(entries, order) == FoldLeft(LAMBDA sum, i : sum + entries[i].pages, 0, order)

\* Nearest children until their pages reach the fraction of all scored pages.
CoverageCut(ix, order, fraction) ==
    LET budget == (fraction * Pages(ix.root, order)) \div 100
        enough == {n \in DOMAIN order : Pages(ix.root, SubSeq(order, 1, n)) >= budget}
    IN  IF enough = {} THEN order ELSE SubSeq(order, 1, Min(enough))

\* Mutant: a selective predicate does not widen the probe.
FrontierUndirected(ix, q, cfg) ==
    Pick(ix.root, CoverageCut(ix, Scored(ix.root, q, cfg.pred), Fraction(ix, cfg)))

RootFrontier(ix, q, cfg) ==
    LET order == Scored(ix.root, q, cfg.pred)
        n     == IF cfg.n_probe > 0 THEN cfg.n_probe ELSE ix.n_probe_l0
    IN  IF Directed(ix, cfg) THEN Pick(ix.root, order)
        ELSE IF Fraction(ix, cfg) > 0
             THEN Pick(ix.root, CoverageCut(ix, order, Fraction(ix, cfg)))
             ELSE Pick(ix.root, WithinGap(ix.root, order, Min({n, Len(order)}), q, Gap(ix, cfg)))

\* One level down; a level that yields nothing ends the descent where it is.
DescendLevel(ix, q, cfg, frontier) ==
    LET below == FlattenSeq([i \in DOMAIN frontier |->
                    IF frontier[i].leaf THEN <<frontier[i]>>
                    ELSE IF frontier[i].child = Nil THEN <<>>
                    ELSE expand_probe_(ix, frontier[i].child, q, cfg)])
    IN  IF below = <<>> THEN frontier ELSE below

Descend(ix, q, cfg) ==
    FoldLeft(LAMBDA f, level : DescendLevel(ix, q, cfg, f),
             RootFrontier(ix, q, cfg), [level \in 1..ix.depth - 1 |-> level])

\* Leaf candidates before their own summaries are read.
LeafCandidates(ix, q, cfg) ==
    LET leaves == SelectSeq(Descend(ix, q, cfg), LAMBDA e : e.leaf /\ e.child # Nil)
    IN  [i \in DOMAIN leaves |-> leaves[i].child]

PruneLeaves(ix, cfg, leaves) == SelectSeq(leaves, LAMBDA l : MayMatch(ix.leaf[l], cfg.pred))

Routed(leaves, read, sel) ==
    [status |-> IF leaves = <<>> THEN "Empty" ELSE "Ok", leaves |-> leaves,
     read |-> read, sel |-> sel]

\* read: the leaves whose summaries the routing has to pin, in order.
route_query_(ix, q, cfg) ==
    LET sel == Selectivity(ix, cfg)
        all == LeafCandidates(ix, q, cfg)
    IN  IF Extreme(cfg, sel)
        THEN [status |-> "FallbackFiltered", leaves |-> <<>>, read |-> <<>>, sel |-> sel]
        ELSE Routed(PruneLeaves(ix, cfg, all),
                    IF cfg.pred = Nil THEN <<>> ELSE all, sel)

PlaneActive(ix, cfg) == ix.plane # Nil /\ cfg.use_plane

PlaneSelectivity(ix, cfg) == IF ix.card THEN Selectivity(ix, cfg) ELSE 1000

\* Stage one by the routing plane, then the same fallback and pruning.
PlaneRouted(ix, q, cfg) ==
    LET sel == PlaneSelectivity(ix, cfg)
    IN  IF Extreme(cfg, sel)
        THEN [status |-> "FallbackFiltered", leaves |-> <<>>, read |-> <<>>, sel |-> sel]
        ELSE Routed(PruneLeaves(ix, cfg, ix.plane[q]),
                    IF cfg.pred = Nil THEN <<>> ELSE ix.plane[q], sel)

Route(ix, q, cfg) ==
    IF PlaneActive(ix, cfg) THEN PlaneRouted(ix, q, cfg) ELSE route_query_(ix, q, cfg)

-----------------------------------------------------------------------------
(* The shortlist *)

\* Its width: wider under predicates, which are evaluated after the scan.
Width(cfg, k, sel) ==
    LET base == Max({IF cfg.W > 0 THEN cfg.W ELSE 1000, k})
    IN  IF cfg.pred = Nil THEN base
        ELSE Max({base, IF sel > 1 THEN (2000 * k) \div sel ELSE 200 * k, 10 * k})

\* What scan_leaf offers to the heap of a query that probes the leaf as its slot.
Candidates(ix, q, leaf, slot) ==
    [i \in DOMAIN ix.leaf[leaf].rows |->
        [key |-> ix.leaf[leaf].rows[i].key[q], slot |-> slot, idx |-> i]]

-----------------------------------------------------------------------------
(* Results *)

Satisfies(row, pred) == pred = Nil \/ pred \in row.match

\* A row that closure stored in several leaves keeps its nearest copy.
NearestCopies(R) == {r \in R : \A s \in R : s.row = r.row => r.dist <= s.dist}

\* With a shortlist gap, results past k are kept until one is further from the
\* k-th than tau typical gaps; for k = 1 the typical gap is 0/0 and nothing is cut.
Keep(ranked, k, cfg) ==
    LET dk  == ranked[k].dist
        far == {w \in k + 1..Len(ranked) :
                    (ranked[w].dist - dk) * (k - 1) > cfg.tau * (dk - ranked[1].dist)}
    IN  IF ~(cfg.tau > 0 /\ cfg.rerank /\ Len(ranked) > k) THEN Min({k, Len(ranked)})
        ELSE IF k = 1 \/ far = {} THEN Len(ranked) ELSE Min(far) - 1

\* Ties go to the higher row id.
cut_topk_results_(R, k, cfg) ==
    LET ranked == SortedBy(NearestCopies(R),
                    LAMBDA a, b : a.dist < b.dist \/ (a.dist = b.dist /\ a.row > b.row))
    IN  SubSeq(ranked, 1, Keep(ranked, k, cfg))

\* Survivors of the scan, filtered, reranked and cut.
finalize_query_(ix, q, k, cfg, leaves, heap) ==
    LET Row(e) == ix.leaf[leaves[e.slot]].rows[e.idx]
    IN  cut_topk_results_(
            {[row |-> Row(e).row, dist |-> IF cfg.rerank THEN Row(e).dist[q] ELSE e.key] :
                e \in {f \in heap : Satisfies(Row(f), cfg.pred)}}, k, cfg)

Leaves(entries) == {e.child : e \in {f \in Range(entries) : f.leaf /\ f.child # Nil}}
AllLeaves(ix)   == Leaves(ix.root) \cup UNION {Leaves(ix.node[n]) : n \in DOMAIN ix.node}

\* Every matching row of every leaf that may match, by distance alone and without
\* removing replicas: any order of equal distances may come out.
search_brute_force_filtered(ix, q, k, cfg) ==
    LET found == UNION {{[row |-> ix.leaf[l].rows[i].row, dist |-> ix.leaf[l].rows[i].dist[q],
                          at |-> <<l, i>>] :
                            i \in {j \in DOMAIN ix.leaf[l].rows :
                                        Satisfies(ix.leaf[l].rows[j], cfg.pred)}} :
                        l \in {m \in AllLeaves(ix) : MayMatch(ix.leaf[m], cfg.pred)}}
        sorted == {s \in SetToSeqs(found) : \A i \in 2..Len(s) : s[i - 1].dist <= s[i].dist}
    IN  {[i \in 1..Min({k, Len(s)}) |-> [row |-> s[i].row, dist |-> s[i].dist]] : s \in sorted}

\* The shortlist a scan of the leaves is meant to give, in any order.
Shortlist(ix, q, leaves, w) ==
    Smallest(UNION {Range(Candidates(ix, q, leaves[slot], slot)) : slot \in DOMAIN leaves}, w)

\* What search() may return for one query, once it is routed, and from the start.
Answers(ix, q, k, cfg, r) ==
    CASE r.status = "Empty"            -> {<<>>}
      [] r.status = "FallbackFiltered" -> search_brute_force_filtered(ix, q, k, cfg)
      [] r.status = "Ok"               ->
            {finalize_query_(ix, q, k, cfg, r.leaves,
                             Shortlist(ix, q, r.leaves, Width(cfg, k, r.sel)))}

search(ix, q, k, cfg) == UNION {Answers(ix, q, k, cfg, r) : r \in {Route(ix, q, cfg)}}

=============================================================================
