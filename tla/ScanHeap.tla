------------------------------ MODULE ScanHeap ------------------------------
(***************************************************************************)
(* The bounded heap of a scan (src/src/tree/leaf_coder.hpp) and how the    *)
(* coders' kernels feed it (src/src/tree/coders).  Keys are computed by    *)
(* SIMD code and are given; which candidates survive is what is modelled.  *)
(*                                                                         *)
(* A heap of width w is the set of its real entries: the other slots hold  *)
(* sentinels, which sort last, so they are in front while there are any.   *)
(* The kernels' path for a heap with free slots runs only in feedback      *)
(* probing, which strips the sentinels, and is left out with it.           *)
(***************************************************************************)
EXTENDS Integers, Sequences, FiniteSets

heap_entry_less(a, b) ==
    \/ a.key < b.key
    \/ a.key = b.key /\ a.slot < b.slot
    \/ a.key = b.key /\ a.slot = b.slot /\ a.idx < b.idx

\* What a bounded heap is meant to hold: the w smallest of what it was offered, in
\* whatever order that came (heap_init).
Smallest(S, w) == {e \in S : Cardinality({f \in S : heap_entry_less(f, e)}) < w}

\* A sentinel is in front.
Vacant(h, w) == Cardinality(h) < w

\* The worst of the real entries.
heap_front(h) == CHOOSE e \in h : \A f \in h : ~heap_entry_less(e, f)

heap_should_replace(h, w, e) == Vacant(h, w) \/ heap_entry_less(e, heap_front(h))

heap_replace_top(h, w, e) == (IF Vacant(h, w) THEN h ELSE h \ {heap_front(h)}) \cup {e}

offer(h, w, e) == IF heap_should_replace(h, w, e) THEN heap_replace_top(h, w, e) ELSE h

\* The heap h after Step for each of items, in order.
Feed(Step(_, _), h, items) ==
    LET after[k \in 0..Len(items)] ==
            IF k = 0 THEN h ELSE UNION {Step(g, items[k]) : g \in {after[k - 1]}}
    IN  after[Len(items)]

offer_all(h, w, cands) == Feed(LAMBDA g, e : offer(g, w, e), h, cands)

\* Consecutive pieces of n candidates; the last may be shorter.
Blocks(cands, n) ==
    [b \in 1..((Len(cands) + n - 1) \div n) |->
        SubSeq(cands, (b - 1) * n + 1, IF b * n < Len(cands) THEN b * n ELSE Len(cands))]

\* Mutant: a block whose best key equals the front's is skipped too.
SkipLevelBlocks(h, w, cands, n) ==
    Feed(LAMBDA g, b :
            IF ~Vacant(g, w) /\ \A i \in DOMAIN b : b[i].key >= heap_front(g).key
            THEN g ELSE offer_all(g, w, b),
         h, Blocks(cands, n))

\* The PQ kernels: a block of codes is skipped when its smallest key is beyond the
\* front's, else its lanes are offered one by one.
scan_blocks(h, w, cands, n) ==
    Feed(LAMBDA g, b :
            IF ~Vacant(g, w) /\ \A i \in DOMAIN b : b[i].key > heap_front(g).key
            THEN g ELSE offer_all(g, w, b),
         h, Blocks(cands, n))

\* The scalar kernels buffer a leaf and flush it at its end.  The portable flush offers
\* one candidate after the other (lanes = 0).  The AVX-512 one compares whole vectors
\* with the front's key at the start of the flush: lanes below it replace the front
\* whatever the front is by then, lanes level with it are offered.
scalar_cand_flush(h, w, cands, lanes) ==
    LET whole == IF lanes = 0 THEN 0 ELSE (Len(cands) \div lanes) * lanes
        Below(e) == Vacant(h, w) \/ e.key < heap_front(h).key
        Level(e) == ~Vacant(h, w) /\ e.key = heap_front(h).key
        Vector(g, b) ==
            offer_all(Feed(LAMBDA f, e : heap_replace_top(f, w, e), g, SelectSeq(b, Below)),
                      w, SelectSeq(b, Level))
        vectors == IF whole = 0 THEN h
                   ELSE Feed(Vector, h, Blocks(SubSeq(cands, 1, whole), lanes))
    IN  offer_all(vectors, w, SubSeq(cands, whole + 1, Len(cands)))

\* The scan of a leaf's candidates, in slot order, by the index's coder.
scan_leaf(kernel, h, w, cands) ==
    CASE kernel.coder = "pq"     -> scan_blocks(h, w, cands, kernel.lanes)
      [] kernel.coder = "scalar" -> scalar_cand_flush(h, w, cands, kernel.lanes)

=============================================================================
