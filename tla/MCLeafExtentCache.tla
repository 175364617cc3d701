------------------------- MODULE MCLeafExtentCache -------------------------
(* Instances of LeafExtentCache for TLC.  Two searchers; three leaves, or   *)
(* two and the run of both, or plane rows that start at one page and have   *)
(* different lengths.                                                       *)
EXTENDS LeafExtentCache, TLC

Req(p, n, a) == [page |-> p, pages |-> n, aliases |-> a]

Leaves == {Req(1, 1, {}), Req(2, 1, {}), Req(3, 1, {})}
Runs   == {Req(1, 1, {}), Req(2, 1, {}), Req(1, 2, {2})}
Rows   == {Req(1, 1, {}), Req(1, 2, {}), Req(1, 3, {})}

Workload(requests, main, protected, invalidates) ==
    [requests |-> requests, max_main |-> main, max_protected |-> protected,
     invalidates |-> invalidates]

Sound == {Workload(Leaves, 1, 1, TRUE), Workload(Runs, 2, 1, FALSE), Workload(Rows, 2, 1, FALSE)}

PageIds == 1..3
Hotness == {0, 1}
Searchers == Permutations(Threads)

=============================================================================
