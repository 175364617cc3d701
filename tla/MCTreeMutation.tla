--------------------------- MODULE MCTreeMutation ---------------------------
(***************************************************************************)
(* Instances of TreeMutation and Fsck for TLC.                             *)
(***************************************************************************)
EXTENDS Fsck, TLC

CONSTANTS r1, r2, r3, r4, r5

\* A built index: its leaves, its last-level nodes, its callers' row ids, depth, leaf
\* capacity, payload column, shrink_file choices, the bound on the mutations, kills.
Index(tree, row_ids, depth, cap, payload, shrink, max_ops, kill_too) ==
  [leaves |-> tree[1], first |-> tree[2], rows |-> row_ids, depth |-> depth, leaf_capacity |-> cap,
   has_payload |-> payload, shrink_file |-> shrink, max_ops |-> max_ops,
   kill |-> kill_too]

Four == {r1, r2, r3, r4}

\* The leaves of a tree and the first leaf of each of its last-level nodes.
OneNode == <<<<{r1}, {r2}>>, <<1, 3>>>>
TwoNodes == <<<<{r1}, {r2}>>, <<1, 2, 3>>>>
Replicas == <<<<{r1, r2}, {r2}>>, <<1, 3>>>>
OneLeaf == <<<<{r1}>>, <<1, 2>>>>

\* The indexes on which the mutations are expected to be correct: depth 2 with
\* cascading splits, with leaves of two pages and with a row in two built leaves, depth 3 with splits, depth 1 with
\* file shrinks, and payload columns with a leaf capacity that never splits.
Sound == {Index(OneNode, Four, 2, 1, FALSE, {FALSE}, 3, FALSE),
          Index(OneNode, Rows, 2, 1, FALSE, {FALSE}, 2, FALSE),
          Index(OneNode, Four, 2, 2, FALSE, {FALSE}, 3, FALSE),
          Index(Replicas, Four, 2, 1, FALSE, {FALSE}, 3, FALSE),
          Index(TwoNodes, Rows, 3, 1, FALSE, {FALSE}, 2, FALSE),
          Index(OneLeaf, Four, 1, 1, FALSE, {TRUE}, 2, FALSE),
          Index(OneNode, Rows, 2, 2, TRUE, {FALSE}, 3, FALSE),
          Index(OneNode, Four, 2, 2, FALSE, {FALSE}, 2, TRUE),
          Index(OneLeaf, Four, 1, 1, FALSE, {FALSE}, 2, TRUE),
          Index(OneNode, Four, 2, 2, TRUE, {FALSE}, 2, TRUE)}

\* A payload column and leaves that split.
PayloadSplits == {Index(OneNode, Rows, 2, 1, TRUE, {FALSE}, 1, FALSE)}

\* Rows no built leaf holds are interchangeable.
FreshRows == Permutations({r3, r4})
=============================================================================
