------------------------------ MODULE MCBuild -------------------------------
(***************************************************************************)
(* Instances of Build: small corpora from every kind of source, with       *)
(* staging, threads, closure, planes, depths, old files, missing payloads  *)
(* and short files varied one or two at a time.                            *)
(***************************************************************************)
EXTENDS Build, TLC

\* Four rows, two clusters, two threads, chunks of two rows, everything in RAM.
InRam == [budget |-> 1000, wbuf |-> 2, cbuf |-> 2, max_dedicated |-> 1, disk |-> 100]

Base ==
  [kind |-> "mem", n |-> 4, k |-> 2, hw |-> 2, shards |-> <<>>, size |-> 2, limit |-> 4,
   staging |-> 0, passes |-> 1, nearest |-> <<1, 2, 2, 1>>,
   targets |-> <<{1}, {2}, {1, 2}, {1}>>, label |-> <<1, 1, 0, 2>>, number |-> <<1, 2, 1, 3>>,
   payload |-> FALSE, bare |-> {}, plane |-> "none", leaf_cap |-> 1, stage |-> InRam,
   mode |-> "on", cap |-> 0, depth |-> 2, super |-> <<1, 1>>, k_l1 |-> 1,
   old |-> FALSE, bitmap |-> 50, codebook |-> TRUE, pca |-> TRUE]

\* Every closure of four rows over two clusters.
Routings == {[Base EXCEPT !.targets = t, !.leaf_cap = 2] : t \in [1 .. 4 -> {{1}, {2}, {1, 2}}]}

Spilling(b, w, c, d, room) == [budget |-> b, wbuf |-> w, cbuf |-> c, max_dedicated |-> d, disk |-> room]

\* Everything to disk at once, the arenas after one or two records; no, one or two
\* dedicated buffers; a disk that fills up.
Staged ==
  {[Base EXCEPT !.stage = Spilling(b, w, c, d, room), !.leaf_cap = 2, !.payload = TRUE] :
     b \in {0, 10, 20}, w \in {1, 3}, c \in {1, 2}, d \in 0 .. 2, room \in {2, 100}}

Seven ==
  [Base EXCEPT !.n = 7, !.k = 3, !.nearest = <<1, 2, 3, 1, 2, 3, 1>>,
     !.targets = <<{1}, {2, 3}, {3}, {1, 3}, {2}, {1}, {3}>>, !.label = <<1, 2, 1, 3, 0, 1, 2>>,
     !.number = <<1, 2, 3, 4, 1, 2, 5>>, !.size = 3, !.leaf_cap = 2, !.limit = 7,
     !.super = <<2, 1, 2>>, !.k_l1 = 2]

StagedSeven ==
  {[Seven EXCEPT !.stage = Spilling(b, 2, c, d, room), !.leaf_cap = 3, !.plane = "leaf", !.hw = 3] :
     b \in {0, 10, 30}, c \in 1 .. 2, d \in 1 .. 2, room \in {6, 100}}

\* Depths and planes, over an old tree; a cluster, and so a group, without rows.
Shapes ==
  {[Seven EXCEPT !.depth = d, !.plane = p, !.hw = h, !.payload = TRUE, !.old = TRUE] :
     d \in {2, 3}, p \in {"none", "blob", "leaf"}, h \in {1, 3}}
  \cup {[Seven EXCEPT !.depth = d, !.leaf_cap = 1,
            !.targets = <<{1}, {3}, {3}, {1, 3}, {3}, {1}, {3}>>] : d \in {2, 3}}
  \cup {[Seven EXCEPT !.hw = 1, !.pca = p, !.codebook = ~p] : p \in BOOLEAN}

\* Statistics on, off or decided on the way, with and without a cap.
Tables ==
  {[Seven EXCEPT !.mode = m, !.cap = c, !.hw = h, !.leaf_cap = 3] :
     m \in {"on", "auto", "off"}, c \in {0, 1, 2, 4}, h \in {1, 2}}

\* A prefetched file, whole or cut at some moment.
Files ==
  {[Seven EXCEPT !.kind = "fbin", !.passes = 2, !.size = s, !.limit = l, !.hw = 1] : s \in {2, 3}, l \in {4, 7}}

\* Everything spilled, some of it, nothing.
Pushed ==
  {[Seven EXCEPT !.kind = "push", !.staging = s, !.size = 2, !.payload = TRUE, !.hw = 2] : s \in {0, 3, 20}}

\* Shards read one after the other, or in the Lloyd passes by two readers.
Globs ==
  {[Seven EXCEPT !.kind = "glob", !.shards = s, !.size = 2, !.hw = h] : s \in {<<4, 3>>, <<2, 1, 4>>, <<7>>}, h \in {1, 2}}

\* No rows; many Lloyd passes; a chunk without payloads; a bitmap that is too small for
\* the tree, or for its plane.
Odd ==
  {[Base EXCEPT !.n = 0],
   [Base EXCEPT !.passes = 5, !.hw = 1],
   [Base EXCEPT !.payload = TRUE, !.bare = {2}],
   [Seven EXCEPT !.bitmap = 10],
   [Seven EXCEPT !.plane = "blob", !.bitmap = 15, !.hw = 1, !.old = TRUE]}

MCBuilds == Routings \cup Staged \cup StagedSeven \cup Shapes \cup Tables \cup Files \cup Pushed \cup Globs \cup Odd

\* Both leaves of four rows in the first of two clusters.
MCSkewed == {[Base EXCEPT !.targets = <<{1}, {1}, {1}, {1}>>, !.leaf_cap = 2]}
=============================================================================
