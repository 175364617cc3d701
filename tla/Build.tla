------------------------------- MODULE Build --------------------------------
(***************************************************************************)
(* Building a tree file from a vector source (src/tree/ivf_tree_build.cpp, *)
(* build_streaming_pca): training, Lloyd passes, the emission pass that    *)
(* routes rows to clusters and flushes leaves, the nodes and blobs above   *)
(* them, the superblock, and the attachment of a routing plane             *)
(* (ivf_tree_plane.cpp).                                                   *)
(*                                                                         *)
(* Concurrency: the main thread, the pool that runs the shard tasks of     *)
(* each step, the readers of a multi-shard source and the prefetch thread  *)
(* of a file source.  Vectors, codes, labels and payloads are the position *)
(* of their row in the corpus; which cluster is nearest to a row, and to   *)
(* which clusters its closure sends it, is part of the instance.           *)
(***************************************************************************)
EXTENDS VectorSource, ClusterStage, CardinalityTable

CONSTANT Builds      \* the instances: see MCBuild

VARIABLES
  inst,      \* the instance
  at,        \* where the main thread stands
  stager,    \* rows pushed through the C API
  src,       \* the source
  queue,     \* tasks waiting for a pool thread
  running,   \* tasks pool threads are working on
  lloyd,     \* [pass, done, t_counts, counts, next_shard, readers]
  chunk,     \* emission, per chunk: [offset, targets, routed, tbufs, todo]
  out,       \* emission and tree: [stage, staged, plane, leaves, root_to_leaves, spill, pages, l2, root, error]
  cards,     \* [global, shards]
  disk       \* the file beside the extents in out.pages: [sb, old, covered, bitmap]

vars == <<inst, at, stager, src, queue, running, lloyd, chunk, out, cards, disk>>

Clusters == 1 .. inst.k
Shards == 1 .. inst.hw

Final == {"done", "failed", "aborted"}

\* Whether the shards of the source are read by several threads at once.
Parallel == src.kind = "glob" /\ inst.hw >= 2 /\ Len(inst.shards) >= 2
Readers == 1 .. (IF inst.hw < Len(inst.shards) THEN inst.hw ELSE Len(inst.shards))

-----------------------------------------------------------------------------
\* The split of take rows into at most hw tasks, one per shard of rows.

Task(reader, take, t) ==
  LET n   == IF inst.hw < take THEN inst.hw ELSE take
      per == (take + n - 1) \div n
      to  == IF t * per < take THEN t * per ELSE take
  IN [sh |-> t, lo |-> (t - 1) * per + 1, hi |-> to, reader |-> reader, base |-> <<>>]

\* A task whose rows start past the end is not pushed.
Tasks(reader, take) ==
  SelectSeq([t \in 1 .. (IF inst.hw < take THEN inst.hw ELSE take) |-> Task(reader, take, t)],
            LAMBDA t : t.lo <= t.hi)

Joined == queue = <<>> /\ running = {}

Rows == src.bufs[src.buf]

Take == Len(src.chunks[Handed(src)])

\* A thread of the pool takes the first task.
pool_take ==
  /\ queue # <<>> /\ Cardinality(running) < inst.hw
  /\ running' = running \cup {[Head(queue) EXCEPT !.base = lloyd.t_counts[Head(queue).sh]]}
  /\ queue' = Tail(queue)
  /\ UNCHANGED <<inst, at, stager, src, lloyd, chunk, out, cards, disk>>

\* The prefetch thread of a file source.
prefetch_thread ==
  /\ src.live
  /\ src' = prefetch(src)
  /\ UNCHANGED <<inst, at, stager, queue, running, lloyd, chunk, out, cards, disk>>

\* The vector file holds fewer rows than its header says, from some moment on.
file_cut ==
  /\ src.kind = "fbin" /\ src.limit > inst.limit /\ at \notin Final
  /\ src' = [src EXCEPT !.limit = inst.limit]
  /\ UNCHANGED <<inst, at, stager, queue, running, lloyd, chunk, out, cards, disk>>

-----------------------------------------------------------------------------
\* Pushing rows (C API), resolving the parameters, training.

\* sextant_build_push: one row; the batch's other rows are further calls.
push ==
  /\ at = "push" /\ stager.rows < inst.n
  /\ stager' = end_row(stager, stager.rows + 1)
  /\ UNCHANGED <<inst, at, src, queue, running, lloyd, chunk, out, cards, disk>>

\* The caller gives the builder up instead.
sextant_build_abort ==
  /\ at = "push" /\ stager.rows < inst.n
  /\ at' = "aborted"
  /\ UNCHANGED <<inst, stager, src, queue, running, lloyd, chunk, out, cards, disk>>

sextant_build_finish ==
  /\ at = "push" /\ stager.rows = inst.n
  /\ src' = build_source(stager)
  /\ at' = "resolve"
  /\ UNCHANGED <<inst, stager, queue, running, lloyd, chunk, out, cards, disk>>

\* An exception leaves the build; the tasks of the pool are joined on the way.
Failed ==
  /\ at' = "unwind"
  /\ queue' = <<>> /\ running' = {}
  /\ UNCHANGED <<inst, stager, src, lloyd, chunk, out, cards, disk>>

\* The destructor of the stage finishes it and swallows what that throws.
unwind ==
  /\ at = "unwind"
  /\ out' = [out EXCEPT !.stage = finish(@)]
  /\ at' = "failed"
  /\ UNCHANGED <<inst, stager, src, queue, running, lloyd, chunk, cards, disk>>

resolve_build_params ==
  /\ at = "resolve"
  /\ \/ inst.n = 0 /\ Failed
     \/ /\ inst.n > 0
        /\ at' = "train"
        /\ src' = [reset(src) EXCEPT !.vector_only = TRUE]
        /\ UNCHANGED <<inst, stager, queue, running, lloyd, chunk, out, cards, disk>>

\* The loops over the source: next waits for the prefetch, and throws what it threw.
NextFails(place) == at = place /\ ~src.live /\ NextThrows(src) /\ Failed
CanNext(place) == at = place /\ ~src.live /\ ~NextThrows(src) /\ ~Exhausted(src)
NoMore(place) == at = place /\ ~src.live /\ ~NextThrows(src) /\ Exhausted(src)

train_sample ==
  /\ CanNext("train")
  /\ src' = next(src)
  /\ UNCHANGED <<inst, at, stager, queue, running, lloyd, chunk, out, cards, disk>>

\* The quantizer, the rotation and the first centroids are computed.
train_quantizer_and_pca ==
  /\ NoMore("train")
  /\ at' = "lloyd"
  /\ src' = reset(src)
  /\ UNCHANGED <<inst, stager, queue, running, lloyd, chunk, out, cards, disk>>

-----------------------------------------------------------------------------
\* Lloyd refinement.

ZeroCounts == [t \in Shards |-> [c \in Clusters |-> 0]]

lloyd_pass ==
  /\ at = "lloyd" /\ ~src.live
  /\ src' = reset(src)
  /\ lloyd' = [lloyd EXCEPT !.done = 0, !.t_counts = ZeroCounts, !.next_shard = 1,
                            !.readers = [r \in Readers |-> [rows |-> <<>>, left |-> <<>>, over |-> FALSE]]]
  /\ at' = IF Parallel THEN "lloyd_par" ELSE "lloyd_next"
  /\ UNCHANGED <<inst, stager, queue, running, chunk, out, cards, disk>>

\* The serial loop over the chunks.
lloyd_next ==
  /\ CanNext("lloyd_next") /\ lloyd.done < inst.n
  /\ src' = next(src)
  /\ queue' = Tasks(0, Len(src.chunks[src.nchunk]))
  /\ at' = "lloyd_wait"
  /\ UNCHANGED <<inst, stager, running, lloyd, chunk, out, cards, disk>>

lloyd_wait ==
  /\ at = "lloyd_wait" /\ Joined
  /\ lloyd' = [lloyd EXCEPT !.done = @ + Take]
  /\ at' = "lloyd_next"
  /\ UNCHANGED <<inst, stager, src, queue, running, chunk, out, cards, disk>>

\* Readers of a multi-shard source: each takes the next shard and hands its chunks to
\* the pool one after the other, waiting for the tasks of each.
reader_open(r) ==
  /\ at = "lloyd_par"
  /\ lloyd.readers[r].left = <<>> /\ ~lloyd.readers[r].over
  /\ \A t \in running \cup ToSet(queue) : t.reader # r
  /\ LET s == lloyd.next_shard
         first == FoldLeft(+, 0, SubSeq(inst.shards, 1, s - 1))
     IN lloyd' = IF s > Len(inst.shards) THEN [lloyd EXCEPT !.readers[r].over = TRUE]
                 ELSE [lloyd EXCEPT !.next_shard = s + 1, !.readers[r].left =
                         Pieces(RowSeq(first + 1, first + inst.shards[s]), inst.size)]
  /\ UNCHANGED <<inst, at, stager, src, queue, running, chunk, out, cards, disk>>

reader_chunk(r) ==
  /\ at = "lloyd_par"
  /\ lloyd.readers[r].left # <<>>
  /\ \A t \in running \cup ToSet(queue) : t.reader # r
  /\ LET rows == Head(lloyd.readers[r].left)
     IN /\ queue' = queue \o Tasks(r, Len(rows))
        /\ lloyd' = [lloyd EXCEPT !.readers[r].rows = rows, !.readers[r].left = Tail(@),
                                  !.done = @ + Len(rows)]
  /\ UNCHANGED <<inst, at, stager, src, running, chunk, out, cards, disk>>

\* Mutant: all tasks share one accumulator.
LloydTaskShared ==
  /\ at \in {"lloyd_wait", "lloyd_par"}
  /\ \E t \in running : \E lost \in BOOLEAN :
       LET rows == SubSeq(IF t.reader = 0 THEN Rows ELSE lloyd.readers[t.reader].rows, t.lo, t.hi)
           own == [c \in Clusters |-> Len(SelectSeq(rows, LAMBDA r : inst.nearest[r] = c))]
           now == lloyd.t_counts[1]
       IN /\ lloyd' = [lloyd EXCEPT !.t_counts[1] =
                [c \in Clusters |-> IF own[c] = 0 THEN now[c]
                                    ELSE own[c] + (IF lost THEN t.base[c] ELSE now[c])]]
          /\ running' = running \ {t}
  /\ UNCHANGED <<inst, at, stager, src, queue, chunk, out, cards, disk>>

\* One task counts its rows into the accumulator of its shard.  Two tasks on one
\* accumulator at once, which only two readers can have, may lose an increment.
lloyd_task ==
  /\ at \in {"lloyd_wait", "lloyd_par"}
  /\ \E t \in running : \E lost \in BOOLEAN :
       LET rows == SubSeq(IF t.reader = 0 THEN Rows ELSE lloyd.readers[t.reader].rows, t.lo, t.hi)
           own == [c \in Clusters |-> Len(SelectSeq(rows, LAMBDA r : inst.nearest[r] = c))]
           now == lloyd.t_counts[t.sh]
       IN /\ lloyd' = [lloyd EXCEPT !.t_counts[t.sh] =
                [c \in Clusters |-> IF own[c] = 0 THEN now[c]
                                    ELSE own[c] + (IF lost THEN t.base[c] ELSE now[c])]]
          /\ running' = running \ {t}
  /\ UNCHANGED <<inst, at, stager, src, queue, chunk, out, cards, disk>>

LloydStreamed ==
  \/ at = "lloyd_next" /\ lloyd.done >= inst.n
  \/ NoMore("lloyd_next")
  \/ at = "lloyd_par" /\ Joined /\ \A r \in Readers : lloyd.readers[r].over

\* Mutant: the loop forgets to count its passes.
LloydNeverCounts ==
  /\ LloydStreamed
  /\ lloyd' = [lloyd EXCEPT !.counts =
        [c \in Clusters |-> FoldFunction(LAMBDA a, n : a[c] + n, 0, lloyd.t_counts)]]
  /\ \/ lloyd.pass + 1 < inst.passes /\ at' = "lloyd"
     \/ lloyd.pass + 1 = inst.passes /\ at' = "wipe"
  /\ src' = [src EXCEPT !.vector_only = at' # "wipe"]
  /\ UNCHANGED <<inst, stager, queue, running, chunk, out, cards, disk>>

\* The accumulators are summed, the centroids move; from the third pass on the
\* sampled assignment may have settled.
lloyd_update ==
  /\ LloydStreamed
  /\ lloyd' = [lloyd EXCEPT !.pass = @ + 1, !.counts =
        [c \in Clusters |-> FoldFunction(LAMBDA a, n : a[c] + n, 0, lloyd.t_counts)]]
  /\ \/ lloyd.pass + 1 < inst.passes /\ at' = "lloyd"
     \/ lloyd.pass + 1 = inst.passes /\ at' = "wipe"
     \/ lloyd.pass >= 2 /\ at' = "wipe"
  /\ src' = [src EXCEPT !.vector_only = at' # "wipe"]
  /\ UNCHANGED <<inst, stager, queue, running, chunk, out, cards, disk>>

-----------------------------------------------------------------------------
\* The file is formatted.

\* Mutant: the file is cut before the superblocks of the old tree are wiped.
WipeAfterTruncate ==
  /\ at = "wipe"
  /\ disk' = [disk EXCEPT !.old = FALSE]
  /\ at' = "format"
  /\ UNCHANGED <<inst, stager, src, queue, running, lloyd, chunk, out, cards>>

wipe_superblocks ==
  /\ at = "wipe"
  /\ disk' = [disk EXCEPT !.sb = [state |-> "none"]]
  /\ at' = "format"
  /\ UNCHANGED <<inst, stager, src, queue, running, lloyd, chunk, out, cards>>

format_file ==
  /\ at = "format" /\ ~src.live
  /\ disk' = [disk EXCEPT !.old = FALSE]
  /\ src' = reset(src)
  /\ at' = "emit"
  /\ UNCHANGED <<inst, stager, queue, running, lloyd, chunk, out, cards>>

-----------------------------------------------------------------------------
\* The emission pass.

PayloadMissing == inst.payload /\ src.nchunk \in inst.bare

emission_no_payload ==
  /\ CanNext("emit") /\ PayloadMissing
  /\ Failed

\* The target lists are kept from chunk to chunk: they are cleared, unless the chunk
\* has more rows than any before it, when they are only made more.
emission_next ==
  /\ CanNext("emit") /\ ~PayloadMissing
  /\ src' = next(src)
  /\ LET take == Len(src.chunks[src.nchunk])
         old  == chunk.targets
     IN /\ chunk' = [chunk EXCEPT
              !.targets = IF Len(old) < take
                          THEN [i \in 1 .. take |-> IF i <= Len(old) THEN old[i] ELSE <<>>]
                          ELSE [i \in DOMAIN old |-> IF i <= take THEN <<>> ELSE old[i]],
              !.routed = [i \in 1 .. take |-> 0]]
        /\ queue' = Tasks(0, take)
  /\ at' = "route"
  /\ UNCHANGED <<inst, stager, running, lloyd, out, cards, disk>>

\* A task projects, encodes and routes its rows.
route_task ==
  /\ at = "route"
  /\ \E t \in running :
       /\ chunk' = [chunk EXCEPT
            !.targets = [i \in DOMAIN @ |-> IF i \in t.lo .. t.hi
                         THEN @[i] \o SetToSortSeq(inst.targets[Rows[i]], <) ELSE @[i]],
            !.routed = [i \in DOMAIN @ |-> IF i \in t.lo .. t.hi THEN Rows[i] ELSE @[i]]]
       /\ running' = running \ {t}
  /\ UNCHANGED <<inst, at, stager, src, queue, lloyd, out, cards, disk>>

NoRows == [t \in Shards |-> [c \in Clusters |-> <<>>]]

Active == 1 .. (IF inst.hw < Take THEN inst.hw ELSE Take)

\* The shards of this chunk are cleared and the append tasks pushed.
route_done ==
  /\ at = "route" /\ Joined
  /\ queue' = Tasks(0, Take)
  /\ chunk' = [chunk EXCEPT !.tbufs = [t \in Shards |-> IF t \in Active THEN NoRows[t] ELSE @[t]]]
  /\ cards' = [cards EXCEPT !.shards =
                 [t \in Shards |-> IF t \in Active THEN clear_stats(@[t]) ELSE @[t]]]
  /\ at' = "append"
  /\ UNCHANGED <<inst, stager, src, running, lloyd, out, disk>>

\* A row's values are counted once, whatever the number of its targets; label 0 is
\* NULL, row 0 a chunk without columns.
CountRow(table, row) ==
  IF row = 0 THEN table ELSE
  LET s == IF inst.label[row] = 0 THEN table ELSE add_string(table, inst.label[row])
  IN add_numeric(s, inst.number[row])

\* Mutant: a row is counted once for each of its targets.
CountRows(table, t) ==
  FoldLeft(LAMBDA tab, i : FoldLeft(LAMBDA u, c : CountRow(u, ChunkLabels(src)[i]), tab, chunk.targets[i]),
           table, RowSeq(t.lo, t.hi))

CountTask(table, t) ==
  FoldLeft(LAMBDA tab, i : CountRow(tab, ChunkLabels(src)[i]), table, RowSeq(t.lo, t.hi))

\* Mutant: the buffer of a shard is the one of the thread that ran the task.
AppendByThread ==
  /\ at = "append"
  /\ \E t \in running, w \in Shards :
       /\ chunk' = [chunk EXCEPT !.tbufs[w] = [c \in Clusters |-> @[c] \o
            FoldLeft(LAMBDA rows, i : rows \o [j \in 1 .. Len(SelectSeq(chunk.targets[i], LAMBDA d : d = c)) |->
                        [id |-> ChunkIds(src)[i], i |-> i, code |-> chunk.routed[i], payload |-> Rows[i]]],
                     <<>>, RowSeq(t.lo, t.hi))]]
       /\ cards' = [cards EXCEPT !.shards[t.sh] = CountTask(@, t)]
       /\ running' = running \ {t}
  /\ UNCHANGED <<inst, at, stager, src, queue, lloyd, out, disk>>

\* A task appends its rows to its shard's buffer of each of their targets.
append_task ==
  /\ at = "append"
  /\ \E t \in running :
       /\ chunk' = [chunk EXCEPT !.tbufs[t.sh] = [c \in Clusters |-> @[c] \o
            FoldLeft(LAMBDA rows, i : rows \o [j \in 1 .. Len(SelectSeq(chunk.targets[i], LAMBDA d : d = c)) |->
                        [id |-> ChunkIds(src)[i], i |-> i, code |-> chunk.routed[i], payload |-> Rows[i]]],
                     <<>>, RowSeq(t.lo, t.hi))]]
       /\ cards' = [cards EXCEPT !.shards[t.sh] = CountTask(@, t)]
       /\ running' = running \ {t}
  /\ UNCHANGED <<inst, at, stager, src, queue, lloyd, out, disk>>

\* The serial merge takes the clusters in order and in each the shards in order.
append_done ==
  /\ at = "append" /\ Joined
  /\ chunk' = [chunk EXCEPT !.todo =
        FlattenSeq([c \in Clusters |->
          FlattenSeq([t \in Active |->
            [j \in DOMAIN chunk.tbufs[t][c] |-> [c |-> c, row |-> chunk.tbufs[t][c][j]]]])])]
  /\ at' = "merge"
  /\ UNCHANGED <<inst, stager, src, queue, running, lloyd, out, cards, disk>>

\* A slot of the plane rows staged for a cluster.
PutSlot(rows, slot, row) ==
  [j \in 1 .. (IF slot > Len(rows) THEN slot ELSE Len(rows)) |->
     IF j = slot THEN row ELSE IF j <= Len(rows) THEN rows[j] ELSE 0]

\* flush_buffer: the staged records of a cluster become a leaf.
flush_buffer(o, c) ==
  LET s    == BeforeRead(o.stage, c)
      recs == for_each(s, c)
      leaf == [kind |-> "leaf", recs |-> recs,
               plane |-> IF inst.plane = "leaf" THEN o.plane[c] ELSE <<>>]
      page == Len(o.pages) + 1
      pay  == [kind |-> "payload", recs |-> [i \in DOMAIN recs |-> recs[i].payload]]
  IN IF o.staged[c] = 0 THEN o
     ELSE IF s.failed \/ Len(recs) # o.staged[c]
             \/ (inst.plane = "leaf" /\ Len(o.plane[c]) < Len(recs))
     THEN [o EXCEPT !.stage = s, !.error = TRUE]
     ELSE [o EXCEPT !.stage = drop(s, c),
                    !.staged[c] = 0,
                    !.plane[c] = <<>>,
                    !.pages = @ \o <<leaf>> \o (IF inst.payload THEN <<pay>> ELSE <<>>),
                    !.leaves = Append(@, [page |-> page, recs |-> recs]),
                    !.root_to_leaves[c] = Append(@, Len(o.leaves) + 1),
                    !.spill = IF inst.plane = "blob"
                              THEN Append(@, [leaf |-> Len(o.leaves) + 1, rows |-> o.plane[c]]) ELSE @]

\* One row of the serial merge.
merge_row(o, c, row) ==
  LET rec == [id |-> row.id, code |-> row.code, label |-> ChunkLabels(src)[row.i], payload |-> row.payload]
      s   == append(o.stage, c, rec)
  IN [o EXCEPT !.stage = s, !.error = s.failed, !.staged[c] = @ + 1,
               !.plane[c] = IF inst.plane = "none" THEN @
                            ELSE PutSlot(@, o.staged[c] + 1, chunk.routed[row.i])]

\* A step of the main thread over out, which may throw.
Output(o, then) ==
  /\ out' = o
  /\ at' = IF out'.error THEN "unwind" ELSE then
  /\ UNCHANGED <<inst, stager, src, queue, running, lloyd, cards, disk>>

Full(c) == out.staged[c] >= inst.leaf_cap

merge ==
  /\ at = "merge" /\ chunk.todo # <<>>
  /\ ~\E c \in Clusters : Full(c)
  /\ Output(merge_row(out, Head(chunk.todo).c, Head(chunk.todo).row), at)
  /\ chunk' = [chunk EXCEPT !.todo = Tail(@)]

\* The row just appended filled a leaf.
merge_flush ==
  /\ at = "merge"
  /\ \E c \in Clusters : Full(c) /\ Output(flush_buffer(out, c), at)
  /\ UNCHANGED chunk

\* The shard tables are folded into the global one, and its decisions go back.
fold_cardinality ==
  /\ at = "merge" /\ chunk.todo = <<>>
  /\ ~\E c \in Clusters : Full(c)
  /\ LET g == FoldLeft(LAMBDA tab, t : merge_from(tab, cards.shards[t]), cards.global, RowSeq(1, Max(Active)))
     IN cards' = [global |-> g,
                  shards |-> [t \in Shards |-> IF t \in Active THEN propagate_modes_to(g, cards.shards[t])
                                               ELSE cards.shards[t]]]
  /\ chunk' = [chunk EXCEPT !.offset = @ + Take]
  /\ at' = "emit"
  /\ UNCHANGED <<inst, stager, src, queue, running, lloyd, out, disk>>

\* The source is exhausted: what is left in each cluster is flushed, then the stage
\* file goes.
emission_end ==
  /\ NoMore("emit")
  /\ at' = "rest"
  /\ UNCHANGED <<inst, stager, src, queue, running, lloyd, chunk, out, cards, disk>>

flush_rest ==
  /\ at = "rest"
  /\ \E c \in Clusters :
       /\ out.staged[c] > 0
       /\ \A d \in Clusters : d < c => out.staged[d] = 0
       /\ Output(flush_buffer(out, c), at)
  /\ UNCHANGED chunk

finish_stage ==
  /\ at = "rest"
  /\ \A c \in Clusters : out.staged[c] = 0
  /\ LET s == finish(out.stage)
     IN Output([out EXCEPT !.stage = s, !.error = s.failed], "write")
  /\ UNCHANGED chunk

-----------------------------------------------------------------------------
\* The tree above the leaves.  A page of out.pages stands for an extent; an entry of a
\* node is [child, is_leaf, summary].  A summary is the range of the numeric column;
\* string columns and their Bloom filters are in FilterSummary.

\* Beyond every number of a column.
Infinite == 1000

\* The range that an empty summary starts with.
init_empty_summary == [min |-> Infinite, max |-> -Infinite]

Numbers(recs) == {inst.number[recs[i].label] : i \in {j \in DOMAIN recs : recs[j].label # 0}}

LeafSummary(recs) ==
  LET ns == Numbers(recs) IN IF ns = {} THEN init_empty_summary ELSE [min |-> Min(ns), max |-> Max(ns)]

NoChild(is_leaf) == [child |-> 0, is_leaf |-> is_leaf, summary |-> init_empty_summary]

\* Mutant: the summary of a child replaces what was merged before.
MergeLast(dst, src_summary) == src_summary

merge_filter_summary(dst, src_summary) ==
  [min |-> Min({dst.min, src_summary.min}), max |-> Max({dst.max, src_summary.max})]

\* A node's own summary, for the entry that names it.
NodeSummary(entries) ==
  FoldLeft(LAMBDA dst, e : merge_filter_summary(dst, e.summary), init_empty_summary, entries)

\* The page a node written now gets.
NewPage == Len(out.pages) + 1

LeafEntry(l) == [child |-> l, is_leaf |-> TRUE, summary |-> LeafSummary(out.leaves[l].recs)]

Depth == IF Len(out.leaves) <= inst.k THEN 1 ELSE inst.depth

\* One node per cluster that has leaves; its entries name leaves by number.
write_l2_nodes ==
  /\ at = "write" /\ Depth >= 2
  /\ LET some == SelectSeq([c \in Clusters |-> c], LAMBDA c : out.root_to_leaves[c] # <<>>)
         node(c) == [kind |-> "node", entries |->
                       [j \in DOMAIN out.root_to_leaves[c] |-> LeafEntry(out.root_to_leaves[c][j])]]
     IN out' = [out EXCEPT
          !.pages = @ \o [i \in DOMAIN some |-> node(some[i])],
          !.l2 = [c \in Clusters |-> IF out.root_to_leaves[c] = <<>> THEN NoChild(FALSE)
                    ELSE LET i == CHOOSE i \in DOMAIN some : some[i] = c
                         IN [child |-> Len(out.pages) + i, is_leaf |-> FALSE,
                             summary |-> NodeSummary(node(c).entries)]]]
  /\ at' = "children"
  /\ UNCHANGED <<inst, stager, src, queue, running, lloyd, chunk, cards, disk>>

\* The entries of the root.  Depth 1: the first leaf of each cluster.
root_children_leaves ==
  /\ at = "write" /\ Depth = 1
  /\ out' = [out EXCEPT !.root = [c \in Clusters |->
               IF out.root_to_leaves[c] = <<>> THEN NoChild(TRUE)
               ELSE LeafEntry(out.root_to_leaves[c][1])]]
  /\ at' = "root"
  /\ UNCHANGED <<inst, stager, src, queue, running, lloyd, chunk, cards, disk>>

\* Depth 2: the node of each cluster.
root_children_l2 ==
  /\ at = "children" /\ inst.depth = 2
  /\ out' = [out EXCEPT !.root = out.l2]
  /\ at' = "root"
  /\ UNCHANGED <<inst, stager, src, queue, running, lloyd, chunk, cards, disk>>

\* Depth 3: a node per group of clusters, over the members that have one.
write_l1_nodes ==
  /\ at = "children" /\ inst.depth = 3
  /\ LET members(g) == SelectSeq([c \in Clusters |-> c],
                         LAMBDA c : inst.super[c] = g /\ out.l2[c].child # 0)
         node(g) == [kind |-> "node", entries |->
                       [j \in DOMAIN members(g) |-> out.l2[members(g)[j]]]]
         some == SelectSeq([g \in 1 .. inst.k_l1 |-> g], LAMBDA g : members(g) # <<>>)
     IN out' = [out EXCEPT
          !.pages = @ \o [i \in DOMAIN some |-> node(some[i])],
          !.root = [g \in 1 .. inst.k_l1 |-> IF members(g) = <<>> THEN NoChild(FALSE)
                      ELSE LET i == CHOOSE i \in DOMAIN some : some[i] = g
                           IN [child |-> Len(out.pages) + i, is_leaf |-> FALSE,
                               summary |-> NodeSummary(node(g).entries)]]]
  /\ at' = "root"
  /\ UNCHANGED <<inst, stager, src, queue, running, lloyd, chunk, cards, disk>>

write_root ==
  /\ at = "root"
  /\ out' = [out EXCEPT !.pages = Append(@, [kind |-> "node", entries |-> out.root]),
                        !.root_page = NewPage]
  /\ at' = "blobs"
  /\ UNCHANGED <<inst, stager, src, queue, running, lloyd, chunk, cards, disk>>

\* Mutant: always the fine centroids.
RootCentroidsFine == inst.k

\* How many root centroids the routing blob holds.
RootCentroids == IF Depth >= 3 THEN inst.k_l1 ELSE inst.k

\* Codebook (if the coder has global state), routing blob (if routing is by PCA),
\* cardinality table (if there are columns), leaf table, configuration, and the header of
\* a plane whose rows ride the leaves.
Blobs ==
  (IF inst.codebook THEN <<[kind |-> "codebook"]>> ELSE <<>>)
  \o (IF inst.pca THEN <<[kind |-> "pca", roots |-> RootCentroids, leaves |-> Len(out.leaves)]>> ELSE <<>>)
  \o (IF src.cols THEN <<[kind |-> "cardinality", table |-> cards.global]>> ELSE <<>>)
  \o <<[kind |-> "table", entries |-> [l \in DOMAIN out.leaves |-> out.leaves[l].page]],
       [kind |-> "config", depth |-> Depth, n_leaves |-> Len(out.leaves), n_vectors |-> inst.n]>>
  \o (IF inst.plane = "leaf" THEN <<[kind |-> "plane", rows |-> <<>>]>> ELSE <<>>)

write_blobs ==
  /\ at = "blobs"
  /\ out' = [out EXCEPT !.pages = @ \o Blobs]
  /\ at' = "bitmap"
  /\ UNCHANGED <<inst, stager, src, queue, running, lloyd, chunk, cards, disk>>

\* flush_bitmap throws when the file outgrew the region fixed at format time.
flush_bitmap ==
  /\ at = "bitmap"
  /\ IF Len(out.pages) > disk.covered THEN Failed
     ELSE /\ disk' = [disk EXCEPT !.bitmap = 1 .. Len(out.pages)]
          /\ at' = "commit"
          /\ UNCHANGED <<inst, stager, src, queue, running, lloyd, chunk, out, cards>>

\* The extent of a kind, 0 for none.
Extent(kind) ==
  LET ps == {p \in DOMAIN out.pages : out.pages[p].kind = kind}
  IN IF ps = {} THEN 0 ELSE Max(ps)

commit ==
  /\ at = "commit"
  /\ disk' = [disk EXCEPT !.sb = [state |-> "tree", root |-> out.root_page, depth |-> Depth,
                n_leaves |-> Len(out.leaves), table |-> Extent("table"), pca |-> Extent("pca"),
                config |-> Extent("config"), cardinality |-> Extent("cardinality"),
                plane |-> IF inst.plane = "leaf" THEN Extent("plane") ELSE 0]]
  /\ at' = IF inst.plane = "blob" THEN "attach" ELSE "done"
  /\ UNCHANGED <<inst, stager, src, queue, running, lloyd, chunk, out, cards>>

-----------------------------------------------------------------------------
\* attach_plane_from: the tree just committed is opened again and the plane appended.

\* finalize_from_spill: the records must come in the order of the leaves, each long
\* enough, and there must be one for each leaf.
PlaneComplete ==
  /\ Len(out.spill) = Len(out.leaves)
  /\ \A l \in DOMAIN out.spill :
       out.spill[l].leaf = l /\ Len(out.spill[l].rows) >= Len(out.leaves[l].recs)

\* Pages the estimate leaves free (64 in the code).
AttachSlack == 1

Estimate == Len(out.pages) + 1 + AttachSlack

attach_finalize ==
  /\ at = "attach"
  /\ IF ~PlaneComplete THEN Failed
     ELSE /\ at' = IF Estimate > disk.covered THEN "relocate" ELSE "plane"
          /\ UNCHANGED <<inst, stager, src, queue, running, lloyd, chunk, out, cards, disk>>

\* A larger bitmap goes to the end of the file; the pages of the old one, to which the
\* superblock still points, become links of the free list.
relocate_bitmap ==
  /\ at = "relocate"
  /\ disk' = [disk EXCEPT !.covered = Estimate + AttachSlack, !.bitmap = {}]
  /\ at' = "relocated"
  /\ UNCHANGED <<inst, stager, src, queue, running, lloyd, chunk, out, cards>>

relocate_commit ==
  /\ at = "relocated"
  /\ disk' = [disk EXCEPT !.bitmap = 1 .. Len(out.pages)]
  /\ at' = "plane"
  /\ UNCHANGED <<inst, stager, src, queue, running, lloyd, chunk, out, cards>>

plane_write ==
  /\ at = "plane"
  /\ out' = [out EXCEPT !.pages = Append(@, [kind |-> "plane", rows |-> [l \in DOMAIN out.spill |-> out.spill[l].rows]])]
  /\ disk' = [disk EXCEPT !.bitmap = 1 .. NewPage]
  /\ at' = "plane_commit"
  /\ UNCHANGED <<inst, stager, src, queue, running, lloyd, chunk, cards>>

plane_commit ==
  /\ at = "plane_commit"
  /\ disk' = [disk EXCEPT !.sb.plane = Extent("plane")]
  /\ at' = "done"
  /\ UNCHANGED <<inst, stager, src, queue, running, lloyd, chunk, out, cards>>

-----------------------------------------------------------------------------
\* An instance of a kind starts with its source.
Opened(i) ==
  CASE i.kind = "mem"  -> MemSource(i.n, i.size)
    [] i.kind = "fbin" -> FbinSource(i.n, i.size, i.n)
    [] i.kind = "glob" -> ParquetGlobSource(i.shards, i.size)
    [] i.kind = "push" -> MemSource(0, 1)

\* The tables of the shards share the cap.
ShardCap(i) == IF i.cap = 0 THEN 0 ELSE IF i.cap < i.hw THEN 1 ELSE i.cap \div i.hw

Start(i) ==
  /\ inst = i
  /\ at = IF i.kind = "push" THEN "push" ELSE "resolve"
  /\ stager = NewStager([chunk_rows |-> i.size, staging |-> i.staging])
  /\ src = Opened(i)
  /\ queue = <<>> /\ running = {}
  /\ LET zero == [t \in 1 .. i.hw |-> [c \in 1 .. i.k |-> 0]]
     IN lloyd = [pass |-> 0, done |-> 0, t_counts |-> zero, counts |-> zero[1],
                 next_shard |-> 1, readers |-> <<>>]
  /\ chunk = [offset |-> 0, targets |-> <<>>, routed |-> <<>>,
              tbufs |-> [t \in 1 .. i.hw |-> [c \in 1 .. i.k |-> <<>>]], todo |-> <<>>]
  /\ LET none == [c \in 1 .. i.k |-> <<>>]
     IN out = [stage |-> NewStage(1 .. i.k, i.stage), staged |-> [c \in 1 .. i.k |-> 0],
               plane |-> none, leaves |-> <<>>, root_to_leaves |-> none, spill |-> <<>>,
               pages |-> <<>>, l2 |-> <<>>, root |-> <<>>, root_page |-> 0, error |-> FALSE]
  /\ cards = [global |-> init(i.mode, i.cap), shards |-> [t \in 1 .. i.hw |-> init(i.mode, ShardCap(i))]]
  /\ disk = [sb |-> [state |-> IF i.old THEN "old" ELSE "none"], old |-> i.old,
             covered |-> i.bitmap, bitmap |-> {}]

Init == \E i \in Builds : Start(i)

Main ==
  \/ push \/ sextant_build_abort \/ sextant_build_finish
  \/ resolve_build_params \/ unwind
  \/ NextFails("train") \/ train_sample \/ train_quantizer_and_pca
  \/ lloyd_pass \/ lloyd_next \/ lloyd_wait \/ lloyd_update
  \/ wipe_superblocks \/ format_file
  \/ NextFails("lloyd_next") \/ NextFails("emit")
  \/ emission_no_payload \/ emission_next \/ route_done \/ append_done
  \/ merge \/ merge_flush \/ fold_cardinality \/ emission_end \/ flush_rest \/ finish_stage
  \/ write_l2_nodes \/ root_children_leaves \/ root_children_l2 \/ write_l1_nodes
  \/ write_root \/ write_blobs \/ flush_bitmap \/ commit
  \/ attach_finalize \/ relocate_bitmap \/ relocate_commit \/ plane_write \/ plane_commit

Pool == pool_take \/ lloyd_task \/ route_task \/ append_task

Reading == \E r \in Readers : reader_open(r) \/ reader_chunk(r)

Ended == at \in Final /\ UNCHANGED vars

Next == Main \/ Pool \/ Reading \/ prefetch_thread \/ file_cut \/ Ended

\* Every thread that can run does; files need not be cut.  The main thread, the pool, the readers, the prefetch thread.
Fairness ==
  /\ WF_vars(Main) /\ WF_vars(Pool) /\ WF_vars(Reading) /\ WF_vars(prefetch_thread)

Spec == Init /\ [][Next]_vars /\ Fairness

-----------------------------------------------------------------------------
\* Properties.

\* The rows the closure sends to a cluster, in corpus order.
Expected(c) == SelectSeq(RowSeq(1, inst.n), LAMBDA r : c \in inst.targets[r])

\* What a leaf holds for a row.
Record(r) == [id |-> r, code |-> r, label |-> IF src.cols THEN r ELSE 0, payload |-> r]

Codes(recs) == [i \in DOMAIN recs |-> recs[i].code]

\* The rows of the plane that belong to leaf l.
PlaneRows(l) ==
  IF inst.plane = "blob" THEN out.spill[l].rows ELSE out.pages[out.leaves[l].page].plane

\* Whatever the source, the number of threads and the staging (RAM, shared and dedicated
\* buffers, spill file), the leaves of a cluster hold exactly the rows its closure targets
\* name, once each and in corpus order, each with its own id, code, label and payload;
\* every leaf but a cluster's last is full; the plane rows of a leaf are its rows' in slot
\* order.  All are there once the emission pass ends.  The first chunk of every instance is
\* a largest one: a larger one later on keeps targets of the first (line 1724).
LeavesExact ==
  \A c \in Clusters :
    LET of == out.root_to_leaves[c]
        recs == FlattenSeq([j \in DOMAIN of |-> out.leaves[of[j]].recs])
        rows == Expected(c)
    IN /\ Len(recs) <= Len(rows)
       /\ \A i \in DOMAIN recs : recs[i] = Record(rows[i])
       /\ \A j \in DOMAIN of :
            LET leaf == out.leaves[of[j]]
            IN /\ Len(leaf.recs) = inst.leaf_cap \/ (j = Len(of) /\ leaf.recs # <<>>)
               /\ inst.plane # "none" => PlaneRows(of[j]) = Codes(leaf.recs)
       /\ out.root_page # 0 => Len(recs) = Len(rows)

\* The counts a Lloyd pass divides by are the number of rows nearest to each centroid,
\* over all chunks and threads of that pass alone.  With several readers of one source,
\* two chunks share the accumulator of a shard and an increment can be lost, so the
\* counts may then be too small, but never too large.
LloydExact ==
  lloyd.pass > 0 =>
    \A c \in Clusters :
      LET exact == Cardinality({r \in 1 .. inst.n : inst.nearest[r] = c})
      IN IF Parallel THEN lloyd.counts[c] <= exact ELSE lloyd.counts[c] = exact

\* The leaf numbers under a node.
LeavesUnder(p) ==
  LET leaves(q) == {out.pages[q].entries[i].child :
                      i \in {i \in DOMAIN out.pages[q].entries :
                               out.pages[q].entries[i].is_leaf /\ out.pages[q].entries[i].child # 0}}
      nodes(q) == {out.pages[q].entries[i].child :
                      i \in {i \in DOMAIN out.pages[q].entries :
                               ~out.pages[q].entries[i].is_leaf /\ out.pages[q].entries[i].child # 0}}
  IN leaves(p) \cup UNION {leaves(q) \cup UNION {leaves(u) : u \in nodes(q)} : q \in nodes(p)}

\* The entries that name a child, over all nodes of the tree.
Entries == UNION {{<<p, i>> : i \in {i \in DOMAIN out.pages[p].entries : out.pages[p].entries[i].child # 0}} :
                   p \in {p \in DOMAIN out.pages : out.pages[p].kind = "node"}}

EntryAt(e) == out.pages[e[1]].entries[e[2]]

\* From the root the superblock names, every leaf of the table is reached through
\* exactly one parent, no node or leaf has two, and the range in each entry's summary holds
\* every number beneath it; a routing blob, written if the build routes by PCA, has one
\* root centroid per root entry and one leaf centroid per leaf.  A tree of depth 1 in which
\* a cluster has several leaves is excepted: its root names only the first.
TreeComplete ==
  disk.sb.state = "tree" /\ ~(Depth = 1 /\ \E c \in Clusters : Len(out.root_to_leaves[c]) > 1) =>
    /\ LeavesUnder(disk.sb.root) = DOMAIN out.leaves
    /\ \A e, f \in Entries :
         EntryAt(e).is_leaf = EntryAt(f).is_leaf /\ EntryAt(e).child = EntryAt(f).child => e = f
    /\ \A e \in Entries :
         LET below == IF EntryAt(e).is_leaf THEN {EntryAt(e).child} ELSE LeavesUnder(EntryAt(e).child)
         IN \A l \in below : \A x \in Numbers(out.leaves[l].recs) :
              EntryAt(e).summary.min <= x /\ x <= EntryAt(e).summary.max
    /\ inst.pca => /\ out.pages[disk.sb.pca].roots = Len(out.pages[disk.sb.root].entries)
                   /\ out.pages[disk.sb.pca].leaves = disk.sb.n_leaves

\* A process that opens the file at any moment, a build killed half way included, finds
\* no superblock, or the old tree whole, or the new tree whole: everything its
\* superblock names is written, and its bitmap marks every page.  Excepted is the moment
\* of a bitmap relocation at which the committed bitmap is already free-list links.
OpenableComplete ==
  /\ disk.sb.state = "old" => disk.old
  /\ disk.sb.state = "tree" =>
       /\ disk.sb.root # 0 /\ out.pages[disk.sb.root].kind = "node"
       /\ out.pages[disk.sb.table].kind = "table"
       /\ out.pages[disk.sb.config].n_leaves = disk.sb.n_leaves
       /\ Len(out.pages[disk.sb.table].entries) = disk.sb.n_leaves
       /\ \A l \in 1 .. disk.sb.n_leaves : out.pages[out.pages[disk.sb.table].entries[l]].kind = "leaf"
       /\ src.cols => out.pages[disk.sb.cardinality].kind = "cardinality"
       /\ disk.sb.plane # 0 /\ inst.plane = "blob" => Len(out.pages[disk.sb.plane].rows) = disk.sb.n_leaves
       /\ at = "relocated" \/ disk.bitmap = DOMAIN out.pages
       /\ at = "done" => (inst.plane # "none") = (disk.sb.plane # 0)

\* The rows whose values are in the global table.
Folded == 1 .. chunk.offset

CountOf(f, x) == Cardinality({r \in Folded : f[r] = x})

\* The statistics search plans with: a label some indexed row carries never looks
\* absent, however the shards were capped; counts are exact, one per row whatever the
\* number of its leaves, as long as the table does not say that it overflowed; neither
\* map outgrows its cap, and the numeric mass never exceeds the rows.
CardinalitySound ==
  LET s == cards.global.str
      n == cards.global.num
      tracked(col) == col.mode \notin Untracked
  IN src.cols =>
       /\ tracked(s) =>
            /\ \A r \in Folded : inst.label[r] # 0 => ~looks_absent(cards.global, inst.label[r])
            /\ \A x \in DOMAIN s.freq : s.freq[x] <= CountOf(inst.label, x)
            /\ ~s.overflowed => \A x \in DOMAIN s.freq : s.freq[x] = CountOf(inst.label, x)
            /\ inst.cap # 0 => Cardinality(DOMAIN s.freq) <= inst.cap
       /\ tracked(n) =>
            /\ n.adds = chunk.offset
            /\ Mass(n.hist) + n.bins <= n.adds
            /\ ~n.overflowed => \A r \in Folded : n.hist[inst.number[r]] = CountOf(inst.number, inst.number[r])
            /\ inst.cap # 0 => Cardinality(DOMAIN n.hist) <= inst.cap

\* A build that is pushed, opened or read comes to an end: no pass over a source runs
\* forever, no thread waits for a task or a prefetch that never ends.
BuildEnds == <>(at \in Final)

\* What the depth-1 shortcut takes for granted: with no more leaves than root clusters,
\* each cluster has at most one.
OneLeafPerRootCluster ==
  at = "root" /\ Depth = 1 => \A c \in Clusters : Len(out.root_to_leaves[c]) <= 1
=============================================================================
