---------------------------- MODULE BatchSearch -----------------------------
(***************************************************************************)
(* search and search_batch at work (src/src/tree/ivf_tree_search.cpp):     *)
(* concurrent calls share the process-wide scan pool, the leaf cache and,  *)
(* for batches, the one leaf stream.  A batch routes its queries, inverts  *)
(* their probe sets, sweeps every probed leaf once with per-worker heaps   *)
(* and pools, merges them and finalizes each query; a search scans its own *)
(* candidates, in shards when it may use several threads.                  *)
(*                                                                         *)
(* A call is a job.  Its workers run on pool threads, or on the caller     *)
(* when it uses one thread; a worker is a task, and every claim, read and  *)
(* scan of a task is a step.  The search that a batch runs for a query     *)
(* that falls back is a job too, called by the finalize worker, which      *)
(* keeps its pool thread while it waits.                                   *)
(*                                                                         *)
(* A leaf that the cache cannot fill throws.  A caller that rethrows does  *)
(* not wait for its other workers, which work on its frame; what they do   *)
(* then is undefined and the model stops there.                            *)
(***************************************************************************)
EXTENDS TreeSearch, TLC

CONSTANTS
    Jobs,       \* the calls, by name, and the searches batches fall back to
    Modes,      \* indexes, pools and calls, see Mode
    Chunk,      \* page-adjacent leaves per claim (kChunk)
    MaxPool     \* bound on the pool's threads

-----------------------------------------------------------------------------
(* Settings and routing of a call c: batch or single, its queries, k, the  *)
(* configuration, per-query predicates and probe fractions (Nil: none),    *)
(* and the names of the searches that its queries would fall back to.      *)

\* The configuration a query is routed and filtered with: its own predicates
\* unless they are empty, and its own probe fraction if it has one.
Effective(c, i) ==
    LET c1 == IF c.preds = Nil \/ c.preds[i] = Nil THEN c.cfg
              ELSE [c.cfg EXCEPT !.pred = c.preds[i]]
    IN  IF c.fractions = Nil \/ c.fractions[i] = 0 THEN c1
        ELSE [c1 EXCEPT !.fraction = c.fractions[i], !.n_probe = 0]

\* What the caller asked for: an empty predicate list is an unfiltered query.
Asked(c, i) ==
    IF c.preds = Nil THEN Effective(c, i)
    ELSE [Effective(c, i) EXCEPT !.pred = c.preds[i]]

QueryState(leaves, W, fallback) == [leaves |-> leaves, W |-> W, fallback |-> fallback]

\* Plane candidates of the batched sweep: pruned, or kept whole for a fallback.
PlaneState(index, q, k, cfg, r) ==
    IF r.status = "FallbackFiltered"
    THEN QueryState(index.plane[q], Width([cfg EXCEPT !.pred = Nil], k, 1000), TRUE)
    ELSE QueryState(r.leaves, Width(cfg, k, r.sel), FALSE)

RoutedState(k, cfg, r) ==
    QueryState(r.leaves, Width(cfg, k, r.sel), r.status = "FallbackFiltered")

\* The state that routing gives a query of a call, and the leaves it pinned.
Routing(index, c, i) ==
    LET cfg == Effective(c, i)
        q   == c.queries[i]
        r   == Route(index, q, cfg)
    IN  [state |-> IF PlaneActive(index, cfg) THEN PlaneState(index, q, c.k, cfg, r)
                   ELSE RoutedState(c.k, cfg, r),
         status |-> r.status, read |-> r.read]

\* The search for a query that falls back: with the configuration of the call.
FallbackCall(c, i) ==
    [c EXCEPT !.batch = FALSE, !.queries = <<c.queries[i]>>, !.preds = Nil, !.fractions = Nil,
              !.inner = <<>>, !.nested = TRUE]

FallsBack(index, c, i) == Route(index, c.queries[i], Effective(c, i)).status = "FallbackFiltered"

\* The calls and the searches that their queries fall back to.
WithFallbacks(index, calls) ==
    LET back == {p \in UNION {{j} \X DOMAIN calls[j].inner : j \in DOMAIN calls} :
                    FallsBack(index, calls[p[1]], p[2])}
    IN  calls @@ [n \in {calls[p[1]].inner[p[2]] : p \in back} |->
                    LET p == CHOOSE q \in back : calls[q[1]].inner[q[2]] = n
                    IN  FallbackCall(calls[p[1]], p[2])]

\* The index without the rows of some leaves.
Without(index, leaves) ==
    [index EXCEPT !.leaf = [l \in DOMAIN index.leaf |->
        IF l \in leaves THEN [index.leaf[l] EXCEPT !.rows = <<>>] ELSE index.leaf[l]]]

ForEachQuery(calls, Op(_, _)) ==
    [j \in DOMAIN calls |-> [i \in DOMAIN calls[j].queries |-> Op(calls[j], i)]]

\* An index, the number of pool threads, whether the leaf cache is on, whether reads may
\* fail, the calls with their fallbacks, and what depends on nothing that changes: how each
\* query is routed, what search() returns with the configuration of its call, and
\* what a serial search with the settings asked for returns, by unreadable leaves.
Mode(index, pool, cache, fails, calls) ==
    [ix        |-> index, pool |-> pool, cache |-> cache, fails |-> fails, calls |-> calls,
     routing   |-> ForEachQuery(calls, LAMBDA c, i : Routing(index, c, i)),
     searched  |-> ForEachQuery(calls, LAMBDA c, i : search(index, c.queries[i], c.k, c.cfg)),
     specified |-> ForEachQuery(calls, LAMBDA c, i :
                      [F \in IF fails THEN SUBSET DOMAIN index.leaf ELSE {{}} |->
                        search(Without(index, F), c.queries[i], c.k, Asked(c, i))])]

IsMode(m) ==
    /\ m = Mode(m.ix, m.pool, m.cache, m.fails, m.calls)
    /\ m.calls = WithFallbacks(m.ix, m.calls)
    /\ m.pool \in 1..MaxPool /\ {m.cache, m.fails} \subseteq BOOLEAN
    /\ \A j \in DOMAIN m.calls :
        LET c == m.calls[j]
        IN  /\ j \in Jobs /\ c.queries # <<>> /\ c.k \in Nat \ {0}
            /\ IF c.batch THEN Len(c.inner) = Len(c.queries) /\ ~c.nested
               ELSE Len(c.queries) = 1 /\ c.preds = Nil /\ c.fractions = Nil
            /\ c.cfg.threads \in Nat \ {0}

ASSUME SearchAssumption == Chunk \in Nat \ {0} /\ MaxPool \in Nat /\ \A m \in Modes : IsMode(m)

-----------------------------------------------------------------------------

VARIABLES
    mode,
    pc,         \* the phase of each job
    qs,         \* QueryState of each query: candidates, W, fallback
    next,       \* the claim counter of the phase: queries or unique leaves
    left,       \* workers of the phase that have not finished
    partials,   \* what finished workers handed over
    results,    \* per query: Nil, then its results
    unique,     \* the probed leaves of a batch in page order
    reads,      \* leaves read by the sweep, in order
    failed,     \* leaves whose direct read failed
    threw,      \* workers of the phase that ended with an exception
    held,       \* leaves a search keeps pinned, by its caller and by its workers
    arena,      \* leaves pinned in a thread's routing arena
    queue,      \* tasks the pool has not started
    task,       \* the task each thread runs, or Nil
    stream      \* who holds scan_stream_mu_

vars == <<mode, pc, qs, next, left, partials, results, unique, reads, failed, threw, held, arena, queue, task, stream>>

call == mode.calls
ix   == mode.ix
routing  == mode.routing
searched == mode.searched
Live == DOMAIN call

\* Pool threads, and the callers, which run the work of one-thread calls.
Threads == 1..mode.pool \cup Live

NumQueries(j) == Len(call[j].queries)

-----------------------------------------------------------------------------
(* The scan pool *)

\* A phase of a job starts: T workers go to the pool, a single one runs on the caller.
Spawn(j, works) ==
    LET T == Len(works)
        new == [n \in 1..T |-> [job |-> j, n |-> n, work |-> works[n], parts |-> <<>>,
                             pinned |-> Nil, waits |-> Nil]]
    IN  /\ left' = [left EXCEPT ![j] = T]
        /\ IF T = 1
           THEN task' = [task EXCEPT ![j] = new[1]] /\ UNCHANGED queue
           ELSE queue' = queue \o new /\ UNCHANGED task

NoWork(T) == [n \in 1..T |-> <<>>]

pool_take(t) ==
    /\ t \in 1..mode.pool /\ task[t] = Nil /\ queue # <<>>
    /\ task' = [task EXCEPT ![t] = Head(queue)]
    /\ queue' = Tail(queue)
    /\ UNCHANGED <<mode, pc, qs, next, left, partials, results, unique, reads, failed, threw, held, arena, stream>>

Running(t, phase) == task[t] # Nil /\ pc[task[t].job] = phase

\* The worker returns and its future becomes ready.
Finish(t) ==
    /\ task' = [task EXCEPT ![t] = Nil]
    /\ left' = [left EXCEPT ![task[t].job] = @ - 1]

\* The worker ends with an exception, which its future keeps.
Throw(t) ==
    /\ Finish(t)
    /\ threw' = [threw EXCEPT ![task[t].job] = @ \cup {task[t].n}]

Joined(j, phase) == pc[j] = phase /\ left[j] = 0 /\ threw[j] = {}

\* Workers of a job that have not ended, running or queued.
Unfinished(j) == {task[t].n : t \in {u \in Threads : task[u] # Nil /\ task[u].job = j}}
                    \cup {queue[i].n : i \in {k \in DOMAIN queue : queue[k].job = j}}

\* The caller gets the futures in order and leaves with the first exception it meets:
\* the stream's lock and the guard's pins are released, the workers' pins are not.
rethrow(j) ==
    /\ \E n \in threw[j] : \A m \in Unfinished(j) : n < m
    /\ pc[j] \notin {"thrown", "dangling"}
    /\ pc' = [pc EXCEPT ![j] = IF Unfinished(j) = {} THEN "thrown" ELSE "dangling"]
    /\ stream' = IF stream = j THEN Nil ELSE stream
    /\ held' = [held EXCEPT ![j].caller = {}]
    /\ UNCHANGED <<mode, qs, next, left, partials, results, unique, reads, failed, threw, arena, queue, task>>

-----------------------------------------------------------------------------
(* Pins: with the leaf cache off a leaf is mapped and no pin is taken.  The *)
(* cache is large enough to refuse none (LeafExtentCache has refusals).    *)

Pinned(leaves) == IF mode.cache THEN leaves ELSE {}

\* Leaves that stay in the cache because somebody has them pinned.
Resident ==
    UNION {held[j].caller \cup held[j].workers : j \in Live} \cup UNION {arena[t] : t \in Threads}
        \cup {task[t].pinned : t \in {u \in Threads : task[u] # Nil}}

\* The fill of a leaf may throw.
FillThrows(l) == mode.fails /\ mode.cache /\ l \notin Resident

-----------------------------------------------------------------------------
(* search_batch: routing *)

batch_start(j) ==
    /\ pc[j] = "idle" /\ call[j].batch
    /\ pc' = [pc EXCEPT ![j] = "route"]
    /\ Spawn(j, NoWork(call[j].cfg.threads))
    /\ UNCHANGED <<mode, qs, next, partials, results, unique, reads, failed, threw, held, arena, stream>>

\* The pins a routing leaves in the thread's arena: the plane branch goes on to
\* the next query before the release.
ArenaAfter(t, j, i) ==
    IF PlaneActive(ix, call[j].cfg) THEN arena[t] \cup Pinned(Range(routing[j][i].read)) ELSE {}

route_worker(t) ==
    /\ Running(t, "route")
    /\ LET j == task[t].job
           i == next[j] + 1
       IN  \/ /\ i <= NumQueries(j)
              /\ next' = [next EXCEPT ![j] = i]
              /\ qs' = [qs EXCEPT ![j][i] = routing[j][i].state]
              /\ arena' = [arena EXCEPT ![t] = ArenaAfter(t, j, i)]
              /\ UNCHANGED <<task, left>>
           \/ /\ i > NumQueries(j)
              /\ Finish(t)
              /\ UNCHANGED <<next, qs, arena>>
    /\ UNCHANGED <<mode, pc, partials, results, unique, reads, failed, threw, held, queue, stream>>

\* A summary cannot be read: the pins before it stay in the arena.
route_throws(t) ==
    /\ Running(t, "route")
    /\ LET j == task[t].job
           i == next[j] + 1
       IN  /\ i <= NumQueries(j)
           /\ \E n \in DOMAIN routing[j][i].read :
                LET before == SubSeq(routing[j][i].read, 1, n - 1)
                IN  /\ FillThrows(routing[j][i].read[n])
                    /\ arena' = [arena EXCEPT ![t] = @ \cup Range(before)]
           /\ next' = [next EXCEPT ![j] = i]
           /\ Throw(t)
    /\ UNCHANGED <<mode, pc, qs, partials, results, unique, reads, failed, held, queue, stream>>

-----------------------------------------------------------------------------
(* search_batch: the sweep *)

Probed(j) == UNION {Range(qs[j][i].leaves) : i \in 1..NumQueries(j)}

\* The unique probed leaves in page order.
UniqueLeaves(j) == SortedBy(Probed(j), LAMBDA l, m : ix.leaf[l].page < ix.leaf[m].page)

\* The queries that probed a leaf, and the slot of each: a leaf has one parent, so
\* no query probes it twice.
Refs(j, l)    == {i \in 1..NumQueries(j) : l \in Range(qs[j][i].leaves)}
Slot(j, i, l) == CHOOSE slot \in DOMAIN qs[j][i].leaves : qs[j][i].leaves[slot] = l

\* Routing is joined: invert the probe sets, then wait for the one leaf stream.
sweep_start(j) ==
    /\ Joined(j, "route")
    /\ stream = Nil
    /\ unique' = [unique EXCEPT ![j] = UniqueLeaves(j)]
    /\ stream' = j
    /\ pc' = [pc EXCEPT ![j] = "sweep"]
    /\ next' = [next EXCEPT ![j] = 0]
    /\ Spawn(j, NoWork(call[j].cfg.threads))
    /\ UNCHANGED <<mode, qs, partials, results, reads, failed, threw, held, arena>>

\* Mutant: the claim is read and advanced by less than it takes.
ClaimOverlapping(j) == next[j] + Chunk - 1

Claimed(j) == next[j] + Chunk

\* A worker claims the next chunk, or hands its partials over and ends.
sweep_claim(t) ==
    /\ Running(t, "sweep") /\ task[t].work = <<>>
    /\ LET j == task[t].job
           u == unique[j]
       IN  \/ /\ next[j] < Len(u)
              /\ next' = [next EXCEPT ![j] = Claimed(j)]
              /\ task' = [task EXCEPT ![t].work = SubSeq(u, next[j] + 1, Min({next[j] + Chunk, Len(u)}))]
              /\ UNCHANGED <<partials, left>>
           \/ /\ next[j] >= Len(u)
              /\ partials' = [partials EXCEPT ![j] = @ \cup {[by |-> task[t].n, of |-> task[t].parts]}]
              /\ Finish(t)
              /\ UNCHANGED next
    /\ UNCHANGED <<mode, pc, qs, results, unique, reads, failed, threw, held, arena, queue, stream>>

\* The next leaf is read into the worker's buffer, or pinned in the cache.
sweep_read(t) ==
    /\ Running(t, "sweep") /\ task[t].work # <<>> /\ task[t].pinned = Nil
    /\ reads' = [reads EXCEPT ![task[t].job] = Append(@, Head(task[t].work))]
    /\ task' = [task EXCEPT ![t].pinned = Head(task[t].work)]
    /\ UNCHANGED <<mode, pc, qs, next, left, partials, results, unique, failed, threw, held, arena, queue, stream>>

\* A direct read fails: the leaf contributes nothing to any query.
sweep_read_fails(t) ==
    /\ Running(t, "sweep") /\ task[t].work # <<>> /\ task[t].pinned = Nil
    /\ mode.fails /\ ~mode.cache
    /\ reads' = [reads EXCEPT ![task[t].job] = Append(@, Head(task[t].work))]
    /\ failed' = [failed EXCEPT ![task[t].job] = @ \cup {Head(task[t].work)}]
    /\ task' = [task EXCEPT ![t].work = Tail(@)]
    /\ UNCHANGED <<mode, pc, qs, next, left, partials, results, unique, threw, held, arena, queue, stream>>

\* A fill of the cache throws out of the worker: what it has found is lost, and so is
\* what it has not handed over.
sweep_throws(t) ==
    /\ Running(t, "sweep") /\ task[t].work # <<>> /\ task[t].pinned = Nil
    /\ FillThrows(Head(task[t].work))
    /\ Throw(t)
    /\ UNCHANGED <<mode, pc, qs, next, partials, results, unique, reads, failed, held, arena, queue, stream>>

\* A pool entry keeps what finalize needs of the leaf: row id, distance, verdict.
PoolEntry(j, i, l, e) ==
    LET row == ix.leaf[l].rows[e.idx]
        cfg == Effective(call[j], i)
    IN  [key |-> e.key, slot |-> e.slot, idx |-> e.idx, row |-> row.row,
         dist |-> IF cfg.rerank THEN row.dist[call[j].queries[i]] ELSE e.key,
         ok |-> Satisfies(row, cfg.pred)]

Fresh == [heap |-> {}, pool |-> {}]

\* Mutant: the pool is one entry smaller than the heap.
HarvestShort(pool, new, W) == Smallest(pool \cup new, W - 1)

\* Pools take entries the way scan heaps do, in the same order.
pool_replace(pool, W, e) == offer(pool, W, e)

Harvest(pool, new, W) ==
    Feed(LAMBDA p, e : pool_replace(p, W, e), pool, SortedBy(new, heap_entry_less))

\* The scan of a leaf for one query, and the harvest of what stayed in its heap.
ScanAndHarvest(j, i, slot, l, part) ==
    LET W    == qs[j][i].W
        heap == scan_leaf(ix.kernel, part.heap, W, Candidates(ix, call[j].queries[i], l, slot))
    IN  [heap |-> heap,
         pool |-> Harvest(part.pool,
                          {PoolEntry(j, i, l, e) : e \in {f \in heap : f.slot = slot}}, W)]

\* Every query that probed the leaf is scanned against the one read; then unpin.
sweep_scan(t) ==
    /\ Running(t, "sweep") /\ task[t].pinned # Nil
    /\ LET j == task[t].job
           l == task[t].pinned
           parts == task[t].parts
       IN  task' = [task EXCEPT ![t].work = Tail(@), ![t].pinned = Nil,
                ![t].parts = [i \in DOMAIN parts \cup Refs(j, l) |->
                    IF i \notin Refs(j, l) THEN parts[i]
                    ELSE ScanAndHarvest(j, i, Slot(j, i, l), l,
                                        IF i \in DOMAIN parts THEN parts[i] ELSE Fresh)]]
    /\ UNCHANGED <<mode, pc, qs, next, left, partials, results, unique, reads, failed, threw, held, arena, queue, stream>>

-----------------------------------------------------------------------------
(* search_batch: merge and finalize *)

Parts(j, i) == {p.of[i] : p \in {x \in partials[j] : i \in DOMAIN x.of}}

\* Mutant: the merged heap of several workers is not cut to W.
MergeUncut(j, i) == UNION {p.heap : p \in Parts(j, i)}

MergedHeap(j, i) == Smallest(UNION {p.heap : p \in Parts(j, i)}, qs[j][i].W)
MergedPool(j, i) == UNION {p.pool : p \in Parts(j, i)}

\* Mutant: the sweep is joined but the stream stays taken.
StreamKept == stream

StreamReleased == Nil

\* The sweep is joined: give up the stream and start the finalize workers.
finalize_start(j) ==
    /\ Joined(j, "sweep")
    /\ stream' = StreamReleased
    /\ pc' = [pc EXCEPT ![j] = "finalize"]
    /\ next' = [next EXCEPT ![j] = 0]
    /\ Spawn(j, NoWork(call[j].cfg.threads))
    /\ UNCHANGED <<mode, qs, partials, results, unique, reads, failed, threw, held, arena>>

\* Each survivor of the heap is looked up in the pool.
finalize_pool_query_(j, i) ==
    LET found == {p \in MergedPool(j, i) :
                    p.ok /\ \E e \in MergedHeap(j, i) : e.slot = p.slot /\ e.idx = p.idx}
    IN  cut_topk_results_({[row |-> p.row, dist |-> p.dist] : p \in found},
                          call[j].k, call[j].cfg)

finalize_worker(t) ==
    /\ Running(t, "finalize") /\ task[t].waits = Nil
    /\ LET j == task[t].job
           i == next[j] + 1
       IN  \/ /\ i <= NumQueries(j) /\ ~qs[j][i].fallback
              /\ next' = [next EXCEPT ![j] = i]
              /\ results' = [results EXCEPT ![j][i] =
                    IF qs[j][i].leaves = <<>> THEN <<>> ELSE finalize_pool_query_(j, i)]
              /\ UNCHANGED <<pc, task, left>>
           \/ /\ i <= NumQueries(j) /\ qs[j][i].fallback
              /\ next' = [next EXCEPT ![j] = i]
              /\ task' = [task EXCEPT ![t].waits = call[j].inner[i]]
              /\ pc' = [pc EXCEPT ![call[j].inner[i]] = "called"]
              /\ UNCHANGED <<results, left>>
           \/ /\ i > NumQueries(j)
              /\ Finish(t)
              /\ UNCHANGED <<pc, next, results>>
    /\ UNCHANGED <<mode, qs, partials, unique, reads, failed, threw, held, arena, queue, stream>>

\* The search a query fell back to has returned to the worker that called it.
fallback_return(t) ==
    /\ Running(t, "finalize") /\ task[t].waits # Nil /\ pc[task[t].waits] = "done"
    /\ LET j == task[t].job
       IN  results' = [results EXCEPT ![j] = [i \in DOMAIN @ |->
                        IF call[j].inner[i] = task[t].waits THEN results[task[t].waits][1] ELSE @[i]]]
    /\ task' = [task EXCEPT ![t].waits = Nil]
    /\ UNCHANGED <<mode, pc, qs, next, left, partials, unique, reads, failed, threw, held, arena, queue, stream>>

fallback_throws(t) ==
    /\ Running(t, "finalize") /\ task[t].waits # Nil /\ pc[task[t].waits] = "thrown"
    /\ Throw(t)
    /\ UNCHANGED <<mode, pc, qs, next, partials, results, unique, reads, failed, held, arena, queue, stream>>

batch_return(j) ==
    /\ Joined(j, "finalize")
    /\ pc' = [pc EXCEPT ![j] = "done"]
    /\ UNCHANGED <<mode, qs, next, left, partials, results, unique, reads, failed, threw, held, arena, queue, task, stream>>

-----------------------------------------------------------------------------
(* search *)

\* Candidate slots in the order they are scanned: by page with the cache on.
ScanOrder(leaves) ==
    IF mode.cache
    THEN SortedBy(DOMAIN leaves, LAMBDA a, b : ix.leaf[leaves[a]].page < ix.leaf[leaves[b]].page)
    ELSE [slot \in DOMAIN leaves |-> slot]

\* The shards of T workers; trailing workers may have none.
Shards(order, T) ==
    LET per == (Len(order) + T - 1) \div T
        used == (Len(order) + per - 1) \div per
    IN  [n \in 1..used |-> SubSeq(order, (n - 1) * per + 1, Min({n * per, Len(order)}))]

Workers(j, leaves) ==
    IF call[j].cfg.threads > 1 /\ Len(leaves) >= 2 THEN Min({call[j].cfg.threads, Len(leaves)}) ELSE 1

\* The caller routes; an empty or a fallback query ends at once, and so does one whose
\* routing meets a summary that cannot be read.  The guard releases what was pinned.
search_start(j) ==
    /\ pc[j] \in {"idle", "called"} /\ ~call[j].batch
    /\ LET r == routing[j][1]
           leaves == r.state.leaves
       IN  \/ /\ r.status = "Ok"
              /\ qs' = [qs EXCEPT ![j][1] = r.state]
              /\ held' = [held EXCEPT ![j].caller = Pinned(Range(r.read))]
              /\ pc' = [pc EXCEPT ![j] = "scan"]
              /\ Spawn(j, Shards(ScanOrder(leaves), Workers(j, leaves)))
              /\ UNCHANGED results
           \/ /\ r.status # "Ok"
              /\ \E res \in searched[j][1] : results' = [results EXCEPT ![j][1] = res]
              /\ pc' = [pc EXCEPT ![j] = "done"]
              /\ UNCHANGED <<qs, held, queue, task, left>>
           \/ /\ \E l \in Range(r.read) : FillThrows(l)
              /\ pc' = [pc EXCEPT ![j] = "thrown"]
              /\ UNCHANGED <<qs, held, queue, task, left, results>>
    /\ UNCHANGED <<mode, next, partials, unique, reads, failed, threw, arena, stream>>

\* Mutant: a scanned leaf is unpinned, as the sweep does.
PinOfNext(h, t, j, l) ==
    IF t = j THEN [h EXCEPT !.caller = Pinned({l})] ELSE [h EXCEPT !.workers = Pinned({l})]

\* The pins of a serial scan go to the caller's list, those of shards to the workers'.
PinToScan(h, t, j, l) ==
    IF t = j THEN [h EXCEPT !.caller = @ \cup Pinned({l})] ELSE [h EXCEPT !.workers = @ \cup Pinned({l})]

\* A worker pins and scans its next candidate, or ends; pins last until the return.
scan_worker(t) ==
    /\ Running(t, "scan")
    /\ LET j == task[t].job
           slot == Head(task[t].work)
           l == qs[j][1].leaves[slot]
           old == IF task[t].parts = <<>> THEN Fresh ELSE task[t].parts[1]
       IN  \/ /\ task[t].work # <<>>
              /\ held' = [held EXCEPT ![j] = PinToScan(@, t, j, l)]
              /\ task' = [task EXCEPT ![t].work = Tail(@),
                    ![t].parts = 1 :> [old EXCEPT !.heap =
                        scan_leaf(ix.kernel, @, qs[j][1].W,
                                  Candidates(ix, call[j].queries[1], l, slot))]]
              /\ UNCHANGED <<partials, left>>
           \/ /\ task[t].work = <<>>
              /\ partials' = [partials EXCEPT ![j] = @ \cup {[by |-> task[t].n, of |-> task[t].parts]}]
              /\ Finish(t)
              /\ UNCHANGED held
    /\ UNCHANGED <<mode, pc, qs, next, results, unique, reads, failed, threw, arena, queue, stream>>

\* A candidate cannot be read.
scan_throws(t) ==
    /\ Running(t, "scan") /\ task[t].work # <<>>
    /\ FillThrows(qs[task[t].job][1].leaves[Head(task[t].work)])
    /\ Throw(t)
    /\ UNCHANGED <<mode, pc, qs, next, partials, results, unique, reads, failed, held, arena, queue, stream>>

\* Adopt the workers' pins, merge their heaps, finalize, and let the guard release the pins.
search_return(j) ==
    /\ Joined(j, "scan")
    /\ results' = [results EXCEPT ![j][1] =
            finalize_query_(ix, call[j].queries[1], call[j].k, call[j].cfg,
                            qs[j][1].leaves, MergedHeap(j, 1))]
    /\ held' = [held EXCEPT ![j] = [caller |-> {}, workers |-> {}]]
    /\ pc' = [pc EXCEPT ![j] = "done"]
    /\ UNCHANGED <<mode, qs, next, left, partials, unique, reads, failed, threw, arena, queue, task, stream>>

-----------------------------------------------------------------------------

Init ==
    /\ mode \in Modes
    /\ pc = [j \in Live |-> IF call[j].nested THEN "uncalled" ELSE "idle"]
    /\ qs = [j \in Live |-> [i \in 1..NumQueries(j) |-> QueryState(<<>>, 0, FALSE)]]
    /\ next = [j \in Live |-> 0] /\ left = [j \in Live |-> 0]
    /\ partials = [j \in Live |-> {}]
    /\ results = [j \in Live |-> [i \in 1..NumQueries(j) |-> Nil]]
    /\ reads = [j \in Live |-> <<>>] /\ unique = [j \in Live |-> <<>>]
    /\ failed = [j \in Live |-> {}] /\ threw = [j \in Live |-> {}]
    /\ held = [j \in Live |-> [caller |-> {}, workers |-> {}]]
    /\ arena = [t \in Threads |-> {}]
    /\ queue = <<>> /\ task = [t \in Threads |-> Nil]
    /\ stream = Nil

Caller(j) ==
    batch_start(j) \/ sweep_start(j) \/ finalize_start(j) \/ batch_return(j)
        \/ search_start(j) \/ search_return(j) \/ rethrow(j)

Worker(t) ==
    pool_take(t) \/ route_worker(t) \/ route_throws(t) \/ sweep_claim(t) \/ sweep_read(t)
        \/ sweep_read_fails(t) \/ sweep_throws(t) \/ sweep_scan(t) \/ finalize_worker(t)
        \/ fallback_return(t) \/ fallback_throws(t) \/ scan_worker(t) \/ scan_throws(t)

\* A call has ended and left workers behind that refer to its frame.
Undefined == \E j \in Live : pc[j] = "dangling"

Next == ~Undefined /\ ((\E j \in Live : Caller(j)) \/ (\E t \in Threads : Worker(t)))

\* Pool threads and callers are threads of the operating system; nobody has to
\* make a call.
Fairness ==
    /\ \A t \in 1..MaxPool : WF_vars(~Undefined /\ t \in Threads /\ Worker(t))
    /\ \A j \in Jobs : WF_vars(~Undefined /\ j \in Live /\ pc[j] # "idle" /\ (Worker(j) \/ Caller(j)))

Spec == Init /\ [][Next]_vars /\ Fairness

-----------------------------------------------------------------------------
(* Properties *)

Phases == {"idle", "uncalled", "called", "route", "sweep", "finalize", "scan", "done", "thrown", "dangling"}
AllParts(j) == {p.of : p \in partials[j]}
                \cup {task[t].parts : t \in {u \in Threads : task[u] # Nil /\ task[u].job = j}}

\* Types; no heap or pool ever holds more than the widest shortlist of its call.
TypeOK ==
    /\ pc \in [Live -> Phases]
    /\ \A j \in Live :
        /\ \A i \in 1..NumQueries(j) : qs[j][i].leaves \in Seq(DOMAIN ix.leaf) /\ qs[j][i].W \in Nat
        /\ next[j] \in Nat /\ left[j] \in 0..call[j].cfg.threads
        /\ reads[j] \in Seq(DOMAIN ix.leaf) /\ failed[j] \cup held[j].caller \cup held[j].workers \subseteq DOMAIN ix.leaf
        /\ \A parts \in AllParts(j) : \A i \in DOMAIN parts :
            Max({Cardinality(parts[i].heap), Cardinality(parts[i].pool)}) <= qs[j][i].W
    /\ arena \in [Threads -> SUBSET DOMAIN ix.leaf]
    /\ stream \in Live \cup {Nil}

\* The flush of AVX-512 code replaces a front that it has not looked at again, so a
\* shortlist is exact only if it has room for every candidate row.
Vectors == ix.kernel.coder = "scalar" /\ ix.kernel.lanes > 0
Exact(j, i) ==
    Vectors => MapThenSumSet(LAMBDA l : Len(ix.leaf[l].rows), Range(qs[j][i].leaves)) <= qs[j][i].W

\* Every query of a batch, and a search whose scan was split, gets what a serial
\* search with the settings its caller asked for returns over the leaves that could
\* be read, however its leaves were shared out among the workers.  A query that falls
\* back gets what search returns with the configuration of its call (line 2590), which
\* is not its own if it brought a predicate.
MatchesSearch ==
    \A j \in Live : pc[j] = "done" =>
        \A i \in 1..NumQueries(j) :
            IF qs[j][i].fallback THEN results[j][i] \in searched[j][i]
            ELSE Exact(j, i) => results[j][i] \in mode.specified[j][i][failed[j]]

\* A worker's pool holds every entry of its heap ("containment is proven"), so
\* finalize_pool_query_ never misses a survivor; after a flush of AVX-512 code one that
\* is missing is behind a full pool of nearer entries.
PoolContainsHeap ==
    \A j \in Live : call[j].batch =>
        \A parts \in AllParts(j) : \A i \in DOMAIN parts : \A e \in parts[i].heap :
            \/ \E f \in parts[i].pool : f.key = e.key /\ f.slot = e.slot /\ f.idx = e.idx
            \/ /\ Vectors /\ Cardinality(parts[i].pool) = qs[j][i].W
               /\ \A f \in parts[i].pool : heap_entry_less(f, e)

\* A sweep reads every probed leaf exactly once, in page order when one worker
\* sweeps, and no two batches sweep at a time.
SweptOnce ==
    /\ \A j \in Live :
        /\ \A a, b \in DOMAIN reads[j] : a # b => reads[j][a] # reads[j][b]
        /\ call[j].batch /\ pc[j] \in {"finalize", "done"} => Range(reads[j]) = Probed(j)
        /\ call[j].cfg.threads = 1 =>
            \A a \in 2..Len(reads[j]) : ix.leaf[reads[j][a - 1]].page < ix.leaf[reads[j][a]].page
    /\ \A j, l \in Live : pc[j] = "sweep" /\ pc[l] = "sweep" => j = l

\* Pins follow use: while a search may still read a leaf for an entry of one of its
\* shortlists the leaf stays pinned, whichever worker pinned it; a call that has ended, by
\* return or by exception, keeps none, unless a shard of its scan threw beside others;
\* and routing leaves pins behind only on the plane or when it throws.
PinsFollowUse ==
    /\ \A j \in Live :
        /\ pc[j] = "scan" => \A parts \in AllParts(j) : \A i \in DOMAIN parts : \A e \in parts[i].heap :
                Pinned({qs[j][1].leaves[e.slot]}) \subseteq held[j].caller \cup held[j].workers
        /\ pc[j] \in {"done", "thrown"} =>
                held[j].caller = {} /\ (held[j].workers # {} => threw[j] # {})
    /\ \A t \in Threads :
        arena[t] = {} \/ (\E j \in Live : call[j].batch /\ (PlaneActive(ix, call[j].cfg) \/ threw[j] # {}))

\* Under a selective predicate and fraction routing, every leaf that holds a
\* matching row is a candidate, however far from the query it is.
DirectedProbesAll ==
    \A j \in Live : \A i \in 1..NumQueries(j) :
        LET cfg == Effective(call[j], i)
        IN  (/\ pc[j] \in {"sweep", "scan"} /\ ~qs[j][i].fallback
             /\ Directed(ix, cfg) /\ Fraction(ix, cfg) > 0 /\ Gap(ix, cfg) = 0
             /\ ~PlaneActive(ix, cfg))
            => \A l \in AllLeaves(ix) :
                (\E r \in Range(ix.leaf[l].rows) : Satisfies(r, cfg.pred)) => l \in Range(qs[j][i].leaves)

\* The pool threads that searches fallen back to can keep waiting at a time: each takes
\* the thread of a finalize worker and submits its shards behind it.
Splits(j)  == routing[j][1].status = "Ok" /\ Workers(j, routing[j][1].state.leaves) > 1
Waiting(j) == Min({call[j].cfg.threads,
                   Cardinality({i \in 1..NumQueries(j) : routing[j][i].state.fallback /\ Splits(call[j].inner[i])})})
PoolSuffices ==
    MapThenSumSet(Waiting, {j \in Live : call[j].batch}) < mode.pool

\* Every call that was made returns or throws, so that in the end, a job being called but
\* once, no call is under way: the stream always passes on, and the pool
\* is never exhausted by workers that wait if it has more threads than searches fallen
\* back to can hold.  With as many threads as that the pool can lock up, though
\* scan_pool.hpp:13-15 calls this impossible.
EventuallyReturns ==
    PoolSuffices =>
        <>[](Undefined \/ \A j \in Live : pc[j] \in {"idle", "uncalled", "done", "thrown"})

=============================================================================
