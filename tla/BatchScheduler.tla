--------------------------- MODULE BatchScheduler ---------------------------
(***************************************************************************)
(* The serving layer of batch search (src/src/tree/batch_scheduler.cpp):   *)
(* clients submit queries and get futures; a sweeper thread closes windows *)
(* by size, deadline or idle gap and launches each as one asynchronous     *)
(* search_batch call; a small cache answers exact repeats; stop drains.    *)
(*                                                                         *)
(* A section under mu_ is one step, and so is every notification, which    *)
(* the code makes after it released the lock.  The sweeper can miss one    *)
(* only by not waiting, never by the model's choice.  Time is the time     *)
(* left to each queued query's deadline.  A result is the query it answers *)
(* and the length of the prefix of that query's ranking it holds.          *)
(***************************************************************************)
EXTENDS Integers, Sequences, FiniteSets, SequencesExt

CONSTANTS
    Queries,            \* the submit calls
    Modes,              \* the workloads and configurations, see Mode
    MaxWindowQueries,   \* Config::max_window_queries
    MaxInflight,        \* Config::max_inflight_windows
    Shortlist,          \* length of an adaptive shortlist
    Nil, Broken

\* ask: the key, k and max_delay_us of every submit, where key.str stands for the strings
\* of the predicates and key.req for the vector, the rest of the predicates and the probe
\* fraction; the size of the result cache; whether a shortlist gap is set; whether
\* idle_close_us is set; and whether search_batch may throw.
IsMode(m) ==
    /\ \A q \in Queries : m.ask[q].k \in Nat \ {0} /\ m.ask[q].delay \in Nat \ {0}
    /\ m.result_cache_entries \in Nat
    /\ {m.adaptive, m.idle_close, m.fails} \subseteq BOOLEAN

\* What a future may hold: a prefix of the ranking of some query's key.
Results == [key : {m.ask[q].key : m \in Modes, q \in Queries}, n : 1..Shortlist]

ASSUME SchedulerAssumption ==
    /\ MaxWindowQueries \in Nat \ {0} /\ MaxInflight \in Nat \ {0} /\ Shortlist \in Nat
    /\ \A m \in Modes : IsMode(m) /\ \A q \in Queries : m.ask[q].k <= Shortlist
    /\ Nil # Broken /\ {Nil, Broken} \cap (Queries \cup Results) = {}

VARIABLES
    mode,       \* the scheduler's configuration and its clients' queries
    client,     \* where each submit is
    result,     \* what each future holds: Nil, a result or Broken
    queue,      \* queue_: queries and the time left to their deadlines
    cache,      \* cache_, most recent first
    inflight,   \* inflight_
    sweeper,    \* where the sweeper thread is
    forming,    \* the window it has closed and not yet launched
    tasks,      \* futs_: launched windows that have not been reaped
    stop,       \* where stop() is
    terminated  \* an exception left a thread or the destructor

vars == <<mode, client, result, queue, cache, inflight, sweeper, forming, tasks, stop, terminated>>

stopped == stop # "no"

Ask(q) == mode.ask[q]

-----------------------------------------------------------------------------
(* Notification *)

Waits == {"wait_empty", "wait_slot", "wait_close"}

\* cv_.notify_one and notify_all: the sweeper is the only waiter, and it decides
\* anew from the top of its loop.
Notify == sweeper' = IF sweeper \in Waits THEN "top" ELSE sweeper

-----------------------------------------------------------------------------
(* submit *)

\* Whether the key of a cached entry counts as the query's: predicates_equal looks at
\* every field of a predicate but its string, str_value.
predicates_equal(key, other) == key.req = other.req

\* The cached entry a submit may be answered with, by its position.
CacheHits(q) ==
    {i \in DOMAIN cache : predicates_equal(cache[i].key, Ask(q).key) /\ cache[i].k = Ask(q).k}

submit_cached(q) ==
    /\ client[q] = "new"
    /\ mode.result_cache_entries > 0
    /\ IF CacheHits(q) # {}
       THEN LET i == CHOOSE i \in CacheHits(q) : \A j \in CacheHits(q) : i <= j
            IN  /\ result' = [result EXCEPT ![q] = cache[i].results]
                /\ cache' = <<cache[i]>> \o RemoveAt(cache, i)
                /\ client' = [client EXCEPT ![q] = "returned"]
       ELSE /\ client' = [client EXCEPT ![q] = "enqueue"]
            /\ UNCHANGED <<result, cache>>
    /\ UNCHANGED <<mode, queue, inflight, sweeper, forming, tasks, stop, terminated>>

\* Mutant: the queue is kept in order of arrival.
InsertLast(e) == Append(queue, e)

\* Before the first entry with a later deadline.
InsertByDeadline(e) ==
    LET n == CHOOSE n \in 0..Len(queue) :
                /\ \A i \in 1..n : queue[i].left <= e.left
                /\ n = Len(queue) \/ queue[n + 1].left > e.left
    IN  SubSeq(queue, 1, n) \o <<e>> \o SubSeq(queue, n + 1, Len(queue))

submit_enqueue(q) ==
    /\ client[q] = IF mode.result_cache_entries > 0 THEN "enqueue" ELSE "new"
    /\ IF stopped
       THEN /\ client' = [client EXCEPT ![q] = "invalid"]
            /\ UNCHANGED queue
       ELSE /\ queue' = InsertByDeadline([q |-> q, left |-> Ask(q).delay])
            /\ client' = [client EXCEPT ![q] = "notify"]
    /\ UNCHANGED <<mode, result, cache, inflight, sweeper, forming, tasks, stop, terminated>>

submit_notify(q) ==
    /\ client[q] = "notify"
    /\ client' = [client EXCEPT ![q] = "returned"]
    /\ Notify
    /\ UNCHANGED <<mode, result, queue, cache, inflight, forming, tasks, stop, terminated>>

-----------------------------------------------------------------------------
(* The sweeper *)

Due(e) == e.left = 0

\* Mutant: the whole queue is dropped though only a prefix was taken.
DropsUntaken(n) == <<>>

\* What stays queued when the first n entries leave.
LeftBehind(n) == SubSeq(queue, n + 1, Len(queue))

\* A due front takes the due prefix with it, any other close the whole queue.
Taken ==
    IF ~Due(Head(queue)) THEN Len(queue)
    ELSE CHOOSE n \in DOMAIN queue :
            /\ \A i \in 1..n : Due(queue[i])
            /\ n = Len(queue) \/ ~Due(queue[n + 1])

CloseWindow ==
    /\ forming' = [i \in 1..Taken |-> queue[i].q]
    /\ queue' = LeftBehind(Taken)
    /\ inflight' = inflight + 1
    /\ sweeper' = "launch"

AtCapacity == ~stopped /\ inflight >= MaxInflight

\* The top of the loop, under the lock: exit, wait or close.
sweeper_decide ==
    /\ sweeper = "top"
    /\ \/ /\ queue = <<>>
          /\ sweeper' = IF stopped THEN "exited" ELSE "wait_empty"
          /\ UNCHANGED <<queue, forming, inflight>>
       \/ /\ queue # <<>> /\ AtCapacity
          /\ sweeper' = "wait_slot"
          /\ UNCHANGED <<queue, forming, inflight>>
       \/ /\ queue # <<>> /\ ~AtCapacity
          /\ stopped \/ Len(queue) >= MaxWindowQueries \/ Due(Head(queue))
          /\ CloseWindow
       \/ /\ queue # <<>> /\ ~AtCapacity
          /\ ~(stopped \/ Len(queue) >= MaxWindowQueries \/ Due(Head(queue)))
          /\ sweeper' = "wait_close"
          /\ UNCHANGED <<queue, forming, inflight>>
    /\ UNCHANGED <<mode, client, result, cache, tasks, stop, terminated>>

\* The timed wait ends without a notification: the idle gap or the deadline.
sweeper_timeout ==
    /\ sweeper = "wait_close"
    /\ mode.idle_close \/ Due(Head(queue))
    /\ CloseWindow
    /\ UNCHANGED <<mode, client, result, cache, tasks, stop, terminated>>

\* Launch the window, then reap: get() rethrows what a finished sweep threw, and
\* nothing in the sweeper thread catches it.
sweeper_launch ==
    /\ sweeper = "launch"
    /\ tasks' = {x \in tasks : x.pc # "failed"} \cup {[window |-> forming, pc |-> "sweep"]}
    /\ forming' = <<>>
    /\ sweeper' = "top"
    /\ terminated' = \E x \in tasks : x.pc = "failed"
    /\ UNCHANGED <<mode, client, result, queue, cache, inflight, stop>>

\* Deadlines come closer.
tick ==
    /\ \E i \in DOMAIN queue : queue[i].left > 0
    /\ queue' = [i \in DOMAIN queue |->
                    [queue[i] EXCEPT !.left = IF @ > 0 THEN @ - 1 ELSE 0]]
    /\ UNCHANGED <<mode, client, result, cache, inflight, sweeper, forming, tasks, stop, terminated>>

-----------------------------------------------------------------------------
(* A launched window *)

Cut(res, k) == IF res.n > k THEN [res EXCEPT !.n = k] ELSE res

\* search_batch runs once, with the largest k of the window.
Searched(q, window) ==
    LET ks == {Ask(window[i]).k : i \in DOMAIN window}
    IN  [key |-> Ask(q).key,
         n   |-> IF mode.adaptive THEN Shortlist ELSE CHOOSE k \in ks : \A j \in ks : j <= k]

\* Mutant: results are handed out as the window's search returned them.
DeliverUncut(q, window) == Searched(q, window)

\* With a shortlist gap the whole shortlist, else the query's own k.
Delivered(q, window) ==
    IF mode.adaptive THEN Searched(q, window) ELSE Cut(Searched(q, window), Ask(q).k)

CacheEntry(q, window) ==
    [key |-> Ask(q).key, k |-> Ask(q).k, results |-> Cut(Searched(q, window), Ask(q).k)]

\* The cache after the window's queries went in at the front, one after the other, each
\* with its results cut to its k, while what exceeds the limit left at the back.
CacheFilled(window) ==
    LET n   == Len(window)
        all == [i \in 1..n |-> CacheEntry(window[n + 1 - i], window)] \o cache
    IN  SubSeq(all, 1, IF Len(all) > mode.result_cache_entries
                       THEN mode.result_cache_entries ELSE Len(all))

Step(x, pc) == (tasks \ {x}) \cup {[x EXCEPT !.pc = pc]}

\* The search, then results to the cache and the promises under the lock.
dispatch_(x) ==
    /\ x.pc = "sweep"
    /\ result' = [q \in Queries |-> IF q \in Range(x.window) THEN Delivered(q, x.window) ELSE result[q]]
    /\ cache' = IF mode.result_cache_entries > 0
                THEN CacheFilled(x.window)
                ELSE cache
    /\ tasks' = Step(x, "finish")
    /\ UNCHANGED <<mode, client, queue, inflight, sweeper, forming, stop, terminated>>

\* search_batch throws: the window's promises break and inflight_ stays counted.
dispatch_throws(x) ==
    /\ x.pc = "sweep"
    /\ mode.fails
    /\ result' = [q \in Queries |-> IF q \in Range(x.window) THEN Broken ELSE result[q]]
    /\ tasks' = Step(x, "failed")
    /\ UNCHANGED <<mode, client, queue, cache, inflight, sweeper, forming, stop, terminated>>

dispatch_finish(x) ==
    /\ x.pc = "finish"
    /\ inflight' = inflight - 1
    /\ tasks' = Step(x, "notify")
    /\ UNCHANGED <<mode, client, result, queue, cache, sweeper, forming, stop, terminated>>

\* Mutant: a freed slot is not announced.
FinishSilently(x) ==
    /\ x.pc = "notify"
    /\ tasks' = tasks \ {x}
    /\ UNCHANGED <<mode, client, result, queue, cache, inflight, sweeper, forming, stop, terminated>>

\* The last act of the task; reaping it later has no effect.
dispatch_notify(x) ==
    /\ x.pc = "notify"
    /\ tasks' = tasks \ {x}
    /\ Notify
    /\ UNCHANGED <<mode, client, result, queue, cache, inflight, forming, stop, terminated>>

-----------------------------------------------------------------------------
(* stop *)

stop_begin ==
    /\ stop = "no"
    /\ stop' = "notify"
    /\ UNCHANGED <<mode, client, result, queue, cache, inflight, sweeper, forming, tasks, terminated>>

stop_notify ==
    /\ stop = "notify"
    /\ stop' = "join"
    /\ Notify
    /\ UNCHANGED <<mode, client, result, queue, cache, inflight, forming, tasks, terminated>>

\* Mutant: stop returns as soon as the sweeper has exited.
StopWithoutDrain ==
    /\ stop = "join" /\ sweeper = "exited"
    /\ stop' = "returned"
    /\ UNCHANGED <<mode, client, result, queue, cache, inflight, sweeper, forming, tasks, terminated>>

\* Join the sweeper and wait for every task; a failed one rethrows, out of the
\* destructor that called stop.
stop_drain ==
    /\ stop = "join" /\ sweeper = "exited"
    /\ \A x \in tasks : x.pc = "failed"
    /\ stop' = "returned"
    /\ terminated' = (tasks # {})
    /\ UNCHANGED <<mode, client, result, queue, cache, inflight, sweeper, forming, tasks>>

-----------------------------------------------------------------------------

Init ==
    /\ mode \in Modes
    /\ client = [q \in Queries |-> "new"]
    /\ result = [q \in Queries |-> Nil]
    /\ queue = <<>> /\ cache = <<>> /\ inflight = 0
    /\ sweeper = "top" /\ forming = <<>> /\ tasks = {}
    /\ stop = "no" /\ terminated = FALSE

Sweeper == sweeper_decide \/ sweeper_timeout \/ sweeper_launch
Task    == \E x \in tasks : dispatch_(x) \/ dispatch_throws(x) \/ dispatch_finish(x) \/ dispatch_notify(x)
Submit  == \E q \in Queries : submit_cached(q) \/ submit_enqueue(q) \/ submit_notify(q)
Stop    == stop_begin \/ stop_notify \/ stop_drain

Next == ~terminated /\ (Sweeper \/ Task \/ Submit \/ Stop \/ tick)

\* Threads that are running go on running, and time passes; nobody has to call
\* submit or stop.
Fairness ==
    /\ WF_vars(~terminated /\ Sweeper)
    /\ WF_vars(~terminated /\ tick)
    /\ \A q \in Queries : WF_vars(~terminated /\ submit_notify(q))
    /\ WF_vars(~terminated /\ Task)
    /\ WF_vars(~terminated /\ (stop_notify \/ stop_drain))

Spec == Init /\ [][Next]_vars /\ Fairness

-----------------------------------------------------------------------------
(* Properties *)

Queued   == {queue[i].q : i \in DOMAIN queue}
Forming  == Range(forming)
Sweeping == UNION {Range(x.window) : x \in {y \in tasks : y.pc = "sweep"}}
Accepted == {q \in Queries : client[q] \in {"notify", "returned"}}

\* Types; the result cache never holds more than its configured entries.
TypeOK ==
    /\ mode \in Modes
    /\ client \in [Queries -> {"new", "enqueue", "notify", "returned", "invalid"}]
    /\ \A q \in Queries : result[q] \in {Nil, Broken} \cup Results
    /\ queue \in Seq([q : Queries, left : Nat])
    /\ Len(cache) <= mode.result_cache_entries
    /\ inflight \in Nat
    /\ sweeper \in Waits \cup {"top", "launch", "exited"}
    /\ forming \in Seq(Queries)
    /\ tasks \subseteq [window : Seq(Queries), pc : {"sweep", "finish", "notify", "failed"}]
    /\ stop \in {"no", "notify", "join", "returned"}
    /\ terminated \in BOOLEAN

\* A submit that was accepted is in the queue, in the window being launched, in
\* one sweep, or answered, and in one of them only (submit, sweeper_loop_,
\* dispatch_ hand the promise on by moves).
Conserved ==
    /\ \A q \in Queries :
        (q \in Accepted) = (q \in Queued \cup Forming \cup Sweeping \/ result[q] # Nil)
    /\ Queued \cap Forming = {} /\ (Queued \cup Forming) \cap Sweeping = {}
    /\ \A q \in Queued \cup Forming \cup Sweeping : result[q] = Nil
    /\ Len(queue) = Cardinality(Queued)
    /\ \A x, y \in tasks : x # y => Range(x.window) \cap Range(y.window) = {}

\* What a search for the query alone gives: its ranking cut to its k, or the whole
\* shortlist when a shortlist gap is set; and the same cut to its k, as it is cached.
Full(q) == [key |-> Ask(q).key, n |-> IF mode.adaptive THEN Shortlist ELSE Ask(q).k]
TopK(q) == [key |-> Ask(q).key, n |-> Ask(q).k]

\* Every answer is what a search for the query alone would give, whoever shared its
\* window, or, with a result cache, the top k of an earlier query of the same k that was
\* given its own and that predicates_equal takes for this one.  So an answer is the
\* query's own unless two queries differ in nothing but their strings, and has its length
\* unless a shortlist gap is set together with a cache: the comments of submit and of
\* batch_scheduler.hpp:101 promise more than that.
OwnResults ==
    \A q \in Queries :
        result[q] \notin {Nil, Broken} =>
            \/ result[q] = Full(q)
            \/ /\ mode.result_cache_entries > 0
               /\ \E p \in Queries \ {q} :
                    /\ Ask(p).key.req = Ask(q).key.req /\ Ask(p).k = Ask(q).k
                    /\ result[q] = TopK(p) /\ result[p] = Full(p)

\* When stop has returned every accepted query is answered and no sweep runs
\* ("Drain the queue, stop the sweeper, resolve pending futures").
StopDrains ==
    stop = "returned" =>
        /\ \A q \in Accepted : result[q] # Nil
        /\ sweeper = "exited" /\ \A x \in tasks : x.pc = "failed"

\* A query never leaves the queue before one whose deadline is earlier, and none
\* leaves while one that is due stays: urgent queries jump ahead of patient ones.
UrgentFirst ==
    [][\A i, j \in DOMAIN queue :
        (/\ queue[i].q \in Range(forming')
         /\ \E k \in DOMAIN queue' : queue'[k].q = queue[j].q)
        => queue[i].left <= queue[j].left /\ ~Due(queue[j])]_vars

\* Every accepted query is answered, whatever arrives after it and whenever the
\* scheduler is stopped, as long as no search throws.
EventuallyAnswered ==
    ~mode.fails => \A q \in Queries : (q \in Accepted) ~> (result[q] # Nil)

=============================================================================
