------------------------ MODULE BatchSchedulerProofs ------------------------
(***************************************************************************)
(* Proofs about BatchScheduler, for any number of submits, every window    *)
(* cap, in-flight limit and cache size.                                    *)
(***************************************************************************)
EXTENDS BatchScheduler, CommonLemmas

Entry  == [q : Queries, left : Nat]
Keys   == {m.ask[q].key : m \in Modes, q \in Queries}
Cached == [key : Keys, k : 1..Shortlist, results : Results]
Pcs    == {"sweep", "finish", "notify", "failed"}

\* Types, as far as the other parts need them.
Types ==
    /\ mode \in Modes
    /\ client \in [Queries -> {"new", "enqueue", "notify", "returned", "invalid"}]
    /\ result \in [Queries -> {Nil, Broken} \cup Results]
    /\ queue \in Seq(Entry)
    /\ cache \in Seq(Cached) /\ Len(cache) <= mode.result_cache_entries
    /\ inflight \in Nat
    /\ sweeper \in Waits \cup {"top", "launch", "exited"}
    /\ forming \in Seq(Queries)
    /\ tasks \subseteq [window : Seq(Queries), pc : Pcs]
    /\ stop \in {"no", "notify", "join", "returned"}
    /\ terminated \in BOOLEAN

\* The queue is in order of deadlines and names no query twice.
QueueOrdered ==
    \A i, j \in DOMAIN queue :
        /\ i <= j => queue[i].left <= queue[j].left
        /\ queue[i].q = queue[j].q => i = j

\* Where an accepted query is, and that it is in one place.
Placed ==
    /\ \A q \in Queries :
        (q \in Accepted) <=> (q \in Queued \cup Forming \cup Sweeping \/ result[q] # Nil)
    /\ Queued \cap Forming = {} /\ (Queued \cup Forming) \cap Sweeping = {}
    /\ \A q \in Queued \cup Forming \cup Sweeping : result[q] = Nil

\* Windows are not empty and share no query, and those of a sweep that has ended are
\* answered.
WindowsApart ==
    /\ \A x \in tasks : x.window # <<>>
    /\ \A x, y \in tasks : x # y => Range(x.window) \cap Range(y.window) = {}
    /\ \A x \in tasks : x.pc # "sweep" => \A q \in Range(x.window) : result[q] # Nil

\* What the sweeper's place and stop's place tell about the rest.
Phases ==
    /\ (sweeper = "launch") <=> (forming # <<>>)
    /\ sweeper = "wait_close" => queue # <<>>
    /\ sweeper = "exited" => stopped /\ queue = <<>>
    /\ stop = "returned" => sweeper = "exited" /\ \A x \in tasks : x.pc = "failed"

\* Every window being launched, searched or answered holds a slot of its own; a search
\* that threw keeps its slot for good.
Running == {x \in tasks : x.pc \in {"sweep", "finish"}}
Slots ==
    /\ IsFiniteSet(tasks)
    /\ inflight >= Cardinality(Running) + (IF sweeper = "launch" THEN 1 ELSE 0)

\* A cached entry holds the top k of a query that was given its own results.
EntryOf(p) == [key |-> Ask(p).key, k |-> Ask(p).k, results |-> TopK(p)]
CacheSound == \A i \in DOMAIN cache : \E p \in Queries : cache[i] = EntryOf(p) /\ result[p] = Full(p)

IInv == Types /\ QueueOrdered /\ Placed /\ WindowsApart /\ Phases /\ Slots /\ CacheSound /\ OwnResults

-----------------------------------------------------------------------------
(* The operators *)

\* What a mode gives every query.
LEMMA ModeFacts ==
    ASSUME Types
    PROVE  /\ IsMode(mode)
           /\ \A q \in Queries : /\ Ask(q).k \in 1..Shortlist /\ Ask(q).delay \in Nat
                                 /\ Ask(q).key \in Keys
           /\ mode.result_cache_entries \in Nat
BY SchedulerAssumption DEF Types, IsMode, Ask, Keys

\* The queue is a sequence of entries, each with a time left.
LEMMA QueueFacts ==
    ASSUME Types
    PROVE  /\ Len(queue) \in Nat /\ DOMAIN queue = 1..Len(queue)
           /\ \A i \in 1..Len(queue) : queue[i] \in Entry /\ queue[i].q \in Queries /\ queue[i].left \in Nat
<1>1. queue \in Seq(Entry)
  BY DEF Types
<1>2. Len(queue) \in Nat /\ DOMAIN queue = 1..Len(queue) /\ \A i \in 1..Len(queue) : queue[i] \in Entry
  BY <1>1, LenProperties
<1>3. QED
  BY <1>2 DEF Entry

\* Everything queued, formed or swept is a submit.
LEMMA PlacesTyped ==
    ASSUME Types
    PROVE  /\ Queued \subseteq Queries /\ Forming \subseteq Queries /\ Sweeping \subseteq Queries
           /\ \A x \in tasks : x.window \in Seq(Queries) /\ Range(x.window) \subseteq Queries
<1>1. Queued \subseteq Queries
  BY QueueFacts DEF Queued
<1>2. \A w \in Seq(Queries) : Range(w) \subseteq Queries
  BY LenProperties DEF Range
<1>3. forming \in Seq(Queries) /\ \A x \in tasks : x.window \in Seq(Queries)
  BY DEF Types
<1>4. QED
  BY <1>1, <1>2, <1>3 DEF Forming, Sweeping

\* Results are neither of the two marks.
LEMMA ResultFacts ==
    /\ Nil # Broken /\ Nil \notin Results /\ Broken \notin Results
    /\ Results = [key : Keys, n : 1..Shortlist]
BY SchedulerAssumption DEF Results, Keys

\* What the deadline-sorted insertion yields.
LEMMA InsertFacts ==
    ASSUME Types, NEW e \in Entry
    PROVE  \E n \in 0..Len(queue) :
             /\ InsertByDeadline(e) = SubSeq(queue, 1, n) \o <<e>> \o SubSeq(queue, n + 1, Len(queue))
             /\ \A i \in 1..n : queue[i].left <= e.left
             /\ n < Len(queue) => queue[n + 1].left > e.left
<1> DEFINE D == {i \in 1..Len(queue) : queue[i].left <= e.left}
           P(n) == (\A i \in 1..n : queue[i].left <= e.left)
                   /\ (n = Len(queue) \/ queue[n + 1].left > e.left)
<1>1. Len(queue) \in Nat
  BY DEF Types
<1>2. PICK n \in 0..Len(queue) : (\A i \in 1..n : i \in D) /\ (n = Len(queue) \/ n + 1 \notin D)
  <2> HIDE DEF D
  <2>1. QED
    BY <1>1, LongestPrefix
<1>3. P(n)
  <2>1. \A i \in 1..n : queue[i].left <= e.left
    BY <1>2
  <2>2. ASSUME n # Len(queue) PROVE queue[n + 1].left > e.left
    <3>1. n + 1 \in 1..Len(queue)
      BY <1>1, <2>2
    <3>2. ~(queue[n + 1].left <= e.left)
      BY <1>2, <2>2, <3>1
    <3>3. queue[n + 1].left \in Nat /\ e.left \in Nat
      BY <3>1, QueueFacts DEF Entry
    <3>4. QED
      BY <3>2, <3>3
  <2>3. QED
    BY <2>1, <2>2
<1> DEFINE c == CHOOSE m \in 0..Len(queue) : P(m)
<1>4. c \in 0..Len(queue) /\ P(c)
  BY <1>3
<1>5. InsertByDeadline(e) = SubSeq(queue, 1, c) \o <<e>> \o SubSeq(queue, c + 1, Len(queue))
  BY DEF InsertByDeadline
<1> HIDE DEF c
<1>6. (\A i \in 1..c : queue[i].left <= e.left) /\ (c < Len(queue) => queue[c + 1].left > e.left)
  BY <1>1, <1>4
<1>7. QED
  BY <1>4, <1>5, <1>6, Zenon

\* The insertion keeps the order and adds the one query.
LEMMA InsertOrdered ==
    ASSUME Types, QueueOrdered, NEW e \in Entry, e.q \notin Queued, queue' = InsertByDeadline(e)
    PROVE  /\ queue' \in Seq(Entry) /\ queue' # <<>>
           /\ QueueOrdered'
           /\ Queued' = Queued \cup {e.q}
<1>1. PICK n \in 0..Len(queue) :
             /\ queue' = SubSeq(queue, 1, n) \o <<e>> \o SubSeq(queue, n + 1, Len(queue))
             /\ \A i \in 1..n : queue[i].left <= e.left
             /\ n < Len(queue) => queue[n + 1].left > e.left
  BY InsertFacts
<1>2. queue \in Seq(Entry) /\ Len(queue) \in Nat
  BY DEF Types
<1>3. /\ queue' \in Seq(Entry) /\ Len(queue') = Len(queue) + 1
      /\ \A i \in 1..n : queue'[i] = queue[i]
      /\ queue'[n + 1] = e
      /\ \A i \in (n + 1)..Len(queue) : queue'[i + 1] = queue[i]
  <2> DEFINE a == SubSeq(queue, 1, n)
             b == SubSeq(queue, n + 1, Len(queue))
  <2>1. queue' = a \o <<e>> \o b /\ a = SubSeq(queue, 1, n) /\ b = SubSeq(queue, n + 1, Len(queue))
    BY <1>1
  <2> HIDE DEF a, b
  <2>2. queue' \in Seq(Entry) /\ InsertedAt(queue', queue, n, e)
    BY ONLY <2>1, <1>2, n \in 0..Len(queue), e \in Entry, SeqInsert
  <2>3. QED
    BY ONLY <2>2 DEF InsertedAt
<1>4. DOMAIN queue' = 1..(Len(queue) + 1) /\ DOMAIN queue = 1..Len(queue)
  BY <1>2, <1>3, LenProperties
<1>5. \A i \in DOMAIN queue : queue[i].q # e.q
  BY DEF Queued
<1>6. \A i \in DOMAIN queue : i > n => queue[i].left > e.left
  <2> SUFFICES ASSUME NEW i \in DOMAIN queue, i > n PROVE queue[i].left > e.left
    OBVIOUS
  <2>1. n + 1 \in DOMAIN queue /\ n + 1 <= i /\ n < Len(queue)
    BY <1>2, <1>4
  <2>2. queue[n + 1].left <= queue[i].left
    BY <2>1 DEF QueueOrdered
  <2>3. queue[n + 1].left \in Nat /\ queue[i].left \in Nat /\ e.left \in Nat
    BY <2>1, <1>4, QueueFacts DEF Entry
  <2>4. QED
    BY <2>1, <2>2, <2>3, <1>1
<1>7. QueueOrdered'
  <2> SUFFICES ASSUME NEW i \in DOMAIN queue', NEW j \in DOMAIN queue'
               PROVE  /\ i <= j => queue'[i].left <= queue'[j].left
                      /\ queue'[i].q = queue'[j].q => i = j
    BY DEF QueueOrdered
  <2> DEFINE old(k) == IF k <= n THEN k ELSE k - 1
  <2>1. ASSUME NEW k \in DOMAIN queue', k # n + 1
        PROVE  old(k) \in DOMAIN queue /\ queue'[k] = queue[old(k)]
    <3>1. CASE k <= n
      BY <3>1, <1>2, <1>3, <1>4
    <3>2. CASE ~(k <= n)
      <4>1. k - 1 \in (n + 1)..Len(queue) /\ (k - 1) + 1 = k
        BY <3>2, <2>1, <1>2, <1>4
      <4>2. QED
        BY <4>1, <3>2, <1>3, <1>4
    <3>3. QED
      BY <3>1, <3>2
  <2>2. CASE i # n + 1 /\ j # n + 1
    BY <2>1, <2>2, <1>4 DEF QueueOrdered
  <2>3. CASE i = n + 1 /\ j # n + 1
    <3>1. queue'[j].q # queue'[i].q
      BY <2>1, <2>3, <1>3, <1>5
    <3>2. i <= j => queue'[i].left <= queue'[j].left
      <4>1. i <= j => j > n /\ old(j) > n
        BY <2>3, <1>2, <1>4
      <4>2. i <= j => e.left < queue[old(j)].left
        BY <4>1, <2>1, <2>3, <1>6
      <4>3. e.left \in Nat /\ queue[old(j)].left \in Nat
        BY <2>1, <2>3, <1>4, QueueFacts DEF Entry
      <4>4. QED
        BY <4>2, <4>3, <2>1, <2>3, <1>3
    <3>3. QED
      BY <3>1, <3>2
  <2>4. CASE i # n + 1 /\ j = n + 1
    <3>1. queue'[j].q # queue'[i].q
      BY <2>1, <2>4, <1>3, <1>5
    <3>2. i <= j => queue'[i].left <= queue'[j].left
      BY <2>1, <2>4, <1>1, <1>3, <1>4, <1>2 DEF Entry
    <3>3. QED
      BY <3>1, <3>2
  <2>5. CASE i = n + 1 /\ j = n + 1
    BY <2>5, <1>3 DEF Entry
  <2>6. QED
    BY <2>2, <2>3, <2>4, <2>5
<1>8. Queued' = Queued \cup {e.q}
  <2>1. \A k \in DOMAIN queue : \E m \in DOMAIN queue' : queue'[m] = queue[k]
    <3> TAKE k \in DOMAIN queue
    <3>1. CASE k <= n
      BY <3>1, <1>3, <1>4
    <3>2. CASE k > n
      <4>1. k + 1 \in DOMAIN queue' /\ queue'[k + 1] = queue[k]
        BY <3>2, <1>2, <1>3, <1>4
      <4>2. QED
        BY <4>1
    <3>3. QED
      BY <3>1, <3>2, <1>4
  <2>2. \A m \in DOMAIN queue' : queue'[m] = e \/ \E k \in DOMAIN queue : queue'[m] = queue[k]
    <3> TAKE m \in DOMAIN queue'
    <3>1. CASE m <= n
      BY <3>1, <1>2, <1>3, <1>4
    <3>2. CASE m > n + 1
      <4>1. m - 1 \in (n + 1)..Len(queue) /\ (m - 1) + 1 = m
        BY <3>2, <1>2, <1>4
      <4>2. QED
        BY <4>1, <1>3, <1>4
    <3>3. QED
      BY <3>1, <3>2, <1>3, <1>4
  <2>3. n + 1 \in DOMAIN queue' /\ queue'[n + 1] = e
    BY <1>3, <1>4
  <2>4. QED
    BY <2>1, <2>2, <2>3 DEF Queued
<1>9. QED
  BY <1>3, <1>7, <1>8

\* A closing window takes at least the head, and with a due head all that is due.
LEMMA TakenFacts ==
    ASSUME Types, QueueOrdered, queue # <<>>
    PROVE  /\ Taken \in 1..Len(queue)
           /\ \A j \in DOMAIN queue : j > Taken => ~Due(queue[j])
<1>1. Len(queue) \in Nat /\ DOMAIN queue = 1..Len(queue)
  BY QueueFacts
<1>2. Len(queue) > 0 /\ Head(queue) = queue[1]
  BY <1>1 DEF Types
<1>3. CASE ~Due(queue[1])
  BY <1>1, <1>2, <1>3 DEF Taken
<1>4. CASE Due(queue[1])
  <2> DEFINE D == {i \in 1..Len(queue) : Due(queue[i])}
             P(n) == (\A i \in 1..n : Due(queue[i])) /\ (n = Len(queue) \/ ~Due(queue[n + 1]))
  <2>1. PICK n \in 0..Len(queue) : (\A i \in 1..n : i \in D) /\ (n = Len(queue) \/ n + 1 \notin D)
    <3> HIDE DEF D
    <3>1. QED
      BY <1>1, LongestPrefix
  <2>2. n \in DOMAIN queue
    <3>1. 1 \in D
      BY <1>1, <1>2, <1>4
    <3> HIDE DEF D
    <3>2. n # 0
      BY <2>1, <3>1, <1>2
    <3>3. QED
      BY ONLY n \in 0..Len(queue), <3>2, <1>1
  <2>3. P(n)
    BY <2>1, <2>2, <1>1
  <2> DEFINE c == CHOOSE m \in DOMAIN queue : P(m)
  <2>4. c \in DOMAIN queue /\ P(c)
    BY <2>2, <2>3
  <2>5. Taken = c
    BY <1>2, <1>4 DEF Taken
  <2> HIDE DEF c
  <2>6. \A j \in DOMAIN queue : j > c => ~Due(queue[j])
    <3> SUFFICES ASSUME NEW j \in DOMAIN queue, j > c PROVE ~Due(queue[j])
      OBVIOUS
    <3>1. c + 1 \in DOMAIN queue /\ c + 1 <= j /\ c # Len(queue)
      BY <1>1, <2>4
    <3>2. ~Due(queue[c + 1]) /\ queue[c + 1].left <= queue[j].left
      BY <2>4, <3>1 DEF QueueOrdered
    <3>3. queue[c + 1].left \in Nat /\ queue[j].left \in Nat
      BY <3>1, <1>1, QueueFacts
    <3>4. QED
      BY <3>2, <3>3 DEF Due
  <2>7. QED
    BY <2>4, <2>5, <2>6, <1>1
<1>5. QED
  BY <1>3, <1>4

\* Closing a window hands a part of the queue to the sweeper and leaves the rest in order.
LEMMA CloseFacts ==
    ASSUME Types, QueueOrdered, queue # <<>>, CloseWindow
    PROVE  /\ forming' \in Seq(Queries) /\ forming' # <<>>
           /\ queue' \in Seq(Entry) /\ QueueOrdered'
           /\ Queued' \cup Forming' = Queued /\ Queued' \cap Forming' = {}
           /\ \A i, j \in DOMAIN queue :
                queue[i].q \in Forming' /\ queue[j].q \in Queued' => i < j /\ ~Due(queue[j])
<1> DEFINE n == Taken
<1>1. /\ Len(queue) \in Nat /\ DOMAIN queue = 1..Len(queue)
      /\ \A i \in 1..Len(queue) : queue[i] \in Entry /\ queue[i].q \in Queries
  BY QueueFacts
<1>2. n \in 1..Len(queue) /\ \A j \in DOMAIN queue : j > n => ~Due(queue[j])
  BY TakenFacts
<1>3. forming' = [i \in 1..n |-> queue[i].q] /\ queue' = SubSeq(queue, n + 1, Len(queue))
  BY DEF CloseWindow, LeftBehind
<1> HIDE DEF n
<1>4. forming' \in Seq(Queries) /\ Len(forming') = n
  BY <1>1, <1>2, <1>3
<1>5. forming' # <<>> /\ DOMAIN forming' = 1..n /\ \A i \in 1..n : forming'[i] = queue[i].q
  BY ONLY <1>2, <1>3, <1>4
<1>6. /\ queue' \in Seq(Entry) /\ Len(queue') = Len(queue) - n
      /\ \A i \in 1..(Len(queue) - n) : queue'[i] = queue[n + i]
  <2>1. queue \in Seq(Entry) /\ n + 1 \in 1..(Len(queue) + 1) /\ Len(queue) \in ((n + 1) - 1)..Len(queue)
    BY <1>1, <1>2 DEF Types
  <2>2. /\ queue' \in Seq(Entry) /\ Len(queue') = Len(queue) - (n + 1) + 1
        /\ \A i \in 1..(Len(queue) - (n + 1) + 1) : queue'[i] = queue[(n + 1) + i - 1]
    BY ONLY <2>1, <1>3, SeqPart
  <2>3. /\ Len(queue) - (n + 1) + 1 = Len(queue) - n
        /\ \A i \in 1..(Len(queue) - n) : (n + 1) + i - 1 = n + i
    BY ONLY <1>1, <1>2
  <2>4. QED
    BY ONLY <2>2, <2>3
<1>7. DOMAIN queue' = 1..(Len(queue) - n)
  BY <1>6, LenProperties
<1>8. \A i \in DOMAIN queue' : n + i \in DOMAIN queue
  BY <1>1, <1>2, <1>7
<1>9. QueueOrdered'
  <2> SUFFICES ASSUME NEW i \in DOMAIN queue', NEW j \in DOMAIN queue'
               PROVE  /\ i <= j => queue'[i].left <= queue'[j].left
                      /\ queue'[i].q = queue'[j].q => i = j
    BY DEF QueueOrdered
  <2>1. /\ n + i \in DOMAIN queue /\ n + j \in DOMAIN queue
        /\ queue'[i] = queue[n + i] /\ queue'[j] = queue[n + j]
    BY <1>6, <1>7, <1>8
  <2>2. (i <= j => n + i <= n + j) /\ (n + i = n + j => i = j)
    BY <1>1, <1>2, <1>7
  <2>3. QED
    BY <2>1, <2>2 DEF QueueOrdered
<1>10. /\ Forming' = {queue[i].q : i \in 1..n}
       /\ Queued' = {queue[i].q : i \in (n + 1)..Len(queue)}
  <2>1. Forming' = {queue[i].q : i \in 1..n}
    BY <1>5 DEF Forming, Range
  <2>2. ASSUME NEW x, x \in Queued' PROVE x \in {queue[i].q : i \in (n + 1)..Len(queue)}
    <3>1. PICK i \in DOMAIN queue' : x = queue'[i].q
      BY <2>2 DEF Queued
    <3>2. n + i \in (n + 1)..Len(queue) /\ x = queue[n + i].q
      BY <3>1, <1>1, <1>2, <1>6, <1>7
    <3>3. QED
      BY <3>2
  <2>3. ASSUME NEW i \in (n + 1)..Len(queue) PROVE queue[i].q \in Queued'
    <3>1. i - n \in DOMAIN queue' /\ n + (i - n) = i
      BY <1>1, <1>2, <1>7
    <3>2. queue'[i - n].q = queue[i].q
      BY <3>1, <1>6, <1>7
    <3>3. QED
      BY <3>1, <3>2 DEF Queued
  <2>4. QED
    BY <2>1, <2>2, <2>3
<1>11. Queued' \cup Forming' = Queued
  <2>1. Queued = {queue[i].q : i \in 1..Len(queue)}
    BY <1>1 DEF Queued
  <2>2. 1..Len(queue) = (1..n) \cup ((n + 1)..Len(queue))
    BY <1>1, <1>2
  <2>3. QED
    BY ONLY <2>1, <2>2, <1>10
<1>12. ASSUME NEW i \in DOMAIN queue, NEW j \in DOMAIN queue,
              queue[i].q \in Forming', queue[j].q \in Queued'
       PROVE  i <= n /\ j > n
  <2>1. PICK a \in 1..n : queue[i].q = queue[a].q
    BY <1>10, <1>12
  <2>2. PICK b \in (n + 1)..Len(queue) : queue[j].q = queue[b].q
    BY <1>10, <1>12
  <2>3. i = a /\ j = b
    BY <2>1, <2>2, <1>1, <1>2 DEF QueueOrdered
  <2>4. QED
    BY <2>3, <1>1, <1>2
<1>13. Queued' \cap Forming' = {}
  <2> SUFFICES ASSUME NEW x, x \in Queued', x \in Forming' PROVE FALSE
    OBVIOUS
  <2>1. PICK i \in DOMAIN queue : x = queue[i].q
    BY <1>11 DEF Queued
  <2>2. i <= n /\ i > n
    BY <2>1, <1>12
  <2>3. QED
    BY <2>2, <1>1, <1>2
<1>14. \A i, j \in DOMAIN queue :
         queue[i].q \in Forming' /\ queue[j].q \in Queued' => i < j /\ ~Due(queue[j])
  BY <1>1, <1>2, <1>12
<1>15. QED
  BY <1>4, <1>5, <1>6, <1>9, <1>11, <1>13, <1>14

\* A window's search gives every query of it its own ranking, at least as long as it
\* asked for; cut to its k that is its own answer.
LEMMA SearchedFacts ==
    ASSUME Types, NEW w \in Seq(Queries), NEW q \in Range(w)
    PROVE  /\ q \in Queries
           /\ Cut(Searched(q, w), Ask(q).k) = [key |-> Ask(q).key, n |-> Ask(q).k]
           /\ mode.adaptive => Searched(q, w) = [key |-> Ask(q).key, n |-> Shortlist]
<1> DEFINE ks == {Ask(w[i]).k : i \in DOMAIN w}
           g  == CHOOSE k \in ks : \A j \in ks : j <= k
           n  == IF mode.adaptive THEN Shortlist ELSE g
<1>1. \A i \in DOMAIN w : w[i] \in Queries
  BY ElementOfSeq, LenProperties
<1>2. PICK p \in DOMAIN w : w[p] = q
  BY DEF Range
<1>3. q \in Queries /\ Ask(q).k \in ks /\ Shortlist \in Nat
  BY <1>1, <1>2, SchedulerAssumption
<1>4. ks \subseteq 0..Shortlist /\ Ask(q).k \in 1..Shortlist
  BY <1>1, <1>3, ModeFacts
<1> HIDE DEF ks
<1>5. \E k \in ks : \A j \in ks : j <= k
  BY <1>3, <1>4, GreatestNat
<1>6. g \in ks /\ \A j \in ks : j <= g
  BY <1>5
<1> HIDE DEF g
<1>7. n \in 1..Shortlist /\ Ask(q).k <= n
  BY <1>3, <1>4, <1>6
<1>8. Searched(q, w) = [key |-> Ask(q).key, n |-> n]
  BY DEF Searched, g, ks
<1>9. Cut(Searched(q, w), Ask(q).k) = [key |-> Ask(q).key, n |-> Ask(q).k]
  <2> HIDE DEF n
  <2> DEFINE r == [key |-> Ask(q).key, n |-> n]
  <2>1. r.n = n /\ [r EXCEPT !.n = Ask(q).k] = [key |-> Ask(q).key, n |-> Ask(q).k]
    OBVIOUS
  <2>2. n > Ask(q).k \/ n = Ask(q).k
    BY <1>4, <1>7
  <2>3. QED
    BY <1>8, <2>1, <2>2 DEF Cut
<1>10. QED
  BY <1>3, <1>8, <1>9

\* What a window's queries are given.
LEMMA DeliveredFacts ==
    ASSUME Types, NEW w \in Seq(Queries), NEW q \in Range(w)
    PROVE  /\ Delivered(q, w) = Full(q)
           /\ Delivered(q, w) \in Results
<1>1. Delivered(q, w) = Full(q)
  BY SearchedFacts DEF Delivered, Full
<1>2. q \in Queries
  BY SearchedFacts
<1>3. Ask(q).k \in 1..Shortlist /\ Shortlist \in Nat /\ Ask(q).key \in Keys
  BY <1>2, ModeFacts, SchedulerAssumption
<1>4. QED
  BY <1>1, <1>3, ResultFacts DEF Full

\* What a window puts into the cache is an entry of the query.
LEMMA CacheEntryFacts ==
    ASSUME Types, NEW w \in Seq(Queries), NEW q \in Range(w)
    PROVE  q \in Queries /\ CacheEntry(q, w) = EntryOf(q) /\ EntryOf(q) \in Cached
<1>1. CacheEntry(q, w) = EntryOf(q)
  BY SearchedFacts DEF CacheEntry, EntryOf, TopK
<1>2. q \in Queries
  BY SearchedFacts
<1>3. Ask(q).k \in 1..Shortlist /\ Ask(q).key \in Keys
  BY <1>2, ModeFacts
<1>4. TopK(q) \in Results
  BY <1>3, ResultFacts DEF TopK
<1>5. QED
  BY <1>1, <1>2, <1>3, <1>4 DEF Cached, EntryOf

\* Filling the cache keeps it sound and within its limit.
LEMMA CacheFilledFacts ==
    ASSUME Types, CacheSound, NEW w \in Seq(Queries), cache' = CacheFilled(w), mode' = mode,
           \A q \in Range(w) : result'[q] = Full(q),
           \A q \in Queries : result[q] = Full(q) => result'[q] = Full(q)
    PROVE  cache' \in Seq(Cached) /\ Len(cache') <= mode.result_cache_entries /\ CacheSound'
<1> DEFINE n   == Len(w)
           new == [i \in 1..n |-> CacheEntry(w[n + 1 - i], w)]
           all == new \o cache
           m   == IF Len(all) > mode.result_cache_entries THEN mode.result_cache_entries ELSE Len(all)
           ok(e) == \E p \in Queries : e = EntryOf(p) /\ result'[p] = Full(p)
<1>1. cache' = SubSeq(all, 1, m)
  BY DEF CacheFilled
<1>2. n \in Nat /\ \A i \in 1..n : w[i] \in Range(w)
  BY LenProperties DEF Range
<1>3. \A i \in 1..n : n + 1 - i \in 1..n
  BY <1>2
<1>4. \A i \in 1..n : new[i] \in Cached /\ ok(new[i])
  BY <1>2, <1>3, CacheEntryFacts
<1>5. new \in Seq(Cached) /\ Len(new) = n
  <2>1. new \in [1..n -> Cached]
    BY <1>4
  <2> HIDE DEF new, n
  <2>2. QED
    BY <1>2, <2>1
<1>6. cache \in Seq(Cached) /\ \A i \in 1..Len(cache) : ok(cache[i])
  <2>1. cache \in Seq(Cached)
    BY DEF Types
  <2>2. DOMAIN cache = 1..Len(cache)
    BY <2>1, LenProperties
  <2>3. QED
    BY <2>1, <2>2 DEF CacheSound
<1> HIDE DEF new, n, ok
<1>7. /\ all \in Seq(Cached) /\ Len(all) = Len(new) + Len(cache) /\ Len(new) \in Nat /\ Len(cache) \in Nat
      /\ \A i \in 1..Len(new) : all[i] = new[i]
      /\ \A i \in 1..Len(cache) : all[Len(new) + i] = cache[i]
  <2>1. new \in Seq(Cached) /\ cache \in Seq(Cached) /\ all = new \o cache
    BY <1>5, <1>6
  <2> HIDE DEF all
  <2>2. QED
    BY ONLY <2>1, ConcatTwo
<1> HIDE DEF all
<1>8. \A i \in 1..Len(all) : ok(all[i])
  <2> SUFFICES ASSUME NEW i \in 1..Len(all) PROVE ok(all[i])
    OBVIOUS
  <2>1. CASE i <= Len(new)
    BY <2>1, <1>4, <1>5, <1>7
  <2>2. CASE i > Len(new)
    <3>1. i - Len(new) \in 1..Len(cache) /\ Len(new) + (i - Len(new)) = i
      BY ONLY <2>2, <1>7, i \in 1..Len(all)
    <3>2. all[i] = cache[i - Len(new)]
      BY ONLY <3>1, <1>7
    <3>3. QED
      BY ONLY <3>1, <3>2, <1>6
  <2>3. QED
    BY ONLY <2>1, <2>2, <1>7, i \in 1..Len(all)
<1>9. m \in 0..Len(all) /\ m <= mode.result_cache_entries
  BY <1>7, ModeFacts
<1> HIDE DEF m
<1>10. /\ cache' \in Seq(Cached) /\ Len(cache') = m
       /\ \A i \in 1..m : cache'[i] = all[i]
  <2>1. 1 \in 1..(Len(all) + 1) /\ m \in (1 - 1)..Len(all) /\ m \in Int
    BY ONLY <1>7, <1>9
  <2>2. /\ cache' \in Seq(Cached) /\ Len(cache') = m - 1 + 1
        /\ \A i \in 1..(m - 1 + 1) : cache'[i] = all[1 + i - 1]
    BY ONLY <2>1, <1>1, <1>7, SeqPart
  <2>3. m - 1 + 1 = m /\ \A i \in 1..m : 1 + i - 1 = i
    BY ONLY <2>1
  <2>4. QED
    BY ONLY <2>2, <2>3
<1>11. \A i \in DOMAIN cache' : ok(cache'[i])
  <2>1. DOMAIN cache' = 1..m /\ m \in Nat
    BY ONLY <1>7, <1>9, <1>10, LenProperties
  <2>2. QED
    BY ONLY <2>1, <1>7, <1>8, <1>9, <1>10
<1>12. QED
  BY <1>9, <1>10, <1>11 DEF CacheSound, ok, EntryOf, Full, TopK, Ask

-----------------------------------------------------------------------------
(* submit *)

\* The invariant through a submit that the cache answers.
LEMMA CachedStep ==
    ASSUME IInv, NEW q \in Queries, submit_cached(q)
    PROVE  IInv'
<1>1. Types /\ QueueOrdered /\ Placed /\ WindowsApart /\ Phases /\ Slots /\ CacheSound /\ OwnResults
  BY DEF IInv
<1>2. q \notin Accepted /\ result[q] = Nil /\ q \notin Queued \cup Forming \cup Sweeping
  BY <1>1 DEF submit_cached, Placed, Accepted
<1>3. UNCHANGED <<mode, queue, inflight, sweeper, forming, tasks, stop, terminated>>
  BY DEF submit_cached
<1>4. UNCHANGED <<Queued, Forming, Sweeping, Running>>
  BY <1>3 DEF Queued, Forming, Sweeping, Running
<1>5. QueueOrdered' /\ Phases' /\ Slots'
  BY <1>1, <1>3, <1>4 DEF QueueOrdered, Phases, Slots, stopped
<1>6. CASE CacheHits(q) = {}
  <2>1. client' = [client EXCEPT ![q] = "enqueue"] /\ UNCHANGED <<result, cache>>
    BY <1>6 DEF submit_cached
  <2>2. Types'
    BY <1>1, <1>3, <2>1 DEF Types
  <2>3. Accepted' = Accepted
    BY <1>1, <1>2, <2>1 DEF Accepted, Types
  <2>4. Placed'
    BY <1>1, <1>4, <2>1, <2>3 DEF Placed
  <2>5. WindowsApart' /\ CacheSound' /\ OwnResults'
    BY <1>1, <1>3, <2>1 DEF WindowsApart, CacheSound, OwnResults, Ask, EntryOf, Full, TopK
  <2>6. QED
    BY <1>5, <2>2, <2>4, <2>5 DEF IInv
<1>7. CASE CacheHits(q) # {}
  <2> DEFINE i == CHOOSE i \in CacheHits(q) : \A j \in CacheHits(q) : i <= j
  <2>1. cache \in Seq(Cached)
    BY <1>1 DEF Types
  <2>2. Len(cache) \in Nat /\ DOMAIN cache = 1..Len(cache)
    BY ONLY <2>1, LenProperties
  <2>3. CacheHits(q) \subseteq Nat
    BY <2>2 DEF CacheHits
  <2>4. i \in CacheHits(q)
    BY <1>7, <2>3, LeastNat
  <2>5. /\ result' = [result EXCEPT ![q] = cache[i].results]
        /\ cache' = <<cache[i]>> \o RemoveAt(cache, i)
        /\ client' = [client EXCEPT ![q] = "returned"]
        /\ mode.result_cache_entries > 0
    BY <1>7 DEF submit_cached
  <2> HIDE DEF i
  <2>6. i \in 1..Len(cache) /\ predicates_equal(cache[i].key, Ask(q).key) /\ cache[i].k = Ask(q).k
    BY <2>2, <2>4 DEF CacheHits
  <2>7. cache[i] \in Cached
    BY <2>1, <2>2, <2>6, ElementOfSeq
  <2>71. PICK o \in Queries : cache[i] = EntryOf(o) /\ result[o] = Full(o)
    BY <1>1, <2>2, <2>6 DEF CacheSound
  <2>72. cache[i].key = Ask(o).key /\ cache[i].k = Ask(o).k /\ cache[i].results = TopK(o)
    BY <2>71 DEF EntryOf
  <2>73. o # q
    <3>1. Full(o) \in Results
      <4>1. Ask(o).k \in 1..Shortlist /\ Shortlist \in Nat /\ Ask(o).key \in Keys
        BY <1>1, ModeFacts, SchedulerAssumption
      <4>2. QED
        BY <4>1, ResultFacts DEF Full
    <3>2. QED
      BY <3>1, <2>71, <1>2, ResultFacts
  <2> DEFINE r == cache[i].results
  <2>8. r \in Results /\ r # Nil /\ r # Broken
    BY <2>7, ResultFacts DEF Cached
  <2>9. cache' \in Seq(Cached) /\ Len(cache') = Len(cache) /\ Range(cache') = Range(cache)
    <3>1. cache' = <<cache[i]>> \o RemoveAt(cache, i)
      BY <2>5
    <3>2. QED
      BY ONLY <3>1, <2>1, <2>6, MoveToFront
  <2>10. result' = [result EXCEPT ![q] = r]
    BY <2>5
  <2> HIDE DEF r
  <2>11. Types'
    <3>1. result' \in [Queries -> {Nil, Broken} \cup Results]
      BY <1>1, <2>8, <2>10 DEF Types
    <3>2. client' \in [Queries -> {"new", "enqueue", "notify", "returned", "invalid"}]
      BY <1>1, <2>5 DEF Types
    <3>3. Len(cache') <= mode'.result_cache_entries
      BY <1>1, <1>3, <2>9 DEF Types
    <3>4. QED
      BY <1>1, <1>3, <2>9, <3>1, <3>2, <3>3 DEF Types
  <2>12. result'[q] = r /\ \A p \in Queries : p # q => result'[p] = result[p]
    BY <1>1, <2>10 DEF Types
  <2>13. Accepted' = Accepted \cup {q}
    BY <1>1, <2>5 DEF Accepted, Types
  <2>14. Placed'
    <3>1. Queued \cup Forming \cup Sweeping \subseteq Queries
      BY <1>1, PlacesTyped
    <3>2. \A p \in Queued \cup Forming \cup Sweeping : result'[p] = Nil
      BY <3>1, <1>1, <1>2, <2>12 DEF Placed
    <3>3. \A p \in Queries : (p \in Accepted') <=> (p \in Queued \cup Forming \cup Sweeping \/ result'[p] # Nil)
      BY <1>1, <1>2, <2>8, <2>12, <2>13 DEF Placed
    <3>4. QED
      BY <1>1, <1>4, <3>2, <3>3 DEF Placed
  <2>15. WindowsApart'
    <3> SUFFICES ASSUME NEW x \in tasks, x.pc # "sweep", NEW p \in Range(x.window) PROVE result'[p] # Nil
      BY <1>1, <1>3 DEF WindowsApart
    <3>1. result[p] # Nil
      BY <1>1 DEF WindowsApart
    <3>2. p # q
      BY <3>1, <1>2
    <3>3. QED
      BY <3>1, <3>2, <2>10
  <2>16. CacheSound'
    <3>1. \A e \in Range(cache) : \E p \in Queries : e = EntryOf(p) /\ result[p] = Full(p)
      BY <1>1 DEF CacheSound, Range
    <3>2. \A p \in Queries : result[p] = Full(p) => result'[p] = Full(p)
      <4> SUFFICES ASSUME NEW p \in Queries, result[p] = Full(p) PROVE result'[p] = Full(p)
        OBVIOUS
      <4>1. Ask(p).k \in 1..Shortlist /\ Shortlist \in Nat /\ Ask(p).key \in Keys
        BY <1>1, ModeFacts, SchedulerAssumption
      <4>2. Full(p) \in Results
        BY <4>1, ResultFacts DEF Full
      <4>3. p # q
        BY <4>2, <1>2, ResultFacts
      <4>4. QED
        BY <4>3, <2>12
    <3>3. \A p \in Queries : EntryOf(p)' = EntryOf(p) /\ Full(p)' = Full(p)
      BY <1>3 DEF EntryOf, Full, TopK, Ask
    <3>4. \A e \in Range(cache') : \E p \in Queries : e = EntryOf(p)' /\ result'[p] = Full(p)'
      BY <3>1, <3>2, <3>3, <2>9
    <3>5. QED
      BY <3>4 DEF CacheSound, Range
  <2>17. OwnResults'
    <3>1. \A p \in Queries : Full(p)' = Full(p) /\ TopK(p)' = TopK(p) /\ Ask(p)' = Ask(p)
      BY <1>3 DEF Full, TopK, Ask
    <3> SUFFICES ASSUME NEW p \in Queries, result'[p] \notin {Nil, Broken}
                 PROVE  \/ result'[p] = Full(p)
                        \/ /\ mode.result_cache_entries > 0
                           /\ \E t \in Queries \ {p} :
                                /\ Ask(t).key.req = Ask(p).key.req /\ Ask(t).k = Ask(p).k
                                /\ result'[p] = TopK(t) /\ result'[t] = Full(t)
      BY <1>3, <3>1 DEF OwnResults
    <3>2. CASE p = q
      <4>1. result'[o] = Full(o) /\ result'[q] = TopK(o)
        BY <2>12, <2>71, <2>72, <2>73 DEF r
      <4>2. Ask(o).key.req = Ask(q).key.req /\ Ask(o).k = Ask(q).k
        BY <2>6, <2>72 DEF predicates_equal
      <4>3. QED
        BY <3>2, <4>1, <4>2, <2>5, <2>73
    <3>3. CASE p # q
      <4>1. result'[p] = result[p]
        BY <3>3, <2>12
      <4>2. \A t \in Queries : result[t] = Full(t) => result'[t] = Full(t)
        <5> SUFFICES ASSUME NEW t \in Queries, result[t] = Full(t) PROVE result'[t] = Full(t)
          OBVIOUS
        <5>1. Ask(t).k \in 1..Shortlist /\ Shortlist \in Nat /\ Ask(t).key \in Keys
          BY <1>1, ModeFacts, SchedulerAssumption
        <5>2. Full(t) \in Results
          BY <5>1, ResultFacts DEF Full
        <5>3. QED
          BY <5>2, <1>2, <2>12, ResultFacts
      <4>3. QED
        BY <4>1, <4>2, <1>1 DEF OwnResults
    <3>4. QED
      BY <3>2, <3>3
  <2>18. QED
    BY <1>5, <2>11, <2>14, <2>15, <2>16, <2>17 DEF IInv
<1>8. QED
  BY <1>6, <1>7

\* The invariant through a submit that inserts by deadline.
LEMMA EnqueueStep ==
    ASSUME IInv, NEW q \in Queries, submit_enqueue(q)
    PROVE  IInv'
<1>1. Types /\ QueueOrdered /\ Placed /\ WindowsApart /\ Phases /\ Slots /\ CacheSound /\ OwnResults
  BY DEF IInv
<1>2. client[q] \in {"new", "enqueue"}
  BY DEF submit_enqueue
<1>3. q \notin Accepted /\ result[q] = Nil /\ q \notin Queued \cup Forming \cup Sweeping
  BY <1>1, <1>2 DEF Placed, Accepted
<1>4. UNCHANGED <<mode, result, cache, inflight, sweeper, forming, tasks, stop, terminated>>
  BY DEF submit_enqueue
<1>5. UNCHANGED <<Forming, Sweeping, Running>>
  BY <1>4 DEF Forming, Sweeping, Running
<1>6. WindowsApart' /\ Slots' /\ CacheSound' /\ OwnResults'
  BY <1>1, <1>4, <1>5 DEF WindowsApart, Slots, CacheSound, OwnResults, Ask, EntryOf, Full, TopK
<1>7. CASE stopped
  <2>1. client' = [client EXCEPT ![q] = "invalid"] /\ UNCHANGED queue
    BY <1>7 DEF submit_enqueue
  <2>2. Types' /\ QueueOrdered' /\ Phases'
    BY <1>1, <1>4, <2>1 DEF Types, QueueOrdered, Phases, stopped
  <2>3. Accepted' = Accepted /\ Queued' = Queued
    BY <1>1, <1>3, <2>1 DEF Accepted, Types, Queued
  <2>4. Placed'
    BY <1>1, <1>4, <1>5, <2>3 DEF Placed
  <2>5. QED
    BY <1>6, <2>2, <2>4 DEF IInv
<1>8. CASE ~stopped
  <2> DEFINE e == [q |-> q, left |-> Ask(q).delay]
  <2>1. queue' = InsertByDeadline(e) /\ client' = [client EXCEPT ![q] = "notify"]
    BY <1>8 DEF submit_enqueue
  <2>2. e \in Entry /\ e.q = q
    BY <1>1, ModeFacts DEF Entry
  <2> HIDE DEF e
  <2>3. queue' \in Seq(Entry) /\ queue' # <<>> /\ QueueOrdered' /\ Queued' = Queued \cup {q}
    BY <1>1, <1>3, <2>1, <2>2, InsertOrdered
  <2>4. Types'
    <3>1. client' \in [Queries -> {"new", "enqueue", "notify", "returned", "invalid"}]
      BY <1>1, <2>1 DEF Types
    <3>2. QED
      BY <1>1, <1>4, <2>3, <3>1 DEF Types
  <2>5. Accepted' = Accepted \cup {q}
    BY <1>1, <2>1 DEF Accepted, Types
  <2>6. Placed'
    BY <1>1, <1>3, <1>4, <1>5, <2>3, <2>5 DEF Placed
  <2>7. Phases'
    BY <1>1, <1>4, <1>8, <2>3 DEF Phases, stopped
  <2>8. QED
    BY <1>6, <2>3, <2>4, <2>6, <2>7 DEF IInv
<1>9. QED
  BY <1>7, <1>8

\* The invariant through the notification of a submit.
LEMMA NotifyStep ==
    ASSUME IInv, NEW q \in Queries, submit_notify(q)
    PROVE  IInv'
<1>1. Types /\ QueueOrdered /\ Placed /\ WindowsApart /\ Phases /\ Slots /\ CacheSound /\ OwnResults
  BY DEF IInv
<1>2. /\ UNCHANGED <<mode, result, queue, cache, inflight, forming, tasks, stop, terminated>>
      /\ client[q] = "notify" /\ client' = [client EXCEPT ![q] = "returned"]
      /\ sweeper' = IF sweeper \in Waits THEN "top" ELSE sweeper
  BY DEF submit_notify, Notify
<1>3. UNCHANGED <<Queued, Forming, Sweeping, Running>>
  BY <1>2 DEF Queued, Forming, Sweeping, Running
<1>4. Accepted' = Accepted
  BY <1>1, <1>2 DEF Accepted, Types
<1>5. Placed'
  BY <1>1, <1>2, <1>3, <1>4 DEF Placed
<1>6. QueueOrdered' /\ WindowsApart' /\ CacheSound' /\ OwnResults'
  BY <1>1, <1>2 DEF QueueOrdered, WindowsApart, CacheSound, OwnResults, Ask, EntryOf, Full, TopK
<1>7. Types'
  BY <1>1, <1>2 DEF Types
<1>8. Phases' /\ Slots'
  BY <1>1, <1>2, <1>3 DEF Phases, Slots, stopped, Waits
<1>9. QED
  BY <1>5, <1>6, <1>7, <1>8 DEF IInv

-----------------------------------------------------------------------------
(* The sweeper and the clock *)

\* A closed window is a step of the sweeper from any place where it forms none.
LEMMA CloseStep ==
    ASSUME IInv, sweeper \in {"top", "wait_close"}, queue # <<>>, CloseWindow,
           UNCHANGED <<mode, client, result, cache, tasks, stop, terminated>>
    PROVE  IInv'
<1>1. Types /\ QueueOrdered /\ Placed /\ WindowsApart /\ Phases /\ Slots /\ CacheSound /\ OwnResults
  BY DEF IInv
<1>2. /\ forming' \in Seq(Queries) /\ forming' # <<>>
      /\ queue' \in Seq(Entry) /\ QueueOrdered'
      /\ Queued' \cup Forming' = Queued /\ Queued' \cap Forming' = {}
  BY <1>1, CloseFacts
<1>3. inflight' = inflight + 1 /\ sweeper' = "launch"
  BY DEF CloseWindow
<1>4. Forming = {}
  <2>1. forming = <<>>
    BY <1>1 DEF Phases
  <2>2. QED
    BY <2>1 DEF Forming, Range
<1>5. UNCHANGED <<Sweeping, Running, Accepted>>
  BY DEF Sweeping, Running, Accepted
<1>6. Types'
  BY <1>1, <1>2, <1>3 DEF Types
<1>7. Placed'
  BY <1>1, <1>2, <1>4, <1>5 DEF Placed
<1>8. WindowsApart' /\ CacheSound' /\ OwnResults'
  BY <1>1 DEF WindowsApart, CacheSound, OwnResults, Ask, EntryOf, Full, TopK
<1>9. Phases'
  BY <1>1, <1>2, <1>3 DEF Phases, stopped
<1>10. Slots'
  <2>1. Cardinality(Running) \in Nat
    <3>1. Running \subseteq tasks /\ IsFiniteSet(tasks)
      BY <1>1 DEF Running, Slots
    <3>2. QED
      BY <3>1, FS_Subset, FS_CardinalityType
  <2>2. inflight \in Nat /\ inflight >= Cardinality(Running)
    BY <1>1, <2>1 DEF Slots, Types
  <2>3. inflight' >= Cardinality(Running') + 1
    BY <2>1, <2>2, <1>3, <1>5
  <2>4. QED
    BY <1>1, <1>3, <2>3 DEF Slots
<1>11. QED
  BY <1>2, <1>6, <1>7, <1>8, <1>9, <1>10 DEF IInv

\* The invariant through the sweeper's decision: wait, exit, or close a window.
LEMMA DecideStep ==
    ASSUME IInv, sweeper_decide
    PROVE  IInv'
<1>1. Types /\ QueueOrdered /\ Placed /\ WindowsApart /\ Phases /\ Slots /\ CacheSound /\ OwnResults
  BY DEF IInv
<1>2. sweeper = "top" /\ UNCHANGED <<mode, client, result, cache, tasks, stop, terminated>>
  BY DEF sweeper_decide
<1>3. CASE queue # <<>> /\ CloseWindow
  BY <1>2, <1>3, CloseStep
<1>4. CASE /\ UNCHANGED <<queue, forming, inflight>>
           /\ \/ queue = <<>> /\ sweeper' = IF stopped THEN "exited" ELSE "wait_empty"
              \/ queue # <<>> /\ sweeper' = "wait_slot"
              \/ queue # <<>> /\ sweeper' = "wait_close"
  <2>1. UNCHANGED <<Queued, Forming, Sweeping, Running, Accepted>>
    BY <1>2, <1>4 DEF Queued, Forming, Sweeping, Running, Accepted
  <2>2. sweeper' \in Waits \cup {"exited"} /\ sweeper' # "launch" /\ sweeper' # "top"
    BY <1>4 DEF Waits
  <2>3. Types'
    BY <1>1, <1>2, <1>4, <2>2 DEF Types
  <2>4. QueueOrdered' /\ WindowsApart' /\ CacheSound' /\ OwnResults'
    BY <1>1, <1>2, <1>4 DEF QueueOrdered, WindowsApart, CacheSound, OwnResults, Ask, EntryOf, Full, TopK
  <2>5. Placed'
    BY <1>1, <1>2, <2>1 DEF Placed
  <2>6. Phases'
    BY <1>1, <1>2, <1>4 DEF Phases, stopped
  <2>7. Slots'
    BY <1>1, <1>2, <1>4, <2>1, <2>2 DEF Slots
  <2>8. QED
    BY <2>3, <2>4, <2>5, <2>6, <2>7 DEF IInv
<1>5. QED
  BY <1>3, <1>4 DEF sweeper_decide

\* The invariant through a wait that times out.
LEMMA TimeoutStep ==
    ASSUME IInv, sweeper_timeout
    PROVE  IInv'
<1>1. queue # <<>>
  BY DEF IInv, Phases, sweeper_timeout
<1>2. QED
  BY <1>1, CloseStep DEF sweeper_timeout

\* The invariant through the launch of a window.
LEMMA LaunchStep ==
    ASSUME IInv, sweeper_launch
    PROVE  IInv'
<1>1. Types /\ QueueOrdered /\ Placed /\ WindowsApart /\ Phases /\ Slots /\ CacheSound /\ OwnResults
  BY DEF IInv
<1> DEFINE new  == [window |-> forming, pc |-> "sweep"]
           kept == {x \in tasks : x.pc # "failed"}
<1>2. /\ sweeper = "launch" /\ tasks' = kept \cup {new} /\ forming' = <<>> /\ sweeper' = "top"
      /\ terminated' \in BOOLEAN
      /\ UNCHANGED <<mode, client, result, queue, cache, inflight, stop>>
  BY DEF sweeper_launch
<1>3. new \in [window : Seq(Queries), pc : Pcs] /\ new.window = forming /\ new.pc = "sweep"
  BY <1>1 DEF Types, Pcs
<1>4. forming # <<>> /\ Range(new.window) = Forming
  BY <1>1, <1>2, <1>3 DEF Phases, Forming
<1>5. Queued' = Queued /\ Forming' = {} /\ Accepted' = Accepted
  BY <1>2 DEF Queued, Forming, Accepted, Range
<1> HIDE DEF new
<1>6. Sweeping' = Sweeping \cup Forming
  BY <1>2, <1>3, <1>4 DEF Sweeping
<1>7. Types'
  <2>1. <<>> \in Seq(Queries) /\ tasks' \subseteq [window : Seq(Queries), pc : Pcs]
    BY <1>1, <1>2, <1>3 DEF Types
  <2>2. QED
    BY <1>1, <1>2, <2>1 DEF Types
<1>8. Placed'
  BY <1>1, <1>2, <1>5, <1>6 DEF Placed
<1>9. WindowsApart'
  <2>1. \A x \in tasks : x.window # <<>> /\ Range(x.window) \cap Forming = {}
    <3> SUFFICES ASSUME NEW x \in tasks PROVE x.window # <<>> /\ Range(x.window) \cap Forming = {}
      OBVIOUS
    <3>1. CASE x.pc = "sweep"
      BY <3>1, <1>1 DEF Placed, WindowsApart, Sweeping
    <3>2. CASE x.pc # "sweep"
      BY <3>2, <1>1 DEF Placed, WindowsApart
    <3>3. QED
      BY <3>1, <3>2
  <2>2. QED
    BY <1>1, <1>2, <1>3, <1>4, <2>1 DEF WindowsApart
<1>10. QueueOrdered' /\ CacheSound' /\ OwnResults'
  BY <1>1, <1>2 DEF QueueOrdered, CacheSound, OwnResults, Ask, EntryOf, Full, TopK
<1>11. Phases'
  BY <1>1, <1>2 DEF Phases, stopped
<1>12. Slots'
  <2>1. IsFiniteSet(tasks) /\ IsFiniteSet(Running) /\ Cardinality(Running) \in Nat
    BY <1>1, FS_Subset, FS_CardinalityType DEF Slots, Running
  <2>2. IsFiniteSet(tasks')
    BY <1>2, <2>1, FS_Subset, FS_AddElement
  <2>3. Running' = Running \cup {new}
    BY <1>2, <1>3 DEF Running
  <2>4. Cardinality(Running') <= Cardinality(Running) + 1 /\ Cardinality(Running') \in Nat
    <3>1. Cardinality(Running \cup {new}) \in {Cardinality(Running), Cardinality(Running) + 1}
      BY <2>1, FS_AddElement, Zenon
    <3>2. QED
      BY <3>1, <2>1, <2>3
  <2>5. inflight \in Nat /\ inflight >= Cardinality(Running) + 1
    BY <1>1, <1>2 DEF Slots, Types
  <2>6. inflight' >= Cardinality(Running') + 0
    BY <2>1, <2>4, <2>5, <1>2
  <2>7. QED
    BY <1>2, <2>2, <2>6 DEF Slots
<1>13. QED
  BY <1>7, <1>8, <1>9, <1>10, <1>11, <1>12 DEF IInv

\* The invariant through the passing of time.
LEMMA TickStep ==
    ASSUME IInv, tick
    PROVE  IInv'
<1>1. Types /\ QueueOrdered /\ Placed /\ WindowsApart /\ Phases /\ Slots /\ CacheSound /\ OwnResults
  BY DEF IInv
<1> DEFINE next(n) == IF n > 0 THEN n - 1 ELSE 0
<1>2. UNCHANGED <<mode, client, result, cache, inflight, sweeper, forming, tasks, stop, terminated>>
  BY DEF tick
<1>3. /\ Len(queue) \in Nat /\ DOMAIN queue = 1..Len(queue)
      /\ \A i \in 1..Len(queue) : queue[i] \in Entry /\ queue[i].q \in Queries /\ queue[i].left \in Nat
  BY <1>1, QueueFacts
<1>4. queue' = [i \in 1..Len(queue) |-> [queue[i] EXCEPT !.left = next(queue[i].left)]]
  BY <1>3 DEF tick
<1>5. \A i \in 1..Len(queue) : /\ queue'[i] \in Entry /\ queue'[i].q = queue[i].q
                               /\ queue'[i].left = next(queue[i].left)
  BY <1>3, <1>4 DEF Entry
<1>6. DOMAIN queue' = 1..Len(queue) /\ queue' \in Seq(Entry)
  <2>1. queue' \in [1..Len(queue) -> Entry]
    BY <1>4, <1>5
  <2>2. QED
    BY ONLY <2>1, <1>3
<1>7. queue' # <<>> \/ queue = <<>>
  <2>1. queue \in Seq(Entry)
    BY <1>1 DEF Types
  <2>2. queue' = <<>> => 1..Len(queue) = {}
    BY ONLY <1>6
  <2>3. QED
    BY ONLY <2>1, <2>2, <1>3, EmptySeq
<1>8. QueueOrdered'
  <2> SUFFICES ASSUME NEW i \in DOMAIN queue', NEW j \in DOMAIN queue'
               PROVE  /\ i <= j => queue'[i].left <= queue'[j].left
                      /\ queue'[i].q = queue'[j].q => i = j
    BY DEF QueueOrdered
  <2>1. /\ i \in 1..Len(queue) /\ j \in 1..Len(queue)
        /\ i <= j => queue[i].left <= queue[j].left
        /\ queue[i].q = queue[j].q => i = j
    BY <1>1, <1>3, <1>6 DEF QueueOrdered
  <2>2. QED
    BY <2>1, <1>3, <1>5
<1>9. Queued' = Queued
  BY <1>3, <1>5, <1>6 DEF Queued
<1>10. UNCHANGED <<Forming, Sweeping, Running, Accepted>>
  BY <1>2 DEF Forming, Sweeping, Running, Accepted
<1>11. Types'
  BY <1>1, <1>2, <1>6 DEF Types
<1>12. Placed'
  BY <1>1, <1>2, <1>9, <1>10 DEF Placed
<1>13. WindowsApart' /\ Slots' /\ CacheSound' /\ OwnResults'
  BY <1>1, <1>2, <1>10 DEF WindowsApart, Slots, CacheSound, OwnResults, Ask, EntryOf, Full, TopK
<1>14. Phases'
  <2>1. queue = <<>> => queue' = <<>>
    <3>1. queue = <<>> => FALSE
      <4>1. PICK i \in DOMAIN queue : queue[i].left > 0
        BY DEF tick
      <4>2. QED
        BY <4>1
    <3>2. QED
      BY <3>1
  <2>2. QED
    BY <1>1, <1>2, <1>7, <2>1 DEF Phases, stopped
<1>15. QED
  BY <1>8, <1>11, <1>12, <1>13, <1>14 DEF IInv

-----------------------------------------------------------------------------
(* Launched windows *)

TasksApart ==
    /\ tasks \subseteq [window : Seq(Queries), pc : Pcs] /\ IsFiniteSet(tasks)
    /\ \A y \in tasks : y.window # <<>>
    /\ \A y, z \in tasks : y # z => Range(y.window) \cap Range(z.window) = {}

\* What replacing the task x by one at another place does to the task set.
LEMMA TaskMoves ==
    ASSUME IInv, NEW x \in tasks, NEW pc \in Pcs, tasks' = Step(x, pc)
    PROVE  /\ TasksApart'
           /\ \A y \in tasks' : y \in tasks \ {x} \/ (y.window = x.window /\ y.pc = pc)
           /\ x.pc = "sweep" /\ pc # "sweep" => Sweeping' = Sweeping \ Range(x.window)
           /\ x.pc # "sweep" /\ pc # "sweep" => Sweeping' = Sweeping
<1> DEFINE n == [x EXCEPT !.pc = pc]
<1>1. Types /\ WindowsApart /\ IsFiniteSet(tasks)
  BY DEF IInv, Slots
<1>2. tasks' = (tasks \ {x}) \cup {n}
  BY DEF Step
<1>3. n \in [window : Seq(Queries), pc : Pcs] /\ n.window = x.window /\ n.pc = pc
  BY <1>1 DEF Types
<1> HIDE DEF n
<1>4. tasks' \subseteq [window : Seq(Queries), pc : Pcs]
  BY <1>1, <1>2, <1>3 DEF Types
<1>5. IsFiniteSet(tasks')
  BY <1>1, <1>2, FS_Subset, FS_AddElement
<1>6. /\ \A y \in tasks' : y.window # <<>>
      /\ \A y, z \in tasks' : y # z => Range(y.window) \cap Range(z.window) = {}
  BY <1>1, <1>2, <1>3 DEF WindowsApart
<1>7. \A y \in tasks' : y \in tasks \ {x} \/ (y.window = x.window /\ y.pc = pc)
  BY <1>2, <1>3
<1>8. ASSUME x.pc = "sweep", pc # "sweep" PROVE Sweeping' = Sweeping \ Range(x.window)
  <2>1. \A p : p \in Sweeping' <=> \E y \in tasks \ {x} : y.pc = "sweep" /\ p \in Range(y.window)
    BY <1>2, <1>3, <1>8 DEF Sweeping
  <2>2. \A p : p \in Sweeping <=> \E y \in tasks : y.pc = "sweep" /\ p \in Range(y.window)
    BY DEF Sweeping
  <2>3. \A y \in tasks \ {x} : Range(x.window) \cap Range(y.window) = {}
    BY <1>1 DEF WindowsApart
  <2>4. QED
    BY <2>1, <2>2, <2>3, <1>8
<1>9. ASSUME x.pc # "sweep", pc # "sweep" PROVE Sweeping' = Sweeping
  <2>1. {y \in tasks' : y.pc = "sweep"} = {y \in tasks : y.pc = "sweep"}
    BY <1>2, <1>3, <1>9
  <2>2. QED
    BY <2>1 DEF Sweeping
<1>10. QED
  <2>1. TasksApart'
    BY <1>4, <1>5, <1>6 DEF TasksApart
  <2>2. QED
    BY ONLY <2>1, <1>7, <1>8, <1>9, Zenon

\* A search that ended, with an answer or an error for each query of its window.
LEMMA SearchEnds ==
    ASSUME IInv, NEW x \in tasks, x.pc = "sweep", NEW pc \in {"finish", "failed"},
           tasks' = Step(x, pc),
           result' \in [Queries -> {Nil, Broken} \cup Results],
           \A q \in Range(x.window) : result'[q] # Nil,
           \A q \in Queries \ Range(x.window) : result'[q] = result[q],
           cache' \in Seq(Cached), Len(cache') <= mode.result_cache_entries, CacheSound', OwnResults',
           UNCHANGED <<mode, client, queue, inflight, sweeper, forming, stop, terminated>>
    PROVE  IInv'
<1>1. Types /\ QueueOrdered /\ Placed /\ WindowsApart /\ Phases /\ Slots
  BY DEF IInv
<1>2. pc \in Pcs /\ pc # "sweep"
  BY DEF Pcs
<1>3. /\ TasksApart'
      /\ \A y \in tasks' : y \in tasks \ {x} \/ (y.window = x.window /\ y.pc = pc)
      /\ Sweeping' = Sweeping \ Range(x.window)
  BY <1>2, TaskMoves
<1>4. UNCHANGED <<Queued, Forming, Accepted>>
  BY DEF Queued, Forming, Accepted
<1>5. Range(x.window) \subseteq Sweeping /\ Range(x.window) \subseteq Queries
  BY <1>1, PlacesTyped DEF Sweeping
<1>6. Types'
  BY <1>1, <1>3 DEF Types, TasksApart
<1>7. Placed'
  <2>1. Queued \cup Forming \cup Sweeping \subseteq Queries
    BY <1>1, PlacesTyped
  <2>2. \A q \in Queued \cup Forming \cup Sweeping' : result'[q] = Nil
    BY <2>1, <1>1, <1>3, <1>5 DEF Placed
  <2>3. \A q \in Queries : (q \in Accepted) <=> (q \in Queued \cup Forming \cup Sweeping' \/ result'[q] # Nil)
    BY <1>1, <1>3, <1>5 DEF Placed
  <2>4. QED
    BY <1>1, <1>3, <1>4, <2>2, <2>3 DEF Placed
<1>8. WindowsApart'
  <2> SUFFICES ASSUME NEW y \in tasks', y.pc # "sweep", NEW q \in Range(y.window) PROVE result'[q] # Nil
    BY <1>3 DEF WindowsApart, TasksApart
  <2>1. CASE y \in tasks \ {x}
    <3>1. q \in Queries /\ q \notin Range(x.window) /\ result[q] # Nil
      BY <2>1, <1>1, PlacesTyped DEF WindowsApart
    <3>2. QED
      BY <3>1
  <2>2. CASE y.window = x.window
    BY <2>2
  <2>3. QED
    BY <2>1, <2>2, <1>3
<1>9. QueueOrdered'
  BY <1>1 DEF QueueOrdered
<1>10. Phases'
  BY <1>1 DEF Phases, stopped
<1>11. Slots'
  <2> DEFINE rest == Running \ {x}
             n    == [x EXCEPT !.pc = pc]
  <2>1. IsFiniteSet(Running) /\ x \in Running /\ Cardinality(Running) \in Nat
    BY <1>1, FS_Subset, FS_CardinalityType DEF Slots, Running
  <2>2. IsFiniteSet(rest) /\ Cardinality(rest) = Cardinality(Running) - 1
    BY <2>1, FS_RemoveElement
  <2>3. Running' \subseteq rest \cup {n}
    BY DEF Running, Step
  <2> HIDE DEF rest, n
  <2>4. /\ IsFiniteSet(rest \cup {n})
        /\ Cardinality(rest \cup {n}) \in {Cardinality(rest), Cardinality(rest) + 1}
    BY <2>2, FS_AddElement, Zenon
  <2>5. Cardinality(Running') <= Cardinality(rest \cup {n}) /\ IsFiniteSet(Running')
    BY <2>3, <2>4, FS_Subset
  <2>6. Cardinality(Running') \in Nat
    BY <2>5, FS_CardinalityType
  <2>7. Cardinality(Running') <= Cardinality(Running)
    BY <2>1, <2>2, <2>4, <2>5, <2>6
  <2>8. QED
    BY <1>1, <1>3, <2>1, <2>6, <2>7 DEF Slots, Types, TasksApart
<1>12. QED
  BY <1>6, <1>7, <1>8, <1>9, <1>10, <1>11 DEF IInv

\* The invariant through a sweep that fills the cache and answers its window.
LEMMA DispatchStep ==
    ASSUME IInv, NEW x \in tasks, dispatch_(x)
    PROVE  IInv'
<1> DEFINE w == x.window
<1>1. Types /\ CacheSound /\ OwnResults /\ Placed
  BY DEF IInv
<1>2. /\ x.pc = "sweep" /\ tasks' = Step(x, "finish")
      /\ result' = [q \in Queries |-> IF q \in Range(w) THEN Delivered(q, w) ELSE result[q]]
      /\ cache' = IF mode.result_cache_entries > 0 THEN CacheFilled(w) ELSE cache
      /\ UNCHANGED <<mode, client, queue, inflight, sweeper, forming, stop, terminated>>
  BY DEF dispatch_
<1>3. w \in Seq(Queries) /\ Range(w) \subseteq Queries
  BY <1>1, PlacesTyped
<1> HIDE DEF w
<1>4. \A q \in Range(w) :
        /\ result'[q] = Full(q)
        /\ result'[q] \in Results
  BY <1>1, <1>2, <1>3, DeliveredFacts
<1>5. \A q \in Queries \ Range(w) : result'[q] = result[q]
  BY <1>2
<1>6. result' \in [Queries -> {Nil, Broken} \cup Results]
  BY <1>1, <1>2, <1>4, <1>5 DEF Types
<1>7. \A q \in Range(w) : result'[q] # Nil
  BY <1>4, ResultFacts
<1>71. \A q \in Queries : result[q] = Full(q) => result'[q] = Full(q)
  BY <1>4, <1>5
<1>8. cache' \in Seq(Cached) /\ Len(cache') <= mode.result_cache_entries /\ CacheSound'
  <2>1. CASE mode.result_cache_entries > 0
    BY <2>1, <1>1, <1>2, <1>3, <1>4, <1>71, CacheFilledFacts
  <2>2. CASE ~(mode.result_cache_entries > 0)
    <3>1. cache' = cache
      BY <2>2, <1>2
    <3>2. \A p \in Queries : EntryOf(p)' = EntryOf(p) /\ Full(p)' = Full(p)
      BY <1>2 DEF EntryOf, Full, TopK, Ask
    <3>3. CacheSound'
      BY <3>1, <3>2, <1>1, <1>71 DEF CacheSound
    <3>4. QED
      BY <3>1, <3>3, <1>1 DEF Types
  <2>3. QED
    BY <2>1, <2>2
<1>9. OwnResults'
  <2>1. \A p \in Queries : Full(p)' = Full(p) /\ TopK(p)' = TopK(p) /\ Ask(p)' = Ask(p)
    BY <1>2 DEF Full, TopK, Ask
  <2> SUFFICES ASSUME NEW q \in Queries, result'[q] \notin {Nil, Broken}
               PROVE  \/ result'[q] = Full(q)
                      \/ /\ mode.result_cache_entries > 0
                         /\ \E p \in Queries \ {q} :
                              /\ Ask(p).key.req = Ask(q).key.req /\ Ask(p).k = Ask(q).k
                              /\ result'[q] = TopK(p) /\ result'[p] = Full(p)
    BY <1>2, <2>1 DEF OwnResults
  <2>2. CASE q \in Range(w)
    BY <2>2, <1>4
  <2>3. CASE q \notin Range(w)
    BY <2>3, <1>1, <1>5, <1>71 DEF OwnResults
  <2>4. QED
    BY <2>2, <2>3
<1>10. QED
  BY <1>2, <1>5, <1>6, <1>7, <1>8, <1>9, SearchEnds DEF w

\* The invariant through a sweep that throws.
LEMMA ThrowStep ==
    ASSUME IInv, NEW x \in tasks, dispatch_throws(x)
    PROVE  IInv'
<1> DEFINE w == x.window
<1>1. Types /\ CacheSound /\ OwnResults /\ Placed
  BY DEF IInv
<1>2. /\ x.pc = "sweep" /\ tasks' = Step(x, "failed")
      /\ result' = [q \in Queries |-> IF q \in Range(w) THEN Broken ELSE result[q]]
      /\ UNCHANGED <<mode, client, queue, cache, inflight, sweeper, forming, stop, terminated>>
  BY DEF dispatch_throws
<1>3. Range(w) \subseteq Queries
  BY <1>1, PlacesTyped
<1> HIDE DEF w
<1>4. /\ \A q \in Range(w) : result'[q] = Broken
      /\ \A q \in Queries \ Range(w) : result'[q] = result[q]
  BY <1>2, <1>3
<1>5. result' \in [Queries -> {Nil, Broken} \cup Results]
  BY <1>1, <1>2 DEF Types
<1>6. \A q \in Range(w) : result'[q] # Nil
  BY <1>4, ResultFacts
<1>61. \A q \in Queries : result[q] = Full(q) => result'[q] = Full(q)
  <2> SUFFICES ASSUME NEW q \in Queries, result[q] = Full(q) PROVE result'[q] = Full(q)
    OBVIOUS
  <2>1. Ask(q).k \in 1..Shortlist /\ Shortlist \in Nat /\ Ask(q).key \in Keys
    BY <1>1, ModeFacts, SchedulerAssumption
  <2>2. Full(q) \in Results
    BY <2>1, ResultFacts DEF Full
  <2>3. \A p \in Range(w) : result[p] = Nil
    BY <1>1, <1>2 DEF Placed, Sweeping, w
  <2>4. QED
    BY <2>2, <2>3, <1>4, ResultFacts
<1>7. cache' \in Seq(Cached) /\ Len(cache') <= mode.result_cache_entries /\ CacheSound'
  BY <1>1, <1>2, <1>61 DEF Types, CacheSound, EntryOf, Full, TopK, Ask
<1>8. OwnResults'
  <2>1. \A p \in Queries : Full(p)' = Full(p) /\ TopK(p)' = TopK(p) /\ Ask(p)' = Ask(p)
    BY <1>2 DEF Full, TopK, Ask
  <2> SUFFICES ASSUME NEW q \in Queries, result'[q] \notin {Nil, Broken}
               PROVE  \/ result'[q] = Full(q)
                      \/ /\ mode.result_cache_entries > 0
                         /\ \E p \in Queries \ {q} :
                              /\ Ask(p).key.req = Ask(q).key.req /\ Ask(p).k = Ask(q).k
                              /\ result'[q] = TopK(p) /\ result'[p] = Full(p)
    BY <1>2, <2>1 DEF OwnResults
  <2>2. q \notin Range(w) /\ result'[q] = result[q]
    BY <1>4
  <2>3. QED
    BY <2>2, <1>1, <1>61 DEF OwnResults
<1>9. QED
  BY <1>2, <1>4, <1>5, <1>6, <1>7, <1>8, SearchEnds DEF w

\* The invariant when a sweep leaves the in-flight count.
LEMMA FinishStep ==
    ASSUME IInv, NEW x \in tasks, dispatch_finish(x)
    PROVE  IInv'
<1>1. Types /\ QueueOrdered /\ Placed /\ WindowsApart /\ Phases /\ Slots /\ CacheSound /\ OwnResults
  BY DEF IInv
<1>2. /\ x.pc = "finish" /\ inflight' = inflight - 1 /\ tasks' = Step(x, "notify")
      /\ UNCHANGED <<mode, client, result, queue, cache, sweeper, forming, stop, terminated>>
  BY DEF dispatch_finish
<1>3. /\ TasksApart'
      /\ \A y \in tasks' : y \in tasks \ {x} \/ (y.window = x.window /\ y.pc = "notify")
      /\ Sweeping' = Sweeping
  BY <1>2, TaskMoves DEF Pcs
<1>4. UNCHANGED <<Queued, Forming, Accepted>>
  BY <1>2 DEF Queued, Forming, Accepted
<1>5. /\ Running' = Running \ {x} /\ x \in Running
  <2> DEFINE n == [x EXCEPT !.pc = "notify"]
  <2>1. n.pc = "notify" /\ tasks' = (tasks \ {x}) \cup {n}
    BY <1>1, <1>2 DEF Types, Step
  <2> HIDE DEF n
  <2>2. QED
    BY <1>2, <2>1 DEF Running
<1>6. /\ IsFiniteSet(Running) /\ Cardinality(Running) \in Nat
      /\ Cardinality(Running') = Cardinality(Running) - 1 /\ Cardinality(Running') \in Nat
  <2>1. IsFiniteSet(Running)
    BY <1>1, FS_Subset DEF Slots, Running
  <2>2. IsFiniteSet(Running') /\ Cardinality(Running') = Cardinality(Running) - 1
    BY <1>5, <2>1, FS_RemoveElement
  <2>3. QED
    BY <2>1, <2>2, FS_CardinalityType
<1>7. inflight' \in Nat /\ inflight' >= Cardinality(Running') + (IF sweeper' = "launch" THEN 1 ELSE 0)
  BY <1>1, <1>2, <1>6 DEF Types, Slots
<1>8. Types' /\ Slots'
  BY <1>1, <1>2, <1>3, <1>7 DEF Types, Slots, TasksApart
<1>9. Placed'
  BY <1>1, <1>2, <1>3, <1>4 DEF Placed
<1>10. WindowsApart'
  BY <1>1, <1>2, <1>3 DEF WindowsApart, TasksApart
<1>11. QueueOrdered' /\ CacheSound' /\ OwnResults'
  BY <1>1, <1>2 DEF QueueOrdered, CacheSound, OwnResults, Ask, EntryOf, Full, TopK
<1>12. Phases'
  BY <1>1, <1>2 DEF Phases, stopped
<1>13. QED
  BY <1>8, <1>9, <1>10, <1>11, <1>12 DEF IInv

\* The invariant through the last notification of a sweep.
LEMMA EndStep ==
    ASSUME IInv, NEW x \in tasks, dispatch_notify(x)
    PROVE  IInv'
<1>1. Types /\ QueueOrdered /\ Placed /\ WindowsApart /\ Phases /\ Slots /\ CacheSound /\ OwnResults
  BY DEF IInv
<1>2. /\ x.pc = "notify" /\ tasks' = tasks \ {x}
      /\ sweeper' = IF sweeper \in Waits THEN "top" ELSE sweeper
      /\ UNCHANGED <<mode, client, result, queue, cache, inflight, forming, stop, terminated>>
  BY DEF dispatch_notify, Notify
<1>3. UNCHANGED <<Queued, Forming, Accepted, Sweeping, Running>>
  <2>1. /\ {y \in tasks' : y.pc = "sweep"} = {y \in tasks : y.pc = "sweep"}
        /\ Running' = Running
    BY <1>2 DEF Running
  <2>2. QED
    BY <1>2, <2>1 DEF Queued, Forming, Accepted, Sweeping
<1>4. Types'
  BY <1>1, <1>2 DEF Types
<1>5. Slots'
  <2>1. IsFiniteSet(tasks') /\ (sweeper' = "launch" <=> sweeper = "launch")
    BY <1>1, <1>2, FS_Subset DEF Slots, Waits
  <2>2. QED
    BY <1>1, <1>2, <1>3, <2>1 DEF Slots
<1>6. Placed'
  BY <1>1, <1>2, <1>3 DEF Placed
<1>7. WindowsApart'
  BY <1>1, <1>2 DEF WindowsApart
<1>8. QueueOrdered' /\ CacheSound' /\ OwnResults'
  BY <1>1, <1>2 DEF QueueOrdered, CacheSound, OwnResults, Ask, EntryOf, Full, TopK
<1>9. Phases'
  BY <1>1, <1>2 DEF Phases, stopped, Waits
<1>10. QED
  BY <1>4, <1>5, <1>6, <1>7, <1>8, <1>9 DEF IInv

-----------------------------------------------------------------------------
(* stop *)

\* The steps of stop touch neither queries nor windows.
LEMMA StopStep ==
    ASSUME IInv, stop_begin \/ stop_notify \/ stop_drain
    PROVE  IInv'
<1>1. Types /\ QueueOrdered /\ Placed /\ WindowsApart /\ Phases /\ Slots /\ CacheSound /\ OwnResults
  BY DEF IInv
<1>2. UNCHANGED <<mode, client, result, queue, cache, inflight, forming, tasks>>
  BY DEF stop_begin, stop_notify, stop_drain
<1>3. UNCHANGED <<Queued, Forming, Accepted, Sweeping, Running>>
  BY <1>2 DEF Queued, Forming, Accepted, Sweeping, Running
<1>4. sweeper' = sweeper \/ (sweeper \in Waits /\ sweeper' = "top")
  BY DEF stop_begin, stop_notify, stop_drain, Notify
<1>5. stop' \in {"no", "notify", "join", "returned"} /\ stop' # "no" /\ terminated' \in BOOLEAN
  BY <1>1 DEF stop_begin, stop_notify, stop_drain, Types
<1>6. Types' /\ Slots'
  BY <1>1, <1>2, <1>3, <1>4, <1>5 DEF Types, Slots, Waits
<1>7. Placed' /\ WindowsApart'
  BY <1>1, <1>2, <1>3 DEF Placed, WindowsApart
<1>8. QueueOrdered' /\ CacheSound' /\ OwnResults'
  BY <1>1, <1>2 DEF QueueOrdered, CacheSound, OwnResults, Ask, EntryOf, Full, TopK
<1>9. Phases'
  <2>1. stop' = "returned" => sweeper' = "exited" /\ \A x \in tasks' : x.pc = "failed"
    BY <1>2 DEF stop_begin, stop_notify, stop_drain
  <2>2. QED
    BY <1>1, <1>2, <1>4, <1>5, <2>1 DEF Phases, stopped, Waits
<1>10. QED
  BY <1>6, <1>7, <1>8, <1>9 DEF IInv

-----------------------------------------------------------------------------
(* The theorems *)

\* A new scheduler satisfies the invariant.
LEMMA IInvInit == Init => IInv
<1> SUFFICES ASSUME Init PROVE IInv
  OBVIOUS
<1>1. /\ mode \in Modes
      /\ client = [q \in Queries |-> "new"]
      /\ result = [q \in Queries |-> Nil]
      /\ queue = <<>> /\ cache = <<>> /\ inflight = 0
      /\ sweeper = "top" /\ forming = <<>> /\ tasks = {}
      /\ stop = "no" /\ terminated = FALSE
  BY DEF Init
<1>2. IsMode(mode)
  BY <1>1, SchedulerAssumption
<1>3. Types
  <2>1. <<>> \in Seq(Entry) /\ <<>> \in Seq(Cached) /\ <<>> \in Seq(Queries) /\ Len(<<>>) = 0
    OBVIOUS
  <2>2. mode.result_cache_entries \in Nat
    BY <1>2 DEF IsMode
  <2>3. /\ client \in [Queries -> {"new", "enqueue", "notify", "returned", "invalid"}]
        /\ result \in [Queries -> {Nil, Broken} \cup Results]
    BY <1>1
  <2>4. QED
    <3>1. /\ queue \in Seq(Entry) /\ forming \in Seq(Queries) /\ cache \in Seq(Cached)
          /\ Len(cache) = 0
      BY <1>1, <2>1
    <3>2. sweeper \in Waits \cup {"top", "launch", "exited"} /\ inflight \in Nat /\ 0 <= mode.result_cache_entries
      BY <1>1, <2>2
    <3>3. QED
      BY <1>1, <2>3, <3>1, <3>2 DEF Types
<1>4. Queued = {} /\ Forming = {} /\ Sweeping = {} /\ Accepted = {} /\ Running = {}
  BY <1>1 DEF Queued, Forming, Sweeping, Accepted, Running, Range
<1>5. QueueOrdered /\ WindowsApart /\ Phases /\ CacheSound /\ OwnResults
  BY <1>1 DEF QueueOrdered, WindowsApart, Phases, CacheSound, OwnResults, stopped
<1>6. Placed
  BY <1>1, <1>4 DEF Placed
<1>7. Slots
  BY <1>1, <1>4, FS_EmptySet DEF Slots
<1>8. QED
  BY <1>3, <1>5, <1>6, <1>7 DEF IInv

\* Every step keeps the invariant.
LEMMA IInvNext == IInv /\ [Next]_vars => IInv'
<1> SUFFICES ASSUME IInv, [Next]_vars PROVE IInv'
  OBVIOUS
<1>1. CASE Submit
  BY <1>1, CachedStep, EnqueueStep, NotifyStep DEF Submit
<1>2. CASE Sweeper
  BY <1>2, DecideStep, TimeoutStep, LaunchStep DEF Sweeper
<1>3. CASE Task
  BY <1>3, DispatchStep, ThrowStep, FinishStep, EndStep DEF Task
<1>4. CASE Stop
  BY <1>4, StopStep DEF Stop
<1>5. CASE tick
  BY <1>5, TickStep
<1>6. CASE UNCHANGED vars
  <2>1. UNCHANGED <<mode, client, result, queue, cache, inflight, sweeper, forming, tasks, stop, terminated>>
    BY <1>6 DEF vars
  <2>2. UNCHANGED <<Queued, Forming, Accepted, Sweeping, Running>>
    BY <2>1 DEF Queued, Forming, Accepted, Sweeping, Running
  <2>3. Types' /\ Slots' /\ Phases'
    BY <2>1, <2>2 DEF IInv, Types, Slots, Phases, stopped
  <2>4. Placed' /\ WindowsApart'
    BY <2>1, <2>2 DEF IInv, Placed, WindowsApart
  <2>5. QueueOrdered' /\ CacheSound' /\ OwnResults'
    BY <2>1 DEF IInv, QueueOrdered, CacheSound, OwnResults, Ask, EntryOf, Full, TopK
  <2>6. QED
    BY <2>3, <2>4, <2>5 DEF IInv
<1>7. QED
  BY <1>1, <1>2, <1>3, <1>4, <1>5, <1>6 DEF Next

\* IInv is inductive.
LEMMA IInvAlways == Spec => []IInv
BY IInvInit, IInvNext, PTL DEF Spec

\* The data stay well typed; the slot counter never goes below zero, and the result
\* cache never holds more than result_cache_entries (dispatch_, 271-320).
THEOREM TypeCorrect == Spec => []TypeOK
<1>1. IInv => TypeOK
  <2> SUFFICES ASSUME IInv PROVE TypeOK
    OBVIOUS
  <2>1. Types
    BY DEF IInv
  <2>2. \A q \in Queries : result[q] \in {Nil, Broken} \cup Results
    BY <2>1 DEF Types
  <2>3. QED
    BY <2>1, <2>2 DEF TypeOK, Types, Entry, Pcs
<1>2. QED
  BY <1>1, IInvAlways, PTL

\* A submit that was accepted is queued, in the window being launched, in one sweep, or
\* answered, and in one of them only: no promise is lost or fulfilled twice on its way
\* through submit, sweeper_loop_ and dispatch_.
THEOREM NoneLost == Spec => []Conserved
<1>1. IInv => Conserved
  <2> SUFFICES ASSUME IInv PROVE Conserved
    OBVIOUS
  <2>1. Types /\ QueueOrdered /\ Placed /\ WindowsApart
    BY DEF IInv
  <2>2. Len(queue) = Cardinality(Queued)
    <3> DEFINE f == [i \in 1..Len(queue) |-> queue[i].q]
    <3>1. Len(queue) \in Nat /\ DOMAIN queue = 1..Len(queue)
      BY <2>1, QueueFacts
    <3>2. /\ f \in [1..Len(queue) -> Queued] /\ \A x \in Queued : \E i \in 1..Len(queue) : x = f[i]
          /\ \A i, j \in 1..Len(queue) : f[i] = f[j] => i = j
      BY <2>1, <3>1 DEF QueueOrdered, Queued
    <3> HIDE DEF f
    <3>3. QED
      BY ONLY <3>1, <3>2, InjectiveLength
  <2>3. \A q \in Queries : (q \in Accepted) = (q \in Queued \cup Forming \cup Sweeping \/ result[q] # Nil)
    <3> SUFFICES ASSUME NEW q \in Queries
                 PROVE  (q \in Accepted) = (q \in Queued \cup Forming \cup Sweeping \/ result[q] # Nil)
      OBVIOUS
    <3>1. (q \in Accepted) <=> (q \in Queued \cup Forming \cup Sweeping \/ result[q] # Nil)
      BY <2>1 DEF Placed
    <3>2. QED
      BY ONLY <3>1
  <2>4. QED
    BY <2>1, <2>2, <2>3 DEF Conserved, Placed, WindowsApart
<1>2. QED
  BY <1>1, IInvAlways, PTL

\* When stop has returned every accepted query is answered and no sweep runs (stop).
THEOREM StopIsClean == Spec => []StopDrains
<1>1. IInv => StopDrains
  <2> SUFFICES ASSUME IInv, stop = "returned" PROVE StopDrains
    BY DEF StopDrains
  <2>1. Types /\ Placed /\ Phases
    BY DEF IInv
  <2>2. sweeper = "exited" /\ \A x \in tasks : x.pc = "failed"
    BY <2>1 DEF Phases
  <2>3. queue = <<>> /\ forming = <<>>
    BY <2>1, <2>2 DEF Phases
  <2>4. Queued = {} /\ Forming = {}
    BY <2>3 DEF Queued, Forming, Range
  <2>5. Sweeping = {}
    BY <2>2 DEF Sweeping
  <2>6. \A q \in Accepted : result[q] # Nil
    BY <2>1, <2>4, <2>5 DEF Placed, Accepted
  <2>7. QED
    BY <2>2, <2>6 DEF StopDrains
<1>2. QED
  BY <1>1, IInvAlways, PTL

\* Every answer is what a search for the query alone would give, or, with a result cache,
\* the top k of an earlier query that was given its own and that predicates_equal takes
\* for this one, though its strings may differ.
THEOREM AnswersAreOwn == Spec => []OwnResults
<1>1. IInv => OwnResults
  BY DEF IInv
<1>2. QED
  BY <1>1, IInvAlways, PTL

\* Where no two queries of a scheduler differ in their strings alone, and no shortlist
\* gap is set together with a result cache, every answer is the query's own.
THEOREM OwnUnlessStrings ==
    ASSUME \A m \in Modes : \A p, q \in Queries :
             m.ask[p].key.req = m.ask[q].key.req => m.ask[p].key = m.ask[q].key,
           \A m \in Modes : ~(m.adaptive /\ m.result_cache_entries > 0)
    PROVE  Spec => [](\A q \in Queries : result[q] \in {Nil, Broken, Full(q)})
<1>1. IInv => \A q \in Queries : result[q] \in {Nil, Broken, Full(q)}
  <2> SUFFICES ASSUME IInv, NEW q \in Queries, result[q] \notin {Nil, Broken}
               PROVE  result[q] = Full(q)
    OBVIOUS
  <2>1. mode \in Modes /\ OwnResults
    BY DEF IInv, Types
  <2>2. ASSUME NEW p \in Queries, Ask(p).key.req = Ask(q).key.req, Ask(p).k = Ask(q).k,
               result[q] = TopK(p), mode.result_cache_entries > 0
        PROVE  result[q] = Full(q)
    <3>1. Ask(p).key = Ask(q).key
      BY <2>1, <2>2 DEF Ask
    <3>2. ~mode.adaptive
      BY <2>1, <2>2
    <3>3. QED
      BY <3>1, <3>2, <2>2 DEF TopK, Full
  <2>3. QED
    BY <2>1, <2>2 DEF OwnResults
<1>2. QED
  BY <1>1, IInvAlways, PTL

\* No query leaves the queue before one with an earlier deadline, and none leaves while
\* a due one stays (the ordered insertion of submit and the window close).
THEOREM UrgentQueriesFirst == Spec => UrgentFirst
<1> DEFINE Step1 == \A i, j \in DOMAIN queue :
                      (/\ queue[i].q \in Range(forming')
                       /\ \E k \in DOMAIN queue' : queue'[k].q = queue[j].q)
                      => queue[i].left <= queue[j].left /\ ~Due(queue[j])
<1>1. IInv /\ [Next]_vars => [Step1]_vars
  <2> SUFFICES ASSUME IInv, Next, NEW i \in DOMAIN queue, NEW j \in DOMAIN queue,
                      queue[i].q \in Forming', queue[j].q \in Queued'
               PROVE  queue[i].left <= queue[j].left /\ ~Due(queue[j])
    BY DEF Forming, Queued
  <2>1. Types /\ QueueOrdered /\ Placed /\ Phases
    BY DEF IInv
  <2>2. CASE queue # <<>> /\ CloseWindow
    <3>1. i < j /\ ~Due(queue[j])
      BY <2>1, <2>2, CloseFacts
    <3>2. i <= j
      BY <3>1, <2>1, QueueFacts
    <3>3. QED
      BY <3>1, <3>2, <2>1 DEF QueueOrdered
  <2>3. CASE forming' = forming \/ forming' = <<>>
    <3>1. Forming' \subseteq Forming
      BY <2>3 DEF Forming, Range
    <3>2. queue[i].q \in Queued
      BY DEF Queued
    <3>3. QED
      BY <3>1, <3>2, <2>1 DEF Placed
  <2>4. QED
    <3>1. ASSUME sweeper_timeout PROVE queue # <<>> /\ CloseWindow
      BY <3>1, <2>1 DEF sweeper_timeout, Phases
    <3>2. CASE Sweeper
      BY <3>1, <3>2, <2>2, <2>3 DEF Sweeper, sweeper_decide, sweeper_launch
    <3>3. CASE Task \/ Submit \/ Stop \/ tick
      BY <3>3, <2>3 DEF Task, Submit, Stop, tick, dispatch_, dispatch_throws, dispatch_finish,
            dispatch_notify, submit_cached, submit_enqueue, submit_notify, stop_begin, stop_notify, stop_drain
    <3>4. QED
      BY <3>2, <3>3 DEF Next
<1>2. QED
  BY <1>1, IInvAlways, PTL DEF Spec, UrgentFirst

=============================================================================
