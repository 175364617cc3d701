-------------------------- MODULE LeafExtentCache --------------------------
(***************************************************************************)
(* One shard of the leaf-extent cache of the search path                   *)
(* (src/src/tree/leaf_extent_cache.cpp).  Searcher threads pin the extents *)
(* they scan and unpin them later; a pin that misses fills a new entry by  *)
(* pread outside the shard lock, gated by a try-lock stripe that only      *)
(* deduplicates concurrent fills.  Entries are evicted, refused or         *)
(* invalidated under the lock while unpins run without it, so an entry is  *)
(* freed by whoever finds it retired and unpinned.                         *)
(*                                                                         *)
(* A section under the shard lock is one step; so is every atomic access   *)
(* an unpin makes without it.  Sizes are in pages and counted in words of  *)
(* Word values, as the byte counters are counted in 64 bits.  The          *)
(* frequency sketch is an input: any frequencies may be read.  Statistics  *)
(* and the recycling of buffers are left out.  Entry ids are reused only   *)
(* when no thread refers to them, so a freed entry reads as it was left.   *)
(***************************************************************************)
EXTENDS Integers, Sequences, FiniteSets, SequencesExt, FiniteSetsExt

CONSTANTS
    Threads,        \* the searchers
    Workloads,      \* the indexes and their budgets, see IsWorkload
    Pages,          \* page ids, numbers
    Stripes,        \* number of fill stripes
    Frequencies,    \* the estimates the sketch may give
    MaxWindow,      \* max_window_bytes, in pages
    MaxPages,       \* bound: pages of an extent
    MaxPins,        \* bound: pins a thread holds at once
    MaxEntries,     \* bound: entries that exist at once
    Word,           \* size of the counters' word
    Nil

Entries  == 1..MaxEntries
Segments == {"window", "probation", "protected"}

\* The arguments of a pin: the extent and the leaf starts inside it.
Requests == [page : Pages, pages : 1..MaxPages, aliases : SUBSET Pages]

\* The pins the searchers ask for, whether the index is mutated meanwhile, and the
\* budgets of main (probation and protected) and of protected, in pages.
IsWorkload(w) ==
    /\ w.requests \subseteq Requests
    /\ \A r \in w.requests : r.aliases \subseteq r.page..(r.page + r.pages - 1)
    /\ w.invalidates \in BOOLEAN
    /\ w.max_main \in Nat /\ w.max_protected \in 0..w.max_main

ASSUME CacheAssumption ==
    /\ Pages \subseteq Nat /\ Frequencies \subseteq Nat
    /\ MaxWindow \in Nat /\ MaxPages \in Nat
    /\ \A w \in Workloads : IsWorkload(w)
    /\ Stripes \in Nat \ {0} /\ MaxEntries \in Nat /\ Word \in Nat \ {0}
    /\ MaxEntries * MaxPages < Word
    /\ IsFiniteSet(Threads) /\ Nil \notin Threads \cup Entries

VARIABLES
    workload,   \* the requests, the budgets, and whether the index is mutated
    shard,      \* what the shard lock guards, with the entries it points at
    stripe,     \* each fill stripe: the thread that holds it or Nil
    thread,     \* where each thread is in pin or unpin
    pins        \* the handles each thread holds, oldest first

vars == <<workload, shard, stripe, thread, pins>>

MaxMain      == workload.max_main        \* max_main_bytes
MaxProtected == workload.max_protected   \* max_protected_bytes

Steps == {"idle", "gate", "recheck", "admit", "fill", "insert", "check", "claim", "free"}

-----------------------------------------------------------------------------
(* Entries and the shard *)

\* What is left of an entry once it is deleted.
Freed == [page |-> 0, pages |-> 0, keys |-> {}, status |-> "window", refs |-> 0,
          retired |-> TRUE, deleted |-> TRUE, freed |-> 1]

EmptyShard == [entries |-> [i \in Entries |-> Freed],
               list    |-> [l \in Segments |-> <<>>],
               bytes   |-> [l \in Segments |-> 0],
               map     |-> <<>>]

Add(a, b) == (a + b) % Word
Sub(a, b) == (a - b) % Word

\* The entry found under a key covers the pages asked for.
Covers(s, p, n) ==
    /\ p \in DOMAIN s.map
    /\ LET e == s.entries[s.map[p]] IN p - e.page + n <= e.pages

unlink(s, i) ==
    LET l == s.entries[i].status IN
    [s EXCEPT !.list[l] = RemoveFirst(@, i),
              !.bytes[l] = Sub(@, s.entries[i].pages)]

push_mru(s, i, l) ==
    [s EXCEPT !.list[l] = <<i>> \o @,
              !.bytes[l] = Add(@, s.entries[i].pages),
              !.entries[i].status = l]

\* Mutant: the aliases of a run are left in the map.
EraseFirstKey(s, i) ==
    LET p == s.entries[i].page IN
    IF p \in DOMAIN s.map /\ s.map[p] = i
    THEN [s EXCEPT !.map = [q \in DOMAIN s.map \ {p} |-> s.map[q]]]
    ELSE s

erase_keys(s, i) ==
    LET kept == {p \in DOMAIN s.map : ~(p \in s.entries[i].keys /\ s.map[p] = i)}
    IN  [s EXCEPT !.map = [p \in kept |-> s.map[p]]]

Delete(s, i) ==
    [s EXCEPT !.entries[i] = [Freed EXCEPT !.freed = 1 + s.entries[i].freed]]

\* Mutant: a pinned entry is deleted too.
DropPinned(s, i) == Delete([s EXCEPT !.entries[i].retired = TRUE], i)

\* Retire an entry under the lock, and delete it unless it is pinned.
drop_entry(s, i) ==
    LET r == [s EXCEPT !.entries[i].retired = TRUE] IN
    IF s.entries[i].refs = 0 /\ ~s.entries[i].deleted THEN Delete(r, i) ELSE r

Evict(s, i) == drop_entry(erase_keys(unlink(s, i), i), i)

Unpinned(s, l) == {k \in DOMAIN s.list[l] : s.entries[s.list[l][k]].refs = 0}

\* The unpinned entry nearest to the tail of a list.
Lru(s, l) == s.list[l][Max(Unpinned(s, l))]

Main(s) == s.bytes["probation"] + s.bytes["protected"]

\* A loop whose body Step leaves the shard alone once its condition is false.
Loop(Step(_), s, n) ==
    LET after[k \in 0..n] == IF k = 0 THEN s ELSE Step(after[k - 1])
    IN  after[n]

\* Mutant: the protected counter keeps the demoted entry's size.
DemoteUncounted(s) ==
    IF s.bytes["protected"] > MaxProtected /\ s.list["protected"] # <<>>
    THEN LET d == Last(s.list["protected"])
             r == push_mru(unlink(s, d), d, "probation")
         IN  [r EXCEPT !.bytes["protected"] = s.bytes["protected"]]
    ELSE s

Demote(s) ==
    IF s.bytes["protected"] > MaxProtected /\ s.list["protected"] # <<>>
    THEN LET d == Last(s.list["protected"]) IN push_mru(unlink(s, d), d, "probation")
    ELSE s

EvictProbation(s) ==
    IF Main(s) > MaxMain /\ s.bytes["probation"] > 0 /\ Unpinned(s, "probation") # {}
    THEN Evict(s, Lru(s, "probation"))
    ELSE s

\* A hit: take a reference, then promote; protected overflows into probation,
\* and probation evicts when the two together are over budget.
hit_locked(s, i) ==
    LET r == [s EXCEPT !.entries[i].refs = @ + 1]
        l == s.entries[i].status
    IN  IF l = "probation"
        THEN Loop(EvictProbation,
                  Loop(Demote, push_mru(unlink(r, i), i, "protected"), MaxEntries),
                  MaxEntries)
        ELSE push_mru(unlink(r, i), i, l)

Beats(s, freq, p) ==
    /\ Unpinned(s, "probation") # {}
    /\ freq[p] > freq[s.entries[Lru(s, "probation")].page]

\* Mutant: room for the candidate is judged without its size.
AdmitWithoutSize(s, freq) ==
    IF s.bytes["window"] <= MaxWindow \/ Unpinned(s, "window") = {} THEN s
    ELSE LET c == Lru(s, "window") IN
         IF Main(s) <= MaxMain THEN push_mru(unlink(s, c), c, "probation") ELSE Evict(s, c)

\* One round of the window's admission: its unpinned LRU goes to probation when
\* main has room or it beats probation's LRU, which it then replaces; else out.
AdmitFromWindow(s, freq) ==
    IF s.bytes["window"] <= MaxWindow \/ Unpinned(s, "window") = {} THEN s
    ELSE LET c == Lru(s, "window")
             r == unlink(s, c)
         IN  IF Main(r) + s.entries[c].pages <= MaxMain
             THEN push_mru(r, c, "probation")
             ELSE IF Beats(r, freq, s.entries[c].page)
             THEN push_mru(Evict(r, Lru(r, "probation")), c, "probation")
             ELSE drop_entry(erase_keys(r, c), c)

\* Link a filled entry, pinned, at the window's head, under every free key.
Link(s, i) ==
    LET e    == s.entries[i]
        r    == push_mru([s EXCEPT !.entries[i].refs = 1], i, "window")
        free == e.keys \ DOMAIN s.map
    IN  [r EXCEPT !.map = [p \in DOMAIN s.map \cup free |->
                              IF p \in free THEN i ELSE s.map[p]]]

insert_filled(s, i, freq) ==
    Loop(LAMBDA r : AdmitFromWindow(r, freq), Link(s, i), MaxEntries)

-----------------------------------------------------------------------------
(* pin *)

Goto(t, pc) == thread' = [thread EXCEPT ![t].pc = pc]
Return(t)   == thread' = [thread EXCEPT ![t] = [pc |-> "idle", req |-> Nil, gated |-> FALSE, e |-> Nil]]

Pin(t, i, r) == pins' = [pins EXCEPT ![t] = Append(@, [e |-> i, req |-> r])]

\* Pages share stripes: the stripe is a hash of the page.
fill_stripe(p) == p % Stripes

\* if (gated) stripe.unlock()
Ungate(t) ==
    stripe' = IF thread[t].gated THEN [stripe EXCEPT ![fill_stripe(thread[t].req.page)] = Nil] ELSE stripe

pin_lookup(t, r) ==
    /\ thread[t].pc = "idle"
    /\ Len(pins[t]) < MaxPins
    /\ IF Covers(shard, r.page, r.pages)
       THEN /\ shard' = hit_locked(shard, shard.map[r.page])
            /\ Pin(t, shard.map[r.page], r)
            /\ UNCHANGED thread
       ELSE /\ shard' = IF /\ r.page \in DOMAIN shard.map
                           /\ shard.entries[shard.map[r.page]].refs = 0
                        THEN Evict(shard, shard.map[r.page])
                        ELSE shard
            /\ thread' = [thread EXCEPT ![t].pc = "gate", ![t].req = r]
            /\ UNCHANGED pins
    /\ UNCHANGED <<workload, stripe>>

pin_gate(t) ==
    /\ thread[t].pc = "gate"
    /\ LET k == fill_stripe(thread[t].req.page) IN
       IF stripe[k] = Nil
       THEN /\ stripe' = [stripe EXCEPT ![k] = t]
            /\ thread' = [thread EXCEPT ![t].pc = "recheck", ![t].gated = TRUE]
       ELSE /\ Goto(t, "admit")
            /\ UNCHANGED stripe
    /\ UNCHANGED <<workload, shard, pins>>

pin_recheck(t) ==
    /\ thread[t].pc = "recheck"
    /\ LET r == thread[t].req IN
       IF Covers(shard, r.page, r.pages)
       THEN /\ shard' = hit_locked(shard, shard.map[r.page])
            /\ Pin(t, shard.map[r.page], r)
            /\ Ungate(t)
            /\ Return(t)
       ELSE /\ Goto(t, "admit")
            /\ UNCHANGED <<shard, stripe, pins>>
    /\ UNCHANGED workload

\* Fill only when main has room or the page beats probation's LRU; else the
\* caller reads its own mapping and holds no pin.
pin_admit(t, freq) ==
    /\ thread[t].pc = "admit"
    /\ LET r == thread[t].req IN
       IF Main(shard) + r.pages <= MaxMain \/ Beats(shard, freq, r.page)
       THEN /\ Goto(t, "fill")
            /\ UNCHANGED stripe
       ELSE /\ Ungate(t)
            /\ Return(t)
    /\ UNCHANGED <<workload, shard, pins>>

\* Ids of entries that do not exist and that no thread still refers to.
FreshEntries == {i \in Entries : shard.entries[i].freed > 0 /\ \A t \in Threads : thread[t].e # i}

pin_fill(t) ==
    /\ thread[t].pc = "fill"
    /\ FreshEntries # {}
    /\ LET i == Min(FreshEntries)
           r == thread[t].req
       IN  /\ shard' = [shard EXCEPT !.entries[i] =
                           [page |-> r.page, pages |-> r.pages, keys |-> {r.page} \cup r.aliases,
                            status |-> "window", refs |-> 0,
                            retired |-> FALSE, deleted |-> FALSE, freed |-> 0]]
           /\ thread' = [thread EXCEPT ![t].pc = "insert", ![t].e = i]
    /\ UNCHANGED <<workload, stripe, pins>>

\* pread fails: the exception leaves the stripe locked.
pin_fill_throws(t) ==
    /\ thread[t].pc = "fill"
    /\ Return(t)
    /\ UNCHANGED <<workload, shard, stripe, pins>>

\* The filled entry enters the cache, unless a covering entry came first or it
\* is larger than the shard.
pin_insert(t, freq) ==
    /\ thread[t].pc = "insert"
    /\ LET r == thread[t].req
           i == thread[t].e
       IN  \/ /\ Covers(shard, r.page, r.pages)
              /\ shard' = drop_entry(hit_locked(shard, shard.map[r.page]), i)
              /\ Pin(t, shard.map[r.page], r)
           \/ /\ ~Covers(shard, r.page, r.pages)
              /\ r.pages > MaxWindow + MaxMain
              /\ shard' = drop_entry(shard, i)
              /\ UNCHANGED pins
           \/ /\ ~Covers(shard, r.page, r.pages)
              /\ r.pages <= MaxWindow + MaxMain
              /\ shard' = insert_filled(shard, i, freq)
              /\ Pin(t, i, r)
    /\ Ungate(t)
    /\ Return(t)
    /\ UNCHANGED workload

-----------------------------------------------------------------------------
(* unpin and invalidation *)

\* unpin's decrement; only the thread that takes the count to zero goes on.
unpin_dec(t) ==
    /\ thread[t].pc = "idle"
    /\ pins[t] # <<>>
    /\ LET i == Head(pins[t]).e IN
       /\ shard' = [shard EXCEPT !.entries[i].refs = @ - 1]
       /\ thread' = IF shard.entries[i].refs = 1
                    THEN [thread EXCEPT ![t].pc = "check", ![t].e = i]
                    ELSE thread
    /\ pins' = [pins EXCEPT ![t] = Tail(@)]
    /\ UNCHANGED <<workload, stripe>>

\* Mutant: an entry retired while it was pinned is not looked at again.
UnpinForgets(t) ==
    /\ thread[t].pc = "check"
    /\ Return(t)
    /\ UNCHANGED <<workload, shard, stripe, pins>>

unpin_check(t) ==
    /\ thread[t].pc = "check"
    /\ IF shard.entries[thread[t].e].retired THEN Goto(t, "claim") ELSE Return(t)
    /\ UNCHANGED <<workload, shard, stripe, pins>>

\* Mutant: the deletion is not claimed.
ClaimByAll(t) ==
    /\ thread[t].pc = "claim"
    /\ Goto(t, "free")
    /\ UNCHANGED <<workload, shard, stripe, pins>>

\* maybe_delete: still unpinned, and the first to claim the deletion.
unpin_claim(t) ==
    /\ thread[t].pc = "claim"
    /\ LET e == shard.entries[thread[t].e] IN
       IF e.refs = 0 /\ ~e.deleted
       THEN /\ shard' = [shard EXCEPT !.entries[thread[t].e].deleted = TRUE]
            /\ Goto(t, "free")
       ELSE /\ Return(t)
            /\ UNCHANGED shard
    /\ UNCHANGED <<workload, stripe, pins>>

unpin_free(t) ==
    /\ thread[t].pc = "free"
    /\ shard' = Delete(shard, thread[t].e)
    /\ Return(t)
    /\ UNCHANGED <<workload, stripe, pins>>

\* Drop an entry the map names, once however many of its keys name it.
DropNamed(s) ==
    IF DOMAIN s.map = {} THEN s
    ELSE Evict(s, Min(Range(s.map)))

\* Drop every entry the map names, clear the map and zero the counters.
invalidate_all ==
    /\ workload.invalidates
    /\ shard' = [Loop(DropNamed, shard, MaxEntries)
                    EXCEPT !.map = <<>>, !.bytes = [l \in Segments |-> 0]]
    /\ UNCHANGED <<workload, stripe, thread, pins>>

-----------------------------------------------------------------------------

Init ==
    /\ workload \in Workloads
    /\ shard = EmptyShard
    /\ stripe = [k \in 0..(Stripes - 1) |-> Nil]
    /\ thread = [t \in Threads |-> [pc |-> "idle", req |-> Nil, gated |-> FALSE, e |-> Nil]]
    /\ pins = [t \in Threads |-> <<>>]

Next ==
    \/ invalidate_all
    \/ \E t \in Threads :
        \/ \E r \in workload.requests : pin_lookup(t, r)
        \/ pin_gate(t)
        \/ pin_recheck(t)
        \/ \E freq \in [Pages -> Frequencies] : pin_admit(t, freq) \/ pin_insert(t, freq)
        \/ pin_fill(t)
        \/ pin_fill_throws(t)
        \/ unpin_dec(t)
        \/ unpin_check(t)
        \/ unpin_claim(t)
        \/ unpin_free(t)

Spec == Init /\ [][Next]_vars

-----------------------------------------------------------------------------
(* Properties *)

Linked(l)  == Range(shard.list[l])
AllLinked  == UNION {Linked(l) : l \in Segments}
PagesOf(s, S) == UNION {{i} \X (1..s.entries[i].pages) : i \in S}
PinsOf(i)  == {x \in UNION {{t} \X DOMAIN pins[t] : t \in Threads} : pins[x[1]][x[2]].e = i}

\* The types of the variables of the shard, the stripes and the threads.
TypeOK ==
    /\ workload \in Workloads
    /\ shard.entries \in [Entries ->
           [page : Pages \cup {0}, pages : Nat, keys : SUBSET Pages, status : Segments,
            refs : Nat, retired : BOOLEAN, deleted : BOOLEAN, freed : Nat]]
    /\ shard.list \in [Segments -> Seq(Entries)]
    /\ shard.bytes \in [Segments -> 0..(Word - 1)]
    /\ DOMAIN shard.map \subseteq Pages /\ Range(shard.map) \subseteq Entries
    /\ stripe \in [0..(Stripes - 1) -> Threads \cup {Nil}]
    /\ thread \in [Threads ->
           [pc : Steps, req : Requests \cup {Nil}, gated : BOOLEAN, e : Entries \cup {Nil}]]
    /\ pins \in [Threads -> Seq([e : Entries, req : Requests])]

\* Every handle a searcher holds is of an entry that still exists, holds every
\* page it asked for, and counts once in the entry's refs, which count nothing
\* else: the scan reads the extent with no lock (pin, unpin, eviction).
PinsValid ==
    /\ \A t \in Threads : \A k \in DOMAIN pins[t] :
        LET e == shard.entries[pins[t][k].e]
            r == pins[t][k].req
        IN  e.freed = 0 /\ e.page <= r.page /\ r.page + r.pages <= e.page + e.pages
    /\ \A i \in Entries : shard.entries[i].refs = Cardinality(PinsOf(i))

\* The map names only entries that are linked, under their own keys, and every
\* linked entry is in one list once, the one its status says, and not retired
\* (hit_locked, erase_keys, insertion and eviction under the lock).
MapSound ==
    /\ \A p \in DOMAIN shard.map :
        shard.map[p] \in AllLinked /\ p \in shard.entries[shard.map[p]].keys
    /\ \A l \in Segments :
        /\ Cardinality(Linked(l)) = Len(shard.list[l])
        /\ \A i \in Linked(l) : shard.entries[i].status = l /\ ~shard.entries[i].retired

\* Each byte counter is the size of the entries of its list: the budget loops
\* and the admission gate decide by the counters alone.
BytesExact ==
    \A l \in Segments : shard.bytes[l] = Cardinality(PagesOf(shard, Linked(l)))

\* The shard's map, lists and counters agree with its entries whenever the lock is
\* free (hit_locked, insertion, eviction, invalidation).
ShardConsistent == MapSound /\ BytesExact

\* An entry is deleted at most once, however an eviction, an invalidation and
\* the last unpins interleave (maybe_delete, maybe_delete_locked).
FreedOnce == \A i \in Entries : shard.entries[i].freed <= 1

\* An entry that exists is linked, pinned, or in the hands of a thread that has
\* yet to link or to delete it: whoever retires it or unpins it last frees it.
NoLeak ==
    \A i \in Entries :
        shard.entries[i].freed = 0 =>
            \/ i \in AllLinked
            \/ PinsOf(i) # {}
            \/ \E t \in Threads : thread[t].e = i

\* No entry is freed twice and none is lost, although the last unpin runs without
\* the lock that evictions and invalidations hold (unpin, maybe_delete, drop_entry).
FreedExactlyOnce == FreedOnce /\ NoLeak

\* With extents of one size the admitted entries never exceed their budget,
\* whatever is pinned while entries are promoted, demoted and replaced.
MainWithinBudget ==
    (\A r, q \in workload.requests : r.pages = q.pages) => Main(shard) <= MaxMain

=============================================================================
