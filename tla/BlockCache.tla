----------------------------- MODULE BlockCache -----------------------------
(***************************************************************************)
(* One shard of the block cache (src/storage/block_cache.cpp): window,     *)
(* probation and protected lists, the lazy adaptation to limits that the   *)
(* hill climber writes without the shard's lock, resize, and the           *)
(* reader-writer lock with waiting writers first (docs/locking_contracts). *)
(*                                                                         *)
(* Lists hold blocks, most recently used first; a block's status is the    *)
(* list it is in.  Which of two blocks the sketch finds more frequent, and *)
(* which way the hit rate makes the climber step, are free choices.  Block *)
(* data, buffers, epochs, statistics and the dirty flag, which nothing     *)
(* reads, are left out.                                                    *)
(***************************************************************************)
EXTENDS Integers, Sequences, SequencesExt, FiniteSets

CONSTANTS
  Threads,
  Blocks,
  Configs        \* instances: the threads that use the shard, its capacity, the sizes
                 \* resize may be given, whether other shards' accesses may climb

\* The largest capacity for which 80 * cap fits in 32 bits, unsigned.
MaxCapacity == 53687091

ASSUME ConfigsAssumption ==
  \A c \in Configs : /\ c.cap \in 0 .. MaxCapacity /\ c.sizes \subseteq 0 .. MaxCapacity
                     /\ c.elsewhere \in BOOLEAN /\ c.threads \subseteq Threads

VARIABLES
  config,        \* the instance
  shard,         \* [window, probation, protected, cap, max_window, max_protected]
  hc_cap,        \* hc_per_shard_capacity_
  th,            \* each thread's operation and where it stands
  present,       \* history: a block the last finished insert left resident, or not
  wrapped        \* history: a resize computed a protected limit below zero

vars == <<config, shard, hc_cap, th, present, wrapped>>

Idle == [at |-> "idle", op |-> "none", arg |-> 0, limit |-> 0]

Resident(s) == Range(s.window) \cup Range(s.probation) \cup Range(s.protected)

\* map_.size(): every entry of the map is in one list.
MapSize(s) == Len(s.window) + Len(s.probation) + Len(s.protected)

\* (cap - window) * 80 / 100 in 32 bits: below zero it wraps to a large number.
Wrapped == 42949672
MaxProtected(cap, w) == IF cap < w THEN Wrapped ELSE ((cap - w) * 80) \div 100
DefaultWindow(cap) == IF cap \div 100 > 1 THEN cap \div 100 ELSE 1

Shard(cap) ==
  [window |-> <<>>, probation |-> <<>>, protected |-> <<>>, cap |-> cap,
   max_window |-> DefaultWindow(cap), max_protected |-> MaxProtected(cap, DefaultWindow(cap))]

-----------------------------------------------------------------------------
\* Operations on the shard, under its write lock.

\* Mutant: a promoted block is not unlinked from probation.
HitKeepsProbation(s, b) ==
  IF b \in Range(s.window) THEN [s EXCEPT !.window = <<b>> \o RemoveFirst(@, b)]
  ELSE [s EXCEPT !.protected = <<b>> \o RemoveFirst(@, b)]

\* A hit of insert: the block moves to the front of its list, or from probation to
\* protected, whose last block then goes back when there is no room.
Hit(s, b) ==
  LET up == <<b>> \o s.protected
      n  == Len(up)
  IN CASE b \in Range(s.window) -> [s EXCEPT !.window = <<b>> \o RemoveFirst(@, b)]
       [] b \in Range(s.protected) -> [s EXCEPT !.protected = <<b>> \o RemoveFirst(@, b)]
       [] b \in Range(s.probation) ->
            IF n > s.max_protected
            THEN [s EXCEPT !.protected = Front(up), !.probation = <<up[n]>> \o RemoveFirst(@, b)]
            ELSE [s EXCEPT !.protected = up, !.probation = RemoveFirst(@, b)]

\* The loop that demotes from protected down to the limit the caller read.
Demoted(s, limit) ==
  IF Len(s.protected) <= limit THEN s
  ELSE [s EXCEPT !.protected = SubSeq(@, 1, limit),
                 !.probation = SubSeq(s.protected, limit + 1, Len(s.protected)) \o @]

\* Mutant: a candidate that loses is not evicted.
AdmitKeepsCandidate(s, admit) ==
  LET c == Last(s.window)
      m == [s EXCEPT !.window = Front(@), !.probation = <<c>> \o @]
  IN IF Len(s.window) <= s.max_window THEN s
     ELSE IF MapSize(m) <= s.cap \/ Len(m.probation) = 1 THEN m
     ELSE IF admit THEN [m EXCEPT !.probation = Front(@)] ELSE m

(***************************************************************************)
(* admit_one_from_window: nothing while the window is within its limit;    *)
(* else its last block (the candidate) moves to probation, and above       *)
(* capacity the candidate or the last block of probation is evicted,       *)
(* unless they are the same.                                               *)
(***************************************************************************)
admit_one_from_window(s, admit) ==
  LET c == Last(s.window)
      m == [s EXCEPT !.window = Front(@), !.probation = <<c>> \o @]
  IN IF Len(s.window) <= s.max_window THEN s
     ELSE IF MapSize(m) <= s.cap \/ Len(m.probation) = 1 THEN m
     ELSE IF admit THEN [m EXCEPT !.probation = Front(@)]
          ELSE [m EXCEPT !.probation = Tail(@)]

Least(m, n) == IF m < n THEN m ELSE n

\* The evictions of resize: from the window's end, then probation's, then
\* protected's, until what is left fits.
Evicted(s) ==
  LET excess == IF MapSize(s) > s.cap THEN MapSize(s) - s.cap ELSE 0
      w == Least(excess, Len(s.window))
      p == Least(excess - w, Len(s.probation))
      first(l, n) == SubSeq(l, 1, Len(l) - n)
  IN [s EXCEPT !.window = first(@, w), !.probation = first(@, p),
               !.protected = first(@, excess - w - p)]

-----------------------------------------------------------------------------
\* The lock.
Shrinking == {"load", "protect"}
Sections == {"adapt", "spill", "insert", "admit", "hit", "resize"} \cup Shrinking
Readers == {t \in Threads : th[t].at = "reading"}
Writers == {t \in Threads : th[t].at \in Sections}
WaitingWriters == {t \in Threads : th[t].at = "wait"}

Go(t, o) == th' = [th EXCEPT ![t] = o]

\* A caller asks for the read lock, to look blocks up.
read_wait(t) ==
  /\ th[t] = Idle
  /\ Go(t, [Idle EXCEPT !.at = "ask"])
  /\ UNCHANGED <<config, shard, hc_cap, present, wrapped>>

\* ScopedReadLock: blocks while a writer holds the lock or waits for it.
read_lock(t) ==
  /\ th[t].at = "ask"
  /\ Writers = {} /\ WaitingWriters = {}
  /\ Go(t, [Idle EXCEPT !.at = "reading"])
  /\ UNCHANGED <<config, shard, hc_cap, present, wrapped>>

\* Mutant: a reader that holds the lock looks up with lookup(), which locks again.
LookupLocksAgain(t) ==
  /\ th[t].at = "reading"
  /\ WaitingWriters = {}
  /\ Go(t, Idle)
  /\ UNCHANGED <<config, shard, hc_cap, present, wrapped>>

\* lookup_unlocked for the blocks the reader is after, which changes no list, and the
\* end of the read section.
lookup(t) ==
  /\ th[t].at = "reading"
  /\ Go(t, Idle)
  /\ UNCHANGED <<config, shard, hc_cap, present, wrapped>>

\* A caller asks for the write lock, to insert or to resize.  The block to insert is
\* chosen where insert first looks at it.
write_wait(t, op, arg) ==
  /\ th[t] = Idle
  /\ op = "resize" => \A u \in Threads : th[u].op # "resize"
  /\ Go(t, [at |-> "wait", op |-> op, arg |-> arg, limit |-> 0])
  /\ UNCHANGED <<config, shard, hc_cap, present, wrapped>>

write_lock(t) ==
  /\ th[t].at = "wait"
  /\ Readers = {} /\ Writers = {}
  /\ Go(t, [th[t] EXCEPT !.at = IF th[t].op = "insert" THEN "adapt" ELSE "resize"])
  /\ UNCHANGED <<config, shard, hc_cap, present, wrapped>>

\* maybe_adapt reads both limits and demotes; ...
adapt(t) ==
  /\ th[t].at = "adapt"
  /\ shard' = Demoted(shard, shard.max_protected)
  /\ Go(t, [th[t] EXCEPT !.at = "spill", !.limit = shard.max_window])
  /\ UNCHANGED <<config, hc_cap, present, wrapped>>

\* ... while the window is above the limit it read, it lets admit_one_from_window
\* move one, which looks at the limit as it is now.
spill(t, admit) ==
  /\ th[t].at = "spill"
  /\ Len(shard.window) > th[t].limit
  /\ shard' = admit_one_from_window(shard, admit)
  /\ UNCHANGED <<config, hc_cap, th, present, wrapped>>

spilled(t) ==
  /\ th[t].at = "spill"
  /\ Len(shard.window) <= th[t].limit
  /\ Go(t, [th[t] EXCEPT !.at = IF th[t].op = "insert" THEN "insert" ELSE "reset", !.limit = 0])
  /\ UNCHANGED <<config, shard, hc_cap, present, wrapped>>

\* insert after maybe_adapt: a hit, nothing at capacity 0, or a new entry at the
\* front of the window ...
insert(t, b) ==
  /\ th[t].at = "insert"
  /\ IF b \in Resident(shard)
     THEN shard' = Hit(shard, b) /\ Go(t, [th[t] EXCEPT !.at = "hit"])
     ELSE IF shard.cap = 0
     THEN UNCHANGED shard /\ Go(t, [th[t] EXCEPT !.at = "hit"])
     ELSE /\ shard' = [shard EXCEPT !.window = <<b>> \o @]
          /\ Go(t, [th[t] EXCEPT !.at = "admit"])
  /\ UNCHANGED <<config, hc_cap, present, wrapped>>

\* ... which one admission makes room for.
insert_admit(t, admit) ==
  /\ th[t].at = "admit"
  /\ shard' = admit_one_from_window(shard, admit)
  /\ present' = (Head(shard.window) \in Resident(shard'))
  /\ Go(t, Idle)
  /\ UNCHANGED <<config, hc_cap, wrapped>>

insert_hit(t) ==
  /\ th[t].at = "hit"
  /\ Go(t, Idle)
  /\ UNCHANGED <<config, shard, hc_cap, present, wrapped>>

\* BlockCache::resize, the shard under its lock, in the order of the stores: the
\* capacity and the default window, ...
resize(t) ==
  /\ th[t].at = "resize"
  /\ shard' = [shard EXCEPT !.cap = th[t].arg, !.max_window = DefaultWindow(th[t].arg)]
  /\ Go(t, [th[t] EXCEPT !.at = "load"])
  /\ UNCHANGED <<config, hc_cap, present, wrapped>>

\* ... the window's limit loaded again, which a climb may have stored by now, ...
resize_load(t) ==
  /\ th[t].at = "load"
  /\ Go(t, [th[t] EXCEPT !.at = "protect", !.limit = shard.max_window])
  /\ UNCHANGED <<config, shard, hc_cap, present, wrapped>>

\* ... the protected limit computed from it, and the evictions.
resize_protect(t) ==
  /\ th[t].at = "protect"
  /\ shard' = [Evicted(shard) EXCEPT !.max_protected = MaxProtected(shard.cap, th[t].limit)]
  /\ wrapped' = (wrapped \/ (shard.cap > 0 /\ shard.cap < th[t].limit))
  /\ Go(t, [th[t] EXCEPT !.at = "adapt", !.limit = 0])
  /\ UNCHANGED <<config, hc_cap, present>>

\* ... and, after the lock is released, the climber's capacity.
resize_reset(t) ==
  /\ th[t].at = "reset"
  /\ hc_cap' = th[t].arg
  /\ Go(t, Idle)
  /\ UNCHANGED <<config, shard, present, wrapped>>

\* The climber's largest step: max(2, capacity * 0.0625), which only decays.
StepSize(cap) == IF cap \div 16 > 2 THEN cap \div 16 ELSE 2

Clamp(x, lo, hi) == IF x < lo THEN lo ELSE IF x > hi THEN hi ELSE x

(***************************************************************************)
(* climb, from record_access: a sample is full and the limits move by the  *)
(* climber's step.  The thread is in a lookup or an insert of this shard,  *)
(* or of another one (elsewhere).                                          *)
(***************************************************************************)
climb(amount) ==
  LET w == Clamp(shard.max_window + amount, 1, hc_cap - 2)
  IN /\ hc_cap >= 3
     /\ \/ config.elsewhere
        \/ \E t \in Threads : th[t].at \in {"reading", "admit", "hit"}
     /\ shard' = [shard EXCEPT !.max_window = w, !.max_protected = MaxProtected(hc_cap, w)]
     /\ UNCHANGED <<config, hc_cap, th, present, wrapped>>

-----------------------------------------------------------------------------
Init ==
  /\ config \in Configs
  /\ shard = Shard(config.cap)
  /\ hc_cap = config.cap
  /\ th = [t \in Threads |-> Idle]
  /\ present = TRUE
  /\ wrapped = FALSE

Locked(t) ==
  \/ lookup(t) \/ adapt(t)
  \/ \E admit \in BOOLEAN : spill(t, admit)
  \/ spilled(t)
  \/ \E b \in Blocks : insert(t, b)
  \/ \E admit \in BOOLEAN : insert_admit(t, admit)
  \/ insert_hit(t)
  \/ resize(t) \/ resize_load(t) \/ resize_protect(t) \/ resize_reset(t)

Next ==
  \/ \E t \in config.threads :
       \/ read_wait(t)
       \/ read_lock(t)
       \/ write_wait(t, "insert", 0)
       \/ \E cap \in config.sizes : write_wait(t, "resize", cap)
       \/ write_lock(t)
       \/ Locked(t)
  \/ \E amount \in -StepSize(hc_cap) .. StepSize(hc_cap) : climb(amount)

\* A thread inside an operation goes on, and one that waits for the lock is not passed
\* over for ever: the lock keeps new readers out while a writer waits, and ages its
\* waiters.
Fairness ==
  \A t \in Threads : WF_vars(Locked(t)) /\ SF_vars(read_lock(t) \/ write_lock(t))

Spec == Init /\ [][Next]_vars /\ Fairness

-----------------------------------------------------------------------------
(***************************************************************************)
(* Every resident block is in one list, once: promotions, demotions,       *)
(* admissions and evictions neither lose nor copy an entry.  And the block *)
(* an insert has just stored is still there when insert looks it up again. *)
(***************************************************************************)
EntriesSound ==
  /\ IsInjective(shard.window \o shard.probation \o shard.protected)
  /\ present

\* The capacities a cache is ever given; below 3 the climber never moves.
Capacities(c) == c.sizes \cup {c.cap}
Tiny(c) == \A n \in Capacities(c) : n < 3
Largest(c) == CHOOSE m \in Capacities(c) : \A n \in Capacities(c) : n <= m

\* Room in the main lists and in the window.
MainRoom(s, c) == IF Tiny(c) THEN s.cap ELSE Largest(c)
WindowRoom(c) == IF Tiny(c) THEN 1 ELSE Largest(c) - 2

(***************************************************************************)
(* What bounds the memory of a shard.  The main lists never hold more than *)
(* the capacity, outside the evictions of a resize.  The window comes on   *)
(* top: admissions evict only while it is above its limit, so a climber    *)
(* that raises the limit of a full shard lets it fill, up to the largest   *)
(* limit (capacity - 2), and one more while an insert is under way.  A     *)
(* resize that the climber runs into leaves limits of the old capacity:    *)
(* then the largest capacity counts.  The main lists' bound holds as long  *)
(* as no resize loaded a window limit above its new capacity               *)
(* (block_cache.cpp:110), which the climb of another shard can cause and   *)
(* a single shard cannot: the protected limit then wraps, and nothing      *)
(* bounds the main lists any more.                                         *)
(***************************************************************************)
CapacityHeld ==
  /\ wrapped => config.elsewhere
  /\ Len(shard.window) <= WindowRoom(config) +
                          (IF \E t \in Threads : th[t].at = "admit" THEN 1 ELSE 0)
  /\ ~wrapped /\ (\A t \in Threads : th[t].at \notin Shrinking) =>
       Len(shard.probation) + Len(shard.protected) <= MainRoom(shard, config)

(***************************************************************************)
(* With one shard, every lookup, insert and resize comes to an end, from   *)
(* the moment it asks for the lock: waiting writers and readers that hold  *)
(* the lock never wait for each other, and the adaptation loop stops.      *)
(***************************************************************************)
OpsFinish ==
  ~config.elsewhere => \A t \in Threads : [](th[t] # Idle => <>(th[t] = Idle))
=============================================================================
