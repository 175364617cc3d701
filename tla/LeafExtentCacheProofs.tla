----------------------- MODULE LeafExtentCacheProofs -----------------------
(***************************************************************************)
(* Proofs about LeafExtentCache, for any number of searchers, requests and *)
(* budgets.  The operations under the shard lock are followed one by one:  *)
(* Good says what they keep true of a shard from which the entries of a    *)
(* set X have been taken out of their lists, Evolves what they may do to   *)
(* the entries.                                                            *)
(***************************************************************************)
EXTENDS LeafExtentCache, CommonLemmas

EntryRec == [page : Pages \cup {0}, pages : 0..MaxPages, keys : SUBSET Pages, status : Segments, refs : Nat,
             retired : BOOLEAN, deleted : BOOLEAN, freed : {0, 1}]
Maps     == UNION {[D -> Entries] : D \in SUBSET Pages}
Shards   == [entries : [Entries -> EntryRec], list : [Segments -> Seq(Entries)],
             bytes : [Segments -> 0..(Word - 1)], map : Maps]

LinkedIn(s) == UNION {Range(s.list[l]) : l \in Segments}

\* An entry that was not retired is neither claimed for deletion nor deleted, and its
\* keys lie in its extent or behind it.
EntriesGood(s) ==
    \A i \in Entries : LET e == s.entries[i] IN
        /\ ~e.retired => ~e.deleted /\ e.freed = 0
        /\ \A p \in e.keys : e.page <= p

\* A list holds each of its entries once, those whose status says so.
ListsGood(s) ==
    \A l \in Segments :
        /\ IsInjective(s.list[l])
        /\ \A i \in Range(s.list[l]) : s.entries[i].status = l /\ ~s.entries[i].retired

\* The map names entries of the lists, and those under way between them, by their keys.
MapGood(s, X) ==
    \A p \in DOMAIN s.map : s.map[p] \in LinkedIn(s) \cup X /\ p \in s.entries[s.map[p]].keys

Detached(s, X) ==
    X \subseteq Entries /\ X \cap LinkedIn(s) = {} /\ \A i \in X : ~s.entries[i].retired

Good(s, X) == s \in Shards /\ EntriesGood(s) /\ ListsGood(s) /\ MapGood(s, X) /\ Detached(s, X)

\* An entry that moved between lists, and one that was retired: it is deleted unless
\* it is pinned.
Same(e, f) ==
    /\ f.page = e.page /\ f.pages = e.pages /\ f.keys = e.keys /\ f.refs = e.refs
    /\ f.retired = e.retired /\ f.deleted = e.deleted /\ f.freed = e.freed
Dropped(e, f) ==
    \/ /\ e.refs > 0 /\ f.retired
       /\ f.page = e.page /\ f.pages = e.pages /\ f.keys = e.keys /\ f.refs = e.refs
       /\ f.deleted = e.deleted /\ f.freed = e.freed
    \/ e.refs = 0 /\ f = Freed

\* From s to x the entries of A \ B were dropped, those of B kept, no other touched.
Evolves(s, x, A, B) ==
    /\ B \subseteq A
    /\ \A i \in Entries \ A : x.entries[i] = s.entries[i]
    /\ \A i \in B : Same(s.entries[i], x.entries[i])
    /\ \A i \in A \ B : Dropped(s.entries[i], x.entries[i])

\* The counters are those of the lists.
Exact(s) == \A l \in Segments : s.bytes[l] = Cardinality(PagesOf(s, Range(s.list[l])))

\* The map still names the entries of B by the keys that named them.
NamesKept(s, x, B) ==
    \A p \in DOMAIN s.map : s.map[p] \in B => p \in DOMAIN x.map /\ x.map[p] = s.map[p]

Moves(s, X, x, Y) ==
    /\ Good(x, Y) /\ Evolves(s, x, LinkedIn(s) \cup X, LinkedIn(x) \cup Y)
    /\ NamesKept(s, x, LinkedIn(x) \cup Y)
    /\ Exact(s) => Exact(x)

-----------------------------------------------------------------------------
(* Shards *)

\* Pages are numbers.
LEMMA Numbers == Pages \subseteq Nat /\ Pages \cup {0} \subseteq Nat /\ 1..MaxPages \subseteq Nat
BY CacheAssumption

\* The parts of a shard and their types.
LEMMA ShardParts ==
    ASSUME NEW s \in Shards
    PROVE  /\ s.entries \in [Entries -> EntryRec] /\ s.list \in [Segments -> Seq(Entries)]
           /\ s.bytes \in [Segments -> 0..(Word - 1)] /\ s.map \in Maps
           /\ \A l \in Segments : Range(s.list[l]) \subseteq Entries
           /\ LinkedIn(s) \subseteq Entries
           /\ DOMAIN s.map \subseteq Pages /\ \A p \in DOMAIN s.map : s.map[p] \in Entries
<1>1. /\ s.entries \in [Entries -> EntryRec] /\ s.list \in [Segments -> Seq(Entries)]
      /\ s.bytes \in [Segments -> 0..(Word - 1)] /\ s.map \in Maps
  BY DEF Shards
<1>2. \A w \in Seq(Entries) : Range(w) \subseteq Entries
  BY LenProperties DEF Range
<1>3. \A l \in Segments : Range(s.list[l]) \subseteq Entries
  BY <1>1, <1>2
<1>4. DOMAIN s.map \subseteq Pages /\ \A p \in DOMAIN s.map : s.map[p] \in Entries
  BY <1>1 DEF Maps
<1>5. QED
  BY <1>1, <1>3, <1>4 DEF LinkedIn

\* Doing nothing is a move.
LEMMA MovesReflexive ==
    ASSUME NEW s, NEW X, Good(s, X)
    PROVE  Moves(s, X, s, X)
BY DEF Moves, Evolves, Same, NamesKept

\* Moves compose.
LEMMA MovesTransitive ==
    ASSUME NEW s, NEW X, NEW x, NEW Y, NEW z, NEW Z, LinkedIn(s) \cup X \subseteq Entries,
           Moves(s, X, x, Y), Moves(x, Y, z, Z)
    PROVE  Moves(s, X, z, Z)
<1> DEFINE A == LinkedIn(s) \cup X
           B == LinkedIn(x) \cup Y
           C == LinkedIn(z) \cup Z
<1>1. Good(z, Z) /\ Evolves(s, x, A, B) /\ Evolves(x, z, B, C)
  BY DEF Moves
<1> HIDE DEF A, B, C
<1>2. C \subseteq A /\ \A i \in Entries \ A : z.entries[i] = s.entries[i]
  BY <1>1 DEF Evolves
<1>3. \A i \in C : Same(s.entries[i], z.entries[i])
  BY <1>1 DEF Evolves, Same
<1>4. ASSUME NEW i \in A \ C PROVE Dropped(s.entries[i], z.entries[i])
  <2>1. CASE i \in B
    BY <2>1, <1>1 DEF Evolves, Same, Dropped
  <2>2. CASE i \notin B
    <3>1. i \in Entries
      BY DEF A
    <3>2. QED
      BY <2>2, <3>1, <1>1 DEF Evolves
  <2>3. QED
    BY <2>1, <2>2
<1>5. Evolves(s, z, A, C)
  BY <1>2, <1>3, <1>4 DEF Evolves
<1>6. NamesKept(s, z, C)
  <2>1. NamesKept(s, x, B) /\ NamesKept(x, z, C) /\ C \subseteq B
    BY <1>1 DEF Moves, Evolves, B, C
  <2>2. QED
    BY <2>1 DEF NamesKept
<1>7. QED
  BY <1>1, <1>5, <1>6 DEF Moves, A, C

-----------------------------------------------------------------------------
(* The pages of a list *)

\* The pages of any entries are counted, and a counter has room for them.
LEMMA PagesCounted ==
    ASSUME NEW s \in Shards, NEW S \in SUBSET Entries
    PROVE  /\ IsFiniteSet(PagesOf(s, S)) /\ Cardinality(PagesOf(s, S)) \in Nat
           /\ Cardinality(PagesOf(s, S)) < Word
<1>1. s.entries \in [Entries -> EntryRec] /\ MaxEntries \in Nat /\ MaxPages \in Nat /\ Word \in Nat
  BY ShardParts, CacheAssumption
<1>2. PagesOf(s, S) \subseteq Entries \X (1..MaxPages)
  <2>1. ASSUME NEW i \in S PROVE {i} \X (1..s.entries[i].pages) \subseteq Entries \X (1..MaxPages)
    <3>1. i \in Entries /\ s.entries[i].pages \in 0..MaxPages
      BY <1>1 DEF EntryRec
    <3>2. 1..s.entries[i].pages \subseteq 1..MaxPages
      BY <1>1, <3>1
    <3>3. QED
      BY <3>1, <3>2
  <2>2. QED
    BY <2>1 DEF PagesOf
<1>3. /\ IsFiniteSet(Entries) /\ Cardinality(Entries) = MaxEntries
      /\ IsFiniteSet(1..MaxPages) /\ Cardinality(1..MaxPages) = MaxPages
  <2>1. 1 \in Int /\ MaxEntries \in Int /\ MaxPages \in Int
    BY <1>1
  <2>2. QED
    BY <1>1, <2>1, FS_Interval DEF Entries
<1>4. /\ IsFiniteSet(Entries \X (1..MaxPages))
      /\ Cardinality(Entries \X (1..MaxPages)) = MaxEntries * MaxPages
  BY <1>3, FS_Product
<1>5. /\ IsFiniteSet(PagesOf(s, S))
      /\ Cardinality(PagesOf(s, S)) <= MaxEntries * MaxPages
  BY <1>2, <1>4, FS_Subset
<1>6. Cardinality(PagesOf(s, S)) \in Nat
  BY <1>5, FS_CardinalityType
<1>7. MaxEntries * MaxPages \in Nat /\ MaxEntries * MaxPages < Word
  BY <1>1, CacheAssumption
<1>8. QED
  BY <1>1, <1>5, <1>6, <1>7

\* One entry more or less.
LEMMA OneEntryMore ==
    ASSUME NEW s \in Shards, NEW S \in SUBSET Entries, NEW i \in Entries, i \notin S
    PROVE  Cardinality(PagesOf(s, S \cup {i})) = Cardinality(PagesOf(s, S)) + s.entries[i].pages
<1> DEFINE P == PagesOf(s, S)
           n == s.entries[i].pages
           Q == {i} \X (1..n)
<1>1. n \in 0..MaxPages /\ n \in Nat
  <2>1. s.entries[i] \in EntryRec /\ MaxPages \in Nat
    BY ShardParts, CacheAssumption
  <2>2. QED
    BY <2>1 DEF EntryRec
<1>2. PagesOf(s, S \cup {i}) = P \cup Q
  BY DEF PagesOf
<1>3. P \cap Q = {}
  BY DEF PagesOf
<1>4. IsFiniteSet(P) /\ Cardinality(P) \in Nat
  BY PagesCounted
<1>5. IsFiniteSet(Q) /\ Cardinality(Q) = n
  <2> HIDE DEF n
  <2>1. IsFiniteSet(1..n) /\ Cardinality(1..n) = n
    <3>1. 1 \in Int /\ n \in Int
      BY <1>1
    <3>2. /\ IsFiniteSet(1..n) /\ Cardinality(1..n) = IF 1 > n THEN 0 ELSE n - 1 + 1
      BY ONLY <3>1, FS_Interval
    <3>3. QED
      BY <1>1, <3>2
  <2>2. IsFiniteSet({i}) /\ Cardinality({i}) = 1
    BY FS_Singleton
  <2>3. IsFiniteSet(Q) /\ Cardinality(Q) = 1 * n
    BY ONLY <2>1, <2>2, FS_Product
  <2>4. QED
    BY <2>3, <1>1
<1> HIDE DEF P, Q, n
<1>6. Cardinality(P \cup Q) = Cardinality(P) + Cardinality(Q) - Cardinality(P \cap Q)
  BY ONLY <1>4, <1>5, FS_Union
<1>7. Cardinality(P \cap Q) = 0
  BY <1>3, FS_EmptySet
<1>8. Cardinality(P \cup Q) = Cardinality(P) + n
  BY <1>1, <1>4, <1>5, <1>6, <1>7
<1>9. QED
  BY <1>2, <1>8 DEF P, n

\* The pages of entries depend on their sizes alone.
LEMMA SamePages ==
    ASSUME NEW s, NEW x, NEW S, \A i \in S : x.entries[i].pages = s.entries[i].pages
    PROVE  PagesOf(x, S) = PagesOf(s, S)
<1>1. \A i \in S : {i} \X (1..x.entries[i].pages) = {i} \X (1..s.entries[i].pages)
  OBVIOUS
<1>2. QED
  BY <1>1 DEF PagesOf

\* The counters stay exact when the lists and their entries' sizes do.
LEMMA ExactKept ==
    ASSUME NEW s, NEW x, Exact(s), x.list = s.list, x.bytes = s.bytes,
           \A i \in LinkedIn(s) : x.entries[i].pages = s.entries[i].pages
    PROVE  Exact(x)
<1>1. ASSUME NEW l \in Segments PROVE PagesOf(x, Range(s.list[l])) = PagesOf(s, Range(s.list[l]))
  <2>1. \A i \in Range(s.list[l]) : x.entries[i].pages = s.entries[i].pages
    BY DEF LinkedIn
  <2>2. QED
    BY <2>1, SamePages
<1>2. QED
  BY <1>1 DEF Exact

-----------------------------------------------------------------------------
(* The operations under the lock *)

\* The counter of the entry's list goes down by its size, up by it.
Lighter(s, x, i) ==
    LET l == s.entries[i].status IN
    /\ s.entries[i].pages \in Nat /\ s.bytes[l] - s.entries[i].pages \in Nat
    /\ x.bytes = [s.bytes EXCEPT ![l] = @ - s.entries[i].pages]
Heavier(s, x, i, l) ==
    /\ s.entries[i].pages \in Nat /\ s.bytes[l] \in Nat
    /\ x.bytes = [s.bytes EXCEPT ![l] = @ + s.entries[i].pages]

\* Taking an entry out of its list.
LEMMA UnlinkMoves ==
    ASSUME NEW s, NEW X, Good(s, X), NEW i \in LinkedIn(s), NEW x, x = unlink(s, i)
    PROVE  /\ Moves(s, X, x, X \cup {i}) /\ i \notin X
           /\ x.entries = s.entries /\ LinkedIn(x) = LinkedIn(s) \ {i}
           /\ Exact(s) => Lighter(s, x, i)
<1> DEFINE l == s.entries[i].status
           w == RemoveFirst(s.list[l], i)
           b == Sub(s.bytes[l], s.entries[i].pages)
<1>1. s \in Shards /\ EntriesGood(s) /\ ListsGood(s) /\ MapGood(s, X) /\ Detached(s, X)
  BY DEF Good
<1>2. /\ s.entries \in [Entries -> EntryRec] /\ s.list \in [Segments -> Seq(Entries)]
      /\ s.bytes \in [Segments -> 0..(Word - 1)] /\ s.map \in Maps
      /\ LinkedIn(s) \subseteq Entries
  BY <1>1, ShardParts
<1>3. i \in Entries /\ l \in Segments /\ i \in Range(s.list[l]) /\ ~s.entries[i].retired /\ s.entries[i] \in EntryRec
  BY <1>1, <1>2 DEF LinkedIn, ListsGood, EntryRec
<1>4. /\ x.entries = s.entries /\ x.map = s.map
      /\ x.list = [s.list EXCEPT ![l] = w] /\ x.bytes = [s.bytes EXCEPT ![l] = b]
      /\ x = [entries |-> s.entries, list |-> x.list, bytes |-> x.bytes, map |-> s.map]
  BY <1>1 DEF unlink, Shards
<1>5. w \in Seq(Entries) /\ IsInjective(w) /\ Range(w) = Range(s.list[l]) \ {i}
  <2>1. s.list[l] \in Seq(Entries) /\ IsInjective(s.list[l]) /\ i \in Range(s.list[l])
    BY <1>1, <1>2, <1>3 DEF ListsGood
  <2> HIDE DEF l
  <2>2. QED
    BY <2>1, RemoveFirstFacts
<1>6. b \in 0..(Word - 1)
  <2>1. s.bytes[l] \in Int /\ s.entries[i].pages \in Int /\ Word \in Nat \ {0}
    BY <1>2, <1>3, CacheAssumption DEF EntryRec
  <2> HIDE DEF l
  <2>2. QED
    BY <2>1 DEF Sub
<1> HIDE DEF w, b, l
<1>7. /\ x.list[l] = w /\ \A k \in Segments : k # l => x.list[k] = s.list[k]
      /\ x.list \in [Segments -> Seq(Entries)]
  BY <1>2, <1>3, <1>4, <1>5
<1>8. x \in Shards
  <2>1. x.bytes \in [Segments -> 0..(Word - 1)]
    BY <1>2, <1>4, <1>6
  <2>2. QED
    BY ONLY <1>2, <1>4, <1>7, <2>1 DEF Shards
<1>9. ListsGood(x)
  BY <1>1, <1>4, <1>5, <1>7 DEF ListsGood
<1>10. \A k \in Segments : Range(x.list[k]) = Range(s.list[k]) \ {i}
  <2> SUFFICES ASSUME NEW k \in Segments PROVE Range(x.list[k]) = Range(s.list[k]) \ {i}
    OBVIOUS
  <2>1. CASE k = l
    BY <2>1, <1>5, <1>7
  <2>2. CASE k # l
    <3>1. i \notin Range(s.list[k])
      BY <2>2, <1>1 DEF ListsGood, l
    <3>2. QED
      BY <3>1, <2>2, <1>7
  <2>3. QED
    BY <2>1, <2>2
<1>11. LinkedIn(x) = LinkedIn(s) \ {i}
  BY <1>10 DEF LinkedIn
<1>12. EntriesGood(x)
  BY <1>1, <1>4 DEF EntriesGood
<1>13. MapGood(x, X \cup {i}) /\ Detached(x, X \cup {i}) /\ i \notin X
  BY <1>1, <1>3, <1>4, <1>11 DEF MapGood, Detached
<1>14. Evolves(s, x, LinkedIn(s) \cup X, LinkedIn(x) \cup (X \cup {i}))
  BY <1>4, <1>11 DEF Evolves, Same
<1>15. NamesKept(s, x, LinkedIn(x) \cup (X \cup {i}))
  BY <1>4 DEF NamesKept
<1>16. ASSUME Exact(s)
       PROVE  Exact(x) /\ s.entries[i].pages \in Nat /\ s.bytes[l] - s.entries[i].pages \in Nat
              /\ b = s.bytes[l] - s.entries[i].pages
  <2> DEFINE v == Range(s.list[l])
             n == s.entries[i].pages
             C == Cardinality(PagesOf(s, v \ {i}))
  <2>1. v \subseteq Entries /\ v \ {i} \in SUBSET Entries /\ i \notin v \ {i} /\ (v \ {i}) \cup {i} = v
    BY <1>1, <1>3, ShardParts
  <2>2. Cardinality(PagesOf(s, v)) = C + n
    <3>1. Cardinality(PagesOf(s, (v \ {i}) \cup {i})) = C + n
      BY ONLY <1>1, <1>3, <2>1, OneEntryMore
    <3>2. QED
      BY ONLY <2>1, <3>1
  <2>3. C \in Nat /\ C < Word /\ n \in Nat /\ Word \in Nat
    <3>1. C \in Nat /\ C < Word
      BY ONLY <1>1, <2>1, PagesCounted
    <3>2. n \in Nat
      BY <1>3, CacheAssumption DEF EntryRec
    <3>3. QED
      BY <3>1, <3>2, CacheAssumption
  <2>4. s.bytes[l] = C + n
    BY <1>3, <1>16, <2>2 DEF Exact
  <2>5. b = C
    <3>1. b = (s.bytes[l] - n) % Word
      BY DEF b, Sub, l
    <3> HIDE DEF C, n
    <3>2. (s.bytes[l] - n) = C /\ C \in 0..(Word - 1)
      BY <2>3, <2>4
    <3>3. QED
      BY <2>3, <3>1, <3>2
  <2>6. x.bytes[l] = C /\ \A k \in Segments : k # l => x.bytes[k] = s.bytes[k]
    BY <1>2, <1>3, <1>4, <2>5
  <2>7. ASSUME NEW k \in Segments PROVE x.bytes[k] = Cardinality(PagesOf(x, Range(x.list[k])))
    <3>1. PagesOf(x, Range(x.list[k])) = PagesOf(s, Range(x.list[k]))
      BY <1>4 DEF PagesOf
    <3>2. CASE k = l
      BY <1>5, <1>7, <2>6, <3>1, <3>2
    <3>3. CASE k # l
      BY <1>7, <1>16, <2>6, <3>1, <3>3 DEF Exact
    <3>4. QED
      BY <3>2, <3>3
  <2>8. Exact(x)
    BY <2>7 DEF Exact
  <2>9. s.bytes[l] - n = C
    BY <2>3, <2>4
  <2>10. QED
    BY <2>3, <2>5, <2>8, <2>9
<1>17. Exact(s) => Lighter(s, x, i)
  BY <1>4, <1>16 DEF Lighter, l
<1>18. QED
  BY <1>4, <1>8, <1>9, <1>11, <1>12, <1>13, <1>14, <1>15, <1>16, <1>17 DEF Moves, Good

\* Putting one back, at the head of a list.
LEMMA PushMoves ==
    ASSUME NEW s, NEW X, Good(s, X), NEW i \in X, NEW l \in Segments, NEW x, x = push_mru(s, i, l)
    PROVE  /\ Moves(s, X, x, X \ {i}) /\ LinkedIn(x) = LinkedIn(s) \cup {i}
           /\ x.map = s.map /\ (Exact(s) => Heavier(s, x, i, l))
<1> DEFINE w == <<i>> \o s.list[l]
           b == Add(s.bytes[l], s.entries[i].pages)
           e == [s.entries[i] EXCEPT !.status = l]
<1>1. s \in Shards /\ EntriesGood(s) /\ ListsGood(s) /\ MapGood(s, X) /\ Detached(s, X)
  BY DEF Good
<1>2. /\ s.entries \in [Entries -> EntryRec] /\ s.list \in [Segments -> Seq(Entries)]
      /\ s.bytes \in [Segments -> 0..(Word - 1)] /\ s.map \in Maps
      /\ LinkedIn(s) \subseteq Entries
  BY <1>1, ShardParts
<1>3. i \in Entries /\ i \notin LinkedIn(s) /\ ~s.entries[i].retired /\ s.entries[i] \in EntryRec
  BY <1>1, <1>2 DEF Detached
<1>4. /\ x.entries = [s.entries EXCEPT ![i] = e] /\ x.map = s.map
      /\ x.list = [s.list EXCEPT ![l] = w] /\ x.bytes = [s.bytes EXCEPT ![l] = b]
      /\ x = [entries |-> x.entries, list |-> x.list, bytes |-> x.bytes, map |-> s.map]
  BY <1>1 DEF push_mru, Shards
<1>5. w \in Seq(Entries) /\ IsInjective(w) /\ Range(w) = Range(s.list[l]) \cup {i}
  <2> DEFINE v == s.list[l]
  <2>1. v \in Seq(Entries) /\ IsInjective(v) /\ i \notin Range(v) /\ i \in Entries
    BY <1>1, <1>2, <1>3 DEF ListsGood, LinkedIn
  <2>2. v \in Seq(Entries) /\ i \in Entries /\ w = <<i>> \o v
    BY <2>1
  <2> HIDE DEF v, w
  <2>3. w \in Seq(Entries)
    BY ONLY <2>2, Prepend
  <2>4. Range(w) = {i} \cup Range(v)
    BY ONLY <2>2, PrependRange
  <2>5. IsInjective(w)
    BY ONLY <2>1, <2>2, Prepend
  <2>6. QED
    BY <2>3, <2>4, <2>5 DEF v
<1>6. b \in 0..(Word - 1)
  <2>1. s.bytes[l] \in Int /\ s.entries[i].pages \in Int /\ Word \in Nat \ {0}
    BY <1>2, <1>3, CacheAssumption DEF EntryRec
  <2>2. QED
    BY <2>1 DEF Add
<1>7. /\ e \in EntryRec /\ e.status = l /\ Same(s.entries[i], e)
  BY <1>3 DEF EntryRec, Same
<1> HIDE DEF w, b, e
<1>8. /\ x.list[l] = w /\ \A k \in Segments : k # l => x.list[k] = s.list[k]
      /\ x.list \in [Segments -> Seq(Entries)]
      /\ x.entries \in [Entries -> EntryRec] /\ x.entries[i] = e
      /\ \A j \in Entries : j # i => x.entries[j] = s.entries[j]
  BY <1>2, <1>3, <1>4, <1>5, <1>7
<1>9. x \in Shards
  <2>1. x.bytes \in [Segments -> 0..(Word - 1)]
    BY <1>2, <1>4, <1>6
  <2>2. QED
    BY <2>1, <1>2, <1>4, <1>8 DEF Shards
<1>10. \A j \in Entries : Same(s.entries[j], x.entries[j])
  BY <1>7, <1>8 DEF Same
<1>11. ListsGood(x)
  <2> SUFFICES ASSUME NEW k \in Segments
               PROVE  /\ IsInjective(x.list[k])
                      /\ \A j \in Range(x.list[k]) : x.entries[j].status = k /\ ~x.entries[j].retired
    BY DEF ListsGood
  <2>1. \A j \in Range(s.list[k]) : j \in Entries /\ j # i /\ s.entries[j].status = k /\ ~s.entries[j].retired
    BY <1>1, <1>2, <1>3 DEF ListsGood, LinkedIn
  <2>2. CASE k = l
    BY <2>1, <2>2, <1>3, <1>5, <1>7, <1>8 DEF Same
  <2>3. CASE k # l
    BY <2>1, <2>3, <1>1, <1>8 DEF ListsGood
  <2>4. QED
    BY <2>2, <2>3
<1>12. LinkedIn(x) = LinkedIn(s) \cup {i}
  <2>1. Range(x.list[l]) = Range(s.list[l]) \cup {i} /\ \A k \in Segments : k # l => Range(x.list[k]) = Range(s.list[k])
    BY <1>5, <1>8
  <2>2. QED
    BY <2>1 DEF LinkedIn
<1>13. EntriesGood(x)
  BY <1>1, <1>10 DEF EntriesGood, Same
<1>14. MapGood(x, X \ {i})
  <2> SUFFICES ASSUME NEW p \in DOMAIN s.map
               PROVE  s.map[p] \in LinkedIn(x) \cup (X \ {i}) /\ p \in x.entries[s.map[p]].keys
    BY <1>4 DEF MapGood
  <2>1. s.map[p] \in LinkedIn(s) \cup X /\ p \in s.entries[s.map[p]].keys /\ s.map[p] \in Entries
    BY <1>1, <1>2 DEF MapGood, Detached
  <2>2. QED
    BY <2>1, <1>10, <1>12 DEF Same
<1>15. Detached(x, X \ {i})
  BY <1>1, <1>10, <1>12 DEF Detached, Same
<1>16. Evolves(s, x, LinkedIn(s) \cup X, LinkedIn(x) \cup (X \ {i}))
  BY <1>1, <1>2, <1>8, <1>10, <1>12 DEF Evolves, Detached
<1>17. NamesKept(s, x, LinkedIn(x) \cup (X \ {i}))
  BY <1>4 DEF NamesKept
<1>18. ASSUME Exact(s)
       PROVE  Exact(x) /\ s.entries[i].pages \in Nat /\ s.bytes[l] \in Nat
              /\ b = s.bytes[l] + s.entries[i].pages
  <2> DEFINE v == Range(s.list[l])
             n == s.entries[i].pages
             C == Cardinality(PagesOf(s, v))
  <2>1. v \in SUBSET Entries /\ i \notin v /\ v \cup {i} \in SUBSET Entries
    BY <1>1, <1>3, ShardParts DEF LinkedIn
  <2>2. Cardinality(PagesOf(s, v \cup {i})) = C + n
    BY ONLY <1>1, <1>3, <2>1, OneEntryMore
  <2>3. C \in Nat /\ n \in Nat /\ Word \in Nat /\ C + n < Word
    <3>1. C \in Nat /\ Cardinality(PagesOf(s, v \cup {i})) < Word
      BY ONLY <1>1, <2>1, PagesCounted
    <3>2. n \in Nat
      BY <1>3, CacheAssumption DEF EntryRec
    <3>3. QED
      BY <2>2, <3>1, <3>2, CacheAssumption
  <2>4. s.bytes[l] = C
    BY <1>18 DEF Exact
  <2>5. b = C + n
    <3>1. b = (s.bytes[l] + n) % Word
      BY DEF b, Add
    <3>2. QED
      BY <2>3, <2>4, <3>1
  <2>6. x.bytes[l] = C + n /\ \A k \in Segments : k # l => x.bytes[k] = s.bytes[k]
    BY <1>2, <1>4, <2>5
  <2>7. ASSUME NEW k \in Segments PROVE x.bytes[k] = Cardinality(PagesOf(x, Range(x.list[k])))
    <3>1. PagesOf(x, Range(x.list[k])) = PagesOf(s, Range(x.list[k]))
      <4>1. Range(x.list[k]) \subseteq Entries
        BY <1>9, ShardParts
      <4>2. \A j \in Range(x.list[k]) : x.entries[j].pages = s.entries[j].pages
        BY <4>1, <1>10 DEF Same
      <4>3. QED
        BY <4>2, SamePages
    <3>2. CASE k = l
      BY <1>5, <1>8, <2>2, <2>6, <3>1, <3>2
    <3>3. CASE k # l
      BY <1>8, <1>18, <2>6, <3>1, <3>3 DEF Exact
    <3>4. QED
      BY <3>2, <3>3
  <2>8. Exact(x)
    BY <2>7 DEF Exact
  <2>9. QED
    BY <2>3, <2>4, <2>5, <2>8
<1>19. Exact(s) => Heavier(s, x, i, l)
  BY <1>4, <1>18 DEF Heavier
<1>20. QED
  BY <1>4, <1>9, <1>11, <1>12, <1>13, <1>14, <1>15, <1>16, <1>17, <1>18, <1>19 DEF Moves, Good

\* Taking an entry out of the map: all the keys that name it are its own.
LEMMA EraseKeepsGood ==
    ASSUME NEW s, NEW X, Good(s, X), NEW i \in X, NEW x, x = erase_keys(s, i)
    PROVE  /\ Good(x, X) /\ x.entries = s.entries /\ x.list = s.list /\ x.bytes = s.bytes
           /\ \A p \in DOMAIN x.map : x.map[p] # i
           /\ NamesKept(s, x, Entries \ {i})
<1> DEFINE kept == {p \in DOMAIN s.map : ~(p \in s.entries[i].keys /\ s.map[p] = i)}
<1>1. s \in Shards /\ EntriesGood(s) /\ ListsGood(s) /\ MapGood(s, X) /\ Detached(s, X)
  BY DEF Good
<1>2. /\ x.entries = s.entries /\ x.list = s.list /\ x.bytes = s.bytes
      /\ x.map = [p \in kept |-> s.map[p]]
      /\ x = [entries |-> s.entries, list |-> s.list, bytes |-> s.bytes, map |-> x.map]
  BY <1>1 DEF erase_keys, Shards
<1>3. DOMAIN x.map = kept /\ \A p \in kept : x.map[p] = s.map[p] /\ s.map[p] # i
  BY <1>1, <1>2 DEF MapGood
<1>4. x.map \in Maps
  <2>1. DOMAIN s.map \subseteq Pages /\ \A p \in DOMAIN s.map : s.map[p] \in Entries
    BY <1>1, ShardParts
  <2>2. x.map \in [kept -> Entries] /\ kept \in SUBSET Pages
    BY <1>2, <2>1
  <2> HIDE DEF kept
  <2>3. QED
    BY <2>2 DEF Maps
<1>5. x \in Shards
  BY <1>1, <1>2, <1>4 DEF Shards
<1>6. LinkedIn(x) = LinkedIn(s)
  BY <1>2 DEF LinkedIn
<1>7. EntriesGood(x) /\ ListsGood(x) /\ Detached(x, X)
  BY <1>1, <1>2, <1>6 DEF EntriesGood, ListsGood, Detached
<1>8. MapGood(x, X)
  BY <1>1, <1>2, <1>3, <1>6 DEF MapGood
<1>9. NamesKept(s, x, Entries \ {i})
  BY <1>3 DEF NamesKept
<1>10. QED
  BY <1>2, <1>3, <1>5, <1>6, <1>7, <1>8, <1>9 DEF Good

\* Retiring an entry that no list and no key names.
LEMMA DropMoves ==
    ASSUME NEW s, NEW X, Good(s, X), NEW i \in X, NEW x, x = drop_entry(s, i),
           \A p \in DOMAIN s.map : s.map[p] # i
    PROVE  /\ Moves(s, X, x, X \ {i}) /\ LinkedIn(x) = LinkedIn(s) /\ x.map = s.map
           /\ x.bytes = s.bytes
<1> DEFINE r == [s.entries[i] EXCEPT !.retired = TRUE]
           f == IF s.entries[i].refs = 0 THEN Freed ELSE r
<1>1. s \in Shards /\ EntriesGood(s) /\ ListsGood(s) /\ MapGood(s, X) /\ Detached(s, X)
  BY DEF Good
<1>2. s.entries \in [Entries -> EntryRec] /\ LinkedIn(s) \subseteq Entries
  BY <1>1, ShardParts
<1>3. /\ i \in Entries /\ i \notin LinkedIn(s) /\ s.entries[i] \in EntryRec
      /\ ~s.entries[i].retired /\ ~s.entries[i].deleted /\ s.entries[i].freed = 0
  BY <1>1, <1>2 DEF Detached, EntriesGood
<1>4. /\ x.entries = [s.entries EXCEPT ![i] = f] /\ x.list = s.list /\ x.bytes = s.bytes /\ x.map = s.map
      /\ x = [entries |-> x.entries, list |-> s.list, bytes |-> s.bytes, map |-> s.map]
  <2>0. PICK y : y = [s EXCEPT !.entries[i].retired = TRUE]
    OBVIOUS
  <2>1. /\ y = [entries |-> [s.entries EXCEPT ![i] = r], list |-> s.list, bytes |-> s.bytes, map |-> s.map]
        /\ y.entries[i] = r /\ r.freed = 0
    <3>2. r.freed = 0
      BY <1>3 DEF EntryRec
    <3>3. y = [entries |-> [s.entries EXCEPT ![i] = r], list |-> s.list, bytes |-> s.bytes, map |-> s.map]
      BY <2>0, <1>1 DEF Shards
    <3>4. [s.entries EXCEPT ![i] = r][i] = r
      BY <1>2, <1>3
    <3>5. QED
      BY <3>2, <3>3, <3>4
  <2>2. CASE s.entries[i].refs = 0
    <3>1. x = [y EXCEPT !.entries[i] = [Freed EXCEPT !.freed = 1 + y.entries[i].freed]]
      BY <2>0, <2>2, <1>3 DEF drop_entry, Delete
    <3>2. [Freed EXCEPT !.freed = 1 + y.entries[i].freed] = Freed
      <4>1. 1 + y.entries[i].freed = 1
        BY <2>1
      <4>2. QED
        BY <4>1 DEF Freed
    <3>3. x = [y EXCEPT !.entries[i] = Freed]
      BY <3>1, <3>2
    <3> HIDE DEF r
    <3>4. x = [entries |-> [s.entries EXCEPT ![i] = Freed], list |-> s.list, bytes |-> s.bytes, map |-> s.map]
      BY <3>3, <2>1, <1>2, <1>3
    <3>5. QED
      BY <3>4, <2>2
  <2>3. CASE s.entries[i].refs # 0
    <3>1. x = y
      BY <2>0, <2>3 DEF drop_entry
    <3>2. QED
      BY <3>1, <2>1, <2>3
  <2>4. QED
    BY <2>2, <2>3
<1>5. f \in EntryRec /\ Dropped(s.entries[i], f)
  <2>1. r \in EntryRec
    BY <1>3 DEF EntryRec
  <2>2. Freed \in EntryRec
    BY CacheAssumption DEF Freed, EntryRec, Segments
  <2>3. s.entries[i].refs # 0 => Dropped(s.entries[i], r)
    BY <1>3 DEF EntryRec, Dropped
  <2>4. s.entries[i].refs = 0 => Dropped(s.entries[i], Freed)
    BY DEF Dropped
  <2>5. QED
    BY <2>1, <2>2, <2>3, <2>4
<1>6. f.retired /\ \A p \in f.keys : f.page <= p
  BY <1>1, <1>3 DEF EntriesGood, Freed, EntryRec
<1> HIDE DEF f, r
<1>7. /\ x.entries \in [Entries -> EntryRec] /\ x.entries[i] = f
      /\ \A j \in Entries : j # i => x.entries[j] = s.entries[j]
  BY <1>2, <1>3, <1>4, <1>5
<1>8. x \in Shards
  BY <1>1, <1>4, <1>7 DEF Shards
<1>9. LinkedIn(x) = LinkedIn(s)
  BY <1>4 DEF LinkedIn
<1>10. EntriesGood(x)
  BY <1>1, <1>6, <1>7 DEF EntriesGood
<1>11. ListsGood(x)
  BY <1>1, <1>2, <1>3, <1>4, <1>7 DEF ListsGood, LinkedIn
<1>12. MapGood(x, X \ {i}) /\ Detached(x, X \ {i})
  BY <1>1, <1>2, <1>4, <1>7, <1>9 DEF MapGood, Detached
<1>13. Evolves(s, x, LinkedIn(s) \cup X, LinkedIn(x) \cup (X \ {i}))
  BY <1>1, <1>2, <1>3, <1>5, <1>7, <1>9 DEF Evolves, Same, Detached
<1>14. NamesKept(s, x, LinkedIn(x) \cup (X \ {i}))
  BY <1>4 DEF NamesKept
<1>15. Exact(s) => Exact(x)
  BY <1>2, <1>3, <1>4, <1>7, ExactKept
<1>16. QED
  BY <1>4, <1>8, <1>9, <1>10, <1>11, <1>12, <1>13, <1>14, <1>15 DEF Moves, Good

\* Linked entries and those in hand are entries.
LEMMA OwnedTyped ==
    ASSUME NEW s, NEW X, Good(s, X)
    PROVE  LinkedIn(s) \cup X \subseteq Entries
BY ShardParts DEF Good, Detached

\* Forgetting an entry that is under way between lists.
LEMMA ForgetMoves ==
    ASSUME NEW s, NEW X, Good(s, X), NEW i \in X, NEW x, x = drop_entry(erase_keys(s, i), i)
    PROVE  Moves(s, X, x, X \ {i}) /\ LinkedIn(x) = LinkedIn(s) /\ x.bytes = s.bytes
<1>1. PICK e : e = erase_keys(s, i)
  OBVIOUS
<1>2. /\ Good(e, X) /\ e.entries = s.entries /\ e.list = s.list /\ e.bytes = s.bytes
      /\ (\A p \in DOMAIN e.map : e.map[p] # i) /\ NamesKept(s, e, Entries \ {i})
  BY <1>1, EraseKeepsGood
<1>3. LinkedIn(e) = LinkedIn(s) /\ (Exact(s) => Exact(e))
  BY <1>2, ExactKept DEF LinkedIn
<1>4. Moves(e, X, x, X \ {i}) /\ LinkedIn(x) = LinkedIn(e) /\ x.map = e.map /\ x.bytes = e.bytes
  <2>1. x = drop_entry(e, i)
    BY <1>1
  <2>2. QED
    BY ONLY <1>2, <2>1, i \in X, DropMoves
<1>5. Evolves(s, x, LinkedIn(s) \cup X, LinkedIn(x) \cup (X \ {i}))
  BY <1>2, <1>3, <1>4 DEF Moves, Evolves
<1>6. NamesKept(s, x, LinkedIn(x) \cup (X \ {i}))
  <2>1. LinkedIn(x) \cup (X \ {i}) \subseteq Entries \ {i}
    <3>1. i \notin LinkedIn(s) /\ LinkedIn(s) \cup X \subseteq Entries
      BY OwnedTyped DEF Good, Detached
    <3>2. QED
      BY <1>3, <1>4, <3>1
  <2>2. QED
    BY <1>2, <1>4, <2>1 DEF NamesKept
<1>7. QED
  BY <1>2, <1>3, <1>4, <1>5, <1>6 DEF Moves

\* Evicting an entry from its list.
LEMMA EvictMoves ==
    ASSUME NEW s, NEW X, Good(s, X), NEW i \in LinkedIn(s), NEW x, x = Evict(s, i)
    PROVE  Moves(s, X, x, X) /\ LinkedIn(x) = LinkedIn(s) \ {i}
<1>1. PICK u : u = unlink(s, i)
  OBVIOUS
<1>2. Moves(s, X, u, X \cup {i}) /\ i \notin X /\ LinkedIn(u) = LinkedIn(s) \ {i}
  BY <1>1, UnlinkMoves
<1>3. Good(u, X \cup {i}) /\ i \in X \cup {i} /\ x = drop_entry(erase_keys(u, i), i)
  BY <1>1, <1>2 DEF Moves, Evict
<1>4. Moves(u, X \cup {i}, x, (X \cup {i}) \ {i}) /\ LinkedIn(x) = LinkedIn(u)
  BY <1>3, ForgetMoves
<1>5. (X \cup {i}) \ {i} = X
  BY <1>2
<1>6. LinkedIn(s) \cup X \subseteq Entries
  BY OwnedTyped
<1>7. QED
  BY <1>2, <1>4, <1>5, <1>6, MovesTransitive

\* Moving an entry to the head of a list.
LEMMA RelinkMoves ==
    ASSUME NEW s, NEW X, Good(s, X), NEW i \in LinkedIn(s), NEW l \in Segments,
           NEW x, x = push_mru(unlink(s, i), i, l)
    PROVE  Moves(s, X, x, X) /\ LinkedIn(x) = LinkedIn(s)
<1>1. PICK u : u = unlink(s, i)
  OBVIOUS
<1>2. Moves(s, X, u, X \cup {i}) /\ i \notin X /\ LinkedIn(u) = LinkedIn(s) \ {i}
  BY <1>1, UnlinkMoves
<1>3. Good(u, X \cup {i}) /\ i \in X \cup {i} /\ x = push_mru(u, i, l)
  BY <1>1, <1>2 DEF Moves
<1>4. Moves(u, X \cup {i}, x, (X \cup {i}) \ {i}) /\ LinkedIn(x) = LinkedIn(u) \cup {i}
  <2>1. PICK Y : Y = X \cup {i}
    OBVIOUS
  <2>2. Moves(u, Y, x, Y \ {i}) /\ LinkedIn(x) = LinkedIn(u) \cup {i}
    BY ONLY <1>3, <2>1, l \in Segments, PushMoves
  <2>3. QED
    BY ONLY <2>1, <2>2
<1>5. (X \cup {i}) \ {i} = X
  BY <1>2
<1>6. LinkedIn(s) \cup X \subseteq Entries
  BY OwnedTyped
<1>7. QED
  BY <1>2, <1>4, <1>5, <1>6, MovesTransitive

\* The bytes of main, when an entry leaves a list.
LEMMA MainLighter ==
    ASSUME NEW s, NEW X, Good(s, X), NEW i \in LinkedIn(s), NEW x, Lighter(s, x, i)
    PROVE  /\ Main(s) \in Nat /\ Main(x) \in Nat /\ s.entries[i].pages \in Nat
           /\ s.entries[i].status = "window" => Main(x) = Main(s)
           /\ s.entries[i].status # "window" => Main(x) = Main(s) - s.entries[i].pages
<1>1. s.bytes \in [Segments -> Nat] /\ s.entries[i].status \in Segments
  <2>1. s \in Shards /\ i \in Entries /\ Word \in Nat
    BY ShardParts, CacheAssumption DEF Good
  <2>2. s.bytes \in [Segments -> 0..(Word - 1)] /\ s.entries[i] \in EntryRec
    BY <2>1, ShardParts
  <2>3. QED
    BY <2>1, <2>2 DEF EntryRec
<1>2. PICK l \in Segments : l = s.entries[i].status
  BY <1>1
<1>3. PICK n \in Nat : n = s.entries[i].pages
  BY DEF Lighter
<1>4. s.bytes[l] - n \in Nat /\ x.bytes = [s.bytes EXCEPT ![l] = s.bytes[l] - n]
  BY <1>2, <1>3 DEF Lighter
<1>5. Segments = {"window", "probation", "protected"}
  BY DEF Segments
<1>6. /\ x.bytes[l] = s.bytes[l] - n /\ \A k \in Segments : k # l => x.bytes[k] = s.bytes[k]
      /\ \A k \in Segments : s.bytes[k] \in Nat
  BY <1>1, <1>4
<1>7. Main(s) \in Nat
  BY <1>5, <1>6 DEF Main
<1>8. CASE l = "window"
  BY <1>2, <1>3, <1>5, <1>6, <1>7, <1>8 DEF Main
<1>9. CASE l = "probation"
  BY <1>2, <1>3, <1>4, <1>5, <1>6, <1>7, <1>9 DEF Main
<1>10. CASE l = "protected"
  BY <1>2, <1>3, <1>4, <1>5, <1>6, <1>7, <1>10 DEF Main
<1>11. QED
  BY <1>5, <1>8, <1>9, <1>10

\* The bytes of main, when an entry enters a list.
LEMMA MainHeavier ==
    ASSUME NEW s, NEW X, Good(s, X), NEW i \in X, NEW l \in Segments, NEW x, Heavier(s, x, i, l)
    PROVE  /\ Main(s) \in Nat /\ Main(x) \in Nat /\ s.entries[i].pages \in Nat
           /\ l = "window" => Main(x) = Main(s)
           /\ l # "window" => Main(x) = Main(s) + s.entries[i].pages
<1>1. s.bytes \in [Segments -> Nat]
  <2>1. s \in Shards /\ Word \in Nat
    BY CacheAssumption DEF Good
  <2>2. s.bytes \in [Segments -> 0..(Word - 1)]
    BY <2>1, ShardParts
  <2>3. QED
    BY <2>1, <2>2
<1>2. PICK n \in Nat : n = s.entries[i].pages
  BY DEF Heavier
<1>3. x.bytes = [s.bytes EXCEPT ![l] = s.bytes[l] + n]
  BY <1>2 DEF Heavier
<1>4. Segments = {"window", "probation", "protected"}
  BY DEF Segments
<1>5. /\ x.bytes[l] = s.bytes[l] + n /\ \A k \in Segments : k # l => x.bytes[k] = s.bytes[k]
      /\ \A k \in Segments : s.bytes[k] \in Nat
  BY <1>1, <1>3
<1>6. Main(s) \in Nat
  BY <1>4, <1>5 DEF Main
<1>7. CASE l = "window"
  BY <1>2, <1>4, <1>5, <1>6, <1>7 DEF Main
<1>8. CASE l = "probation"
  BY <1>2, <1>4, <1>5, <1>6, <1>8 DEF Main
<1>9. CASE l = "protected"
  BY <1>2, <1>4, <1>5, <1>6, <1>9 DEF Main
<1>10. QED
  BY <1>4, <1>7, <1>8, <1>9

\* What an eviction takes from main.
LEMMA MainEvict ==
    ASSUME NEW s, NEW X, Good(s, X), Exact(s), NEW i \in LinkedIn(s), NEW x, x = Evict(s, i)
    PROVE  /\ Main(s) \in Nat /\ Main(x) \in Nat /\ s.entries[i].pages \in Nat
           /\ s.entries[i].status = "window" => Main(x) = Main(s)
           /\ s.entries[i].status # "window" => Main(x) = Main(s) - s.entries[i].pages
<1>1. PICK u : u = unlink(s, i)
  OBVIOUS
<1>2. Moves(s, X, u, X \cup {i}) /\ Lighter(s, u, i)
  BY <1>1, UnlinkMoves
<1>3. Good(u, X \cup {i}) /\ i \in X \cup {i} /\ x = drop_entry(erase_keys(u, i), i)
  BY <1>1, <1>2 DEF Moves, Evict
<1>4. x.bytes = u.bytes
  <2>1. PICK Y : Y = X \cup {i}
    OBVIOUS
  <2>2. Good(u, Y) /\ i \in Y
    BY <1>3, <2>1
  <2>3. QED
    BY ONLY <1>3, <2>2, ForgetMoves
<1>5. Main(x) = Main(u)
  BY <1>4 DEF Main
<1>6. QED
  BY <1>2, <1>5, MainLighter

\* Within main, and within the window, an entry moves at no cost.
LEMMA MainRelink ==
    ASSUME NEW s, NEW X, Good(s, X), Exact(s), NEW i \in LinkedIn(s), NEW l \in Segments,
           (l = "window") <=> (s.entries[i].status = "window"),
           NEW x, x = push_mru(unlink(s, i), i, l)
    PROVE  Main(x) = Main(s) /\ Main(s) \in Nat
<1>1. PICK u : u = unlink(s, i)
  OBVIOUS
<1>2. Moves(s, X, u, X \cup {i}) /\ Lighter(s, u, i) /\ u.entries = s.entries
  BY <1>1, UnlinkMoves
<1>3. PICK Y : Y = X \cup {i}
  OBVIOUS
<1>4. Good(u, Y) /\ i \in Y /\ Exact(u) /\ x = push_mru(u, i, l)
  BY <1>1, <1>2, <1>3 DEF Moves
<1>5. Heavier(u, x, i, l)
  BY ONLY <1>4, l \in Segments, PushMoves
<1>6. /\ Main(s) \in Nat /\ Main(u) \in Nat /\ s.entries[i].pages \in Nat
      /\ s.entries[i].status = "window" => Main(u) = Main(s)
      /\ s.entries[i].status # "window" => Main(u) = Main(s) - s.entries[i].pages
  BY <1>2, MainLighter
<1>7. /\ l = "window" => Main(x) = Main(u)
      /\ l # "window" => Main(x) = Main(u) + s.entries[i].pages
  BY ONLY <1>2, <1>4, <1>5, l \in Segments, MainHeavier
<1>8. QED
  BY <1>6, <1>7

\* The victim of a list is one of its entries.
LEMMA LruLinked ==
    ASSUME NEW s \in Shards, NEW l \in Segments, Unpinned(s, l) # {}
    PROVE  Lru(s, l) \in Range(s.list[l]) /\ Lru(s, l) \in LinkedIn(s)
<1> DEFINE U == Unpinned(s, l)
<1>1. s.list[l] \in Seq(Entries)
  BY ShardParts
<1>2. Len(s.list[l]) \in Nat /\ DOMAIN s.list[l] = 1..Len(s.list[l])
  BY ONLY <1>1, LenProperties
<1>3. U \subseteq 0..Len(s.list[l]) /\ U \subseteq DOMAIN s.list[l]
  BY <1>2 DEF Unpinned
<1>4. Max(U) \in U
  <2> HIDE DEF U
  <2>1. QED
    BY <1>2, <1>3, MaxFacts DEF U
<1>5. QED
  BY <1>3, <1>4 DEF Lru, Range, LinkedIn

\* Main's counters are numbers.
LEMMA MainNat ==
    ASSUME NEW s, NEW X, Good(s, X)
    PROVE  Main(s) \in Nat
<1>1. s \in Shards /\ Word \in Nat
  BY CacheAssumption DEF Good
<1>2. s.bytes \in [Segments -> 0..(Word - 1)] /\ {"probation", "protected"} \subseteq Segments
  BY <1>1, ShardParts DEF Segments
<1>3. s.bytes["probation"] \in Nat /\ s.bytes["protected"] \in Nat
  BY <1>1, <1>2
<1>4. QED
  BY <1>3 DEF Main

\* Main gets no larger.
Slack(s, x) == Exact(s) => Main(x) <= Main(s)

\* A demotion from protected is a move that leaves main as it was.
LEMMA DemoteMoves ==
    ASSUME NEW s, Good(s, {})
    PROVE  Moves(s, {}, Demote(s), {}) /\ Slack(s, Demote(s))
<1>0. Main(s) \in Nat
  BY MainNat
<1>1. CASE ~(s.bytes["protected"] > MaxProtected /\ s.list["protected"] # <<>>)
  <2>1. Demote(s) = s
    BY <1>1 DEF Demote
  <2>2. QED
    BY <1>0, <2>1, MovesReflexive DEF Slack
<1>2. CASE s.bytes["protected"] > MaxProtected /\ s.list["protected"] # <<>>
  <2> DEFINE d == Last(s.list["protected"])
  <2>1. s.list["protected"] \in Seq(Entries) /\ "protected" \in Segments /\ "probation" \in Segments
    BY ShardParts DEF Good, Segments
  <2>2. d \in Range(s.list["protected"])
    <3>1. Len(s.list["protected"]) \in DOMAIN s.list["protected"]
      BY <1>2, <2>1
    <3>2. QED
      BY <3>1 DEF Last, Range
  <2>3. d \in LinkedIn(s)
    BY <2>1, <2>2 DEF LinkedIn
  <2>4. Demote(s) = push_mru(unlink(s, d), d, "probation")
    BY <1>2 DEF Demote
  <2>5. s.entries[d].status = "protected"
    BY <2>1, <2>2 DEF Good, ListsGood
  <2> HIDE DEF d
  <2>6. Exact(s) => Main(Demote(s)) = Main(s)
    BY <2>1, <2>3, <2>4, <2>5, MainRelink
  <2>7. Moves(s, {}, Demote(s), {})
    BY <2>1, <2>3, <2>4, RelinkMoves
  <2>8. QED
    BY <1>0, <2>6, <2>7 DEF Slack
<1>3. QED
  BY <1>1, <1>2

\* An eviction from probation is a move.
LEMMA EvictProbationMoves ==
    ASSUME NEW s, Good(s, {})
    PROVE  Moves(s, {}, EvictProbation(s), {}) /\ Slack(s, EvictProbation(s))
<1> DEFINE go == Main(s) > MaxMain /\ s.bytes["probation"] > 0 /\ Unpinned(s, "probation") # {}
<1>0. Main(s) \in Nat
  BY MainNat
<1>1. CASE ~go
  BY <1>0, <1>1, MovesReflexive DEF EvictProbation, Slack
<1>2. CASE go
  <2>1. Lru(s, "probation") \in LinkedIn(s)
    BY <1>2, LruLinked DEF Good, Segments
  <2>2. EvictProbation(s) = Evict(s, Lru(s, "probation"))
    BY <1>2 DEF EvictProbation
  <2>3. Exact(s) => Main(EvictProbation(s)) <= Main(s)
    <3>1. PICK c \in LinkedIn(s) : c = Lru(s, "probation")
      BY <2>1
    <3>2. SUFFICES ASSUME Exact(s) PROVE Main(EvictProbation(s)) <= Main(s)
      OBVIOUS
    <3>3. /\ Main(EvictProbation(s)) \in Nat /\ s.entries[c].pages \in Nat
          /\ \/ Main(EvictProbation(s)) = Main(s)
             \/ Main(EvictProbation(s)) = Main(s) - s.entries[c].pages
      BY <2>2, <3>1, <3>2, MainEvict
    <3>4. QED
      BY <1>0, <3>3
  <2>4. QED
    BY <2>1, <2>2, <2>3, EvictMoves DEF Slack
<1>3. QED
  BY <1>1, <1>2

\* Dropping an entry the map names is a move.
LEMMA DropNamedMoves ==
    ASSUME NEW s, Good(s, {})
    PROVE  /\ Moves(s, {}, DropNamed(s), {})
           /\ DOMAIN s.map # {} => \E i \in LinkedIn(s) : LinkedIn(DropNamed(s)) = LinkedIn(s) \ {i}
<1>1. CASE DOMAIN s.map = {}
  BY <1>1, MovesReflexive DEF DropNamed
<1>2. CASE DOMAIN s.map # {}
  <2> DEFINE R == Range(s.map)
  <2>1. R \subseteq LinkedIn(s) /\ R # {} /\ LinkedIn(s) \subseteq Nat
    <3>1. R \subseteq LinkedIn(s)
      BY DEF Good, MapGood, Range
    <3>2. R # {}
      BY <1>2 DEF Range
    <3>3. LinkedIn(s) \subseteq Entries /\ Entries \subseteq Nat
      BY ShardParts DEF Good, Entries
    <3>4. QED
      BY <3>1, <3>2, <3>3
  <2>2. DropNamed(s) = Evict(s, Min(R))
    BY <1>2 DEF DropNamed
  <2> HIDE DEF R
  <2>3. Min(R) \in LinkedIn(s)
    BY <2>1, MinFacts
  <2>4. QED
    BY <2>2, <2>3, EvictMoves
<1>3. QED
  BY <1>1, <1>2

\* Entries of one size, of which main has no more than it may.
Snug(s) ==
    /\ Exact(s) /\ Main(s) <= MaxMain
    /\ \A i, j \in LinkedIn(s) : s.entries[i].pages = s.entries[j].pages

\* A move keeps the entries of one size.
LEMMA SnugKept ==
    ASSUME NEW s, Snug(s), NEW x, Moves(s, {}, x, {}), Main(x) <= MaxMain
    PROVE  Snug(x)
<1>1. LinkedIn(x) \subseteq LinkedIn(s) /\ \A i \in LinkedIn(x) : x.entries[i].pages = s.entries[i].pages
  BY DEF Moves, Evolves, Same
<1>2. QED
  BY <1>1 DEF Snug, Moves

\* Every linked entry is in the map: the invalidation finds it.
Named(s) == \A i \in LinkedIn(s) : \E p \in DOMAIN s.map : s.map[p] = i

\* Moves forget the names of no entry that stays.
LEMMA NamedKept ==
    ASSUME NEW s, Named(s), NEW x, Moves(s, {}, x, {})
    PROVE  Named(x)
<1>1. LinkedIn(x) \subseteq LinkedIn(s) /\ NamesKept(s, x, LinkedIn(x))
  BY DEF Moves, Evolves
<1>2. QED
  BY <1>1 DEF Named, NamesKept

\* At most k entries are linked.
Few(s, k) == LinkedIn(s) = {} \/ Cardinality(LinkedIn(s)) <= k

\* Each round of an invalidation leaves one entry less.
LEMMA OneFewer ==
    ASSUME NEW s, Good(s, {}), Named(s), NEW k \in Nat, Few(s, k + 1)
    PROVE  Few(DropNamed(s), k)
<1>1. CASE LinkedIn(s) = {}
  <2>1. DOMAIN s.map = {}
    BY <1>1 DEF Good, MapGood
  <2>2. QED
    BY <1>1, <2>1 DEF DropNamed, Few
<1>2. CASE LinkedIn(s) # {}
  <2>1. DOMAIN s.map # {}
    BY <1>2 DEF Named
  <2>2. PICK i \in LinkedIn(s) : LinkedIn(DropNamed(s)) = LinkedIn(s) \ {i}
    BY <2>1, DropNamedMoves
  <2>3. IsFiniteSet(LinkedIn(s))
    <3>1. LinkedIn(s) \subseteq Entries /\ IsFiniteSet(Entries)
      BY ShardParts, CacheAssumption, FS_Interval DEF Good, Entries
    <3>2. QED
      BY <3>1, FS_Subset
  <2>4. Cardinality(LinkedIn(s) \ {i}) = Cardinality(LinkedIn(s)) - 1 /\ Cardinality(LinkedIn(s)) \in Nat
    BY <2>3, FS_RemoveElement, FS_CardinalityType
  <2>5. QED
    BY <1>2, <2>2, <2>4 DEF Few
<1>3. QED
  BY <1>1, <1>2

\* A round of the window's admission.
LEMMA AdmitMoves ==
    ASSUME NEW s, NEW freq, Good(s, {})
    PROVE  /\ Moves(s, {}, AdmitFromWindow(s, freq), {})
           /\ Snug(s) => Snug(AdmitFromWindow(s, freq))
<1> DEFINE go == ~(s.bytes["window"] <= MaxWindow \/ Unpinned(s, "window") = {})
<1>1. CASE ~go
  BY <1>1, MovesReflexive DEF AdmitFromWindow
<1>2. CASE go
  <2>1. PICK c : c = Lru(s, "window")
    OBVIOUS
  <2>2. PICK r : r = unlink(s, c)
    OBVIOUS
  <2>3. c \in LinkedIn(s) /\ {"window", "probation"} \subseteq Segments
    BY <1>2, <2>1, LruLinked DEF Good, Segments
  <2>4. /\ Moves(s, {}, r, {c}) /\ LinkedIn(r) = LinkedIn(s) \ {c} /\ LinkedIn(s) \subseteq Entries
        /\ Good(r, {c})
    <3>1. Moves(s, {}, r, {} \cup {c}) /\ LinkedIn(r) = LinkedIn(s) \ {c}
      BY <2>2, <2>3, UnlinkMoves
    <3>2. {} \cup {c} = {c}
      OBVIOUS
    <3>3. QED
      BY <3>1, <3>2, ShardParts DEF Moves, Good
  <2>5. ASSUME NEW y, Moves(r, {c}, y, {}) PROVE Moves(s, {}, y, {})
    BY <2>4, <2>5, MovesTransitive
  <2>6. {c} \ {c} = {}
    OBVIOUS
  <2>11. /\ r.entries = s.entries /\ Main(s) \in Nat
         /\ Exact(s) => Main(r) = Main(s) /\ Exact(r)
    <3>1. s.entries[c].status = "window"
      BY <1>2, <2>1, <2>3, LruLinked DEF Good, ListsGood, Segments
    <3>2. r.entries = s.entries /\ (Exact(s) => Lighter(s, r, c))
      BY <2>2, <2>3, UnlinkMoves
    <3>3. Exact(s) => Main(r) = Main(s)
      BY <2>3, <3>1, <3>2, MainLighter
    <3>4. QED
      BY <2>4, <3>2, <3>3, MainNat DEF Moves
  <2>12. ASSUME NEW y, Moves(s, {}, y, {}), Exact(s) /\ Main(s) <= MaxMain => Main(y) <= MaxMain
         PROVE  Snug(s) => Snug(y)
    BY <2>12, SnugKept DEF Snug
  <2>7. CASE Main(r) + s.entries[c].pages <= MaxMain
    <3>1. PICK y : y = push_mru(r, c, "probation")
      OBVIOUS
    <3>2. AdmitFromWindow(s, freq) = y
      BY <1>2, <2>1, <2>2, <2>7, <3>1 DEF AdmitFromWindow
    <3>3. Moves(r, {c}, y, {})
      BY <2>3, <2>4, <2>6, <3>1, PushMoves
    <3>4. ASSUME Exact(s) PROVE Main(y) <= MaxMain
      <4>1. Heavier(r, y, c, "probation") /\ c \in {c}
        BY <2>3, <2>4, <2>11, <3>1, <3>4, PushMoves
      <4>2. Main(y) = Main(r) + r.entries[c].pages
        BY ONLY <2>3, <2>4, <4>1, MainHeavier
      <4>3. QED
        BY <2>7, <2>11, <4>2
    <3>5. Moves(s, {}, y, {})
      BY <3>3, <2>5
    <3>6. QED
      BY <3>2, <3>4, <3>5, <2>12
  <2>8. CASE ~(Main(r) + s.entries[c].pages <= MaxMain) /\ Beats(r, freq, s.entries[c].page)
    <3>1. PICK v : v = Evict(r, Lru(r, "probation"))
      OBVIOUS
    <3>2. PICK y : y = push_mru(v, c, "probation")
      OBVIOUS
    <3>3. AdmitFromWindow(s, freq) = y
      BY <1>2, <2>1, <2>2, <2>8, <3>1, <3>2 DEF AdmitFromWindow
    <3>4. Lru(r, "probation") \in LinkedIn(r)
      BY <2>3, <2>4, <2>8, LruLinked DEF Beats, Good
    <3>5. Moves(r, {c}, v, {c})
      BY <2>4, <3>1, <3>4, EvictMoves
    <3>6. Moves(v, {c}, y, {})
      <4>1. Good(v, {c})
        BY <3>5 DEF Moves
      <4>2. QED
        BY ONLY <4>1, <2>3, <2>6, <3>2, PushMoves
    <3>7. LinkedIn(r) \cup {c} \subseteq Entries
      BY <2>4, OwnedTyped
    <3>8. Moves(s, {}, y, {})
      BY <3>5, <3>6, <3>7, <2>5, MovesTransitive
    <3>9. ASSUME Snug(s) PROVE Main(y) <= MaxMain
      <4>1. PICK d : d = Lru(r, "probation")
        OBVIOUS
      <4>2. d \in LinkedIn(r) /\ r.entries[d].status = "probation"
        <5>1. d \in Range(r.list["probation"])
          BY <2>3, <2>4, <2>8, <4>1, LruLinked DEF Beats, Good
        <5>2. QED
          BY <2>3, <2>4, <3>4, <4>1, <5>1 DEF Good, ListsGood
      <4>3. Exact(r) /\ Main(r) = Main(s) /\ Exact(v)
        BY <2>11, <3>5, <3>9 DEF Snug, Moves
      <4>4. Main(v) = Main(r) - r.entries[d].pages /\ Main(v) \in Nat /\ r.entries[d].pages \in Nat
        BY <2>4, <3>1, <4>1, <4>2, <4>3, MainEvict
      <4>5. Main(y) = Main(v) + v.entries[c].pages
        <5>1. Good(v, {c}) /\ c \in {c}
          BY <3>5 DEF Moves
        <5>2. Heavier(v, y, c, "probation")
          BY ONLY <5>1, <4>3, <2>3, <3>2, PushMoves
        <5>3. QED
          BY ONLY <5>1, <5>2, <2>3, MainHeavier
      <4>6. v.entries[c].pages = r.entries[c].pages
        BY <3>5 DEF Moves, Evolves, Same
      <4>7. r.entries[c].pages = r.entries[d].pages
        BY <2>3, <2>4, <2>11, <3>9, <4>2 DEF Snug
      <4>8. Main(y) = Main(s)
        BY <2>11, <4>3, <4>4, <4>5, <4>6, <4>7
      <4>9. QED
        BY <3>9, <4>8 DEF Snug
    <3>10. Snug(s) => Snug(y)
      BY <3>8, <3>9, SnugKept
    <3>11. QED
      BY <3>3, <3>8, <3>10
  <2>9. CASE ~(Main(r) + s.entries[c].pages <= MaxMain) /\ ~Beats(r, freq, s.entries[c].page)
    <3>1. PICK y : y = drop_entry(erase_keys(r, c), c)
      OBVIOUS
    <3>2. AdmitFromWindow(s, freq) = y
      BY <1>2, <2>1, <2>2, <2>9, <3>1 DEF AdmitFromWindow
    <3>3. Moves(r, {c}, y, {})
      BY <2>4, <2>6, <3>1, ForgetMoves
    <3>4. Moves(s, {}, y, {})
      BY <3>3, <2>5
    <3>5. y.bytes = r.bytes
      BY <2>4, <3>1, ForgetMoves
    <3>6. Main(y) = Main(r)
      BY <3>5 DEF Main
    <3>7. Exact(s) /\ Main(s) <= MaxMain => Main(y) <= MaxMain
      BY <2>11, <3>6
    <3>8. QED
      BY <3>2, <3>4, <3>7, <2>12
  <2>10. QED
    BY <2>7, <2>8, <2>9
<1>3. QED
  BY <1>1, <1>2

\* The loops: a step that keeps the shard good keeps it so however often it is taken.
LEMMA DemoteLoop ==
    ASSUME NEW s, Good(s, {})
    PROVE  /\ Moves(s, {}, Loop(Demote, s, MaxEntries), {})
           /\ Slack(s, Loop(Demote, s, MaxEntries))
<1> DEFINE S == {x \in Shards : Moves(s, {}, x, {}) /\ Slack(s, x)}
           n == MaxEntries
           f == [x \in S |-> Demote(x)]
           Body(g) == [k \in 0..n |-> IF k = 0 THEN s ELSE Demote(g[k - 1])]
           a == CHOOSE h : h = Body(h)
<1>1. s \in S /\ n \in Nat
  BY MovesReflexive, MainNat, CacheAssumption DEF Good, Slack
<1>2. \A x \in S : Demote(x) \in S
  <2> SUFFICES ASSUME NEW x \in Shards, Moves(s, {}, x, {}), Slack(s, x)
               PROVE  /\ Demote(x) \in Shards /\ Moves(s, {}, Demote(x), {})
                      /\ Slack(s, Demote(x))
    OBVIOUS
  <2>1. Moves(x, {}, Demote(x), {}) /\ Slack(x, Demote(x))
    BY DemoteMoves DEF Moves
  <2>2. Moves(s, {}, Demote(x), {})
    BY <2>1, OwnedTyped, MovesTransitive
  <2>3. Main(s) \in Nat /\ Main(x) \in Nat /\ Main(Demote(x)) \in Nat
    BY <2>1, MainNat DEF Moves
  <2>4. Slack(s, Demote(x))
    BY <2>1, <2>3 DEF Slack, Moves
  <2>5. QED
    BY <2>2, <2>4 DEF Moves, Good
<1>3. PICK g \in [0..n -> S] : g[0] = s /\ \A k \in 1..n : g[k] = f[g[k - 1]]
  <2>1. f \in [S -> S]
    BY <1>2
  <2> HIDE DEF S, f, n
  <2>2. PICK g : Iteration(g, S, s, f, n)
    BY ONLY <1>1, <2>1, Iterates
  <2>3. QED
    BY ONLY <2>2 DEF Iteration
<1>4. a = Body(a)
  <2>1. ASSUME NEW k \in 1..n PROVE g[k] = Demote(g[k - 1])
    <3>1. g[k - 1] \in S
      <4>1. k - 1 \in 0..n
        BY <1>1
      <4>2. QED
        BY ONLY <4>1, g \in [0..n -> S]
    <3>2. QED
      BY <3>1, <1>3
  <2> HIDE DEF S, n
  <2>2. g = Body(g)
    BY <2>1, <1>1, <1>3
  <2>3. QED
    BY <2>2
<1>5. Loop(Demote, s, MaxEntries) = a[n]
  BY DEF Loop
<1> HIDE DEF a, S
<1>6. a[0] \in S /\ \A k \in 1..n : a[k - 1] \in S => a[k] \in S
  BY <1>1, <1>2, <1>4
<1>7. a[n] \in S
  <2> HIDE DEF n
  <2>1. QED
    BY <1>1, <1>6, StaysIn
<1>8. QED
  BY <1>5, <1>7 DEF S

\* The eviction loop of a promotion is a move.
LEMMA EvictLoop ==
    ASSUME NEW s, Good(s, {})
    PROVE  /\ Moves(s, {}, Loop(EvictProbation, s, MaxEntries), {})
           /\ Slack(s, Loop(EvictProbation, s, MaxEntries))
<1> DEFINE S == {x \in Shards : Moves(s, {}, x, {}) /\ Slack(s, x)}
           n == MaxEntries
           f == [x \in S |-> EvictProbation(x)]
           Body(g) == [k \in 0..n |-> IF k = 0 THEN s ELSE EvictProbation(g[k - 1])]
           a == CHOOSE h : h = Body(h)
<1>1. s \in S /\ n \in Nat
  BY MovesReflexive, MainNat, CacheAssumption DEF Good, Slack
<1>2. \A x \in S : EvictProbation(x) \in S
  <2> SUFFICES ASSUME NEW x \in Shards, Moves(s, {}, x, {}), Slack(s, x)
               PROVE  /\ EvictProbation(x) \in Shards /\ Moves(s, {}, EvictProbation(x), {})
                      /\ Slack(s, EvictProbation(x))
    OBVIOUS
  <2>1. Moves(x, {}, EvictProbation(x), {}) /\ Slack(x, EvictProbation(x))
    BY EvictProbationMoves DEF Moves
  <2>2. Moves(s, {}, EvictProbation(x), {})
    BY <2>1, OwnedTyped, MovesTransitive
  <2>3. Main(s) \in Nat /\ Main(x) \in Nat /\ Main(EvictProbation(x)) \in Nat
    BY <2>1, MainNat DEF Moves
  <2>4. Slack(s, EvictProbation(x))
    BY <2>1, <2>3 DEF Slack, Moves
  <2>5. QED
    BY <2>2, <2>4 DEF Moves, Good
<1>3. PICK g \in [0..n -> S] : g[0] = s /\ \A k \in 1..n : g[k] = f[g[k - 1]]
  <2>1. f \in [S -> S]
    BY <1>2
  <2> HIDE DEF S, f, n
  <2>2. PICK g : Iteration(g, S, s, f, n)
    BY ONLY <1>1, <2>1, Iterates
  <2>3. QED
    BY ONLY <2>2 DEF Iteration
<1>4. a = Body(a)
  <2>1. ASSUME NEW k \in 1..n PROVE g[k] = EvictProbation(g[k - 1])
    <3>1. g[k - 1] \in S
      <4>1. k - 1 \in 0..n
        BY <1>1
      <4>2. QED
        BY ONLY <4>1, g \in [0..n -> S]
    <3>2. QED
      BY <3>1, <1>3
  <2> HIDE DEF S, n
  <2>2. g = Body(g)
    BY <2>1, <1>1, <1>3
  <2>3. QED
    BY <2>2
<1>5. Loop(EvictProbation, s, MaxEntries) = a[n]
  BY DEF Loop
<1> HIDE DEF a, S
<1>6. a[0] \in S /\ \A k \in 1..n : a[k - 1] \in S => a[k] \in S
  BY <1>1, <1>2, <1>4
<1>7. a[n] \in S
  <2> HIDE DEF n
  <2>1. QED
    BY <1>1, <1>6, StaysIn
<1>8. QED
  BY <1>5, <1>7 DEF S

\* The loop of an invalidation is a move.
LEMMA DropLoop ==
    ASSUME NEW s, Good(s, {})
    PROVE  /\ Moves(s, {}, Loop(DropNamed, s, MaxEntries), {})
           /\ Named(s) => LinkedIn(Loop(DropNamed, s, MaxEntries)) = {}
<1> DEFINE S == {x \in Shards : Moves(s, {}, x, {})}
           n == MaxEntries
           f == [x \in S |-> DropNamed(x)]
           Body(g) == [k \in 0..n |-> IF k = 0 THEN s ELSE DropNamed(g[k - 1])]
           a == CHOOSE h : h = Body(h)
<1>1. s \in S /\ n \in Nat
  BY MovesReflexive, CacheAssumption DEF Good
<1>2. \A x \in S : DropNamed(x) \in S
  <2> SUFFICES ASSUME NEW x \in Shards, Moves(s, {}, x, {})
               PROVE  DropNamed(x) \in Shards /\ Moves(s, {}, DropNamed(x), {})
    OBVIOUS
  <2>1. Moves(x, {}, DropNamed(x), {})
    BY DropNamedMoves DEF Moves
  <2>2. Moves(s, {}, DropNamed(x), {})
    BY <2>1, OwnedTyped, MovesTransitive
  <2>3. QED
    BY <2>2 DEF Moves, Good
<1>3. PICK g \in [0..n -> S] : g[0] = s /\ \A k \in 1..n : g[k] = f[g[k - 1]]
  <2>1. f \in [S -> S]
    BY <1>2
  <2> HIDE DEF S, f, n
  <2>2. PICK g : Iteration(g, S, s, f, n)
    BY ONLY <1>1, <2>1, Iterates
  <2>3. QED
    BY ONLY <2>2 DEF Iteration
<1>4. a = Body(a)
  <2>1. ASSUME NEW k \in 1..n PROVE g[k] = DropNamed(g[k - 1])
    <3>1. g[k - 1] \in S
      <4>1. k - 1 \in 0..n
        BY <1>1
      <4>2. QED
        BY ONLY <4>1, g \in [0..n -> S]
    <3>2. QED
      BY <3>1, <1>3
  <2> HIDE DEF S, n
  <2>2. g = Body(g)
    BY <2>1, <1>1, <1>3
  <2>3. QED
    BY <2>2
<1>5. Loop(DropNamed, s, MaxEntries) = a[n]
  BY DEF Loop
<1> HIDE DEF a, S
<1>6. a[0] \in S /\ \A k \in 1..n : a[k - 1] \in S => a[k] \in S
  BY <1>1, <1>2, <1>4
<1>7. a[n] \in S
  <2> HIDE DEF n
  <2>1. QED
    BY <1>1, <1>6, StaysIn
<1>8. ASSUME Named(s) PROVE LinkedIn(a[n]) = {}
  <2> DEFINE T == {k \in Nat : k <= n => a[k] \in S /\ Few(a[k], n - k)}
  <2>1. IsFiniteSet(Entries) /\ Cardinality(Entries) = n
    <3>1. 1 \in Int /\ n \in Int
      BY <1>1
    <3>2. QED
      BY <1>1, <3>1, FS_Interval DEF Entries
  <2>2. 0 \in T
    <3>1. a[0] = s /\ s \in Shards
      BY <1>1, <1>4 DEF S
    <3>2. LinkedIn(s) \subseteq Entries
      BY <3>1, ShardParts
    <3>3. Cardinality(LinkedIn(s)) <= n
      BY <2>1, <3>2, FS_Subset
    <3>4. n - 0 = n
      BY <1>1
    <3>5. QED
      BY <1>6, <3>1, <3>3, <3>4 DEF Few
  <2>3. ASSUME NEW k \in Nat, k \in T PROVE k + 1 \in T
    <3>1. SUFFICES ASSUME k + 1 <= n PROVE a[k + 1] \in S /\ Few(a[k + 1], n - (k + 1))
      OBVIOUS
    <3>2. k <= n /\ k + 1 \in 1..n /\ k + 1 \in 0..n /\ (k + 1) - 1 = k /\ k + 1 # 0
          /\ n - (k + 1) \in Nat /\ n - k = (n - (k + 1)) + 1
      BY <1>1, <3>1
    <3>3. a[k] \in S /\ Few(a[k], (n - (k + 1)) + 1)
      BY <2>3, <3>2
    <3>4. Good(a[k], {}) /\ Named(a[k])
      BY <1>8, <3>3, NamedKept DEF S, Moves
    <3>5. a[k + 1] = DropNamed(a[k])
      BY <1>4, <3>2
    <3>6. Few(DropNamed(a[k]), n - (k + 1))
      BY ONLY <3>2, <3>3, <3>4, OneFewer
    <3>7. a[k + 1] \in S
      BY <1>2, <3>3, <3>5
    <3>8. QED
      BY <3>5, <3>6, <3>7
  <2>4. n \in T
    <3> HIDE DEF T, n
    <3>1. \A k \in Nat : k \in T
      BY ONLY <2>2, <2>3, NatSetInduction
    <3>2. QED
      BY <1>1, <3>1
  <2>5. a[n] \in S /\ Few(a[n], 0)
    <3>1. n <= n /\ n - n = 0
      BY <1>1
    <3>2. QED
      BY <2>4, <3>1
  <2>6. LinkedIn(a[n]) \subseteq Entries
    BY <2>5, ShardParts DEF S
  <2>7. IsFiniteSet(LinkedIn(a[n]))
    BY <2>1, <2>6, FS_Subset
  <2>8. Cardinality(LinkedIn(a[n])) \in Nat
    BY <2>7, FS_CardinalityType
  <2>9. CASE Cardinality(LinkedIn(a[n])) <= 0
    <3>1. Cardinality(LinkedIn(a[n])) = 0
      BY <2>8, <2>9
    <3>2. QED
      BY <2>7, <3>1, FS_EmptySet
  <2>10. QED
    BY <2>5, <2>9 DEF Few
<1>9. QED
  BY <1>5, <1>7, <1>8 DEF S

\* The admission loop of an insertion is a move.
LEMMA AdmitLoop ==
    ASSUME NEW s, NEW freq, Good(s, {}), NEW y, y = Loop(LAMBDA r : AdmitFromWindow(r, freq), s, MaxEntries)
    PROVE  Moves(s, {}, y, {}) /\ (Snug(s) => Snug(y))
<1> DEFINE S == {x \in Shards : Moves(s, {}, x, {}) /\ (Snug(s) => Snug(x))}
           n == MaxEntries
           f == [x \in S |-> AdmitFromWindow(x, freq)]
           Body(g) == [k \in 0..n |-> IF k = 0 THEN s ELSE AdmitFromWindow(g[k - 1], freq)]
           a == CHOOSE h : h = Body(h)
<1>1. s \in S /\ n \in Nat
  BY MovesReflexive, CacheAssumption DEF Good
<1>2. \A x \in S : AdmitFromWindow(x, freq) \in S
  <2> SUFFICES ASSUME NEW x \in Shards, Moves(s, {}, x, {}), Snug(s) => Snug(x)
               PROVE  /\ AdmitFromWindow(x, freq) \in Shards
                      /\ Moves(s, {}, AdmitFromWindow(x, freq), {})
                      /\ Snug(s) => Snug(AdmitFromWindow(x, freq))
    OBVIOUS
  <2>1. /\ Moves(x, {}, AdmitFromWindow(x, freq), {})
        /\ Snug(x) => Snug(AdmitFromWindow(x, freq))
    BY AdmitMoves DEF Moves
  <2>2. Moves(s, {}, AdmitFromWindow(x, freq), {})
    BY <2>1, OwnedTyped, MovesTransitive
  <2>3. QED
    BY <2>1, <2>2 DEF Moves, Good
<1>3. PICK g \in [0..n -> S] : g[0] = s /\ \A k \in 1..n : g[k] = f[g[k - 1]]
  <2>1. f \in [S -> S]
    BY <1>2
  <2> HIDE DEF S, f, n
  <2>2. PICK g : Iteration(g, S, s, f, n)
    BY ONLY <1>1, <2>1, Iterates
  <2>3. QED
    BY ONLY <2>2 DEF Iteration
<1>4. a = Body(a)
  <2>1. ASSUME NEW k \in 1..n PROVE g[k] = AdmitFromWindow(g[k - 1], freq)
    <3>1. g[k - 1] \in S
      <4>1. k - 1 \in 0..n
        BY <1>1
      <4>2. QED
        BY ONLY <4>1, g \in [0..n -> S]
    <3>2. QED
      BY <3>1, <1>3
  <2> HIDE DEF S, n
  <2>2. g = Body(g)
    BY <2>1, <1>1, <1>3
  <2>3. QED
    BY <2>2
<1>5. y = a[n]
  BY DEF Loop
<1> HIDE DEF a, S
<1>6. a[0] \in S /\ \A k \in 1..n : a[k - 1] \in S => a[k] \in S
  BY <1>1, <1>2, <1>4
<1>7. a[n] \in S
  <2> HIDE DEF n
  <2>1. QED
    BY <1>1, <1>6, StaysIn
<1>8. QED
  BY <1>5, <1>7 DEF S

\* An entry changed in place: one that no list names may change in any way.
Fits(s, i, f) ==
    /\ f \in EntryRec
    /\ ~f.retired => ~f.deleted /\ f.freed = 0
    /\ \A p \in f.keys : f.page <= p
    /\ i \in LinkedIn(s) => /\ f.status = s.entries[i].status /\ ~f.retired
                            /\ f.keys = s.entries[i].keys
Changed(s, i, f, x) ==
    /\ Good(x, {}) /\ LinkedIn(x) = LinkedIn(s) /\ x.entries[i] = f
    /\ x.map = s.map /\ x.list = s.list /\ x.bytes = s.bytes
    /\ \A j \in Entries : j # i => x.entries[j] = s.entries[j]

\* A change inside one entry that keeps what the lists need keeps the shard in order.
LEMMA EntryGood ==
    ASSUME NEW s, Good(s, {}), NEW i \in Entries, NEW f, Fits(s, i, f),
           NEW x, x = [s EXCEPT !.entries[i] = f]
    PROVE  Changed(s, i, f, x)
<1> USE DEF Fits
<1>1. s \in Shards /\ EntriesGood(s) /\ ListsGood(s) /\ MapGood(s, {})
  BY DEF Good
<1>2. s.entries \in [Entries -> EntryRec] /\ LinkedIn(s) \subseteq Entries
  BY <1>1, ShardParts
<1>3. /\ x.entries = [s.entries EXCEPT ![i] = f] /\ x.list = s.list /\ x.bytes = s.bytes /\ x.map = s.map
      /\ x = [entries |-> x.entries, list |-> s.list, bytes |-> s.bytes, map |-> s.map]
  BY <1>1 DEF Shards
<1>5. /\ x.entries \in [Entries -> EntryRec] /\ x.entries[i] = f
      /\ \A j \in Entries : j # i => x.entries[j] = s.entries[j]
  BY <1>2, <1>3
<1>7. x \in Shards
  BY <1>1, <1>3, <1>5 DEF Shards
<1>8. LinkedIn(x) = LinkedIn(s) /\ \A l \in Segments : Range(s.list[l]) \subseteq LinkedIn(s)
  BY <1>1, <1>3 DEF LinkedIn
<1>9. EntriesGood(x)
  BY <1>1, <1>5 DEF EntriesGood
<1>10. ListsGood(x)
  <2>1. \A l \in Segments : IsInjective(x.list[l])
    BY <1>1, <1>3 DEF ListsGood
  <2>2. ASSUME NEW l \in Segments, NEW j \in Range(s.list[l])
        PROVE  x.entries[j].status = l /\ ~x.entries[j].retired
    BY <1>1, <1>2, <1>5, <1>8 DEF ListsGood
  <2>3. QED
    BY <2>1, <2>2, <1>3 DEF ListsGood
<1>11. MapGood(x, {})
  BY <1>1, <1>2, <1>3, <1>5, <1>8 DEF MapGood
<1>12. QED
  BY <1>3, <1>5, <1>7, <1>8, <1>9, <1>10, <1>11 DEF Good, Detached, Changed

Bump(s, i) == [s EXCEPT !.entries[i].refs = @ + 1]

\* Taking a reference.
LEMMA BumpGood ==
    ASSUME NEW s, Good(s, {}), NEW i \in Entries, NEW x, x = Bump(s, i)
    PROVE  /\ Good(x, {}) /\ LinkedIn(x) = LinkedIn(s)
           /\ x.map = s.map /\ x.list = s.list /\ x.bytes = s.bytes
           /\ \A j \in Entries : j # i => x.entries[j] = s.entries[j]
           /\ x.entries[i] = [s.entries[i] EXCEPT !.refs = s.entries[i].refs + 1]
<1>1. PICK f : f = [s.entries[i] EXCEPT !.refs = s.entries[i].refs + 1]
  OBVIOUS
<1>2. s \in Shards /\ EntriesGood(s) /\ ListsGood(s) /\ s.entries[i] \in EntryRec
  BY ShardParts DEF Good
<1>3. /\ f \in EntryRec /\ f.page = s.entries[i].page /\ f.keys = s.entries[i].keys
      /\ f.status = s.entries[i].status /\ f.retired = s.entries[i].retired
      /\ f.deleted = s.entries[i].deleted /\ f.freed = s.entries[i].freed
  BY <1>1, <1>2 DEF EntryRec
<1>4. x = [s EXCEPT !.entries[i] = f]
  BY <1>1 DEF Bump
<1>5. /\ ~f.retired => ~f.deleted /\ f.freed = 0
      /\ \A p \in f.keys : f.page <= p
      /\ i \in LinkedIn(s) => ~f.retired
  BY <1>2, <1>3 DEF EntriesGood, ListsGood, LinkedIn
<1>6. Fits(s, i, f)
  BY <1>3, <1>5 DEF Fits
<1>7. Changed(s, i, f, x)
  BY <1>4, <1>6, EntryGood
<1>8. QED
  BY <1>1, <1>7 DEF Changed

\* A hit is a move after the entry's count went up.
LEMMA HitMoves ==
    ASSUME NEW s, Good(s, {}), NEW i \in LinkedIn(s)
    PROVE  Moves(Bump(s, i), {}, hit_locked(s, i), {}) /\ Slack(Bump(s, i), hit_locked(s, i))
<1>1. PICK r : r = Bump(s, i)
  OBVIOUS
<1>2. i \in Entries /\ s \in Shards
  BY ShardParts DEF Good
<1>3. Good(r, {}) /\ i \in LinkedIn(r)
  BY <1>1, <1>2, BumpGood
<1>4. s.entries[i].status \in Segments /\ "protected" \in Segments
  BY <1>2, ShardParts DEF EntryRec, Segments
<1>5. \A l \in Segments : Moves(r, {}, push_mru(unlink(r, i), i, l), {})
  BY <1>3, RelinkMoves
<1>10. Main(r) \in Nat
  BY <1>3, MainNat
<1>11. r.entries[i].status = s.entries[i].status
  <2>1. s.entries[i] \in EntryRec
    BY <1>2, ShardParts
  <2>2. r.entries[i] = [s.entries[i] EXCEPT !.refs = s.entries[i].refs + 1]
    BY <1>1, <1>2, BumpGood
  <2>3. QED
    BY <2>1, <2>2 DEF EntryRec
<1>6. LinkedIn(r) \cup {} \subseteq Entries
  BY <1>3, OwnedTyped
<1>7. CASE s.entries[i].status = "probation"
  <2>1. PICK a : a = push_mru(unlink(r, i), i, "protected")
    OBVIOUS
  <2>2. PICK b : b = Loop(Demote, a, MaxEntries)
    OBVIOUS
  <2>3. PICK c : c = Loop(EvictProbation, b, MaxEntries)
    OBVIOUS
  <2>4. hit_locked(s, i) = c
    BY <1>1, <1>7, <2>1, <2>2, <2>3 DEF hit_locked, Bump
  <2>5. Moves(r, {}, a, {})
    BY <1>4, <1>5, <2>1
  <2>6. Moves(r, {}, b, {})
    <3>1. Moves(a, {}, b, {})
      BY <2>2, <2>5, DemoteLoop DEF Moves
    <3>2. QED
      BY <3>1, <2>5, <1>6, MovesTransitive
  <2>7. Moves(r, {}, c, {})
    <3>1. Moves(b, {}, c, {})
      BY <2>3, <2>6, EvictLoop DEF Moves
    <3>2. QED
      BY <3>1, <2>6, <1>6, MovesTransitive
  <2>8. ASSUME Exact(r) PROVE Main(c) <= Main(r)
    <3>1. r.entries[i].status = "probation"
      BY <1>7, <1>11
    <3>2. Main(a) = Main(r)
      BY <1>3, <1>4, <2>1, <2>8, <3>1, MainRelink
    <3>3. Exact(a) /\ Exact(b)
      BY <2>5, <2>6, <2>8 DEF Moves
    <3>4. Main(b) <= Main(a) /\ Main(c) <= Main(b)
      BY <2>2, <2>3, <2>5, <2>6, <3>3, DemoteLoop, EvictLoop DEF Slack, Moves
    <3>5. Main(a) \in Nat /\ Main(b) \in Nat /\ Main(c) \in Nat
      BY <2>5, <2>6, <2>7, MainNat DEF Moves
    <3>6. QED
      BY <1>10, <3>2, <3>4, <3>5
  <2>9. QED
    BY <2>4, <2>7, <2>8, <1>1 DEF Slack
<1>8. CASE s.entries[i].status # "probation"
  <2>1. hit_locked(s, i) = push_mru(unlink(r, i), i, s.entries[i].status)
    BY <1>1, <1>8 DEF hit_locked, Bump
  <2>2. r.entries[i].status = s.entries[i].status
    BY <1>11
  <2>3. Exact(r) => Main(hit_locked(s, i)) = Main(r)
    BY <1>3, <1>4, <2>1, <2>2, MainRelink
  <2>4. QED
    BY <2>1, <2>3, <1>1, <1>4, <1>5, <1>10 DEF Slack
<1>9. QED
  BY <1>7, <1>8

\* Linking a filled entry.
LEMMA LinkGood ==
    ASSUME NEW s, Good(s, {}), NEW i \in Entries, i \notin LinkedIn(s), ~s.entries[i].retired,
           NEW x, x = Link(s, i)
    PROVE  /\ Good(x, {}) /\ LinkedIn(x) = LinkedIn(s) \cup {i}
           /\ \A j \in Entries : j # i => Same(s.entries[j], x.entries[j])
           /\ Same([s.entries[i] EXCEPT !.refs = 1], x.entries[i])
           /\ NamesKept(s, x, Entries) /\ \A p \in s.entries[i].keys \ DOMAIN s.map : p \in DOMAIN x.map /\ x.map[p] = i
           /\ Exact(s) => Exact(x) /\ Main(x) = Main(s)
<1>1. PICK a : a = [s EXCEPT !.entries[i].refs = 1]
  OBVIOUS
<1>2. PICK r : r = push_mru(a, i, "window")
  OBVIOUS
<1> DEFINE e    == [s.entries[i] EXCEPT !.refs = 1]
           free == s.entries[i].keys \ DOMAIN s.map
           m    == [p \in DOMAIN s.map \cup free |-> IF p \in free THEN i ELSE s.map[p]]
<1>3. x = [r EXCEPT !.map = m]
  BY <1>1, <1>2 DEF Link
<1>4. s \in Shards /\ EntriesGood(s) /\ s.entries[i] \in EntryRec /\ LinkedIn(s) \subseteq Entries
  BY ShardParts DEF Good
<1>5. /\ e \in EntryRec /\ e.page = s.entries[i].page /\ e.keys = s.entries[i].keys
      /\ e.retired = s.entries[i].retired
      /\ e.deleted = s.entries[i].deleted /\ e.freed = s.entries[i].freed
  BY <1>4 DEF EntryRec
<1>6. a = [s EXCEPT !.entries[i] = e]
  BY <1>1
<1>7. (~e.retired => ~e.deleted /\ e.freed = 0) /\ \A p \in e.keys : e.page <= p
  BY <1>4, <1>5 DEF EntriesGood
<1> HIDE DEF e
<1>8. /\ Good(a, {}) /\ LinkedIn(a) = LinkedIn(s) /\ a.map = s.map /\ a.entries[i] = e
      /\ a.list = s.list /\ a.bytes = s.bytes
      /\ \A j \in Entries : j # i => a.entries[j] = s.entries[j]
  <2>1. Fits(s, i, e)
    BY <1>5, <1>7 DEF Fits
  <2>2. Changed(s, i, e, a)
    BY <1>6, <2>1, EntryGood
  <2>3. QED
    BY <2>2 DEF Changed
<1>9. Good(a, {i})
  BY <1>5, <1>8 DEF Good, MapGood, Detached
<1>10. /\ Moves(a, {i}, r, {}) /\ LinkedIn(r) = LinkedIn(a) \cup {i} /\ r.map = a.map
       /\ Exact(a) => Heavier(a, r, i, "window")
  <2>1. "window" \in Segments /\ {i} \ {i} = {}
    BY DEF Segments
  <2>2. QED
    BY ONLY <1>2, <1>9, <2>1, PushMoves
<1>11. Good(r, {}) /\ \A j \in Entries : Same(a.entries[j], r.entries[j])
  BY <1>10 DEF Moves, Evolves, Same
<1>12. r \in Shards /\ EntriesGood(r) /\ ListsGood(r) /\ MapGood(r, {})
  BY <1>11 DEF Good
<1>13. /\ x.entries = r.entries /\ x.list = r.list /\ x.bytes = r.bytes /\ x.map = m
       /\ x = [entries |-> r.entries, list |-> r.list, bytes |-> r.bytes, map |-> m]
  BY <1>3, <1>12 DEF Shards
<1>14. m \in Maps
  <2>1. DOMAIN s.map \subseteq Pages /\ (\A p \in DOMAIN s.map : s.map[p] \in Entries) /\ free \subseteq Pages
    BY <1>4, ShardParts DEF EntryRec
  <2> DEFINE D == DOMAIN s.map \cup free
  <2>2. D \in SUBSET Pages /\ m \in [D -> Entries]
    BY <2>1
  <2> HIDE DEF D, m
  <2>3. QED
    BY <2>2 DEF Maps
<1>15. LinkedIn(x) = LinkedIn(s) \cup {i} /\ LinkedIn(r) = LinkedIn(x)
  BY <1>8, <1>10, <1>13 DEF LinkedIn
<1>16. x \in Shards
  BY <1>12, <1>13, <1>14 DEF Shards
<1>17. EntriesGood(x) /\ ListsGood(x)
  BY <1>12, <1>13 DEF EntriesGood, ListsGood
<1>18. MapGood(x, {})
  <2> SUFFICES ASSUME NEW p \in DOMAIN m
               PROVE  m[p] \in LinkedIn(x) /\ p \in r.entries[m[p]].keys
    BY <1>13 DEF MapGood
  <2>1. CASE p \in free
    <3>1. m[p] = i /\ p \in r.entries[i].keys
      BY <2>1, <1>5, <1>8, <1>11 DEF Same
    <3>2. QED
      BY <3>1, <1>15
  <2>2. CASE p \notin free
    <3>1. p \in DOMAIN r.map /\ m[p] = r.map[p]
      BY <2>2, <1>8, <1>10
    <3>2. QED
      BY <3>1, <1>12, <1>15 DEF MapGood
  <2>3. QED
    BY <2>1, <2>2
<1>19. \A j \in Entries : j # i => Same(s.entries[j], x.entries[j])
  BY <1>8, <1>11, <1>13
<1>20. Same(e, x.entries[i])
  BY <1>8, <1>11, <1>13
<1>21. NamesKept(s, x, Entries) /\ \A p \in s.entries[i].keys \ DOMAIN s.map : p \in DOMAIN x.map /\ x.map[p] = i
  BY <1>13 DEF NamesKept
<1>22. ASSUME Exact(s) PROVE Exact(x) /\ Main(x) = Main(s)
  <2>1. Exact(a)
    <3>1. \A j \in LinkedIn(s) : a.entries[j].pages = s.entries[j].pages
      BY <1>4, <1>8
    <3>2. QED
      BY <1>8, <1>22, <3>1, ExactKept
  <2>2. Exact(r)
    BY <1>10, <2>1 DEF Moves
  <2>3. Exact(x)
    BY <1>13, <2>2 DEF Exact, PagesOf
  <2>4. Main(r) = Main(a)
    <3>1. "window" \in Segments
      BY DEF Segments
    <3>2. QED
      BY <1>9, <1>10, <2>1, <3>1, MainHeavier
  <2>5. QED
    BY <1>8, <1>13, <2>3, <2>4 DEF Main
<1>23. QED
  BY <1>15, <1>16, <1>17, <1>18, <1>19, <1>20, <1>21, <1>22 DEF Good, Detached, e

-----------------------------------------------------------------------------
(* The inductive invariant: the shard s, the threads th and the handles P *)

Handles   == [e : Entries, req : Requests]
ThreadRec == [pc : Steps, req : Requests \cup {Nil}, gated : BOOLEAN, e : Entries \cup {Nil}]

\* A thread at one of these steps has no entry in its hands.
Plain == {"idle", "gate", "recheck", "admit", "fill"}

\* The handles of entry i.
PinsIn(P, i) == {x \in UNION {{t} \X DOMAIN P[t] : t \in Threads} : P[x[1]][x[2]].e = i}

\* The entry of a handle exists and holds what was asked for.
Backed(s, h) ==
    LET e == s.entries[h.e] IN
    e.freed = 0 /\ e.page <= h.req.page /\ h.req.page + h.req.pages <= e.page + e.pages

PinsGood(s, P) == \A t \in Threads : \A k \in DOMAIN P[t] : Backed(s, P[t][k])

Counted(s, P) ==
    \A i \in Entries : IsFiniteSet(PinsIn(P, i)) /\ s.entries[i].refs = Cardinality(PinsIn(P, i))

\* What a thread may rely on about the entry it has in its hands.
Holds(s, u) ==
    /\ u.pc \in Plain => u.e = Nil
    /\ u.pc \notin Plain => u.e \in Entries
    /\ u.pc = "insert" => LET e == s.entries[u.e] IN
           /\ e.page = u.req.page /\ e.pages = u.req.pages /\ e.refs = 0
           /\ ~e.retired /\ u.e \notin LinkedIn(s)
    /\ u.pc = "claim" => s.entries[u.e].retired
    /\ u.pc = "free" => LET e == s.entries[u.e] IN
           e.retired /\ e.deleted /\ e.freed = 0 /\ e.refs = 0

Holders(s, th) == \A t \in Threads : Holds(s, th[t])

\* A filled entry is in one thread's hands, and one thread deletes a claimed entry.
Apart(th) ==
    \A t, u \in Threads : t # u /\ th[t].e = th[u].e =>
        th[t].pc # "insert" /\ ~(th[t].pc = "free" /\ th[u].pc = "free")

\* Whoever still has to see to an entry that exists.
Cared(s, th, i) ==
    LET e == s.entries[i] IN
    /\ e.freed = 1 => e.deleted /\ e.refs = 0
    /\ e.freed = 0 =>
        /\ ~e.retired => i \in LinkedIn(s) \/ \E t \in Threads : th[t].e = i /\ th[t].pc = "insert"
        /\ e.retired /\ ~e.deleted /\ e.refs = 0 =>
               \E t \in Threads : th[t].e = i /\ th[t].pc \in {"check", "claim"}
        /\ e.deleted => \E t \in Threads : th[t].e = i /\ th[t].pc = "free"

Kept(s, th) == \A i \in Entries : Cared(s, th, i)

Safe(s, th, P) ==
    /\ Good(s, {}) /\ PinsGood(s, P) /\ Counted(s, P)
    /\ Holders(s, th) /\ Apart(th) /\ Kept(s, th)

\* A thread inside pin has one of the workload's requests.
Types ==
    /\ workload \in Workloads
    /\ stripe \in [0..(Stripes - 1) -> Threads \cup {Nil}]
    /\ thread \in [Threads -> ThreadRec]
    /\ pins \in [Threads -> Seq(Handles)]
    /\ \A t \in Threads :
        thread[t].pc \in {"gate", "recheck", "admit", "fill", "insert"} => thread[t].req \in workload.requests

IInv == Types /\ Safe(shard, thread, pins)

-----------------------------------------------------------------------------
(* The handles *)

\* The pins of an entry, thread by thread.
LEMMA PinMember ==
    ASSUME NEW P, P \in [Threads -> Seq(Handles)], NEW i
    PROVE  /\ \A t \in Threads : \A k \in 1..Len(P[t]) : P[t][k].e = i => <<t, k>> \in PinsIn(P, i)
           /\ \A x \in PinsIn(P, i) : \E t \in Threads, k \in Nat :
                  k \in 1..Len(P[t]) /\ x = <<t, k>> /\ P[t][k].e = i
<1>1. \A t \in Threads : DOMAIN P[t] = 1..Len(P[t]) /\ Len(P[t]) \in Nat
  BY LenProperties
<1>2. QED
  BY <1>1 DEF PinsIn

\* Q holds one more handle of entry i than P, or one less, and as many of the others.
OneMore(P, Q, i) ==
    \A j \in Entries : IsFiniteSet(PinsIn(P, j)) =>
        /\ IsFiniteSet(PinsIn(Q, j))
        /\ Cardinality(PinsIn(Q, j)) = Cardinality(PinsIn(P, j)) + (IF j = i THEN 1 ELSE 0)
OneLess(P, Q, i) ==
    \A j \in Entries : IsFiniteSet(PinsIn(P, j)) =>
        /\ IsFiniteSet(PinsIn(Q, j))
        /\ Cardinality(PinsIn(Q, j)) = Cardinality(PinsIn(P, j)) - (IF j = i THEN 1 ELSE 0)

\* Every handle of Q is h or one of P.
FromHandles(P, Q, h) ==
    \A t \in Threads : \A k \in DOMAIN Q[t] : Q[t][k] = h \/ \E n \in DOMAIN P[t] : Q[t][k] = P[t][n]

Shrinks(P, Q) == \A t \in Threads : \A k \in DOMAIN Q[t] : \E n \in DOMAIN P[t] : Q[t][k] = P[t][n]

\* Taking a handle.
LEMMA PinAdds ==
    ASSUME NEW P, P \in [Threads -> Seq(Handles)], NEW t \in Threads, NEW h \in Handles,
           NEW Q, Q = [P EXCEPT ![t] = Append(P[t], h)]
    PROVE  /\ Q \in [Threads -> Seq(Handles)]
           /\ OneMore(P, Q, h.e) /\ FromHandles(P, Q, h)
<1> DEFINE n == Len(P[t])
           z == <<t, n + 1>>
<1>1. /\ n \in Nat /\ Append(P[t], h) \in Seq(Handles) /\ Len(Append(P[t], h)) = n + 1
      /\ DOMAIN Append(P[t], h) = 1..(n + 1) /\ Append(P[t], h)[n + 1] = h
      /\ \A k \in 1..n : Append(P[t], h)[k] = P[t][k]
  <2>1. P[t] \in Seq(Handles)
    OBVIOUS
  <2>2. QED
    BY <2>1, AppendProperties, LenProperties
<1>2. /\ Q \in [Threads -> Seq(Handles)] /\ Len(Q[t]) = n + 1 /\ DOMAIN Q[t] = 1..(n + 1)
      /\ Q[t][n + 1] = h /\ \A k \in 1..n : Q[t][k] = P[t][k]
      /\ \A u \in Threads : u # t => Q[u] = P[u]
  BY <1>1
<1> HIDE DEF n
<1>3. FromHandles(P, Q, h)
  <2> SUFFICES ASSUME NEW u \in Threads, NEW k \in DOMAIN Q[u]
               PROVE  Q[u][k] = h \/ \E m \in DOMAIN P[u] : Q[u][k] = P[u][m]
    BY DEF FromHandles
  <2>1. CASE u # t
    BY <2>1, <1>2
  <2>2. CASE u = t
    <3>1. DOMAIN P[t] = 1..n
      BY LenProperties DEF n
    <3>2. k = n + 1 \/ k \in 1..n
      BY <2>2, <1>1, <1>2
    <3>3. QED
      BY <2>2, <3>1, <3>2, <1>2
  <2>3. QED
    BY <2>1, <2>2
<1>4. ASSUME NEW j \in Entries
      PROVE  PinsIn(Q, j) = IF j = h.e THEN PinsIn(P, j) \cup {z} ELSE PinsIn(P, j)
  <2>1. ASSUME NEW x \in PinsIn(Q, j) PROVE x \in PinsIn(P, j) \/ (j = h.e /\ x = z)
    <3>1. PICK u \in Threads, k \in Nat : k \in 1..Len(Q[u]) /\ x = <<u, k>> /\ Q[u][k].e = j
      <4>1. Q \in [Threads -> Seq(Handles)] /\ x \in PinsIn(Q, j)
        BY <1>2
      <4>2. QED
        BY ONLY <4>1, PinMember
    <3>2. CASE u # t
      BY <3>1, <3>2, <1>2, PinMember
    <3>3. CASE u = t
      <4>0. k \in 1..(n + 1)
        BY <3>1, <3>3, <1>2
      <4>1. k = n + 1 \/ k \in 1..n
        BY ONLY <4>0, <1>1
      <4>2. CASE k = n + 1
        BY <3>1, <3>3, <4>2, <1>2
      <4>3. CASE k \in 1..n
        <5>1. P[t][k].e = j /\ x = <<t, k>> /\ k \in 1..Len(P[t])
          BY <3>1, <3>3, <4>3, <1>2 DEF n
        <5>2. QED
          BY <5>1, PinMember
      <4>4. QED
        BY <4>1, <4>2, <4>3
    <3>4. QED
      BY <3>2, <3>3
  <2>2. ASSUME NEW x \in PinsIn(P, j) PROVE x \in PinsIn(Q, j)
    <3>1. PICK u \in Threads, k \in Nat : k \in 1..Len(P[u]) /\ x = <<u, k>> /\ P[u][k].e = j
      BY PinMember
    <3>2. k \in 1..Len(Q[u]) /\ Q[u][k] = P[u][k]
      BY <3>1, <1>1, <1>2 DEF n
    <3>3. QED
      BY <3>1, <3>2, <1>2, PinMember
  <2>3. j = h.e => z \in PinsIn(Q, j)
    <3>1. n + 1 \in 1..Len(Q[t])
      BY <1>1, <1>2
    <3>2. QED
      BY <3>1, <1>2, PinMember
  <2>4. QED
    BY <2>1, <2>2, <2>3
<1>5. \A j \in Entries : z \notin PinsIn(P, j)
  <2> SUFFICES ASSUME NEW j \in Entries, z \in PinsIn(P, j) PROVE FALSE
    OBVIOUS
  <2>1. PICK u \in Threads, k \in Nat : k \in 1..Len(P[u]) /\ z = <<u, k>>
    BY PinMember
  <2>2. u = t /\ k = n + 1 /\ k \in 1..n
    BY <2>1 DEF n
  <2>3. QED
    BY <2>2, <1>1
<1>6. OneMore(P, Q, h.e)
  <2> SUFFICES ASSUME NEW j \in Entries, IsFiniteSet(PinsIn(P, j))
               PROVE  /\ IsFiniteSet(PinsIn(Q, j))
                      /\ Cardinality(PinsIn(Q, j)) = Cardinality(PinsIn(P, j)) + (IF j = h.e THEN 1 ELSE 0)
    BY DEF OneMore
  <2>0. Cardinality(PinsIn(P, j)) \in Nat
    BY FS_CardinalityType
  <2>1. CASE j = h.e
    <3>1. PinsIn(Q, j) = PinsIn(P, j) \cup {z} /\ z \notin PinsIn(P, j)
      BY <2>1, <1>4, <1>5
    <3> HIDE DEF z
    <3>2. IsFiniteSet(PinsIn(Q, j)) /\ Cardinality(PinsIn(Q, j)) = Cardinality(PinsIn(P, j)) + 1
      BY ONLY IsFiniteSet(PinsIn(P, j)), <3>1, FS_AddElement
    <3>3. QED
      BY <2>1, <3>2
  <2>2. CASE j # h.e
    <3>1. PinsIn(Q, j) = PinsIn(P, j)
      BY <2>2, <1>4
    <3>2. QED
      BY ONLY <2>0, <2>2, <3>1, IsFiniteSet(PinsIn(P, j))
  <2>3. QED
    BY <2>1, <2>2
<1>7. QED
  BY <1>2, <1>3, <1>6

\* Giving back the oldest handle.
LEMMA UnpinDrops ==
    ASSUME NEW P, P \in [Threads -> Seq(Handles)], NEW t \in Threads, P[t] # <<>>,
           NEW Q, Q = [P EXCEPT ![t] = Tail(P[t])]
    PROVE  /\ Q \in [Threads -> Seq(Handles)] /\ Head(P[t]) \in Handles
           /\ 1 \in DOMAIN P[t] /\ P[t][1] = Head(P[t])
           /\ OneLess(P, Q, Head(P[t]).e) /\ Shrinks(P, Q)
<1> DEFINE n == Len(P[t])
           z == <<t, 1>>
           h == Head(P[t])
<1>1. /\ n \in Nat /\ n >= 1 /\ DOMAIN P[t] = 1..n /\ h \in Handles /\ h = P[t][1]
      /\ Tail(P[t]) \in Seq(Handles) /\ Len(Tail(P[t])) = n - 1 /\ DOMAIN Tail(P[t]) = 1..(n - 1)
      /\ \A k \in 1..(n - 1) : Tail(P[t])[k] = P[t][k + 1]
  <2>1. P[t] \in Seq(Handles)
    OBVIOUS
  <2>2. n \in Nat /\ n # 0 /\ DOMAIN P[t] = 1..n
    BY <2>1, EmptySeq, LenProperties
  <2>3. /\ h \in Handles /\ Tail(P[t]) \in Seq(Handles) /\ Len(Tail(P[t])) = n - 1
        /\ \A k \in 1..Len(Tail(P[t])) : Tail(P[t])[k] = P[t][k + 1]
    BY <2>1, HeadTailProperties
  <2>4. DOMAIN Tail(P[t]) = 1..(n - 1)
    BY <2>3, LenProperties
  <2>5. QED
    BY <2>2, <2>3, <2>4
<1>2. /\ Q \in [Threads -> Seq(Handles)] /\ Len(Q[t]) = n - 1 /\ DOMAIN Q[t] = 1..(n - 1)
      /\ \A k \in 1..(n - 1) : Q[t][k] = P[t][k + 1]
      /\ \A u \in Threads : u # t => Q[u] = P[u]
  BY <1>1
<1> HIDE DEF n, h
<1>3. ASSUME NEW u \in Threads, NEW k \in DOMAIN Q[u] PROVE \E m \in DOMAIN P[u] : Q[u][k] = P[u][m]
  <2>1. CASE u # t
    BY <2>1, <1>2
  <2>2. CASE u = t
    <3>1. k + 1 \in 1..n /\ Q[t][k] = P[t][k + 1]
      BY <2>2, <1>1, <1>2
    <3>2. QED
      BY <2>2, <3>1, <1>1
  <2>3. QED
    BY <2>1, <2>2
<1>4. ASSUME NEW j \in Entries, IsFiniteSet(PinsIn(P, j))
      PROVE  /\ IsFiniteSet(PinsIn(Q, j))
             /\ Cardinality(PinsIn(Q, j)) = Cardinality(PinsIn(P, j)) - (IF j = h.e THEN 1 ELSE 0)
  <2> DEFINE A == PinsIn(P, j) \ {z}
             B == PinsIn(Q, j)
             Back(x) == IF x[1] = t THEN <<t, x[2] - 1>> ELSE x
             f == [x \in A |-> Back(x)]
  <2>1. z \in PinsIn(P, j) <=> j = h.e
    <3>1. z \in PinsIn(P, j) => j = h.e
      <4>1. SUFFICES ASSUME z \in PinsIn(P, j) PROVE j = h.e
        OBVIOUS
      <4>2. PICK u \in Threads, k \in Nat : k \in 1..Len(P[u]) /\ z = <<u, k>> /\ P[u][k].e = j
        BY <4>1, PinMember
      <4>3. QED
        BY <4>2, <1>1
    <3>2. 1 \in 1..Len(P[t])
      BY <1>1 DEF n
    <3>3. QED
      BY <3>1, <3>2, <1>1, PinMember
  <2>2. ASSUME NEW x \in A
        PROVE  /\ Back(x) \in B
               /\ \/ x[1] # t /\ Back(x) = x
                  \/ x = <<t, x[2]>> /\ x[2] \in Nat /\ Back(x) = <<t, x[2] - 1>>
    <3>1. PICK u \in Threads, k \in Nat : k \in 1..Len(P[u]) /\ x = <<u, k>> /\ P[u][k].e = j
      BY PinMember
    <3>2. CASE u # t
      <4>1. x[1] # t /\ Back(x) = x
        BY <3>1, <3>2
      <4>2. x \in B
        BY <3>1, <3>2, <1>2, PinMember
      <4>3. QED
        BY <4>1, <4>2
    <3>3. CASE u = t
      <4>1. k \in 2..n /\ x[1] = t /\ x[2] = k /\ x = <<t, k>>
        BY <3>1, <3>3, <1>1 DEF n
      <4>2. k - 1 \in 1..(n - 1) /\ Q[t][k - 1] = P[t][(k - 1) + 1] /\ (k - 1) + 1 = k
        BY <4>1, <1>1, <1>2
      <4>3. <<t, k - 1>> \in B
        BY <3>1, <3>3, <4>2, <1>2, PinMember
      <4>4. QED
        BY <4>1, <4>3, <1>1
    <3>4. QED
      BY <3>2, <3>3
  <2>3. ASSUME NEW y \in B PROVE \E x \in A : y = Back(x)
    <3>1. PICK u \in Threads, k \in Nat : k \in 1..Len(Q[u]) /\ y = <<u, k>> /\ Q[u][k].e = j
      <4>1. Q \in [Threads -> Seq(Handles)] /\ y \in PinsIn(Q, j)
        BY <1>2
      <4>2. QED
        BY ONLY <4>1, PinMember
    <3>2. CASE u # t
      <4>1. y \in PinsIn(P, j) /\ y # z /\ Back(y) = y
        BY <3>1, <3>2, <1>2, PinMember
      <4>2. QED
        BY <4>1
    <3>3. CASE u = t
      <4>1. k \in 1..(n - 1) /\ k + 1 \in 1..Len(P[t]) /\ P[t][k + 1].e = j /\ y = <<t, k>>
        BY <3>1, <3>3, <1>1, <1>2 DEF n
      <4>2. <<t, k + 1>> \in PinsIn(P, j) /\ <<t, k + 1>> # z
        <5>1. k + 1 # 1
          BY <4>1, <1>1
        <5>2. <<t, k + 1>> \in PinsIn(P, j)
          BY ONLY <4>1, P \in [Threads -> Seq(Handles)], t \in Threads, PinMember
        <5>3. QED
          BY <5>1, <5>2
      <4>3. Back(<<t, k + 1>>) = <<t, k>>
        BY <4>1, <1>1
      <4>4. QED
        BY <4>1, <4>2, <4>3
    <3>4. QED
      BY <3>2, <3>3
  <2>4. \A x, y \in A : Back(x) = Back(y) => x = y
    <3> SUFFICES ASSUME NEW x \in A, NEW y \in A, Back(x) = Back(y) PROVE x = y
      OBVIOUS
    <3>1. /\ (x[1] # t /\ Back(x) = x) \/ (x = <<t, x[2]>> /\ x[2] \in Nat /\ Back(x) = <<t, x[2] - 1>>)
          /\ (y[1] # t /\ Back(y) = y) \/ (y = <<t, y[2]>> /\ y[2] \in Nat /\ Back(y) = <<t, y[2] - 1>>)
      BY <2>2
    <3> HIDE DEF A, Back
    <3>2. \A c : <<t, c>>[1] = t /\ <<t, c>>[2] = c
      OBVIOUS
    <3>3. CASE x[1] # t
      BY <3>1, <3>2, <3>3
    <3>4. CASE x[1] = t
      <4>1. y[1] = t
        BY <3>1, <3>2, <3>4
      <4>2. x[2] - 1 = y[2] - 1 /\ x[2] \in Nat /\ y[2] \in Nat
        BY <3>1, <3>2, <3>4, <4>1
      <4>3. x[2] = y[2]
        BY <4>2
      <4>4. QED
        BY <3>1, <3>4, <4>1, <4>3
    <3>5. QED
      BY <3>3, <3>4
  <2>5. IsFiniteSet(A) /\ Cardinality(A) = Cardinality(PinsIn(P, j)) - (IF j = h.e THEN 1 ELSE 0)
    <3>1. Cardinality(PinsIn(P, j)) \in Nat
      BY <1>4, FS_CardinalityType
    <3> HIDE DEF z
    <3>2. IsFiniteSet(A) /\ Cardinality(A) = IF z \in PinsIn(P, j) THEN Cardinality(PinsIn(P, j)) - 1
                                              ELSE Cardinality(PinsIn(P, j))
      BY ONLY IsFiniteSet(PinsIn(P, j)), FS_RemoveElement
    <3> HIDE DEF A
    <3>3. QED
      BY <2>1, <3>1, <3>2
  <2> HIDE DEF A, B, Back
  <2>6. f \in Bijection(A, B)
    <3>1. f \in [A -> B] /\ \A x \in A : f[x] = Back(x)
      BY <2>2
    <3> HIDE DEF f
    <3>2. QED
      BY <3>1, <2>3, <2>4 DEF Bijection, Injection, Surjection, IsInjective
  <2>7. ExistsBijection(A, B)
    BY <2>6 DEF ExistsBijection
  <2>8. IsFiniteSet(B) /\ Cardinality(B) = Cardinality(A)
    BY <2>5, <2>7, FS_Bijection
  <2>9. QED
    BY <2>5, <2>8 DEF B
<1>5. OneLess(P, Q, h.e)
  BY <1>4 DEF OneLess
<1>6. QED
  BY <1>1, <1>2, <1>3, <1>5 DEF h, Shrinks

-----------------------------------------------------------------------------
(* What the steps keep *)

\* A pinned entry has a positive count.
LEMMA Pinned ==
    ASSUME NEW s, NEW P, s \in Shards, P \in [Threads -> Seq(Handles)], Counted(s, P),
           NEW t \in Threads, NEW k \in DOMAIN P[t]
    PROVE  P[t][k] \in Handles /\ P[t][k].e \in Entries /\ s.entries[P[t][k].e].refs > 0
<1> DEFINE i == P[t][k].e
<1>1. P[t] \in Seq(Handles) /\ k \in 1..Len(P[t])
  BY LenProperties
<1>2. P[t][k] \in Handles
  BY <1>1, ElementOfSeq
<1>3. i \in Entries
  BY <1>2 DEF Handles
<1>4. <<t, k>> \in PinsIn(P, i)
  BY ONLY <1>1, P \in [Threads -> Seq(Handles)], t \in Threads, PinMember
<1> HIDE DEF i
<1>5. IsFiniteSet(PinsIn(P, i)) /\ s.entries[i].refs = Cardinality(PinsIn(P, i)) /\ PinsIn(P, i) # {}
  BY <1>3, <1>4 DEF Counted
<1>6. Cardinality(PinsIn(P, i)) \in Nat /\ Cardinality(PinsIn(P, i)) # 0
  BY <1>5, FS_EmptySet, FS_CardinalityType
<1>7. QED
  BY <1>2, <1>3, <1>5, <1>6 DEF i

\* The operations under the lock that only move and drop entries of the lists.
LEMMA MovesKeep ==
    ASSUME NEW s, NEW th, NEW P, Safe(s, th, P), P \in [Threads -> Seq(Handles)],
           th \in [Threads -> ThreadRec], NEW x, Moves(s, {}, x, {})
    PROVE  Safe(x, th, P)
<1>1. /\ Good(s, {}) /\ PinsGood(s, P) /\ Counted(s, P)
      /\ Holders(s, th) /\ Apart(th) /\ Kept(s, th)
  BY DEF Safe
<1>2. s \in Shards /\ EntriesGood(s) /\ ListsGood(s) /\ LinkedIn(s) \subseteq Entries /\ Good(x, {})
  BY <1>1, ShardParts DEF Good, Moves
<1>3. ASSUME NEW i \in LinkedIn(s)
      PROVE  ~s.entries[i].retired /\ ~s.entries[i].deleted /\ s.entries[i].freed = 0
  BY <1>2 DEF ListsGood, EntriesGood, LinkedIn
<1>4. /\ LinkedIn(x) \subseteq LinkedIn(s)
      /\ \A i \in Entries : Same(s.entries[i], x.entries[i]) \/ Dropped(s.entries[i], x.entries[i])
      /\ \A i \in Entries \ LinkedIn(s) : x.entries[i] = s.entries[i]
      /\ \A i \in LinkedIn(x) : Same(s.entries[i], x.entries[i])
      /\ \A i \in LinkedIn(s) \ LinkedIn(x) : Dropped(s.entries[i], x.entries[i])
  BY <1>2 DEF Moves, Evolves, Same
<1>5. PinsGood(x, P)
  <2> SUFFICES ASSUME NEW t \in Threads, NEW k \in DOMAIN P[t] PROVE Backed(x, P[t][k])
    BY DEF PinsGood
  <2>1. P[t][k].e \in Entries /\ s.entries[P[t][k].e].refs > 0 /\ Backed(s, P[t][k])
    BY <1>1, <1>2, Pinned DEF PinsGood
  <2> HIDE DEF Backed
  <2>2. PICK h : h = P[t][k]
    OBVIOUS
  <2>3. Backed(x, h)
    BY ONLY <2>1, <2>2, <1>4 DEF Backed, Same, Dropped
  <2>4. QED
    BY <2>2, <2>3
<1>6. Counted(x, P)
  <2>1. \A i \in Entries : x.entries[i].refs = s.entries[i].refs
    BY <1>4 DEF Same, Dropped, Freed
  <2>2. QED
    BY <2>1, <1>1 DEF Counted
<1>7. Holders(x, th)
  <2> SUFFICES ASSUME NEW t \in Threads PROVE Holds(x, th[t])
    BY DEF Holders
  <2>1. PICK u : u = th[t]
    OBVIOUS
  <2>2. Holds(s, u)
    BY <2>1, <1>1 DEF Holders
  <2>3. u.pc \in {"insert", "free", "claim"} => u.e \in Entries
    BY <2>2 DEF Holds, Plain
  <2>4. u.pc = "claim" => x.entries[u.e].retired
    BY <2>2, <2>3, <1>4 DEF Holds, Same, Dropped, Freed
  <2>5. u.pc \in {"insert", "free"} => x.entries[u.e] = s.entries[u.e]
    BY <2>2, <2>3, <1>3, <1>4 DEF Holds
  <2>6. Holds(x, u)
    BY <2>2, <2>4, <2>5, <1>4 DEF Holds
  <2>7. QED
    BY <2>1, <2>6
<1>8. Kept(x, th)
  <2> SUFFICES ASSUME NEW i \in Entries PROVE Cared(x, th, i)
    BY DEF Kept
  <2>1. CASE i \in LinkedIn(s) \ LinkedIn(x)
    <3>1. /\ Dropped(s.entries[i], x.entries[i]) /\ s.entries[i].refs \in Nat
          /\ ~s.entries[i].retired /\ ~s.entries[i].deleted /\ s.entries[i].freed = 0
      BY <2>1, <1>2, <1>3, <1>4, ShardParts DEF EntryRec
    <3>2. QED
      BY <3>1 DEF Dropped, Freed, Cared
  <2>2. CASE i \in LinkedIn(x)
    BY <2>2, <1>3, <1>4 DEF Same, Cared
  <2>3. CASE i \notin LinkedIn(s)
    BY <2>3, <1>1, <1>4 DEF Kept, Cared
  <2>4. QED
    BY <2>1, <2>2, <2>3
<1>9. QED
  BY <1>1, <1>2, <1>5, <1>6, <1>7, <1>8 DEF Safe

\* From s to x entry i gained one reference and nothing else changed but the lists.
Gains(s, x, i) ==
    /\ \A j \in Entries : j # i => Same(s.entries[j], x.entries[j])
    /\ LET e == s.entries[i]
           f == x.entries[i]
       IN  /\ f.page = e.page /\ f.pages = e.pages /\ f.keys = e.keys /\ f.refs = e.refs + 1
           /\ f.retired = e.retired /\ f.deleted = e.deleted /\ f.freed = e.freed

\* One more pin and one more reference keep pins and counts in step.
LEMMA PinKeeps ==
    ASSUME NEW s, NEW x, NEW P, s \in Shards, P \in [Threads -> Seq(Handles)], PinsGood(s, P), Counted(s, P),
           NEW t \in Threads, NEW h \in Handles, Gains(s, x, h.e), Backed(x, h),
           NEW Q, Q = [P EXCEPT ![t] = Append(P[t], h)]
    PROVE  Q \in [Threads -> Seq(Handles)] /\ PinsGood(x, Q) /\ Counted(x, Q)
<1>1. Q \in [Threads -> Seq(Handles)] /\ OneMore(P, Q, h.e) /\ FromHandles(P, Q, h)
  BY PinAdds
<1>2. h.e \in Entries /\ \A i \in Entries : s.entries[i].refs \in Nat
  BY ShardParts DEF Handles, EntryRec
<1>3. PinsGood(x, Q)
  <2>1. ASSUME NEW u \in Threads, NEW n \in DOMAIN P[u] PROVE Backed(x, P[u][n])
    <3>1. PICK g : g = P[u][n]
      OBVIOUS
    <3>2. Backed(s, g) /\ g.e \in Entries
      BY <3>1, Pinned DEF PinsGood
    <3>3. Backed(x, g)
      BY ONLY <3>2, Gains(s, x, h.e) DEF Backed, Gains, Same
    <3>4. QED
      BY <3>1, <3>3
  <2> SUFFICES ASSUME NEW u \in Threads, NEW k \in DOMAIN Q[u] PROVE Backed(x, Q[u][k])
    BY DEF PinsGood
  <2>2. Q[u][k] = h \/ \E n \in DOMAIN P[u] : Q[u][k] = P[u][n]
    BY <1>1 DEF FromHandles
  <2> HIDE DEF Backed
  <2>3. QED
    BY <2>1, <2>2
<1>4. Counted(x, Q)
  <2> SUFFICES ASSUME NEW i \in Entries
               PROVE  IsFiniteSet(PinsIn(Q, i)) /\ x.entries[i].refs = Cardinality(PinsIn(Q, i))
    BY DEF Counted
  <2>1. IsFiniteSet(PinsIn(P, i)) /\ s.entries[i].refs = Cardinality(PinsIn(P, i))
    BY DEF Counted
  <2>2. /\ IsFiniteSet(PinsIn(Q, i))
        /\ Cardinality(PinsIn(Q, i)) = s.entries[i].refs + (IF i = h.e THEN 1 ELSE 0)
    BY <2>1, <1>1 DEF OneMore
  <2>3. x.entries[i].refs = s.entries[i].refs + (IF i = h.e THEN 1 ELSE 0)
    BY <1>2 DEF Gains, Same
  <2>4. QED
    BY <2>2, <2>3
<1>5. QED
  BY <1>1, <1>3, <1>4

\* A hit: the entry under the key holds what was asked for, and gains a handle.
LEMMA HitKeeps ==
    ASSUME NEW s, NEW th, NEW P, Safe(s, th, P), P \in [Threads -> Seq(Handles)], th \in [Threads -> ThreadRec],
           NEW t \in Threads, NEW r \in Requests, Covers(s, r.page, r.pages),
           NEW h, h = [e |-> s.map[r.page], req |-> r],
           NEW Q, Q = [P EXCEPT ![t] = Append(P[t], h)]
    PROVE  Q \in [Threads -> Seq(Handles)] /\ Safe(hit_locked(s, s.map[r.page]), th, Q)
<1>1. PICK i : i = s.map[r.page]
  OBVIOUS
<1>2. PICK b : b = Bump(s, i)
  OBVIOUS
<1>3. /\ Good(s, {}) /\ PinsGood(s, P) /\ Counted(s, P)
      /\ Holders(s, th) /\ Apart(th) /\ Kept(s, th)
  BY DEF Safe
<1>4. s \in Shards /\ EntriesGood(s) /\ ListsGood(s) /\ MapGood(s, {}) /\ LinkedIn(s) \subseteq Entries
  BY <1>3, ShardParts DEF Good
<1>5. i \in LinkedIn(s) /\ r.page \in s.entries[i].keys
  BY <1>1, <1>4 DEF Covers, MapGood
<1>6. i \in Entries /\ s.entries[i] \in EntryRec
  BY <1>4, <1>5, ShardParts
<1>7. ~s.entries[i].retired /\ ~s.entries[i].deleted /\ s.entries[i].freed = 0
  BY <1>4, <1>5, <1>6 DEF ListsGood, EntriesGood, LinkedIn
<1>8. /\ Good(b, {}) /\ LinkedIn(b) = LinkedIn(s)
      /\ \A j \in Entries : j # i => b.entries[j] = s.entries[j]
      /\ b.entries[i] = [s.entries[i] EXCEPT !.refs = s.entries[i].refs + 1]
  BY <1>2, <1>3, <1>6, BumpGood
<1>9. Gains(s, b, i)
  BY <1>6, <1>8 DEF Gains, Same, EntryRec
<1>10. h \in Handles /\ h.e = i /\ h.req = r
  BY <1>1, <1>6 DEF Handles
<1>11. Backed(b, h)
  <2>1. /\ s.entries[i].page <= r.page /\ r.page - s.entries[i].page + r.pages <= s.entries[i].pages
        /\ r.page \in Nat /\ r.pages \in Nat
        /\ s.entries[i].page \in Nat /\ s.entries[i].pages \in Nat
    <3>1. r.page \in Nat /\ r.pages \in Nat
      <4>1. r.page \in Pages /\ r.pages \in 1..MaxPages
        BY DEF Requests
      <4>2. QED
        BY ONLY <4>1, Numbers
    <3>2. s.entries[i].page \in Nat /\ s.entries[i].pages \in Nat
      <4>1. s.entries[i].page \in Pages \cup {0} /\ s.entries[i].pages \in Nat
        BY <1>6 DEF EntryRec
      <4>2. s.entries[i].page \in Nat
        BY ONLY <4>1, Numbers
      <4>3. QED
        BY <4>1, <4>2
    <3>3. s.entries[i].page <= r.page
      BY <1>4, <1>5, <1>6 DEF EntriesGood
    <3>4. r.page - s.entries[i].page + r.pages <= s.entries[i].pages
      BY <1>1 DEF Covers
    <3>5. QED
      BY <3>1, <3>2, <3>3, <3>4
  <2>2. b.entries[i].page = s.entries[i].page /\ b.entries[i].pages = s.entries[i].pages /\ b.entries[i].freed = 0
    BY <1>7, <1>9 DEF Gains
  <2>3. QED
    BY ONLY <2>1, <2>2, <1>10 DEF Backed
<1>12. Q \in [Threads -> Seq(Handles)] /\ PinsGood(b, Q) /\ Counted(b, Q)
  BY <1>3, <1>4, <1>9, <1>10, <1>11, PinKeeps
<1>13. Holders(b, th)
  <2> SUFFICES ASSUME NEW u \in Threads PROVE Holds(b, th[u])
    BY DEF Holders
  <2>1. PICK v : v = th[u]
    OBVIOUS
  <2>2. Holds(s, v)
    BY <2>1, <1>3 DEF Holders
  <2>3. v.pc \in {"insert", "claim", "free"} => v.e \in Entries /\ v.e # i
    BY <2>2, <1>5, <1>7 DEF Holds, Plain
  <2>4. Holds(b, v)
    BY <2>2, <2>3, <1>8 DEF Holds
  <2>5. QED
    BY <2>1, <2>4
<1>14. Kept(b, th)
  <2> SUFFICES ASSUME NEW j \in Entries PROVE Cared(b, th, j)
    BY DEF Kept
  <2>1. CASE j = i
    BY <2>1, <1>5, <1>7, <1>8, <1>9 DEF Cared, Gains
  <2>2. CASE j # i
    BY <2>2, <1>3, <1>8 DEF Kept, Cared
  <2>3. QED
    BY <2>1, <2>2
<1>15. Safe(b, th, Q)
  BY <1>3, <1>8, <1>12, <1>13, <1>14 DEF Safe
<1>16. Moves(b, {}, hit_locked(s, i), {})
  BY <1>2, <1>3, <1>5, HitMoves
<1>17. Safe(hit_locked(s, i), th, Q)
  BY <1>12, <1>15, <1>16, MovesKeep
<1>18. QED
  BY <1>1, <1>12, <1>17

\* From s to x no entry but i changed, but for its list.
Elsewhere(s, x, i) ==
    \A j \in Entries : j # i => /\ Same(s.entries[j], x.entries[j])
                                /\ j \in LinkedIn(x) <=> j \in LinkedIn(s)

\* Thread t may leave u and x behind for the others that have entry i in their hands.
Agreed(th, t, i, u, x) ==
    \A w \in Threads : w # t /\ th[w].e = i =>
        /\ Holds(x, th[w]) /\ (u.e = i => th[w].pc # "insert" /\ u.pc # "insert")
        /\ ~(th[w].pc = "free" /\ u.pc = "free")

\* What happens to an entry without handles leaves the handles alone.
LEMMA UnpinnedKeeps ==
    ASSUME NEW s, NEW x, NEW P, s \in Shards, P \in [Threads -> Seq(Handles)], PinsGood(s, P), Counted(s, P),
           NEW i \in Entries, s.entries[i].refs = 0, x.entries[i].refs = 0, Elsewhere(s, x, i)
    PROVE  PinsGood(x, P) /\ Counted(x, P)
<1> USE DEF Elsewhere
<1>1. PinsGood(x, P)
  <2> SUFFICES ASSUME NEW u \in Threads, NEW k \in DOMAIN P[u] PROVE Backed(x, P[u][k])
    BY DEF PinsGood
  <2>1. PICK g : g = P[u][k]
    OBVIOUS
  <2>2. Backed(s, g) /\ g.e \in Entries /\ s.entries[g.e].refs > 0
    BY <2>1, Pinned DEF PinsGood
  <2>3. g.e # i
    BY <2>2
  <2>4. Same(s.entries[g.e], x.entries[g.e])
    BY <2>2, <2>3
  <2>5. Backed(x, g)
    BY ONLY <2>2, <2>4 DEF Backed, Same
  <2>6. QED
    BY <2>1, <2>5
<1>2. \A j \in Entries : x.entries[j].refs = s.entries[j].refs
  BY DEF Same
<1>3. QED
  BY <1>1, <1>2 DEF Counted

\* A step of thread t that changes entry i and no other, seen by the other threads.
LEMMA StepKeeps ==
    ASSUME NEW s, NEW th, NEW P, Safe(s, th, P), th \in [Threads -> ThreadRec],
           NEW t \in Threads, NEW i \in Entries, th[t].e \in {i, Nil},
           NEW u, u \in ThreadRec, u.e \in {i, Nil}, NEW v, v = [th EXCEPT ![t] = u],
           NEW x, NEW Q, Good(x, {}), PinsGood(x, Q), Counted(x, Q),
           Elsewhere(s, x, i), Agreed(th, t, i, u, x), Holds(x, u), Cared(x, v, i)
    PROVE  Safe(x, v, Q)
<1> USE DEF Elsewhere, Agreed
<1>1. Holders(s, th) /\ Apart(th) /\ Kept(s, th) /\ Good(s, {})
  BY DEF Safe
<1>2. v[t] = u /\ \A w \in Threads : w # t => v[w] = th[w]
  OBVIOUS
<1>3. Nil \notin Entries
  BY CacheAssumption
<1>4. Holders(x, v)
  <2> SUFFICES ASSUME NEW w \in Threads, w # t, th[w].e # i PROVE Holds(x, th[w])
    BY <1>2 DEF Holders
  <2>1. PICK y : y = th[w]
    OBVIOUS
  <2>2. Holds(s, y)
    BY <2>1, <1>1 DEF Holders
  <2>3. y.pc \notin Plain => y.e \in Entries /\ y.e # i
    BY <2>1, <2>2 DEF Holds
  <2>4. Holds(x, y)
    BY <2>2, <2>3 DEF Holds, Same, Plain
  <2>5. QED
    BY <2>1, <2>4
<1>5. Apart(v)
  <2> SUFFICES ASSUME NEW a \in Threads, NEW b \in Threads, a # b, v[a].e = v[b].e
               PROVE  v[a].pc # "insert" /\ ~(v[a].pc = "free" /\ v[b].pc = "free")
    BY DEF Apart
  <2>1. CASE a # t /\ b # t
    BY <2>1, <1>1, <1>2 DEF Apart
  <2>2. v[a].pc \in {"insert", "free"} => v[a].e \in Entries
    BY <1>4 DEF Holders, Holds, Plain
  <2>3. CASE a = t
    BY <2>2, <2>3, <1>2, <1>3
  <2>4. CASE b = t
    BY <2>2, <2>4, <1>2, <1>3
  <2>5. QED
    BY <2>1, <2>3, <2>4
<1>6. Kept(x, v)
  <2> SUFFICES ASSUME NEW j \in Entries, j # i PROVE Cared(x, v, j)
    BY DEF Kept
  <2>1. Cared(s, th, j) /\ Same(s.entries[j], x.entries[j]) /\ (j \in LinkedIn(x) <=> j \in LinkedIn(s))
    BY <1>1 DEF Kept
  <2>2. \A w \in Threads : th[w].e = j => v[w] = th[w]
    BY <1>2, <1>3
  <2>3. QED
    BY <2>1, <2>2 DEF Cared, Same
<1>7. QED
  BY <1>4, <1>5, <1>6 DEF Safe

\* A step that touches no entry.
LEMMA ThreadKeeps ==
    ASSUME NEW s, NEW th, NEW P, Safe(s, th, P), th \in [Threads -> ThreadRec],
           NEW t \in Threads, th[t].pc \in Plain,
           NEW u, u.pc \in Plain, u.e = Nil, NEW v, v = [th EXCEPT ![t] = u]
    PROVE  Safe(s, v, P)
<1>1. Holders(s, th) /\ Apart(th) /\ Kept(s, th)
  BY DEF Safe
<1>2. v[t] = u /\ (\A w \in Threads : w # t => v[w] = th[w]) /\ th[t].e = Nil /\ Nil \notin Entries
  BY <1>1, CacheAssumption DEF Holders, Holds
<1>3. Holders(s, v)
  <2>1. Holds(s, u)
    BY DEF Holds, Plain
  <2>2. QED
    BY <2>1, <1>1, <1>2 DEF Holders
<1>4. Apart(v)
  <2>1. \A w \in Threads : th[w].pc \in {"insert", "free"} => th[w].e # Nil
    BY <1>1, <1>2 DEF Holders, Holds, Plain
  <2>2. QED
    BY <2>1, <1>1, <1>2 DEF Apart, Plain
<1>5. Kept(s, v)
  <2> SUFFICES ASSUME NEW j \in Entries PROVE Cared(s, v, j)
    BY DEF Kept
  <2>1. Cared(s, th, j) /\ \A w \in Threads : th[w].e = j => v[w] = th[w]
    BY <1>1, <1>2 DEF Kept
  <2>2. QED
    BY <2>1 DEF Cared
<1>6. QED
  BY <1>3, <1>4, <1>5 DEF Safe

Idle == [pc |-> "idle", req |-> Nil, gated |-> FALSE, e |-> Nil]

\* An idle thread holds nothing.
LEMMA IdleHolds ==
    ASSUME NEW s
    PROVE  Holds(s, Idle) /\ Idle \in ThreadRec /\ Idle.e = Nil /\ Idle.pc = "idle"
<1>1. Idle.e = Nil /\ Idle.pc = "idle"
  BY DEF Idle
<1>2. Idle \in ThreadRec
  BY DEF Idle, ThreadRec, Steps
<1>3. QED
  BY <1>1, <1>2 DEF Holds, Plain

\* A filled entry: a fresh id in the hands of one thread.
Filled(r) ==
    [page |-> r.page, pages |-> r.pages, keys |-> {r.page} \cup r.aliases,
     status |-> "window", refs |-> 0, retired |-> FALSE, deleted |-> FALSE, freed |-> 0]
Unheld(th, i) == \A w \in Threads : th[w].e # i

FillStep(s, th, t, r, i, x, v) ==
    /\ th[t].pc = "fill" /\ r \in Requests /\ th[t].req = r
    /\ r.aliases \subseteq r.page..(r.page + r.pages - 1)
    /\ i \in Entries /\ s.entries[i].freed > 0 /\ Unheld(th, i)
    /\ x = [s EXCEPT !.entries[i] = Filled(r)]
    /\ v = [th EXCEPT ![t].pc = "insert", ![t].e = i]

\* A fill outside the lock keeps the invariant: the new entry is in one hand.
LEMMA FillKeeps ==
    ASSUME NEW s, NEW th, NEW P, Safe(s, th, P), P \in [Threads -> Seq(Handles)], th \in [Threads -> ThreadRec],
           NEW t \in Threads, NEW r, NEW i, NEW x, NEW v, FillStep(s, th, t, r, i, x, v)
    PROVE  Safe(x, v, P)
<1>0. PICK f : f = Filled(r)
  OBVIOUS
<1> USE <1>0 DEF FillStep
<1>1. PICK u : u = [th[t] EXCEPT !.pc = "insert", !.e = i]
  OBVIOUS
<1>2. /\ Good(s, {}) /\ PinsGood(s, P) /\ Counted(s, P)
      /\ Holders(s, th) /\ Kept(s, th)
  BY DEF Safe
<1>3. s \in Shards /\ EntriesGood(s) /\ ListsGood(s) /\ LinkedIn(s) \subseteq Entries /\ s.entries[i] \in EntryRec
  BY <1>2, ShardParts DEF Good
<1>4. s.entries[i].freed = 1 /\ s.entries[i].refs = 0
  BY <1>2, <1>3 DEF EntryRec, Kept, Cared
<1>5. i \notin LinkedIn(s)
  BY <1>3, <1>4 DEF ListsGood, EntriesGood, LinkedIn
<1>6. /\ f.page = r.page /\ f.pages = r.pages /\ f.refs = 0 /\ ~f.retired /\ ~f.deleted /\ f.freed = 0
      /\ f.keys = {r.page} \cup r.aliases /\ f.status = "window"
      /\ f = [page |-> r.page, pages |-> r.pages, keys |-> {r.page} \cup r.aliases,
              status |-> "window", refs |-> 0, retired |-> FALSE, deleted |-> FALSE, freed |-> 0]
  BY DEF Filled
<1>7. f \in EntryRec
  <2>1. r.page \in Pages /\ r.pages \in 1..MaxPages /\ r.aliases \subseteq Pages
    BY DEF Requests
  <2>2. r.pages \in Nat
    BY ONLY <2>1, Numbers
  <2>3. QED
    BY <1>6, <2>1, <2>2 DEF EntryRec, Segments
<1>8. \A p \in f.keys : f.page <= p
  <2>1. r.page \in Pages
    BY DEF Requests
  <2>2. r.page \in Nat
    BY ONLY <2>1, Numbers
  <2>3. QED
    BY <1>6, <2>2
<1>9. Changed(s, i, f, x)
  <2>1. Fits(s, i, f)
    BY <1>5, <1>6, <1>7, <1>8 DEF Fits
  <2>2. QED
    BY <1>2, <2>1, EntryGood
<1>10. PinsGood(x, P) /\ Counted(x, P)
  <2>1. x.entries[i].refs = 0 /\ Elsewhere(s, x, i)
    BY <1>6, <1>9 DEF Changed, Same, Elsewhere
  <2>2. QED
    BY <2>1, <1>2, <1>3, <1>4, UnpinnedKeeps
<1>11. /\ u \in ThreadRec /\ u.pc = "insert" /\ u.e = i /\ u.req = r /\ v = [th EXCEPT ![t] = u]
       /\ th[t].e = Nil
  BY <1>1, <1>2 DEF ThreadRec, Steps, Holders, Holds, Plain
<1>12. Holds(x, u)
  BY <1>5, <1>6, <1>9, <1>11 DEF Holds, Changed, Plain
<1>13. Cared(x, v, i)
  <2>1. v[t] = u
    BY <1>11
  <2>2. QED
    BY <2>1, <1>6, <1>9, <1>11 DEF Cared, Changed
<1>14. Elsewhere(s, x, i) /\ Agreed(th, t, i, u, x) /\ Good(x, {})
  BY <1>9 DEF Elsewhere, Agreed, Changed, Same, Unheld
<1>15. QED
  BY <1>10, <1>11, <1>12, <1>13, <1>14, StepKeeps

\* A filled entry that lost to another one, or is larger than the shard, is deleted.
LEMMA DropKeeps ==
    ASSUME NEW s, NEW th, NEW P, Safe(s, th, P), P \in [Threads -> Seq(Handles)], th \in [Threads -> ThreadRec],
           NEW t \in Threads, th[t].pc = "insert", NEW i, i = th[t].e,
           NEW x, x = drop_entry(s, i), NEW v, v = [th EXCEPT ![t] = Idle]
    PROVE  Safe(x, v, P)
<1>1. /\ Good(s, {}) /\ PinsGood(s, P) /\ Counted(s, P)
      /\ Holders(s, th) /\ Apart(th) /\ Kept(s, th)
  BY DEF Safe
<1>2. i \in Entries /\ s.entries[i].refs = 0 /\ ~s.entries[i].retired /\ i \notin LinkedIn(s)
  BY <1>1 DEF Holders, Holds, Plain
<1>3. Good(s, {i}) /\ (\A p \in DOMAIN s.map : s.map[p] # i) /\ s \in Shards
  BY <1>1, <1>2 DEF Good, MapGood, Detached
<1>4. Moves(s, {i}, x, {}) /\ LinkedIn(x) = LinkedIn(s)
  <2>1. {i} \ {i} = {} /\ i \in {i}
    OBVIOUS
  <2>2. QED
    BY ONLY <1>3, <2>1, x = drop_entry(s, i), DropMoves
<1>5. Good(x, {}) /\ x.entries[i] = Freed /\ \A j \in Entries : j # i => Same(s.entries[j], x.entries[j])
  <2>1. /\ \A j \in Entries \ (LinkedIn(s) \cup {i}) : x.entries[j] = s.entries[j]
        /\ \A j \in LinkedIn(s) : Same(s.entries[j], x.entries[j])
        /\ Dropped(s.entries[i], x.entries[i]) /\ Good(x, {})
    BY <1>2, <1>4 DEF Moves, Evolves
  <2>2. x.entries[i] = Freed
    BY <2>1, <1>2 DEF Dropped
  <2>3. QED
    BY <2>1, <2>2 DEF Same
<1>6. x.entries[i].freed = 1 /\ x.entries[i].deleted /\ x.entries[i].refs = 0
  BY <1>5 DEF Freed
<1>7. Elsewhere(s, x, i)
  BY <1>4, <1>5 DEF Elsewhere
<1>8. PinsGood(x, P) /\ Counted(x, P)
  BY <1>1, <1>2, <1>3, <1>6, <1>7, UnpinnedKeeps
<1>9. Cared(x, v, i)
  BY <1>6 DEF Cared
<1>10. Agreed(th, t, i, Idle, x)
  BY <1>1 DEF Apart, Agreed
<1>11. QED
  BY <1>2, <1>5, <1>7, <1>8, <1>9, <1>10, IdleHolds, StepKeeps

\* A filled entry enters the window, pinned.
LinkStep(s, th, P, t, r, i, h, x, v, Q) ==
    /\ th[t].pc = "insert" /\ i = th[t].e /\ r \in Requests /\ th[t].req = r
    /\ h = [e |-> i, req |-> r] /\ x = Link(s, i)
    /\ v = [th EXCEPT ![t] = Idle] /\ Q = [P EXCEPT ![t] = Append(P[t], h)]

\* Linking a filled entry and pinning it keeps the invariant.
LEMMA LinkKeeps ==
    ASSUME NEW s, NEW th, NEW P, Safe(s, th, P), P \in [Threads -> Seq(Handles)], th \in [Threads -> ThreadRec],
           NEW t \in Threads, NEW r, NEW i, NEW h, NEW x, NEW v, NEW Q, LinkStep(s, th, P, t, r, i, h, x, v, Q)
    PROVE  Safe(x, v, Q) /\ Q \in [Threads -> Seq(Handles)]
<1> USE DEF LinkStep
<1>1. /\ Good(s, {}) /\ PinsGood(s, P) /\ Counted(s, P)
      /\ Holders(s, th) /\ Apart(th) /\ Kept(s, th)
  BY DEF Safe
<1>2. /\ i \in Entries /\ s.entries[i].refs = 0 /\ ~s.entries[i].retired /\ i \notin LinkedIn(s)
      /\ s.entries[i].page = r.page /\ s.entries[i].pages = r.pages
  BY <1>1 DEF Holders, Holds, Plain
<1>3. s \in Shards /\ s.entries[i] \in EntryRec /\ EntriesGood(s)
  BY <1>1, <1>2, ShardParts DEF Good
<1>4. /\ Good(x, {}) /\ LinkedIn(x) = LinkedIn(s) \cup {i}
      /\ \A j \in Entries : j # i => Same(s.entries[j], x.entries[j])
      /\ Same([s.entries[i] EXCEPT !.refs = 1], x.entries[i])
  BY ONLY <1>1, <1>2, x = Link(s, i), LinkGood
<1>5. Gains(s, x, i)
  <2>1. PICK e : e = s.entries[i]
    OBVIOUS
  <2>2. PICK g : g = [e EXCEPT !.refs = 1]
    OBVIOUS
  <2>3. /\ g.page = e.page /\ g.pages = e.pages /\ g.keys = e.keys /\ g.refs = 1
        /\ g.retired = e.retired /\ g.deleted = e.deleted /\ g.freed = e.freed
    BY <2>1, <2>2, <1>3 DEF EntryRec
  <2>4. Same(g, x.entries[i]) /\ e.refs = 0
    BY <2>1, <2>2, <1>2, <1>4
  <2>5. QED
    BY ONLY <2>1, <2>3, <2>4, <1>4 DEF Gains, Same
<1>6. h \in Handles /\ h.e = i /\ h.req = r
  BY <1>2 DEF Handles
<1>7. ~s.entries[i].deleted /\ s.entries[i].freed = 0
  BY <1>2, <1>3 DEF EntriesGood
<1>8. Backed(x, h)
  <2>1. r.page \in Pages /\ r.pages \in 1..MaxPages
    BY DEF Requests
  <2>2. r.page \in Nat /\ r.pages \in Nat
    BY ONLY <2>1, Numbers
  <2>3. x.entries[i].page = r.page /\ x.entries[i].pages = r.pages /\ x.entries[i].freed = 0
    BY <1>2, <1>5, <1>7 DEF Gains
  <2>4. QED
    BY ONLY <2>2, <2>3, <1>6 DEF Backed
<1>9. Q \in [Threads -> Seq(Handles)] /\ PinsGood(x, Q) /\ Counted(x, Q)
  BY <1>1, <1>3, <1>5, <1>6, <1>8, PinKeeps
<1>10. Cared(x, v, i)
  BY <1>2, <1>4, <1>5, <1>7 DEF Cared, Gains
<1>11. Agreed(th, t, i, Idle, x) /\ Elsewhere(s, x, i)
  BY <1>1, <1>4 DEF Apart, Agreed, Elsewhere
<1>12. Safe(x, v, Q)
  BY <1>2, <1>4, <1>9, <1>10, <1>11, IdleHolds, StepKeeps
<1>13. QED
  BY <1>9, <1>12

\* Giving back a handle: the last one to do so looks at the entry again.
DecStep(s, th, P, t, i, x, v, Q) ==
    /\ th[t].pc = "idle" /\ P[t] # <<>> /\ i = Head(P[t]).e
    /\ x = [s EXCEPT !.entries[i].refs = @ - 1]
    /\ v = IF s.entries[i].refs = 1 THEN [th EXCEPT ![t].pc = "check", ![t].e = i] ELSE th
    /\ Q = [P EXCEPT ![t] = Tail(P[t])]

\* The decrement of an unpin keeps the invariant.
LEMMA DecKeeps ==
    ASSUME NEW s, NEW th, NEW P, Safe(s, th, P), P \in [Threads -> Seq(Handles)], th \in [Threads -> ThreadRec],
           NEW t \in Threads, NEW i, NEW x, NEW v, NEW Q, DecStep(s, th, P, t, i, x, v, Q)
    PROVE  Safe(x, v, Q) /\ Q \in [Threads -> Seq(Handles)]
<1> USE DEF DecStep
<1>1. /\ Good(s, {}) /\ PinsGood(s, P) /\ Counted(s, P)
      /\ Holders(s, th) /\ Apart(th) /\ Kept(s, th)
  BY DEF Safe
<1>2. PICK h : h = Head(P[t])
  OBVIOUS
<1>3. /\ Q \in [Threads -> Seq(Handles)] /\ h \in Handles /\ 1 \in DOMAIN P[t] /\ P[t][1] = h
      /\ OneLess(P, Q, i) /\ Shrinks(P, Q)
  BY <1>2, UnpinDrops
<1>4. s \in Shards /\ EntriesGood(s) /\ ListsGood(s)
  BY <1>1 DEF Good
<1>5. i \in Entries /\ s.entries[i].refs > 0 /\ s.entries[i].freed = 0 /\ s.entries[i] \in EntryRec
  <2>1. h.e \in Entries /\ s.entries[h.e].refs > 0 /\ Backed(s, h)
    BY <1>1, <1>3, <1>4, Pinned DEF PinsGood
  <2>2. QED
    BY <2>1, <1>2, <1>4, ShardParts DEF Backed
<1>6. PICK f : f = [s.entries[i] EXCEPT !.refs = s.entries[i].refs - 1]
  OBVIOUS
<1>7. /\ f \in EntryRec /\ f.page = s.entries[i].page /\ f.pages = s.entries[i].pages
      /\ f.keys = s.entries[i].keys /\ f.status = s.entries[i].status
      /\ f.retired = s.entries[i].retired /\ f.deleted = s.entries[i].deleted
      /\ f.freed = s.entries[i].freed /\ f.refs = s.entries[i].refs - 1
  <2>1. PICK e : e = s.entries[i]
    OBVIOUS
  <2>2. e \in EntryRec /\ e.refs \in Nat /\ e.refs > 0
    BY <2>1, <1>5 DEF EntryRec
  <2>3. PICK n : n = e.refs - 1
    OBVIOUS
  <2>4. n \in Nat
    BY ONLY <2>2, <2>3
  <2>5. f = [e EXCEPT !.refs = n]
    BY <2>1, <2>3, <1>6
  <2>6. /\ f \in EntryRec /\ f.page = e.page /\ f.pages = e.pages /\ f.keys = e.keys
        /\ f.status = e.status /\ f.retired = e.retired /\ f.deleted = e.deleted
        /\ f.freed = e.freed /\ f.refs = n
    BY ONLY <2>2, <2>4, <2>5 DEF EntryRec
  <2>7. QED
    BY ONLY <2>1, <2>3, <2>6
<1>8. Changed(s, i, f, x)
  <2>1. x = [s EXCEPT !.entries[i] = f]
    BY <1>6
  <2>2. i \in LinkedIn(s) => ~s.entries[i].retired
    BY <1>4 DEF ListsGood, LinkedIn
  <2>3. Fits(s, i, f)
    BY <2>2, <1>4, <1>5, <1>7 DEF Fits, EntriesGood
  <2>4. QED
    BY <1>1, <1>5, <2>1, <2>3, EntryGood
<1>9. Good(x, {}) /\ Elsewhere(s, x, i)
  BY <1>8 DEF Changed, Elsewhere, Same
<1>10. PinsGood(x, Q)
  <2>1. ASSUME NEW w \in Threads, NEW n \in DOMAIN P[w] PROVE Backed(x, P[w][n])
    <3>1. PICK g : g = P[w][n]
      OBVIOUS
    <3>2. Backed(s, g) /\ g.e \in Entries
      BY <3>1, <1>1, <1>4, Pinned DEF PinsGood
    <3>3. g.e = i => Backed(x, g)
      BY ONLY <3>2, <1>7, <1>8 DEF Backed, Changed
    <3>4. g.e # i => Backed(x, g)
      BY ONLY <3>2, <1>8 DEF Backed, Changed
    <3>5. QED
      BY <3>1, <3>3, <3>4
  <2> SUFFICES ASSUME NEW w \in Threads, NEW k \in DOMAIN Q[w] PROVE Backed(x, Q[w][k])
    BY DEF PinsGood
  <2>2. PICK n \in DOMAIN P[w] : Q[w][k] = P[w][n]
    BY <1>3 DEF Shrinks
  <2>3. QED
    BY <2>1, <2>2
<1>11. Counted(x, Q)
  <2> SUFFICES ASSUME NEW j \in Entries
               PROVE  IsFiniteSet(PinsIn(Q, j)) /\ x.entries[j].refs = Cardinality(PinsIn(Q, j))
    BY DEF Counted
  <2>1. IsFiniteSet(PinsIn(P, j)) /\ s.entries[j].refs = Cardinality(PinsIn(P, j)) /\ s.entries[j].refs \in Nat
    BY <1>1, <1>4, ShardParts DEF Counted, EntryRec
  <2>2. /\ IsFiniteSet(PinsIn(Q, j))
        /\ Cardinality(PinsIn(Q, j)) = s.entries[j].refs - (IF j = i THEN 1 ELSE 0)
    BY <2>1, <1>3 DEF OneLess
  <2>3. x.entries[j].refs = s.entries[j].refs - (IF j = i THEN 1 ELSE 0)
    <3>1. CASE j = i
      BY ONLY <3>1, <1>7, <1>8 DEF Changed
    <3>2. CASE j # i
      <4>1. x.entries[j] = s.entries[j]
        BY <3>2, <1>8 DEF Changed
      <4>2. QED
        BY ONLY <3>2, <4>1, <2>1
    <3>3. QED
      BY <3>1, <3>2
  <2>4. QED
    BY <2>2, <2>3
<1>12. PICK u : u = IF s.entries[i].refs = 1 THEN [th[t] EXCEPT !.pc = "check", !.e = i] ELSE th[t]
  OBVIOUS
<1>13. /\ u \in ThreadRec /\ v = [th EXCEPT ![t] = u] /\ th[t].e = Nil
       /\ u.e \in {i, Nil} /\ u.pc \in {"idle", "check"} /\ (u.pc = "idle" => u.e = Nil)
       /\ (s.entries[i].refs = 1 => u.e = i /\ u.pc = "check") /\ (u.pc = "check" => u.e = i)
  <2>1. th[t].e = Nil /\ th[t] \in ThreadRec
    BY <1>1 DEF Holders, Holds, Plain
  <2>2. CASE s.entries[i].refs = 1
    BY <2>1, <2>2, <1>5, <1>12 DEF ThreadRec, Steps
  <2>3. CASE s.entries[i].refs # 1
    BY <2>1, <2>3, <1>12
  <2>4. QED
    BY <2>2, <2>3
<1>14. Holds(x, u)
  BY <1>5, <1>13 DEF Holds, Plain
<1>15. \A w \in Threads : th[w].e = i => th[w].pc \notin {"insert", "free"}
  BY <1>1, <1>5 DEF Holders, Holds
<1>16. Agreed(th, t, i, u, x)
  <2> SUFFICES ASSUME NEW w \in Threads, th[w].e = i PROVE Holds(x, th[w])
    BY <1>13, <1>15 DEF Agreed
  <2>1. PICK y : y = th[w]
    OBVIOUS
  <2>2. Holds(s, y) /\ y.e = i /\ y.pc # "insert" /\ y.pc # "free"
    BY <2>1, <1>1, <1>15 DEF Holders
  <2>3. Holds(x, y)
    BY <2>2, <1>7, <1>8, ZenonT(40) DEF Holds, Changed
  <2>4. QED
    BY <2>1, <2>3
<1>17. Cared(x, v, i)
  <2>1. Cared(s, th, i) /\ v[t] = u
    BY <1>1, <1>5, <1>13 DEF Kept
  <2>2. ~s.entries[i].deleted /\ (~s.entries[i].retired => i \in LinkedIn(s))
    BY <2>1, <1>5, <1>15 DEF Cared
  <2>3. x.entries[i].refs = 0 => s.entries[i].refs = 1
    <3>1. x.entries[i].refs = s.entries[i].refs - 1 /\ s.entries[i].refs \in Nat
      BY ONLY <1>5, <1>7, <1>8 DEF Changed, EntryRec
    <3>2. QED
      BY ONLY <3>1
  <2>4. QED
    BY <2>1, <2>2, <2>3, <1>5, <1>7, <1>8, <1>13 DEF Cared, Changed
<1>18. Safe(x, v, Q)
  BY <1>5, <1>9, <1>10, <1>11, <1>13, <1>14, <1>16, <1>17, StepKeeps
<1>19. QED
  BY <1>3, <1>18

\* Leaving an entry that asks for nothing more of this thread.
LEMMA LeaveKeeps ==
    ASSUME NEW s, NEW th, NEW P, Safe(s, th, P), th \in [Threads -> ThreadRec],
           NEW t \in Threads, th[t].pc \in {"check", "claim"}, NEW i, i = th[t].e,
           ~s.entries[i].retired \/ s.entries[i].refs # 0 \/ s.entries[i].deleted,
           NEW v, v = [th EXCEPT ![t] = Idle]
    PROVE  Safe(s, v, P)
<1>1. /\ Good(s, {}) /\ PinsGood(s, P) /\ Counted(s, P)
      /\ Holders(s, th) /\ Apart(th) /\ Kept(s, th)
  BY DEF Safe
<1>2. i \in Entries
  BY <1>1 DEF Holders, Holds, Plain
<1>3. Elsewhere(s, s, i) /\ Agreed(th, t, i, Idle, s)
  <2>1. Idle.pc # "free" /\ (Idle.e # i)
    BY <1>2, IdleHolds, CacheAssumption
  <2>2. QED
    BY <2>1, <1>1 DEF Elsewhere, Agreed, Same, Holders
<1>4. Cared(s, v, i)
  <2>1. Cared(s, th, i) /\ \A w \in Threads : w # t => v[w] = th[w]
    BY <1>1, <1>2 DEF Kept
  <2>2. QED
    BY <2>1 DEF Cared
<1>5. QED
  BY <1>1, <1>2, <1>3, <1>4, IdleHolds, StepKeeps

\* Finding the entry retired.
LEMMA RetiredKeeps ==
    ASSUME NEW s, NEW th, NEW P, Safe(s, th, P), th \in [Threads -> ThreadRec],
           NEW t \in Threads, th[t].pc = "check", NEW i, i = th[t].e, s.entries[i].retired,
           NEW v, v = [th EXCEPT ![t].pc = "claim"]
    PROVE  Safe(s, v, P)
<1>1. /\ Good(s, {}) /\ PinsGood(s, P) /\ Counted(s, P)
      /\ Holders(s, th) /\ Apart(th) /\ Kept(s, th)
  BY DEF Safe
<1>2. i \in Entries
  BY <1>1 DEF Holders, Holds, Plain
<1>3. PICK u : u = [th[t] EXCEPT !.pc = "claim"]
  OBVIOUS
<1>4. u \in ThreadRec /\ u.pc = "claim" /\ u.e = i /\ v = [th EXCEPT ![t] = u]
  BY <1>3 DEF ThreadRec, Steps
<1>5. Holds(s, u)
  BY <1>2, <1>4 DEF Holds, Plain
<1>6. Elsewhere(s, s, i) /\ Agreed(th, t, i, u, s)
  BY <1>1, <1>4 DEF Elsewhere, Agreed, Same, Holders, Apart
<1>7. Cared(s, v, i)
  <2>1. Cared(s, th, i) /\ v[t] = u /\ \A w \in Threads : w # t => v[w] = th[w]
    BY <1>1, <1>2, <1>4 DEF Kept
  <2>2. QED
    BY <2>1, <1>4 DEF Cared
<1>8. QED
  BY <1>1, <1>2, <1>4, <1>5, <1>6, <1>7, StepKeeps

\* Claiming the deletion of a retired entry without handles.
ClaimStep(s, th, t, i, x, v) ==
    /\ th[t].pc = "claim" /\ i = th[t].e /\ s.entries[i].refs = 0 /\ ~s.entries[i].deleted
    /\ x = [s EXCEPT !.entries[i].deleted = TRUE]
    /\ v = [th EXCEPT ![t].pc = "free"]

\* The claim to delete keeps the invariant: one claimant wins.
LEMMA ClaimKeeps ==
    ASSUME NEW s, NEW th, NEW P, Safe(s, th, P), P \in [Threads -> Seq(Handles)], th \in [Threads -> ThreadRec],
           NEW t \in Threads, NEW i, NEW x, NEW v, ClaimStep(s, th, t, i, x, v)
    PROVE  Safe(x, v, P)
<1> USE DEF ClaimStep
<1>1. /\ Good(s, {}) /\ PinsGood(s, P) /\ Counted(s, P)
      /\ Holders(s, th) /\ Apart(th) /\ Kept(s, th)
  BY DEF Safe
<1>2. i \in Entries /\ s.entries[i].retired
  BY <1>1 DEF Holders, Holds, Plain
<1>3. s \in Shards /\ EntriesGood(s) /\ ListsGood(s) /\ s.entries[i] \in EntryRec
  BY <1>1, <1>2, ShardParts DEF Good
<1>4. i \notin LinkedIn(s) /\ s.entries[i].freed = 0 /\ Cared(s, th, i)
  BY <1>1, <1>2, <1>3 DEF ListsGood, LinkedIn, Kept, Cared, EntryRec
<1>5. PICK f : f = [s.entries[i] EXCEPT !.deleted = TRUE]
  OBVIOUS
<1>6. /\ f \in EntryRec /\ f.page = s.entries[i].page /\ f.keys = s.entries[i].keys
      /\ f.retired /\ f.deleted /\ f.freed = 0 /\ f.refs = 0
  BY <1>2, <1>3, <1>4, <1>5 DEF EntryRec
<1>7. Changed(s, i, f, x)
  <2>1. x = [s EXCEPT !.entries[i] = f]
    BY <1>5
  <2>2. Fits(s, i, f)
    BY <1>2, <1>3, <1>4, <1>6 DEF Fits, EntriesGood
  <2>3. QED
    BY <1>1, <1>2, <2>1, <2>2, EntryGood
<1>8. Good(x, {}) /\ Elsewhere(s, x, i) /\ x.entries[i] = f
  BY <1>7 DEF Changed, Elsewhere, Same
<1>9. PinsGood(x, P) /\ Counted(x, P)
  BY <1>1, <1>2, <1>3, <1>6, <1>8, UnpinnedKeeps
<1>10. PICK u : u = [th[t] EXCEPT !.pc = "free"]
  OBVIOUS
<1>11. u \in ThreadRec /\ u.pc = "free" /\ u.e = i /\ v = [th EXCEPT ![t] = u]
  BY <1>10 DEF ThreadRec, Steps
<1>12. Holds(x, u)
  BY <1>2, <1>6, <1>8, <1>11 DEF Holds, Plain
<1>13. Agreed(th, t, i, u, x)
  <2> SUFFICES ASSUME NEW w \in Threads, th[w].e = i, w # t
               PROVE  Holds(x, th[w]) /\ th[w].pc # "insert" /\ th[w].pc # "free"
    BY <1>11 DEF Agreed
  <2>1. PICK y : y = th[w]
    OBVIOUS
  <2>2. Holds(s, y) /\ y.e = i
    BY <2>1, <1>1 DEF Holders
  <2>3. y.pc # "insert" /\ y.pc # "free"
    BY <2>2, <1>2 DEF Holds
  <2>4. Holds(x, y)
    BY <2>2, <2>3, <1>6, <1>8 DEF Holds
  <2>5. QED
    BY <2>1, <2>3, <2>4
<1>14. Cared(x, v, i)
  <2>1. v[t] = u
    BY <1>11
  <2>2. QED
    BY <2>1, <1>6, <1>8, <1>11 DEF Cared
<1>15. QED
  BY <1>2, <1>8, <1>9, <1>11, <1>12, <1>13, <1>14, StepKeeps

\* Deleting a claimed entry.
LEMMA FreeKeeps ==
    ASSUME NEW s, NEW th, NEW P, Safe(s, th, P), P \in [Threads -> Seq(Handles)], th \in [Threads -> ThreadRec],
           NEW t \in Threads, th[t].pc = "free", NEW i, i = th[t].e,
           NEW x, x = Delete(s, i), NEW v, v = [th EXCEPT ![t] = Idle]
    PROVE  Safe(x, v, P)
<1>1. /\ Good(s, {}) /\ PinsGood(s, P) /\ Counted(s, P)
      /\ Holders(s, th) /\ Apart(th) /\ Kept(s, th)
  BY DEF Safe
<1>2. i \in Entries /\ s.entries[i].retired /\ s.entries[i].refs = 0 /\ s.entries[i].freed = 0
  BY <1>1 DEF Holders, Holds, Plain
<1>3. s \in Shards /\ ListsGood(s)
  BY <1>1 DEF Good
<1>4. i \notin LinkedIn(s)
  BY <1>2, <1>3 DEF ListsGood, LinkedIn
<1>5. x = [s EXCEPT !.entries[i] = Freed]
  <2>1. 1 + s.entries[i].freed = 1
    BY <1>2
  <2>2. [Freed EXCEPT !.freed = 1] = Freed
    BY DEF Freed
  <2>3. QED
    BY <2>1, <2>2 DEF Delete
<1>6. /\ Freed \in EntryRec /\ Freed.keys = {} /\ Freed.retired /\ Freed.deleted /\ Freed.freed = 1
      /\ Freed.refs = 0
  BY CacheAssumption DEF Freed, EntryRec, Segments
<1>7. Changed(s, i, Freed, x)
  <2>1. Fits(s, i, Freed)
    BY <1>4, <1>6 DEF Fits
  <2>2. QED
    BY <1>1, <1>2, <1>5, <2>1, EntryGood
<1>8. Good(x, {}) /\ Elsewhere(s, x, i) /\ x.entries[i] = Freed
  BY <1>7 DEF Changed, Elsewhere, Same
<1>9. PinsGood(x, P) /\ Counted(x, P)
  BY <1>1, <1>2, <1>3, <1>6, <1>8, UnpinnedKeeps
<1>10. Agreed(th, t, i, Idle, x)
  <2> SUFFICES ASSUME NEW w \in Threads, th[w].e = i, w # t PROVE Holds(x, th[w])
    BY <1>2, IdleHolds, CacheAssumption DEF Agreed
  <2>1. PICK y : y = th[w]
    OBVIOUS
  <2>2. Holds(s, y) /\ y.e = i /\ y.pc # "free" /\ y.pc # "insert"
    BY <2>1, <1>1, <1>2 DEF Holders, Apart, Holds
  <2>3. Holds(x, y)
    BY <2>2, <1>6, <1>8 DEF Holds
  <2>4. QED
    BY <2>1, <2>3
<1>11. Cared(x, v, i)
  BY <1>6, <1>8 DEF Cared
<1>12. QED
  BY <1>2, <1>8, <1>9, <1>10, <1>11, IdleHolds, StepKeeps

\* Clearing the map and the counters.
LEMMA ClearKeeps ==
    ASSUME NEW s, NEW th, NEW P, Safe(s, th, P),
           NEW x, x = [s EXCEPT !.map = <<>>, !.bytes = [l \in Segments |-> 0]]
    PROVE  Safe(x, th, P)
<1>1. /\ Good(s, {}) /\ PinsGood(s, P) /\ Counted(s, P)
      /\ Holders(s, th) /\ Apart(th) /\ Kept(s, th)
  BY DEF Safe
<1>2. s \in Shards /\ EntriesGood(s) /\ ListsGood(s)
  BY <1>1 DEF Good
<1>3. /\ x.entries = s.entries /\ x.list = s.list /\ x.map = <<>> /\ x.bytes = [l \in Segments |-> 0]
      /\ x = [entries |-> s.entries, list |-> s.list, bytes |-> x.bytes, map |-> <<>>]
  BY <1>2 DEF Shards
<1>4. x \in Shards
  <2>1. x.bytes \in [Segments -> 0..(Word - 1)]
    <3>1. 0 \in 0..(Word - 1)
      BY CacheAssumption
    <3>2. QED
      BY <1>3, <3>1
  <2>2. <<>> \in Maps
    <3>1. <<>> \in [{} -> Entries] /\ {} \in SUBSET Pages
      OBVIOUS
    <3>2. QED
      BY <3>1 DEF Maps
  <2>3. QED
    BY <1>2, <1>3, <2>1, <2>2 DEF Shards
<1>5. LinkedIn(x) = LinkedIn(s)
  BY <1>3 DEF LinkedIn
<1>6. Good(x, {})
  <2>1. MapGood(x, {})
    BY <1>3 DEF MapGood
  <2>2. EntriesGood(x) /\ ListsGood(x)
    BY <1>2, <1>3 DEF EntriesGood, ListsGood
  <2>3. QED
    BY <1>4, <2>1, <2>2 DEF Good, Detached
<1>7. PinsGood(x, P) /\ Counted(x, P)
  BY <1>1, <1>3 DEF PinsGood, Counted, Backed
<1>8. Holders(x, th) /\ Kept(x, th)
  BY <1>1, <1>3, <1>5 DEF Holders, Holds, Kept, Cared
<1>9. QED
  BY <1>1, <1>6, <1>7, <1>8 DEF Safe

-----------------------------------------------------------------------------
(* The actions *)

\* A request asks for pages of the file, its aliases within its extent.
LEMMA RequestTypes ==
    ASSUME workload \in Workloads, NEW r \in workload.requests
    PROVE  r \in Requests /\ r.aliases \subseteq r.page..(r.page + r.pages - 1)
BY CacheAssumption DEF IsWorkload

InPin == {"gate", "recheck", "admit", "fill", "insert"}

\* One thread's step keeps the types.
LEMMA TypesKeep ==
    ASSUME Types, NEW t \in Threads, NEW u \in ThreadRec, u.pc \in InPin => u.req \in workload.requests,
           thread' = [thread EXCEPT ![t] = u], workload' = workload,
           stripe' \in [0..(Stripes - 1) -> Threads \cup {Nil}], pins' \in [Threads -> Seq(Handles)]
    PROVE  Types'
<1>1. /\ workload \in Workloads /\ thread \in [Threads -> ThreadRec]
      /\ \A w \in Threads : thread[w].pc \in InPin => thread[w].req \in workload.requests
  BY DEF Types, InPin
<1>2. thread' \in [Threads -> ThreadRec] /\ thread'[t] = u /\ \A w \in Threads : w # t => thread'[w] = thread[w]
  BY <1>1
<1>3. QED
  BY <1>1, <1>2 DEF Types, InPin

\* Releasing a fill stripe keeps the types.
LEMMA UngateTypes ==
    ASSUME NEW t, stripe \in [0..(Stripes - 1) -> Threads \cup {Nil}], Ungate(t)
    PROVE  stripe' \in [0..(Stripes - 1) -> Threads \cup {Nil}]
BY DEF Ungate

\* The empty shard satisfies the invariant.
LEMMA InitHolds ==
    ASSUME Init
    PROVE  IInv
<1>1. Types
  <2>1. thread \in [Threads -> ThreadRec] /\ \A t \in Threads : thread[t].pc = "idle"
    <3>1. thread = [t \in Threads |-> Idle]
      BY DEF Init, Idle
    <3>2. QED
      BY <3>1, IdleHolds
  <2>2. pins \in [Threads -> Seq(Handles)]
    <3>1. <<>> \in Seq(Handles)
      BY EmptySeq
    <3>2. QED
      BY <3>1 DEF Init
  <2>3. workload \in Workloads /\ stripe \in [0..(Stripes - 1) -> Threads \cup {Nil}]
    BY DEF Init
  <2>4. QED
    BY <2>1, <2>2, <2>3 DEF Types
<1> DEFINE s == shard
<1>2. /\ s.entries = [i \in Entries |-> Freed] /\ s.list = [l \in Segments |-> <<>>]
      /\ s.bytes = [l \in Segments |-> 0] /\ s.map = <<>>
      /\ s = [entries |-> s.entries, list |-> s.list, bytes |-> s.bytes, map |-> <<>>]
  BY DEF Init, EmptyShard
<1>3. /\ Freed \in EntryRec /\ Freed.keys = {} /\ Freed.retired /\ Freed.deleted /\ Freed.freed = 1
      /\ Freed.refs = 0
  BY CacheAssumption DEF Freed, EntryRec, Segments
<1>4. LinkedIn(s) = {} /\ \A l \in Segments : Range(s.list[l]) = {} /\ IsInjective(s.list[l])
  <2>1. \A l \in Segments : s.list[l] = <<>>
    BY <1>2
  <2>2. Range(<<>>) = {} /\ IsInjective(<<>>)
    BY DEF Range, IsInjective
  <2>3. QED
    BY ONLY <2>1, <2>2 DEF LinkedIn
<1>5. s \in Shards
  <2>1. s.bytes \in [Segments -> 0..(Word - 1)]
    <3>1. 0 \in 0..(Word - 1)
      BY CacheAssumption
    <3>2. QED
      BY <1>2, <3>1
  <2>2. <<>> \in Maps
    <3>1. <<>> \in [{} -> Entries] /\ {} \in SUBSET Pages
      OBVIOUS
    <3>2. QED
      BY <3>1 DEF Maps
  <2>3. s.list \in [Segments -> Seq(Entries)]
    <3>1. <<>> \in Seq(Entries)
      BY EmptySeq
    <3>2. QED
      BY <3>1, <1>2
  <2>4. s.entries \in [Entries -> EntryRec]
    BY <1>2, <1>3
  <2>5. QED
    BY <1>2, <2>1, <2>2, <2>3, <2>4 DEF Shards
<1>6. Good(s, {})
  <2>1. EntriesGood(s)
    BY <1>2, <1>3 DEF EntriesGood
  <2>2. ListsGood(s)
    BY <1>4 DEF ListsGood
  <2>3. MapGood(s, {})
    BY <1>2 DEF MapGood
  <2>4. QED
    BY <1>5, <2>1, <2>2, <2>3 DEF Good, Detached
<1>7. PinsGood(s, pins) /\ Counted(s, pins)
  <2>1. \A t \in Threads : DOMAIN pins[t] = {}
    BY DEF Init
  <2>2. \A i \in Entries : PinsIn(pins, i) = {}
    BY <2>1 DEF PinsIn
  <2>3. PinsGood(s, pins)
    BY <2>1 DEF PinsGood
  <2>4. IsFiniteSet({}) /\ Cardinality({}) = 0
    BY FS_EmptySet
  <2>5. Counted(s, pins)
    <3>1. \A i \in Entries : s.entries[i].refs = 0
      BY <1>2, <1>3
    <3>2. QED
      BY ONLY <3>1, <2>2, <2>4 DEF Counted
  <2>6. QED
    BY <2>3, <2>5
<1>8. Holders(s, thread) /\ Apart(thread) /\ Kept(s, thread)
  <2>1. \A t \in Threads : thread[t] = Idle
    BY DEF Init, Idle
  <2>2. Holders(s, thread)
    BY <2>1, IdleHolds DEF Holders
  <2>3. Apart(thread)
    BY <2>1, IdleHolds DEF Apart
  <2>4. Kept(s, thread)
    BY <1>2, <1>3 DEF Kept, Cared
  <2>5. QED
    BY <2>2, <2>3, <2>4
<1>9. QED
  BY <1>1, <1>6, <1>7, <1>8 DEF IInv, Safe

\* The invariant through the first lookup of a pin.
LEMMA LookupKeeps ==
    ASSUME IInv, NEW t \in Threads, NEW r \in workload.requests, pin_lookup(t, r)
    PROVE  IInv'
<1>1. /\ Types /\ Safe(shard, thread, pins) /\ workload \in Workloads
      /\ thread \in [Threads -> ThreadRec] /\ pins \in [Threads -> Seq(Handles)]
      /\ stripe \in [0..(Stripes - 1) -> Threads \cup {Nil}]
  BY DEF IInv, Types
<1>2. r \in Requests /\ thread[t].pc = "idle" /\ workload' = workload /\ stripe' = stripe
  BY <1>1, RequestTypes DEF pin_lookup
<1>3. CASE Covers(shard, r.page, r.pages)
  <2>1. PICK h : h = [e |-> shard.map[r.page], req |-> r]
    OBVIOUS
  <2>2. /\ shard' = hit_locked(shard, shard.map[r.page]) /\ thread' = thread
        /\ pins' = [pins EXCEPT ![t] = Append(pins[t], h)]
    BY <1>3, <2>1 DEF pin_lookup, Pin
  <2>3. pins' \in [Threads -> Seq(Handles)] /\ Safe(shard', thread', pins')
    BY <1>1, <1>2, <1>3, <2>1, <2>2, HitKeeps
  <2>4. Types'
    BY <1>1, <1>2, <2>2, <2>3 DEF Types
  <2>5. QED
    BY <2>3, <2>4 DEF IInv
<1>4. CASE ~Covers(shard, r.page, r.pages)
  <2>1. PICK u : u = [thread[t] EXCEPT !.pc = "gate", !.req = r]
    OBVIOUS
  <2>2. thread' = [thread EXCEPT ![t] = u] /\ pins' = pins
    BY <1>4, <2>1 DEF pin_lookup
  <2>3. u \in ThreadRec /\ u.pc = "gate" /\ u.req = r /\ u.e = Nil
    <3>1. thread[t] \in ThreadRec /\ Holds(shard, thread[t])
      BY <1>1 DEF Safe, Holders
    <3>2. thread[t].e = Nil
      BY <3>1, <1>2 DEF Holds, Plain
    <3>3. QED
      BY <3>1, <3>2, <1>2, <2>1 DEF ThreadRec, Steps
  <2>4. Safe(shard', thread, pins)
    <3>1. Good(shard, {})
      BY <1>1 DEF Safe
    <3>2. Moves(shard, {}, shard', {})
      <4>1. CASE /\ r.page \in DOMAIN shard.map
                 /\ shard.entries[shard.map[r.page]].refs = 0
        <5>1. shard.map[r.page] \in LinkedIn(shard)
          BY <3>1, <4>1 DEF Good, MapGood
        <5>2. shard' = Evict(shard, shard.map[r.page])
          BY <1>4, <4>1 DEF pin_lookup
        <5>3. QED
          BY <3>1, <5>1, <5>2, EvictMoves
      <4>2. CASE ~(/\ r.page \in DOMAIN shard.map
                   /\ shard.entries[shard.map[r.page]].refs = 0)
        <5>1. shard' = shard
          BY <1>4, <4>2 DEF pin_lookup
        <5>2. QED
          BY <3>1, <5>1, MovesReflexive
      <4>3. QED
        BY <4>1, <4>2
    <3>3. QED
      BY <1>1, <3>2, MovesKeep
  <2>5. Safe(shard', thread', pins')
    <3>1. thread[t].pc \in Plain /\ u.pc \in Plain
      BY <1>2, <2>3 DEF Plain
    <3>2. QED
      BY <3>1, <1>1, <2>2, <2>3, <2>4, ThreadKeeps
  <2>6. Types'
    BY <1>1, <1>2, <2>2, <2>3, TypesKeep
  <2>7. QED
    BY <2>5, <2>6 DEF IInv
<1>5. QED
  BY <1>3, <1>4

\* A thread that moves on inside pin, or leaves it, without touching the shard.
LEMMA PlainKeeps ==
    ASSUME IInv, NEW t \in Threads, thread[t].pc \in Plain,
           NEW u \in ThreadRec, u.pc \in Plain, u.e = Nil, u.pc \in InPin => u.req \in workload.requests,
           thread' = [thread EXCEPT ![t] = u], UNCHANGED <<workload, shard, pins>>,
           stripe' \in [0..(Stripes - 1) -> Threads \cup {Nil}]
    PROVE  IInv'
<1>1. /\ Types /\ Safe(shard, thread, pins)
      /\ thread \in [Threads -> ThreadRec] /\ pins \in [Threads -> Seq(Handles)]
  BY DEF IInv, Types
<1>2. Types'
  BY <1>1, TypesKeep
<1>3. Safe(shard', thread', pins')
  BY <1>1, ThreadKeeps
<1>4. QED
  BY <1>2, <1>3 DEF IInv

\* What a thread inside pin knows.
LEMMA InPinFacts ==
    ASSUME IInv, NEW t \in Threads, thread[t].pc \in InPin
    PROVE  /\ thread[t] \in ThreadRec /\ thread[t].req \in workload.requests /\ thread[t].req \in Requests
           /\ thread[t].pc \in Plain => thread[t].e = Nil
<1>1. thread[t] \in ThreadRec /\ thread[t].req \in workload.requests /\ workload \in Workloads
  BY DEF IInv, Types, InPin
<1>2. Holds(shard, thread[t])
  BY DEF IInv, Safe, Holders
<1>3. thread[t].req \in Requests
  BY <1>1, RequestTypes
<1>4. QED
  BY <1>1, <1>2, <1>3 DEF Holds

\* The invariant through taking the fill stripe.
LEMMA GateKeeps ==
    ASSUME IInv, NEW t \in Threads, pin_gate(t)
    PROVE  IInv'
<1> DEFINE k == fill_stripe(thread[t].req.page)
<1>1. thread[t].pc = "gate" /\ UNCHANGED <<workload, shard, pins>>
  BY DEF pin_gate
<1>2. thread[t] \in ThreadRec /\ thread[t].req \in workload.requests /\ thread[t].e = Nil
  BY <1>1, InPinFacts DEF InPin, Plain
<1>3. stripe \in [0..(Stripes - 1) -> Threads \cup {Nil}]
  BY DEF IInv, Types
<1>4. CASE stripe[k] = Nil
  <2>1. PICK u : u = [thread[t] EXCEPT !.pc = "recheck", !.gated = TRUE]
    OBVIOUS
  <2>2. thread' = [thread EXCEPT ![t] = u] /\ stripe' = [stripe EXCEPT ![k] = t]
    BY <1>4, <2>1 DEF pin_gate
  <2>3. u \in ThreadRec /\ u.pc = "recheck" /\ u.e = Nil /\ u.req \in workload.requests
    BY <1>2, <2>1 DEF ThreadRec, Steps
  <2>4. stripe' \in [0..(Stripes - 1) -> Threads \cup {Nil}]
    BY <1>3, <2>2
  <2>5. QED
    BY <1>1, <2>2, <2>3, <2>4, PlainKeeps DEF Plain
<1>5. CASE stripe[k] # Nil
  <2>1. PICK u : u = [thread[t] EXCEPT !.pc = "admit"]
    OBVIOUS
  <2>2. thread' = [thread EXCEPT ![t] = u] /\ stripe' = stripe
    BY <1>5, <2>1 DEF pin_gate, Goto
  <2>3. u \in ThreadRec /\ u.pc = "admit" /\ u.e = Nil /\ u.req \in workload.requests
    BY <1>2, <2>1 DEF ThreadRec, Steps
  <2>4. QED
    BY <1>1, <1>3, <2>2, <2>3, PlainKeeps DEF Plain
<1>6. QED
  BY <1>4, <1>5

\* The invariant through the second lookup, with the stripe held.
LEMMA RecheckKeeps ==
    ASSUME IInv, NEW t \in Threads, pin_recheck(t)
    PROVE  IInv'
<1>0. PICK r : r = thread[t].req
  OBVIOUS
<1>1. /\ Types /\ Safe(shard, thread, pins) /\ workload \in Workloads
      /\ thread \in [Threads -> ThreadRec] /\ pins \in [Threads -> Seq(Handles)]
      /\ stripe \in [0..(Stripes - 1) -> Threads \cup {Nil}]
      /\ thread[t].pc = "recheck" /\ workload' = workload
  BY DEF IInv, Types, pin_recheck
<1>2. thread[t] \in ThreadRec /\ r \in workload.requests /\ r \in Requests /\ thread[t].e = Nil
  BY <1>0, <1>1, InPinFacts DEF InPin, Plain
<1>3. CASE Covers(shard, r.page, r.pages)
  <2>1. PICK h : h = [e |-> shard.map[r.page], req |-> r]
    OBVIOUS
  <2>2. /\ shard' = hit_locked(shard, shard.map[r.page]) /\ thread' = [thread EXCEPT ![t] = Idle]
        /\ pins' = [pins EXCEPT ![t] = Append(pins[t], h)] /\ Ungate(t)
    BY <1>0, <1>3, <2>1 DEF pin_recheck, Pin, Return, Idle
  <2>3. pins' \in [Threads -> Seq(Handles)] /\ Safe(shard', thread, pins')
    BY <1>1, <1>2, <1>3, <2>1, <2>2, HitKeeps
  <2>4. Safe(shard', thread', pins')
    <3>1. thread[t].pc \in Plain /\ Idle.pc \in Plain /\ Idle.e = Nil
      BY <1>1, IdleHolds DEF Plain
    <3>2. QED
      BY <3>1, <1>1, <2>2, <2>3, ThreadKeeps
  <2>5. Types'
    <3>1. stripe' \in [0..(Stripes - 1) -> Threads \cup {Nil}]
      BY <1>1, <2>2, UngateTypes
    <3>2. QED
      BY <3>1, <1>1, <2>2, <2>3, IdleHolds, TypesKeep DEF InPin
  <2>6. QED
    BY <2>4, <2>5 DEF IInv
<1>4. CASE ~Covers(shard, r.page, r.pages)
  <2>1. PICK u : u = [thread[t] EXCEPT !.pc = "admit"]
    OBVIOUS
  <2>2. thread' = [thread EXCEPT ![t] = u] /\ UNCHANGED <<workload, shard, pins>> /\ stripe' = stripe
    BY <1>0, <1>1, <1>4, <2>1 DEF pin_recheck, Goto
  <2>3. u \in ThreadRec /\ u.pc = "admit" /\ u.e = Nil /\ u.req \in workload.requests
    BY <1>0, <1>2, <2>1 DEF ThreadRec, Steps
  <2>4. QED
    BY <1>1, <2>2, <2>3, PlainKeeps DEF Plain
<1>5. QED
  BY <1>3, <1>4

\* The invariant through the admission decision of a pin.
LEMMA AdmitKeeps ==
    ASSUME IInv, NEW t \in Threads, NEW freq, pin_admit(t, freq)
    PROVE  IInv'
<1>1. /\ thread[t].pc = "admit" /\ UNCHANGED <<workload, shard, pins>>
      /\ stripe \in [0..(Stripes - 1) -> Threads \cup {Nil}]
  BY DEF pin_admit, IInv, Types
<1>2. thread[t] \in ThreadRec /\ thread[t].req \in workload.requests /\ thread[t].e = Nil
  BY <1>1, InPinFacts DEF InPin, Plain
<1>3. CASE Goto(t, "fill") /\ UNCHANGED stripe
  <2>1. PICK u : u = [thread[t] EXCEPT !.pc = "fill"]
    OBVIOUS
  <2>2. thread' = [thread EXCEPT ![t] = u]
    BY <1>3, <2>1 DEF Goto
  <2>3. u \in ThreadRec /\ u.pc = "fill" /\ u.e = Nil /\ u.req \in workload.requests
    BY <1>2, <2>1 DEF ThreadRec, Steps
  <2>4. QED
    BY <1>1, <1>3, <2>2, <2>3, PlainKeeps DEF Plain
<1>4. CASE Ungate(t) /\ Return(t)
  <2>1. thread' = [thread EXCEPT ![t] = Idle]
    BY <1>4 DEF Return, Idle
  <2>2. stripe' \in [0..(Stripes - 1) -> Threads \cup {Nil}]
    BY <1>1, <1>4, UngateTypes
  <2>3. QED
    BY <1>1, <2>1, <2>2, IdleHolds, PlainKeeps DEF Plain, InPin
<1>5. QED
  BY <1>3, <1>4 DEF pin_admit

\* The invariant through a read into a new entry.
LEMMA FillActionKeeps ==
    ASSUME IInv, NEW t \in Threads, pin_fill(t)
    PROVE  IInv'
<1>1. /\ Types /\ Safe(shard, thread, pins) /\ workload \in Workloads
      /\ thread \in [Threads -> ThreadRec] /\ pins \in [Threads -> Seq(Handles)]
      /\ stripe \in [0..(Stripes - 1) -> Threads \cup {Nil}]
      /\ thread[t].pc = "fill" /\ UNCHANGED <<workload, stripe, pins>> /\ FreshEntries # {}
  BY DEF IInv, Types, pin_fill
<1>2. PICK r : r = thread[t].req
  OBVIOUS
<1>3. PICK i : i = Min(FreshEntries)
  OBVIOUS
<1>4. PICK f : f = Filled(r)
  OBVIOUS
<1>5. thread[t] \in ThreadRec /\ r \in workload.requests
  BY <1>1, <1>2, InPinFacts DEF InPin, Plain
<1>6. r \in Requests /\ r.aliases \subseteq r.page..(r.page + r.pages - 1)
  BY <1>1, <1>5, RequestTypes
<1>7. i \in Entries /\ shard.entries[i].freed > 0 /\ Unheld(thread, i)
  <2>1. FreshEntries \subseteq Nat
    BY CacheAssumption DEF FreshEntries, Entries
  <2>2. i \in FreshEntries
    BY <1>1, <1>3, <2>1, MinFacts
  <2>3. QED
    BY <2>2 DEF FreshEntries, Unheld
<1>8. /\ shard' = [shard EXCEPT !.entries[i] = f]
      /\ thread' = [thread EXCEPT ![t].pc = "insert", ![t].e = i]
  BY <1>2, <1>3, <1>4 DEF pin_fill, Filled
<1>9. Safe(shard', thread', pins)
  <2>1. FillStep(shard, thread, t, r, i, shard', thread')
    BY <1>1, <1>2, <1>4, <1>6, <1>7, <1>8 DEF FillStep
  <2>2. QED
    BY <1>1, <2>1, FillKeeps
<1>10. Types'
  <2>1. PICK u : u = [thread[t] EXCEPT !.pc = "insert", !.e = i]
    OBVIOUS
  <2>2. u \in ThreadRec /\ u.req \in workload.requests
    BY <1>2, <1>5, <1>7, <2>1 DEF ThreadRec, Steps
  <2>3. thread' = [thread EXCEPT ![t] = u]
    BY <1>8, <2>1
  <2>4. QED
    BY <1>1, <2>2, <2>3, TypesKeep
<1>11. QED
  BY <1>1, <1>9, <1>10 DEF IInv

\* The invariant through a read that fails.
LEMMA FillThrowsKeeps ==
    ASSUME IInv, NEW t \in Threads, pin_fill_throws(t)
    PROVE  IInv'
<1>1. /\ thread[t].pc = "fill" /\ UNCHANGED <<workload, shard, pins>> /\ thread' = [thread EXCEPT ![t] = Idle]
      /\ stripe' \in [0..(Stripes - 1) -> Threads \cup {Nil}]
  BY DEF pin_fill_throws, IInv, Types, Return, Idle
<1>2. QED
  BY <1>1, IdleHolds, PlainKeeps DEF Plain, InPin

\* The invariant through the insertion of a filled entry, or its discard when the page is there.
LEMMA InsertKeeps ==
    ASSUME IInv, NEW t \in Threads, NEW freq, pin_insert(t, freq)
    PROVE  IInv'
<1>1. /\ Types /\ Safe(shard, thread, pins) /\ workload \in Workloads
      /\ thread \in [Threads -> ThreadRec] /\ pins \in [Threads -> Seq(Handles)]
      /\ stripe \in [0..(Stripes - 1) -> Threads \cup {Nil}]
      /\ thread[t].pc = "insert" /\ workload' = workload /\ thread' = [thread EXCEPT ![t] = Idle]
      /\ Ungate(t)
  BY DEF IInv, Types, pin_insert, Return, Idle
<1>2. PICK r : r = thread[t].req
  OBVIOUS
<1>3. PICK i : i = thread[t].e
  OBVIOUS
<1>4. thread[t] \in ThreadRec /\ r \in workload.requests /\ r \in Requests
  BY <1>1, <1>2, InPinFacts DEF InPin, Plain
<1>5. SUFFICES Safe(shard', thread', pins') /\ pins' \in [Threads -> Seq(Handles)]
  <2>1. stripe' \in [0..(Stripes - 1) -> Threads \cup {Nil}]
    BY <1>1, UngateTypes
  <2>2. Types'
    BY <1>1, <1>5, <2>1, IdleHolds, TypesKeep DEF InPin
  <2>3. QED
    BY <1>5, <2>2 DEF IInv
<1>6. CASE /\ Covers(shard, r.page, r.pages)
           /\ shard' = drop_entry(hit_locked(shard, shard.map[r.page]), i)
           /\ Pin(t, shard.map[r.page], r)
  <2>1. PICK h : h = [e |-> shard.map[r.page], req |-> r]
    OBVIOUS
  <2>2. PICK s : s = hit_locked(shard, shard.map[r.page])
    OBVIOUS
  <2>3. pins' = [pins EXCEPT ![t] = Append(pins[t], h)] /\ shard' = drop_entry(s, i)
    BY <1>6, <2>1, <2>2 DEF Pin
  <2>4. pins' \in [Threads -> Seq(Handles)] /\ Safe(s, thread, pins')
    BY <1>1, <1>4, <1>6, <2>1, <2>2, <2>3, HitKeeps
  <2>5. Safe(shard', thread', pins')
    BY <1>1, <1>3, <2>3, <2>4, DropKeeps
  <2>6. QED
    BY <2>4, <2>5
<1>7. CASE shard' = drop_entry(shard, i) /\ UNCHANGED pins
  BY <1>1, <1>3, <1>7, DropKeeps
<1>8. CASE shard' = insert_filled(shard, i, freq) /\ Pin(t, i, r)
  <2>1. PICK h : h = [e |-> i, req |-> r]
    OBVIOUS
  <2>2. PICK s : s = Link(shard, i)
    OBVIOUS
  <2>3. pins' = [pins EXCEPT ![t] = Append(pins[t], h)]
    BY <1>8, <2>1 DEF Pin
  <2>4. pins' \in [Threads -> Seq(Handles)] /\ Safe(s, thread', pins')
    <3>1. LinkStep(shard, thread, pins, t, r, i, h, s, thread', pins')
      BY <1>1, <1>2, <1>3, <1>4, <2>1, <2>2, <2>3 DEF LinkStep
    <3>2. QED
      BY <1>1, <3>1, LinkKeeps
  <2>5. Moves(s, {}, shard', {})
    <3>1. Good(s, {})
      BY <2>4 DEF Safe
    <3>2. shard' = Loop(LAMBDA x : AdmitFromWindow(x, freq), s, MaxEntries)
      BY <1>8, <2>2 DEF insert_filled
    <3>3. QED
      BY ONLY <3>1, <3>2, AdmitLoop DEF Loop
  <2>6. thread' \in [Threads -> ThreadRec]
    BY <1>1, IdleHolds
  <2>7. QED
    BY <2>4, <2>5, <2>6, MovesKeep
<1>9. QED
  BY <1>2, <1>3, <1>6, <1>7, <1>8 DEF pin_insert

\* The invariant through the decrement of an unpin.
LEMMA UnpinDecKeeps ==
    ASSUME IInv, NEW t \in Threads, unpin_dec(t)
    PROVE  IInv'
<1>1. /\ Types /\ Safe(shard, thread, pins)
      /\ thread \in [Threads -> ThreadRec] /\ pins \in [Threads -> Seq(Handles)]
      /\ stripe \in [0..(Stripes - 1) -> Threads \cup {Nil}]
      /\ thread[t].pc = "idle" /\ pins[t] # <<>> /\ UNCHANGED <<workload, stripe>>
      /\ pins' = [pins EXCEPT ![t] = Tail(pins[t])]
  BY DEF IInv, Types, unpin_dec
<1>2. PICK i : i = Head(pins[t]).e
  OBVIOUS
<1>3. /\ shard' = [shard EXCEPT !.entries[i].refs = @ - 1]
      /\ thread' = IF shard.entries[i].refs = 1 THEN [thread EXCEPT ![t].pc = "check", ![t].e = i] ELSE thread
  BY <1>2 DEF unpin_dec
<1>4. Safe(shard', thread', pins') /\ pins' \in [Threads -> Seq(Handles)]
  <2>1. DecStep(shard, thread, pins, t, i, shard', thread', pins')
    BY <1>1, <1>2, <1>3 DEF DecStep
  <2>2. QED
    BY <1>1, <2>1, DecKeeps
<1>5. Types'
  <2>1. CASE shard.entries[i].refs = 1
    <3>1. PICK u : u = [thread[t] EXCEPT !.pc = "check", !.e = i]
      OBVIOUS
    <3>2. i \in Entries
      <4>1. pins[t] \in Seq(Handles) /\ pins[t] # <<>>
        BY <1>1
      <4>2. Head(pins[t]) \in Handles
        BY ONLY <4>1, HeadTailProperties
      <4>3. QED
        BY <4>2, <1>2 DEF Handles
    <3>3. u \in ThreadRec /\ u.pc = "check" /\ thread' = [thread EXCEPT ![t] = u]
      BY <2>1, <3>1, <3>2, <1>1, <1>3 DEF ThreadRec, Steps
    <3>4. QED
      BY <1>1, <1>4, <3>3, TypesKeep DEF InPin
  <2>2. CASE shard.entries[i].refs # 1
    BY <2>2, <1>1, <1>3, <1>4 DEF Types
  <2>3. QED
    BY <2>1, <2>2
<1>6. QED
  BY <1>4, <1>5 DEF IInv

\* The invariant through the retired check of an unpin.
LEMMA UnpinCheckKeeps ==
    ASSUME IInv, NEW t \in Threads, unpin_check(t)
    PROVE  IInv'
<1>1. /\ Types /\ Safe(shard, thread, pins)
      /\ thread \in [Threads -> ThreadRec] /\ pins \in [Threads -> Seq(Handles)]
      /\ stripe \in [0..(Stripes - 1) -> Threads \cup {Nil}]
      /\ thread[t].pc = "check" /\ UNCHANGED <<workload, shard, stripe, pins>>
  BY DEF IInv, Types, unpin_check
<1>2. CASE shard.entries[thread[t].e].retired
  <2>1. PICK u : u = [thread[t] EXCEPT !.pc = "claim"]
    OBVIOUS
  <2>2. /\ thread' = [thread EXCEPT ![t].pc = "claim"] /\ thread' = [thread EXCEPT ![t] = u]
        /\ u \in ThreadRec /\ u.pc = "claim"
    BY <1>1, <1>2, <2>1 DEF unpin_check, Goto, ThreadRec, Steps
  <2>3. Types'
    BY <1>1, <2>2, TypesKeep DEF InPin
  <2>4. Safe(shard, thread', pins)
    BY <1>1, <1>2, <2>2, RetiredKeeps
  <2>5. QED
    BY <1>1, <2>3, <2>4 DEF IInv
<1>3. CASE ~shard.entries[thread[t].e].retired
  <2>1. thread' = [thread EXCEPT ![t] = Idle]
    BY <1>3 DEF unpin_check, Return, Idle
  <2>2. Types'
    BY <1>1, <2>1, IdleHolds, TypesKeep DEF InPin
  <2>3. Safe(shard, thread', pins)
    BY <1>1, <1>3, <2>1, LeaveKeeps
  <2>4. QED
    BY <1>1, <2>2, <2>3 DEF IInv
<1>4. QED
  BY <1>2, <1>3

\* The invariant through the exchange that claims the deletion.
LEMMA UnpinClaimKeeps ==
    ASSUME IInv, NEW t \in Threads, unpin_claim(t)
    PROVE  IInv'
<1>1. /\ Types /\ Safe(shard, thread, pins)
      /\ thread \in [Threads -> ThreadRec] /\ pins \in [Threads -> Seq(Handles)]
      /\ stripe \in [0..(Stripes - 1) -> Threads \cup {Nil}]
      /\ thread[t].pc = "claim" /\ UNCHANGED <<workload, stripe, pins>>
  BY DEF IInv, Types, unpin_claim
<1>2. PICK i : i = thread[t].e
  OBVIOUS
<1>3. CASE shard.entries[i].refs = 0 /\ ~shard.entries[i].deleted
  <2>1. PICK u : u = [thread[t] EXCEPT !.pc = "free"]
    OBVIOUS
  <2>2. /\ thread' = [thread EXCEPT ![t].pc = "free"] /\ thread' = [thread EXCEPT ![t] = u]
        /\ u \in ThreadRec /\ u.pc = "free"
        /\ shard' = [shard EXCEPT !.entries[i].deleted = TRUE]
    BY <1>1, <1>2, <1>3, <2>1 DEF unpin_claim, Goto, ThreadRec, Steps
  <2>3. Types'
    BY <1>1, <2>2, TypesKeep DEF InPin
  <2>4. Safe(shard', thread', pins)
    <3>1. ClaimStep(shard, thread, t, i, shard', thread')
      BY <1>1, <1>2, <1>3, <2>2 DEF ClaimStep
    <3>2. QED
      BY <1>1, <3>1, ClaimKeeps
  <2>5. QED
    BY <1>1, <2>3, <2>4 DEF IInv
<1>4. CASE ~(shard.entries[i].refs = 0 /\ ~shard.entries[i].deleted)
  <2>1. thread' = [thread EXCEPT ![t] = Idle] /\ shard' = shard
    BY <1>2, <1>4 DEF unpin_claim, Return, Idle
  <2>2. Types'
    BY <1>1, <2>1, IdleHolds, TypesKeep DEF InPin
  <2>3. Safe(shard, thread', pins)
    BY <1>1, <1>2, <1>4, <2>1, LeaveKeeps
  <2>4. QED
    BY <1>1, <2>1, <2>2, <2>3 DEF IInv
<1>5. QED
  BY <1>3, <1>4

\* The invariant through the deletion by the last unpin.
LEMMA UnpinFreeKeeps ==
    ASSUME IInv, NEW t \in Threads, unpin_free(t)
    PROVE  IInv'
<1>1. /\ Types /\ Safe(shard, thread, pins)
      /\ thread \in [Threads -> ThreadRec] /\ pins \in [Threads -> Seq(Handles)]
      /\ stripe \in [0..(Stripes - 1) -> Threads \cup {Nil}]
      /\ thread[t].pc = "free" /\ UNCHANGED <<workload, stripe, pins>>
      /\ shard' = Delete(shard, thread[t].e) /\ thread' = [thread EXCEPT ![t] = Idle]
  BY DEF IInv, Types, unpin_free, Return, Idle
<1>2. Types'
  BY <1>1, IdleHolds, TypesKeep DEF InPin
<1>3. Safe(shard', thread', pins)
  BY <1>1, FreeKeeps
<1>4. QED
  BY <1>1, <1>2, <1>3 DEF IInv

\* The invariant through an invalidation, pinned entries included.
LEMMA InvalidateKeeps ==
    ASSUME IInv, invalidate_all
    PROVE  IInv'
<1>1. /\ Types /\ Safe(shard, thread, pins)
      /\ thread \in [Threads -> ThreadRec] /\ pins \in [Threads -> Seq(Handles)]
      /\ UNCHANGED <<workload, stripe, thread, pins>>
  BY DEF IInv, Types, invalidate_all
<1>2. PICK s : s = Loop(DropNamed, shard, MaxEntries)
  OBVIOUS
<1>3. Moves(shard, {}, s, {})
  BY <1>1, <1>2, DropLoop DEF Safe
<1>4. Safe(s, thread, pins)
  BY <1>1, <1>3, MovesKeep
<1>5. shard' = [s EXCEPT !.map = <<>>, !.bytes = [l \in Segments |-> 0]]
  BY <1>2 DEF invalidate_all
<1>6. Safe(shard', thread, pins)
  BY <1>4, <1>5, ClearKeeps
<1>7. QED
  BY <1>1, <1>6 DEF IInv, Types

\* Every step keeps the invariant.
LEMMA StepHolds ==
    ASSUME IInv, [Next]_vars
    PROVE  IInv'
<1>1. CASE UNCHANGED vars
  BY <1>1 DEF vars, IInv, Types
<1>2. CASE invalidate_all
  BY <1>2, InvalidateKeeps
<1>3. ASSUME NEW t \in Threads, NEW r \in workload.requests, pin_lookup(t, r) PROVE IInv'
  BY <1>3, LookupKeeps
<1>4. ASSUME NEW t \in Threads, pin_gate(t) PROVE IInv'
  BY <1>4, GateKeeps
<1>5. ASSUME NEW t \in Threads, pin_recheck(t) PROVE IInv'
  BY <1>5, RecheckKeeps
<1>6. ASSUME NEW t \in Threads, NEW freq \in [Pages -> Frequencies], pin_admit(t, freq) PROVE IInv'
  BY <1>6, AdmitKeeps
<1>7. ASSUME NEW t \in Threads, NEW freq \in [Pages -> Frequencies], pin_insert(t, freq) PROVE IInv'
  BY <1>7, InsertKeeps
<1>8. ASSUME NEW t \in Threads, pin_fill(t) PROVE IInv'
  BY <1>8, FillActionKeeps
<1>9. ASSUME NEW t \in Threads, pin_fill_throws(t) PROVE IInv'
  BY <1>9, FillThrowsKeeps
<1>10. ASSUME NEW t \in Threads, unpin_dec(t) PROVE IInv'
  BY <1>10, UnpinDecKeeps
<1>11. ASSUME NEW t \in Threads, unpin_check(t) PROVE IInv'
  BY <1>11, UnpinCheckKeeps
<1>12. ASSUME NEW t \in Threads, unpin_claim(t) PROVE IInv'
  BY <1>12, UnpinClaimKeeps
<1>13. ASSUME NEW t \in Threads, unpin_free(t) PROVE IInv'
  BY <1>13, UnpinFreeKeeps
<1>14. QED
  BY <1>1, <1>2, <1>3, <1>4, <1>5, <1>6, <1>7, <1>8, <1>9, <1>10, <1>11, <1>12, <1>13 DEF Next

-----------------------------------------------------------------------------
(* The byte counters *)

\* An entry that exists has the extent and the keys of one of the workload's requests.
Asked(e) ==
    \E r \in workload.requests :
        e.page = r.page /\ e.pages = r.pages /\ e.keys = {r.page} \cup r.aliases
Origin(s) == \A i \in Entries : s.entries[i].freed = 0 => Asked(s.entries[i])

\* The extents of the workload have one size.
Alike == \A r, q \in workload.requests : r.pages = q.pages

\* An index that is mutated while its extents are cached has them pinned one leaf at a
\* time, under their first page alone.
Invalidable ==
    workload.invalidates =>
        \A r \in workload.requests :
            /\ r.aliases \subseteq {r.page}
            /\ \A q \in workload.requests : q.page = r.page => q.pages = r.pages

Tally(s) ==
    /\ Exact(s) /\ Origin(s) /\ (workload.invalidates => Named(s))
    /\ Alike => Main(s) <= MaxMain

\* Main's budget is a number.
LEMMA BudgetNat ==
    ASSUME workload \in Workloads
    PROVE  MaxMain \in Nat
BY CacheAssumption DEF IsWorkload, MaxMain

\* A move keeps the counters, and the budget when main does not grow past it.
LEMMA TallyMoves ==
    ASSUME NEW s, Good(s, {}), Tally(s), NEW x, Moves(s, {}, x, {}), Alike => Main(x) <= MaxMain
    PROVE  Tally(x)
<1>1. Exact(x)
  BY DEF Tally, Moves
<1>2. Origin(x)
  <2> SUFFICES ASSUME NEW i \in Entries, x.entries[i].freed = 0 PROVE Asked(x.entries[i])
    BY DEF Origin
  <2>1. Evolves(s, x, LinkedIn(s), LinkedIn(x)) /\ Origin(s)
    BY DEF Moves, Tally
  <2>2. Freed.freed = 1
    BY DEF Freed
  <2>3. /\ x.entries[i].page = s.entries[i].page /\ x.entries[i].pages = s.entries[i].pages
        /\ x.entries[i].keys = s.entries[i].keys /\ x.entries[i].freed = s.entries[i].freed
    BY <2>1, <2>2 DEF Evolves, Same, Dropped
  <2>4. QED
    BY <2>1, <2>3 DEF Origin, Asked
<1>3. workload.invalidates => Named(x)
  BY NamedKept DEF Tally
<1>4. QED
  BY <1>1, <1>2, <1>3 DEF Tally

\* A change inside one entry that keeps a linked entry's size keeps the counters.
LEMMA TallyChange ==
    ASSUME NEW s, Good(s, {}), Tally(s), NEW i \in Entries, NEW x,
           x.list = s.list, x.bytes = s.bytes, x.map = s.map,
           \A j \in Entries : j # i => x.entries[j] = s.entries[j],
           i \in LinkedIn(s) => x.entries[i].pages = s.entries[i].pages,
           x.entries[i].freed = 0 => Asked(x.entries[i])
    PROVE  Tally(x)
<1>1. Exact(s) /\ Origin(s) /\ LinkedIn(s) \subseteq Entries
  BY ShardParts DEF Tally, Good
<1>2. Exact(x)
  <2>1. \A j \in LinkedIn(s) : x.entries[j].pages = s.entries[j].pages
    BY <1>1
  <2>2. QED
    BY <1>1, <2>1, ExactKept
<1>3. Origin(x)
  BY <1>1 DEF Origin
<1>4. LinkedIn(x) = LinkedIn(s)
  BY DEF LinkedIn
<1>5. workload.invalidates => Named(x)
  BY <1>4 DEF Named, Tally
<1>6. Main(x) = Main(s)
  BY DEF Main
<1>7. QED
  BY <1>2, <1>3, <1>5, <1>6 DEF Tally

\* The same, when the entry keeps its extent and its keys.
LEMMA TallyTouch ==
    ASSUME NEW s, Good(s, {}), Tally(s), NEW i \in Entries, NEW f,
           f.page = s.entries[i].page, f.pages = s.entries[i].pages, f.keys = s.entries[i].keys,
           f.freed = s.entries[i].freed, NEW x, x = [s EXCEPT !.entries[i] = f]
    PROVE  Tally(x)
<1>1. s \in Shards
  BY DEF Good
<1>2. x.entries = [s.entries EXCEPT ![i] = f] /\ x.list = s.list /\ x.bytes = s.bytes /\ x.map = s.map
  BY <1>1 DEF Shards
<1>3. s.entries \in [Entries -> EntryRec]
  BY <1>1, ShardParts
<1>4. x.entries[i] = f /\ \A j \in Entries : j # i => x.entries[j] = s.entries[j]
  BY <1>2, <1>3
<1>5. x.entries[i].freed = 0 => Asked(x.entries[i])
  <2>1. s.entries[i].freed = 0 => Asked(s.entries[i])
    BY DEF Tally, Origin
  <2>2. Asked(s.entries[i]) => Asked(f)
    BY DEF Asked
  <2>3. QED
    BY <1>4, <2>1, <2>2
<1>6. i \in LinkedIn(s) => x.entries[i].pages = s.entries[i].pages
  BY <1>4
<1>7. QED
  BY ONLY Good(s, {}), Tally(s), i \in Entries, <1>2, <1>4, <1>5, <1>6, TallyChange

\* The counters through a hit, with its promotion, demotions and evictions.
LEMMA TallyHit ==
    ASSUME workload \in Workloads, NEW s, Good(s, {}), Tally(s), NEW i \in LinkedIn(s)
    PROVE  Tally(hit_locked(s, i))
<1>1. PICK b : b = Bump(s, i)
  OBVIOUS
<1>2. PICK f : f = [s.entries[i] EXCEPT !.refs = s.entries[i].refs + 1]
  OBVIOUS
<1>3. i \in Entries /\ s.entries[i] \in EntryRec
  BY ShardParts DEF Good
<1>4. /\ f.page = s.entries[i].page /\ f.pages = s.entries[i].pages /\ f.keys = s.entries[i].keys
      /\ f.freed = s.entries[i].freed
  BY <1>2, <1>3 DEF EntryRec
<1>5. b = [s EXCEPT !.entries[i] = f]
  BY <1>1, <1>2 DEF Bump
<1>6. Tally(b)
  BY <1>3, <1>4, <1>5, TallyTouch
<1>7. Good(b, {})
  BY <1>1, <1>3, BumpGood
<1>8. Moves(b, {}, hit_locked(s, i), {}) /\ Slack(b, hit_locked(s, i))
  BY <1>1, HitMoves
<1>9. Alike => Main(hit_locked(s, i)) <= MaxMain
  <2>1. Exact(b) /\ (Alike => Main(b) <= MaxMain)
    BY <1>6 DEF Tally
  <2>2. Main(hit_locked(s, i)) <= Main(b)
    BY <1>8, <2>1 DEF Slack
  <2>3. Main(b) \in Nat /\ Main(hit_locked(s, i)) \in Nat
    BY <1>7, <1>8, MainNat DEF Moves
  <2>4. QED
    BY <2>1, <2>2, <2>3, BudgetNat
<1>10. QED
  BY <1>6, <1>7, <1>8, <1>9, TallyMoves

\* The counters through the eviction of an entry that does not hold what is asked for.
LEMMA TallyEvict ==
    ASSUME workload \in Workloads, NEW s, Good(s, {}), Tally(s), NEW i \in LinkedIn(s)
    PROVE  Tally(Evict(s, i))
<1>1. PICK x : x = Evict(s, i)
  OBVIOUS
<1>2. Moves(s, {}, x, {})
  BY <1>1, EvictMoves
<1>3. Main(x) <= Main(s) /\ Main(x) \in Nat /\ Main(s) \in Nat
  <2>1. Exact(s)
    BY DEF Tally
  <2>2. /\ Main(s) \in Nat /\ Main(x) \in Nat /\ s.entries[i].pages \in Nat
        /\ Main(x) = Main(s) \/ Main(x) = Main(s) - s.entries[i].pages
    BY <1>1, <2>1, MainEvict
  <2>3. QED
    BY <2>2
<1>4. Alike => Main(x) <= MaxMain
  <2>1. Alike => Main(s) <= MaxMain
    BY DEF Tally
  <2>2. QED
    BY <1>3, <2>1, BudgetNat
<1>5. QED
  BY <1>1, <1>2, <1>4, TallyMoves

\* Linking a filled entry: an invalidation can find it when one of its keys is free.
LEMMA TallyLink ==
    ASSUME NEW s, Good(s, {}), Tally(s), NEW i \in Entries, i \notin LinkedIn(s), ~s.entries[i].retired,
           workload.invalidates => \E p \in s.entries[i].keys : p \notin DOMAIN s.map,
           NEW x, x = Link(s, i)
    PROVE  Tally(x) /\ (Alike => Snug(x))
<1>1. Exact(s) /\ Origin(s) /\ (Alike => Main(s) <= MaxMain) /\ (workload.invalidates => Named(s))
  BY DEF Tally
<1>2. s \in Shards /\ s.entries[i] \in EntryRec /\ EntriesGood(s) /\ ListsGood(s) /\ LinkedIn(s) \subseteq Entries
  BY ShardParts DEF Good
<1>3. /\ Good(x, {}) /\ LinkedIn(x) = LinkedIn(s) \cup {i}
      /\ \A j \in Entries : j # i => Same(s.entries[j], x.entries[j])
      /\ Same([s.entries[i] EXCEPT !.refs = 1], x.entries[i])
      /\ NamesKept(s, x, Entries) /\ (\A p \in s.entries[i].keys \ DOMAIN s.map : p \in DOMAIN x.map /\ x.map[p] = i)
      /\ Exact(s) => Exact(x) /\ Main(x) = Main(s)
  BY LinkGood
<1>4. \A j \in Entries :
        /\ x.entries[j].page = s.entries[j].page /\ x.entries[j].pages = s.entries[j].pages
        /\ x.entries[j].keys = s.entries[j].keys /\ x.entries[j].freed = s.entries[j].freed
  <2>1. PICK e : e = [s.entries[i] EXCEPT !.refs = 1]
    OBVIOUS
  <2>2. /\ e.page = s.entries[i].page /\ e.pages = s.entries[i].pages
        /\ e.keys = s.entries[i].keys /\ e.freed = s.entries[i].freed
    BY <2>1, <1>2 DEF EntryRec
  <2>3. Same(e, x.entries[i])
    BY <2>1, <1>3
  <2>4. QED
    BY <2>2, <2>3, <1>3 DEF Same
<1>5. Exact(x) /\ Main(x) = Main(s)
  BY <1>1, <1>3
<1>6. Origin(x)
  BY <1>1, <1>4 DEF Origin, Asked
<1>7. ASSUME workload.invalidates PROVE Named(x)
  <2> SUFFICES ASSUME NEW j \in LinkedIn(x) PROVE \E p \in DOMAIN x.map : x.map[p] = j
    BY DEF Named
  <2>1. CASE j = i
    BY <2>1, <1>3, <1>7
  <2>2. CASE j # i
    <3>1. PICK p \in DOMAIN s.map : s.map[p] = j
      BY <2>2, <1>1, <1>3, <1>7 DEF Named
    <3>2. j \in Entries
      BY <2>2, <1>2, <1>3
    <3>3. QED
      BY <3>1, <3>2, <1>3 DEF NamesKept
  <2>3. QED
    BY <2>1, <2>2
<1>8. Tally(x)
  BY <1>1, <1>5, <1>6, <1>7 DEF Tally
<1>9. ASSUME Alike PROVE Snug(x)
  <2>1. \A j \in LinkedIn(x) : j \in Entries /\ s.entries[j].freed = 0
    <3>1. \A j \in LinkedIn(s) : ~s.entries[j].retired
      BY <1>2 DEF ListsGood, LinkedIn
    <3>2. QED
      BY <1>2, <1>3, <3>1 DEF EntriesGood
  <2>2. \A j \in LinkedIn(x) : \E r \in workload.requests : x.entries[j].pages = r.pages
    BY <1>1, <1>4, <2>1 DEF Origin, Asked
  <2>3. \A j, k \in LinkedIn(x) : x.entries[j].pages = x.entries[k].pages
    BY <1>9, <2>2 DEF Alike
  <2>4. QED
    BY <1>1, <1>5, <1>9, <2>3 DEF Snug
<1>10. QED
  BY <1>8, <1>9

\* A filled entry enters the window, which then admits to main.
LEMMA TallyInsert ==
    ASSUME NEW s, Good(s, {}), Tally(s), NEW i \in Entries, i \notin LinkedIn(s), ~s.entries[i].retired,
           workload.invalidates => \E p \in s.entries[i].keys : p \notin DOMAIN s.map, NEW freq
    PROVE  Tally(insert_filled(s, i, freq))
<1>1. PICK x : x = Link(s, i)
  OBVIOUS
<1>2. PICK y : y = insert_filled(s, i, freq)
  OBVIOUS
<1>3. Tally(x) /\ (Alike => Snug(x))
  BY <1>1, TallyLink
<1>4. Good(x, {})
  BY <1>1, LinkGood
<1>5. y = Loop(LAMBDA r : AdmitFromWindow(r, freq), x, MaxEntries)
  BY <1>1, <1>2 DEF insert_filled
<1>6. Moves(x, {}, y, {}) /\ (Snug(x) => Snug(y))
  BY ONLY <1>4, <1>5, AdmitLoop, ZenonT(40) DEF Loop
<1>7. Alike => Main(y) <= MaxMain
  BY <1>3, <1>6 DEF Snug
<1>8. QED
  BY <1>2, <1>3, <1>4, <1>6, <1>7, TallyMoves

\* An invalidation leaves no entry linked, and the counters at zero are those of the lists.
LEMMA TallyClear ==
    ASSUME workload \in Workloads, workload.invalidates, NEW s, Good(s, {}), Tally(s), NEW x,
           x = [Loop(DropNamed, s, MaxEntries) EXCEPT !.map = <<>>, !.bytes = [l \in Segments |-> 0]]
    PROVE  Tally(x)
<1>1. PICK y : y = Loop(DropNamed, s, MaxEntries)
  OBVIOUS
<1>2. Moves(s, {}, y, {}) /\ LinkedIn(y) = {}
  BY <1>1, DropLoop DEF Tally
<1>3. y \in Shards /\ Evolves(s, y, LinkedIn(s), {})
  BY <1>2 DEF Moves, Good
<1>4. x.entries = y.entries /\ x.list = y.list /\ x.bytes = [l \in Segments |-> 0]
  BY <1>1, <1>3 DEF Shards
<1>5. LinkedIn(x) = {} /\ \A l \in Segments : Range(x.list[l]) = {}
  BY <1>2, <1>4 DEF LinkedIn
<1>6. Exact(x)
  <2>1. PagesOf(x, {}) = {} /\ Cardinality({}) = 0
    BY FS_EmptySet DEF PagesOf
  <2>2. QED
    BY <1>4, <1>5, <2>1 DEF Exact
<1>7. Origin(x)
  <2> SUFFICES ASSUME NEW i \in Entries, y.entries[i].freed = 0 PROVE Asked(y.entries[i])
    BY <1>4 DEF Origin
  <2>1. Freed.freed = 1
    BY DEF Freed
  <2>2. /\ y.entries[i].page = s.entries[i].page /\ y.entries[i].pages = s.entries[i].pages
        /\ y.entries[i].keys = s.entries[i].keys /\ y.entries[i].freed = s.entries[i].freed
    BY <1>3, <2>1 DEF Evolves, Same, Dropped
  <2>3. QED
    BY <2>2 DEF Tally, Origin, Asked
<1>8. Main(x) <= MaxMain
  <2>1. Main(x) = 0
    BY <1>4 DEF Main, Segments
  <2>2. QED
    BY <2>1, BudgetNat
<1>9. QED
  BY <1>5, <1>6, <1>7, <1>8 DEF Tally, Named

\* The counters through the first lookup of a pin.
LEMMA LookupTallies ==
    ASSUME IInv, Tally(shard), NEW t \in Threads, NEW r \in workload.requests, pin_lookup(t, r)
    PROVE  Tally(shard')
<1>1. Good(shard, {}) /\ workload \in Workloads
  BY DEF IInv, Safe, Types
<1>2. PICK i : i = shard.map[r.page]
  OBVIOUS
<1>3. r.page \in DOMAIN shard.map => i \in LinkedIn(shard)
  BY <1>1, <1>2 DEF Good, MapGood
<1>4. CASE Covers(shard, r.page, r.pages)
  <2>1. r.page \in DOMAIN shard.map /\ shard' = hit_locked(shard, i)
    BY <1>2, <1>4 DEF Covers, pin_lookup
  <2>2. QED
    BY <1>1, <1>3, <2>1, TallyHit
<1>5. CASE ~Covers(shard, r.page, r.pages)
  <2>1. shard' = shard \/ (r.page \in DOMAIN shard.map /\ shard' = Evict(shard, i))
    BY <1>2, <1>5 DEF pin_lookup
  <2>2. QED
    BY <1>1, <1>3, <2>1, TallyEvict
<1>6. QED
  BY <1>4, <1>5

\* The counters through the second lookup.
LEMMA RecheckTallies ==
    ASSUME IInv, Tally(shard), NEW t \in Threads, pin_recheck(t)
    PROVE  Tally(shard')
<1>1. Good(shard, {}) /\ workload \in Workloads
  BY DEF IInv, Safe, Types
<1>2. PICK r : r = thread[t].req
  OBVIOUS
<1>3. CASE Covers(shard, r.page, r.pages)
  <2>1. r.page \in DOMAIN shard.map /\ shard' = hit_locked(shard, shard.map[r.page])
    BY <1>2, <1>3 DEF Covers, pin_recheck
  <2>2. shard.map[r.page] \in LinkedIn(shard)
    BY <1>1, <2>1 DEF Good, MapGood
  <2>3. QED
    BY <1>1, <2>1, <2>2, TallyHit
<1>4. CASE ~Covers(shard, r.page, r.pages)
  BY <1>2, <1>4 DEF pin_recheck
<1>5. QED
  BY <1>3, <1>4

\* The counters through a fill: the new entry is in no list.
LEMMA FillTallies ==
    ASSUME IInv, Tally(shard), NEW t \in Threads, pin_fill(t)
    PROVE  Tally(shard')
<1>1. Good(shard, {}) /\ thread[t].pc = "fill" /\ FreshEntries # {}
  BY DEF IInv, Safe, pin_fill
<1>2. PICK r : r = thread[t].req
  OBVIOUS
<1>3. PICK i : i = Min(FreshEntries)
  OBVIOUS
<1>4. PICK f : f = Filled(r)
  OBVIOUS
<1>5. r \in workload.requests
  BY <1>1, <1>2, InPinFacts DEF InPin
<1>6. i \in Entries /\ shard.entries[i].freed > 0
  <2>1. FreshEntries \subseteq Nat
    BY CacheAssumption DEF FreshEntries, Entries
  <2>2. i \in FreshEntries
    BY <1>1, <1>3, <2>1, MinFacts
  <2>3. QED
    BY <2>2 DEF FreshEntries
<1>7. shard' = [shard EXCEPT !.entries[i] = f]
  BY <1>2, <1>3, <1>4 DEF pin_fill, Filled
<1>8. shard \in Shards /\ EntriesGood(shard) /\ ListsGood(shard) /\ shard.entries \in [Entries -> EntryRec]
  BY <1>1, ShardParts DEF Good
<1>9. /\ shard'.entries = [shard.entries EXCEPT ![i] = f] /\ shard'.list = shard.list
      /\ shard'.bytes = shard.bytes /\ shard'.map = shard.map
  BY <1>7, <1>8 DEF Shards
<1>10. shard'.entries[i] = f /\ \A j \in Entries : j # i => shard'.entries[j] = shard.entries[j]
  BY <1>6, <1>8, <1>9
<1>11. i \notin LinkedIn(shard)
  BY <1>6, <1>8 DEF ListsGood, EntriesGood, LinkedIn
<1>12. Asked(f)
  BY <1>4, <1>5 DEF Asked, Filled
<1>13. Asked(shard'.entries[i])
  BY <1>10, <1>12
<1>14. QED
  BY ONLY Tally(shard), <1>1, <1>6, <1>9, <1>10, <1>11, <1>13, TallyChange

\* A thread's filled entry: out of the lists, with the extent and the keys of its request.
LEMMA HandOf ==
    ASSUME NEW s, NEW th, NEW P, Safe(s, th, P), Origin(s), NEW t \in Threads, th[t].pc = "insert"
    PROVE  LET i == th[t].e IN
           /\ i \in Entries /\ i \notin LinkedIn(s) /\ s.entries[i].freed = 0 /\ s.entries[i].refs = 0
           /\ ~s.entries[i].retired /\ ~s.entries[i].deleted
           /\ s.entries[i].page = th[t].req.page /\ s.entries[i].pages = th[t].req.pages
           /\ Asked(s.entries[i])
<1>1. Holds(s, th[t]) /\ EntriesGood(s)
  BY DEF Safe, Holders, Good
<1>2. th[t].e \in Entries
  BY <1>1 DEF Holds, Plain
<1>3. QED
  BY <1>1, <1>2 DEF Holds, EntriesGood, Origin

\* A filled entry that is refused is deleted: the counters never saw it.
LEMMA TallyRefuse ==
    ASSUME NEW s, Good(s, {}), Tally(s), NEW i \in Entries, i \notin LinkedIn(s), s.entries[i].refs = 0,
           ~s.entries[i].retired, ~s.entries[i].deleted, s.entries[i].freed = 0
    PROVE  Tally(drop_entry(s, i))
<1>1. PICK x : x = drop_entry(s, i)
  OBVIOUS
<1>2. s \in Shards /\ s.entries \in [Entries -> EntryRec]
  BY ShardParts DEF Good
<1>3. PICK r : r = [s EXCEPT !.entries[i].retired = TRUE]
  OBVIOUS
<1>4. x = Delete(r, i)
  BY <1>1, <1>3 DEF drop_entry
<1>5. /\ r.entries = [s.entries EXCEPT ![i].retired = TRUE] /\ r.list = s.list /\ r.bytes = s.bytes
      /\ r.map = s.map /\ r = [entries |-> r.entries, list |-> s.list, bytes |-> s.bytes, map |-> s.map]
  BY <1>2, <1>3 DEF Shards
<1>6. r.entries \in [Entries -> EntryRec] /\ r.entries[i].freed = 0 /\ \A j \in Entries : j # i => r.entries[j] = s.entries[j]
  <2>1. PICK e : e = [s.entries[i] EXCEPT !.retired = TRUE]
    OBVIOUS
  <2>2. s.entries[i] \in EntryRec
    BY <1>2
  <2>3. e \in EntryRec /\ e.freed = s.entries[i].freed
    BY ONLY <2>1, <2>2 DEF EntryRec
  <2>4. r.entries = [s.entries EXCEPT ![i] = e]
    BY <1>5, <2>1
  <2>5. QED
    BY <1>2, <2>3, <2>4
<1>7. PICK f : f = [Freed EXCEPT !.freed = 1 + r.entries[i].freed]
  OBVIOUS
<1>8. f.freed = 1
  BY <1>6, <1>7 DEF Freed
<1>9. x = [r EXCEPT !.entries[i] = f]
  BY <1>4, <1>7 DEF Delete
<1>10. /\ x.entries = [r.entries EXCEPT ![i] = f] /\ x.list = s.list /\ x.bytes = s.bytes /\ x.map = s.map
  BY <1>5, <1>9
<1>11. x.entries[i] = f /\ \A j \in Entries : j # i => x.entries[j] = s.entries[j]
  BY <1>6, <1>10
<1>12. /\ i \in LinkedIn(s) => x.entries[i].pages = s.entries[i].pages
       /\ x.entries[i].freed = 0 => Asked(x.entries[i])
  BY <1>8, <1>11
<1>13. Tally(x)
  BY ONLY Good(s, {}), Tally(s), i \in Entries, <1>10, <1>11, <1>12, TallyChange
<1>14. QED
  BY <1>1, <1>13

\* Where the index is mutated, an extent that the map does not cover has its key free.
LEMMA KeyFree ==
    ASSUME IInv, Tally(shard), Invalidable, workload.invalidates, NEW r \in workload.requests,
           ~Covers(shard, r.page, r.pages)
    PROVE  r.page \notin DOMAIN shard.map
<1> SUFFICES ASSUME r.page \in DOMAIN shard.map PROVE Covers(shard, r.page, r.pages)
  OBVIOUS
<1>1. PICK j : j = shard.map[r.page]
  OBVIOUS
<1>2. Good(shard, {}) /\ workload \in Workloads
  BY DEF IInv, Safe, Types
<1>3. /\ shard \in Shards /\ EntriesGood(shard) /\ ListsGood(shard) /\ MapGood(shard, {})
      /\ LinkedIn(shard) \subseteq Entries
  BY <1>2, ShardParts DEF Good
<1>4. j \in LinkedIn(shard) /\ j \in Entries /\ r.page \in shard.entries[j].keys
  BY <1>1, <1>3 DEF MapGood
<1>5. shard.entries[j].freed = 0
  BY <1>3, <1>4 DEF ListsGood, EntriesGood, LinkedIn
<1>6. PICK q \in workload.requests :
        /\ shard.entries[j].page = q.page /\ shard.entries[j].pages = q.pages
        /\ shard.entries[j].keys = {q.page} \cup q.aliases
  BY <1>4, <1>5 DEF Tally, Origin, Asked
<1>7. r.page = q.page /\ q.pages = r.pages
  BY <1>4, <1>6 DEF Invalidable
<1>8. r.page \in Nat /\ r.pages \in Nat
  <2>1. r.page \in Pages /\ r.pages \in 1..MaxPages
    BY <1>2, RequestTypes DEF Requests
  <2>2. QED
    BY ONLY <2>1, Numbers
<1>9. r.page - shard.entries[j].page + r.pages <= shard.entries[j].pages
  BY <1>6, <1>7, <1>8
<1>10. QED
  BY <1>1, <1>9 DEF Covers

\* The counters through the insertion of a filled entry, or its discard.
LEMMA InsertTallies ==
    ASSUME IInv, Tally(shard), Invalidable, NEW t \in Threads, NEW freq, pin_insert(t, freq)
    PROVE  Tally(shard')
<1>1. /\ Types /\ Safe(shard, thread, pins) /\ workload \in Workloads /\ Good(shard, {}) /\ Origin(shard)
      /\ thread \in [Threads -> ThreadRec] /\ pins \in [Threads -> Seq(Handles)]
      /\ thread[t].pc = "insert"
  BY DEF IInv, Types, Safe, Tally, pin_insert
<1>2. PICK r : r = thread[t].req
  OBVIOUS
<1>3. PICK i : i = thread[t].e
  OBVIOUS
<1>4. r \in workload.requests /\ r \in Requests
  BY <1>1, <1>2, InPinFacts DEF InPin
<1>5. CASE Covers(shard, r.page, r.pages)
  <2>1. PICK h : h = [e |-> shard.map[r.page], req |-> r]
    OBVIOUS
  <2>2. PICK s : s = hit_locked(shard, shard.map[r.page])
    OBVIOUS
  <2>3. PICK Q : Q = [pins EXCEPT ![t] = Append(pins[t], h)]
    OBVIOUS
  <2>4. shard' = drop_entry(s, i)
    BY <1>2, <1>3, <1>5, <2>2 DEF pin_insert
  <2>5. Safe(s, thread, Q)
    BY <1>1, <1>4, <1>5, <2>1, <2>2, <2>3, HitKeeps
  <2>6. Tally(s)
    <3>1. shard.map[r.page] \in LinkedIn(shard)
      BY <1>1, <1>5 DEF Covers, Good, MapGood
    <3>2. QED
      BY <1>1, <2>2, <3>1, TallyHit
  <2>7. Good(s, {}) /\ Origin(s)
    BY <2>5, <2>6 DEF Safe, Tally
  <2>8. /\ i \in Entries /\ i \notin LinkedIn(s) /\ s.entries[i].freed = 0 /\ s.entries[i].refs = 0
        /\ ~s.entries[i].retired /\ ~s.entries[i].deleted
    BY ONLY <1>1, <1>3, <2>5, <2>7, HandOf
  <2>9. QED
    BY ONLY <2>4, <2>6, <2>7, <2>8, TallyRefuse
<1>6. CASE ~Covers(shard, r.page, r.pages) /\ shard' = drop_entry(shard, i)
  BY <1>1, <1>3, <1>6, HandOf, TallyRefuse
<1>7. CASE ~Covers(shard, r.page, r.pages) /\ shard' = insert_filled(shard, i, freq)
  <2>1. /\ i \in Entries /\ i \notin LinkedIn(shard) /\ ~shard.entries[i].retired
        /\ shard.entries[i].page = r.page /\ Asked(shard.entries[i])
    BY <1>1, <1>2, <1>3, HandOf
  <2>2. r.page \in shard.entries[i].keys
    BY <2>1 DEF Asked
  <2>3. workload.invalidates => \E p \in shard.entries[i].keys : p \notin DOMAIN shard.map
    BY <1>4, <1>7, <2>2, KeyFree
  <2>4. QED
    BY <1>1, <1>7, <2>1, <2>3, TallyInsert
<1>8. QED
  BY <1>2, <1>3, <1>5, <1>6, <1>7 DEF pin_insert

\* The counters through the decrement of an unpin.
LEMMA DecTallies ==
    ASSUME IInv, Tally(shard), NEW t \in Threads, unpin_dec(t)
    PROVE  Tally(shard')
<1>1. /\ Good(shard, {}) /\ pins[t] \in Seq(Handles) /\ pins[t] # <<>>
  BY DEF IInv, Safe, Types, unpin_dec
<1>2. PICK i : i = Head(pins[t]).e
  OBVIOUS
<1>3. i \in Entries
  <2>1. Head(pins[t]) \in Handles
    BY ONLY <1>1, HeadTailProperties
  <2>2. QED
    BY <1>2, <2>1 DEF Handles
<1>4. PICK f : f = [shard.entries[i] EXCEPT !.refs = shard.entries[i].refs - 1]
  OBVIOUS
<1>5. shard.entries[i] \in EntryRec
  BY <1>1, <1>3, ShardParts DEF Good
<1>6. /\ f.page = shard.entries[i].page /\ f.pages = shard.entries[i].pages
      /\ f.keys = shard.entries[i].keys /\ f.freed = shard.entries[i].freed
  BY <1>4, <1>5 DEF EntryRec
<1>7. shard' = [shard EXCEPT !.entries[i] = f]
  BY <1>2, <1>4 DEF unpin_dec
<1>8. QED
  BY ONLY Tally(shard), <1>1, <1>3, <1>6, <1>7, TallyTouch

\* The counters through the exchange that claims a deletion.
LEMMA ClaimTallies ==
    ASSUME IInv, Tally(shard), NEW t \in Threads, unpin_claim(t)
    PROVE  Tally(shard')
<1>1. Good(shard, {}) /\ Holds(shard, thread[t]) /\ thread[t].pc = "claim"
  BY DEF IInv, Safe, Holders, unpin_claim
<1>2. PICK i : i = thread[t].e
  OBVIOUS
<1>3. i \in Entries
  BY <1>1, <1>2 DEF Holds, Plain
<1>4. PICK f : f = [shard.entries[i] EXCEPT !.deleted = TRUE]
  OBVIOUS
<1>5. shard.entries[i] \in EntryRec
  BY <1>1, <1>3, ShardParts DEF Good
<1>6. /\ f.page = shard.entries[i].page /\ f.pages = shard.entries[i].pages
      /\ f.keys = shard.entries[i].keys /\ f.freed = shard.entries[i].freed
  BY <1>4, <1>5 DEF EntryRec
<1>7. shard' = shard \/ shard' = [shard EXCEPT !.entries[i] = f]
  BY <1>2, <1>4 DEF unpin_claim
<1>8. CASE shard' = shard
  BY <1>8
<1>9. CASE shard' = [shard EXCEPT !.entries[i] = f]
  BY ONLY Tally(shard), <1>1, <1>3, <1>6, <1>9, TallyTouch
<1>10. QED
  BY <1>7, <1>8, <1>9

\* The counters through the deletion by the last unpin: the entry had left its list.
LEMMA FreeTallies ==
    ASSUME IInv, Tally(shard), NEW t \in Threads, unpin_free(t)
    PROVE  Tally(shard')
<1>1. Good(shard, {}) /\ Holds(shard, thread[t]) /\ thread[t].pc = "free"
  BY DEF IInv, Safe, Holders, unpin_free
<1>2. PICK i : i = thread[t].e
  OBVIOUS
<1>3. i \in Entries /\ shard.entries[i].retired /\ shard.entries[i].freed = 0
  BY <1>1, <1>2 DEF Holds, Plain
<1>4. shard \in Shards /\ ListsGood(shard) /\ shard.entries \in [Entries -> EntryRec]
  BY <1>1, ShardParts DEF Good
<1>5. i \notin LinkedIn(shard)
  BY <1>3, <1>4 DEF ListsGood, LinkedIn
<1>6. PICK f : f = [Freed EXCEPT !.freed = 1 + shard.entries[i].freed]
  OBVIOUS
<1>7. f.freed = 1
  BY <1>3, <1>6 DEF Freed
<1>8. shard' = [shard EXCEPT !.entries[i] = f]
  BY <1>2, <1>6 DEF unpin_free, Delete
<1>9. /\ shard'.entries = [shard.entries EXCEPT ![i] = f] /\ shard'.list = shard.list
      /\ shard'.bytes = shard.bytes /\ shard'.map = shard.map
  BY <1>4, <1>8 DEF Shards
<1>10. shard'.entries[i] = f /\ \A j \in Entries : j # i => shard'.entries[j] = shard.entries[j]
  BY <1>3, <1>4, <1>9
<1>11. /\ i \in LinkedIn(shard) => shard'.entries[i].pages = shard.entries[i].pages
       /\ shard'.entries[i].freed = 0 => Asked(shard'.entries[i])
  BY <1>5, <1>7, <1>10
<1>12. QED
  BY ONLY Tally(shard), <1>1, <1>3, <1>9, <1>10, <1>11, TallyChange

\* The invariant of the counters.
Tallied == IInv /\ Invalidable /\ Tally(shard)

\* The empty shard's counters are exact.
LEMMA InitTallied ==
    ASSUME Init, Invalidable
    PROVE  Tallied
<1>1. IInv /\ workload \in Workloads
  BY InitHolds DEF Init
<1>2. /\ shard.entries = [i \in Entries |-> Freed] /\ shard.list = [l \in Segments |-> <<>>]
      /\ shard.bytes = [l \in Segments |-> 0]
  BY DEF Init, EmptyShard
<1>3. LinkedIn(shard) = {} /\ \A l \in Segments : Range(shard.list[l]) = {}
  <2>1. \A l \in Segments : shard.list[l] = <<>>
    BY <1>2
  <2>2. Range(<<>>) = {}
    BY DEF Range
  <2>3. QED
    BY ONLY <2>1, <2>2 DEF LinkedIn
<1>4. Exact(shard)
  <2>1. PagesOf(shard, {}) = {} /\ Cardinality({}) = 0
    BY FS_EmptySet DEF PagesOf
  <2>2. QED
    BY <1>2, <1>3, <2>1 DEF Exact
<1>5. Origin(shard)
  <2>1. Freed.freed = 1
    BY DEF Freed
  <2>2. QED
    BY <1>2, <2>1 DEF Origin
<1>6. Main(shard) <= MaxMain
  <2>1. Main(shard) = 0
    BY <1>2 DEF Main, Segments
  <2>2. QED
    BY <1>1, <2>1, BudgetNat
<1>7. QED
  BY <1>1, <1>3, <1>4, <1>5, <1>6 DEF Tallied, Tally, Named

\* Every step keeps the counters exact.
LEMMA StepTallies ==
    ASSUME IInv, Tally(shard), Invalidable, [Next]_vars
    PROVE  Tally(shard')
<1>1. CASE shard' = shard
  BY <1>1
<1>2. CASE invalidate_all
  <2>1. Good(shard, {}) /\ workload \in Workloads
    BY DEF IInv, Safe, Types
  <2>2. QED
    BY <1>2, <2>1, TallyClear DEF invalidate_all
<1>3. ASSUME NEW t \in Threads, NEW r \in workload.requests, pin_lookup(t, r) PROVE Tally(shard')
  BY <1>3, LookupTallies
<1>4. ASSUME NEW t \in Threads, pin_recheck(t) PROVE Tally(shard')
  BY <1>4, RecheckTallies
<1>5. ASSUME NEW t \in Threads, NEW freq \in [Pages -> Frequencies], pin_insert(t, freq) PROVE Tally(shard')
  BY <1>5, InsertTallies
<1>6. ASSUME NEW t \in Threads, pin_fill(t) PROVE Tally(shard')
  BY <1>6, FillTallies
<1>7. ASSUME NEW t \in Threads, unpin_dec(t) PROVE Tally(shard')
  BY <1>7, DecTallies
<1>8. ASSUME NEW t \in Threads, unpin_claim(t) PROVE Tally(shard')
  BY <1>8, ClaimTallies
<1>9. ASSUME NEW t \in Threads, unpin_free(t) PROVE Tally(shard')
  BY <1>9, FreeTallies
<1>10. ASSUME NEW t \in Threads,
              \/ pin_gate(t) \/ pin_fill_throws(t) \/ unpin_check(t)
              \/ \E freq \in [Pages -> Frequencies] : pin_admit(t, freq)
       PROVE  shard' = shard
  BY <1>10 DEF pin_gate, pin_fill_throws, unpin_check, pin_admit
<1>11. UNCHANGED vars => shard' = shard
  BY DEF vars
<1>12. QED
  BY <1>1, <1>2, <1>3, <1>4, <1>5, <1>6, <1>7, <1>8, <1>9, <1>10, <1>11 DEF Next

\* The workload is chosen once.
LEMMA WorkloadStays ==
    ASSUME [Next]_vars
    PROVE  workload' = workload
BY DEF Next, vars, invalidate_all, pin_lookup, pin_gate, pin_recheck, pin_admit, pin_fill, pin_fill_throws,
       pin_insert, unpin_dec, unpin_check, unpin_claim, unpin_free

\* Every step keeps the invariant of the counters.
LEMMA TalliedStep ==
    ASSUME Tallied, [Next]_vars
    PROVE  Tallied'
<1>1. IInv' /\ workload' = workload /\ Tally(shard')
  BY StepHolds, WorkloadStays, StepTallies DEF Tallied
<1>2. Invalidable'
  BY <1>1 DEF Tallied, Invalidable
<1>3. Exact(shard') /\ (workload.invalidates => Named(shard')) /\ (Alike => Main(shard') <= MaxMain)
  BY <1>1 DEF Tally
<1>4. Origin(shard)'
  BY <1>1 DEF Tally, Origin, Asked
<1>5. Alike' => Alike
  BY <1>1 DEF Alike
<1>6. MaxMain' = MaxMain
  BY <1>1 DEF MaxMain
<1>7. Tally(shard)'
  BY <1>1, <1>3, <1>4, <1>5, <1>6 DEF Tally
<1>8. QED
  BY <1>1, <1>2, <1>7 DEF Tallied

\* The counters' invariant is inductive for an index that is not mutated, or whose
\* extents are pinned one leaf at a time.
LEMMA TalliedAlways == Spec /\ Invalidable => []Tallied
BY InitTallied, TalliedStep, PTL DEF Spec

-----------------------------------------------------------------------------
(* The results *)

\* IInv is inductive.
LEMMA Inductive == Spec => []IInv
BY InitHolds, StepHolds, PTL DEF Spec

\* The variables keep their types: every entry named by a list, the map, a handle or a
\* thread is one of the shard's, and the byte counters stay in their word, through every
\* interleaving of pin, unpin and invalidate_all.
THEOREM TypeCorrect == Spec => []TypeOK
<1>1. IInv => TypeOK
  <2> SUFFICES ASSUME IInv PROVE TypeOK
    OBVIOUS
  <2>1. /\ workload \in Workloads /\ stripe \in [0..(Stripes - 1) -> Threads \cup {Nil}]
        /\ thread \in [Threads -> ThreadRec] /\ pins \in [Threads -> Seq(Handles)] /\ shard \in Shards
    BY DEF IInv, Types, Safe, Good
  <2>2. /\ shard.entries \in [Entries -> EntryRec] /\ shard.list \in [Segments -> Seq(Entries)]
        /\ shard.bytes \in [Segments -> 0..(Word - 1)] /\ DOMAIN shard.map \subseteq Pages
        /\ \A p \in DOMAIN shard.map : shard.map[p] \in Entries
    BY <2>1, ShardParts
  <2>3. Range(shard.map) \subseteq Entries
    BY <2>2 DEF Range
  <2>4. shard.entries \in [Entries ->
           [page : Pages \cup {0}, pages : Nat, keys : SUBSET Pages, status : Segments,
            refs : Nat, retired : BOOLEAN, deleted : BOOLEAN, freed : Nat]]
    <3> DEFINE E == [page : Pages \cup {0}, pages : Nat, keys : SUBSET Pages, status : Segments,
                     refs : Nat, retired : BOOLEAN, deleted : BOOLEAN, freed : Nat]
    <3>1. \A e \in EntryRec : e \in E
      <4> SUFFICES ASSUME NEW e \in EntryRec PROVE e \in E
        OBVIOUS
      <4>1. /\ e.page \in Pages \cup {0} /\ e.pages \in Nat /\ e.keys \in SUBSET Pages
            /\ e.status \in Segments /\ e.refs \in Nat /\ e.retired \in BOOLEAN
            /\ e.deleted \in BOOLEAN /\ e.freed \in {0, 1}
            /\ e = [page |-> e.page, pages |-> e.pages, keys |-> e.keys, status |-> e.status, refs |-> e.refs,
                    retired |-> e.retired, deleted |-> e.deleted, freed |-> e.freed]
        BY DEF EntryRec
      <4>2. e.freed \in Nat
        BY <4>1
      <4>3. QED
        BY ONLY <4>1, <4>2
    <3> HIDE DEF E
    <3>2. shard.entries \in [Entries -> E]
      BY <2>2, <3>1
    <3>3. QED
      BY <3>2 DEF E
  <2>5. QED
    BY <2>1, <2>2, <2>3, <2>4 DEF TypeOK, ThreadRec, Handles
<1>2. QED
  BY <1>1, Inductive, PTL

\* Whatever is evicted, replaced, refused or invalidated while searchers scan without
\* the lock, every handle is of an entry that has not been deleted and that holds all
\* the pages asked for, and an entry's refs count its handles (pin, unpin, drop_entry).
THEOREM HandlesStayValid == Spec => []PinsValid
<1>1. IInv => PinsValid
  <2> SUFFICES ASSUME IInv PROVE PinsValid
    OBVIOUS
  <2>1. PinsGood(shard, pins) /\ Counted(shard, pins)
    BY DEF IInv, Safe
  <2>2. \A i \in Entries : PinsOf(i) = PinsIn(pins, i)
    BY DEF PinsOf, PinsIn
  <2>3. QED
    BY <2>1, <2>2 DEF PinsValid, PinsGood, Backed, Counted
<1>2. QED
  BY <1>1, Inductive, PTL

\* No entry is deleted twice, and none that exists is out of reach of the lists, the
\* handles and the threads: one of an eviction, an invalidation and the last unpins
\* deletes it, in whatever order they meet it (maybe_delete, maybe_delete_locked).
THEOREM DeletedExactlyOnce == Spec => []FreedExactlyOnce
<1>1. IInv => FreedExactlyOnce
  <2> SUFFICES ASSUME IInv PROVE FreedExactlyOnce
    OBVIOUS
  <2>1. Counted(shard, pins) /\ Kept(shard, thread) /\ Holders(shard, thread) /\ shard \in Shards
    BY DEF IInv, Safe, Good
  <2>2. \A i \in Entries : shard.entries[i] \in EntryRec
    BY <2>1, ShardParts
  <2>3. FreedOnce
    BY <2>2 DEF FreedOnce, EntryRec
  <2>4. NoLeak
    <3> SUFFICES ASSUME NEW i \in Entries, shard.entries[i].freed = 0,
                        ~\E t \in Threads : thread[t].e = i, i \notin AllLinked
                 PROVE  PinsOf(i) # {}
      BY DEF NoLeak
    <3>1. AllLinked = LinkedIn(shard) /\ PinsOf(i) = PinsIn(pins, i)
      BY DEF AllLinked, Linked, LinkedIn, PinsOf, PinsIn
    <3>2. shard.entries[i].refs # 0
      BY <2>1, <2>2, <3>1 DEF Kept, Cared, EntryRec
    <3>3. shard.entries[i].refs = Cardinality(PinsIn(pins, i))
      BY <2>1 DEF Counted
    <3>4. QED
      BY <3>1, <3>2, <3>3, FS_EmptySet
  <2>5. QED
    BY <2>3, <2>4 DEF FreedExactlyOnce
<1>2. QED
  BY <1>1, Inductive, PTL

\* Whenever the lock is free the map names only entries of the lists, by their own
\* keys, and each list holds its entries once, none of them retired: a hit never finds
\* a deleted entry (hit_locked, erase_keys, insert_filled, the evictions).
THEOREM MapAndListsAgree == Spec => []MapSound
<1>1. IInv => MapSound
  <2> SUFFICES ASSUME IInv PROVE MapSound
    OBVIOUS
  <2>1. shard \in Shards /\ ListsGood(shard) /\ MapGood(shard, {})
    BY DEF IInv, Safe, Good
  <2>2. AllLinked = LinkedIn(shard)
    BY DEF AllLinked, Linked, LinkedIn
  <2>3. ASSUME NEW l \in Segments PROVE Cardinality(Linked(l)) = Len(shard.list[l])
    <3>1. PICK w : w = shard.list[l]
      OBVIOUS
    <3>2. w \in Seq(Entries) /\ IsInjective(w)
      BY <2>1, <3>1, ShardParts DEF ListsGood
    <3>3. PICK n : n = Len(w)
      OBVIOUS
    <3>4. PICK R : R = Range(w)
      OBVIOUS
    <3>5. n \in Nat /\ DOMAIN w = 1..n
      BY ONLY <3>2, <3>3, LenProperties
    <3>6. w \in [1..n -> R] /\ (\A x \in R : \E k \in 1..n : x = w[k])
          /\ \A j, k \in 1..n : w[j] = w[k] => j = k
      <4>1. w \in [1..n -> Entries]
        BY ONLY <3>2, <3>3, LenProperties
      <4>2. R = {w[k] : k \in 1..n}
        BY ONLY <3>4, <3>5 DEF Range
      <4>3. w \in [1..n -> R] /\ \A x \in R : \E k \in 1..n : x = w[k]
        BY ONLY <4>1, <4>2
      <4>4. \A j, k \in 1..n : w[j] = w[k] => j = k
        BY ONLY <3>2, <3>5 DEF IsInjective
      <4>5. QED
        BY ONLY <4>3, <4>4
    <3>7. Cardinality(R) = n
      BY ONLY <3>5, <3>6, InjectiveLength
    <3>8. QED
      BY <3>1, <3>3, <3>4, <3>7 DEF Linked
  <2>4. QED
    BY <2>1, <2>2, <2>3 DEF MapSound, ListsGood, MapGood, Linked
<1>2. QED
  BY <1>1, Inductive, PTL

\* Whenever the lock is free the map, the lists and the byte counters agree with the
\* entries, through promotions, demotions, evictions, admissions and invalidations: the
\* budget loops and the admission gate decide by true sizes (hit_locked, insert_filled,
\* invalidate_all).  A mutated index must be cached one leaf at a time: of an entry that
\* lost all its keys to others the invalidation forgets the size but not the link.
THEOREM ShardStaysConsistent == Spec /\ Invalidable => []ShardConsistent
<1>1. Tallied => BytesExact
  BY DEF Tallied, Tally, Exact, BytesExact, Linked
<1>2. Spec => []MapSound
  BY MapAndListsAgree
<1>3. MapSound /\ BytesExact => ShardConsistent
  BY DEF ShardConsistent
<1>4. QED
  BY <1>1, <1>2, <1>3, TalliedAlways, PTL

\* With extents of one size the entries admitted to main never exceed its budget,
\* whatever is pinned while they are promoted, demoted and replaced: the replacement of
\* probation's LRU frees as much as the candidate takes (insert_filled, hit_locked).
THEOREM MainStaysWithinBudget == Spec /\ Invalidable => []MainWithinBudget
<1>1. Tallied => MainWithinBudget
  BY DEF Tallied, Tally, Alike, MainWithinBudget
<1>2. QED
  BY <1>1, TalliedAlways, PTL

=============================================================================
