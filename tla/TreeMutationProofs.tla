------------------------- MODULE TreeMutationProofs -------------------------
(***************************************************************************)
(* Proofs about the mutations of the tree, for every index of Indexes and  *)
(* every number of mutations.  See IInv for the inductive invariant.       *)
(***************************************************************************)
EXTENDS Fsck, CommonLemmas

Extents == Nat \X (Nat \ {0})

\* The indexes the theorems are about: without a payload column (a split leaves two
\* leaves with one payload extent, see PayloadReferencedOnce), and, when the tree has
\* nodes below the root, without file shrinks (MaxEnd looks at no node but the root).
Plain == ~HasPayload /\ (TRUE \in manifest.shrink_file => Depth = 1)

-----------------------------------------------------------------------------
(* The store *)

\* A store is a record of its five fields.
IsStore(s) == s = [file |-> s.file, bm |-> s.bm, n |-> s.n, head |-> s.head, ok |-> s.ok]

\* A page that reads as a leaf table holds one.
TablesTyped(s) ==
  \A p \in DOMAIN s.file :
    s.file[p].o.kind = "table" => s.file[p].o = Table(s.file[p].o.entries)

GoodFile(s) ==
  /\ IsStore(s) /\ s.ok = TRUE
  /\ TablesTyped(s)
  /\ s.bm \subseteq DOMAIN s.file

\* The allocator knows the size of the file.
Sized(s) == s.n \in Nat /\ DOMAIN s.file = 0 .. s.n - 1

GoodStore(s) == GoodFile(s) /\ Sized(s)

\* The extents E own the allocated pages: each holds one whole object, no two share
\* a page, and the bitmap marks their pages and the reserved ones and no other.
Owns(s, E) ==
  /\ E \subseteq Extents
  /\ \A e \in E : Whole(s, e) /\ Pages(e) \cap Reserved = {}
  /\ \A d, e \in E : d # e => Pages(d) \cap Pages(e) = {}
  /\ s.bm = Reserved \cup Covered(E)

-----------------------------------------------------------------------------
(* The tree *)

LeafEntries == [leaf : {TRUE}, page : Nat, pages : {0}]
NodeEntries == [leaf : {FALSE}, page : Nat, pages : Nat \ {0}]

\* A node of the last level, as long as its children need; a node above it.
IsLow(s, e) ==
  /\ ObjectAt(s, e) = Node(Children(s, e))
  /\ Children(s, e) \in Seq(LeafEntries) /\ Children(s, e) # <<>>
  /\ e[2] = NodePages(Children(s, e))

IsUpper(s, e) ==
  /\ ObjectAt(s, e) = Node(Children(s, e))
  /\ Children(s, e) \in Seq(NodeEntries) /\ Children(s, e) # <<>>

ChildAt(s, e, i) == <<Children(s, e)[i].page, Children(s, e)[i].pages>>

\* The parents of last-level nodes, the last-level nodes, and all nodes.
Mids(s, root) ==
  IF Depth = 1 THEN {} ELSE IF Depth = 2 THEN {root} ELSE NodeChildren(s, root)

Lows(s, root) ==
  IF Depth = 1 THEN {root} ELSE UNION {NodeChildren(s, m) : m \in Mids(s, root)}

Nodes(s, root) == {root} \cup Mids(s, root) \cup Lows(s, root)

\* The levels hold the nodes they should, and a last-level node has one place above it.
TreeOK(s, root) ==
  /\ Depth = 3 => IsUpper(s, root) /\ root \notin Mids(s, root)
  /\ \A m \in Mids(s, root) : IsUpper(s, m)
  /\ \A e \in Lows(s, root) : IsLow(s, e)
  /\ \A m, q \in Mids(s, root) :
       \A i \in DOMAIN Children(s, m), j \in DOMAIN Children(s, q) :
         ChildAt(s, m, i) = ChildAt(s, q, j) => m = q /\ i = j

\* The leaf ids 1 .. n each have one place in the tree.
NamesOK(s, root, n) ==
  /\ \A e \in Lows(s, root) : \A i \in DOMAIN Children(s, e) : Children(s, e)[i].page \in 1 .. n
  /\ \A l \in 1 .. n : \E e \in Lows(s, root) :
       \E i \in DOMAIN Children(s, e) : Children(s, e)[i].page = l
  /\ \A d, e \in Lows(s, root) :
       \A i \in DOMAIN Children(s, d), j \in DOMAIN Children(s, e) :
         Children(s, d)[i].page = Children(s, e)[j].page => d = e /\ i = j

LeafOK(o) ==
  /\ o = Leaf(o.rows, o.dirty, NoExtent)
  /\ o.rows \subseteq manifest.rows /\ o.dirty \in BOOLEAN

\* A leaf table whose entries are distinct extents of leaves.
TableOK(s, lt) ==
  /\ lt \in Seq(Extents)
  /\ \A k, l \in DOMAIN lt : lt[k] = lt[l] => k = l
  /\ \A l \in DOMAIN lt : LeafOK(ObjectAt(s, lt[l]))

TableExtents(lt) == {lt[l] : l \in DOMAIN lt}

\* Everything the index refers to is there, and nothing else is allocated.
Sound(s, lt, root, config, card, tab) ==
  /\ Owns(s, TableExtents(lt) \cup Nodes(s, root) \cup {config, card, tab})
  /\ TableOK(s, lt)
  /\ TreeOK(s, root)
  /\ ObjectAt(s, config).kind = "config"
  /\ ObjectAt(s, card).kind = "card"
  /\ ObjectAt(s, tab).kind = "table"

\* The index is intact: it is sound, and the tree names every leaf of the table.
Intact(s, lt, root, config, card, tab) ==
  Sound(s, lt, root, config, card, tab) /\ NamesOK(s, root, Len(lt))

-----------------------------------------------------------------------------
(* The mutation in progress *)

Stages == {"commit", "flush", "superblock"}

InsertOps ==
  [kind : {"insert"}, pc : {"leaves", "split"} \cup Stages, then : {"split", "idle"},
   route : {op.route}, added : Nat, cursor : Nat,
   split : BOOLEAN, lt : {op.lt}]

DeleteOps ==
  [kind : {"delete"}, pc : {"leaves"} \cup Stages, then : {"idle"},
   ids : SUBSET manifest.rows, todo : SUBSET Nat, lt : {op.lt}]

SweepOps ==
  [kind : {"vacuum", "defrag"},
   pc : {"leaves", "cardinality", "shrink", "shrink_commit"} \cup Stages,
   then : {"leaves", "cardinality", "shrink", "idle"}, cursor : Nat \ {0}, count : Nat,
   flag : BOOLEAN, lt : {op.lt}]

OpOK ==
  \/ op = Idle
  \/ /\ op.kind = "insert" /\ op \in InsertOps
     /\ DOMAIN op.route \subseteq manifest.rows
     /\ op.pc = "leaves" => op.then = "split"
     /\ op.then = "split" /\ op.pc # "split" => ~op.split
  \/ op.kind = "delete" /\ op \in DeleteOps
  \/ /\ op.kind \in {"vacuum", "defrag"} /\ op \in SweepOps
     /\ op.pc # "leaves" => op.count = 0
     /\ op.kind = "defrag" /\ op.flag => Depth = 1
     /\ "shrink" \in {op.pc, op.then} \/ op.pc = "shrink_commit" => op.kind = "defrag" /\ op.flag

\* Where the table blob is: commit_blobs has written the new one before the superblock
\* names it.
Tab == IF op.kind \in Mutations /\ op.pc \in {"flush", "superblock"} THEN op.lt ELSE sb.leaf_table

\* What is committed is what is in memory.
AtRest ==
  \/ op = Idle
  \/ op.kind = "insert" /\ op.pc = "split" /\ ~op.split
  \/ op.kind \in {"vacuum", "defrag"} /\ op.pc = "leaves" /\ op.count = 0
  \/ op.kind \in {"vacuum", "defrag"} /\ op.pc \in {"cardinality", "shrink"}

Synced ==
  /\ sb = disk_sb
  /\ disk_bm = store.bm
  /\ root_children = NodeChildren(store, sb.root)
  /\ sb.n_pages \in Nat /\ DOMAIN store.file = 0 .. sb.n_pages - 1

\* The table blob lists the leaf table.
TableWritten == AtRest \/ (op.kind \in Mutations /\ op.pc \in {"flush", "superblock", "shrink_commit"})

\* The config blob has the row count.
CountWritten == ~(op.kind \in {"insert", "delete"} /\ op.pc \in {"leaves", "commit"})

SuperblockOK(b) == b = Superblock(b.root, b.leaf_table, b.config, b.card, b.n_pages, b.head)

StoreOK ==
  /\ GoodFile(store)
  /\ op.kind \in Mutations /\ op.pc # "shrink_commit" => Sized(store)
  /\ \E m \in Nat : DOMAIN store.file = 0 .. m - 1

CommitOK ==
  /\ SuperblockOK(sb)
  /\ AtRest => Synced
  /\ op.kind \in Mutations /\ op.pc = "superblock" => disk_bm = store.bm
  /\ TableWritten => ObjectAt(store, Tab) = Table(leaf_table)
  /\ ObjectAt(store, sb.config) = Config(n_vectors_disk)
  /\ CountWritten => n_vectors = n_vectors_disk
  /\ Depth = 3 => root_children = NodeChildren(store, sb.root)

-----------------------------------------------------------------------------
(* The rows *)

Held == UNION {LeafOf(store, l).rows : l \in DOMAIN leaf_table}

Inserting == op.kind = "insert" /\ op.pc = "leaves"
Deleting == op.kind = "delete" /\ op.pc = "leaves"
Splitting == op.kind = "insert" /\ ~(op.pc \in Stages /\ op.then = "idle")

\* The leaves that hold a row, and how many should.
Holders(r) == {l \in DOMAIN leaf_table : r \in LeafOf(store, l).rows}
Given(r) == IF r \in fresh THEN 1 ELSE Cardinality(BuiltCopies(r))

\* The rows that are neither still to be inserted nor being deleted.
CopiesKept == \A r \in rows \cap Held : Cardinality(Holders(r)) = Given(r)

RowsOK ==
  /\ CopiesKept
  /\ rows = IF Inserting THEN Held \cup DOMAIN op.route
            ELSE IF Deleting THEN Held \ op.ids ELSE Held
  /\ Inserting => DOMAIN op.route \cap Held = {} /\ DOMAIN op.route \subseteq fresh
  /\ Deleting => \A l \in DOMAIN leaf_table \ op.todo : LeafOf(store, l).rows \cap op.ids = {}
  /\ ~Splitting => Oversized = {}
  /\ n_vectors \in Int
  /\ ~DuplicateIds => Cardinality(rows) = IF Inserting THEN n_vectors + op.added ELSE n_vectors

-----------------------------------------------------------------------------
Live ==
  /\ OpOK
  /\ StoreOK
  /\ Intact(store, leaf_table, sb.root, sb.config, sb.card, Tab)
  /\ CommitOK
  /\ RowsOK

\* After a kill the file is only read.
Killed ==
  /\ op \in {Idle, Down, Corrupt}
  /\ TablesTyped(store)
  /\ op = Idle => /\ sb = disk_sb
                  /\ ObjectAt(store, sb.leaf_table) = Table(leaf_table)
                  /\ root_children = NodeChildren(store, sb.root)

IInv ==
  /\ manifest \in Indexes /\ Plain
  /\ fault = "none" => op = Failed \/ Live
  /\ fault # "none" => fault = "killed" /\ Killed

-----------------------------------------------------------------------------
(* Arithmetic *)

\* An object of any size needs at least one page.
LEMMA CeilDivPositive ==
  ASSUME NEW a \in Nat, NEW b \in Nat \ {0}
  PROVE  CeilDiv(a, b) \in Nat \ {0}
<1>1. CASE a = 0
  BY <1>1 DEF CeilDiv
<1>2. CASE a # 0
  <2>1. a + b - 1 \in Nat /\ a + b - 1 >= b
    BY <1>2
  <2>2. /\ (a + b - 1) \div b \in Nat
        /\ a + b - 1 < b * ((a + b - 1) \div b) + b
    BY <2>1
  <2>3. (a + b - 1) \div b # 0
    BY <2>1, <2>2
  <2>4. QED
    BY <1>2, <2>2, <2>3 DEF CeilDiv
<1>3. QED
  BY <1>1, <1>2

\* One child more never needs fewer pages.
LEMMA CeilDivGrows ==
  ASSUME NEW a \in Nat \ {0}, NEW b \in Nat \ {0}
  PROVE  CeilDiv(a, b) <= CeilDiv(a + 1, b)
<1> DEFINE c == a + b - 1
<1>1. c \in Nat /\ (a + 1) + b - 1 = c + 1
  OBVIOUS
<1>2. c \div b <= (c + 1) \div b
  <2> HIDE DEF c
  <2>1. QED
    BY <1>1
<1>3. QED
  BY <1>1, <1>2 DEF CeilDiv

\* Exchanging an element for another one changes no cardinality.
LEMMA SwapElement ==
  ASSUME NEW S, IsFiniteSet(S), NEW a \in S, NEW b, b \notin S
  PROVE  Cardinality((S \ {a}) \cup {b}) = Cardinality(S)
<1>1. /\ IsFiniteSet(S \ {a}) /\ Cardinality(S \ {a}) = Cardinality(S) - 1
      /\ Cardinality(S) \in Nat
  BY FS_RemoveElement, FS_CardinalityType
<1>2. Cardinality((S \ {a}) \cup {b}) = Cardinality(S \ {a}) + 1
  BY <1>1, FS_AddElement
<1>3. QED
  BY <1>1, <1>2

\* Two elements.
LEMMA PairCount ==
  ASSUME NEW a, NEW b, a # b
  PROVE  Cardinality({a, b}) = 2
<1>1. IsFiniteSet({a}) /\ Cardinality({a}) = 1
  BY FS_Singleton
<1>2. Cardinality({a} \cup {b}) = Cardinality({a}) + 1
  BY <1>1, FS_AddElement
<1>3. {a} \cup {b} = {a, b}
  OBVIOUS
<1>4. QED
  BY <1>1, <1>2, <1>3

\* What fits one page takes one page.
LEMMA CeilDivOne ==
  ASSUME NEW b \in Nat \ {0}, NEW a \in 0 .. b
  PROVE  CeilDiv(a, b) = 1
<1>1. CASE a = 0
  BY <1>1 DEF CeilDiv
<1>2. CASE a # 0
  <2> DEFINE c == a + b - 1
  <2>1. c \in b .. 2 * b - 1
    BY <1>2
  <2>2. c \div b = 1
    <3> HIDE DEF c
    <3>1. QED
      BY <2>1
  <2>3. QED
    BY <1>2, <2>2 DEF CeilDiv
<1>3. QED
  BY <1>1, <1>2

\* The lowest number of a nonempty set, and the highest of a bounded one.
LEMMA LowestFacts ==
  ASSUME NEW S, S \subseteq Nat, S # {}
  PROVE  Lowest(S) \in S /\ \A y \in S : Lowest(S) <= y
BY LeastNat DEF Lowest

\* The highest of a bounded set of numbers is in it and bounds it.
LEMMA HighestFacts ==
  ASSUME NEW S, S \subseteq Nat, S # {}, NEW b \in Nat, \A x \in S : x <= b
  PROVE  Highest(S) \in S /\ \A y \in S : y <= Highest(S)
<1>1. S \subseteq 0 .. b
  OBVIOUS
<1>2. \E m \in S : \A k \in S : k <= m
  BY <1>1, GreatestNat
<1>3. QED
  BY <1>2 DEF Highest

-----------------------------------------------------------------------------
(* The store's operations *)

\* The file is a file of pages: writing an object that is no table, or a table, keeps
\* the pages that read as tables tables.
Typed(o) == o.kind = "table" => o = Table(o.entries)

\* The pages of extent e give way to the extent f, which holds the object o, and no
\* other allocated page changes.
Rewrites(s, t, e, f, o) ==
  /\ GoodStore(t)
  /\ t.bm = (s.bm \ Pages(e)) \cup Pages(f)
  /\ Pages(f) \cap (s.bm \ Pages(e)) = {}
  /\ \A p \in s.bm \ Pages(e) : t.file[p] = s.file[p]
  /\ \A p \in Pages(f) : t.file[p] = Cell(o, p - f[1])

\* Nothing gives way.
Nothing == <<0, 0>>

\* An extent's pages are numbers and begin with its first page; the empty extent has none.
LEMMA PagesFacts ==
  /\ Pages(Nothing) = {}
  /\ \A e \in Extents : /\ e[1] \in Nat /\ e[2] \in Nat \ {0} /\ e = <<e[1], e[2]>>
                        /\ e[1] \in Pages(e) /\ Pages(e) \subseteq Nat
BY DEF Pages, Nothing, Extents

\* The pages P hold the object o, written from page p on.
Writes(s, t, P, p, o) ==
  /\ GoodStore(t) /\ t.bm = s.bm
  /\ \A q \in DOMAIN s.file \ P : t.file[q] = s.file[q]
  /\ \A q \in P : t.file[q] = Cell(o, q - p)

\* write_pages over allocated pages.
LEMMA WriteFacts ==
  ASSUME NEW s, GoodStore(s), NEW p \in Nat, NEW k \in Nat, NEW o, Typed(o),
         NEW P, P = Pages(<<p, k>>), P \subseteq DOMAIN s.file,
         NEW t, t = write_pages(s, p, k, o)
  PROVE  Writes(s, t, P, p, o)
<1> DEFINE F == [q \in DOMAIN s.file \cup P |-> IF q \in P THEN Cell(o, q - p) ELSE s.file[q]]
<1>1. s = [file |-> s.file, bm |-> s.bm, n |-> s.n, head |-> s.head, ok |-> s.ok] /\ s.ok = TRUE
  BY DEF GoodStore, GoodFile, IsStore
<1>2. t = [s EXCEPT !.file = F]
  BY <1>1 DEF write_pages
<1> HIDE DEF F
<1>3. t = [file |-> F, bm |-> s.bm, n |-> s.n, head |-> s.head, ok |-> s.ok]
  BY <1>1, <1>2
<1>4. DOMAIN F = DOMAIN s.file
  BY DEF F
<1>5. \A q \in DOMAIN s.file : F[q] = IF q \in P THEN Cell(o, q - p) ELSE s.file[q]
  BY DEF F
<1>6. /\ IsStore(t) /\ t.file = F /\ t.ok = TRUE /\ t.bm = s.bm /\ t.n = s.n /\ t.head = s.head
  BY <1>1, <1>3 DEF IsStore
<1>7. TablesTyped(t)
  <2>1. SUFFICES ASSUME NEW q \in DOMAIN s.file, F[q].o.kind = "table"
                 PROVE  F[q].o = Table(F[q].o.entries)
    BY <1>4, <1>6 DEF TablesTyped
  <2>2. CASE q \in P
    <3>1. F[q] = Cell(o, q - p)
      BY <2>2, <1>5
    <3>2. F[q].o = o
      BY <3>1 DEF Cell
    <3>3. QED
      BY <2>1, <3>2 DEF Typed
  <2>3. CASE q \notin P
    BY <2>1, <2>3, <1>5 DEF GoodStore, GoodFile, TablesTyped
  <2>4. QED
    BY <2>2, <2>3
<1>8. QED
  BY <1>4, <1>5, <1>6, <1>7 DEF GoodStore, GoodFile, Sized, Writes

\* free_extent of allocated pages: they are no longer allocated, and their contents are
\* the only ones that change.
LEMMA FreeFacts ==
  ASSUME NEW s, GoodStore(s), NEW e \in Nat \X Nat, Pages(e) \subseteq s.bm,
         NEW t, t = free_extent(s, e)
  PROVE  /\ GoodStore(t) /\ t.bm = s.bm \ Pages(e)
         /\ \A q \in s.bm \ Pages(e) : t.file[q] = s.file[q]
<1>1. s = [file |-> s.file, bm |-> s.bm, n |-> s.n, head |-> s.head, ok |-> s.ok] /\ s.ok = TRUE
  BY DEF GoodStore, GoodFile, IsStore
<1>2. e[1] # Nil /\ Pages(e) \cap s.bm = Pages(e)
  BY ConstantsAssumption
<1>3. CASE Pages(e) = {}
  <2>1. t = s
    BY <1>3 DEF free_extent
  <2>2. QED
    BY <2>1, <1>3
<1>4. CASE Pages(e) # {}
  <2> DEFINE Link(q) == {x \in Pages(e) : x < q}
             F == [q \in DOMAIN s.file |->
                     IF q \notin Pages(e) THEN s.file[q]
                     ELSE Cell(FreeLink(IF Link(q) = {} THEN s.head ELSE Highest(Link(q))), 0)]
  <2>1. t = [s EXCEPT !.bm = s.bm \ Pages(e), !.head = Highest(Pages(e)), !.file = F]
    BY <1>1, <1>2, <1>4 DEF free_extent
  <2>2. DOMAIN F = DOMAIN s.file
    OBVIOUS
  <2>3. \A q \in DOMAIN s.file : q \notin Pages(e) => F[q] = s.file[q]
    OBVIOUS
  <2>4. \A q \in DOMAIN s.file : q \in Pages(e) => F[q].o.kind = "free"
    BY DEF Cell, FreeLink
  <2> HIDE DEF F
  <2>5. t = [file |-> F, bm |-> s.bm \ Pages(e), n |-> s.n, head |-> Highest(Pages(e)), ok |-> s.ok]
    BY <1>1, <2>1
  <2>6. IsStore(t) /\ t.file = F /\ t.bm = s.bm \ Pages(e) /\ t.n = s.n /\ t.ok = TRUE
    BY <1>1, <2>5 DEF IsStore
  <2>7. TablesTyped(t)
    BY <2>2, <2>3, <2>4, <2>6 DEF GoodStore, GoodFile, TablesTyped
  <2>8. s.bm \subseteq DOMAIN s.file
    BY DEF GoodStore, GoodFile
  <2>9. QED
    BY <2>2, <2>3, <2>6, <2>7, <2>8 DEF GoodStore, GoodFile, Sized
<1>5. QED
  BY <1>3, <1>4

\* A page popped from the free list or found by the scan is new to the owners of the
\* allocated pages, and allocating it changes none of their pages.
Allocates(s, a, k) ==
  /\ a.page \in Nat
  /\ GoodStore(a.s)
  /\ a.s.bm = s.bm \cup Pages(<<a.page, k>>)
  /\ Pages(<<a.page, k>>) \cap s.bm = {}
  /\ Pages(<<a.page, k>>) \subseteq DOMAIN a.s.file
  /\ \A q \in s.bm : a.s.file[q] = s.file[q]

\* Marking a free run as allocated changes the bitmap and nothing else.
LEMMA TakeFacts ==
  ASSUME NEW s, GoodStore(s), NEW p \in Nat, NEW k \in Nat \ {0},
         p + k <= s.n, Pages(<<p, k>>) \cap s.bm = {}
  PROVE  /\ GoodStore(Take(s, p, k)) /\ Take(s, p, k).file = s.file
         /\ Take(s, p, k).bm = s.bm \cup Pages(<<p, k>>)
         /\ Take(s, p, k) = [file |-> s.file, bm |-> s.bm \cup Pages(<<p, k>>), n |-> s.n,
                             head |-> s.head, ok |-> s.ok]
         /\ Pages(<<p, k>>) \subseteq DOMAIN s.file
<1>1. s = [file |-> s.file, bm |-> s.bm, n |-> s.n, head |-> s.head, ok |-> s.ok] /\ s.ok = TRUE
  BY DEF GoodStore, GoodFile, IsStore
<1>2. PICK t : t = Take(s, p, k)
  OBVIOUS
<1>3. t = [file |-> s.file, bm |-> s.bm \cup Pages(<<p, k>>), n |-> s.n, head |-> s.head,
           ok |-> s.ok]
  BY <1>1, <1>2 DEF Take
<1>4. Pages(<<p, k>>) \subseteq DOMAIN s.file
  BY DEF Pages, GoodStore, Sized
<1>5. IsStore(t) /\ t.ok = TRUE /\ t.file = s.file /\ t.bm = s.bm \cup Pages(<<p, k>>) /\ t.n = s.n
  BY <1>1, <1>3 DEF IsStore
<1>6. QED
  BY <1>2, <1>3, <1>4, <1>5 DEF GoodStore, GoodFile, Sized, TablesTyped

\* Growing the file keeps the allocated pages and leaves room for k more.
LEMMA GrowFacts ==
  ASSUME NEW s, GoodStore(s), NEW k \in Nat \ {0}
  PROVE  /\ GoodStore(Grow(s, k)) /\ Grow(s, k).bm = s.bm /\ Grow(s, k).n = s.n + k
         /\ \A q \in s.bm : Grow(s, k).file[q] = s.file[q]
<1> DEFINE F == [q \in 0 .. s.n + k - 1 |->
                   IF q \in DOMAIN s.file THEN s.file[q] ELSE Cell(Zero, 0)]
<1>1. s = [file |-> s.file, bm |-> s.bm, n |-> s.n, head |-> s.head, ok |-> s.ok] /\ s.ok = TRUE
  BY DEF GoodStore, GoodFile, IsStore
<1>2. PICK t : t = Grow(s, k)
  OBVIOUS
<1>3. t = [s EXCEPT !.n = s.n + k, !.file = F]
  BY <1>1, <1>2 DEF Grow
<1>4. DOMAIN s.file = 0 .. s.n - 1 /\ s.n \in Nat /\ s.bm \subseteq DOMAIN s.file /\ TablesTyped(s)
  BY DEF GoodStore, GoodFile, Sized
<1>5. /\ DOMAIN F = 0 .. (s.n + k) - 1
      /\ \A q \in DOMAIN s.file : F[q] = s.file[q]
      /\ \A q \in DOMAIN F : q \notin DOMAIN s.file => F[q] = Cell(Zero, 0)
  BY <1>4
<1> HIDE DEF F
<1>6. t = [file |-> F, bm |-> s.bm, n |-> s.n + k, head |-> s.head, ok |-> s.ok]
  BY <1>1, <1>3
<1>7. IsStore(t) /\ t.ok = TRUE /\ t.file = F /\ t.bm = s.bm /\ t.n = s.n + k
  BY <1>1, <1>6 DEF IsStore
<1>8. TablesTyped(t)
  <2>1. Cell(Zero, 0).o.kind = "free"
    BY DEF Cell, Zero
  <2>2. QED
    BY <1>4, <1>5, <1>7, <2>1 DEF TablesTyped
<1>9. t.bm \subseteq DOMAIN t.file
  BY <1>4, <1>5, <1>7
<1>10. QED
  BY <1>2, <1>4, <1>5, <1>7, <1>8, <1>9 DEF GoodStore, GoodFile, Sized

\* The bitmap scan finds a free run or grows the file until there is one, and takes it.
LEMMA ScanFacts ==
  ASSUME NEW s, GoodStore(s), NEW k \in Nat \ {0}
  PROVE  Allocates(s, ScanOrGrow(s, k), k)
<1> DEFINE gg == IF FreeRuns(s, k) = {} THEN Grow(s, k) ELSE s
<1>1. PICK g : g = gg
  OBVIOUS
<1>2. /\ GoodStore(g) /\ g.bm = s.bm
      /\ \A q \in s.bm : g.file[q] = s.file[q]
  BY <1>1, GrowFacts
<1>3. g.n \in Nat
  BY <1>2 DEF GoodStore, Sized
<1>4. FreeRuns(g, k) # {}
  <2>1. CASE FreeRuns(s, k) = {}
    <3>1. g.n = s.n + k /\ s.n \in Nat /\ s.bm \subseteq 0 .. s.n - 1
      BY <1>1, <2>1, GrowFacts DEF GoodStore, GoodFile, Sized
    <3>2. Pages(<<s.n, k>>) \cap g.bm = {} /\ s.n \in 0 .. g.n - k
      BY <1>2, <3>1 DEF Pages
    <3>3. QED
      BY <3>2 DEF FreeRuns
  <2>2. CASE FreeRuns(s, k) # {}
    BY <1>1, <2>2
  <2>3. QED
    BY <2>1, <2>2
<1>5. FreeRuns(g, k) \subseteq Nat
  BY DEF FreeRuns
<1>6. PICK p : p = Lowest(FreeRuns(g, k))
  OBVIOUS
<1>7. p \in FreeRuns(g, k)
  BY <1>4, <1>5, <1>6, LowestFacts
<1>8. p \in Nat /\ p + k <= g.n /\ Pages(<<p, k>>) \cap g.bm = {}
  BY <1>3, <1>7 DEF FreeRuns
<1>9. ScanOrGrow(s, k) = [page |-> p, s |-> Take(g, p, k)]
  BY <1>1, <1>6 DEF ScanOrGrow
<1>10. PICK t : t = Take(g, p, k)
  OBVIOUS
<1>11. /\ GoodStore(t) /\ t.file = g.file /\ t.bm = g.bm \cup Pages(<<p, k>>)
       /\ Pages(<<p, k>>) \subseteq DOMAIN t.file
  BY <1>2, <1>8, <1>10, TakeFacts
<1>12. QED
  BY <1>2, <1>8, <1>9, <1>10, <1>11 DEF Allocates

\* The free-list head is only a place to look at first.
LEMMA OtherHead ==
  ASSUME NEW s, GoodStore(s), NEW h
  PROVE  /\ GoodStore([s EXCEPT !.head = h])
         /\ [s EXCEPT !.head = h].bm = s.bm /\ [s EXCEPT !.head = h].file = s.file
<1>1. s = [file |-> s.file, bm |-> s.bm, n |-> s.n, head |-> s.head, ok |-> s.ok] /\ s.ok = TRUE
  BY DEF GoodStore, GoodFile, IsStore
<1>2. PICK t : t = [s EXCEPT !.head = h]
  OBVIOUS
<1>3. t = [file |-> s.file, bm |-> s.bm, n |-> s.n, head |-> h, ok |-> s.ok]
  BY <1>1, <1>2
<1>4. IsStore(t) /\ t.ok = TRUE /\ t.file = s.file /\ t.bm = s.bm /\ t.n = s.n
  BY <1>1, <1>3 DEF IsStore
<1>5. QED
  BY <1>2, <1>4 DEF GoodStore, GoodFile, Sized, TablesTyped

\* alloc_extent, by the free list or by the scan, hands out pages that were free.
LEMMA AllocFacts ==
  ASSUME NEW s, GoodStore(s), NEW k \in Nat \ {0}, alloc_extent(s, k).s.ok
  PROVE  Allocates(s, alloc_extent(s, k), k)
<1>1. s = [file |-> s.file, bm |-> s.bm, n |-> s.n, head |-> s.head, ok |-> s.ok] /\ s.ok = TRUE
  BY DEF GoodStore, GoodFile, IsStore
<1>2. CASE k # 1
  BY <1>1, <1>2, ScanFacts DEF alloc_extent
<1>3. CASE k = 1 /\ ~(s.head # Nil /\ s.head \notin s.bm)
  <2>1. PICK t : t = [s EXCEPT !.head = Nil]
    OBVIOUS
  <2>2. GoodStore(t) /\ t.bm = s.bm /\ t.file = s.file
    BY <2>1, OtherHead
  <2>3. alloc_extent(s, k) = ScanOrGrow(t, 1)
    BY <1>1, <1>3, <2>1 DEF alloc_extent, alloc_page
  <2>4. Allocates(t, ScanOrGrow(t, 1), 1)
    BY <2>2, ScanFacts
  <2>5. QED
    BY <1>3, <2>2, <2>3, <2>4 DEF Allocates
<1>4. CASE k = 1 /\ s.head # Nil /\ s.head \notin s.bm
  <2>1. alloc_extent(s, k) = alloc_page(s)
    BY <1>1, <1>4 DEF alloc_extent
  <2>2. CASE s.head \notin DOMAIN s.file
    <3>1. alloc_page(s).s = [s EXCEPT !.ok = FALSE]
      BY <1>4, <2>2 DEF alloc_page
    <3>2. alloc_page(s).s.ok = FALSE
      BY <1>1, <3>1
    <3>3. QED
      BY <2>1, <3>2
  <2>3. CASE s.head \in DOMAIN s.file
    <3>1. PICK h : h = IF s.file[s.head].o.kind = "free" THEN s.file[s.head].o.next ELSE Garbage
      OBVIOUS
    <3>2. PICK u : u = Take(s, s.head, 1)
      OBVIOUS
    <3>3. alloc_page(s) = [page |-> s.head, s |-> [u EXCEPT !.head = h]]
      BY <1>4, <2>3, <3>1, <3>2 DEF alloc_page
    <3>4. s.head \in Nat /\ s.head + 1 <= s.n /\ Pages(<<s.head, 1>>) = {s.head}
      BY <2>3 DEF GoodStore, Sized, Pages
    <3>5. /\ GoodStore(u) /\ u.file = s.file /\ u.bm = s.bm \cup Pages(<<s.head, 1>>)
          /\ Pages(<<s.head, 1>>) \subseteq DOMAIN s.file
      BY <1>4, <3>2, <3>4, TakeFacts
    <3>6. PICK t : t = [u EXCEPT !.head = h]
      OBVIOUS
    <3>7. GoodStore(t) /\ t.bm = u.bm /\ t.file = u.file
      BY <3>5, <3>6, OtherHead
    <3>8. alloc_extent(s, k) = [page |-> s.head, s |-> t]
      BY <2>1, <3>3, <3>6
    <3>9. QED
      BY <1>4, <3>4, <3>5, <3>7, <3>8 DEF Allocates
  <2>4. QED
    BY <2>2, <2>3
<1>5. QED
  BY <1>2, <1>3, <1>4

\* A new extent is written.
LEMMA PlaceFacts ==
  ASSUME NEW s, GoodStore(s), NEW k \in Nat \ {0}, NEW o, Typed(o), Place(s, o, k).s.ok
  PROVE  /\ Place(s, o, k).e \in Extents
         /\ Rewrites(s, Place(s, o, k).s, Nothing, Place(s, o, k).e, o)
<1>1. PICK a : a = alloc_extent(s, k)
  OBVIOUS
<1>2. PICK t : t = write_pages(a.s, a.page, k, o)
  OBVIOUS
<1>3. Place(s, o, k) = [e |-> <<a.page, k>>, s |-> t]
  BY <1>1, <1>2 DEF Place
<1>4. t.ok
  BY <1>3
<1>5. a.s.ok
  BY <1>2, <1>4 DEF write_pages
<1>6. Allocates(s, a, k)
  BY <1>1, <1>5, AllocFacts
<1>7. PICK P : P = Pages(<<a.page, k>>)
  OBVIOUS
<1>8. /\ a.page \in Nat /\ GoodStore(a.s) /\ a.s.bm = s.bm \cup P /\ P \cap s.bm = {}
      /\ P \subseteq DOMAIN a.s.file /\ \A q \in s.bm : a.s.file[q] = s.file[q]
  BY <1>6, <1>7 DEF Allocates
<1>9. s.bm \subseteq DOMAIN a.s.file
  BY <1>8 DEF GoodStore, GoodFile
<1>10. /\ t.bm = a.s.bm /\ GoodStore(t)
       /\ \A q \in DOMAIN a.s.file \ P : t.file[q] = a.s.file[q]
       /\ \A q \in P : t.file[q] = Cell(o, q - a.page)
  BY <1>2, <1>7, <1>8, WriteFacts DEF Writes
<1>11. <<a.page, k>> \in Extents /\ <<a.page, k>>[1] = a.page
  BY <1>8 DEF Extents
<1>12. Rewrites(s, t, Nothing, <<a.page, k>>, o)
  BY <1>7, <1>8, <1>9, <1>10, <1>11, PagesFacts DEF Rewrites
<1>13. QED
  BY <1>3, <1>11, <1>12

\* What threw stays thrown.
LEMMA FreeOk ==
  ASSUME NEW s, NEW e, free_extent(s, e).ok
  PROVE  s.ok
<1>1. SUFFICES ASSUME ~s.ok PROVE FALSE
  OBVIOUS
<1>2. free_extent(s, e) = s
  BY <1>1 DEF free_extent
<1>3. QED
  BY <1>1, <1>2

\* A store that has thrown stays so through an allocation and a write.
LEMMA PlaceOk ==
  ASSUME NEW s, NEW o, NEW k, Place(s, o, k).s.ok
  PROVE  s.ok
<1>1. SUFFICES ASSUME ~s.ok PROVE FALSE
  OBVIOUS
<1>2. alloc_extent(s, k) = [page |-> 0, s |-> s]
  BY <1>1 DEF alloc_extent
<1>3. Place(s, o, k).s = s
  BY <1>1, <1>2 DEF Place, write_pages
<1>4. QED
  BY <1>1, <1>3

\* An object moves: it is written to a new extent and the old one is freed.
LEMMA MoveFacts ==
  ASSUME NEW s, GoodStore(s), NEW k \in Nat \ {0}, NEW o, Typed(o),
         NEW e \in Extents, Pages(e) \subseteq s.bm,
         NEW a, a = Place(s, o, k), NEW t, t = free_extent(a.s, e), t.ok
  PROVE  a.e \in Extents /\ Rewrites(s, t, e, a.e, o)
<1>1. a.s.ok
  BY FreeOk
<1>2. a.e \in Extents /\ Rewrites(s, a.s, Nothing, a.e, o)
  BY <1>1, PlaceFacts
<1>3. PICK P : P = Pages(a.e)
  OBVIOUS
<1>4. /\ GoodStore(a.s) /\ a.s.bm = s.bm \cup P /\ P \cap s.bm = {}
      /\ \A p \in s.bm : a.s.file[p] = s.file[p]
      /\ \A p \in P : a.s.file[p] = Cell(o, p - a.e[1])
  BY <1>2, <1>3, PagesFacts DEF Rewrites
<1>5. e \in Nat \X Nat
  BY DEF Extents
<1>6. /\ GoodStore(t) /\ t.bm = a.s.bm \ Pages(e)
      /\ \A p \in a.s.bm \ Pages(e) : t.file[p] = a.s.file[p]
  BY <1>4, <1>5, FreeFacts
<1>7. QED
  BY <1>2, <1>3, <1>4, <1>6 DEF Rewrites

\* An object is written over the first k pages of an extent and the rest are freed.
LEMMA ShortenFacts ==
  ASSUME NEW s, GoodStore(s), NEW e \in Extents, Pages(e) \subseteq s.bm,
         NEW k \in Nat \ {0}, k <= e[2], NEW o, Typed(o),
         NEW t, t = free_extent(write_pages(s, e[1], k, o), <<e[1] + k, e[2] - k>>)
  PROVE  <<e[1], k>> \in Extents /\ Rewrites(s, t, e, <<e[1], k>>, o)
<1>1. e[1] \in Nat /\ e[2] \in Nat
  BY DEF Extents
<1>2. PICK P : P = Pages(<<e[1], k>>)
  OBVIOUS
<1>3. PICK Q : Q = Pages(<<e[1] + k, e[2] - k>>)
  OBVIOUS
<1>4. Pages(e) = P \cup Q /\ P \cap Q = {}
  <2>1. PICK a \in Nat : a = e[1]
    BY <1>1
  <2>2. PICK b \in Nat : b = e[2]
    BY <1>1
  <2>3. k \in Nat /\ k <= b
    BY <2>2
  <2>4. Pages(e) = a .. a + b - 1 /\ P = a .. a + k - 1 /\ Q = a + k .. a + k + (b - k) - 1
    BY <1>2, <1>3, <2>1, <2>2 DEF Pages
  <2>5. /\ a .. a + b - 1 = (a .. a + k - 1) \cup (a + k .. a + k + (b - k) - 1)
        /\ (a .. a + k - 1) \cap (a + k .. a + k + (b - k) - 1) = {}
    BY ONLY a \in Nat, b \in Nat, <2>3
  <2>6. QED
    BY <2>4, <2>5
<1>5. PICK w : w = write_pages(s, e[1], k, o)
  OBVIOUS
<1>6. s.bm \subseteq DOMAIN s.file
  BY DEF GoodStore, GoodFile
<1>7. /\ w.bm = s.bm /\ GoodStore(w)
      /\ \A q \in DOMAIN s.file \ P : w.file[q] = s.file[q]
      /\ \A q \in P : w.file[q] = Cell(o, q - e[1])
  BY <1>1, <1>2, <1>4, <1>5, <1>6, WriteFacts DEF Writes
<1>8. <<e[1] + k, e[2] - k>> \in Nat \X Nat
  BY <1>1
<1>9. /\ GoodStore(t) /\ t.bm = w.bm \ Q
      /\ \A q \in w.bm \ Q : t.file[q] = w.file[q]
  BY <1>3, <1>4, <1>5, <1>7, <1>8, FreeFacts
<1>10. <<e[1], k>> \in Extents /\ <<e[1], k>>[1] = e[1]
  BY <1>1 DEF Extents
<1>11. QED
  BY <1>2, <1>4, <1>6, <1>7, <1>9, <1>10 DEF Rewrites

\* An object is written over a whole extent.
LEMMA OverwriteFacts ==
  ASSUME NEW s, GoodStore(s), NEW e \in Extents, Pages(e) \subseteq s.bm, NEW o, Typed(o),
         NEW t, t = write_pages(s, e[1], e[2], o)
  PROVE  Rewrites(s, t, e, e, o)
<1>1. e[1] \in Nat /\ e[2] \in Nat /\ e = <<e[1], e[2]>>
  BY DEF Extents
<1>2. s.bm \subseteq DOMAIN s.file
  BY DEF GoodStore, GoodFile
<1>3. Pages(<<e[1], e[2]>>) = Pages(e)
  BY DEF Pages
<1>4. /\ t.bm = s.bm /\ GoodStore(t)
      /\ \A q \in DOMAIN s.file \ Pages(e) : t.file[q] = s.file[q]
      /\ \A q \in Pages(e) : t.file[q] = Cell(o, q - e[1])
  BY <1>1, <1>2, <1>3, WriteFacts DEF Writes
<1>5. QED
  BY <1>2, <1>4 DEF Rewrites

\* write_leaf_ rewrites the leaf's extent.
LEMMA WriteLeafFacts ==
  ASSUME NEW s, GoodStore(s), NEW lid, leaf_table[lid] \in Extents,
         Pages(leaf_table[lid]) \subseteq s.bm,
         NEW leaf, Typed(leaf), LeafPages(leaf.rows) \in Nat \ {0},
         NEW w, w = write_leaf_(s, lid, leaf), w.s.ok
  PROVE  w.e \in Extents /\ Rewrites(s, w.s, leaf_table[lid], w.e, leaf)
<1>1. PICK e : e = leaf_table[lid]
  OBVIOUS
<1>2. PICK k : k = LeafPages(leaf.rows)
  OBVIOUS
<1>3. PICK a : a = Place(s, leaf, k)
  OBVIOUS
<1>4. CASE k <= e[2]
  <2>1. PICK t : t = free_extent(write_pages(s, e[1], k, leaf), <<e[1] + k, e[2] - k>>)
    OBVIOUS
  <2>2. w = [e |-> <<e[1], k>>, s |-> t]
    BY <1>1, <1>2, <1>3, <1>4, <2>1 DEF write_leaf_
  <2>3. <<e[1], k>> \in Extents /\ Rewrites(s, t, e, <<e[1], k>>, leaf)
    BY <1>1, <1>2, <1>4, <2>1, ShortenFacts
  <2>4. QED
    BY <1>1, <2>2, <2>3
<1>5. CASE ~(k <= e[2])
  <2>1. PICK t : t = free_extent(a.s, e)
    OBVIOUS
  <2>2. w = [e |-> a.e, s |-> t]
    BY <1>1, <1>2, <1>3, <1>5, <2>1 DEF write_leaf_
  <2>3. t.ok
    BY <2>2
  <2>4. a.e \in Extents /\ Rewrites(s, t, e, a.e, leaf)
    BY <1>1, <1>2, <1>3, <2>1, <2>3, MoveFacts
  <2>5. QED
    BY <1>1, <2>2, <2>4
<1>6. QED
  BY <1>4, <1>5

-----------------------------------------------------------------------------
(* Ownership *)

\* When an extent that owns pages gives way to another, the others still own theirs and
\* hold what they held.
Keeps(s, t, D) == \A d \in D : ObjectAt(t, d) = ObjectAt(s, d)

GivesWay(s, t, E, e, f, o) ==
  /\ Owns(t, (E \ {e}) \cup {f})
  /\ Keeps(s, t, E \ {e})
  /\ ObjectAt(t, f) = o
  /\ f \notin E \ {e}

\* When one of disjoint extents moves, the others keep their pages and contents.
LEMMA OwnsRewrite ==
  ASSUME NEW s, GoodStore(s), NEW E, Owns(s, E), NEW e, e \in E \/ e = Nothing,
         NEW f \in Extents, NEW t, NEW o, Rewrites(s, t, e, f, o)
  PROVE  GivesWay(s, t, E, e, f, o)
<1> DEFINE D == E \ {e}
<1>1. /\ E \subseteq Extents
      /\ \A d \in E : Whole(s, d) /\ Pages(d) \cap Reserved = {}
      /\ \A c, d \in E : c # d => Pages(c) \cap Pages(d) = {}
      /\ s.bm = Reserved \cup Covered(E)
  BY DEF Owns
<1>2. /\ t.bm = (s.bm \ Pages(e)) \cup Pages(f)
      /\ Pages(f) \cap (s.bm \ Pages(e)) = {}
      /\ \A p \in s.bm \ Pages(e) : t.file[p] = s.file[p]
      /\ \A p \in Pages(f) : t.file[p] = Cell(o, p - f[1])
  BY DEF Rewrites
<1>3. s.bm \subseteq DOMAIN s.file /\ t.bm \subseteq DOMAIN t.file
  BY DEF GoodStore, GoodFile, Rewrites
<1>4. ASSUME NEW d \in D PROVE Pages(d) \subseteq s.bm \ Pages(e)
  <2>1. Pages(d) \subseteq s.bm
    BY <1>1 DEF Covered
  <2>2. Pages(d) \cap Pages(e) = {}
    BY <1>1, PagesFacts
  <2>3. QED
    BY <2>1, <2>2
<1>5. Pages(e) \cap Reserved = {}
  BY <1>1, PagesFacts
<1>6. ASSUME NEW d \in D
      PROVE  d[1] \in Pages(d) /\ d[1] \in DOMAIN s.file /\ d[1] \in DOMAIN t.file
             /\ t.file[d[1]] = s.file[d[1]]
  BY <1>1, <1>2, <1>3, <1>4, PagesFacts
<1>7. Keeps(s, t, D)
  BY <1>6 DEF Keeps, ObjectAt
<1>8. f[1] \in Pages(f) /\ f[1] \in Nat /\ f[1] \in DOMAIN t.file
  BY <1>2, <1>3, PagesFacts
<1>9. ObjectAt(t, f) = o
  <2>1. t.file[f[1]] = Cell(o, f[1] - f[1])
    BY <1>2, <1>8
  <2>2. QED
    BY <1>8, <2>1 DEF ObjectAt, Cell
<1>10. ASSUME NEW d \in D PROVE Whole(t, d) /\ Pages(d) \cap Reserved = {}
  <2>1. ObjectAt(t, d) = ObjectAt(s, d)
    BY <1>7 DEF Keeps
  <2>2. Whole(s, d) /\ Pages(d) \cap Reserved = {}
    BY <1>1
  <2>3. \A p \in Pages(d) : p \in DOMAIN t.file /\ t.file[p] = s.file[p]
    BY <1>2, <1>3, <1>4
  <2>4. QED
    BY <2>1, <2>2, <2>3 DEF Whole
<1>11. Whole(t, f) /\ Pages(f) \cap Reserved = {}
  <2>1. \A p \in Pages(f) : p \in DOMAIN t.file
    BY <1>2, <1>3
  <2>2. Pages(f) \cap Reserved = {}
    BY <1>1, <1>2, <1>5
  <2>3. QED
    BY <1>2, <1>9, <2>1, <2>2 DEF Whole
<1>12. \A d \in D : Pages(d) \cap Pages(f) = {}
  BY <1>2, <1>4
<1>13. t.bm = Reserved \cup Covered(D \cup {f})
  <2>1. s.bm \ Pages(e) = Reserved \cup Covered(D)
    <3>1. Covered(E) \ Pages(e) \subseteq Covered(D)
      BY DEF Covered
    <3>2. Covered(D) \subseteq Covered(E) \ Pages(e)
      BY <1>4 DEF Covered
    <3>3. QED
      BY <1>1, <1>5, <3>1, <3>2
  <2>2. Covered(D \cup {f}) = Covered(D) \cup Pages(f)
    BY DEF Covered
  <2>3. QED
    BY <1>2, <2>1, <2>2
<1>14. Owns(t, D \cup {f})
  <2>1. \A c, d \in D \cup {f} : c # d => Pages(c) \cap Pages(d) = {}
    BY <1>1, <1>12
  <2>2. \A d \in D \cup {f} : Whole(t, d) /\ Pages(d) \cap Reserved = {}
    BY <1>10, <1>11
  <2>3. D \cup {f} \subseteq Extents
    BY <1>1
  <2>4. QED
    BY <1>13, <2>1, <2>2, <2>3 DEF Owns
<1>15. f \notin D
  BY <1>8, <1>12
<1>16. QED
  BY <1>7, <1>9, <1>14, <1>15 DEF GivesWay

-----------------------------------------------------------------------------
(* The tree, when its nodes stay as they are *)

\* The children of a node depend on what its extent holds.
LEMMA SameObject ==
  ASSUME NEW s, NEW t, NEW e, ObjectAt(t, e) = ObjectAt(s, e)
  PROVE  /\ Children(t, e) = Children(s, e) /\ NodeChildren(t, e) = NodeChildren(s, e)
         /\ \A i : ChildAt(t, e, i) = ChildAt(s, e, i)
<1>1. Children(t, e) = Children(s, e)
  BY DEF Children
<1>2. QED
  BY <1>1 DEF NodeChildren, ChildAt

SameTree(s, t, root) ==
  /\ NodeChildren(t, root) = NodeChildren(s, root)
  /\ Mids(t, root) = Mids(s, root) /\ Lows(t, root) = Lows(s, root)
  /\ Nodes(t, root) = Nodes(s, root)
  /\ \A e \in Nodes(s, root) : ObjectAt(t, e) = ObjectAt(s, e) /\ Children(t, e) = Children(s, e)

\* A tree whose nodes all hold what they held is the same tree.
LEMMA TreeFrame ==
  ASSUME NEW s, NEW t, NEW root, Keeps(s, t, Nodes(s, root))
  PROVE  /\ SameTree(s, t, root)
         /\ TreeOK(s, root) => TreeOK(t, root)
         /\ \A n : NamesOK(s, root, n) => NamesOK(t, root, n)
<1>1. \A e \in Nodes(s, root) : /\ ObjectAt(t, e) = ObjectAt(s, e)
                                /\ Children(t, e) = Children(s, e)
                                /\ NodeChildren(t, e) = NodeChildren(s, e)
                                /\ \A i : ChildAt(t, e, i) = ChildAt(s, e, i)
  BY SameObject DEF Keeps
<1>2. root \in Nodes(s, root) /\ Mids(s, root) \subseteq Nodes(s, root)
      /\ Lows(s, root) \subseteq Nodes(s, root)
  BY DEF Nodes
<1>3. Mids(t, root) = Mids(s, root)
  BY <1>1, <1>2 DEF Mids
<1>4. Lows(t, root) = Lows(s, root)
  <2>1. {NodeChildren(t, m) : m \in Mids(s, root)} = {NodeChildren(s, m) : m \in Mids(s, root)}
    BY <1>1, <1>2
  <2>2. QED
    BY <1>3, <2>1 DEF Lows
<1>5. SameTree(s, t, root)
  BY <1>1, <1>2, <1>3, <1>4 DEF SameTree, Nodes
<1>6. ASSUME TreeOK(s, root) PROVE TreeOK(t, root)
  <2>1. Depth = 3 => IsUpper(t, root) /\ root \notin Mids(t, root)
    BY <1>1, <1>2, <1>3, <1>6 DEF TreeOK, IsUpper
  <2>2. \A m \in Mids(t, root) : IsUpper(t, m)
    BY <1>1, <1>2, <1>3, <1>6 DEF TreeOK, IsUpper
  <2>3. \A e \in Lows(t, root) : IsLow(t, e)
    BY <1>1, <1>2, <1>4, <1>6 DEF TreeOK, IsLow
  <2>4. ASSUME NEW m \in Mids(t, root), NEW q \in Mids(t, root),
               NEW i \in DOMAIN Children(t, m), NEW j \in DOMAIN Children(t, q),
               ChildAt(t, m, i) = ChildAt(t, q, j)
        PROVE  m = q /\ i = j
    <3>1. /\ m \in Mids(s, root) /\ q \in Mids(s, root)
          /\ i \in DOMAIN Children(s, m) /\ j \in DOMAIN Children(s, q)
          /\ ChildAt(s, m, i) = ChildAt(s, q, j)
      BY <1>1, <1>2, <1>3, <2>4
    <3>2. QED
      BY <1>6, <3>1 DEF TreeOK
  <2>5. QED
    BY <2>1, <2>2, <2>3, <2>4 DEF TreeOK
<1>7. ASSUME NEW n, NamesOK(s, root, n) PROVE NamesOK(t, root, n)
  <2>1. \A e \in Lows(s, root) : Children(t, e) = Children(s, e)
    BY <1>1, <1>2
  <2>2. \A e \in Lows(t, root) : \A i \in DOMAIN Children(t, e) :
          Children(t, e)[i].page \in 1 .. n
    BY <1>4, <1>7, <2>1 DEF NamesOK
  <2>3. ASSUME NEW l \in 1 .. n
        PROVE  \E e \in Lows(t, root) : \E i \in DOMAIN Children(t, e) : Children(t, e)[i].page = l
    BY <1>4, <1>7, <2>1 DEF NamesOK
  <2>4. ASSUME NEW d \in Lows(t, root), NEW e \in Lows(t, root),
               NEW i \in DOMAIN Children(t, d), NEW j \in DOMAIN Children(t, e),
               Children(t, d)[i].page = Children(t, e)[j].page
        PROVE  d = e /\ i = j
    BY <1>4, <1>7, <2>1, <2>4 DEF NamesOK
  <2>5. QED
    BY <2>2, <2>3, <2>4 DEF NamesOK
<1>8. QED
  BY <1>5, <1>6, <1>7

\* The kinds of the objects tell the leaves, the nodes and the blobs apart.
KindsApart(s, lt, root, config, card, tab) ==
  /\ \A l \in DOMAIN lt : ObjectAt(s, lt[l]).kind = "leaf"
  /\ \A e \in Nodes(s, root) : ObjectAt(s, e).kind = "node"
  /\ ObjectAt(s, config).kind = "config"
  /\ ObjectAt(s, card).kind = "card"
  /\ ObjectAt(s, tab).kind = "table"

\* The nodes of a tree are node objects; no lowest node is an inner one.
LEMMA NodeKinds ==
  ASSUME NEW s, NEW root, TreeOK(s, root), Depth \in 1 .. 3
  PROVE  /\ \A e \in Nodes(s, root) : ObjectAt(s, e).kind = "node"
         /\ Mids(s, root) \cap Lows(s, root) = {}
<1>1. \A e : IsLow(s, e) \/ IsUpper(s, e) => ObjectAt(s, e).kind = "node"
  BY DEF IsLow, IsUpper, Node
<1>2. ASSUME NEW e \in Nodes(s, root) PROVE ObjectAt(s, e).kind = "node"
  <2>1. CASE Depth = 1
    BY <1>1, <2>1 DEF TreeOK, Nodes, Mids, Lows
  <2>2. CASE Depth = 2
    BY <1>1, <2>2 DEF TreeOK, Nodes, Mids
  <2>3. CASE Depth = 3
    BY <1>1, <2>3 DEF TreeOK, Nodes
  <2>4. QED
    BY <2>1, <2>2, <2>3
<1>5. ASSUME NEW e, IsLow(s, e), IsUpper(s, e) PROVE FALSE
  <2>1. Len(Children(s, e)) >= 1
    BY <1>5, EmptySeq DEF IsLow
  <2>2. Children(s, e)[1] \in LeafEntries /\ Children(s, e)[1] \in NodeEntries
    BY <1>5, <2>1 DEF IsLow, IsUpper
  <2>3. QED
    BY <2>2 DEF LeafEntries, NodeEntries
<1>6. QED
  BY <1>2, <1>5 DEF TreeOK

\* Leaves, nodes and blobs are objects of different kinds, so their extents differ.
LEMMA SoundKinds ==
  ASSUME NEW s, NEW lt, NEW root, NEW config, NEW card, NEW tab, Depth \in 1 .. 3,
         Sound(s, lt, root, config, card, tab)
  PROVE  KindsApart(s, lt, root, config, card, tab)
<1>1. \A l \in DOMAIN lt : ObjectAt(s, lt[l]).kind = "leaf"
  BY DEF Sound, TableOK, LeafOK, Leaf
<1>2. \A e \in Nodes(s, root) : ObjectAt(s, e).kind = "node"
  BY NodeKinds DEF Sound
<1>3. QED
  BY <1>1, <1>2 DEF Sound, KindsApart

\* A leaf is rewritten: its table entry changes, everything else stays.
LeafRewritten(s, lt, root, config, card, tab, t, lt2, l, o) ==
  /\ Intact(t, lt2, root, config, card, tab)
  /\ SameTree(s, t, root)
  /\ Keeps(s, t, {config, card, tab})
  /\ \A k \in DOMAIN lt : ObjectAt(t, lt2[k]) = IF k = l THEN o ELSE ObjectAt(s, lt[k])

\* write_leaf_: a leaf moves and the index stays intact with the new table entry.
LEMMA IntactLeaf ==
  ASSUME NEW s, GoodStore(s), NEW lt, NEW root, NEW config, NEW card, NEW tab,
         Depth \in 1 .. 3, Intact(s, lt, root, config, card, tab),
         NEW l \in DOMAIN lt, NEW f \in Extents, NEW t, NEW o, LeafOK(o),
         Rewrites(s, t, lt[l], f, o),
         NEW lt2, lt2 = [lt EXCEPT ![l] = f]
  PROVE  LeafRewritten(s, lt, root, config, card, tab, t, lt2, l, o)
<1> DEFINE N == Nodes(s, root)
           B == {config, card, tab}
           E == TableExtents(lt) \cup N \cup B
<1>1. KindsApart(s, lt, root, config, card, tab)
  BY SoundKinds DEF Intact, Sound
<1>2. Owns(s, E) /\ lt[l] \in E
  BY DEF Intact, Sound, TableExtents
<1>3. lt \in Seq(Extents) /\ \A k, m \in DOMAIN lt : lt[k] = lt[m] => k = m
  BY DEF Intact, Sound, TableOK
<1>4. /\ lt2 \in Seq(Extents) /\ Len(lt2) = Len(lt) /\ DOMAIN lt2 = DOMAIN lt
      /\ \A k \in DOMAIN lt : lt2[k] = IF k = l THEN f ELSE lt[k]
  BY <1>3, ExceptSeq
<1>5. lt[l] \notin N /\ lt[l] \notin B
  BY <1>1 DEF KindsApart
<1>6. ASSUME NEW k \in DOMAIN lt, k # l PROVE lt[k] \in E \ {lt[l]}
  BY <1>3, <1>6 DEF TableExtents
<1>7. (E \ {lt[l]}) \cup {f} = TableExtents(lt2) \cup N \cup B
  <2>1. TableExtents(lt2) = (TableExtents(lt) \ {lt[l]}) \cup {f}
    <3>1. ASSUME NEW k \in DOMAIN lt PROVE lt2[k] \in (TableExtents(lt) \ {lt[l]}) \cup {f}
      BY <1>3, <1>4 DEF TableExtents
    <3>2. ASSUME NEW k \in DOMAIN lt, lt[k] # lt[l] PROVE lt[k] \in TableExtents(lt2)
      BY <1>4, <3>2 DEF TableExtents
    <3>3. f \in TableExtents(lt2)
      BY <1>4 DEF TableExtents
    <3>4. QED
      BY <1>4, <3>1, <3>2, <3>3 DEF TableExtents
  <2>2. QED
    BY <1>5, <2>1
<1> HIDE DEF E
<1>8. /\ Owns(t, (E \ {lt[l]}) \cup {f})
      /\ Keeps(s, t, E \ {lt[l]})
      /\ ObjectAt(t, f) = o
      /\ f \notin E \ {lt[l]}
  BY <1>2, OwnsRewrite DEF GivesWay
<1>9. Keeps(s, t, N) /\ Keeps(s, t, B)
  BY <1>5, <1>8 DEF Keeps, E
<1>10. SameTree(s, t, root) /\ TreeOK(t, root) /\ NamesOK(t, root, Len(lt2))
  BY <1>4, <1>9, TreeFrame DEF Intact, Sound
<1>11. ASSUME NEW k \in DOMAIN lt
       PROVE  ObjectAt(t, lt2[k]) = IF k = l THEN o ELSE ObjectAt(s, lt[k])
  <2>1. CASE k = l
    BY <1>4, <1>8, <2>1
  <2>2. CASE k # l
    BY <1>4, <1>6, <1>8, <2>2 DEF Keeps
  <2>3. QED
    BY <2>1, <2>2
<1>12. TableOK(t, lt2)
  <2>1. \A k, m \in DOMAIN lt2 : lt2[k] = lt2[m] => k = m
    BY <1>3, <1>4, <1>6, <1>8
  <2>2. \A k \in DOMAIN lt2 : LeafOK(ObjectAt(t, lt2[k]))
    BY <1>4, <1>11 DEF Intact, Sound, TableOK
  <2>3. QED
    BY <1>4, <2>1, <2>2 DEF TableOK
<1>13. Owns(t, TableExtents(lt2) \cup Nodes(t, root) \cup B)
  BY <1>7, <1>8, <1>10 DEF SameTree
<1>14. Intact(t, lt2, root, config, card, tab)
  BY <1>9, <1>10, <1>12, <1>13 DEF Intact, Sound, Keeps
<1>15. QED
  BY <1>9, <1>10, <1>11, <1>14 DEF LeafRewritten

\* A blob is rewritten; the blobs B are the others.
BlobRewritten(s, lt, root, B, t, f, o) ==
  /\ SameTree(s, t, root)
  /\ Keeps(s, t, TableExtents(lt) \cup B)
  /\ ObjectAt(t, f) = o

\* The config, the statistics or the leaf table move and the index stays intact.
LEMMA IntactBlob ==
  ASSUME NEW s, GoodStore(s), NEW lt, NEW root, NEW config, NEW card, NEW tab,
         Depth \in 1 .. 3, Intact(s, lt, root, config, card, tab),
         NEW e, NEW f \in Extents, NEW t, NEW o, Rewrites(s, t, e, f, o),
         NEW config2, NEW card2, NEW tab2,
         \/ e = config /\ o.kind = "config" /\ config2 = f /\ card2 = card /\ tab2 = tab
         \/ e = card /\ o.kind = "card" /\ config2 = config /\ card2 = f /\ tab2 = tab
         \/ e = tab /\ o.kind = "table" /\ config2 = config /\ card2 = card /\ tab2 = f
  PROVE  /\ Intact(t, lt, root, config2, card2, tab2)
         /\ BlobRewritten(s, lt, root, {config, card, tab} \ {e}, t, f, o)
<1> DEFINE N == Nodes(s, root)
           B == {config, card, tab}
           E == TableExtents(lt) \cup N \cup B
<1>1. KindsApart(s, lt, root, config, card, tab)
  BY SoundKinds DEF Intact, Sound
<1>2. Owns(s, E) /\ e \in E
  BY DEF Intact, Sound
<1>3. e \notin N /\ e \notin TableExtents(lt)
  BY <1>1 DEF KindsApart, TableExtents
<1>4. (B \ {e}) \cup {f} = {config2, card2, tab2}
  BY <1>1 DEF KindsApart
<1>5. (E \ {e}) \cup {f} = TableExtents(lt) \cup N \cup {config2, card2, tab2}
  BY <1>3, <1>4
<1> HIDE DEF E
<1>6. /\ Owns(t, (E \ {e}) \cup {f})
      /\ Keeps(s, t, E \ {e})
      /\ ObjectAt(t, f) = o
  <2>1. GivesWay(s, t, E, e, f, o)
    BY <1>2, OwnsRewrite
  <2>2. QED
    BY <2>1 DEF GivesWay
<1>7. Keeps(s, t, N) /\ Keeps(s, t, TableExtents(lt) \cup (B \ {e}))
  BY <1>3, <1>6 DEF Keeps, E
<1>8. SameTree(s, t, root) /\ TreeOK(t, root) /\ NamesOK(t, root, Len(lt))
  BY <1>7, TreeFrame DEF Intact, Sound
<1>9. TableOK(t, lt)
  BY <1>7 DEF Intact, Sound, TableOK, Keeps, TableExtents
<1>10. Owns(t, TableExtents(lt) \cup Nodes(t, root) \cup {config2, card2, tab2})
  BY <1>5, <1>6, <1>8 DEF SameTree
<1>11. /\ ObjectAt(t, config2).kind = "config" /\ ObjectAt(t, card2).kind = "card"
       /\ ObjectAt(t, tab2).kind = "table"
  BY <1>1, <1>6, <1>7 DEF Keeps, KindsApart
<1>12. QED
  BY <1>6, <1>7, <1>8, <1>9, <1>10, <1>11 DEF Intact, Sound, BlobRewritten

-----------------------------------------------------------------------------
(* A split: the leaves *)

\* Two new leaves take the place of one: the first under its id, the second under the
\* next free id.
LeafSplit(s, lt, root, config, card, tab, t, lt2, l, oa, ob) ==
  /\ Sound(t, lt2, root, config, card, tab)
  /\ NamesOK(t, root, Len(lt))
  /\ SameTree(s, t, root)
  /\ Keeps(s, t, {config, card, tab})
  /\ lt2 \in Seq(Extents) /\ Len(lt2) = Len(lt) + 1
  /\ \A k \in DOMAIN lt : ObjectAt(t, lt2[k]) = IF k = l THEN oa ELSE ObjectAt(s, lt[k])
  /\ ObjectAt(t, lt2[Len(lt) + 1]) = ob

\* split_leaf_: one leaf gives way to two, the second at the end of the table.
LEMMA SplitLeaves ==
  ASSUME NEW s, GoodStore(s), NEW lt, NEW root, NEW config, NEW card, NEW tab,
         Depth \in 1 .. 3, Intact(s, lt, root, config, card, tab),
         NEW l \in DOMAIN lt, NEW f \in Extents, NEW g \in Extents,
         NEW oa, LeafOK(oa), NEW ob, LeafOK(ob),
         NEW u, Rewrites(s, u, Nothing, f, oa), NEW t, Rewrites(u, t, lt[l], g, ob),
         NEW lt2, lt2 = Append([lt EXCEPT ![l] = f], g)
  PROVE  LeafSplit(s, lt, root, config, card, tab, t, lt2, l, oa, ob)
<1> DEFINE N == Nodes(s, root)
           B == {config, card, tab}
           E == TableExtents(lt) \cup N \cup B
           n == Len(lt)
<1>1. KindsApart(s, lt, root, config, card, tab)
  BY SoundKinds DEF Intact
<1>2. Owns(s, E) /\ lt[l] \in E
  BY DEF Intact, Sound, TableExtents
<1>3. lt \in Seq(Extents) /\ \A k, m \in DOMAIN lt : lt[k] = lt[m] => k = m
  BY DEF Intact, Sound, TableOK
<1>4. n \in Nat /\ DOMAIN lt = 1 .. n
  BY <1>3
<1>5. PICK le : le = [lt EXCEPT ![l] = f]
  OBVIOUS
<1>6. /\ le \in Seq(Extents) /\ Len(le) = n
      /\ \A k \in DOMAIN lt : le[k] = IF k = l THEN f ELSE lt[k]
  BY <1>3, <1>5, ExceptSeq
<1>7. /\ lt2 \in Seq(Extents) /\ Len(lt2) = n + 1 /\ DOMAIN lt2 = 1 .. n + 1
      /\ \A k \in DOMAIN lt : lt2[k] = IF k = l THEN f ELSE lt[k]
      /\ lt2[n + 1] = g
  <2> HIDE DEF n
  <2>1. lt2 = Append(le, g)
    BY <1>5
  <2>2. /\ lt2 \in Seq(Extents) /\ Len(lt2) = n + 1 /\ lt2[n + 1] = g
        /\ \A k \in 1 .. n : lt2[k] = le[k]
    BY ONLY <1>4, <1>6, <2>1, g \in Extents, AppendProperties
  <2>3. QED
    BY <1>4, <1>6, <2>2
<1>8. lt[l] \notin N /\ lt[l] \notin B
  BY <1>1 DEF KindsApart
<1>9. E \ {Nothing} = E /\ lt[l] # Nothing
  BY <1>2 DEF Owns, Extents, Nothing
<1> HIDE DEF E
<1>10. /\ Owns(u, E \cup {f}) /\ Keeps(s, u, E) /\ ObjectAt(u, f) = oa /\ f \notin E
  <2>1. /\ Owns(u, (E \ {Nothing}) \cup {f}) /\ Keeps(s, u, E \ {Nothing})
        /\ ObjectAt(u, f) = oa /\ f \notin E \ {Nothing}
    <3>1. GivesWay(s, u, E, Nothing, f, oa)
      BY <1>2, OwnsRewrite
    <3>2. QED
      BY <3>1 DEF GivesWay
  <2>2. QED
    BY <1>9, <2>1
<1>11. GoodStore(u) /\ GoodStore(t)
  BY DEF Rewrites
<1> DEFINE F == E \cup {f}
<1>12. lt[l] \in F /\ Owns(u, F)
  BY <1>2, <1>10
<1> HIDE DEF F
<1>13. /\ Owns(t, (F \ {lt[l]}) \cup {g}) /\ Keeps(u, t, F \ {lt[l]})
       /\ ObjectAt(t, g) = ob /\ g \notin F \ {lt[l]}
  <2>1. GivesWay(u, t, F, lt[l], g, ob)
    BY <1>11, <1>12, OwnsRewrite
  <2>2. QED
    BY <2>1 DEF GivesWay
<1>14. Keeps(s, t, E \ {lt[l]}) /\ ObjectAt(t, f) = oa
  BY <1>2, <1>10, <1>13 DEF Keeps, F
<1>15. Keeps(s, t, N) /\ Keeps(s, t, B)
  BY <1>8, <1>14 DEF Keeps, E
<1>16. SameTree(s, t, root) /\ TreeOK(t, root) /\ NamesOK(t, root, n)
  BY <1>15, TreeFrame DEF Intact, Sound
<1>17. ASSUME NEW k \in DOMAIN lt, k # l PROVE lt[k] \in E \ {lt[l]}
  BY <1>3, <1>17 DEF TableExtents, E
<1>18. ASSUME NEW k \in DOMAIN lt
       PROVE  ObjectAt(t, lt2[k]) = IF k = l THEN oa ELSE ObjectAt(s, lt[k])
  <2>1. CASE k = l
    BY <1>7, <1>14, <2>1
  <2>2. CASE k # l
    BY <1>7, <1>14, <1>17, <2>2 DEF Keeps
  <2>3. QED
    BY <2>1, <2>2
<1>19. (F \ {lt[l]}) \cup {g} = TableExtents(lt2) \cup N \cup B
  <2>1. TableExtents(lt2) = ((TableExtents(lt) \ {lt[l]}) \cup {f}) \cup {g}
    <3>1. ASSUME NEW k \in DOMAIN lt2
          PROVE  lt2[k] \in ((TableExtents(lt) \ {lt[l]}) \cup {f}) \cup {g}
      <4>1. CASE k = n + 1
        BY <1>7, <4>1
      <4>2. CASE k \in DOMAIN lt
        BY <1>3, <1>7, <4>2 DEF TableExtents
      <4>3. QED
        BY <1>4, <1>7, <4>1, <4>2
    <3>2. DOMAIN lt \subseteq DOMAIN lt2 /\ n + 1 \in DOMAIN lt2
      BY <1>4, <1>7
    <3>3. ASSUME NEW k \in DOMAIN lt, lt[k] # lt[l] PROVE lt[k] \in TableExtents(lt2)
      BY <1>7, <3>2, <3>3 DEF TableExtents
    <3>4. f \in TableExtents(lt2) /\ g \in TableExtents(lt2)
      BY <1>7, <3>2 DEF TableExtents
    <3>5. QED
      BY <3>1, <3>3, <3>4 DEF TableExtents
  <2>2. QED
    BY <1>2, <1>8, <1>10, <2>1 DEF E, F
<1>20. TableOK(t, lt2)
  <2>1. g # f /\ \A k \in DOMAIN lt : k # l => lt[k] # f /\ lt[k] # g
    BY <1>2, <1>10, <1>13, <1>17 DEF F
  <2>2. ASSUME NEW k \in DOMAIN lt2, NEW m \in DOMAIN lt2, lt2[k] = lt2[m] PROVE k = m
    <3>1. CASE k \in DOMAIN lt /\ m \in DOMAIN lt
      BY <1>3, <1>7, <2>1, <2>2, <3>1
    <3>2. CASE k = n + 1 /\ m \in DOMAIN lt
      BY <1>7, <2>1, <2>2, <3>2
    <3>3. CASE k \in DOMAIN lt /\ m = n + 1
      BY <1>7, <2>1, <2>2, <3>3
    <3>4. QED
      BY <1>4, <1>7, <3>1, <3>2, <3>3
  <2>3. ASSUME NEW k \in DOMAIN lt2 PROVE LeafOK(ObjectAt(t, lt2[k]))
    <3>1. CASE k \in DOMAIN lt
      BY <1>18, <3>1 DEF Intact, Sound, TableOK
    <3>2. CASE k = n + 1
      BY <1>7, <1>13, <3>2
    <3>3. QED
      BY <1>4, <1>7, <3>1, <3>2
  <2>4. QED
    BY <1>7, <2>2, <2>3 DEF TableOK
<1>21. Owns(t, TableExtents(lt2) \cup Nodes(t, root) \cup B)
  BY <1>13, <1>16, <1>19 DEF SameTree
<1>22. Sound(t, lt2, root, config, card, tab)
  BY <1>15, <1>16, <1>20, <1>21 DEF Intact, Sound, Keeps
<1>23. QED
  BY <1>7, <1>13, <1>15, <1>16, <1>18, <1>22 DEF LeafSplit

-----------------------------------------------------------------------------
(* A split: the parent *)

\* The nodes a node names: those of all its entries, or none.
LEMMA UpperChildren ==
  ASSUME NEW s, NEW e, IsUpper(s, e)
  PROVE  /\ NodeChildren(s, e) = {ChildAt(s, e, i) : i \in DOMAIN Children(s, e)}
         /\ \A i \in DOMAIN Children(s, e) : ~Children(s, e)[i].leaf /\ ChildAt(s, e, i) \in Extents
<1>1. PICK c : c = Children(s, e)
  OBVIOUS
<1>2. c \in Seq(NodeEntries)
  BY <1>1 DEF IsUpper
<1>3. ASSUME NEW i \in DOMAIN c
      PROVE  c[i] \in NodeEntries /\ ~c[i].leaf /\ <<c[i].page, c[i].pages>> \in Extents
  <2>1. c[i] \in NodeEntries
    BY <1>2
  <2>2. c[i].leaf = FALSE /\ c[i].page \in Nat /\ c[i].pages \in Nat \ {0}
    BY <2>1 DEF NodeEntries
  <2>3. QED
    BY <2>1, <2>2 DEF Extents
<1>4. NodeChildren(s, e) = {<<c[i].page, c[i].pages>> : i \in DOMAIN c}
  <2>1. {d \in {c[i] : i \in DOMAIN c} : ~d.leaf} = {c[i] : i \in DOMAIN c}
    BY <1>3
  <2>2. QED
    BY <1>1, <2>1 DEF NodeChildren
<1>5. QED
  BY <1>1, <1>3, <1>4 DEF ChildAt

\* The children of a lowest node are leaves.
LEMMA LowChildren ==
  ASSUME NEW s, NEW e, IsLow(s, e)
  PROVE  /\ NodeChildren(s, e) = {}
         /\ \A i \in DOMAIN Children(s, e) :
              Children(s, e)[i] = LeafChild(Children(s, e)[i].page)
<1>1. PICK c : c = Children(s, e)
  OBVIOUS
<1>2. c \in Seq(LeafEntries)
  BY <1>1 DEF IsLow
<1>3. ASSUME NEW i \in DOMAIN c PROVE c[i] \in LeafEntries /\ c[i].leaf /\ c[i] = LeafChild(c[i].page)
  <2>1. c[i] \in LeafEntries
    BY <1>2
  <2>2. c[i].leaf = TRUE /\ c[i] = LeafChild(c[i].page)
    BY <2>1 DEF LeafEntries, LeafChild
  <2>3. QED
    BY <2>1, <2>2
<1>4. {d \in {c[i] : i \in DOMAIN c} : ~d.leaf} = {}
  BY <1>3
<1>5. NodeChildren(s, e) = {}
  BY <1>1, <1>4 DEF NodeChildren
<1>6. QED
  BY <1>1, <1>3, <1>5

\* A last-level node with one child more: as many pages or more, and still a node.
OneMore(s, e, chs, n) ==
  /\ chs \in Seq(LeafEntries) /\ chs # <<>> /\ Len(chs) = Len(Children(s, e)) + 1
  /\ DOMAIN chs = DOMAIN Children(s, e) \cup {Len(chs)}
  /\ Len(chs) \notin DOMAIN Children(s, e)
  /\ chs[Len(chs)] = LeafChild(n) /\ chs[Len(chs)].page = n
  /\ \A i \in DOMAIN Children(s, e) : chs[i] = Children(s, e)[i]
  /\ NodePages(chs) \in Nat \ {0} /\ e[2] <= NodePages(chs) /\ e[2] \in Nat \ {0}

\* A lowest node with one leaf more is a lowest node that needs no fewer pages.
LEMMA MoreChildren ==
  ASSUME NEW s, NEW e, IsLow(s, e), NEW n \in Nat, NEW chs,
         chs = Append(Children(s, e), LeafChild(n))
  PROVE  OneMore(s, e, chs, n)
<1>1. PICK c : c = Children(s, e)
  OBVIOUS
<1>2. c \in Seq(LeafEntries) /\ c # <<>> /\ e[2] = NodePages(c)
  BY <1>1 DEF IsLow
<1>3. Len(c) \in Nat \ {0} /\ DOMAIN c = 1 .. Len(c)
  BY <1>2, EmptySeq
<1>4. LeafChild(n) \in LeafEntries /\ LeafChild(n).page = n
  BY DEF LeafChild, LeafEntries
<1>5. /\ chs \in Seq(LeafEntries) /\ Len(chs) = Len(c) + 1 /\ chs[Len(c) + 1] = LeafChild(n)
      /\ \A i \in 1 .. Len(c) : chs[i] = c[i]
  BY <1>1, <1>2, <1>4, AppendProperties
<1>6. DOMAIN chs = 1 .. Len(c) + 1
  BY <1>5
<1>7. NodePages(chs) \in Nat \ {0} /\ NodePages(c) \in Nat \ {0} /\ NodePages(c) <= NodePages(chs)
  <2>1. ChildrenPerPage \in Nat \ {0}
    BY ConstantsAssumption
  <2>2. PICK m : m = Len(c)
    OBVIOUS
  <2>3. m \in Nat \ {0} /\ m + 1 \in Nat
    BY <1>3, <2>2
  <2>4. /\ CeilDiv(m, ChildrenPerPage) \in Nat \ {0} /\ CeilDiv(m + 1, ChildrenPerPage) \in Nat \ {0}
        /\ CeilDiv(m, ChildrenPerPage) <= CeilDiv(m + 1, ChildrenPerPage)
    BY <2>1, <2>3, CeilDivPositive, CeilDivGrows
  <2>5. QED
    BY <1>5, <2>2, <2>4 DEF NodePages
<1>8. chs # <<>>
  BY <1>3, <1>5, EmptySeq
<1>9. DOMAIN chs = DOMAIN c \cup {Len(chs)} /\ Len(chs) \notin DOMAIN c
  BY <1>3, <1>5, <1>6
<1>10. QED
  BY <1>1, <1>2, <1>3, <1>4, <1>5, <1>7, <1>8, <1>9 DEF OneMore

\* Between two trees one last-level node gets one child more.
LowGrows(s, root, t, root2, e, f, n) ==
  /\ Lows(t, root2) = (Lows(s, root) \ {e}) \cup {f}
  /\ f \notin Lows(s, root) \ {e}
  /\ \A d \in Lows(s, root) \ {e} : Children(t, d) = Children(s, d)
  /\ Children(t, f) = Append(Children(s, e), LeafChild(n))

\* When a lowest node gets the next leaf id, every leaf is still named exactly once.
LEMMA NamesGrow ==
  ASSUME NEW s, NEW t, NEW root, NEW root2, NEW n \in Nat, NamesOK(s, root, n),
         NEW e \in Lows(s, root), IsLow(s, e), NEW f,
         LowGrows(s, root, t, root2, e, f, n + 1)
  PROVE  NamesOK(t, root2, n + 1)
<1>1. PICK c : c = Children(s, e)
  OBVIOUS
<1>2. PICK chs : chs = Append(c, LeafChild(n + 1))
  OBVIOUS
<1>3. /\ DOMAIN chs = DOMAIN c \cup {Len(chs)} /\ Len(chs) \notin DOMAIN c
      /\ chs[Len(chs)].page = n + 1 /\ \A i \in DOMAIN c : chs[i] = c[i]
  <2>1. n + 1 \in Nat
    OBVIOUS
  <2>2. OneMore(s, e, chs, n + 1)
    BY <1>1, <1>2, <2>1, MoreChildren
  <2>3. QED
    BY <1>1, <2>2 DEF OneMore
<1> DEFINE D == Lows(s, root) \ {e}
<1>4. /\ Lows(t, root2) = D \cup {f} /\ f \notin D
      /\ \A d \in D : Children(t, d) = Children(s, d)
      /\ Children(t, f) = chs
  BY <1>1, <1>2 DEF LowGrows
<1>5. \A d \in Lows(s, root) : \A i \in DOMAIN Children(s, d) : Children(s, d)[i].page \in 1 .. n
  BY DEF NamesOK
<1>6. \A d \in Lows(t, root2) : \A i \in DOMAIN Children(t, d) : Children(t, d)[i].page \in 1 .. n + 1
  <2>1. SUFFICES ASSUME NEW d \in D \cup {f}, NEW i \in DOMAIN Children(t, d)
                 PROVE  Children(t, d)[i].page \in 1 .. n + 1
    BY <1>4
  <2>2. CASE d \in D
    <3>1. Children(t, d)[i].page \in 1 .. n
      BY <1>4, <1>5, <2>2
    <3>2. QED
      BY <3>1
  <2>3. CASE d = f /\ i = Len(chs)
    BY <1>3, <1>4, <2>3
  <2>4. CASE d = f /\ i \in DOMAIN c
    <3>1. Children(t, d)[i].page \in 1 .. n
      BY <1>1, <1>3, <1>4, <1>5, <2>4
    <3>2. QED
      BY <3>1
  <2>5. QED
    BY <1>3, <1>4, <2>2, <2>3, <2>4
<1>7. ASSUME NEW l \in 1 .. n + 1
      PROVE  \E d \in Lows(t, root2) : \E i \in DOMAIN Children(t, d) : Children(t, d)[i].page = l
  <2>1. CASE l = n + 1
    BY <1>3, <1>4, <2>1
  <2>2. CASE l # n + 1
    <3>1. l \in 1 .. n
      BY <2>2
    <3>2. PICK d \in Lows(s, root) : \E i \in DOMAIN Children(s, d) : Children(s, d)[i].page = l
      BY <3>1 DEF NamesOK
    <3>3. CASE d = e
      BY <1>1, <1>3, <1>4, <3>2, <3>3
    <3>4. CASE d # e
      BY <1>4, <3>2, <3>4
    <3>5. QED
      BY <3>3, <3>4
  <2>3. QED
    BY <2>1, <2>2
<1>8. ASSUME NEW x \in Lows(t, root2), NEW y \in Lows(t, root2),
             NEW i \in DOMAIN Children(t, x), NEW j \in DOMAIN Children(t, y),
             Children(t, x)[i].page = Children(t, y)[j].page
      PROVE  x = y /\ i = j
  <2>1. \A a, b \in Lows(s, root) : \A g \in DOMAIN Children(s, a), h \in DOMAIN Children(s, b) :
          Children(s, a)[g].page = Children(s, b)[h].page => a = b /\ g = h
    BY DEF NamesOK
  <2> DEFINE Old(z) == IF z = f THEN e ELSE z
  <2>2. ASSUME NEW z \in D \cup {f}, NEW k \in DOMAIN Children(t, z)
        PROVE  /\ Old(z) \in Lows(s, root)
               /\ \/ z = f /\ k = Len(chs) /\ Children(t, z)[k].page = n + 1
                  \/ /\ k \in DOMAIN Children(s, Old(z))
                     /\ Children(t, z)[k].page = Children(s, Old(z))[k].page
                     /\ Children(t, z)[k].page \in 1 .. n
    <3>1. CASE z = f
      <4>1. Children(t, z) = chs /\ Old(z) = e
        BY <1>4, <3>1
      <4>2. CASE k = Len(chs)
        BY <1>3, <3>1, <4>1, <4>2
      <4>3. CASE k \in DOMAIN c
        BY <1>1, <1>3, <1>5, <4>1, <4>3
      <4>4. QED
        BY <1>3, <4>1, <4>2, <4>3
    <3>2. CASE z # f
      BY <1>4, <1>5, <3>2
    <3>3. QED
      BY <3>1, <3>2
  <2>3. \A z, w \in D \cup {f} : Old(z) = Old(w) => z = w
    BY <1>4
  <2> HIDE DEF Old, D
  <2>4. CASE Children(t, x)[i].page = n + 1
    <3>1. x = f /\ i = Len(chs)
      BY <1>4, <2>2, <2>4
    <3>2. Children(t, y)[j].page = n + 1
      BY <1>8, <2>4
    <3>3. y = f /\ j = Len(chs)
      BY <1>4, <2>2, <3>2
    <3>4. QED
      BY <3>1, <3>3
  <2>5. CASE Children(t, x)[i].page # n + 1
    <3>1. /\ Old(x) \in Lows(s, root) /\ i \in DOMAIN Children(s, Old(x))
          /\ Children(t, x)[i].page = Children(s, Old(x))[i].page
      BY <1>4, <2>2, <2>5
    <3>2. /\ Old(y) \in Lows(s, root) /\ j \in DOMAIN Children(s, Old(y))
          /\ Children(t, y)[j].page = Children(s, Old(y))[j].page
      BY <1>4, <1>8, <2>2, <2>5
    <3>3. Old(x) = Old(y) /\ i = j
      <4>1. Children(s, Old(x))[i].page = Children(s, Old(y))[j].page
        BY <1>8, <3>1, <3>2
      <4>2. QED
        BY <2>1, <3>1, <3>2, <4>1
    <3>4. QED
      BY <1>4, <2>3, <3>3
  <2>6. QED
    BY <2>4, <2>5
<1>9. QED
  BY <1>6, <1>7, <1>8 DEF NamesOK

\* A last-level node and a node above it differ in their first entry.
LEMMA NotBoth ==
  ASSUME NEW s, NEW e, IsLow(s, e), IsUpper(s, e)
  PROVE  FALSE
<1>1. Len(Children(s, e)) >= 1
  BY EmptySeq DEF IsLow
<1>2. Children(s, e)[1] \in LeafEntries /\ Children(s, e)[1] \in NodeEntries
  BY <1>1 DEF IsLow, IsUpper
<1>3. QED
  BY <1>2 DEF LeafEntries, NodeEntries

\* A lowest node is neither an inner node nor, below depth 1, the root.
LEMMA LowsApart ==
  ASSUME NEW s, NEW root, TreeOK(s, root), Depth \in 1 .. 3, NEW e \in Lows(s, root)
  PROVE  e \notin Mids(s, root) /\ (Depth # 1 => e # root)
<1>1. IsLow(s, e)
  BY DEF TreeOK
<1>2. e \notin Mids(s, root)
  BY <1>1, NotBoth DEF TreeOK
<1>3. CASE Depth = 2
  BY <1>2, <1>3 DEF Mids
<1>4. CASE Depth = 3
  BY <1>1, <1>2, <1>4, NotBoth DEF TreeOK
<1>5. QED
  BY <1>2, <1>3, <1>4

\* What a node with the children chs is.
LEMMA NewLow ==
  ASSUME NEW t, NEW f, NEW chs, ObjectAt(t, f) = Node(chs), f[2] = NodePages(chs),
         chs \in Seq(LeafEntries), chs # <<>>
  PROVE  Children(t, f) = chs /\ IsLow(t, f)
<1>1. Children(t, f) = chs
  BY DEF Children, Node
<1>2. QED
  BY <1>1 DEF IsLow

\* A written node with node children is an inner node.
LEMMA NewUpper ==
  ASSUME NEW t, NEW f, NEW chs, ObjectAt(t, f) = Node(chs),
         chs \in Seq(NodeEntries), chs # <<>>
  PROVE  Children(t, f) = chs /\ IsUpper(t, f)
<1>1. Children(t, f) = chs
  BY DEF Children, Node
<1>2. QED
  BY <1>1 DEF IsUpper

\* The tree after the parent node e got the child m and became f.
ParentGrown(s, root, t, root2, e, f, m) ==
  /\ TreeOK(t, root2)
  /\ LowGrows(s, root, t, root2, e, f, m)
  /\ Nodes(t, root2) = (Nodes(s, root) \ {e}) \cup {f}
  /\ Depth = 3 => NodeChildren(t, root2) = NodeChildren(s, root)

\* The parent has room in its own pages.
LEMMA ParentInPlace ==
  ASSUME NEW s, NEW t, NEW root, TreeOK(s, root), Depth \in 1 .. 3, NEW e \in Lows(s, root),
         Keeps(s, t, Nodes(s, root) \ {e}), NEW m \in Nat, NEW chs,
         chs = Append(Children(s, e), LeafChild(m)), ObjectAt(t, e) = Node(chs),
         NodePages(chs) = e[2]
  PROVE  ParentGrown(s, root, t, root, e, e, m)
<1>1. IsLow(s, e)
  BY DEF TreeOK
<1>2. OneMore(s, e, chs, m)
  BY <1>1, MoreChildren
<1>3. Children(t, e) = chs /\ IsLow(t, e)
  <2>1. chs \in Seq(LeafEntries) /\ chs # <<>> /\ e[2] = NodePages(chs)
    BY <1>2 DEF OneMore
  <2>2. QED
    BY <2>1, NewLow
<1>4. \A d \in Nodes(s, root) : d # e => /\ ObjectAt(t, d) = ObjectAt(s, d)
                                         /\ Children(t, d) = Children(s, d)
                                         /\ NodeChildren(t, d) = NodeChildren(s, d)
                                         /\ \A i : ChildAt(t, d, i) = ChildAt(s, d, i)
  BY SameObject DEF Keeps
<1>5. /\ \A d \in Mids(s, root) : d \in Nodes(s, root) /\ d # e
      /\ Depth # 1 => root \in Nodes(s, root) /\ root # e
  BY LowsApart DEF Nodes
<1>6. Mids(t, root) = Mids(s, root) /\ (Depth = 3 => NodeChildren(t, root) = NodeChildren(s, root))
  BY <1>4, <1>5 DEF Mids
<1>7. Lows(t, root) = Lows(s, root)
  <2>1. {NodeChildren(t, d) : d \in Mids(s, root)} = {NodeChildren(s, d) : d \in Mids(s, root)}
    BY <1>4, <1>5
  <2>2. QED
    BY <1>6, <2>1 DEF Lows
<1>8. Nodes(t, root) = Nodes(s, root) /\ e \in Nodes(s, root)
  BY <1>6, <1>7 DEF Nodes
<1>9. TreeOK(t, root)
  <2>1. Depth = 3 => IsUpper(t, root) /\ root \notin Mids(t, root)
    BY <1>4, <1>5, <1>6 DEF TreeOK, IsUpper
  <2>2. \A d \in Mids(t, root) : IsUpper(t, d)
    BY <1>4, <1>5, <1>6 DEF TreeOK, IsUpper
  <2>3. ASSUME NEW d \in Lows(t, root) PROVE IsLow(t, d)
    <3>1. CASE d = e
      BY <1>3, <3>1
    <3>2. CASE d # e
      <4>1. d \in Nodes(s, root) /\ IsLow(s, d)
        BY <1>7 DEF Nodes, TreeOK
      <4>2. QED
        BY <1>4, <3>2, <4>1 DEF IsLow
    <3>3. QED
      BY <3>1, <3>2
  <2>4. ASSUME NEW x \in Mids(t, root), NEW y \in Mids(t, root),
               NEW i \in DOMAIN Children(t, x), NEW j \in DOMAIN Children(t, y),
               ChildAt(t, x, i) = ChildAt(t, y, j)
        PROVE  x = y /\ i = j
    <3>1. /\ x \in Mids(s, root) /\ y \in Mids(s, root)
          /\ i \in DOMAIN Children(s, x) /\ j \in DOMAIN Children(s, y)
          /\ ChildAt(s, x, i) = ChildAt(s, y, j)
      BY <1>4, <1>5, <1>6, <2>4
    <3>2. QED
      BY <3>1 DEF TreeOK
  <2>5. QED
    BY <2>1, <2>2, <2>3, <2>4 DEF TreeOK
<1>10. LowGrows(s, root, t, root, e, e, m)
  <2>1. \A d \in Lows(s, root) \ {e} : Children(t, d) = Children(s, d)
    BY <1>4 DEF Nodes
  <2>2. Lows(t, root) = (Lows(s, root) \ {e}) \cup {e}
    BY <1>7
  <2>3. QED
    BY <1>3, <2>1, <2>2 DEF LowGrows
<1>11. QED
  BY <1>6, <1>8, <1>9, <1>10 DEF ParentGrown

\* At depth 1 the root itself moves.
LEMMA RootMoves ==
  ASSUME NEW s, NEW t, NEW root, TreeOK(s, root), Depth = 1, NEW f,
         NEW m \in Nat, NEW chs, chs = Append(Children(s, root), LeafChild(m)),
         ObjectAt(t, f) = Node(chs), NodePages(chs) = f[2]
  PROVE  ParentGrown(s, root, t, f, root, f, m)
<1>1. IsLow(s, root)
  BY DEF TreeOK, Lows
<1>2. OneMore(s, root, chs, m)
  BY <1>1, MoreChildren
<1>3. Children(t, f) = chs /\ IsLow(t, f)
  <2>1. chs \in Seq(LeafEntries) /\ chs # <<>> /\ f[2] = NodePages(chs)
    BY <1>2 DEF OneMore
  <2>2. QED
    BY <2>1, NewLow
<1>4. /\ Mids(t, f) = {} /\ Lows(t, f) = {f} /\ Nodes(t, f) = {f}
      /\ Lows(s, root) = {root} /\ Nodes(s, root) = {root}
  BY DEF Mids, Lows, Nodes
<1>5. TreeOK(t, f)
  BY <1>3, <1>4 DEF TreeOK
<1>6. LowGrows(s, root, t, f, root, f, m)
  BY <1>3, <1>4 DEF LowGrows
<1>7. QED
  BY <1>4, <1>5, <1>6 DEF ParentGrown

\* Below the root the parent e, the child `slot` of gp, moves to f and gp names f.
LEMMA ParentMoves ==
  ASSUME NEW s, NEW t, NEW root, TreeOK(s, root), Depth \in 2 .. 3,
         NEW gp \in Mids(s, root), NEW slot \in DOMAIN Children(s, gp),
         NEW e, e = ChildAt(s, gp, slot), NEW f \in Extents, f \notin Nodes(s, root) \ {e},
         Keeps(s, t, Nodes(s, root) \ {e, gp}),
         NEW m \in Nat, NEW chs, chs = Append(Children(s, e), LeafChild(m)),
         ObjectAt(t, f) = Node(chs), NodePages(chs) = f[2],
         ObjectAt(t, gp) = Node([Children(s, gp) EXCEPT ![slot] = NodeChild(f)])
  PROVE  ParentGrown(s, root, t, root, e, f, m)
<1> DEFINE M == Mids(s, root)
<1>1. \A x \in M : /\ IsUpper(s, x)
                   /\ NodeChildren(s, x) = {ChildAt(s, x, i) : i \in DOMAIN Children(s, x)}
  BY UpperChildren DEF TreeOK
<1>2. Lows(s, root) = UNION {NodeChildren(s, x) : x \in M}
  BY DEF Lows
<1>3. e \in Lows(s, root)
  BY <1>1, <1>2
<1>4. IsLow(s, e)
  BY <1>3 DEF TreeOK
<1>5. OneMore(s, e, chs, m)
  BY <1>4, MoreChildren
<1>6. Children(t, f) = chs /\ IsLow(t, f)
  <2>1. chs \in Seq(LeafEntries) /\ chs # <<>> /\ f[2] = NodePages(chs)
    BY <1>5 DEF OneMore
  <2>2. QED
    BY <2>1, NewLow
<1>7. PICK c : c = Children(s, gp)
  OBVIOUS
<1>8. PICK cu : cu = [c EXCEPT ![slot] = NodeChild(f)]
  OBVIOUS
<1>9. c \in Seq(NodeEntries) /\ c # <<>> /\ slot \in DOMAIN c
  BY <1>1, <1>7 DEF IsUpper
<1>10. NodeChild(f) \in NodeEntries /\ <<NodeChild(f).page, NodeChild(f).pages>> = f
  BY DEF NodeChild, NodeEntries, Extents
<1>11. /\ cu \in Seq(NodeEntries) /\ Len(cu) = Len(c) /\ DOMAIN cu = DOMAIN c /\ cu # <<>>
       /\ \A i \in DOMAIN c : cu[i] = IF i = slot THEN NodeChild(f) ELSE c[i]
  <2>1. /\ cu \in Seq(NodeEntries) /\ Len(cu) = Len(c)
        /\ \A i \in DOMAIN c : cu[i] = IF i = slot THEN NodeChild(f) ELSE c[i]
    BY <1>8, <1>9, <1>10, ExceptSeq
  <2>2. DOMAIN cu = DOMAIN c
    BY <1>8
  <2>3. QED
    BY <1>9, <2>1, <2>2
<1>12. Children(t, gp) = cu /\ IsUpper(t, gp)
  <2>1. ObjectAt(t, gp) = Node(cu)
    BY <1>7, <1>8
  <2>2. QED
    BY <1>11, <2>1, NewUpper
<1>13. e \notin M /\ e # root /\ e \in Nodes(s, root) /\ M \subseteq Nodes(s, root)
       /\ root \in Nodes(s, root)
  BY <1>3, LowsApart DEF Nodes
<1>14. \A d \in Nodes(s, root) \ {e, gp} : /\ ObjectAt(t, d) = ObjectAt(s, d)
                                           /\ Children(t, d) = Children(s, d)
                                           /\ NodeChildren(t, d) = NodeChildren(s, d)
                                           /\ \A i : ChildAt(t, d, i) = ChildAt(s, d, i)
  BY SameObject DEF Keeps
<1>15. Mids(t, root) = M /\ (Depth = 3 => NodeChildren(t, root) = NodeChildren(s, root))
       /\ (Depth = 3 => IsUpper(t, root) /\ root \notin M)
  <2>1. CASE Depth = 2
    BY <2>1 DEF Mids
  <2>2. CASE Depth = 3
    <3>1. root \notin M /\ IsUpper(s, root)
      BY <2>2 DEF TreeOK
    <3>2. root \in Nodes(s, root) \ {e, gp}
      BY <1>13, <3>1
    <3>3. NodeChildren(t, root) = NodeChildren(s, root) /\ IsUpper(t, root)
      BY <1>14, <3>1, <3>2 DEF IsUpper
    <3>4. QED
      BY <2>2, <3>1, <3>3 DEF Mids
  <2>3. QED
    BY <2>1, <2>2
<1>16. ASSUME NEW x \in M
       PROVE  /\ IsUpper(t, x) /\ DOMAIN Children(t, x) = DOMAIN Children(s, x)
              /\ \A i \in DOMAIN Children(s, x) :
                   ChildAt(t, x, i) = IF x = gp /\ i = slot THEN f ELSE ChildAt(s, x, i)
  <2>1. CASE x = gp
    BY <1>7, <1>10, <1>11, <1>12, <2>1 DEF ChildAt
  <2>2. CASE x # gp
    <3>1. x \in Nodes(s, root) \ {e, gp}
      BY <1>13, <2>2
    <3>2. QED
      BY <1>1, <1>14, <2>2, <3>1 DEF IsUpper
  <2>3. QED
    BY <2>1, <2>2
<1>17. ASSUME NEW x \in M, NEW i \in DOMAIN Children(s, x), ~(x = gp /\ i = slot)
       PROVE  /\ ChildAt(s, x, i) # e /\ ChildAt(s, x, i) \in Lows(s, root)
              /\ ChildAt(s, x, i) # f
  <2>1. ChildAt(s, x, i) # e
    BY <1>17 DEF TreeOK
  <2>2. ChildAt(s, x, i) \in Lows(s, root)
    BY <1>1, <1>2
  <2>3. QED
    BY <2>1, <2>2 DEF Nodes
<1>18. Lows(t, root) = (Lows(s, root) \ {e}) \cup {f}
  <2>1. Lows(t, root) = UNION {NodeChildren(t, x) : x \in M}
    BY <1>15 DEF Lows
  <2>2. \A x \in M : NodeChildren(t, x) = {ChildAt(t, x, i) : i \in DOMAIN Children(s, x)}
    BY <1>16, UpperChildren
  <2>3. ASSUME NEW d \in Lows(t, root) PROVE d \in (Lows(s, root) \ {e}) \cup {f}
    <3>1. PICK x \in M : \E i \in DOMAIN Children(s, x) : d = ChildAt(t, x, i)
      BY <2>1, <2>2
    <3>2. PICK i \in DOMAIN Children(s, x) : d = ChildAt(t, x, i)
      BY <3>1
    <3>3. QED
      BY <1>16, <1>17, <3>2
  <2>4. f \in Lows(t, root)
    <3>1. f = ChildAt(t, gp, slot)
      BY <1>16
    <3>2. f \in NodeChildren(t, gp)
      BY <2>2, <3>1
    <3>3. QED
      BY <2>1, <3>2
  <2>5. ASSUME NEW d \in Lows(s, root), d # e PROVE d \in Lows(t, root)
    <3>1. PICK x \in M : \E i \in DOMAIN Children(s, x) : d = ChildAt(s, x, i)
      BY <1>1, <1>2
    <3>2. PICK i \in DOMAIN Children(s, x) : d = ChildAt(s, x, i)
      BY <3>1
    <3>3. d = ChildAt(t, x, i)
      BY <1>16, <2>5, <3>2
    <3>4. d \in NodeChildren(t, x)
      BY <2>2, <3>3
    <3>5. QED
      BY <2>1, <3>4
  <2>6. QED
    BY <2>3, <2>4, <2>5
<1>19. Nodes(t, root) = (Nodes(s, root) \ {e}) \cup {f}
  BY <1>13, <1>15, <1>18 DEF Nodes
<1>20. ASSUME NEW d \in Lows(s, root), d # e
       PROVE  ObjectAt(t, d) = ObjectAt(s, d) /\ Children(t, d) = Children(s, d)
  <2>1. d \notin M /\ d \in Nodes(s, root)
    BY LowsApart DEF Nodes
  <2>2. QED
    BY <1>14, <1>20, <2>1
<1>21. TreeOK(t, root)
  <2>1. \A d \in Lows(t, root) : IsLow(t, d)
    <3>1. SUFFICES ASSUME NEW d \in Lows(t, root), d # f PROVE IsLow(t, d)
      BY <1>6
    <3>2. d \in Lows(s, root) /\ d # e
      BY <1>18, <3>1
    <3>3. QED
      BY <1>20, <3>2 DEF TreeOK, IsLow
  <2>2. ASSUME NEW x \in M, NEW y \in M,
               NEW i \in DOMAIN Children(t, x), NEW j \in DOMAIN Children(t, y),
               ChildAt(t, x, i) = ChildAt(t, y, j)
        PROVE  x = y /\ i = j
    <3>1. i \in DOMAIN Children(s, x) /\ j \in DOMAIN Children(s, y)
      BY <1>16
    <3>2. CASE x = gp /\ i = slot
      <4>1. ChildAt(t, y, j) = f
        BY <1>16, <2>2, <3>1, <3>2
      <4>2. y = gp /\ j = slot
        BY <1>16, <1>17, <3>1, <4>1
      <4>3. QED
        BY <3>2, <4>2
    <3>3. CASE y = gp /\ j = slot
      <4>1. ChildAt(t, x, i) = f
        BY <1>16, <2>2, <3>1, <3>3
      <4>2. x = gp /\ i = slot
        BY <1>16, <1>17, <3>1, <4>1
      <4>3. QED
        BY <3>3, <4>2
    <3>4. CASE ~(x = gp /\ i = slot) /\ ~(y = gp /\ j = slot)
      <4>1. ChildAt(s, x, i) = ChildAt(s, y, j)
        BY <1>16, <2>2, <3>1, <3>4
      <4>2. QED
        BY <3>1, <4>1 DEF TreeOK
    <3>5. QED
      BY <3>2, <3>3, <3>4
  <2>3. QED
    BY <1>15, <1>16, <2>1, <2>2 DEF TreeOK
<1>22. LowGrows(s, root, t, root, e, f, m)
  <2>1. f \notin Lows(s, root) \ {e}
    BY DEF Nodes
  <2>2. QED
    BY <1>6, <1>18, <1>20, <2>1 DEF LowGrows
<1>23. QED
  BY <1>15, <1>19, <1>21, <1>22 DEF ParentGrown

-----------------------------------------------------------------------------
(* A split: the new leaf gets its place *)

\* Once the parent of the split leaf has its new child the index is intact again.
LEMMA ParentDone ==
  ASSUME NEW s, NEW lt, NEW root, NEW config, NEW card, NEW tab, Depth \in 1 .. 3,
         NEW n \in Nat, Sound(s, lt, root, config, card, tab), NamesOK(s, root, n),
         Len(lt) = n + 1, NEW e \in Lows(s, root), NEW f, NEW t, NEW root2,
         ParentGrown(s, root, t, root2, e, f, n + 1),
         Owns(t, ((TableExtents(lt) \cup Nodes(s, root) \cup {config, card, tab}) \ {e}) \cup {f}),
         Keeps(s, t, TableExtents(lt) \cup {config, card, tab})
  PROVE  Intact(t, lt, root2, config, card, tab)
<1> DEFINE B == {config, card, tab}
<1>1. KindsApart(s, lt, root, config, card, tab)
  BY SoundKinds
<1>2. e \notin TableExtents(lt) /\ e \notin B
  BY <1>1 DEF KindsApart, TableExtents, Nodes
<1>3. ((TableExtents(lt) \cup Nodes(s, root) \cup B) \ {e}) \cup {f}
        = TableExtents(lt) \cup Nodes(t, root2) \cup B
  BY <1>2 DEF ParentGrown
<1>4. TableOK(t, lt)
  BY DEF Sound, TableOK, Keeps, TableExtents
<1>5. NamesOK(t, root2, n + 1)
  <2>1. IsLow(s, e) /\ LowGrows(s, root, t, root2, e, f, n + 1)
    BY DEF Sound, TreeOK, ParentGrown
  <2>2. QED
    BY <2>1, NamesGrow
<1>6. TreeOK(t, root2)
  BY DEF ParentGrown
<1>7. /\ ObjectAt(t, config).kind = "config" /\ ObjectAt(t, card).kind = "card"
      /\ ObjectAt(t, tab).kind = "table"
  BY <1>1 DEF KindsApart, Keeps
<1>8. Owns(t, TableExtents(lt) \cup Nodes(t, root2) \cup B)
  BY <1>3
<1>9. QED
  BY <1>4, <1>5, <1>6, <1>7, <1>8 DEF Intact, Sound

\* What add_child_to_parent_ knows of a parent node it meets.
ParentAt(s, q) ==
  /\ q.node \in Lows(s, sb.root)
  /\ Depth = 1 => q.gp = NoExtent /\ q.node = sb.root
  /\ Depth # 1 => /\ q.gp \in Mids(s, sb.root) /\ q.slot \in DOMAIN Children(s, q.gp)
                  /\ q.node = ChildAt(s, q.gp, q.slot)

\* It meets every last-level node, each with the place that names it.
LEMMA ParentNodesFacts ==
  ASSUME NEW s, TreeOK(s, sb.root), Depth \in 1 .. 3,
         Depth = 3 => root_children = NodeChildren(s, sb.root)
  PROVE  /\ \A q \in ParentNodes(s) : ParentAt(s, q)
         /\ \A e \in Lows(s, sb.root) : \E q \in ParentNodes(s) : q.node = e
<1> DEFINE Named(g) == {[gp |-> g, slot |-> i,
                         node |-> <<Children(s, g)[i].page, Children(s, g)[i].pages>>] :
                          i \in {j \in DOMAIN Children(s, g) : ~Children(s, g)[j].leaf}}
           M == Mids(s, sb.root)
<1>1. CASE Depth = 1
  <2>1. ParentNodes(s) = {[gp |-> NoExtent, slot |-> 0, node |-> sb.root]}
    BY <1>1 DEF ParentNodes
  <2>2. Lows(s, sb.root) = {sb.root}
    BY <1>1 DEF Lows
  <2>3. QED
    BY <1>1, <2>1, <2>2 DEF ParentAt
<1>2. CASE Depth # 1
  <2>1. ParentNodes(s) = UNION {Named(g) : g \in M}
    <3>1. CASE Depth = 2
      BY <3>1 DEF ParentNodes, Mids
    <3>2. CASE Depth = 3
      BY <3>2 DEF ParentNodes, Mids
    <3>3. QED
      BY <1>2, <3>1, <3>2
  <2>2. \A g \in M : /\ IsUpper(s, g)
                     /\ NodeChildren(s, g) = {ChildAt(s, g, i) : i \in DOMAIN Children(s, g)}
                     /\ \A i \in DOMAIN Children(s, g) : ~Children(s, g)[i].leaf
    BY UpperChildren DEF TreeOK
  <2>3. Lows(s, sb.root) = UNION {NodeChildren(s, g) : g \in M}
    BY <1>2 DEF Lows
  <2>4. ASSUME NEW q \in ParentNodes(s) PROVE ParentAt(s, q)
    <3>1. PICK g \in M : q \in Named(g)
      BY <2>1, <2>4
    <3>2. PICK i \in DOMAIN Children(s, g) : q = [gp |-> g, slot |-> i, node |-> ChildAt(s, g, i)]
      BY <3>1 DEF ChildAt
    <3>3. q.gp = g /\ q.slot = i /\ q.node = ChildAt(s, g, i)
      BY <3>2
    <3>4. q.node \in Lows(s, sb.root)
      BY <2>2, <2>3, <3>3
    <3>5. QED
      BY <1>2, <3>3, <3>4 DEF ParentAt
  <2>5. ASSUME NEW e \in Lows(s, sb.root) PROVE \E q \in ParentNodes(s) : q.node = e
    <3>1. PICK g \in M : e \in NodeChildren(s, g)
      BY <2>3
    <3>2. PICK i \in DOMAIN Children(s, g) : e = ChildAt(s, g, i)
      BY <2>2, <3>1
    <3>3. [gp |-> g, slot |-> i, node |-> ChildAt(s, g, i)] \in Named(g)
      BY <2>2 DEF ChildAt
    <3>4. PICK q : q = [gp |-> g, slot |-> i, node |-> ChildAt(s, g, i)]
      OBVIOUS
    <3>5. q \in ParentNodes(s)
      BY <2>1, <3>3, <3>4
    <3>6. q.node = e
      BY <3>2, <3>4
    <3>7. QED
      BY <3>5, <3>6
  <2>6. QED
    BY <2>4, <2>5
<1>3. QED
  BY <1>1, <1>2

\* What the step from s to t makes of the index: the new leaf is in the tree, and the
\* leaves and the blobs hold what they held.
ChildAdded(s, lt, tab, t, root2) ==
  /\ GoodStore(t)
  /\ Intact(t, lt, root2, sb.config, sb.card, tab)
  /\ Keeps(s, t, TableExtents(lt) \cup {sb.config, sb.card, tab})
  /\ Depth = 3 => NodeChildren(t, root2) = NodeChildren(s, sb.root)

\* add_child_to_parent_ finds the parent of the split leaf and gives it the new one.
LEMMA AddChild ==
  ASSUME NEW s, GoodStore(s), NEW lt, NEW tab, Depth \in 1 .. 3, NEW n \in Nat,
         Sound(s, lt, sb.root, sb.config, sb.card, tab), NamesOK(s, sb.root, n),
         Len(lt) = n + 1, NEW lid \in 1 .. n,
         Depth = 3 => root_children = NodeChildren(s, sb.root),
         NEW up, up = add_child_to_parent_(s, lid, n + 1), up.s.ok
  PROVE  ChildAdded(s, lt, tab, up.s, up.root)
<1> DEFINE hit == {q \in ParentNodes(s) : LeafChild(lid) \in Range(Children(s, q.node))}
           N == Nodes(s, sb.root)
           B == {sb.config, sb.card, tab}
           T == TableExtents(lt)
           E == T \cup N \cup B
<1>1. TreeOK(s, sb.root) /\ Owns(s, E)
  BY DEF Sound
<1>2. hit # {}
  <2>1. PICK e \in Lows(s, sb.root) :
          \E i \in DOMAIN Children(s, e) : Children(s, e)[i].page = lid
    BY DEF NamesOK
  <2>2. PICK i \in DOMAIN Children(s, e) : Children(s, e)[i].page = lid
    BY <2>1
  <2>3. Children(s, e)[i] = LeafChild(lid)
    <3>1. IsLow(s, e)
      BY <1>1 DEF TreeOK
    <3>2. QED
      BY <2>2, <3>1, LowChildren
  <2>4. PICK q \in ParentNodes(s) : q.node = e
    BY <1>1, ParentNodesFacts
  <2>5. LeafChild(lid) \in Range(Children(s, q.node))
    BY <2>2, <2>3, <2>4 DEF Range
  <2>6. QED
    BY <2>5
<1>3. PICK par : par = CHOOSE q \in hit : TRUE
  OBVIOUS
<1>4. par \in hit
  <2> HIDE DEF hit
  <2>1. QED
    BY <1>2, <1>3
<1>6. par \in ParentNodes(s)
  BY <1>4
<1>7. PICK e : e = par.node
  OBVIOUS
<1>8. ParentAt(s, par) /\ e \in Lows(s, sb.root)
  BY <1>1, <1>6, <1>7, ParentNodesFacts DEF ParentAt
<1>9. PICK chs : chs = Append(Children(s, e), LeafChild(n + 1))
  OBVIOUS
<1>10. PICK k : k = NodePages(chs)
  OBVIOUS
<1>11. PICK moved : moved = Place(s, Node(chs), k)
  OBVIOUS
<1>12. PICK freed : freed = free_extent(moved.s, e)
  OBVIOUS
<1>13. PICK gpn : gpn = Node([Children(freed, par.gp) EXCEPT ![par.slot] = NodeChild(moved.e)])
  OBVIOUS
<1>14. up = IF k <= e[2] THEN [s |-> write_pages(s, e[1], k, Node(chs)), root |-> sb.root]
            ELSE IF par.gp = NoExtent THEN [s |-> freed, root |-> moved.e]
            ELSE [s |-> write_pages(freed, par.gp[1], par.gp[2], gpn), root |-> sb.root]
  BY <1>2, <1>3, <1>7, <1>9, <1>10, <1>11, <1>12, <1>13 DEF add_child_to_parent_
<1>15. OneMore(s, e, chs, n + 1)
  <2>1. IsLow(s, e) /\ n + 1 \in Nat
    BY <1>1, <1>8 DEF TreeOK
  <2>2. QED
    BY <1>9, <2>1, MoreChildren
<1>16. k \in Nat \ {0} /\ e[2] <= k /\ e[2] \in Nat
  BY <1>10, <1>15 DEF OneMore
<1>17. e \in N /\ e \in E /\ e \in Extents
  BY <1>1, <1>8 DEF Nodes, Owns
<1>18. Pages(e) \subseteq s.bm
  BY <1>1, <1>17 DEF Owns, Covered
<1>19. Typed(Node(chs)) /\ Typed(gpn)
  BY <1>13 DEF Typed, Node
<1>20. e \notin T /\ e \notin B
  <2>1. KindsApart(s, lt, sb.root, sb.config, sb.card, tab)
    BY SoundKinds
  <2>2. QED
    BY <1>17, <2>1 DEF KindsApart, TableExtents
<1> HIDE DEF hit
<1>21. n + 1 \in Nat
  OBVIOUS
<1>22. CASE k <= e[2]
  <2>1. k = e[2]
    BY <1>16, <1>22
  <2>2. PICK t : t = write_pages(s, e[1], e[2], Node(chs))
    OBVIOUS
  <2>3. up.s = t /\ up.root = sb.root
    BY <1>14, <1>22, <2>1, <2>2
  <2>4. Rewrites(s, t, e, e, Node(chs))
    BY <1>17, <1>18, <1>19, <2>2, OverwriteFacts
  <2>5. GivesWay(s, t, E, e, e, Node(chs))
    <3> HIDE DEF E
    <3>1. QED
      BY <1>1, <1>17, <2>4, OwnsRewrite
  <2>6. Keeps(s, t, T \cup B) /\ Keeps(s, t, N \ {e}) /\ ObjectAt(t, e) = Node(chs)
    BY <1>20, <2>5 DEF GivesWay, Keeps
  <2>7. ParentGrown(s, sb.root, t, sb.root, e, e, n + 1)
    BY <1>1, <1>8, <1>9, <1>10, <1>21, <2>1, <2>6, ParentInPlace
  <2>8. Owns(t, (E \ {e}) \cup {e})
    BY <2>5 DEF GivesWay
  <2>9. Intact(t, lt, sb.root, sb.config, sb.card, tab)
    BY <1>8, <2>6, <2>7, <2>8, ParentDone
  <2>10. GoodStore(t)
    BY <2>4 DEF Rewrites
  <2>11. QED
    BY <2>3, <2>6, <2>7, <2>9, <2>10 DEF ChildAdded, ParentGrown
<1>23. ASSUME ~(k <= e[2]), freed.ok
       PROVE  /\ moved.e \in Extents /\ moved.e[2] = k /\ GoodStore(freed)
              /\ GivesWay(s, freed, E, e, moved.e, Node(chs))
  <2>1. moved.e \in Extents /\ Rewrites(s, freed, e, moved.e, Node(chs))
    BY <1>11, <1>12, <1>16, <1>17, <1>18, <1>19, <1>23, MoveFacts
  <2>2. moved.e[2] = k
    BY <1>11 DEF Place
  <2>3. GivesWay(s, freed, E, e, moved.e, Node(chs))
    <3> HIDE DEF E
    <3>1. QED
      BY <1>1, <1>17, <2>1, OwnsRewrite
  <2>4. QED
    BY <2>1, <2>2, <2>3 DEF Rewrites
<1>24. CASE ~(k <= e[2]) /\ Depth = 1
  <2>1. par.gp = NoExtent /\ e = sb.root
    BY <1>7, <1>8, <1>24 DEF ParentAt
  <2>2. up.s = freed /\ up.root = moved.e
    BY <1>14, <1>24, <2>1
  <2>3. /\ moved.e \in Extents /\ moved.e[2] = k /\ GoodStore(freed)
        /\ GivesWay(s, freed, E, e, moved.e, Node(chs))
    BY <1>23, <1>24, <2>2
  <2>4. Keeps(s, freed, T \cup B) /\ ObjectAt(freed, moved.e) = Node(chs)
    BY <1>20, <2>3 DEF GivesWay, Keeps
  <2>5. ParentGrown(s, sb.root, freed, moved.e, sb.root, moved.e, n + 1)
    BY <1>1, <1>9, <1>10, <1>21, <1>24, <2>1, <2>3, <2>4, RootMoves
  <2>6. Owns(freed, (E \ {e}) \cup {moved.e})
    BY <2>3 DEF GivesWay
  <2>7. Intact(freed, lt, moved.e, sb.config, sb.card, tab)
    BY <1>8, <2>1, <2>4, <2>5, <2>6, ParentDone
  <2>8. QED
    BY <1>24, <2>2, <2>3, <2>4, <2>7 DEF ChildAdded
<1>25. CASE ~(k <= e[2]) /\ Depth # 1
  <2>1. PICK gp : gp = par.gp
    OBVIOUS
  <2>2. PICK slot : slot = par.slot
    OBVIOUS
  <2>3. gp \in Mids(s, sb.root) /\ slot \in DOMAIN Children(s, gp) /\ e = ChildAt(s, gp, slot)
    BY <1>7, <1>8, <1>25, <2>1, <2>2 DEF ParentAt
  <2>4. gp \in N /\ gp \in Extents /\ gp # e
    BY <1>1, <1>8, <2>3, LowsApart DEF Nodes, Owns
  <2>5. par.gp # NoExtent
    BY <2>1, <2>4, ConstantsAssumption DEF Extents, NoExtent
  <2>6. PICK t : t = write_pages(freed, gp[1], gp[2], gpn)
    OBVIOUS
  <2>7. up.s = t /\ up.root = sb.root
    BY <1>14, <1>25, <2>1, <2>5, <2>6
  <2>8. freed.ok
    BY <2>6, <2>7 DEF write_pages
  <2>9. PICK f : f = moved.e
    OBVIOUS
  <2>10. /\ f \in Extents /\ f[2] = k /\ GoodStore(freed)
         /\ GivesWay(s, freed, E, e, f, Node(chs))
    BY <1>23, <1>25, <2>8, <2>9
  <2>11. PICK F : F = (E \ {e}) \cup {f}
    OBVIOUS
  <2>12. /\ Owns(freed, F) /\ Keeps(s, freed, E \ {e})
         /\ ObjectAt(freed, f) = Node(chs) /\ f \notin E \ {e}
    BY <2>10, <2>11 DEF GivesWay
  <2>13. gp \in F /\ gp \in E \ {e} /\ gp # f
    BY <2>4, <2>11, <2>12
  <2>14. Pages(gp) \subseteq freed.bm
    BY <2>12, <2>13 DEF Owns, Covered
  <2>15. Rewrites(freed, t, gp, gp, gpn)
    BY <1>19, <2>4, <2>6, <2>10, <2>14, OverwriteFacts
  <2>16. GivesWay(freed, t, F, gp, gp, gpn)
    BY <2>4, <2>10, <2>12, <2>13, <2>15, OwnsRewrite
  <2>17. /\ Owns(t, (F \ {gp}) \cup {gp}) /\ Keeps(freed, t, F \ {gp})
         /\ ObjectAt(t, gp) = gpn
    BY <2>16 DEF GivesWay
  <2>18. (F \ {gp}) \cup {gp} = (E \ {e}) \cup {f}
    BY <2>11, <2>13
  <2>19. gpn = Node([Children(s, gp) EXCEPT ![slot] = NodeChild(f)])
    <3>1. ObjectAt(freed, gp) = ObjectAt(s, gp)
      BY <2>12, <2>13 DEF Keeps
    <3>2. Children(freed, gp) = Children(s, gp)
      BY <3>1, SameObject
    <3>3. QED
      BY <1>13, <2>1, <2>2, <2>9, <3>2
  <2>20. gp \notin T /\ gp \notin B
    <3>1. KindsApart(s, lt, sb.root, sb.config, sb.card, tab)
      BY SoundKinds
    <3>2. QED
      BY <2>4, <3>1 DEF KindsApart, TableExtents
  <2>21. \A d \in E \ {e, gp} : ObjectAt(t, d) = ObjectAt(s, d)
    BY <2>11, <2>12, <2>17 DEF Keeps
  <2>22. Keeps(s, t, T \cup B) /\ Keeps(s, t, N \ {e, gp})
    BY <1>20, <2>20, <2>21 DEF Keeps
  <2>23. ObjectAt(t, f) = Node(chs) /\ NodePages(chs) = f[2]
    <3>1. f \in F \ {gp}
      BY <2>11, <2>13
    <3>2. QED
      BY <1>10, <2>10, <2>12, <2>17, <3>1 DEF Keeps
  <2>24. ParentGrown(s, sb.root, t, sb.root, e, f, n + 1)
    <3>1. f \notin N \ {e} /\ Depth \in 2 .. 3
      BY <1>25, <2>12
    <3>2. ObjectAt(t, gp) = Node([Children(s, gp) EXCEPT ![slot] = NodeChild(f)])
      BY <2>17, <2>19
    <3> HIDE DEF N
    <3>3. Keeps(s, t, Nodes(s, sb.root) \ {e, gp}) /\ f \notin Nodes(s, sb.root) \ {e}
      BY <2>22, <3>1 DEF N
    <3>4. QED
      BY <1>1, <1>9, <1>21, <2>3, <2>10, <2>23, <3>1, <3>2, <3>3, ParentMoves
  <2>25. Owns(t, (E \ {e}) \cup {f})
    BY <2>17, <2>18
  <2>26. Intact(t, lt, sb.root, sb.config, sb.card, tab)
    BY <1>8, <2>22, <2>24, <2>25, ParentDone
  <2>27. GoodStore(t)
    BY <2>15 DEF Rewrites
  <2>28. QED
    BY <2>7, <2>22, <2>24, <2>26, <2>27 DEF ChildAdded, ParentGrown
<1>26. QED
  BY <1>22, <1>24, <1>25

-----------------------------------------------------------------------------
(* Steps that write no allocated page *)

\* The allocated pages and what they hold are the same.
SamePages(s, t) ==
  /\ t.bm = s.bm /\ s.bm \subseteq DOMAIN t.file
  /\ \A p \in s.bm : t.file[p] = s.file[p]

\* The index is intact in a store with the same pages.
LEMMA IntactFrame ==
  ASSUME NEW s, GoodFile(s), NEW t, SamePages(s, t),
         NEW lt, NEW root, NEW config, NEW card, NEW tab,
         Intact(s, lt, root, config, card, tab)
  PROVE  /\ Intact(t, lt, root, config, card, tab)
         /\ SameTree(s, t, root)
         /\ Keeps(s, t, TableExtents(lt) \cup {config, card, tab})
<1> DEFINE N == Nodes(s, root)
           B == {config, card, tab}
           E == TableExtents(lt) \cup N \cup B
<1>1. Owns(s, E)
  BY DEF Intact, Sound
<1> HIDE DEF E
<1>2. ASSUME NEW e \in E
      PROVE  ObjectAt(t, e) = ObjectAt(s, e) /\ Whole(t, e)
  <2>1. e[1] \in Pages(e) /\ Whole(s, e) /\ Pages(e) \subseteq s.bm
    BY <1>1, PagesFacts DEF Owns, Covered
  <2>2. \A p \in Pages(e) : p \in DOMAIN s.file /\ p \in DOMAIN t.file /\ t.file[p] = s.file[p]
    BY <2>1 DEF SamePages, GoodFile
  <2>3. ObjectAt(t, e) = ObjectAt(s, e)
    BY <2>1, <2>2 DEF ObjectAt
  <2>4. QED
    BY <2>1, <2>2, <2>3 DEF Whole
<1>3. Owns(t, E)
  BY <1>1, <1>2 DEF Owns, SamePages
<1>4. Keeps(s, t, N) /\ Keeps(s, t, TableExtents(lt) \cup B)
  BY <1>2 DEF Keeps, E
<1>5. SameTree(s, t, root) /\ TreeOK(t, root) /\ NamesOK(t, root, Len(lt))
  BY <1>4, TreeFrame DEF Intact, Sound
<1>6. TableOK(t, lt)
  BY <1>4 DEF Intact, Sound, TableOK, Keeps, TableExtents
<1>7. Owns(t, TableExtents(lt) \cup Nodes(t, root) \cup B)
  BY <1>3, <1>5 DEF SameTree, E
<1>8. /\ ObjectAt(t, config).kind = "config" /\ ObjectAt(t, card).kind = "card"
      /\ ObjectAt(t, tab).kind = "table"
  BY <1>4 DEF Keeps, Intact, Sound
<1>9. QED
  BY <1>4, <1>5, <1>6, <1>7, <1>8 DEF Intact, Sound

-----------------------------------------------------------------------------
(* The steps of a mutation *)

\* The index the model starts from does not change, so a tree that is intact before a
\* step, in the store after it, is intact after the step.
LEMMA IntactNext ==
  ASSUME manifest' = manifest, NEW s, NEW lt, NEW root, NEW config, NEW card, NEW tab
  PROVE  /\ Intact(s, lt, root, config, card, tab) => Intact(s, lt, root, config, card, tab)'
         /\ Mids(s, root)' = Mids(s, root) /\ Lows(s, root)' = Lows(s, root)
<1>1. Depth' = Depth
  BY DEF Depth
<1>2. Mids(s, root)' = Mids(s, root)
  BY <1>1 DEF Mids
<1>3. Lows(s, root)' = Lows(s, root)
  BY <1>1, <1>2 DEF Lows
<1>4. Nodes(s, root)' = Nodes(s, root)
  BY <1>2, <1>3 DEF Nodes
<1>5. TreeOK(s, root) => TreeOK(s, root)'
  BY <1>1, <1>2, <1>3 DEF TreeOK
<1>6. NamesOK(s, root, Len(lt)) => NamesOK(s, root, Len(lt))'
  BY <1>3 DEF NamesOK
<1>7. TableOK(s, lt) => TableOK(s, lt)'
  BY DEF TableOK, LeafOK
<1>8. QED
  BY <1>2, <1>3, <1>4, <1>5, <1>6, <1>7 DEF Intact, Sound

\* A step that leaves the index live, or throws, keeps the invariant.
LEMMA StaysLive ==
  ASSUME IInv, fault = "none", manifest' = manifest, fault' = fault, Live' \/ op' = Failed
  PROVE  IInv'
<1>1. manifest' \in Indexes /\ Plain'
  BY DEF IInv, Plain, HasPayload, Depth
<1>2. QED
  BY <1>1 DEF IInv

\* What every step of a mutation finds.
Ready ==
  /\ manifest \in Indexes /\ Depth \in 1 .. 3 /\ ~HasPayload
  /\ IsFiniteSet(manifest.rows)
  /\ leaf_table \in Seq(Extents) /\ Len(leaf_table) \in Nat
  /\ DOMAIN leaf_table = 1 .. Len(leaf_table)
  /\ \A l \in DOMAIN leaf_table :
       /\ leaf_table[l] \in Extents /\ Pages(leaf_table[l]) \subseteq store.bm
       /\ LeafOK(LeafOf(store, l)) /\ IsFiniteSet(LeafOf(store, l).rows)
       /\ leaf_table[l] \in TableExtents(leaf_table)

\* What the step lemmas need of a live state, in one fact.
LEMMA IsReady ==
  ASSUME IInv, Live
  PROVE  Ready
<1>1. manifest \in Indexes /\ Depth \in 1 .. 3 /\ ~HasPayload /\ IsFiniteSet(manifest.rows)
  BY ConstantsAssumption DEF IInv, Plain, IsIndex, Depth
<1>2. leaf_table \in Seq(Extents)
  BY DEF Live, Intact, Sound, TableOK
<1>3. Len(leaf_table) \in Nat /\ DOMAIN leaf_table = 1 .. Len(leaf_table)
  BY <1>2, LenProperties
<1>4. ASSUME NEW l \in DOMAIN leaf_table
      PROVE  /\ leaf_table[l] \in Extents /\ leaf_table[l] \in TableExtents(leaf_table)
             /\ LeafOK(LeafOf(store, l))
  BY <1>2, <1>3, ElementOfSeq DEF Live, Intact, Sound, TableOK, LeafOf, TableExtents
<1>5. \A e \in TableExtents(leaf_table) : Pages(e) \subseteq store.bm
  BY DEF Live, Intact, Sound, Owns, Covered
<1>6. ASSUME NEW l \in DOMAIN leaf_table PROVE IsFiniteSet(LeafOf(store, l).rows)
  BY <1>1, <1>4, FS_Subset DEF LeafOK
<1>7. QED
  BY <1>1, <1>2, <1>3, <1>4, <1>5, <1>6 DEF Ready

\* The copies carry over a step that takes a row from no leaf that it leaves among the
\* rows, and gives one to none but the rows inserted.
LEMMA CopiesFrame ==
  ASSUME CopiesKept, manifest' = manifest, DOMAIN leaf_table' = DOMAIN leaf_table,
         \A r \in rows' \cap Held' : /\ r \in rows \cap Held /\ (r \in fresh' <=> r \in fresh)
                                     /\ \A l \in DOMAIN leaf_table :
                                          r \in LeafOf(store, l)'.rows <=> r \in LeafOf(store, l).rows
  PROVE  CopiesKept'
<1>1. SUFFICES ASSUME NEW r \in rows' \cap Held' PROVE Cardinality(Holders(r)') = Given(r)'
  BY DEF CopiesKept
<1>2. Holders(r)' = Holders(r)
  BY DEF Holders
<1>3. Given(r)' = Given(r)
  BY DEF Given, BuiltCopies
<1>4. QED
  BY <1>2, <1>3 DEF CopiesKept

\* The row accounting carries over a step that changes the rows of no leaf and is not
\* part of the loop of insert_batch or delete_batch over the leaves.
LEMMA RowsFrame ==
  ASSUME RowsOK, manifest' = manifest, rows' = rows, fresh' = fresh, n_vectors' = n_vectors,
         Len(leaf_table)' = Len(leaf_table), DOMAIN leaf_table' = DOMAIN leaf_table,
         DOMAIN leaf_table = 1 .. Len(leaf_table),
         \A l \in DOMAIN leaf_table : LeafOf(store, l)'.rows = LeafOf(store, l).rows,
         ~Inserting, ~Deleting, ~Inserting', ~Deleting',
         Splitting => Splitting' \/ Oversized = {}
  PROVE  RowsOK'
<1>1. Held' = Held
  BY DEF Held
<1>2. Oversized' = Oversized
  BY DEF Oversized, LeafCap
<1>3. CopiesKept'
  BY <1>1, CopiesFrame DEF RowsOK
<1>4. ~Splitting' => Oversized' = {}
  BY <1>2 DEF RowsOK
<1>5. rows' = Held' /\ n_vectors' \in Int /\ (~DuplicateIds => n_vectors' = Cardinality(rows'))
  <2>1. rows = Held /\ n_vectors \in Int /\ (~DuplicateIds => Cardinality(rows) = n_vectors)
    BY DEF RowsOK
  <2>2. QED
    BY <1>1, <2>1
<1>6. QED
  BY <1>3, <1>4, <1>5 DEF RowsOK

\* After a step that rewrote leaf l as o.
LeafDone(l, o) ==
  /\ StoreOK'
  /\ Intact(store, leaf_table, sb.root, sb.config, sb.card, Tab)'
  /\ CommitOK'
  /\ Len(leaf_table)' = Len(leaf_table) /\ DOMAIN leaf_table' = DOMAIN leaf_table
  /\ \A k \in DOMAIN leaf_table : LeafOf(store, k)' = IF k = l THEN o ELSE LeafOf(store, k)

\* One leaf of a batch or sweep is rewritten, in place or elsewhere, and the mutation
\* goes on with the next leaf or with a commit.
LEMMA LeafStep ==
  ASSUME IInv, Live, NEW l \in DOMAIN leaf_table, NEW f \in Extents, NEW o, LeafOK(o),
         Rewrites(store, store', leaf_table[l], f, o),
         leaf_table' = [leaf_table EXCEPT ![l] = f],
         UNCHANGED <<manifest, sb, disk_sb, root_children, n_vectors_disk>>,
         op.kind \in Mutations, op.pc = "leaves",
         op'.kind \in Mutations, op'.pc \in {"leaves", "commit"}, ~AtRest',
         CountWritten' => CountWritten /\ n_vectors' = n_vectors
  PROVE  LeafDone(l, o)
<1>1. Ready
  BY IsReady
<1>2. Tab = sb.leaf_table /\ Tab' = sb.leaf_table
  BY DEF Tab
<1>3. GoodStore(store) /\ GoodStore(store')
  BY DEF Live, StoreOK, GoodStore, Rewrites
<1>4. Intact(store, leaf_table, sb.root, sb.config, sb.card, sb.leaf_table) /\ Depth \in 1 .. 3
  BY <1>1, <1>2 DEF Live, Ready
<1>5. /\ Intact(store', leaf_table', sb.root, sb.config, sb.card, sb.leaf_table)
      /\ SameTree(store, store', sb.root)
      /\ Keeps(store, store', {sb.config, sb.card, sb.leaf_table})
      /\ \A k \in DOMAIN leaf_table :
           ObjectAt(store', leaf_table'[k]) = IF k = l THEN o ELSE ObjectAt(store, leaf_table[k])
  <2>1. PICK lt2 : lt2 = [leaf_table EXCEPT ![l] = f]
    OBVIOUS
  <2>2. LeafRewritten(store, leaf_table, sb.root, sb.config, sb.card, sb.leaf_table, store',
                      lt2, l, o)
    BY <1>3, <1>4, <2>1, IntactLeaf
  <2>3. QED
    BY <2>1, <2>2 DEF LeafRewritten
<1>6. Intact(store, leaf_table, sb.root, sb.config, sb.card, Tab)'
  BY <1>2, <1>5, IntactNext
<1>7. Len(leaf_table)' = Len(leaf_table) /\ DOMAIN leaf_table' = DOMAIN leaf_table
  BY <1>1, ExceptSeq DEF Ready
<1>8. StoreOK'
  BY <1>3 DEF StoreOK, GoodStore, Sized
<1>9. CommitOK'
  <2>1. /\ SuperblockOK(sb) /\ ObjectAt(store, sb.config) = Config(n_vectors_disk)
        /\ CountWritten => n_vectors = n_vectors_disk
        /\ Depth = 3 => root_children = NodeChildren(store, sb.root)
    BY DEF Live, CommitOK
  <2>2. ~TableWritten'
    BY DEF TableWritten
  <2>3. ObjectAt(store', sb.config) = ObjectAt(store, sb.config)
    BY <1>5 DEF Keeps
  <2>4. Depth' = Depth /\ NodeChildren(store', sb.root) = NodeChildren(store, sb.root)
    BY <1>5 DEF SameTree, Depth
  <2>5. SuperblockOK(sb)'
    BY <2>1 DEF SuperblockOK, Superblock
  <2>6. CountWritten' => n_vectors' = n_vectors_disk'
    BY <2>1
  <2>7. (Depth = 3 => root_children = NodeChildren(store, sb.root))'
    BY <2>1, <2>4
  <2>8. QED
    BY <2>1, <2>2, <2>3, <2>5, <2>6, <2>7 DEF CommitOK
<1>10. \A k \in DOMAIN leaf_table : LeafOf(store, k)' = IF k = l THEN o ELSE LeafOf(store, k)
  BY <1>5 DEF LeafOf
<1>11. QED
  BY <1>6, <1>7, <1>8, <1>9, <1>10 DEF LeafDone

\* A leaf of finitely many rows needs at least one page.
LEMMA LeafPagesPositive ==
  ASSUME NEW R, IsFiniteSet(R)
  PROVE  LeafPages(R) \in Nat \ {0}
<1>1. Cardinality(R) \in Nat
  BY FS_CardinalityType
<1>2. QED
  BY <1>1, CeilDivPositive, ConstantsAssumption DEF LeafPages

\* The states of op the leaf loop of vacuum or defrag goes through.
Sweeping == op.kind \in {"vacuum", "defrag"} /\ ~Inserting /\ ~Deleting /\ ~Splitting /\ CountWritten

\* A sweep moves on to the next leaf, or commits the batch first.
LEMMA SweptFacts ==
  ASSUME OpOK, op.kind \in {"vacuum", "defrag"}, op.pc = "leaves", NEW lid \in Nat,
         manifest' = manifest, op' = Swept(lid)
  PROVE  /\ OpOK' /\ ~AtRest' /\ Sweeping /\ Sweeping'
         /\ op'.kind \in Mutations /\ op'.pc \in {"leaves", "commit"}
<1>1. op \in SweepOps /\ (op.kind = "defrag" /\ op.flag => Depth = 1)
      /\ ("shrink" \in {op.pc, op.then} => op.kind = "defrag" /\ op.flag)
  BY DEF OpOK, Idle
<1>2. op = [kind |-> op.kind, pc |-> "leaves", then |-> op.then, cursor |-> op.cursor,
            count |-> op.count, flag |-> op.flag, lt |-> op.lt]
      /\ op.count \in Nat /\ op.flag \in BOOLEAN
      /\ op.then \in {"leaves", "cardinality", "shrink", "idle"}
  BY <1>1 DEF SweepOps
<1>3. Depth' = Depth
  BY DEF Depth
<1>4. CASE op.count + 1 >= BatchSize
  <2>1. op' = [kind |-> op.kind, pc |-> "commit", then |-> "leaves", cursor |-> lid + 1,
               count |-> 0, flag |-> op.flag, lt |-> op.lt]
    BY <1>2, <1>4 DEF Swept, Commit
  <2>2. /\ op'.kind = op.kind /\ op'.pc = "commit" /\ op'.then = "leaves" /\ op'.count = 0
        /\ op'.flag = op.flag /\ op'.cursor = lid + 1 /\ op'.lt = op.lt
    BY <2>1
  <2>3. op' \in SweepOps'
    BY <1>2, <2>1 DEF SweepOps, Stages
  <2>4. OpOK'
    BY <1>1, <1>3, <2>2, <2>3 DEF OpOK
  <2>5. QED
    BY <2>2, <2>4 DEF AtRest, Sweeping, Inserting, Deleting, Splitting, CountWritten, Mutations,
                      Idle
<1>5. CASE ~(op.count + 1 >= BatchSize)
  <2>1. op' = [kind |-> op.kind, pc |-> "leaves", then |-> op.then, cursor |-> lid + 1,
               count |-> op.count + 1, flag |-> op.flag, lt |-> op.lt]
    BY <1>2, <1>5 DEF Swept
  <2>2. /\ op'.kind = op.kind /\ op'.pc = "leaves" /\ op'.then = op.then
        /\ op'.count = op.count + 1
        /\ op'.flag = op.flag /\ op'.cursor = lid + 1 /\ op'.lt = op.lt
    BY <2>1
  <2>3. op' \in SweepOps'
    BY <1>2, <2>1 DEF SweepOps, Stages
  <2>4. OpOK'
    BY <1>1, <1>3, <2>2, <2>3 DEF OpOK
  <2>5. QED
    BY <1>2, <2>2, <2>4 DEF AtRest, Sweeping, Inserting, Deleting, Splitting, CountWritten,
                            Mutations, Idle
<1>6. QED
  BY <1>4, <1>5

\* A leaf of a sweep is rewritten with its rows.
LEMMA SweepLeaf ==
  ASSUME IInv, fault = "none", Live, op.kind \in {"vacuum", "defrag"}, op.pc = "leaves",
         NEW l \in DOMAIN leaf_table, NEW f \in Extents, NEW o, LeafOK(o),
         o.rows = LeafOf(store, l).rows,
         Rewrites(store, store', leaf_table[l], f, o),
         leaf_table' = [leaf_table EXCEPT ![l] = f], op' = Swept(l),
         UNCHANGED <<manifest, sb, disk_sb, root_children, n_vectors, n_vectors_disk, rows, fresh, fault>>
  PROVE  IInv'
<1>1. Ready
  BY IsReady
<1>2. l \in Nat
  BY <1>1 DEF Ready
<1>3. /\ OpOK' /\ ~AtRest' /\ Sweeping /\ Sweeping'
      /\ op'.kind \in Mutations /\ op'.pc \in {"leaves", "commit"}
  BY <1>2, SweptFacts DEF Live
<1>4. LeafDone(l, o)
  <2>1. CountWritten /\ op.kind \in Mutations
    BY <1>3 DEF Sweeping, Mutations
  <2>2. QED
    BY <1>3, <2>1, LeafStep
<1>5. RowsOK'
  <2>1. \A k \in DOMAIN leaf_table : LeafOf(store, k)'.rows = LeafOf(store, k).rows
    BY <1>4 DEF LeafDone
  <2>2. Len(leaf_table)' = Len(leaf_table) /\ DOMAIN leaf_table' = DOMAIN leaf_table
    BY <1>4 DEF LeafDone
  <2>3. QED
    BY <1>1, <1>3, <2>1, <2>2, RowsFrame DEF Live, Ready, Sweeping
<1>6. QED
  BY <1>3, <1>4, <1>5, StaysLive DEF LeafDone, Live

\* A leaf with another flag, or with other rows.
LEMMA ChangedLeaf ==
  ASSUME NEW old, LeafOK(old), NEW R
  PROVE  /\ [old EXCEPT !.dirty = FALSE] = Leaf(old.rows, FALSE, NoExtent)
         /\ [old EXCEPT !.rows = R] = Leaf(R, old.dirty, NoExtent)
<1>1. PICK Q, d : Q = old.rows /\ d = old.dirty
  OBVIOUS
<1>2. old = [kind |-> "leaf", rows |-> Q, dirty |-> d, payload |-> NoExtent]
  BY <1>1 DEF Leaf, LeafOK
<1>3. [old EXCEPT !.dirty = FALSE] = [kind |-> "leaf", rows |-> Q, dirty |-> FALSE,
                                      payload |-> NoExtent]
  <2>1. ASSUME NEW b
        PROVE  [old EXCEPT !.dirty = b] = [kind |-> "leaf", rows |-> Q, dirty |-> b,
                                           payload |-> NoExtent]
    BY ONLY <1>2
  <2>2. QED
    BY ONLY <2>1, Zenon
<1>4. [old EXCEPT !.rows = R] = [kind |-> "leaf", rows |-> R, dirty |-> d, payload |-> NoExtent]
  BY ONLY <1>2
<1>5. QED
  BY <1>1, <1>3, <1>4 DEF Leaf

\* vacuum rewrites a dirty leaf.
LEMMA VacuumLeaf ==
  ASSUME IInv, fault = "none", Live, vacuum_leaf
  PROVE  IInv'
<1>1. Ready /\ GoodStore(store)
  <2>1. op.kind \in Mutations /\ op.pc # "shrink_commit"
    BY DEF vacuum_leaf, Mutations
  <2>2. QED
    BY <2>1, IsReady DEF Live, StoreOK, GoodStore
<1>2. PICK l : l = Lowest(DirtyAhead)
  OBVIOUS
<1>3. l \in DOMAIN leaf_table
  <2>1. op.cursor \in Nat \ {0}
    BY DEF vacuum_leaf, Live, OpOK, SweepOps, Idle
  <2>2. DirtyAhead \subseteq DOMAIN leaf_table /\ DirtyAhead \subseteq Nat
    BY <1>1, <2>1 DEF DirtyAhead, Ready
  <2>3. QED
    BY <1>2, <2>2, LowestFacts DEF vacuum_leaf
<1>4. PICK o : o = [LeafOf(store, l) EXCEPT !.dirty = FALSE]
  OBVIOUS
<1>5. PICK w : w = write_leaf_(store, l, o)
  OBVIOUS
<1>6. /\ store' = w.s /\ op' = (IF w.s.ok THEN Swept(l) ELSE Failed)
      /\ leaf_table' = [leaf_table EXCEPT ![l] = w.e]
      /\ UNCHANGED <<manifest, sb, disk_sb, root_children, n_vectors, n_vectors_disk, rows, fresh, fault>>
  BY <1>2, <1>4, <1>5 DEF vacuum_leaf, Continue
<1>7. LeafOK(o) /\ o.rows = LeafOf(store, l).rows /\ Typed(o)
  <2>1. LeafOK(LeafOf(store, l))
    BY <1>1, <1>3 DEF Ready
  <2>2. PICK old : old = LeafOf(store, l)
    OBVIOUS
  <2>3. old = Leaf(old.rows, old.dirty, NoExtent) /\ old.rows \subseteq manifest.rows
    BY <2>1, <2>2 DEF LeafOK
  <2>4. o = Leaf(old.rows, FALSE, NoExtent)
    <3>1. LeafOK(old) /\ o = [old EXCEPT !.dirty = FALSE]
      BY <1>4, <2>1, <2>2
    <3>2. QED
      BY <3>1, ChangedLeaf
  <2>5. o.rows = old.rows /\ o.dirty = FALSE /\ o.kind = "leaf"
    BY <2>4 DEF Leaf
  <2>6. QED
    BY <2>2, <2>3, <2>4, <2>5 DEF LeafOK, Typed
<1>8. CASE w.s.ok
  <2>1. LeafPages(o.rows) \in Nat \ {0}
    BY <1>1, <1>3, <1>7, LeafPagesPositive DEF Ready
  <2>2. w.e \in Extents /\ Rewrites(store, w.s, leaf_table[l], w.e, o)
    BY <1>1, <1>3, <1>5, <1>7, <1>8, <2>1, WriteLeafFacts DEF Ready
  <2>3. QED
    BY <1>3, <1>6, <1>7, <1>8, <2>2, SweepLeaf DEF vacuum_leaf
<1>9. CASE ~w.s.ok
  BY <1>6, <1>9, StaysLive
<1>10. QED
  BY <1>8, <1>9

\* defrag moves a leaf.
LEMMA DefragLeaf ==
  ASSUME IInv, fault = "none", Live, defrag_leaf
  PROVE  IInv'
<1>1. Ready /\ GoodStore(store)
  <2>1. op.kind \in Mutations /\ op.pc # "shrink_commit"
    BY DEF defrag_leaf, Mutations
  <2>2. QED
    BY <2>1, IsReady DEF Live, StoreOK, GoodStore
<1>2. PICK l : l = op.cursor
  OBVIOUS
<1>3. l \in DOMAIN leaf_table
  <2>1. op.cursor \in Nat \ {0}
    BY DEF defrag_leaf, Live, OpOK, SweepOps, Idle
  <2>2. QED
    BY <1>1, <1>2, <2>1 DEF defrag_leaf, Ready
<1>4. PICK o : o = LeafOf(store, l)
  OBVIOUS
<1>5. PICK a : a = Place(store, o, leaf_table[l][2])
  OBVIOUS
<1>6. PICK t : t = free_extent(a.s, leaf_table[l])
  OBVIOUS
<1>7. /\ store' = t /\ op' = (IF t.ok THEN Swept(l) ELSE Failed)
      /\ leaf_table' = [leaf_table EXCEPT ![l] = a.e]
      /\ UNCHANGED <<manifest, sb, disk_sb, root_children, n_vectors, n_vectors_disk, rows, fresh, fault>>
  BY <1>2, <1>4, <1>5, <1>6 DEF defrag_leaf, Continue
<1>8. LeafOK(o) /\ Typed(o)
  <2>1. LeafOK(o)
    BY <1>1, <1>3, <1>4 DEF Ready
  <2>2. o.kind = "leaf"
    BY <2>1 DEF LeafOK, Leaf
  <2>3. QED
    BY <2>1, <2>2 DEF Typed
<1>9. CASE t.ok
  <2>1. leaf_table[l] \in Extents /\ leaf_table[l][2] \in Nat \ {0}
        /\ Pages(leaf_table[l]) \subseteq store.bm
    BY <1>1, <1>3 DEF Ready, Extents
  <2>2. a.e \in Extents /\ Rewrites(store, t, leaf_table[l], a.e, o)
    BY <1>1, <1>5, <1>6, <1>8, <1>9, <2>1, MoveFacts
  <2>3. QED
    BY <1>3, <1>4, <1>7, <1>8, <1>9, <2>2, SweepLeaf DEF defrag_leaf
<1>10. CASE ~t.ok
  BY <1>7, <1>10, StaysLive
<1>11. QED
  BY <1>9, <1>10

\* delete_batch compacts a leaf to its survivors.
LEMMA DeleteLeaf ==
  ASSUME IInv, fault = "none", Live, NEW l \in 1 .. Len(leaf_table), delete_leaf(l)
  PROVE  IInv'
<1>1. Ready /\ GoodStore(store)
  <2>1. op.kind \in Mutations /\ op.pc # "shrink_commit"
    BY DEF delete_leaf, Mutations
  <2>2. QED
    BY <2>1, IsReady DEF Live, StoreOK, GoodStore
<1>2. l \in DOMAIN leaf_table
  BY <1>1 DEF Ready
<1>3. op \in DeleteOps /\ Deleting /\ ~Inserting /\ ~Splitting /\ ~CountWritten
  BY DEF delete_leaf, Live, OpOK, Idle, Deleting, Inserting, Splitting, CountWritten
<1>4. /\ op = [kind |-> "delete", pc |-> "leaves", then |-> "idle", ids |-> op.ids,
               todo |-> op.todo, lt |-> op.lt]
      /\ op.ids \subseteq manifest.rows /\ op.todo \subseteq Nat /\ l \in op.todo
  BY <1>3 DEF DeleteOps, delete_leaf
<1>5. PICK old : old = LeafOf(store, l)
  OBVIOUS
<1>6. PICK o : o = Leaf(old.rows \ op.ids, TRUE, NoExtent)
  OBVIOUS
<1>7. LeafOK(old) /\ old.payload = NoExtent
  BY <1>1, <1>2, <1>5 DEF Ready, LeafOK, Leaf
<1>8. PICK w : w = write_leaf_(store, l, o)
  OBVIOUS
<1>9. PICK next : next = [op EXCEPT !.todo = @ \ {l},
                                    !.pc = IF op.todo = {l} THEN "commit" ELSE "leaves"]
  OBVIOUS
<1>10. /\ store' = w.s /\ op' = (IF w.s.ok THEN next ELSE Failed)
       /\ leaf_table' = [leaf_table EXCEPT ![l] = w.e]
       /\ UNCHANGED <<manifest, sb, disk_sb, root_children, n_vectors, n_vectors_disk, rows, fresh, fault>>
  BY <1>5, <1>6, <1>7, <1>8, <1>9 DEF delete_leaf, Continue
<1>11. /\ LeafOK(o) /\ o.rows = old.rows \ op.ids /\ Typed(o)
       /\ IsFiniteSet(old.rows) /\ IsFiniteSet(o.rows)
  <2>1. o.rows = old.rows \ op.ids /\ o.dirty = TRUE /\ o.kind = "leaf"
    BY <1>6 DEF Leaf
  <2>2. IsFiniteSet(old.rows) /\ IsFiniteSet(o.rows)
    BY <1>1, <1>2, <1>5, <2>1, FS_Subset DEF Ready
  <2>3. QED
    BY <1>6, <1>7, <2>1, <2>2 DEF LeafOK, Typed
<1>12. CASE w.s.ok
  <2>1. LeafPages(o.rows) \in Nat \ {0}
    BY <1>11, LeafPagesPositive
  <2>2. w.e \in Extents /\ Rewrites(store, w.s, leaf_table[l], w.e, o)
    BY <1>1, <1>2, <1>8, <1>11, <1>12, <2>1, WriteLeafFacts DEF Ready
  <2>3. op' = [kind |-> "delete", pc |-> IF op.todo = {l} THEN "commit" ELSE "leaves",
               then |-> "idle", ids |-> op.ids, todo |-> op.todo \ {l}, lt |-> op.lt]
    <3>1. op' = next
      BY <1>10, <1>12
    <3>2. PICK D, T, L : D = op.ids /\ T = op.todo /\ L = op.lt
      OBVIOUS
    <3>3. PICK pc : pc = IF op.todo = {l} THEN "commit" ELSE "leaves"
      OBVIOUS
    <3>4. op = [kind |-> "delete", pc |-> "leaves", then |-> "idle", ids |-> D, todo |-> T,
                lt |-> L]
      BY <1>4, <3>2
    <3>5. next = [op EXCEPT !.todo = T \ {l}, !.pc = pc]
      BY <1>9, <3>2, <3>3
    <3>6. next = [kind |-> "delete", pc |-> pc, then |-> "idle", ids |-> D, todo |-> T \ {l},
                  lt |-> L]
      BY ONLY <3>4, <3>5
    <3>7. QED
      BY <3>1, <3>2, <3>3, <3>6
  <2>4. /\ op'.kind = "delete" /\ op'.pc = (IF op.todo = {l} THEN "commit" ELSE "leaves")
        /\ op'.ids = op.ids /\ op'.todo = op.todo \ {l}
    BY <2>3
  <2>5. OpOK'
    <3>1. op' \in DeleteOps'
      BY <1>4, <1>10, <2>3 DEF DeleteOps, Stages
    <3>2. QED
      BY <2>4, <3>1 DEF OpOK
  <2>6. /\ ~Inserting' /\ ~Splitting' /\ ~CountWritten' /\ ~AtRest'
        /\ op'.kind \in Mutations /\ op'.pc \in {"leaves", "commit"}
    BY <2>4 DEF Inserting, Splitting, CountWritten, AtRest, Mutations, Idle
  <2>7. LeafDone(l, o)
    BY <1>2, <1>4, <1>10, <1>11, <2>2, <2>6, LeafStep DEF delete_leaf, Mutations
  <2>8. /\ Len(leaf_table)' = Len(leaf_table) /\ DOMAIN leaf_table' = DOMAIN leaf_table
        /\ \A k \in DOMAIN leaf_table :
             LeafOf(store, k)'.rows = IF k = l THEN old.rows \ op.ids ELSE LeafOf(store, k).rows
    BY <1>11, <2>7 DEF LeafDone
  <2>9. RowsOK'
    <3>1. /\ CopiesKept
          /\ rows = Held \ op.ids /\ Oversized = {} /\ n_vectors \in Int
          /\ \A k \in DOMAIN leaf_table \ op.todo : LeafOf(store, k).rows \cap op.ids = {}
          /\ ~DuplicateIds => Cardinality(rows) = n_vectors
      BY <1>3 DEF Live, RowsOK
    <3>3. \A k \in DOMAIN leaf_table' \ op'.todo : LeafOf(store, k)'.rows \cap op.ids = {}
      BY <2>4, <2>8, <3>1
    <3>4. Held' \ op.ids = Held \ op.ids
      BY <1>5, <2>8 DEF Held
    <3>2. CopiesKept'
      BY <1>5, <1>10, <2>8, <3>1, <3>4, CopiesFrame
    <3>5. Deleting' => rows' = Held' \ op'.ids
      BY <1>10, <2>4, <3>1, <3>4
    <3>6. ~Deleting' => rows' = Held'
      <4>1. SUFFICES ASSUME ~Deleting' PROVE Held' \cap op.ids = {}
        BY <1>10, <3>1, <3>4
      <4>2. op.todo = {l}
        BY <2>4, <4>1 DEF Deleting
      <4>3. \A k \in DOMAIN leaf_table' : LeafOf(store, k)'.rows \cap op.ids = {}
        BY <2>4, <3>3, <4>2
      <4>4. QED
        BY <4>3 DEF Held
    <3>7. Oversized' = {}
      <4>1. SUFFICES ASSUME NEW k \in Oversized' PROVE FALSE
        OBVIOUS
      <4>2. k \in DOMAIN leaf_table /\ Cardinality(LeafOf(store, k)'.rows) > 2 * LeafCap
        BY <1>1, <1>10, <2>8 DEF Oversized, LeafCap, Ready
      <4>3. ~(Cardinality(LeafOf(store, k).rows) > 2 * LeafCap)
        BY <1>1, <3>1, <4>2 DEF Oversized, Ready
      <4>4. CASE k # l
        BY <2>8, <4>2, <4>3, <4>4
      <4>5. CASE k = l
        <5>1. /\ Cardinality(old.rows \ op.ids) \in Nat /\ Cardinality(old.rows) \in Nat
              /\ Cardinality(old.rows \ op.ids) <= Cardinality(old.rows)
          BY <1>11, FS_Subset, FS_CardinalityType
        <5>2. LeafCap \in Nat
          BY <1>1, ConstantsAssumption DEF Ready, IsIndex, LeafCap
        <5>3. QED
          BY <1>5, <2>8, <4>2, <4>3, <4>5, <5>1, <5>2
      <4>6. QED
        BY <4>4, <4>5
    <3>8. n_vectors' \in Int /\ (~DuplicateIds => Cardinality(rows') = n_vectors')
      BY <1>10, <3>1
    <3>9. QED
      BY <2>4, <2>6, <3>2, <3>3, <3>5, <3>6, <3>7, <3>8 DEF RowsOK
  <2>10. QED
    BY <1>10, <2>5, <2>7, <2>9, StaysLive DEF LeafDone, Live
<1>13. CASE ~w.s.ok
  BY <1>10, <1>13, StaysLive
<1>14. QED
  BY <1>12, <1>13

\* insert_batch rewrites a leaf with the rows routed to it.
LEMMA InsertLeaf ==
  ASSUME IInv, fault = "none", Live, NEW l \in 1 .. Len(leaf_table), insert_leaf(l)
  PROVE  IInv'
<1>1. Ready /\ GoodStore(store)
  <2>1. op.kind \in Mutations /\ op.pc # "shrink_commit"
    BY DEF insert_leaf, Mutations
  <2>2. QED
    BY <2>1, IsReady DEF Live, StoreOK, GoodStore
<1>2. l \in DOMAIN leaf_table
  BY <1>1 DEF Ready
<1>3. /\ op \in InsertOps /\ DOMAIN op.route \subseteq manifest.rows
      /\ op.then = "split" /\ ~op.split
      /\ Inserting /\ ~Deleting
  <2>1. op.kind = "insert" /\ op.pc = "leaves"
    BY DEF insert_leaf
  <2>2. op # Idle /\ OpOK
    BY <2>1 DEF Idle, Live
  <2>3. op \in InsertOps /\ DOMAIN op.route \subseteq manifest.rows /\ op.then = "split" /\ ~op.split
    BY <2>1, <2>2, SMTT(30) DEF OpOK
  <2>4. QED
    BY <2>1, <2>3, SMTT(30) DEF Deleting, Inserting
<1>4. /\ op = [kind |-> "insert", pc |-> "leaves", then |-> "split", route |-> op.route,
               added |-> op.added, cursor |-> op.cursor, split |-> op.split, lt |-> op.lt]
      /\ op.added \in Nat /\ op.cursor \in Nat /\ op.split \in BOOLEAN
  BY <1>3 DEF InsertOps, insert_leaf
<1>5. PICK old : old = LeafOf(store, l)
  OBVIOUS
<1>6. PICK added : added = {r \in DOMAIN op.route : op.route[r] = l}
  OBVIOUS
<1>7. PICK o : o = Leaf(old.rows \cup added, old.dirty, NoExtent)
  OBVIOUS
<1>8. LeafOK(old) /\ old.payload = NoExtent /\ IsFiniteSet(old.rows)
  BY <1>1, <1>2, <1>5 DEF Ready, LeafOK, Leaf
<1>9. PICK w : w = write_leaf_(store, l, o)
  OBVIOUS
<1>10. PICK rest : rest = [r \in DOMAIN op.route \ added |-> op.route[r]]
  OBVIOUS
<1>11. PICK pc : pc = IF DOMAIN rest = {} THEN "commit" ELSE "leaves"
  OBVIOUS
<1>12. /\ store' = w.s
       /\ op' = (IF w.s.ok THEN [op EXCEPT !.route = rest, !.pc = pc] ELSE Failed)
       /\ leaf_table' = [leaf_table EXCEPT ![l] = w.e]
       /\ n_vectors' = (IF DOMAIN rest = {} /\ w.s.ok THEN n_vectors + op.added ELSE n_vectors)
       /\ UNCHANGED <<manifest, sb, disk_sb, root_children, n_vectors_disk, rows, fresh, fault>>
  <2>1. ~HasPayload
    BY <1>1 DEF Ready
  <2>2. QED
    BY <1>5, <1>6, <1>7, <1>8, <1>9, <1>10, <1>11, <2>1 DEF insert_leaf, Continue
<1>13. /\ LeafOK(o) /\ o.rows = old.rows \cup added /\ Typed(o) /\ IsFiniteSet(o.rows)
  <2>1. o.rows = old.rows \cup added /\ o.dirty = old.dirty /\ o.kind = "leaf"
    BY <1>7 DEF Leaf
  <2>2. added \subseteq manifest.rows /\ old.rows \subseteq manifest.rows
    BY <1>3, <1>6, <1>8 DEF LeafOK
  <2>3. IsFiniteSet(o.rows)
    BY <1>1, <2>1, <2>2, FS_Subset DEF Ready
  <2>4. QED
    BY <1>7, <1>8, <2>1, <2>2, <2>3 DEF LeafOK, Typed
<1>14. CASE w.s.ok
  <2>1. LeafPages(o.rows) \in Nat \ {0}
    BY <1>13, LeafPagesPositive
  <2>2. w.e \in Extents /\ Rewrites(store, w.s, leaf_table[l], w.e, o)
    BY <1>1, <1>2, <1>9, <1>13, <1>14, <2>1, WriteLeafFacts DEF Ready
  <2>3. op' = [kind |-> "insert", pc |-> pc, then |-> "split", route |-> rest,
               added |-> op.added, cursor |-> op.cursor, split |-> op.split, lt |-> op.lt]
    <3>1. op' = [op EXCEPT !.route = rest, !.pc = pc]
      BY <1>12, <1>14
    <3>2. PICK r, a, c, s, L : r = op.route /\ a = op.added /\ c = op.cursor /\ s = op.split
                               /\ L = op.lt
      OBVIOUS
    <3>3. op = [kind |-> "insert", pc |-> "leaves", then |-> "split", route |-> r,
                added |-> a, cursor |-> c, split |-> s, lt |-> L]
      BY <1>4, <3>2
    <3>4. op' = [kind |-> "insert", pc |-> pc, then |-> "split", route |-> rest,
                 added |-> a, cursor |-> c, split |-> s, lt |-> L]
      BY ONLY <3>1, <3>3
    <3>5. QED
      BY <3>2, <3>4
  <2>4. /\ op'.kind = "insert" /\ op'.pc = pc /\ op'.then = "split" /\ op'.route = rest
        /\ op'.added = op.added /\ op'.split = op.split /\ pc \in {"leaves", "commit"}
    BY <1>11, <2>3
  <2>5. DOMAIN rest = DOMAIN op.route \ added
    BY <1>10
  <2>6. OpOK'
    <3>1. op' \in InsertOps'
      BY <1>4, <2>3, <2>4 DEF InsertOps, Stages
    <3>2. DOMAIN op'.route \subseteq manifest'.rows
      BY <1>3, <1>12, <2>4, <2>5
    <3>3. QED
      BY <1>3, <2>4, <3>1, <3>2 DEF OpOK
  <2>7. /\ ~Deleting' /\ Splitting' /\ ~CountWritten' /\ ~AtRest'
        /\ op'.kind \in Mutations /\ op'.pc \in {"leaves", "commit"}
    BY <2>4 DEF Deleting, Splitting, CountWritten, AtRest, Mutations, Idle
  <2>8. LeafDone(l, o)
    BY <1>2, <1>4, <1>12, <1>13, <2>2, <2>7, LeafStep DEF insert_leaf, Mutations
  <2>9. /\ Len(leaf_table)' = Len(leaf_table) /\ DOMAIN leaf_table' = DOMAIN leaf_table
        /\ \A k \in DOMAIN leaf_table :
             LeafOf(store, k)'.rows = IF k = l THEN old.rows \cup added ELSE LeafOf(store, k).rows
    BY <1>13, <2>8 DEF LeafDone
  <2>10. RowsOK'
    <3>1. /\ CopiesKept
          /\ rows = Held \cup DOMAIN op.route /\ n_vectors \in Int
          /\ DOMAIN op.route \cap Held = {} /\ DOMAIN op.route \subseteq fresh
          /\ ~DuplicateIds => Cardinality(rows) = n_vectors + op.added
      BY <1>3 DEF Live, RowsOK
    <3>2. added \subseteq DOMAIN op.route
      BY <1>6
    <3>3. \A k \in DOMAIN leaf_table : LeafOf(store, k).rows \cap added = {}
      BY <3>1, <3>2 DEF Held
    <3>5. Held' = Held \cup added
      BY <1>2, <1>5, <2>9 DEF Held
    <3>4. CopiesKept'
      <4>1. SUFFICES ASSUME NEW r \in Held' PROVE Cardinality(Holders(r)') = Given(r)'
        BY DEF CopiesKept
      <4>2. Given(r)' = Given(r)
        BY <1>12 DEF Given, BuiltCopies
      <4>3. CASE r \in added
        <5>1. Holders(r)' = {l}
          BY <1>2, <2>9, <3>3, <4>3 DEF Holders
        <5>2. Given(r) = 1
          BY <3>1, <3>2, <4>3 DEF Given
        <5>3. QED
          BY <4>2, <5>1, <5>2, FS_Singleton
      <4>4. CASE r \notin added
        <5>1. Holders(r)' = Holders(r)
          BY <1>5, <2>9, <4>4 DEF Holders
        <5>2. r \in rows \cap Held
          BY <3>1, <3>5, <4>4
        <5>3. QED
          BY <3>1, <4>2, <5>1, <5>2 DEF CopiesKept
      <4>5. QED
        BY <4>3, <4>4
    <3>6. /\ rows' = Held' \cup DOMAIN rest /\ DOMAIN rest \cap Held' = {}
          /\ DOMAIN rest \subseteq fresh'
      BY <1>12, <2>5, <3>1, <3>2, <3>5
    <3>7. Inserting' <=> DOMAIN rest # {}
      BY <1>11, <2>4 DEF Inserting
    <3>8. /\ n_vectors' \in Int
          /\ ~DuplicateIds => Cardinality(rows') = IF Inserting' THEN n_vectors' + op'.added
                                                   ELSE n_vectors'
      <4>1. CASE DOMAIN rest = {}
        <5>1. n_vectors' = n_vectors + op.added /\ rows' = rows /\ ~Inserting'
          BY <1>12, <1>14, <3>7, <4>1
        <5>2. QED
          BY <1>4, <3>1, <5>1
      <4>2. CASE DOMAIN rest # {}
        <5>1. n_vectors' = n_vectors /\ rows' = rows /\ Inserting' /\ op'.added = op.added
          BY <1>12, <2>4, <3>7, <4>2
        <5>2. QED
          BY <3>1, <5>1
      <4>3. QED
        BY <4>1, <4>2
    <3>9. QED
      BY <2>4, <2>7, <3>4, <3>6, <3>7, <3>8 DEF RowsOK
  <2>11. QED
    BY <1>12, <2>6, <2>8, <2>10, StaysLive DEF LeafDone, Live
<1>15. CASE ~w.s.ok
  BY <1>12, <1>15, StaysLive
<1>16. QED
  BY <1>14, <1>15

\* add_child_to_parent_ works on a store in which nothing threw.
LEMMA AddChildOk ==
  ASSUME NEW s, NEW lid, NEW n, add_child_to_parent_(s, lid, n).s.ok
  PROVE  s.ok
<1> DEFINE hit == {q \in ParentNodes(s) : LeafChild(lid) \in Range(Children(s, q.node))}
           par == CHOOSE q \in hit : TRUE
           chs == Append(Children(s, par.node), LeafChild(n))
           k == NodePages(chs)
           moved == Place(s, Node(chs), k)
           freed == free_extent(moved.s, par.node)
           up == Node([Children(freed, par.gp) EXCEPT ![par.slot] = NodeChild(moved.e)])
           r == add_child_to_parent_(s, lid, n)
<1>1. \/ r = [s |-> s, root |-> sb.root]
      \/ r = [s |-> write_pages(s, par.node[1], k, Node(chs)), root |-> sb.root]
      \/ r = [s |-> freed, root |-> moved.e]
      \/ r = [s |-> write_pages(freed, par.gp[1], par.gp[2], up), root |-> sb.root]
  BY DEF add_child_to_parent_
<1> HIDE DEF hit, par, chs, k, moved, freed, up, r
<1>2. \/ r.s = s
      \/ r.s = write_pages(s, par.node[1], k, Node(chs))
      \/ r.s = freed
      \/ r.s = write_pages(freed, par.gp[1], par.gp[2], up)
  BY <1>1
<1>3. r.s.ok
  BY DEF r
<1>4. freed.ok => s.ok
  BY FreeOk, PlaceOk DEF freed, moved
<1>5. CASE r.s = s
  BY <1>3, <1>5
<1>6. CASE r.s = write_pages(s, par.node[1], k, Node(chs))
  BY <1>3, <1>6 DEF write_pages
<1>7. CASE r.s = freed
  BY <1>3, <1>4, <1>7
<1>8. CASE r.s = write_pages(freed, par.gp[1], par.gp[2], up)
  <2>1. freed.ok
    BY <1>3, <1>8 DEF write_pages
  <2>2. QED
    BY <1>4, <2>1
<1>9. QED
  BY <1>2, <1>5, <1>6, <1>7, <1>8, SMTT(30)

\* insert_batch splits a leaf.
LEMMA SplitLeaf ==
  ASSUME IInv, fault = "none", Live, NEW group0 \in SUBSET manifest.rows, split_leaf_(group0)
  PROVE  IInv'
<1>0. op.kind = "insert" /\ op.pc = "split" /\ Oversized # {}
  BY DEF split_leaf_
<1>1. Ready /\ GoodStore(store)
  <2>1. op.kind \in Mutations /\ op.pc # "shrink_commit"
    BY <1>0 DEF Mutations
  <2>2. QED
    BY <2>1, IsReady DEF Live, StoreOK, GoodStore
<1>2. /\ op \in InsertOps /\ DOMAIN op.route \subseteq manifest.rows
      /\ ~Deleting /\ ~Inserting /\ Splitting /\ CountWritten
  BY <1>0 DEF Live, OpOK, Idle, Deleting, Inserting, Splitting, CountWritten, Stages
<1>3. PICK l : l = NextOversized
  OBVIOUS
<1>4. l \in Oversized /\ l \in DOMAIN leaf_table /\ l \in 1 .. Len(leaf_table) /\ l \in Nat
  <2>1. Oversized \subseteq Nat /\ Oversized \subseteq 1 .. Len(leaf_table)
    BY <1>1 DEF Oversized, Ready
  <2>2. l \in Oversized
    <3>1. CASE \E k \in Oversized : k >= op.cursor
      <4>1. PICK S : S = {k \in Oversized : k >= op.cursor}
        OBVIOUS
      <4>2. S # {} /\ S \subseteq Nat /\ S \subseteq Oversized
        BY <2>1, <3>1, <4>1
      <4>3. l = Lowest(S)
        BY <1>3, <3>1, <4>1 DEF NextOversized
      <4>4. QED
        BY <4>2, <4>3, LowestFacts
    <3>2. CASE ~ \E k \in Oversized : k >= op.cursor
      <4>1. l = Lowest(Oversized)
        BY <1>3, <3>2 DEF NextOversized
      <4>2. QED
        BY <1>0, <2>1, <4>1, LowestFacts
    <3>3. QED
      BY <3>1, <3>2
  <2>3. QED
    BY <1>1, <2>1, <2>2 DEF Ready
<1>5. PICK old : old = LeafOf(store, l)
  OBVIOUS
<1>6. PICK g1 : g1 = old.rows \ group0
  OBVIOUS
<1>7. PICK oa : oa = [old EXCEPT !.rows = group0]
  OBVIOUS
<1>8. PICK ob : ob = [old EXCEPT !.rows = g1]
  OBVIOUS
<1>9. PICK a : a = Place(store, oa, LeafPages(group0))
  OBVIOUS
<1>10. PICK b : b = Place(a.s, ob, LeafPages(g1))
  OBVIOUS
<1>11. PICK s1 : s1 = free_extent(b.s, leaf_table[l])
  OBVIOUS
<1>12. PICK up : up = add_child_to_parent_(s1, l, Len(leaf_table) + 1)
  OBVIOUS
<1>13. PICK lt2 : lt2 = Append([leaf_table EXCEPT ![l] = a.e], b.e)
  OBVIOUS
<1>14. /\ group0 \subseteq old.rows
       /\ leaf_table' = lt2
       /\ sb' = [sb EXCEPT !.root = up.root]
       /\ store' = up.s
       /\ op' = (IF up.s.ok THEN [op EXCEPT !.cursor = l + 1, !.split = TRUE] ELSE Failed)
       /\ UNCHANGED <<manifest, disk_bm, disk_sb, root_children, n_vectors, n_vectors_disk, rows,
                      fresh, fault>>
  BY <1>3, <1>5, <1>6, <1>7, <1>8, <1>9, <1>10, <1>11, <1>12, <1>13 DEF split_leaf_, Continue
<1>15. LeafOK(old) /\ IsFiniteSet(old.rows)
  BY <1>1, <1>4, <1>5 DEF Ready
<1>16. /\ LeafOK(oa) /\ LeafOK(ob) /\ Typed(oa) /\ Typed(ob) /\ oa.rows = group0 /\ ob.rows = g1
       /\ LeafPages(group0) \in Nat \ {0} /\ LeafPages(g1) \in Nat \ {0}
  <2>1. oa = Leaf(group0, old.dirty, NoExtent) /\ ob = Leaf(g1, old.dirty, NoExtent)
    BY <1>7, <1>8, <1>15, ChangedLeaf
  <2>2. /\ oa.rows = group0 /\ oa.dirty = old.dirty /\ oa.kind = "leaf"
        /\ ob.rows = g1 /\ ob.dirty = old.dirty /\ ob.kind = "leaf"
    BY <2>1 DEF Leaf
  <2>3. IsFiniteSet(group0) /\ IsFiniteSet(g1)
    BY <1>6, <1>14, <1>15, FS_Subset
  <2>4. QED
    BY <1>6, <1>14, <1>15, <2>1, <2>2, <2>3, LeafPagesPositive DEF LeafOK, Typed
<1>17. CASE up.s.ok
  <2>1. s1.ok /\ b.s.ok /\ a.s.ok
    BY <1>10, <1>11, <1>12, <1>17, AddChildOk, FreeOk, PlaceOk
  <2>2. a.e \in Extents /\ Rewrites(store, a.s, Nothing, a.e, oa)
    BY <1>1, <1>9, <1>16, <2>1, PlaceFacts
  <2>3. GoodStore(a.s) /\ Pages(leaf_table[l]) \subseteq a.s.bm /\ leaf_table[l] \in Extents
    BY <1>1, <1>4, <2>2, PagesFacts DEF Rewrites, Ready
  <2>4. b.e \in Extents /\ Rewrites(a.s, s1, leaf_table[l], b.e, ob)
    BY <1>10, <1>11, <1>16, <2>1, <2>3, MoveFacts
  <2>5. Tab = sb.leaf_table
    BY <1>0 DEF Tab
  <2>6. LeafSplit(store, leaf_table, sb.root, sb.config, sb.card, sb.leaf_table, s1, lt2, l, oa, ob)
    <3>1. Intact(store, leaf_table, sb.root, sb.config, sb.card, sb.leaf_table)
      BY <2>5 DEF Live
    <3>2. Depth \in 1 .. 3
      BY <1>1 DEF Ready
    <3>3. QED
      BY <1>1, <1>4, <1>13, <1>16, <2>2, <2>4, <3>1, <3>2, SplitLeaves
  <2>7. ChildAdded(s1, lt2, sb.leaf_table, up.s, up.root)
    <3>1. /\ Sound(s1, lt2, sb.root, sb.config, sb.card, sb.leaf_table)
          /\ NamesOK(s1, sb.root, Len(leaf_table)) /\ Len(lt2) = Len(leaf_table) + 1
          /\ NodeChildren(s1, sb.root) = NodeChildren(store, sb.root)
      BY <2>6 DEF LeafSplit, SameTree
    <3>2. GoodStore(s1)
      BY <2>4 DEF Rewrites
    <3>3. Depth = 3 => root_children = NodeChildren(s1, sb.root)
      BY <3>1 DEF Live, CommitOK
    <3>4. Len(leaf_table) \in Nat /\ Depth \in 1 .. 3
      BY <1>1 DEF Ready
    <3>5. QED
      BY <1>4, <1>12, <1>17, <3>1, <3>2, <3>3, <3>4, AddChild
  <2>8. /\ sb'.root = up.root /\ sb'.config = sb.config /\ sb'.card = sb.card
        /\ sb'.leaf_table = sb.leaf_table /\ SuperblockOK(sb')
    <3>1. SuperblockOK(sb)
      BY DEF Live, CommitOK
    <3>2. PICK x1, x2, x3, x4, x5 :
            x1 = sb.leaf_table /\ x2 = sb.config /\ x3 = sb.card /\ x4 = sb.n_pages /\ x5 = sb.head
      OBVIOUS
    <3>3. sb = [root |-> sb.root, leaf_table |-> x1, config |-> x2, card |-> x3, n_pages |-> x4,
                head |-> x5]
      BY <3>1, <3>2 DEF SuperblockOK, Superblock
    <3>4. sb' = [root |-> up.root, leaf_table |-> x1, config |-> x2, card |-> x3, n_pages |-> x4,
                 head |-> x5]
      BY <1>14, <3>3
    <3>5. QED
      BY <3>2, <3>4 DEF SuperblockOK, Superblock
  <2>9. op' = [kind |-> "insert", pc |-> "split", then |-> op.then, route |-> op.route,
               added |-> op.added, cursor |-> l + 1, split |-> TRUE, lt |-> op.lt]
    <3>1. PICK d : d = TRUE
      OBVIOUS
    <3>2. op' = [op EXCEPT !.cursor = l + 1, !.split = d]
      BY <1>14, <1>17, <3>1
    <3>3. PICK t, r, x, c, s, L : t = op.then /\ r = op.route /\ x = op.added /\ c = op.cursor
                                  /\ s = op.split /\ L = op.lt
      OBVIOUS
    <3>4. op = [kind |-> "insert", pc |-> "split", then |-> t, route |-> r,
                added |-> x, cursor |-> c, split |-> s, lt |-> L]
      BY <1>0, <1>2, <3>3 DEF InsertOps
    <3>5. op' = [kind |-> "insert", pc |-> "split", then |-> t, route |-> r,
                 added |-> x, cursor |-> l + 1, split |-> d, lt |-> L]
      BY ONLY <3>2, <3>4
    <3>6. QED
      BY <3>1, <3>3, <3>5
  <2>10. op'.kind = "insert" /\ op'.pc = "split" /\ op'.split = TRUE /\ op'.route = op.route
         /\ op'.then = op.then
    BY <2>9
  <2>11. OpOK'
    <3>1. op.then \in {"split", "idle"} /\ op.added \in Nat /\ l + 1 \in Nat
      BY <1>2, <1>4 DEF InsertOps
    <3>2. op' \in InsertOps'
      BY <2>9, <3>1 DEF InsertOps
    <3>3. QED
      BY <1>2, <1>14, <2>10, <3>2 DEF OpOK
  <2>12. /\ ~Deleting' /\ ~Inserting' /\ Splitting' /\ ~AtRest' /\ ~TableWritten'
         /\ Tab' = sb.leaf_table
    BY <2>8, <2>10 DEF Deleting, Inserting, Splitting, AtRest, TableWritten, Tab, Idle, Stages
  <2>13. Intact(store, leaf_table, sb.root, sb.config, sb.card, Tab)'
    <3>1. Intact(store', leaf_table', sb'.root, sb'.config, sb'.card, sb.leaf_table)
      BY <1>14, <2>7, <2>8 DEF ChildAdded
    <3>2. QED
      BY <1>14, <2>12, <3>1, IntactNext
  <2>14. StoreOK'
    <3>1. GoodStore(store')
      BY <1>14, <2>7 DEF ChildAdded
    <3>2. QED
      BY <3>1 DEF StoreOK, GoodStore, Sized
  <2>15. CommitOK'
    <3>1. ObjectAt(store', sb.config) = ObjectAt(store, sb.config)
      BY <1>14, <2>6, <2>7 DEF LeafSplit, ChildAdded, Keeps
    <3>2. /\ ObjectAt(store, sb.config) = Config(n_vectors_disk) /\ n_vectors = n_vectors_disk
          /\ Depth = 3 => root_children = NodeChildren(store, sb.root)
      BY <1>2 DEF Live, CommitOK
    <3>3. (Depth = 3 => root_children = NodeChildren(store, sb.root))'
      <4>1. Depth' = Depth
        BY <1>14 DEF Depth
      <4>2. Depth = 3 => NodeChildren(store', sb'.root) = NodeChildren(store, sb.root)
        BY <1>14, <2>6, <2>7, <2>8 DEF LeafSplit, SameTree, ChildAdded
      <4>3. QED
        BY <1>14, <3>2, <4>1, <4>2
    <3>4. QED
      BY <1>14, <2>8, <2>10, <2>12, <3>1, <3>2, <3>3 DEF CommitOK
  <2>16. /\ Len(leaf_table)' = Len(leaf_table) + 1 /\ leaf_table' \in Seq(Extents)
         /\ DOMAIN leaf_table' = DOMAIN leaf_table \cup {Len(leaf_table) + 1}
         /\ Len(leaf_table) + 1 \notin DOMAIN leaf_table
    <3>1. lt2 \in Seq(Extents) /\ Len(lt2) = Len(leaf_table) + 1
      BY <2>6 DEF LeafSplit
    <3>2. DOMAIN lt2 = 1 .. Len(leaf_table) + 1
      BY <3>1, LenProperties
    <3>3. QED
      BY <1>1, <1>14, <3>1, <3>2 DEF Ready
  <2>17. PICK n : n = Len(leaf_table) + 1
    OBVIOUS
  <2>18. /\ \A k \in DOMAIN leaf_table :
              LeafOf(store, k)'.rows = IF k = l THEN group0 ELSE LeafOf(store, k).rows
         /\ LeafOf(store, n)'.rows = g1
         /\ DOMAIN leaf_table' = DOMAIN leaf_table \cup {n} /\ n \notin DOMAIN leaf_table
    <3>1. \A k \in DOMAIN leaf_table' : ObjectAt(up.s, lt2[k]) = ObjectAt(s1, lt2[k])
      BY <1>14, <2>7 DEF ChildAdded, Keeps, TableExtents
    <3>2. /\ \A k \in DOMAIN leaf_table :
               ObjectAt(s1, lt2[k]) = IF k = l THEN oa ELSE ObjectAt(store, leaf_table[k])
          /\ ObjectAt(s1, lt2[n]) = ob
      BY <2>6, <2>17 DEF LeafSplit
    <3>3. \A k \in DOMAIN leaf_table' : LeafOf(store, k)' = ObjectAt(s1, lt2[k])
      BY <1>14, <3>1 DEF LeafOf
    <3>4. /\ \A k \in DOMAIN leaf_table :
               LeafOf(store, k)' = IF k = l THEN oa ELSE LeafOf(store, k)
          /\ LeafOf(store, n)' = ob
      BY <2>16, <2>17, <3>2, <3>3 DEF LeafOf
    <3>5. QED
      BY <1>16, <2>16, <2>17, <3>4
  <2>19. RowsOK'
    <3>1. /\ CopiesKept
          /\ rows = Held /\ n_vectors \in Int
          /\ ~DuplicateIds => Cardinality(rows) = n_vectors
      BY <1>2 DEF Live, RowsOK
    <3>2. PICK R : R = [k \in DOMAIN leaf_table' |-> LeafOf(store, k)'.rows]
      OBVIOUS
    <3>3. /\ \A k \in DOMAIN leaf_table : R[k] = IF k = l THEN group0 ELSE LeafOf(store, k).rows
          /\ R[n] = g1
          /\ \A k \in DOMAIN leaf_table' : LeafOf(store, k)'.rows = R[k]
      BY <2>18, <3>2
    <3>5. Held' = Held
      <4>1. Held' = UNION {R[k] : k \in DOMAIN leaf_table'}
        BY <3>3 DEF Held
      <4>2. UNION {R[k] : k \in DOMAIN leaf_table'} \subseteq Held
        BY <1>4, <1>5, <1>6, <1>14, <2>18, <3>3 DEF Held
      <4>3. Held \subseteq UNION {R[k] : k \in DOMAIN leaf_table'}
        <5>1. SUFFICES ASSUME NEW k \in DOMAIN leaf_table, NEW x \in LeafOf(store, k).rows
                       PROVE  \E m \in DOMAIN leaf_table' : x \in R[m]
          BY DEF Held
        <5>2. CASE k # l
          BY <2>18, <3>3, <5>1, <5>2
        <5>3. CASE k = l
          BY <1>4, <1>5, <1>6, <2>18, <3>3, <5>1, <5>3
        <5>4. QED
          BY <5>2, <5>3
      <4>4. QED
        BY <4>1, <4>2, <4>3
    <3>6. rows' = Held' /\ n_vectors' \in Int /\ (~DuplicateIds => Cardinality(rows') = n_vectors')
      BY <1>14, <3>1, <3>5
    <3>4. CopiesKept'
      <4>1. SUFFICES ASSUME NEW r \in rows PROVE Cardinality(Holders(r)') = Given(r)'
        BY <3>1, <3>5, <3>6 DEF CopiesKept
      <4>2. Given(r)' = Given(r) /\ Cardinality(Holders(r)) = Given(r)
        BY <1>14, <3>1 DEF Given, BuiltCopies, CopiesKept
      <4>3. PICK H : H = Holders(r)
        OBVIOUS
      <4>4. /\ H \subseteq DOMAIN leaf_table /\ \A k \in DOMAIN leaf_table : k \in H <=> r \in LeafOf(store, k).rows
            /\ Holders(r)' \subseteq DOMAIN leaf_table'
            /\ \A k \in DOMAIN leaf_table' : k \in Holders(r)' <=> r \in R[k]
        BY <3>3, <4>3 DEF Holders
      <4>5. IsFiniteSet(H) /\ n \notin H
        <5>1. DOMAIN leaf_table = 1 .. Len(leaf_table) /\ Len(leaf_table) \in Nat
          BY IsReady DEF Ready
        <5>2. IsFiniteSet(DOMAIN leaf_table)
          BY <5>1, FS_Interval
        <5>3. QED
          BY <2>18, <4>4, <5>2, FS_Subset
      <4>6. CASE r \notin g1
        <5>1. r \in R[l] <=> r \in old.rows
          BY <1>4, <1>5, <1>6, <1>14, <3>3, <4>6
        <5>2. Holders(r)' = H
          BY <1>4, <1>5, <2>18, <3>3, <4>4, <4>6, <5>1
        <5>3. QED
          BY <4>2, <4>3, <5>2
      <4>7. CASE r \in g1
        <5>1. l \in H /\ r \notin group0
          BY <1>4, <1>5, <1>6, <4>4, <4>7
        <5>2. Holders(r)' = (H \ {l}) \cup {n}
          BY <1>4, <2>18, <3>3, <4>4, <4>7, <5>1
        <5>3. QED
          BY <4>2, <4>3, <4>5, <5>1, <5>2, SwapElement
      <4>8. QED
        BY <4>6, <4>7
    <3>7. QED
      BY <2>12, <3>3, <3>4, <3>6 DEF RowsOK
  <2>20. QED
    BY <1>14, <2>11, <2>13, <2>14, <2>15, <2>19, StaysLive DEF Live
<1>18. CASE ~up.s.ok
  BY <1>14, <1>18, StaysLive
<1>19. QED
  BY <1>17, <1>18

-----------------------------------------------------------------------------
(* The commit *)

\* The commit under way is at stage x, with the new table blob at L.
AtStage(x, L) ==
  /\ OpOK' /\ op'.kind = op.kind /\ op'.pc = x /\ op'.then = op.then /\ op'.lt = L
  /\ ~AtRest' /\ ~Inserting /\ ~Inserting' /\ ~Deleting /\ ~Deleting'
  /\ Splitting' <=> Splitting

\* The commit moves on to its next stage.
LEMMA StageFacts ==
  ASSUME OpOK, op.kind \in Mutations, op.pc \in Stages, NEW x \in Stages, NEW L,
         manifest' = manifest,
         op' = [op EXCEPT !.pc = x, !.lt = L] \/ (op' = [op EXCEPT !.pc = x] /\ L = op.lt)
  PROVE  AtStage(x, L)
<1>1. op # Idle /\ Depth' = Depth /\ op.pc # "leaves" /\ op.pc # "split" /\ x # "leaves"
      /\ x # "split" /\ op.pc # "shrink" /\ op.pc # "shrink_commit" /\ x # "shrink"
      /\ x # "shrink_commit" /\ x # "cardinality"
  BY DEF Idle, Mutations, Depth, Stages
<1>2. CASE op.kind = "insert"
  <2>1. op \in InsertOps /\ DOMAIN op.route \subseteq manifest.rows
        /\ (op.then = "split" => ~op.split)
    BY <1>1, <1>2 DEF OpOK
  <2>2. PICK p, t, r, a, c, s, M : p = op.pc /\ t = op.then /\ r = op.route /\ a = op.added
                                   /\ c = op.cursor /\ s = op.split /\ M = op.lt
    OBVIOUS
  <2>3. op = [kind |-> "insert", pc |-> p, then |-> t, route |-> r, added |-> a,
              cursor |-> c, split |-> s, lt |-> M]
        /\ t \in {"split", "idle"} /\ a \in Nat /\ c \in Nat /\ s \in BOOLEAN
    BY <2>1, <2>2 DEF InsertOps
  <2>4. op' = [kind |-> "insert", pc |-> x, then |-> t, route |-> r, added |-> a,
               cursor |-> c, split |-> s, lt |-> L]
    <3>1. op' = [op EXCEPT !.pc = x, !.lt = L] \/ (op' = [op EXCEPT !.pc = x] /\ L = M)
      BY <2>2
    <3>2. QED
      BY ONLY <2>3, <3>1
  <2>5. /\ op'.kind = "insert" /\ op'.pc = x /\ op'.then = t /\ op'.route = r
        /\ op'.split = s /\ op'.lt = L
    BY <2>4
  <2>6. op' \in InsertOps'
    BY <2>3, <2>4 DEF InsertOps
  <2>7. OpOK'
    BY <1>1, <2>1, <2>2, <2>5, <2>6 DEF OpOK
  <2>8. QED
    BY <1>1, <1>2, <2>2, <2>5, <2>7
       DEF AtStage, AtRest, Inserting, Deleting, Splitting, Idle
<1>3. CASE op.kind = "delete"
  <2>1. op \in DeleteOps
    BY <1>1, <1>3 DEF OpOK
  <2>2. PICK p, d, o, M : p = op.pc /\ d = op.ids /\ o = op.todo /\ M = op.lt
    OBVIOUS
  <2>3. op = [kind |-> "delete", pc |-> p, then |-> "idle", ids |-> d, todo |-> o, lt |-> M]
        /\ d \subseteq manifest.rows /\ o \subseteq Nat
    BY <2>1, <2>2 DEF DeleteOps
  <2>4. op' = [kind |-> "delete", pc |-> x, then |-> "idle", ids |-> d, todo |-> o, lt |-> L]
    <3>1. op' = [op EXCEPT !.pc = x, !.lt = L] \/ (op' = [op EXCEPT !.pc = x] /\ L = M)
      BY <2>2
    <3>2. QED
      BY ONLY <2>3, <3>1
  <2>5. op'.kind = "delete" /\ op'.pc = x /\ op'.then = "idle" /\ op'.lt = L /\ op.then = "idle"
    BY <2>3, <2>4
  <2>6. op' \in DeleteOps'
    BY <2>3, <2>4 DEF DeleteOps
  <2>7. OpOK'
    BY <2>5, <2>6 DEF OpOK
  <2>8. QED
    BY <1>1, <1>3, <2>2, <2>5, <2>7
       DEF AtStage, AtRest, Inserting, Deleting, Splitting, Idle
<1>4. CASE op.kind \in {"vacuum", "defrag"}
  <2>1. /\ op \in SweepOps /\ op.count = 0 /\ (op.kind = "defrag" /\ op.flag => Depth = 1)
        /\ op.then = "shrink" => op.kind = "defrag" /\ op.flag
    BY <1>1, <1>4 DEF OpOK
  <2>2. PICK k, p, t, c, f, M : k = op.kind /\ p = op.pc /\ t = op.then
                                /\ c = op.cursor /\ f = op.flag /\ M = op.lt
    OBVIOUS
  <2>3. op = [kind |-> k, pc |-> p, then |-> t, cursor |-> c, count |-> 0, flag |-> f, lt |-> M]
        /\ t \in {"leaves", "cardinality", "shrink", "idle"} /\ c \in Nat \ {0}
        /\ f \in BOOLEAN /\ k \in {"vacuum", "defrag"}
    BY <2>1, <2>2 DEF SweepOps
  <2>4. op' = [kind |-> k, pc |-> x, then |-> t, cursor |-> c, count |-> 0, flag |-> f, lt |-> L]
    <3>1. op' = [op EXCEPT !.pc = x, !.lt = L] \/ (op' = [op EXCEPT !.pc = x] /\ L = M)
      BY <2>2
    <3>2. QED
      BY ONLY <2>3, <3>1
  <2>5. /\ op'.kind = k /\ op'.pc = x /\ op'.then = t /\ op'.flag = f /\ op'.lt = L
        /\ op'.count = 0
    BY <2>4
  <2>6. op' \in SweepOps'
    BY <2>3, <2>4 DEF SweepOps
  <2>7. OpOK'
    BY <1>1, <2>1, <2>2, <2>3, <2>5, <2>6 DEF OpOK
  <2>8. QED
    BY <1>1, <1>4, <2>2, <2>5, <2>7
       DEF AtStage, AtRest, Inserting, Deleting, Splitting, Idle
<1>5. QED
  BY <1>2, <1>3, <1>4 DEF Mutations

\* The extent e, one of the blobs, gives way to f, which holds the object o.
Exchange(e, f, o, config, card, tab, config2, card2, tab2) ==
  \/ e = config /\ o.kind = "config" /\ config2 = f /\ card2 = card /\ tab2 = tab
  \/ e = card /\ o.kind = "card" /\ config2 = config /\ card2 = f /\ tab2 = tab
  \/ e = tab /\ o.kind = "table" /\ config2 = config /\ card2 = card /\ tab2 = f

BlobReplaced(s, lt, root, B, t, f, o, config2, card2, tab2) ==
  /\ GoodStore(t)
  /\ Intact(t, lt, root, config2, card2, tab2)
  /\ BlobRewritten(s, lt, root, B, t, f, o)

\* A blob is written to a new page and the old extent is freed.
LEMMA ReplaceBlob ==
  ASSUME NEW s, GoodStore(s), NEW lt, NEW root, NEW config, NEW card, NEW tab,
         Depth \in 1 .. 3, Intact(s, lt, root, config, card, tab),
         NEW e, NEW o, Typed(o), NEW a, a = Place(s, o, 1), NEW t, t = free_extent(a.s, e), t.ok,
         NEW config2, NEW card2, NEW tab2,
         Exchange(e, a.e, o, config, card, tab, config2, card2, tab2)
  PROVE  BlobReplaced(s, lt, root, {config, card, tab} \ {e}, t, a.e, o, config2, card2, tab2)
<1>1. e \in Extents /\ Pages(e) \subseteq s.bm
  <2>1. Owns(s, TableExtents(lt) \cup Nodes(s, root) \cup {config, card, tab})
    BY DEF Intact, Sound
  <2>2. e \in {config, card, tab}
    BY DEF Exchange
  <2>3. QED
    BY <2>1, <2>2 DEF Owns, Covered
<1>2. a.e \in Extents /\ Rewrites(s, t, e, a.e, o)
  <2>1. 1 \in Nat \ {0}
    OBVIOUS
  <2>2. QED
    BY <1>1, <2>1, MoveFacts
<1>3. GoodStore(t)
  BY <1>2 DEF Rewrites
<1>4. PICK f : f = a.e
  OBVIOUS
<1>5. f \in Extents /\ Rewrites(s, t, e, f, o)
  BY <1>2, <1>4
<1>6. \/ e = config /\ o.kind = "config" /\ config2 = f /\ card2 = card /\ tab2 = tab
      \/ e = card /\ o.kind = "card" /\ config2 = config /\ card2 = f /\ tab2 = tab
      \/ e = tab /\ o.kind = "table" /\ config2 = config /\ card2 = card /\ tab2 = f
  BY <1>4 DEF Exchange
<1>7. /\ Intact(t, lt, root, config2, card2, tab2)
      /\ BlobRewritten(s, lt, root, {config, card, tab} \ {e}, t, f, o)
  BY <1>5, <1>6, IntactBlob
<1>8. QED
  BY <1>3, <1>4, <1>7 DEF BlobReplaced

\* commit_mutable_ writes the leaf table and, if the row count changed, the manifest.
LEMMA CommitBlobs ==
  ASSUME IInv, fault = "none", Live, commit_blobs
  PROVE  IInv'
<1>0. op.kind \in Mutations /\ op.pc = "commit" /\ Tab = sb.leaf_table
  BY DEF commit_blobs, Tab
<1>1. Ready /\ GoodStore(store) /\ Depth \in 1 .. 3
  BY <1>0, IsReady DEF Live, StoreOK, GoodStore, Ready
<1>2. Intact(store, leaf_table, sb.root, sb.config, sb.card, sb.leaf_table)
  BY <1>0 DEF Live
<1>3. PICK t : t = Place(store, Table(leaf_table), 1)
  OBVIOUS
<1>4. PICK s1 : s1 = free_extent(t.s, sb.leaf_table)
  OBVIOUS
<1>5. PICK c : c = Place(s1, Config(n_vectors), 1)
  OBVIOUS
<1>6. PICK s2 : s2 = free_extent(c.s, sb.config)
  OBVIOUS
<1>7. PICK next : next = [op EXCEPT !.pc = "flush", !.lt = t.e]
  OBVIOUS
<1>8. /\ n_vectors # n_vectors_disk =>
           /\ store' = s2 /\ op' = (IF s2.ok THEN next ELSE Failed)
           /\ sb' = [sb EXCEPT !.config = c.e]
      /\ n_vectors = n_vectors_disk =>
           /\ store' = s1 /\ op' = (IF s1.ok THEN next ELSE Failed) /\ sb' = sb
      /\ n_vectors_disk' = n_vectors
      /\ UNCHANGED <<manifest, leaf_table, root_children, n_vectors, rows, fresh, fault>>
  BY <1>3, <1>4, <1>5, <1>6, <1>7 DEF commit_blobs, Continue
<1>9. /\ Typed(Table(leaf_table)) /\ Table(leaf_table).kind = "table"
      /\ Typed(Config(n_vectors)) /\ Config(n_vectors).kind = "config"
  BY DEF Typed, Table, Config
<1>10. ASSUME s1.ok
       PROVE  /\ GoodStore(s1)
              /\ Intact(s1, leaf_table, sb.root, sb.config, sb.card, t.e)
              /\ SameTree(store, s1, sb.root)
              /\ Keeps(store, s1, TableExtents(leaf_table) \cup {sb.config})
              /\ ObjectAt(s1, t.e) = Table(leaf_table)
  <2>1. BlobReplaced(store, leaf_table, sb.root,
                     {sb.config, sb.card, sb.leaf_table} \ {sb.leaf_table}, s1, t.e,
                     Table(leaf_table), sb.config, sb.card, t.e)
    <3>1. Exchange(sb.leaf_table, t.e, Table(leaf_table), sb.config, sb.card, sb.leaf_table,
                   sb.config, sb.card, t.e)
      BY <1>9 DEF Exchange
    <3>2. QED
      BY <1>1, <1>2, <1>3, <1>4, <1>9, <1>10, <3>1, ReplaceBlob
  <2>2. sb.config # sb.leaf_table
    BY <1>2 DEF Intact, Sound
  <2>3. QED
    BY <2>1, <2>2 DEF BlobReplaced, BlobRewritten, Keeps
<1>11. SuperblockOK(sb) /\ ObjectAt(store, sb.config) = Config(n_vectors_disk)
       /\ (Depth = 3 => root_children = NodeChildren(store, sb.root))
  BY DEF Live, CommitOK
<1>12. ASSUME store'.ok
       PROVE  /\ GoodStore(store') /\ op' = next /\ SuperblockOK(sb')
              /\ Intact(store', leaf_table', sb'.root, sb'.config, sb'.card, t.e)
              /\ Keeps(store, store', TableExtents(leaf_table))
              /\ ObjectAt(store', t.e) = Table(leaf_table)
              /\ ObjectAt(store', sb'.config) = Config(n_vectors)
              /\ NodeChildren(store', sb'.root) = NodeChildren(store, sb.root)
  <2>1. CASE n_vectors = n_vectors_disk
    <3>1. store' = s1 /\ s1.ok /\ op' = next /\ sb' = sb /\ leaf_table' = leaf_table
      BY <1>8, <1>12, <2>1
    <3>2. ObjectAt(s1, sb.config) = ObjectAt(store, sb.config)
          /\ Keeps(store, s1, TableExtents(leaf_table))
      BY <1>10, <3>1 DEF Keeps
    <3>3. QED
      BY <1>10, <1>11, <2>1, <3>1, <3>2 DEF SameTree
  <2>2. CASE n_vectors # n_vectors_disk
    <3>1. store' = s2 /\ s2.ok /\ op' = next /\ sb' = [sb EXCEPT !.config = c.e]
          /\ leaf_table' = leaf_table
      BY <1>8, <1>12, <2>2
    <3>2. s1.ok
      BY <1>5, <1>6, <3>1, FreeOk, PlaceOk
    <3>3. BlobReplaced(s1, leaf_table, sb.root, {sb.config, sb.card, t.e} \ {sb.config}, s2, c.e,
                       Config(n_vectors), c.e, sb.card, t.e)
      <4>1. GoodStore(s1) /\ Intact(s1, leaf_table, sb.root, sb.config, sb.card, t.e)
        BY <1>10, <3>2
      <4>2. Exchange(sb.config, c.e, Config(n_vectors), sb.config, sb.card, t.e,
                     c.e, sb.card, t.e)
        BY <1>9 DEF Exchange
      <4>3. QED
        BY <1>1, <1>5, <1>6, <1>9, <3>1, <4>1, <4>2, ReplaceBlob
    <3>4. t.e # sb.config
      BY <1>10, <3>2 DEF Intact, Sound
    <3>5. /\ SameTree(s1, s2, sb.root) /\ Keeps(s1, s2, TableExtents(leaf_table))
          /\ ObjectAt(s2, t.e) = ObjectAt(s1, t.e) /\ ObjectAt(s2, c.e) = Config(n_vectors)
      BY <3>3, <3>4 DEF BlobReplaced, BlobRewritten, Keeps
    <3>6. /\ sb'.root = sb.root /\ sb'.config = c.e /\ sb'.card = sb.card /\ SuperblockOK(sb')
      <4>1. PICK x1, x2, x3, x4, x5 :
              x1 = sb.root /\ x2 = sb.leaf_table /\ x3 = sb.card /\ x4 = sb.n_pages /\ x5 = sb.head
        OBVIOUS
      <4>2. sb = [root |-> x1, leaf_table |-> x2, config |-> sb.config, card |-> x3,
                  n_pages |-> x4, head |-> x5]
        BY <1>11, <4>1 DEF SuperblockOK, Superblock
      <4>3. sb' = [root |-> x1, leaf_table |-> x2, config |-> c.e, card |-> x3,
                   n_pages |-> x4, head |-> x5]
        BY <3>1, <4>2
      <4>4. QED
        BY <4>1, <4>3 DEF SuperblockOK, Superblock
    <3>7. Keeps(store, s2, TableExtents(leaf_table)) /\ ObjectAt(s2, t.e) = Table(leaf_table)
          /\ NodeChildren(s2, sb.root) = NodeChildren(store, sb.root)
      BY <1>10, <3>2, <3>5 DEF Keeps, SameTree
    <3>8. Intact(s2, leaf_table, sb.root, c.e, sb.card, t.e) /\ GoodStore(s2)
      BY <3>3 DEF BlobReplaced
    <3>9. QED
      BY <3>1, <3>5, <3>6, <3>7, <3>8
  <2>3. QED
    BY <2>1, <2>2
<1>13. CASE store'.ok
  <2>1. AtStage("flush", t.e)
    <3>1. op' = [op EXCEPT !.pc = "flush", !.lt = t.e] /\ "flush" \in Stages /\ op.pc \in Stages
          /\ OpOK /\ manifest' = manifest
      BY <1>0, <1>7, <1>8, <1>12, <1>13 DEF Stages, Live
    <3>2. QED
      BY <1>0, <3>1, StageFacts
  <2>2. OpOK' /\ ~AtRest' /\ op'.pc = "flush" /\ Tab' = t.e
    BY <1>0, <2>1 DEF AtStage, Tab
  <2>3. Intact(store, leaf_table, sb.root, sb.config, sb.card, Tab)'
    BY <1>8, <1>12, <1>13, <2>2, IntactNext
  <2>4. StoreOK'
    BY <1>12, <1>13 DEF StoreOK, GoodStore, Sized
  <2>5. CommitOK'
    <3>1. Depth' = Depth
      BY <1>8 DEF Depth
    <3>2. SuperblockOK(sb)'
      BY <1>12, <1>13 DEF SuperblockOK, Superblock
    <3>3. ObjectAt(store', Tab') = Table(leaf_table') /\ ObjectAt(store', sb'.config)
                                                           = Config(n_vectors_disk')
          /\ n_vectors' = n_vectors_disk'
      BY <1>8, <1>12, <1>13, <2>2
    <3>4. (Depth = 3 => root_children = NodeChildren(store, sb.root))'
      BY <1>8, <1>11, <1>12, <1>13, <3>1
    <3>5. op'.pc # "superblock"
      BY <2>2
    <3>6. QED
      BY <2>2, <3>2, <3>3, <3>4, <3>5 DEF CommitOK
  <2>6. RowsOK'
    <3>1. \A k \in DOMAIN leaf_table : LeafOf(store, k)' = LeafOf(store, k)
      BY <1>8, <1>12, <1>13 DEF LeafOf, Keeps, TableExtents
    <3>2. RowsOK /\ ~Inserting /\ ~Deleting /\ ~Inserting' /\ ~Deleting'
          /\ (Splitting => Splitting')
      BY <2>1 DEF AtStage, Live
    <3>3. \A k \in DOMAIN leaf_table : LeafOf(store, k)'.rows = LeafOf(store, k).rows
      BY <3>1
    <3>4. QED
      BY <1>1, <1>8, <3>2, <3>3, RowsFrame DEF Ready
  <2>7. QED
    BY <1>8, <2>2, <2>3, <2>4, <2>5, <2>6, StaysLive DEF Live
<1>14. CASE ~store'.ok
  BY <1>8, <1>14, StaysLive
<1>15. QED
  BY <1>13, <1>14

-----------------------------------------------------------------------------
(* Steps that only move the mutation on *)

\* Nothing is expected of the index after the step that was not before it.
QuietOp ==
  /\ OpOK'
  /\ AtRest' => AtRest /\ disk_bm' = disk_bm
  /\ TableWritten' => TableWritten
  /\ Tab' = Tab
  /\ CountWritten' => CountWritten
  /\ op'.kind \in Mutations => op.kind \in Mutations /\ op.pc # "shrink_commit"
  /\ op'.kind \in Mutations /\ op'.pc = "superblock" => disk_bm' = store.bm
  /\ ~Inserting /\ ~Deleting /\ ~Inserting' /\ ~Deleting'
  /\ Splitting => Splitting' \/ Oversized = {}

\* A step that changes only the operation's own position keeps the invariant.
LEMMA QuietStep ==
  ASSUME IInv, fault = "none", Live, QuietOp,
         UNCHANGED <<manifest, store, sb, disk_sb, leaf_table, root_children, n_vectors,
                     n_vectors_disk, rows, fresh, fault>>
  PROVE  IInv'
<1>1. Ready
  BY IsReady
<1>2. Intact(store, leaf_table, sb.root, sb.config, sb.card, Tab)'
  <2>1. Intact(store', leaf_table', sb'.root, sb'.config, sb'.card, Tab')
    BY DEF Live, QuietOp
  <2>2. QED
    BY <2>1, IntactNext
<1>3. StoreOK'
  BY DEF Live, StoreOK, QuietOp
<1>4. CommitOK'
  <2>1. SuperblockOK(sb)'
    BY DEF Live, CommitOK, SuperblockOK, Superblock
  <2>2. AtRest' => Synced'
    BY DEF Live, CommitOK, Synced, QuietOp
  <2>3. (Depth = 3 => root_children = NodeChildren(store, sb.root))'
    BY DEF Live, CommitOK, Depth
  <2>4. /\ TableWritten' => ObjectAt(store', Tab') = Table(leaf_table')
        /\ ObjectAt(store', sb'.config) = Config(n_vectors_disk')
        /\ CountWritten' => n_vectors' = n_vectors_disk'
        /\ op'.kind \in Mutations /\ op'.pc = "superblock" => disk_bm' = store'.bm
    BY DEF Live, CommitOK, QuietOp
  <2>5. QED
    BY <2>1, <2>2, <2>3, <2>4 DEF CommitOK
<1>5. RowsOK'
  <2>1. \A k \in DOMAIN leaf_table : LeafOf(store, k)'.rows = LeafOf(store, k).rows
    BY DEF LeafOf
  <2>2. RowsOK /\ DOMAIN leaf_table = 1 .. Len(leaf_table)
    BY <1>1 DEF Live, Ready
  <2>3. QED
    BY <2>1, <2>2, RowsFrame DEF QuietOp
<1>6. QED
  BY <1>2, <1>3, <1>4, <1>5, StaysLive DEF Live, QuietOp

\* The split loop ends.
LEMMA SplitsDone ==
  ASSUME IInv, fault = "none", Live, splits_done
  PROVE  IInv'
<1>1. op.kind = "insert" /\ op.pc = "split" /\ Oversized = {}
      /\ UNCHANGED <<manifest, store, sb, disk_sb, disk_bm, leaf_table, root_children, n_vectors,
                     n_vectors_disk, rows, fresh, fault>>
  BY DEF splits_done
<1>2. op \in InsertOps /\ DOMAIN op.route \subseteq manifest.rows
  BY <1>1 DEF Live, OpOK, Idle
<1>3. CASE op.split
  <2>1. op' = [op EXCEPT !.pc = "commit", !.then = "idle"]
    BY <1>3 DEF splits_done, Commit
  <2>2. PICK t, r, a, c, s, L : t = op.then /\ r = op.route /\ a = op.added
                                /\ c = op.cursor /\ s = op.split /\ L = op.lt
    OBVIOUS
  <2>3. op = [kind |-> "insert", pc |-> "split", then |-> t, route |-> r, added |-> a,
              cursor |-> c, split |-> s, lt |-> L]
        /\ a \in Nat /\ c \in Nat /\ s \in BOOLEAN
    BY <1>1, <1>2, <2>2 DEF InsertOps
  <2>4. op' = [kind |-> "insert", pc |-> "commit", then |-> "idle", route |-> r, added |-> a,
               cursor |-> c, split |-> s, lt |-> L]
    BY ONLY <2>1, <2>3
  <2>5. op'.kind = "insert" /\ op'.pc = "commit" /\ op'.then = "idle" /\ op'.route = r
    BY <2>4
  <2>6. OpOK'
    <3>1. op' \in InsertOps'
      BY <2>3, <2>4 DEF InsertOps, Stages
    <3>2. QED
      BY <1>1, <1>2, <2>2, <2>5, <3>1 DEF OpOK
  <2>7. QuietOp
    BY <1>1, <2>5, <2>6 DEF QuietOp, AtRest, TableWritten, Tab, CountWritten, Inserting, Deleting,
                            Splitting, Mutations, Idle
  <2>8. QED
    BY <1>1, <2>7, QuietStep
<1>4. CASE ~op.split
  <2>1. op' = Idle
    BY <1>4 DEF splits_done
  <2>2. op'.kind = "idle" /\ OpOK'
    BY <2>1 DEF Idle, OpOK
  <2>3. QuietOp
    BY <1>1, <1>4, <2>1, <2>2 DEF QuietOp, AtRest, TableWritten, Tab, CountWritten, Inserting,
                            Deleting, Splitting, Mutations
  <2>4. QED
    BY <1>1, <2>3, QuietStep
<1>5. QED
  BY <1>3, <1>4

\* The leaf loop of a sweep ends.
LEMMA SweepEnds ==
  ASSUME IInv, fault = "none", Live, op.kind \in {"vacuum", "defrag"}, op.pc = "leaves",
         NEW then \in {"cardinality", "shrink", "idle"},
         then = "shrink" => op.kind = "defrag" /\ op.flag, op' = SweepDone(then),
         UNCHANGED <<manifest, store, sb, disk_sb, disk_bm, leaf_table, root_children, n_vectors,
                     n_vectors_disk, rows, fresh, fault>>
  PROVE  IInv'
<1>1. op \in SweepOps /\ (op.kind = "defrag" /\ op.flag => Depth = 1) /\ Depth' = Depth
  BY DEF Live, OpOK, Idle, Depth
<1>2. PICK k, t, c, n, f, L : k = op.kind /\ t = op.then /\ c = op.cursor /\ n = op.count
                              /\ f = op.flag /\ L = op.lt
  OBVIOUS
<1>3. op = [kind |-> k, pc |-> "leaves", then |-> t, cursor |-> c, count |-> n, flag |-> f,
            lt |-> L]
      /\ t \in {"leaves", "cardinality", "shrink", "idle"} /\ c \in Nat \ {0} /\ n \in Nat
      /\ f \in BOOLEAN /\ k \in {"vacuum", "defrag"}
      /\ ("shrink" \in {op.pc, t} => op.kind = "defrag" /\ op.flag)
  BY <1>1, <1>2 DEF SweepOps, Live, OpOK, Idle
<1>4. CASE op.count > 0
  <2>1. op' = [[op EXCEPT !.count = 0] EXCEPT !.pc = "commit", !.then = then]
    BY <1>4 DEF SweepDone, Commit
  <2>2. op' = [kind |-> k, pc |-> "commit", then |-> then, cursor |-> c, count |-> 0,
               flag |-> f, lt |-> L]
    BY ONLY <1>3, <2>1
  <2>3. /\ op'.kind = k /\ op'.pc = "commit" /\ op'.then = then /\ op'.count = 0
        /\ op'.flag = f
    BY <2>2
  <2>4. op' \in SweepOps'
    BY <1>3, <2>2 DEF SweepOps, Stages
  <2>5. OpOK'
    BY <1>1, <1>2, <1>3, <2>3, <2>4 DEF OpOK
  <2>6. QuietOp
    BY <1>2, <2>3, <2>5 DEF QuietOp, AtRest, TableWritten, Tab, CountWritten, Inserting,
                            Deleting, Splitting, Mutations, Idle
  <2>7. QED
    BY <2>6, QuietStep
<1>5. CASE ~(op.count > 0) /\ then = "idle"
  <2>1. op' = Idle
    BY <1>5 DEF SweepDone
  <2>2. op'.kind = "idle" /\ OpOK' /\ op.count = 0
    BY <1>2, <1>3, <1>5, <2>1 DEF Idle, OpOK
  <2>3. QuietOp
    BY <2>1, <2>2 DEF QuietOp, AtRest, TableWritten, Tab, CountWritten, Inserting,
                      Deleting, Splitting, Mutations
  <2>4. QED
    BY <2>3, QuietStep
<1>6. CASE ~(op.count > 0) /\ then # "idle"
  <2>1. op' = [op EXCEPT !.pc = then]
    BY <1>6 DEF SweepDone
  <2>2. op' = [kind |-> k, pc |-> then, then |-> t, cursor |-> c, count |-> n,
               flag |-> f, lt |-> L]
    BY ONLY <1>3, <2>1
  <2>3. /\ op'.kind = k /\ op'.pc = then /\ op'.then = t /\ op'.count = n /\ op'.flag = f
        /\ n = 0
    BY <1>2, <1>3, <1>6, <2>2
  <2>4. op' \in SweepOps'
    BY <1>3, <1>6, <2>2 DEF SweepOps, Stages
  <2>5. OpOK'
    BY <1>1, <1>2, <1>3, <2>3, <2>4 DEF OpOK
  <2>6. QuietOp
    BY <1>2, <1>6, <2>3, <2>5 DEF QuietOp, AtRest, TableWritten, Tab, CountWritten, Inserting,
                                  Deleting, Splitting, Mutations, Idle
  <2>7. QED
    BY <2>6, QuietStep
<1>7. QED
  BY <1>4, <1>5, <1>6

\* The vacuum's leaf sweep ends.
LEMMA VacuumLeavesDone ==
  ASSUME IInv, fault = "none", Live, vacuum_leaves_done
  PROVE  IInv'
BY SweepEnds DEF vacuum_leaves_done

\* The defrag's leaf sweep ends, with or without a shrink to follow.
LEMMA DefragLeavesDone ==
  ASSUME IInv, fault = "none", Live, defrag_leaves_done
  PROVE  IInv'
<1>1. CASE op.flag
  BY <1>1, SweepEnds DEF defrag_leaves_done
<1>2. CASE ~op.flag
  BY <1>2, SweepEnds DEF defrag_leaves_done
<1>3. QED
  BY <1>1, <1>2

\* The bitmap is flushed.
LEMMA FlushBitmap ==
  ASSUME IInv, fault = "none", Live, flush_bitmap
  PROVE  IInv'
<1>1. /\ op.kind \in Mutations /\ op.pc = "flush" /\ disk_bm' = store.bm
      /\ op' = [op EXCEPT !.pc = "superblock"]
      /\ UNCHANGED <<manifest, store, sb, disk_sb, leaf_table, root_children, n_vectors,
                     n_vectors_disk, rows, fresh, fault>>
  BY DEF flush_bitmap
<1>2. AtStage("superblock", op.lt)
  <2>1. "superblock" \in Stages /\ op.pc \in Stages /\ OpOK
    BY <1>1 DEF Stages, Live
  <2>2. QED
    BY <1>1, <2>1, StageFacts
<1>3. QuietOp
  BY <1>1, <1>2 DEF AtStage, QuietOp, TableWritten, Tab, CountWritten
<1>4. QED
  BY <1>1, <1>3, QuietStep

\* vacuum writes a new cardinality blob, when asked for.
LEMMA VacuumCardinality ==
  ASSUME IInv, fault = "none", Live, vacuum_cardinality
  PROVE  IInv'
<1>1. op.kind = "vacuum" /\ op.pc = "cardinality"
  BY DEF vacuum_cardinality
<1>2. UNCHANGED <<manifest, disk_bm, disk_sb, leaf_table, root_children, n_vectors,
                  n_vectors_disk, rows, fresh, fault>>
  BY DEF vacuum_cardinality
<1>3. CASE ~op.flag
  <2>1. op' = Idle /\ UNCHANGED <<store, sb>>
    BY <1>3 DEF vacuum_cardinality
  <2>2. op'.kind = "idle" /\ OpOK'
    BY <2>1 DEF Idle, OpOK
  <2>3. QuietOp
    BY <1>1, <1>2, <2>1, <2>2 DEF QuietOp, AtRest, TableWritten, Tab, CountWritten, Inserting,
                                  Deleting, Splitting, Mutations
  <2>4. QED
    BY <1>2, <2>1, <2>3, QuietStep
<1>4. CASE op.flag
  <2>1. PICK c : c = Place(store, Card, 1)
    OBVIOUS
  <2>2. PICK t : t = free_extent(c.s, sb.card)
    OBVIOUS
  <2>3. /\ store' = t /\ op' = (IF t.ok THEN Commit(op, "idle") ELSE Failed)
        /\ sb' = [sb EXCEPT !.card = c.e]
    BY <1>4, <2>1, <2>2 DEF vacuum_cardinality, Continue
  <2>4. CASE ~t.ok
    BY <1>2, <2>3, <2>4, StaysLive
  <2>5. CASE t.ok
    <3>1. Ready /\ GoodStore(store) /\ Depth \in 1 .. 3 /\ Tab = sb.leaf_table
      BY <1>1, IsReady DEF Live, StoreOK, GoodStore, Ready, Mutations, Tab
    <3>2. Intact(store, leaf_table, sb.root, sb.config, sb.card, sb.leaf_table)
      BY <3>1 DEF Live
    <3>3. BlobReplaced(store, leaf_table, sb.root, {sb.config, sb.card, sb.leaf_table} \ {sb.card},
                       t, c.e, Card, sb.config, c.e, sb.leaf_table)
      <4>1. Exchange(sb.card, c.e, Card, sb.config, sb.card, sb.leaf_table,
                     sb.config, c.e, sb.leaf_table) /\ Typed(Card)
        BY DEF Exchange, Card, Typed
      <4>2. QED
        BY <2>1, <2>2, <2>5, <3>1, <3>2, <4>1, ReplaceBlob
    <3>4. sb.config # sb.card
      BY <3>2 DEF Intact, Sound
    <3>5. /\ GoodStore(t) /\ Intact(t, leaf_table, sb.root, sb.config, c.e, sb.leaf_table)
          /\ NodeChildren(t, sb.root) = NodeChildren(store, sb.root)
          /\ Keeps(store, t, TableExtents(leaf_table))
          /\ ObjectAt(t, sb.config) = ObjectAt(store, sb.config)
      BY <3>3, <3>4 DEF BlobReplaced, BlobRewritten, Keeps, SameTree
    <3>6. /\ SuperblockOK(sb) /\ ObjectAt(store, sb.config) = Config(n_vectors_disk)
          /\ Depth = 3 => root_children = NodeChildren(store, sb.root)
          /\ n_vectors = n_vectors_disk
      BY <1>1 DEF Live, CommitOK, CountWritten
    <3>7. /\ sb'.root = sb.root /\ sb'.config = sb.config /\ sb'.card = c.e
          /\ sb'.leaf_table = sb.leaf_table /\ SuperblockOK(sb')
      <4>1. PICK x1, x2, x3, x4, x5 :
              x1 = sb.root /\ x2 = sb.leaf_table /\ x3 = sb.config /\ x4 = sb.n_pages
              /\ x5 = sb.head
        OBVIOUS
      <4>2. sb = [root |-> x1, leaf_table |-> x2, config |-> x3, card |-> sb.card,
                  n_pages |-> x4, head |-> x5]
        BY <3>6, <4>1 DEF SuperblockOK, Superblock
      <4>3. sb' = [root |-> x1, leaf_table |-> x2, config |-> x3, card |-> c.e,
                   n_pages |-> x4, head |-> x5]
        BY <2>3, <4>2
      <4>4. QED
        BY <4>1, <4>3 DEF SuperblockOK, Superblock
    <3>8. op \in SweepOps /\ op.count = 0
      BY <1>1 DEF Live, OpOK, Idle
    <3>9. PICK r, p, f, L : r = op.then /\ p = op.cursor /\ f = op.flag /\ L = op.lt
      OBVIOUS
    <3>10. op = [kind |-> "vacuum", pc |-> "cardinality", then |-> r, cursor |-> p, count |-> 0,
                 flag |-> f, lt |-> L]
           /\ p \in Nat \ {0} /\ f \in BOOLEAN
      BY <1>1, <3>8, <3>9 DEF SweepOps
    <3>11. op' = [kind |-> "vacuum", pc |-> "commit", then |-> "idle", cursor |-> p, count |-> 0,
                  flag |-> f, lt |-> L]
      <4>1. op' = [op EXCEPT !.pc = "commit", !.then = "idle"]
        BY <2>3, <2>5 DEF Commit
      <4>2. QED
        BY ONLY <3>10, <4>1
    <3>12. /\ op'.kind = "vacuum" /\ op'.pc = "commit" /\ op'.then = "idle" /\ op'.count = 0
      BY <3>11
    <3>13. OpOK'
      <4>1. op' \in SweepOps'
        BY <3>10, <3>11 DEF SweepOps, Stages
      <4>2. QED
        BY <3>12, <4>1 DEF OpOK
    <3>14. ~AtRest' /\ ~TableWritten' /\ Tab' = sb.leaf_table
      BY <3>7, <3>12 DEF AtRest, TableWritten, Tab, Idle
    <3>15. Intact(store, leaf_table, sb.root, sb.config, sb.card, Tab)'
      <4>1. Intact(store', leaf_table', sb'.root, sb'.config, sb'.card, Tab')
        BY <1>2, <2>3, <3>5, <3>7, <3>14
      <4>2. QED
        BY <1>2, <4>1, IntactNext
    <3>16. StoreOK'
      BY <2>3, <3>5 DEF StoreOK, GoodStore, Sized
    <3>17. CommitOK'
      <4>1. (Depth = 3 => root_children = NodeChildren(store, sb.root))'
        BY <1>2, <2>3, <3>5, <3>6, <3>7 DEF Depth
      <4>2. SuperblockOK(sb)'
        BY <3>7 DEF SuperblockOK, Superblock
      <4>3. ObjectAt(store', sb'.config) = Config(n_vectors_disk') /\ n_vectors' = n_vectors_disk'
        BY <1>2, <2>3, <3>5, <3>6, <3>7
      <4>4. QED
        BY <3>12, <3>14, <4>1, <4>2, <4>3 DEF CommitOK
    <3>18. RowsOK'
      <4>1. \A k \in DOMAIN leaf_table : LeafOf(store, k)' = LeafOf(store, k)
        BY <1>2, <2>3, <3>5 DEF LeafOf, Keeps, TableExtents
      <4>2. \A k \in DOMAIN leaf_table : LeafOf(store, k)'.rows = LeafOf(store, k).rows
        BY <4>1
      <4>3. ~Inserting /\ ~Deleting /\ ~Inserting' /\ ~Deleting' /\ ~Splitting
        BY <1>1, <3>12 DEF Inserting, Deleting, Splitting
      <4>4. QED
        BY <1>2, <3>1, <4>2, <4>3, RowsFrame DEF Ready, Live
    <3>19. QED
      BY <1>2, <3>13, <3>15, <3>16, <3>17, <3>18, StaysLive DEF Live
  <2>6. QED
    BY <2>4, <2>5
<1>5. QED
  BY <1>3, <1>4

-----------------------------------------------------------------------------
(* A mutation begins *)

\* The allocator is loaded from what the last commit left.
LEMMA LoadFacts ==
  ASSUME Live, op = Idle
  PROVE  /\ GoodStore(load(store)) /\ load(store).file = store.file /\ load(store).bm = disk_bm
         /\ disk_bm = store.bm /\ SamePages(store, load(store)) /\ Synced
<1>1. Synced /\ GoodFile(store)
  BY DEF Live, CommitOK, AtRest, StoreOK
<1>2. PICK f, b, n, h, k : f = store.file /\ b = store.bm /\ n = store.n /\ h = store.head
                           /\ k = store.ok
  OBVIOUS
<1>3. store = [file |-> f, bm |-> b, n |-> n, head |-> h, ok |-> k] /\ k = TRUE
  BY <1>1, <1>2 DEF GoodFile, IsStore
<1>4. load(store) = [file |-> f, bm |-> disk_bm, n |-> sb.n_pages, head |-> sb.head, ok |-> k]
  <2>1. PICK x, y, z : x = disk_bm /\ y = sb.n_pages /\ z = sb.head
    OBVIOUS
  <2>2. load(store) = [store EXCEPT !.bm = x, !.n = y, !.head = z]
    BY <2>1 DEF load
  <2>3. store = [file |-> f, bm |-> b, n |-> n, head |-> h, ok |-> k]
    BY <1>3
  <2>4. load(store) = [file |-> f, bm |-> x, n |-> y, head |-> z, ok |-> k]
    BY ONLY <2>2, <2>3
  <2>5. QED
    BY <2>1, <2>4
<1>5. /\ load(store).file = f /\ load(store).bm = disk_bm /\ load(store).n = sb.n_pages
      /\ load(store).ok = k /\ load(store).head = sb.head
  BY <1>4
<1>6. IsStore(load(store))
  BY <1>4, <1>5 DEF IsStore
<1>7. GoodStore(load(store))
  BY <1>1, <1>2, <1>3, <1>5, <1>6 DEF GoodStore, GoodFile, Sized, Synced, TablesTyped
<1>8. QED
  BY <1>1, <1>2, <1>5, <1>7 DEF SamePages, Synced, GoodFile

\* A mutation begins with its loop over the leaves.
LEMMA BeginStep ==
  ASSUME IInv, fault = "none", Live, op = Idle, store' = load(store),
         op'.kind \in Mutations, op'.pc = "leaves", OpOK',
         CountWritten' => n_vectors' = n_vectors, RowsOK',
         UNCHANGED <<manifest, disk_bm, disk_sb, sb, leaf_table, root_children, n_vectors_disk,
                     fault>>
  PROVE  IInv'
<1>1. /\ GoodStore(store') /\ store'.file = store.file /\ store'.bm = disk_bm
      /\ SamePages(store, store') /\ Synced
  BY LoadFacts
<1>2. \A e : ObjectAt(store', e) = ObjectAt(store, e)
  BY <1>1 DEF ObjectAt
<1>3. \A e : NodeChildren(store', e) = NodeChildren(store, e)
  BY <1>2, SameObject
<1>4. Tab = sb.leaf_table /\ Tab' = sb.leaf_table /\ TableWritten /\ CountWritten
  BY DEF Tab, Idle, Mutations, TableWritten, AtRest, CountWritten
<1>5. Intact(store, leaf_table, sb.root, sb.config, sb.card, Tab)'
  <2>1. Intact(store, leaf_table, sb.root, sb.config, sb.card, sb.leaf_table) /\ GoodFile(store)
    BY <1>4 DEF Live, StoreOK
  <2>2. Intact(store', leaf_table, sb.root, sb.config, sb.card, sb.leaf_table)
    BY <1>1, <2>1, IntactFrame
  <2>3. QED
    BY <1>4, <2>2, IntactNext
<1>6. StoreOK'
  BY <1>1 DEF StoreOK, GoodStore, Sized
<1>7. CommitOK'
  <2>1. /\ SuperblockOK(sb) /\ ObjectAt(store, sb.config) = Config(n_vectors_disk)
        /\ ObjectAt(store, sb.leaf_table) = Table(leaf_table) /\ n_vectors = n_vectors_disk
        /\ Depth = 3 => root_children = NodeChildren(store, sb.root)
    BY <1>4 DEF Live, CommitOK
  <2>2. SuperblockOK(sb)'
    BY <2>1 DEF SuperblockOK, Superblock
  <2>3. Synced'
    BY <1>1, <1>3 DEF Synced
  <2>4. (Depth = 3 => root_children = NodeChildren(store, sb.root))'
    BY <1>3, <2>1 DEF Depth
  <2>5. ObjectAt(store', Tab') = Table(leaf_table') /\ op'.pc # "superblock"
        /\ ObjectAt(store', sb'.config) = Config(n_vectors_disk')
        /\ (CountWritten' => n_vectors' = n_vectors_disk')
    BY <1>2, <1>4, <2>1
  <2>6. QED
    BY <2>2, <2>3, <2>4, <2>5 DEF CommitOK
<1>8. QED
  BY <1>5, <1>6, <1>7, StaysLive DEF Live

\* Loading the allocator changes no leaf.
LEMMA LoadRows ==
  ASSUME Live, op = Idle, store' = load(store), leaf_table' = leaf_table
  PROVE  /\ \A k \in DOMAIN leaf_table : LeafOf(store, k)' = LeafOf(store, k)
         /\ Held' = Held
         /\ ~Inserting /\ ~Deleting /\ ~Splitting
         /\ CopiesKept /\ rows = Held /\ Oversized = {} /\ n_vectors \in Int
         /\ ~DuplicateIds => Cardinality(rows) = n_vectors
<1>1. store'.file = store.file
  BY LoadFacts
<1>2. \A k \in DOMAIN leaf_table : LeafOf(store, k)' = LeafOf(store, k)
  BY <1>1 DEF LeafOf, ObjectAt
<1>3. Held' = Held
  BY <1>2 DEF Held
<1>4. ~Inserting /\ ~Deleting /\ ~Splitting
  BY DEF Inserting, Deleting, Splitting, Idle
<1>5. QED
  BY <1>2, <1>3, <1>4 DEF Live, RowsOK

\* vacuum and defrag begin.
LEMMA SweepBegin ==
  ASSUME IInv, fault = "none", Live, NEW kind \in {"vacuum", "defrag"}, NEW flag \in BOOLEAN,
         kind = "defrag" /\ flag => Depth = 1, sweep_begin(kind, flag)
  PROVE  IInv'
<1>1. /\ op = Idle /\ store' = load(store) /\ op' = Sweep(kind, flag)
      /\ UNCHANGED <<manifest, disk_bm, disk_sb, sb, leaf_table, root_children, n_vectors,
                     n_vectors_disk, rows, fresh, fault>>
  BY DEF sweep_begin, Start
<1>2. /\ op' = [kind |-> kind, pc |-> "leaves", then |-> "leaves", cursor |-> 1, count |-> 0,
                flag |-> flag, lt |-> NoExtent]
      /\ op'.kind = kind /\ op'.pc = "leaves" /\ op'.then = "leaves" /\ op'.flag = flag
  BY <1>1 DEF Sweep
<1>3. OpOK'
  <2>1. op' \in SweepOps'
    BY <1>2 DEF SweepOps
  <2>2. QED
    BY <1>1, <1>2, <2>1 DEF OpOK, Depth
<1>4. ~Inserting' /\ ~Deleting' /\ op'.kind \in Mutations
  BY <1>2 DEF Inserting, Deleting, Mutations
<1>5. RowsOK'
  <2>1. \A k \in DOMAIN leaf_table : LeafOf(store, k)'.rows = LeafOf(store, k).rows
    BY <1>1, LoadRows
  <2>2. Ready /\ RowsOK /\ ~Inserting /\ ~Deleting /\ ~Splitting
    BY <1>1, LoadRows, IsReady DEF Live
  <2>3. QED
    BY <1>1, <1>4, <2>1, <2>2, RowsFrame DEF Ready
<1>6. QED
  BY <1>1, <1>2, <1>3, <1>4, <1>5, BeginStep

\* The rows of the leaves are rows of the index.
LEMMA HeldFinite ==
  ASSUME IInv, Live
  PROVE  Held \subseteq manifest.rows /\ IsFiniteSet(Held)
<1>1. Ready
  BY IsReady
<1>2. \A l \in DOMAIN leaf_table : LeafOf(store, l).rows \subseteq manifest.rows
  BY <1>1 DEF Ready, LeafOK
<1>3. Held \subseteq manifest.rows
  BY <1>2 DEF Held
<1>4. QED
  BY <1>1, <1>3, FS_Subset DEF Ready

\* insert_batch begins.
LEMMA InsertBatch ==
  ASSUME IInv, fault = "none", Live, NEW batch \in SUBSET (manifest.rows \ rows) \ {{}},
         NEW route \in [batch -> Routable], insert_batch(route)
  PROVE  IInv'
<1>1. /\ op = Idle /\ store' = load(store) /\ rows' = rows \cup DOMAIN route
      /\ fresh' = fresh \cup DOMAIN route
      /\ op' = [kind |-> "insert", pc |-> "leaves", then |-> "split", route |-> route,
                added |-> Cardinality(DOMAIN route), cursor |-> 1, split |-> FALSE,
                lt |-> NoExtent]
      /\ UNCHANGED <<manifest, disk_bm, disk_sb, sb, leaf_table, root_children, n_vectors,
                     n_vectors_disk, fault>>
  BY DEF insert_batch, Start
<1>2. /\ op'.kind = "insert" /\ op'.pc = "leaves" /\ op'.then = "split" /\ op'.route = route
      /\ op'.added = Cardinality(DOMAIN route) /\ op'.split = FALSE
  BY <1>1
<1>3. DOMAIN route \subseteq manifest.rows /\ DOMAIN route \cap rows = {}
  OBVIOUS
<1>4. IsFiniteSet(DOMAIN route) /\ Cardinality(DOMAIN route) \in Nat
  <2>1. Ready
    BY IsReady
  <2>2. QED
    BY <1>3, <2>1, FS_Subset, FS_CardinalityType DEF Ready
<1>5. OpOK'
  <2>1. op' \in InsertOps'
    BY <1>1, <1>2, <1>4 DEF InsertOps
  <2>2. QED
    BY <1>1, <1>2, <1>3, <2>1 DEF OpOK
<1>6. Inserting' /\ ~Deleting' /\ Splitting' /\ ~CountWritten' /\ op'.kind \in Mutations
  BY <1>2 DEF Inserting, Deleting, Splitting, CountWritten, Mutations, Stages
<1>7. RowsOK'
  <2>1. /\ \A k \in DOMAIN leaf_table : LeafOf(store, k)' = LeafOf(store, k)
        /\ Held' = Held
        /\ CopiesKept /\ rows = Held /\ n_vectors \in Int
        /\ ~DuplicateIds => Cardinality(rows) = n_vectors
    BY <1>1, LoadRows
  <2>2. CopiesKept'
    <3>1. ASSUME NEW r \in Held PROVE r \in rows /\ (r \in fresh' <=> r \in fresh)
      BY <1>1, <1>3, <2>1
    <3>2. QED
      BY <1>1, <2>1, <3>1, CopiesFrame
  <2>3. /\ rows' = Held' \cup DOMAIN op'.route /\ DOMAIN op'.route \cap Held' = {}
        /\ DOMAIN op'.route \subseteq fresh'
    BY <1>1, <1>2, <1>3, <2>1
  <2>4. ~DuplicateIds => Cardinality(rows') = n_vectors' + op'.added
    <3>1. IsFiniteSet(rows) /\ Cardinality(rows) \in Nat
      BY <2>1, HeldFinite, FS_CardinalityType
    <3>2. Cardinality(rows \cup DOMAIN route)
            = Cardinality(rows) + Cardinality(DOMAIN route) - Cardinality(rows \cap DOMAIN route)
      BY <1>4, <3>1, FS_Union
    <3>3. Cardinality(rows \cap DOMAIN route) = 0
      <4>1. rows \cap DOMAIN route = {}
        BY <1>3
      <4>2. QED
        BY <4>1, FS_EmptySet
    <3>4. QED
      BY <1>1, <1>2, <1>4, <2>1, <3>1, <3>2, <3>3
  <2>5. QED
    BY <1>1, <1>6, <2>1, <2>2, <2>3, <2>4 DEF RowsOK
<1>8. QED
  BY <1>1, <1>2, <1>5, <1>6, <1>7, BeginStep

\* delete_batch begins.
LEMMA DeleteBatch ==
  ASSUME IInv, fault = "none", Live, NEW ids \in SUBSET manifest.rows,
         NEW repeats \in (IF DuplicateIds THEN SUBSET ids ELSE {{}}), delete_batch(ids, repeats)
  PROVE  IInv'
<1> DEFINE hit(lid) == LeafOf(store, lid).rows \cap ids
           todo == {lid \in 1 .. Len(leaf_table) : hit(lid) # {}}
           found == UNION {hit(lid) : lid \in todo}
<1>1. /\ op = Idle /\ store' = load(store) /\ rows' = rows \ ids
      /\ op' = [kind |-> "delete", pc |-> "leaves", then |-> "idle", ids |-> ids,
                todo |-> todo, lt |-> NoExtent]
      /\ n_vectors' = n_vectors - Cardinality(found) - Cardinality(repeats \cap found)
      /\ UNCHANGED <<manifest, disk_bm, disk_sb, sb, leaf_table, root_children,
                     n_vectors_disk, fresh, fault>>
  BY DEF delete_batch, Start
<1>2. /\ op'.kind = "delete" /\ op'.pc = "leaves" /\ op'.then = "idle" /\ op'.ids = ids
      /\ op'.todo = todo
  BY <1>1
<1>3. Ready
  BY IsReady
<1>4. OpOK'
  <2>1. todo \subseteq Nat
    BY <1>3 DEF Ready
  <2>2. op' \in DeleteOps'
    BY <1>1, <1>2, <2>1 DEF DeleteOps
  <2>3. QED
    BY <1>2, <2>2 DEF OpOK
<1>5. Deleting' /\ ~Inserting' /\ ~Splitting' /\ ~CountWritten' /\ op'.kind \in Mutations
  BY <1>2 DEF Inserting, Deleting, Splitting, CountWritten, Mutations
<1>6. RowsOK'
  <2>1. /\ \A k \in DOMAIN leaf_table : LeafOf(store, k)' = LeafOf(store, k)
        /\ Held' = Held
        /\ CopiesKept /\ rows = Held /\ n_vectors \in Int /\ Oversized = {}
        /\ ~DuplicateIds => Cardinality(rows) = n_vectors
    BY <1>1, LoadRows
  <2>2. CopiesKept'
    BY <1>1, <2>1, CopiesFrame
  <2>3. \A l \in DOMAIN leaf_table' \ op'.todo : LeafOf(store, l)'.rows \cap op'.ids = {}
    BY <1>1, <1>2, <1>3, <2>1 DEF Ready
  <2>4. rows' = Held' \ op'.ids
    BY <1>1, <1>2, <2>1
  <2>5. Oversized' = {}
    BY <1>1, <1>3, <2>1 DEF Oversized, LeafCap, Ready
  <2>6. found = rows \cap ids
    <3>1. found \subseteq rows \cap ids
      BY <1>3, <2>1 DEF Held, Ready
    <3>2. ASSUME NEW r \in rows \cap ids PROVE r \in found
      <4>1. PICK l \in DOMAIN leaf_table : r \in LeafOf(store, l).rows
        BY <2>1 DEF Held
      <4>2. l \in todo /\ r \in hit(l)
        BY <1>3, <4>1 DEF Ready
      <4>3. QED
        BY <4>2
    <3>3. QED
      BY <3>1, <3>2
  <2> HIDE DEF found, todo
  <2>7. IsFiniteSet(rows) /\ Cardinality(rows) \in Nat
    BY <2>1, HeldFinite, FS_CardinalityType
  <2>8. IsFiniteSet(found) /\ IsFiniteSet(repeats \cap found)
    BY <2>6, <2>7, FS_Subset
  <2>9. Cardinality(found) \in Nat /\ Cardinality(repeats \cap found) \in Nat
    BY <2>8, FS_CardinalityType
  <2>10. n_vectors' \in Int
    BY <1>1, <2>1, <2>9
  <2>11. ~DuplicateIds => Cardinality(rows') = n_vectors'
    <3>1. SUFFICES ASSUME ~DuplicateIds PROVE Cardinality(rows') = n_vectors'
      OBVIOUS
    <3>2. repeats \cap found = {}
      BY <3>1
    <3>3. Cardinality(repeats \cap found) = 0
      BY <3>2, FS_EmptySet
    <3>4. Cardinality(rows \ ids) = Cardinality(rows) - Cardinality(rows \cap ids)
      BY <2>7, FS_Difference
    <3>5. QED
      BY <1>1, <2>1, <2>6, <2>7, <2>9, <3>1, <3>3, <3>4
  <2>12. QED
    BY <1>5, <2>2, <2>3, <2>4, <2>5, <2>10, <2>11 DEF RowsOK
<1>7. QED
  BY <1>1, <1>2, <1>4, <1>5, <1>6, BeginStep

-----------------------------------------------------------------------------
(* The superblock is committed *)

\* Where a mutation goes on after a commit.
LEMMA CommittedFacts ==
  ASSUME OpOK, op.kind \in Mutations, op.pc = "superblock", manifest' = manifest,
         op' = IF op.then = "idle" THEN Idle ELSE [op EXCEPT !.pc = op.then]
  PROVE  /\ OpOK' /\ ~Inserting /\ ~Deleting /\ ~Inserting' /\ ~Deleting'
         /\ Splitting => Splitting'
         /\ op'.kind \in Mutations => op'.pc \in {"leaves", "split", "cardinality", "shrink"}
<1>1. op # Idle /\ Depth' = Depth /\ ~Inserting /\ ~Deleting
  BY DEF Idle, Mutations, Depth, Inserting, Deleting
<1>2. CASE op.then = "idle"
  <2>1. op' = Idle /\ op'.kind = "idle"
    BY <1>2 DEF Idle
  <2>2. OpOK'
    BY <2>1 DEF OpOK, Idle
  <2>3. QED
    BY <1>1, <1>2, <2>1, <2>2 DEF Inserting, Deleting, Splitting, Mutations, Stages
<1>3. CASE op.then # "idle" /\ op.kind = "insert"
  <2>1. op \in InsertOps /\ DOMAIN op.route \subseteq manifest.rows /\ op.then = "split"
    BY <1>1, <1>3 DEF OpOK, InsertOps
  <2>2. PICK r, a, c, s, L : r = op.route /\ a = op.added /\ c = op.cursor /\ s = op.split
                             /\ L = op.lt
    OBVIOUS
  <2>3. op = [kind |-> "insert", pc |-> "superblock", then |-> "split", route |-> r, added |-> a,
              cursor |-> c, split |-> s, lt |-> L]
        /\ a \in Nat /\ c \in Nat /\ s \in BOOLEAN
    BY <1>3, <2>1, <2>2 DEF InsertOps
  <2>4. op' = [op EXCEPT !.pc = "split"]
    BY <1>3, <2>1
  <2>5. op' = [kind |-> "insert", pc |-> "split", then |-> "split", route |-> r, added |-> a,
               cursor |-> c, split |-> s, lt |-> L]
    BY ONLY <2>3, <2>4
  <2>6. op'.kind = "insert" /\ op'.pc = "split" /\ op'.then = "split" /\ op'.route = r
    BY <2>5
  <2>7. op' \in InsertOps'
    BY <2>3, <2>5 DEF InsertOps
  <2>8. OpOK'
    BY <2>1, <2>2, <2>6, <2>7 DEF OpOK
  <2>9. QED
    BY <1>1, <2>6, <2>8 DEF Inserting, Deleting, Splitting, Stages
<1>4. CASE op.then # "idle" /\ op.kind = "delete"
  BY <1>1, <1>4 DEF OpOK, DeleteOps
<1>5. CASE op.then # "idle" /\ op.kind \in {"vacuum", "defrag"}
  <2>1. /\ op \in SweepOps /\ op.count = 0 /\ (op.kind = "defrag" /\ op.flag => Depth = 1)
        /\ op.then = "shrink" => op.kind = "defrag" /\ op.flag
    BY <1>1, <1>5 DEF OpOK
  <2>2. PICK k, t, c, f, L : k = op.kind /\ t = op.then /\ c = op.cursor /\ f = op.flag
                             /\ L = op.lt
    OBVIOUS
  <2>3. op = [kind |-> k, pc |-> "superblock", then |-> t, cursor |-> c, count |-> 0,
              flag |-> f, lt |-> L]
        /\ t \in {"leaves", "cardinality", "shrink"} /\ c \in Nat \ {0}
        /\ f \in BOOLEAN /\ k \in {"vacuum", "defrag"}
    BY <1>5, <2>1, <2>2 DEF SweepOps
  <2>4. op' = [op EXCEPT !.pc = t]
    BY <1>5, <2>2
  <2>5. op' = [kind |-> k, pc |-> t, then |-> t, cursor |-> c, count |-> 0, flag |-> f, lt |-> L]
    BY ONLY <2>3, <2>4
  <2>6. op'.kind = k /\ op'.pc = t /\ op'.then = t /\ op'.flag = f /\ op'.count = 0
    BY <2>5
  <2>7. op' \in SweepOps'
    BY <2>3, <2>5 DEF SweepOps, Stages
  <2>8. OpOK'
    BY <1>1, <2>1, <2>2, <2>3, <2>6, <2>7 DEF OpOK
  <2>9. QED
    BY <1>1, <1>5, <2>3, <2>6, <2>8 DEF Inserting, Deleting, Splitting
<1>6. QED
  BY <1>2, <1>3, <1>4, <1>5 DEF Mutations

\* The file's size is what its pages count.
LEMMA FileSize ==
  ASSUME NEW D, NEW m \in Nat, D = 0 .. m - 1
  PROVE  Cardinality(D) = m
BY FS_Interval

\* The superblock is committed and the index is read again from it.
LEMMA CommitSuperblock ==
  ASSUME IInv, fault = "none", Live, commit_superblock
  PROVE  IInv'
<1>1. /\ op.kind \in Mutations /\ op.pc = "superblock" /\ disk_sb' = sb'
      /\ sb' = [sb EXCEPT !.leaf_table = op.lt, !.head = store.head,
                          !.n_pages = Cardinality(DOMAIN store.file)]
      /\ store' = clear_free_list(store)
      /\ leaf_table' = ObjectAt(store, op.lt).entries
      /\ root_children' = NodeChildren(store, sb.root)
      /\ op' = (IF op.then = "idle" THEN Idle ELSE [op EXCEPT !.pc = op.then])
      /\ UNCHANGED <<manifest, disk_bm, n_vectors, n_vectors_disk, rows, fresh, fault>>
  BY DEF commit_superblock
<1>2. Ready /\ GoodStore(store) /\ Tab = op.lt /\ TableWritten /\ CountWritten /\ disk_bm = store.bm
  BY <1>1, IsReady DEF Live, StoreOK, GoodStore, Tab, TableWritten, CountWritten, CommitOK
<1>3. /\ OpOK' /\ ~Inserting /\ ~Deleting /\ ~Inserting' /\ ~Deleting'
      /\ Splitting => Splitting'
      /\ op'.kind \in Mutations => op'.pc \in {"leaves", "split", "cardinality", "shrink"}
  BY <1>1, CommittedFacts DEF Live
<1>4. /\ SuperblockOK(sb) /\ ObjectAt(store, op.lt) = Table(leaf_table)
      /\ ObjectAt(store, sb.config) = Config(n_vectors_disk) /\ n_vectors = n_vectors_disk
      /\ Intact(store, leaf_table, sb.root, sb.config, sb.card, op.lt)
  BY <1>2 DEF Live, CommitOK
<1>5. leaf_table' = leaf_table
  BY <1>1, <1>4 DEF Table
<1>6. /\ GoodStore(store') /\ store'.file = store.file /\ store'.bm = store.bm
  BY <1>1, <1>2, OtherHead DEF clear_free_list
<1>7. \A e : ObjectAt(store', e) = ObjectAt(store, e)
  BY <1>6 DEF ObjectAt
<1>8. \A e : NodeChildren(store', e) = NodeChildren(store, e)
  BY <1>7, SameObject
<1>9. PICK m \in Nat : DOMAIN store.file = 0 .. m - 1
  BY <1>2 DEF GoodStore, Sized
<1>10. /\ sb'.root = sb.root /\ sb'.config = sb.config /\ sb'.card = sb.card
       /\ sb'.leaf_table = op.lt /\ sb'.n_pages = m /\ SuperblockOK(sb')
  <2>1. PICK x1, x2, x3, y1, y2, y3, z1, z2, z3 :
          /\ x1 = sb.root /\ x2 = sb.config /\ x3 = sb.card
          /\ y1 = sb.leaf_table /\ y2 = sb.n_pages /\ y3 = sb.head
          /\ z1 = op.lt /\ z2 = Cardinality(DOMAIN store.file) /\ z3 = store.head
    OBVIOUS
  <2>2. sb = [root |-> x1, leaf_table |-> y1, config |-> x2, card |-> x3,
              n_pages |-> y2, head |-> y3]
    BY <1>4, <2>1 DEF SuperblockOK, Superblock
  <2>3. sb' = [sb EXCEPT !.leaf_table = z1, !.head = z3, !.n_pages = z2]
    BY <1>1, <2>1
  <2>4. sb' = [root |-> x1, leaf_table |-> z1, config |-> x2, card |-> x3,
               n_pages |-> z2, head |-> z3]
    BY ONLY <2>2, <2>3
  <2>5. z2 = m
    BY <1>9, <2>1, FileSize
  <2>6. QED
    BY <2>1, <2>4, <2>5 DEF SuperblockOK, Superblock
<1>11. Tab' = op.lt
  BY <1>3, <1>10 DEF Tab
<1>12. Intact(store, leaf_table, sb.root, sb.config, sb.card, Tab)'
  <2>1. SamePages(store, store') /\ GoodFile(store)
    BY <1>2, <1>6 DEF SamePages, GoodStore, GoodFile
  <2>2. Intact(store', leaf_table, sb.root, sb.config, sb.card, op.lt)
    BY <1>4, <2>1, IntactFrame
  <2>3. Intact(store', leaf_table', sb'.root, sb'.config, sb'.card, Tab')
    BY <1>5, <1>10, <1>11, <2>2
  <2>4. QED
    BY <1>1, <2>3, IntactNext
<1>13. StoreOK'
  BY <1>6 DEF StoreOK, GoodStore, Sized
<1>14. CommitOK'
  <2>1. Synced'
    BY <1>1, <1>2, <1>6, <1>8, <1>9, <1>10 DEF Synced
  <2>2. SuperblockOK(sb)'
    BY <1>10 DEF SuperblockOK, Superblock
  <2>3. /\ ObjectAt(store', Tab') = Table(leaf_table')
        /\ ObjectAt(store', sb'.config) = Config(n_vectors_disk') /\ n_vectors' = n_vectors_disk'
        /\ ~(op'.kind \in Mutations /\ op'.pc = "superblock")
    BY <1>1, <1>3, <1>4, <1>5, <1>7, <1>10, <1>11
  <2>4. root_children' = NodeChildren(store', sb'.root)
    BY <1>1, <1>8, <1>10
  <2>5. QED
    BY <2>1, <2>2, <2>3, <2>4 DEF CommitOK
<1>15. RowsOK'
  <2>1. \A k \in DOMAIN leaf_table : LeafOf(store, k)' = LeafOf(store, k)
    BY <1>5, <1>7 DEF LeafOf
  <2>2. \A k \in DOMAIN leaf_table : LeafOf(store, k)'.rows = LeafOf(store, k).rows
    BY <2>1
  <2>3. QED
    BY <1>1, <1>2, <1>3, <1>5, <2>2, RowsFrame DEF Ready, Live
<1>16. QED
  BY <1>1, <1>3, <1>12, <1>13, <1>14, <1>15, StaysLive DEF Live

-----------------------------------------------------------------------------
(* The file shrinks *)

\* No extent of a tree of one level ends after MaxEnd.
LEMMA MaxEndFacts ==
  ASSUME IInv, Live, Depth = 1, Tab = sb.leaf_table, GoodStore(store)
  PROVE  MaxEnd \in Nat /\ store.bm \subseteq 0 .. MaxEnd - 1
<1> DEFINE E == TableExtents(leaf_table) \cup Nodes(store, sb.root)
                 \cup {sb.config, sb.card, sb.leaf_table}
           X == {leaf_table[l] : l \in 1 .. Len(leaf_table)}
                  \cup {<<2, 1>>, sb.root, sb.config, sb.card, sb.leaf_table}
           S == {e[1] + e[2] : e \in X}
<1>1. Ready /\ Owns(store, E)
  BY IsReady DEF Live, Intact, Sound
<1>2. Nodes(store, sb.root) = {sb.root}
  BY DEF Nodes, Mids, Lows
<1>3. X = E \cup {<<2, 1>>}
  BY <1>1, <1>2 DEF TableExtents, Ready
<1> HIDE DEF E
<1>4. store.n \in Nat /\ DOMAIN store.file = 0 .. store.n - 1
      /\ store.bm \subseteq 0 .. store.n - 1
  BY DEF GoodStore, GoodFile, Sized
<1>5. ASSUME NEW e \in E PROVE e[1] + e[2] \in Nat /\ e[1] + e[2] <= store.n
  <2>1. e[1] \in Nat /\ e[2] \in Nat \ {0} /\ Pages(e) \subseteq store.bm
    BY <1>1 DEF Owns, Covered, Extents
  <2>2. e[1] + e[2] - 1 \in Pages(e)
    BY <2>1 DEF Pages
  <2>3. e[1] + e[2] - 1 \in 0 .. store.n - 1
    BY <1>4, <2>1, <2>2
  <2>4. QED
    BY <1>4, <2>1, <2>3
<1>6. <<2, 1>>[1] + <<2, 1>>[2] = 3 /\ 3 <= store.n
  <2>1. 2 \in store.bm
    BY <1>1 DEF Owns, Reserved
  <2>2. QED
    BY <1>4, <2>1
<1>7. S \subseteq Nat /\ S # {} /\ \A x \in S : x <= store.n
  BY <1>3, <1>5, <1>6
<1>8. MaxEnd = Highest(S)
  BY DEF MaxEnd
<1> HIDE DEF S
<1>9. MaxEnd \in S /\ \A y \in S : y <= MaxEnd
  BY <1>4, <1>7, <1>8, HighestFacts
<1>10. MaxEnd \in Nat
  BY <1>7, <1>9
<1>11. \A e \in E : e[1] + e[2] <= MaxEnd
  BY <1>3, <1>9 DEF S
<1>12. 3 <= MaxEnd
  <2>1. 3 \in S
    BY <1>3, <1>6 DEF S
  <2>2. QED
    BY <1>9, <2>1
<1>13. ASSUME NEW p \in store.bm PROVE p \in 0 .. MaxEnd - 1
  <2>1. CASE p \in Reserved
    BY <1>10, <1>12, <2>1 DEF Reserved
  <2>2. CASE p \notin Reserved
    <3>1. PICK e \in E : p \in Pages(e)
      BY <1>1, <2>2 DEF Owns, Covered
    <3>2. e[1] \in Nat /\ e[2] \in Nat
      BY <1>1 DEF Owns, Extents
    <3>3. QED
      BY <1>10, <1>11, <3>1, <3>2 DEF Pages
  <2>3. QED
    BY <2>1, <2>2
<1>14. QED
  BY <1>10, <1>13

\* The file is cut.
LEMMA DefragTruncate ==
  ASSUME IInv, fault = "none", Live, defrag_truncate
  PROVE  IInv'
<1>1. op.kind = "defrag" /\ op.pc = "shrink"
      /\ UNCHANGED <<manifest, disk_bm, disk_sb, sb, leaf_table, root_children, n_vectors,
                     n_vectors_disk, rows, fresh, fault>>
  BY DEF defrag_truncate
<1>2. CASE MaxEnd \notin DOMAIN store.file
  <2>1. op' = Idle /\ store' = store
    BY <1>2 DEF defrag_truncate
  <2>2. op'.kind = "idle" /\ OpOK'
    BY <2>1 DEF Idle, OpOK
  <2>3. QuietOp
    BY <1>1, <2>1, <2>2 DEF QuietOp, AtRest, TableWritten, Tab, CountWritten, Inserting,
                            Deleting, Splitting, Mutations
  <2>4. QED
    BY <1>1, <2>1, <2>3, QuietStep
<1>3. CASE MaxEnd \in DOMAIN store.file
  <2>1. Ready /\ GoodStore(store) /\ Tab = sb.leaf_table /\ AtRest /\ TableWritten /\ CountWritten
    BY <1>1, IsReady DEF Live, StoreOK, GoodStore, Mutations, Tab, AtRest, TableWritten,
                         CountWritten
  <2>2. op \in SweepOps /\ op.flag /\ Depth = 1 /\ op.count = 0
    BY <1>1 DEF Live, OpOK, Idle
  <2>3. MaxEnd \in Nat /\ store.bm \subseteq 0 .. MaxEnd - 1
    BY <2>1, <2>2, MaxEndFacts
  <2>4. PICK F : F = [p \in 0 .. MaxEnd - 1 |-> store.file[p]]
    OBVIOUS
  <2>5. store' = [store EXCEPT !.file = F] /\ op' = [op EXCEPT !.pc = "shrink_commit"]
    BY <1>3, <2>4 DEF defrag_truncate
  <2>6. 0 .. MaxEnd - 1 \subseteq DOMAIN store.file
    BY <1>3, <2>1, <2>3 DEF GoodStore, Sized
  <2>7. store' = [file |-> F, bm |-> store.bm, n |-> store.n, head |-> store.head, ok |-> store.ok]
    <3>1. PICK f, b, n, h, k : f = store.file /\ b = store.bm /\ n = store.n /\ h = store.head
                               /\ k = store.ok
      OBVIOUS
    <3>2. store = [file |-> f, bm |-> b, n |-> n, head |-> h, ok |-> k]
      BY <2>1, <3>1 DEF GoodStore, GoodFile, IsStore
    <3>3. store' = [file |-> F, bm |-> b, n |-> n, head |-> h, ok |-> k]
      BY ONLY <2>5, <3>2
    <3>4. QED
      BY <3>1, <3>3
  <2>8. /\ store'.file = F /\ store'.bm = store.bm /\ store'.n = store.n
        /\ store'.head = store.head /\ store'.ok = store.ok
    BY <2>7
  <2>9. DOMAIN F = 0 .. MaxEnd - 1 /\ \A p \in DOMAIN F : F[p] = store.file[p]
    BY <2>4
  <2>10. GoodFile(store')
    <3>1. IsStore(store')
      BY <2>7, <2>8 DEF IsStore
    <3>2. TablesTyped(store')
      BY <2>1, <2>6, <2>8, <2>9 DEF TablesTyped, GoodStore, GoodFile
    <3>3. QED
      BY <2>1, <2>3, <2>8, <2>9, <3>1, <3>2 DEF GoodStore, GoodFile
  <2>11. SamePages(store, store')
    BY <2>3, <2>8, <2>9 DEF SamePages
  <2>12. /\ Intact(store', leaf_table, sb.root, sb.config, sb.card, sb.leaf_table)
         /\ Keeps(store, store', TableExtents(leaf_table) \cup {sb.config, sb.card, sb.leaf_table})
    <3>1. Intact(store, leaf_table, sb.root, sb.config, sb.card, sb.leaf_table) /\ GoodFile(store)
      BY <2>1 DEF Live, GoodStore
    <3>2. QED
      BY <2>11, <3>1, IntactFrame
  <2>13. PICK t, c, f, L : t = op.then /\ c = op.cursor /\ f = op.flag /\ L = op.lt
    OBVIOUS
  <2>14. op = [kind |-> "defrag", pc |-> "shrink", then |-> t, cursor |-> c, count |-> 0,
               flag |-> f, lt |-> L]
         /\ t \in {"leaves", "cardinality", "shrink", "idle"} /\ c \in Nat \ {0} /\ f \in BOOLEAN
    BY <1>1, <2>2, <2>13 DEF SweepOps
  <2>15. op' = [kind |-> "defrag", pc |-> "shrink_commit", then |-> t, cursor |-> c, count |-> 0,
                flag |-> f, lt |-> L]
    BY ONLY <2>5, <2>14
  <2>16. /\ op'.kind = "defrag" /\ op'.pc = "shrink_commit" /\ op'.then = t /\ op'.count = 0
         /\ op'.flag = f
    BY <2>15
  <2>17. OpOK'
    <3>1. op' \in SweepOps'
      BY <2>14, <2>15 DEF SweepOps
    <3>2. Depth' = 1
      BY <1>1, <2>2 DEF Depth
    <3>3. QED
      BY <2>2, <2>13, <2>16, <3>1, <3>2 DEF OpOK
  <2>18. ~AtRest' /\ Tab' = sb.leaf_table
    BY <1>1, <2>16 DEF AtRest, Tab, Idle
  <2>19. Intact(store, leaf_table, sb.root, sb.config, sb.card, Tab)'
    BY <1>1, <2>12, <2>18, IntactNext
  <2>20. StoreOK'
    BY <2>3, <2>8, <2>9, <2>10, <2>16 DEF StoreOK
  <2>21. CommitOK'
    <3>1. /\ SuperblockOK(sb) /\ ObjectAt(store, sb.config) = Config(n_vectors_disk)
          /\ ObjectAt(store, sb.leaf_table) = Table(leaf_table) /\ n_vectors = n_vectors_disk
      BY <2>1 DEF Live, CommitOK
    <3>2. SuperblockOK(sb)'
      BY <1>1, <3>1 DEF SuperblockOK, Superblock
    <3>3. /\ ObjectAt(store', sb.config) = ObjectAt(store, sb.config)
          /\ ObjectAt(store', sb.leaf_table) = ObjectAt(store, sb.leaf_table)
      BY <2>12 DEF Keeps
    <3>4. /\ ObjectAt(store', Tab') = Table(leaf_table')
          /\ ObjectAt(store', sb'.config) = Config(n_vectors_disk') /\ n_vectors' = n_vectors_disk'
          /\ op'.pc # "superblock" /\ Depth' # 3
      BY <1>1, <2>2, <2>16, <2>18, <3>1, <3>3 DEF Depth
    <3>5. QED
      BY <2>18, <3>2, <3>4 DEF CommitOK
  <2>22. RowsOK'
    <3>1. \A k \in DOMAIN leaf_table : LeafOf(store, k)' = LeafOf(store, k)
      BY <1>1, <2>12 DEF LeafOf, Keeps, TableExtents
    <3>2. \A k \in DOMAIN leaf_table : LeafOf(store, k)'.rows = LeafOf(store, k).rows
      BY <3>1
    <3>3. ~Inserting /\ ~Deleting /\ ~Inserting' /\ ~Deleting' /\ ~Splitting
      BY <1>1, <2>16 DEF Inserting, Deleting, Splitting
    <3>4. QED
      BY <1>1, <2>1, <3>2, <3>3, RowsFrame DEF Ready, Live
  <2>23. QED
    BY <1>1, <2>17, <2>19, <2>20, <2>21, <2>22, StaysLive DEF Live
<1>4. QED
  BY <1>2, <1>3

\* The bitmap and the superblock follow.
LEMMA DefragCommit ==
  ASSUME IInv, fault = "none", Live, defrag_commit
  PROVE  IInv'
<1>1. /\ op.kind = "defrag" /\ op.pc = "shrink_commit" /\ disk_bm' = store.bm
      /\ sb' = [sb EXCEPT !.n_pages = Cardinality(DOMAIN store.file)] /\ disk_sb' = sb'
      /\ root_children' = NodeChildren(store, sb.root) /\ op' = Idle
      /\ UNCHANGED <<manifest, store, leaf_table, n_vectors, n_vectors_disk, rows, fresh, fault>>
  BY DEF defrag_commit
<1>2. Ready /\ Tab = sb.leaf_table /\ TableWritten /\ CountWritten
  BY <1>1, IsReady DEF Tab, TableWritten, CountWritten, Mutations
<1>3. /\ SuperblockOK(sb) /\ ObjectAt(store, sb.config) = Config(n_vectors_disk)
      /\ ObjectAt(store, sb.leaf_table) = Table(leaf_table) /\ n_vectors = n_vectors_disk
      /\ Intact(store, leaf_table, sb.root, sb.config, sb.card, sb.leaf_table)
  BY <1>2 DEF Live, CommitOK
<1>4. PICK m \in Nat : DOMAIN store.file = 0 .. m - 1
  BY DEF Live, StoreOK
<1>5. /\ sb'.root = sb.root /\ sb'.config = sb.config /\ sb'.card = sb.card
      /\ sb'.leaf_table = sb.leaf_table /\ sb'.n_pages = m /\ SuperblockOK(sb')
  <2>1. PICK x1, x2, x3, x4, y, h, z :
          /\ x1 = sb.root /\ x2 = sb.config /\ x3 = sb.card /\ x4 = sb.leaf_table
          /\ y = sb.n_pages /\ h = sb.head /\ z = Cardinality(DOMAIN store.file)
    OBVIOUS
  <2>2. sb = [root |-> x1, leaf_table |-> x4, config |-> x2, card |-> x3,
              n_pages |-> y, head |-> h]
    BY <1>3, <2>1 DEF SuperblockOK, Superblock
  <2>3. sb' = [sb EXCEPT !.n_pages = z]
    BY <1>1, <2>1
  <2>4. sb' = [root |-> x1, leaf_table |-> x4, config |-> x2, card |-> x3,
               n_pages |-> z, head |-> h]
    BY ONLY <2>2, <2>3
  <2>5. z = m
    BY <1>4, <2>1, FileSize
  <2>6. QED
    BY <2>1, <2>4, <2>5 DEF SuperblockOK, Superblock
<1>6. op'.kind = "idle" /\ OpOK' /\ Tab' = sb.leaf_table
  BY <1>1, <1>5 DEF Idle, OpOK, Tab, Mutations
<1>7. Intact(store, leaf_table, sb.root, sb.config, sb.card, Tab)'
  <2>1. Intact(store', leaf_table', sb'.root, sb'.config, sb'.card, Tab')
    BY <1>1, <1>3, <1>5, <1>6
  <2>2. QED
    BY <1>1, <2>1, IntactNext
<1>8. StoreOK'
  BY <1>1, <1>6 DEF Live, StoreOK, Mutations
<1>9. CommitOK'
  <2>1. Synced'
    BY <1>1, <1>4, <1>5 DEF Synced
  <2>2. SuperblockOK(sb)'
    BY <1>5 DEF SuperblockOK, Superblock
  <2>3. /\ ObjectAt(store', Tab') = Table(leaf_table')
        /\ ObjectAt(store', sb'.config) = Config(n_vectors_disk') /\ n_vectors' = n_vectors_disk'
        /\ root_children' = NodeChildren(store', sb'.root)
    BY <1>1, <1>3, <1>5, <1>6
  <2>4. op'.kind \notin Mutations
    BY <1>6 DEF Mutations
  <2>5. QED
    BY <2>1, <2>2, <2>3, <2>4 DEF CommitOK
<1>10. RowsOK'
  <2>1. \A k \in DOMAIN leaf_table : LeafOf(store, k)'.rows = LeafOf(store, k).rows
    BY <1>1 DEF LeafOf
  <2>2. ~Inserting /\ ~Deleting /\ ~Inserting' /\ ~Deleting' /\ ~Splitting
    BY <1>1, <1>6 DEF Inserting, Deleting, Splitting
  <2>3. QED
    BY <1>1, <1>2, <2>1, <2>2, RowsFrame DEF Ready, Live
<1>11. QED
  BY <1>1, <1>6, <1>7, <1>8, <1>9, <1>10, StaysLive DEF Live

-----------------------------------------------------------------------------
(* Kills and opens *)

\* The process dies in the middle of a mutation.
LEMMA KillStep ==
  ASSUME IInv, fault = "none", Live, kill
  PROVE  IInv'
<1>1. op' = Down /\ fault' = "killed" /\ store' = store /\ manifest' = manifest
  BY DEF kill
<1>2. manifest' \in Indexes /\ Plain'
  BY <1>1 DEF IInv, Plain, HasPayload, Depth
<1>3. TablesTyped(store')
  BY <1>1 DEF Live, StoreOK, GoodFile
<1>4. Killed'
  BY <1>1, <1>3 DEF Killed, Down, Idle
<1>5. QED
  BY <1>1, <1>2, <1>4 DEF IInv

\* What open does to the store: the pages stay as they are.
LEMMA OpenStore ==
  ASSUME open
  PROVE  store'.file = store.file /\ (IsStore(store) => IsStore(store') /\ store'.bm = disk_bm
                                                         /\ store'.ok = TRUE)
<1>1. PICK x, y : x = disk_bm /\ y = disk_sb.n_pages
  OBVIOUS
<1>2. store' = [store EXCEPT !.bm = x, !.n = y, !.head = Nil, !.ok = TRUE]
  BY <1>1 DEF open
<1>3. store'.file = store.file
  BY <1>2
<1>4. ASSUME IsStore(store) PROVE IsStore(store') /\ store'.bm = disk_bm /\ store'.ok = TRUE
  <2>1. PICK f, b, n, h, k : f = store.file /\ b = store.bm /\ n = store.n /\ h = store.head
                             /\ k = store.ok
    OBVIOUS
  <2>2. store = [file |-> f, bm |-> b, n |-> n, head |-> h, ok |-> k]
    BY <1>4, <2>1 DEF IsStore
  <2>3. PICK d : d = TRUE
    OBVIOUS
  <2>4. store' = [store EXCEPT !.bm = x, !.n = y, !.head = Nil, !.ok = d]
    BY <1>2, <2>3
  <2>5. store' = [file |-> f, bm |-> x, n |-> y, head |-> Nil, ok |-> d]
    BY ONLY <2>2, <2>4
  <2>6. /\ store'.file = f /\ store'.bm = x /\ store'.n = y /\ store'.head = Nil /\ store'.ok = d
    BY <2>5
  <2>7. QED
    BY <1>1, <2>3, <2>5, <2>6 DEF IsStore
<1>5. QED
  BY <1>3, <1>4

\* An open between two mutations finds what the last one left.
LEMMA OpenLive ==
  ASSUME IInv, fault = "none", Live, open
  PROVE  IInv'
<1>1. op = Idle
  <2>1. op \in {Idle, Down, Corrupt}
    BY DEF open
  <2>2. op \notin {Down, Corrupt}
    BY DEF Live, OpOK, Idle, Down, Corrupt
  <2>3. QED
    BY <2>1, <2>2
<1>2. Synced /\ GoodFile(store) /\ Tab = sb.leaf_table /\ TableWritten /\ CountWritten /\ Ready
  BY <1>1, IsReady DEF Live, CommitOK, AtRest, StoreOK, Tab, Idle, Mutations, TableWritten,
                       CountWritten
<1>3. /\ SuperblockOK(sb) /\ ObjectAt(store, sb.config) = Config(n_vectors_disk)
      /\ ObjectAt(store, sb.leaf_table) = Table(leaf_table) /\ n_vectors = n_vectors_disk
      /\ Intact(store, leaf_table, sb.root, sb.config, sb.card, sb.leaf_table)
  BY <1>2 DEF Live, CommitOK
<1>4. disk_sb = sb /\ disk_bm = store.bm
  BY <1>2 DEF Synced
<1>5. /\ ObjectAt(store, disk_sb.leaf_table).kind = "table"
      /\ ObjectAt(store, disk_sb.config).kind = "config"
      /\ ObjectAt(store, disk_sb.leaf_table).entries = leaf_table
      /\ ObjectAt(store, disk_sb.config).n = n_vectors
  BY <1>3, <1>4 DEF Table, Config
<1>6. /\ op' = Idle /\ leaf_table' = leaf_table /\ n_vectors' = n_vectors
      /\ n_vectors_disk' = n_vectors /\ rows' = rows /\ sb' = sb
      /\ root_children' = NodeChildren(store, sb.root)
      /\ UNCHANGED <<manifest, disk_bm, disk_sb, fresh, fault>>
  BY <1>4, <1>5 DEF open
<1>7. store'.file = store.file /\ IsStore(store') /\ store'.bm = store.bm /\ store'.ok = TRUE
  BY <1>2, <1>4, OpenStore DEF GoodFile
<1>8. SamePages(store, store')
  BY <1>2, <1>7 DEF SamePages, GoodFile
<1>9. \A e : ObjectAt(store', e) = ObjectAt(store, e)
  BY <1>7 DEF ObjectAt
<1>10. \A e : NodeChildren(store', e) = NodeChildren(store, e)
  BY <1>9, SameObject
<1>11. op'.kind = "idle" /\ OpOK' /\ Tab' = sb.leaf_table
  BY <1>6 DEF Idle, OpOK, Tab, Mutations
<1>12. Intact(store, leaf_table, sb.root, sb.config, sb.card, Tab)'
  <2>1. Intact(store', leaf_table, sb.root, sb.config, sb.card, sb.leaf_table)
    BY <1>2, <1>3, <1>8, IntactFrame
  <2>2. Intact(store', leaf_table', sb'.root, sb'.config, sb'.card, Tab')
    BY <1>6, <1>11, <2>1
  <2>3. QED
    BY <1>6, <2>2, IntactNext
<1>13. StoreOK'
  <2>1. GoodFile(store')
    BY <1>2, <1>7 DEF GoodFile, TablesTyped
  <2>2. QED
    BY <1>2, <1>7, <1>11, <2>1 DEF StoreOK, Synced, Mutations
<1>14. CommitOK'
  <2>1. Synced'
    BY <1>2, <1>4, <1>6, <1>7, <1>10 DEF Synced
  <2>2. SuperblockOK(sb)'
    BY <1>3, <1>6 DEF SuperblockOK, Superblock
  <2>3. /\ ObjectAt(store', Tab') = Table(leaf_table')
        /\ ObjectAt(store', sb'.config) = Config(n_vectors_disk') /\ n_vectors' = n_vectors_disk'
        /\ root_children' = NodeChildren(store', sb'.root)
    BY <1>3, <1>6, <1>9, <1>10, <1>11
  <2>4. op'.kind \notin Mutations
    BY <1>11 DEF Mutations
  <2>5. QED
    BY <2>1, <2>2, <2>3, <2>4 DEF CommitOK
<1>15. RowsOK'
  <2>1. \A k \in DOMAIN leaf_table : LeafOf(store, k)'.rows = LeafOf(store, k).rows
    BY <1>6, <1>9 DEF LeafOf
  <2>2. ~Inserting /\ ~Deleting /\ ~Inserting' /\ ~Deleting' /\ ~Splitting
    BY <1>1, <1>11 DEF Inserting, Deleting, Splitting, Idle
  <2>3. QED
    BY <1>2, <1>6, <2>1, <2>2, RowsFrame DEF Ready, Live
<1>16. QED
  BY <1>6, <1>11, <1>12, <1>13, <1>14, <1>15, StaysLive DEF Live

\* An open after a kill, whether it succeeds or throws.
LEMMA OpenKilled ==
  ASSUME IInv, fault # "none", open
  PROVE  IInv'
<1>1. fault = "killed" /\ Killed /\ manifest' = manifest /\ fault' = fault /\ sb' = disk_sb
      /\ disk_sb' = disk_sb /\ root_children' = NodeChildren(store, disk_sb.root)
  BY DEF IInv, open
<1>2. manifest' \in Indexes /\ Plain'
  BY <1>1 DEF IInv, Plain, HasPayload, Depth
<1>3. store'.file = store.file
  BY OpenStore
<1>4. \A e : ObjectAt(store', e) = ObjectAt(store, e)
  BY <1>3 DEF ObjectAt
<1>5. \A e : NodeChildren(store', e) = NodeChildren(store, e)
  BY <1>4, SameObject
<1>6. TablesTyped(store')
  BY <1>1, <1>3 DEF Killed, TablesTyped
<1> DEFINE t == ObjectAt(store, disk_sb.leaf_table)
<1>7. \/ op' = Corrupt
      \/ op' = Idle /\ t.kind = "table" /\ leaf_table' = t.entries
  BY DEF open
<1>8. op' \in {Idle, Corrupt}
  BY <1>7
<1>9. ASSUME op' = Idle PROVE ObjectAt(store', sb'.leaf_table) = Table(leaf_table')
  <2>1. t.kind = "table" /\ leaf_table' = t.entries
    BY <1>7, <1>9 DEF Idle, Corrupt
  <2>2. t = Table(t.entries)
    <3>1. disk_sb.leaf_table[1] \in DOMAIN store.file
      BY <2>1 DEF ObjectAt, FreeLink
    <3>2. QED
      BY <1>1, <2>1, <3>1 DEF Killed, TablesTyped, ObjectAt
  <2>3. QED
    BY <1>1, <1>4, <2>1, <2>2
<1>10. Killed'
  <2>1. root_children' = NodeChildren(store', sb'.root) /\ sb' = disk_sb'
    BY <1>1, <1>5
  <2>2. QED
    BY <1>6, <1>8, <1>9, <2>1 DEF Killed
<1>11. QED
  BY <1>1, <1>2, <1>10 DEF IInv

-----------------------------------------------------------------------------
(* Every step *)

\* When no mutation is in progress and none may begin, the only step is an open.
LEMMA OnlyOpen ==
  ASSUME Next, op.kind \notin Mutations, op # Idle \/ fault = "killed"
  PROVE  open
<1>1. ~Start
  BY DEF Start
<1>2. /\ \A route : ~insert_batch(route)
      /\ \A ids, repeats : ~delete_batch(ids, repeats)
      /\ \A flag : ~vacuum(flag) /\ ~defrag(flag)
  BY <1>1 DEF insert_batch, delete_batch, vacuum, defrag, sweep_begin
<1>3. /\ \A l : ~insert_leaf(l) /\ ~delete_leaf(l)
      /\ \A g : ~split_leaf_(g)
      /\ ~splits_done /\ ~vacuum_leaf /\ ~vacuum_leaves_done /\ ~vacuum_cardinality
      /\ ~defrag_leaf /\ ~defrag_leaves_done /\ ~defrag_truncate /\ ~defrag_commit
  BY DEF insert_leaf, delete_leaf, split_leaf_, splits_done, vacuum_leaf, vacuum_leaves_done,
         vacuum_cardinality, defrag_leaf, defrag_leaves_done, defrag_truncate, defrag_commit,
         Mutations
<1>4. ~commit_blobs /\ ~flush_bitmap /\ ~commit_superblock /\ ~kill
  BY DEF commit_blobs, flush_bitmap, commit_superblock, kill
<1>5. QED
  BY <1>2, <1>3, <1>4 DEF Next

\* Every step of every mutation, kill and open keeps the invariant.
THEOREM IInvStep == IInv /\ [Next]_vars => IInv'
<1> SUFFICES ASSUME IInv, [Next]_vars PROVE IInv'
  OBVIOUS
<1>1. CASE UNCHANGED vars
  <2>1. IInv' = IInv
    BY <1>1 DEF vars, IInv, Plain, HasPayload, Depth, Live, Killed, OpOK, InsertOps, DeleteOps,
       SweepOps, StoreOK, CommitOK, Synced, AtRest, TableWritten, CountWritten, Tab, RowsOK,
       Held, Inserting, Deleting, Splitting, LeafOf, Oversized, LeafCap, Intact, Sound, TableOK,
       LeafOK, TreeOK, NamesOK, Nodes, Mids, Lows, CopiesKept, Holders, Given, BuiltCopies
  <2>2. QED
    BY <2>1
<1>2. CASE Next /\ fault = "none" /\ Live
  <2>1. ASSUME NEW batch \in SUBSET (manifest.rows \ rows) \ {{}},
               NEW route \in [batch -> Routable], insert_batch(route)
        PROVE  IInv'
    BY <1>2, <2>1, InsertBatch
  <2>2. ASSUME NEW l \in 1 .. Len(leaf_table), insert_leaf(l) PROVE IInv'
    BY <1>2, <2>2, InsertLeaf
  <2>3. ASSUME NEW group0 \in SUBSET manifest.rows, split_leaf_(group0) PROVE IInv'
    BY <1>2, <2>3, SplitLeaf
  <2>4. CASE splits_done
    BY <1>2, <2>4, SplitsDone
  <2>5. ASSUME NEW ids \in SUBSET manifest.rows,
               NEW repeats \in (IF DuplicateIds THEN SUBSET ids ELSE {{}}),
               delete_batch(ids, repeats)
        PROVE  IInv'
    BY <1>2, <2>5, DeleteBatch
  <2>6. ASSUME NEW l \in 1 .. Len(leaf_table), delete_leaf(l) PROVE IInv'
    BY <1>2, <2>6, DeleteLeaf
  <2>7. ASSUME NEW flag \in BOOLEAN, vacuum(flag) PROVE IInv'
    BY <1>2, <2>7, SweepBegin DEF vacuum
  <2>8. CASE vacuum_leaf
    BY <1>2, <2>8, VacuumLeaf
  <2>9. CASE vacuum_leaves_done
    BY <1>2, <2>9, VacuumLeavesDone
  <2>10. CASE vacuum_cardinality
    BY <1>2, <2>10, VacuumCardinality
  <2>11. ASSUME NEW flag \in manifest.shrink_file, defrag(flag) PROVE IInv'
    <3>1. flag \in BOOLEAN
      BY ConstantsAssumption DEF IInv, IsIndex
    <3>2. flag => Depth = 1
      BY <3>1 DEF IInv, Plain
    <3>3. QED
      BY <1>2, <2>11, <3>1, <3>2, SweepBegin DEF defrag
  <2>12. CASE defrag_leaf
    BY <1>2, <2>12, DefragLeaf
  <2>13. CASE defrag_leaves_done
    BY <1>2, <2>13, DefragLeavesDone
  <2>14. CASE defrag_truncate
    BY <1>2, <2>14, DefragTruncate
  <2>15. CASE defrag_commit
    BY <1>2, <2>15, DefragCommit
  <2>16. CASE commit_blobs
    BY <1>2, <2>16, CommitBlobs
  <2>17. CASE flush_bitmap
    BY <1>2, <2>17, FlushBitmap
  <2>18. CASE commit_superblock
    BY <1>2, <2>18, CommitSuperblock
  <2>19. CASE kill
    BY <1>2, <2>19, KillStep
  <2>20. CASE open
    BY <1>2, <2>20, OpenLive
  <2>21. QED
    BY <1>2, <2>1, <2>2, <2>3, <2>4, <2>5, <2>6, <2>7, <2>8, <2>9, <2>10, <2>11, <2>12, <2>13,
       <2>14, <2>15, <2>16, <2>17, <2>18, <2>19, <2>20 DEF Next
<1>3. CASE Next /\ fault # "none"
  <2>1. Killed /\ fault = "killed"
    BY <1>3 DEF IInv
  <2>2. op.kind \notin Mutations
    BY <2>1 DEF Killed, Idle, Down, Corrupt, Mutations
  <2>3. open
    BY <1>3, <2>1, <2>2, OnlyOpen
  <2>4. QED
    BY <1>3, <2>3, OpenKilled
<1>4. CASE Next /\ fault = "none" /\ op = Failed
  <2>1. op.kind \notin Mutations /\ op \notin {Idle, Down, Corrupt}
    BY <1>4 DEF Failed, Idle, Down, Corrupt, Mutations
  <2>2. open
    BY <1>4, <2>1, OnlyOpen
  <2>3. QED
    BY <2>1, <2>2 DEF open
<1>5. QED
  BY <1>1, <1>2, <1>3, <1>4 DEF IInv

-----------------------------------------------------------------------------
(* The file a build leaves *)

\* The children of the g-th last-level node of the build.
LowBuilt(g) == [i \in 1 .. manifest.first[g + 1] - manifest.first[g] |->
                  LeafChild(manifest.first[g] + i - 1)]

\* The layout, page by page: nl leaves from page 3 on, ng last-level nodes, the nodes
\* above them, the root, and three blobs.
Layout(nl, ng, root) ==
  /\ nl \in Nat /\ nl = Len(manifest.leaves) /\ ng \in Nat \ {0} /\ ng = Len(manifest.first) - 1
  /\ Depth = 1 => ng = 1
  /\ root = IF Depth = 1 THEN nl + 3 ELSE IF Depth = 2 THEN nl + ng + 3 ELSE nl + ng + 4
  /\ IsStore(store) /\ store.bm = 0 .. root + 3 /\ store.ok = TRUE
  /\ DOMAIN store.file = 0 .. root + 3
  /\ \A p \in DOMAIN store.file : store.file[p] = Cell(store.file[p].o, 0)
  /\ \A p \in Reserved : store.file[p].o = Zero
  /\ \A l \in 1 .. nl : store.file[l + 2].o = Leaf(manifest.leaves[l], FALSE, NoExtent)
  /\ \A g \in 1 .. ng : store.file[nl + 2 + g].o = Node(LowBuilt(g))
  /\ Depth > 1 => store.file[nl + ng + 3].o = Node([g \in 1 .. ng |-> NodeChild(<<nl + 2 + g, 1>>)])
  /\ Depth = 3 => store.file[root].o = Node(<<NodeChild(<<nl + ng + 3, 1>>)>>)
  /\ store.file[root + 1].o = Config(n_vectors)
  /\ store.file[root + 2].o = Card
  /\ store.file[root + 3].o = Table(leaf_table)
  /\ leaf_table = [l \in 1 .. nl |-> <<l + 2, 1>>]
  /\ sb = Superblock(<<root, 1>>, <<root + 3, 1>>, <<root + 1, 1>>, <<root + 2, 1>>, root + 4, Nil)
  /\ disk_sb = sb /\ disk_bm = store.bm
  /\ root_children = NodeChildren(store, sb.root)
  /\ rows = UNION {manifest.leaves[l] : l \in 1 .. nl} /\ fresh = {}
  /\ n_vectors = Cardinality(rows) /\ n_vectors_disk = n_vectors
  /\ op = Idle /\ fault = "none"

\* Init leaves that layout.
LEMMA InitLayout ==
  ASSUME Init, Plain
  PROVE  \E nl, ng, root : Layout(nl, ng, root)
<1> DEFINE nl == Len(manifest.leaves)
           ng == Len(manifest.first) - 1
           leafAt(l) == 3 + l - 1
           payAt(l)  == 3 + nl + l - 1
           lowAt(g)  == 3 + (IF HasPayload THEN 2 * nl ELSE nl) + g - 1
           l1At      == lowAt(ng) + 1
           rootPage  == IF Depth = 1 THEN lowAt(1) ELSE IF Depth = 2 THEN l1At ELSE l1At + 1
           lowNode(g) == Node([i \in 1 .. manifest.first[g + 1] - manifest.first[g] |->
                                 LeafChild(manifest.first[g] + i - 1)])
           l1Node     == Node([g \in 1 .. ng |-> NodeChild(<<lowAt(g), 1>>)])
           top        == Node(<<NodeChild(<<l1At, NodePages(l1Node.children)>>)>>)
           table      == [l \in 1 .. nl |-> <<leafAt(l), 1>>]
           all        == UNION {manifest.leaves[l] : l \in 1 .. nl}
           leaf(l)    == Leaf(manifest.leaves[l], FALSE,
                              IF HasPayload THEN <<payAt(l), 1>> ELSE NoExtent)
           np         == rootPage + 4
           leafPages  == {leafAt(l) : l \in 1 .. nl}
           lowPages   == {lowAt(g) : g \in 1 .. ng}
           payPages   == {payAt(l) : l \in 1 .. nl}
           object(p)  ==
             CASE p \in Reserved -> Zero
               [] p \in leafPages -> leaf(p - 2)
               [] HasPayload /\ p \in payPages -> Payload(manifest.leaves[p - 2 - nl])
               [] p \in lowPages -> lowNode(p - lowAt(1) + 1)
               [] Depth > 1 /\ p = l1At -> l1Node
               [] Depth = 3 /\ p = rootPage -> top
               [] p = rootPage + 1 -> Config(Cardinality(all))
               [] p = rootPage + 2 -> Card
               [] OTHER -> Table(table)
           super == Superblock(<<rootPage, 1>>, <<rootPage + 3, 1>>, <<rootPage + 1, 1>>,
                               <<rootPage + 2, 1>>, np, Nil)
<1>1. /\ manifest \in Indexes
      /\ store = [file |-> [p \in 0 .. np - 1 |-> Cell(object(p), 0)],
                  bm |-> 0 .. np - 1, n |-> np, head |-> Nil, ok |-> TRUE]
      /\ disk_bm = 0 .. np - 1
      /\ disk_sb = super /\ sb = super
      /\ leaf_table = table
      /\ root_children = NodeChildren(store, super.root)
      /\ n_vectors = Cardinality(all) /\ n_vectors_disk = Cardinality(all)
      /\ op = Idle /\ rows = all /\ fresh = {} /\ fault = "none"
  BY ZenonT(60) DEF Init
<1>2. IsIndex(manifest) /\ ~HasPayload
  BY <1>1, ConstantsAssumption DEF Plain
<1>3. /\ nl \in Nat /\ ng \in Nat \ {0} /\ (Depth = 1 => ng = 1) /\ Depth \in 1 .. 3
      /\ ng \in 0 .. ChildrenPerPage
  <2>1. manifest.leaves \in Seq(SUBSET manifest.rows) /\ manifest.first \in Seq(Nat)
        /\ Len(manifest.first) - 1 \in 1 .. ChildrenPerPage
        /\ manifest.depth \in 1 .. 3 /\ (manifest.depth = 1 => Len(manifest.first) = 2)
    BY <1>2 DEF IsIndex
  <2>2. nl \in Nat /\ Len(manifest.first) \in Nat
    BY <2>1, LenProperties
  <2>3. PICK x \in Nat : x = Len(manifest.first)
    BY <2>2
  <2>4. PICK c \in Nat : c = ChildrenPerPage
    BY ConstantsAssumption
  <2>5. x - 1 \in Nat \ {0} /\ (Depth = 1 => x - 1 = 1) /\ x - 1 \in 0 .. ChildrenPerPage
    <3>1. x - 1 \in 1 .. c /\ (Depth = 1 => x = 2)
      BY <2>1, <2>3, <2>4 DEF Depth
    <3>2. x - 1 \in Nat \ {0} /\ (Depth = 1 => x - 1 = 1) /\ x - 1 \in 0 .. c
      BY <3>1
    <3>3. QED
      BY <2>4, <3>2
  <2>6. QED
    BY <2>1, <2>2, <2>3, <2>5 DEF Depth
<1>4. PICK n \in Nat, m \in Nat \ {0} : n = nl /\ m = ng
  BY <1>3
<1> HIDE DEF nl, ng
<1>5. /\ lowAt(1) = n + 3 /\ l1At = n + m + 3
      /\ \A g \in 1 .. m : lowAt(g) = n + 2 + g
      /\ \A l \in 1 .. n : leafAt(l) = l + 2
  BY <1>2, <1>4
<1> HIDE DEF lowAt, l1At, leafAt
<1>6. PICK r \in Nat : r = rootPage
  <2>1. lowAt(1) \in Nat /\ l1At \in Nat /\ l1At + 1 \in Nat
    BY <1>5
  <2>2. rootPage \in Nat
    BY <2>1
  <2>3. QED
    BY <2>2
<1>7. /\ r = IF Depth = 1 THEN n + 3 ELSE IF Depth = 2 THEN n + m + 3 ELSE n + m + 4
      /\ r >= n + m + 2 /\ np - 1 = r + 3
  BY <1>3, <1>4, <1>5, <1>6
<1> HIDE DEF rootPage
<1>8. table = [l \in 1 .. n |-> <<l + 2, 1>>]
  BY <1>4, <1>5
<1>9. leafPages = 3 .. n + 2 /\ lowPages = n + 3 .. n + m + 2
  <2>1. leafPages = {l + 2 : l \in 1 .. n} /\ lowPages = {n + 2 + g : g \in 1 .. m}
    BY <1>4, <1>5
  <2>2. {l + 2 : l \in 1 .. n} = 3 .. n + 2
    <3>1. \A p \in 3 .. n + 2 : p - 2 \in 1 .. n /\ p = (p - 2) + 2
      OBVIOUS
    <3>2. \A p \in 3 .. n + 2 : \E l \in 1 .. n : p = l + 2
      BY <3>1
    <3>3. QED
      BY <3>2
  <2>3. {n + 2 + g : g \in 1 .. m} = n + 3 .. n + m + 2
    <3>1. \A p \in n + 3 .. n + m + 2 : p - n - 2 \in 1 .. m /\ p = n + 2 + (p - n - 2)
      OBVIOUS
    <3>2. \A p \in n + 3 .. n + m + 2 : \E g \in 1 .. m : p = n + 2 + g
      BY <3>1
    <3>3. \A g \in 1 .. m : n + 2 + g \in n + 3 .. n + m + 2
      OBVIOUS
    <3>4. QED
      BY <3>2, <3>3
  <2>4. QED
    BY <2>1, <2>2, <2>3
<1> HIDE DEF leafPages, lowPages, payPages, leaf, lowNode, l1Node, top, table, all
<1>10. ASSUME NEW p \in Nat
       PROVE  /\ p \in Reserved => object(p) = Zero
              /\ p \in 3 .. n + 2 => object(p) = leaf(p - 2)
              /\ p \in n + 3 .. n + m + 2 => object(p) = lowNode(p - lowAt(1) + 1)
              /\ Depth > 1 /\ p = n + m + 3 => object(p) = l1Node
              /\ Depth = 3 /\ p = r => object(p) = top
              /\ p = r + 1 => object(p) = Config(Cardinality(all))
              /\ p = r + 2 => object(p) = Card
              /\ p = r + 3 => object(p) = Table(table)
  <2>1. p \in Reserved <=> p < 3
    BY DEF Reserved
  <2>2. /\ p \in leafPages <=> p \in 3 .. n + 2
        /\ p \in lowPages <=> p \in n + 3 .. n + m + 2
        /\ p = l1At <=> p = n + m + 3
        /\ p = rootPage <=> p = r
        /\ p = rootPage + 1 <=> p = r + 1
        /\ p = rootPage + 2 <=> p = r + 2
    BY <1>5, <1>6, <1>9
  <2> HIDE DEF nl, ng
  <2>3. QED
    BY <1>2, <1>7, <2>1, <2>2
<1>11. ASSUME NEW l \in 1 .. n PROVE object(l + 2) = Leaf(manifest.leaves[l], FALSE, NoExtent)
  <2>1. l + 2 \in Nat /\ l + 2 \in 3 .. n + 2 /\ (l + 2) - 2 = l
    OBVIOUS
  <2>2. object(l + 2) = leaf(l)
    BY <1>10, <2>1
  <2>3. QED
    BY <1>2, <2>2 DEF leaf
<1>12. ASSUME NEW g \in 1 .. m PROVE object(n + 2 + g) = Node(LowBuilt(g))
  <2>1. n + 2 + g \in Nat /\ n + 2 + g \in n + 3 .. n + m + 2 /\ n + 2 + g - lowAt(1) + 1 = g
    BY <1>5
  <2>2. PICK p \in Nat : p = n + 2 + g
    BY <2>1
  <2>3. p \in n + 3 .. n + m + 2 /\ p - lowAt(1) + 1 = g
    BY <1>5, <2>2
  <2>4. object(p) = lowNode(p - lowAt(1) + 1)
    BY <1>10, <2>3
  <2>5. object(p) = lowNode(g)
    BY <2>3, <2>4
  <2>6. QED
    BY <2>2, <2>5 DEF LowBuilt, lowNode
<1>13. /\ l1Node = Node([g \in 1 .. m |-> NodeChild(<<n + 2 + g, 1>>)])
       /\ top = Node(<<NodeChild(<<n + m + 3, 1>>)>>)
  <2>1. l1Node = Node([g \in 1 .. m |-> NodeChild(<<n + 2 + g, 1>>)])
    BY <1>4, <1>5 DEF l1Node
  <2>2. Len(l1Node.children) = m
    BY <2>1 DEF Node
  <2>3. NodePages(l1Node.children) = 1
    BY <1>3, <1>4, <2>2, CeilDivOne, ConstantsAssumption DEF NodePages
  <2>4. QED
    BY <1>5, <2>1, <2>3 DEF top
<1>14. super = Superblock(<<r, 1>>, <<r + 3, 1>>, <<r + 1, 1>>, <<r + 2, 1>>, r + 4, Nil)
  BY <1>6
<1> HIDE DEF object, super
<1>15. /\ store.file = [p \in 0 .. r + 3 |-> Cell(object(p), 0)] /\ store.bm = 0 .. r + 3
       /\ store.ok = TRUE /\ IsStore(store)
  BY <1>1, <1>7 DEF IsStore
<1>16. \A p \in 0 .. r + 3 : store.file[p] = Cell(object(p), 0) /\ store.file[p].o = object(p)
  BY <1>15 DEF Cell
<1>17. /\ Reserved \subseteq 0 .. r + 3
       /\ \A l \in 1 .. n : l + 2 \in 0 .. r + 3
       /\ \A g \in 1 .. m : n + 2 + g \in 0 .. r + 3
       /\ Depth > 1 => n + m + 3 \in 0 .. r + 3
       /\ {r, r + 1, r + 2, r + 3} \subseteq 0 .. r + 3
  BY <1>3, <1>7, SMTT(30) DEF Reserved
<1>18. Layout(n, m, r)
  <2>1. /\ \A p \in DOMAIN store.file : store.file[p] = Cell(store.file[p].o, 0)
        /\ \A l \in 1 .. n : store.file[l + 2].o = Leaf(manifest.leaves[l], FALSE, NoExtent)
        /\ \A g \in 1 .. m : store.file[n + 2 + g].o = Node(LowBuilt(g))
    BY <1>11, <1>12, <1>15, <1>16, <1>17
  <2>2. \A p \in Reserved : store.file[p].o = Zero
    BY <1>10, <1>16, <1>17
  <2>3. Depth > 1 => store.file[n + m + 3].o = Node([g \in 1 .. m |-> NodeChild(<<n + 2 + g, 1>>)])
    BY <1>10, <1>13, <1>16, <1>17
  <2>4. Depth = 3 => store.file[r].o = Node(<<NodeChild(<<n + m + 3, 1>>)>>)
    BY <1>10, <1>13, <1>16, <1>17
  <2>5. /\ store.file[r + 1].o = Config(n_vectors)
        /\ store.file[r + 2].o = Card
        /\ store.file[r + 3].o = Table(leaf_table)
    <3>1. r + 1 \in Nat /\ r + 2 \in Nat /\ r + 3 \in Nat
      OBVIOUS
    <3>2. object(r + 1) = Config(Cardinality(all)) /\ object(r + 2) = Card
          /\ object(r + 3) = Table(table)
      BY <1>10, <3>1
    <3>3. QED
      BY <1>1, <1>16, <1>17, <3>2
  <2>6. /\ disk_sb = super /\ sb = super /\ root_children = NodeChildren(store, sb.root)
        /\ disk_bm = store.bm /\ DOMAIN store.file = 0 .. r + 3
    BY <1>1, <1>7, <1>15
  <2>7. leaf_table = [l \in 1 .. n |-> <<l + 2, 1>>]
        /\ rows = UNION {manifest.leaves[l] : l \in 1 .. n}
        /\ n_vectors = Cardinality(rows) /\ n_vectors_disk = n_vectors
        /\ n = Len(manifest.leaves) /\ m = Len(manifest.first) - 1 /\ (Depth = 1 => m = 1)
    BY <1>1, <1>3, <1>4, <1>8 DEF all, nl, ng
  <2>8. QED
    BY <1>1, <1>7, <1>14, <1>15, <2>1, <2>2, <2>3, <2>4, <2>5, <2>6, <2>7 DEF Layout
<1>19. QED
  BY <1>18

\* The first leaf ids of the last-level nodes: ascending, from 1 to one past the last
\* leaf id, with no more than a page's children between two.
LEMMA FirstFacts ==
  ASSUME manifest \in Indexes, NEW nl, NEW ng, NEW root, Layout(nl, ng, root)
  PROVE  /\ \A g \in 1 .. ng + 1 : manifest.first[g] \in Nat /\ manifest.first[g] <= nl + 1
         /\ \A g \in 1 .. ng : manifest.first[g] \in Nat /\ manifest.first[g + 1] \in Nat
         /\ manifest.first[1] = 1 /\ manifest.first[ng + 1] = nl + 1
         /\ \A g, h \in 1 .. ng + 1 : g < h => manifest.first[g] < manifest.first[h]
         /\ \A g \in 1 .. ng : /\ manifest.first[g + 1] - manifest.first[g] \in Nat \ {0}
                               /\ manifest.first[g + 1] - manifest.first[g] <= ChildrenPerPage
<1>1. PICK f : f = manifest.first
  OBVIOUS
<1>2. /\ f \in Seq(Nat) /\ f[1] = 1 /\ f[Len(f)] = nl + 1
      /\ \A g, h \in DOMAIN f : g < h => f[g] < f[h]
      /\ \A g \in 1 .. Len(f) - 1 : f[g + 1] - f[g] <= ChildrenPerPage
      /\ ng = Len(f) - 1 /\ ng \in Nat \ {0} /\ nl \in Nat
  BY <1>1, ConstantsAssumption DEF IsIndex, Layout
<1>3. Len(f) = ng + 1 /\ DOMAIN f = 1 .. ng + 1
  BY <1>2, LenProperties
<1>4. \A g \in 1 .. ng + 1 : f[g] \in Nat
  BY <1>2, <1>3
<1>5. ng + 1 \in 1 .. ng + 1 /\ f[ng + 1] = nl + 1
      /\ \A g \in 1 .. ng : g \in 1 .. ng + 1 /\ g + 1 \in 1 .. ng + 1 /\ g < g + 1
  BY <1>2, <1>3
<1>6. \A g \in 1 .. ng + 1 : f[g] <= nl + 1
  <2>1. ASSUME NEW g \in 1 .. ng + 1 PROVE f[g] <= nl + 1
    <3>1. CASE g = ng + 1
      BY <1>2, <1>5, <3>1
    <3>2. CASE g < ng + 1
      <4>1. f[g] < f[ng + 1]
        BY <1>2, <1>3, <1>5, <3>2
      <4>2. QED
        BY <1>2, <1>4, <1>5, <4>1
    <3>3. QED
      BY <1>2, <3>1, <3>2
  <2>2. QED
    BY <2>1
<1>7. \A g \in 1 .. ng : f[g] < f[g + 1]
  BY <1>2, <1>3, <1>5
<1>8. \A g \in 1 .. ng : f[g + 1] - f[g] \in Nat \ {0} /\ f[g + 1] - f[g] <= ChildrenPerPage
  <2>1. ASSUME NEW g \in 1 .. ng PROVE f[g + 1] - f[g] \in Nat \ {0}
    <3>1. f[g] \in Nat /\ f[g + 1] \in Nat /\ f[g] < f[g + 1]
      BY <1>4, <1>5, <1>7
    <3>2. QED
      BY <3>1
  <2>2. QED
    BY <1>2, <2>1
<1>9. QED
  BY <1>1, <1>2, <1>3, <1>4, <1>5, <1>6, <1>8

\* The levels of the tree the build leaves.
BuiltTree(nl, ng, root) ==
  /\ sb.root = <<root, 1>>
  /\ Lows(store, sb.root) = {<<nl + 2 + g, 1>> : g \in 1 .. ng}
  /\ Mids(store, sb.root) = IF Depth = 1 THEN {} ELSE {<<nl + ng + 3, 1>>}
  /\ Depth = 2 => sb.root = <<nl + ng + 3, 1>>
  /\ \A g \in 1 .. ng : /\ Children(store, <<nl + 2 + g, 1>>) = LowBuilt(g)
                        /\ IsLow(store, <<nl + 2 + g, 1>>)
  /\ Depth # 1 => /\ IsUpper(store, <<nl + ng + 3, 1>>)
                  /\ Children(store, <<nl + ng + 3, 1>>)
                       = [g \in 1 .. ng |-> NodeChild(<<nl + 2 + g, 1>>)]
  /\ Depth = 3 => IsUpper(store, sb.root) /\ sb.root = <<nl + ng + 4, 1>>

\* The pages of the built file form the tree that the manifest describes.
LEMMA LayoutTree ==
  ASSUME manifest \in Indexes, NEW nl, NEW ng, NEW root, Layout(nl, ng, root)
  PROVE  BuiltTree(nl, ng, root)
<1>1. /\ nl \in Nat /\ ng \in Nat \ {0} /\ (Depth = 1 => ng = 1) /\ Depth \in 1 .. 3
      /\ root = IF Depth = 1 THEN nl + 3 ELSE IF Depth = 2 THEN nl + ng + 3 ELSE nl + ng + 4
      /\ DOMAIN store.file = 0 .. root + 3
  BY ConstantsAssumption DEF Layout, IsIndex, Depth
<1>2. sb.root = <<root, 1>>
  BY DEF Layout, Superblock
<1>3. \A p \in 0 .. root + 3 : ObjectAt(store, <<p, 1>>) = store.file[p].o
  BY <1>1 DEF ObjectAt
<1>4. ASSUME NEW g \in 1 .. ng
      PROVE  Children(store, <<nl + 2 + g, 1>>) = LowBuilt(g) /\ IsLow(store, <<nl + 2 + g, 1>>)
  <2>1. PICK e : e = <<nl + 2 + g, 1>>
    OBVIOUS
  <2>2. nl + 2 + g \in 0 .. root + 3
    BY <1>1
  <2>3. ObjectAt(store, e) = Node(LowBuilt(g))
    BY <1>3, <2>1, <2>2 DEF Layout
  <2>4. PICK k \in Nat \ {0} : k = manifest.first[g + 1] - manifest.first[g]
                               /\ k <= ChildrenPerPage
    BY FirstFacts
  <2>5. PICK a \in Nat : a = manifest.first[g] /\ a >= 1
    <3>1. 1 \in 1 .. ng + 1 /\ g \in 1 .. ng + 1 /\ (1 < g \/ g = 1)
      BY <1>1
    <3>2. manifest.first[g] \in Nat /\ manifest.first[1] = 1
          /\ (1 < g => manifest.first[1] < manifest.first[g])
      BY <3>1, FirstFacts
    <3>3. QED
      BY <3>1, <3>2
  <2>6. LowBuilt(g) = [i \in 1 .. k |-> LeafChild(a + i - 1)]
    BY <2>4, <2>5 DEF LowBuilt
  <2>7. \A i \in 1 .. k : LeafChild(a + i - 1) \in LeafEntries
    BY <2>5 DEF LeafChild, LeafEntries
  <2>8. LowBuilt(g) \in Seq(LeafEntries) /\ Len(LowBuilt(g)) = k
    BY <2>6, <2>7
  <2>9. LowBuilt(g) # <<>>
    BY <2>8, EmptySeq
  <2>10. NodePages(LowBuilt(g)) = 1
    BY <2>4, <2>8, CeilDivOne, ConstantsAssumption DEF NodePages
  <2>11. QED
    BY <2>1, <2>3, <2>8, <2>9, <2>10, NewLow
<1> DEFINE mid == <<nl + ng + 3, 1>>
           kids == [g \in 1 .. ng |-> NodeChild(<<nl + 2 + g, 1>>)]
<1>5. ASSUME Depth # 1
      PROVE  /\ IsUpper(store, mid) /\ Children(store, mid) = kids
             /\ NodeChildren(store, mid) = {<<nl + 2 + g, 1>> : g \in 1 .. ng}
  <2>1. nl + ng + 3 \in 0 .. root + 3 /\ Depth > 1
    BY <1>1, <1>5
  <2>2. ObjectAt(store, mid) = Node(kids)
    BY <1>3, <2>1 DEF Layout
  <2>3. \A g \in 1 .. ng : NodeChild(<<nl + 2 + g, 1>>) \in NodeEntries
    BY <1>1 DEF NodeChild, NodeEntries
  <2>4. kids \in Seq(NodeEntries) /\ Len(kids) = ng
    <3>1. PICK F : F = kids
      OBVIOUS
    <3>2. DOMAIN F = 1 .. ng /\ (\A g \in 1 .. ng : F[g] \in NodeEntries) /\ F = [g \in 1 .. ng |-> F[g]]
      BY <2>3, <3>1
    <3>3. F \in Seq(NodeEntries) /\ Len(F) = ng
      BY <1>1, <3>2
    <3>4. QED
      BY <3>1, <3>3
  <2>5. kids # <<>>
    BY <1>1, <2>4, EmptySeq
  <2> HIDE DEF mid, kids
  <2>6. IsUpper(store, mid) /\ Children(store, mid) = kids
    BY <2>2, <2>4, <2>5, NewUpper
  <2>7. NodeChildren(store, mid) = {ChildAt(store, mid, i) : i \in DOMAIN Children(store, mid)}
    BY <2>6, UpperChildren
  <2>8. \A g \in 1 .. ng : ChildAt(store, mid, g) = <<nl + 2 + g, 1>>
    BY <2>6 DEF ChildAt, kids, NodeChild
  <2>9. DOMAIN Children(store, mid) = 1 .. ng
    BY <2>6 DEF kids
  <2>10. QED
    BY <2>6, <2>7, <2>8, <2>9
<1>6. ASSUME Depth = 3
      PROVE  /\ IsUpper(store, sb.root) /\ sb.root = <<nl + ng + 4, 1>>
             /\ NodeChildren(store, sb.root) = {mid}
  <2>1. root = nl + ng + 4 /\ root \in 0 .. root + 3
    BY <1>1, <1>6
  <2>2. PICK c : c = <<NodeChild(mid)>>
    OBVIOUS
  <2>3. ObjectAt(store, sb.root) = Node(c)
    BY <1>2, <1>3, <1>6, <2>1, <2>2 DEF Layout
  <2>4. NodeChild(mid) \in NodeEntries
    BY <1>1 DEF NodeChild, NodeEntries
  <2>5. c \in Seq(NodeEntries) /\ Len(c) = 1 /\ DOMAIN c = {1} /\ c[1] = NodeChild(mid)
    BY <2>2, <2>4
  <2>6. c # <<>>
    BY <2>5, EmptySeq, SMTT(30)
  <2>7. IsUpper(store, sb.root) /\ Children(store, sb.root) = c
    BY <2>3, <2>5, <2>6, NewUpper
  <2>8. NodeChildren(store, sb.root)
          = {ChildAt(store, sb.root, i) : i \in DOMAIN Children(store, sb.root)}
    BY <2>7, UpperChildren
  <2>9. ChildAt(store, sb.root, 1) = mid
    BY <2>5, <2>7 DEF ChildAt, NodeChild
  <2>10. QED
    BY <1>2, <2>1, <2>5, <2>7, <2>8, <2>9
<1> HIDE DEF mid
<1>7. Depth = 2 => sb.root = mid
  BY <1>1, <1>2 DEF mid
<1>8. Mids(store, sb.root) = IF Depth = 1 THEN {} ELSE {mid}
  <2>1. CASE Depth = 1
    BY <2>1 DEF Mids
  <2>2. CASE Depth = 2
    BY <1>7, <2>2 DEF Mids
  <2>3. CASE Depth = 3
    BY <1>6, <2>3 DEF Mids, mid
  <2>4. QED
    BY <1>1, <2>1, <2>2, <2>3
<1>9. Lows(store, sb.root) = {<<nl + 2 + g, 1>> : g \in 1 .. ng}
  <2>1. CASE Depth = 1
    <3>1. ng = 1 /\ root = nl + 2 + 1 /\ 1 .. ng = {1}
      BY <1>1, <2>1
    <3>2. {<<nl + 2 + g, 1>> : g \in {1}} = {<<nl + 2 + 1, 1>>}
      OBVIOUS
    <3>3. QED
      BY <1>2, <2>1, <3>1, <3>2 DEF Lows
  <2>2. CASE Depth # 1
    BY <1>5, <1>8, <2>2 DEF Lows
  <2>3. QED
    BY <2>1, <2>2
<1>10. QED
  BY <1>2, <1>4, <1>5, <1>6, <1>7, <1>8, <1>9 DEF BuiltTree, mid, kids

\* Every leaf id has one place in the tree the build leaves.
LEMMA LayoutNames ==
  ASSUME manifest \in Indexes, NEW nl, NEW ng, NEW root, Layout(nl, ng, root)
  PROVE  NamesOK(store, sb.root, nl)
<1>1. PICK f : f = manifest.first
  OBVIOUS
<1>2. nl \in Nat /\ ng \in Nat \ {0}
  BY DEF Layout
<1>3. /\ \A g \in 1 .. ng + 1 : f[g] \in Nat /\ f[g] <= nl + 1
      /\ \A g \in 1 .. ng : f[g] \in Nat /\ f[g + 1] \in Nat
      /\ f[1] = 1 /\ f[ng + 1] = nl + 1
      /\ \A g, h \in 1 .. ng + 1 : g < h => f[g] < f[h]
  BY <1>1, FirstFacts
<1> DEFINE low(g) == <<nl + 2 + g, 1>>
<1>4. /\ Lows(store, sb.root) = {low(g) : g \in 1 .. ng}
      /\ \A g \in 1 .. ng : Children(store, low(g)) = LowBuilt(g)
  <2>1. BuiltTree(nl, ng, root)
    BY LayoutTree
  <2>2. QED
    BY <2>1 DEF BuiltTree
<1>5. ASSUME NEW g \in 1 .. ng
      PROVE  /\ DOMAIN Children(store, low(g)) = 1 .. f[g + 1] - f[g]
             /\ \A i \in 1 .. f[g + 1] - f[g] : Children(store, low(g))[i].page = f[g] + i - 1
  <2>1. PICK c, k, a : c = Children(store, low(g)) /\ k = f[g + 1] - f[g] /\ a = f[g]
    OBVIOUS
  <2>2. c = [i \in 1 .. k |-> LeafChild(a + i - 1)]
    BY <1>1, <1>4, <2>1 DEF LowBuilt
  <2>3. DOMAIN c = 1 .. k /\ \A i \in 1 .. k : c[i].page = a + i - 1
    BY <2>2 DEF LeafChild
  <2>4. QED
    BY <2>1, <2>3
<1>6. ASSUME NEW g \in 1 .. ng, NEW h \in 1 .. ng, low(g) = low(h) PROVE g = h
  BY <1>2, <1>6
<1> HIDE DEF low
<1>7. ASSUME NEW g \in 1 .. ng PROVE f[g] >= 1 /\ f[g + 1] <= nl + 1
  <2>1. 1 \in 1 .. ng + 1 /\ g \in 1 .. ng + 1 /\ g + 1 \in 1 .. ng + 1 /\ (1 < g \/ g = 1)
    BY <1>2
  <2>2. 1 < g => f[1] < f[g]
    BY <1>3, <2>1
  <2>3. QED
    BY <1>3, <2>1, <2>2
<1>8. ASSUME NEW g \in 1 .. ng, NEW i \in DOMAIN Children(store, low(g))
      PROVE  /\ i \in Nat /\ Children(store, low(g))[i].page = f[g] + i - 1
             /\ Children(store, low(g))[i].page \in f[g] .. f[g + 1] - 1
             /\ Children(store, low(g))[i].page \in 1 .. nl
  <2>1. PICK a \in Nat, b \in Nat : a = f[g] /\ b = f[g + 1]
    BY <1>3
  <2>2. i \in 1 .. b - a /\ Children(store, low(g))[i].page = a + i - 1
    BY <1>5, <2>1
  <2>3. a >= 1 /\ b <= nl + 1
    BY <1>7, <2>1
  <2>4. a + i - 1 \in a .. b - 1 /\ a + i - 1 \in 1 .. nl
    BY <1>2, <2>2, <2>3
  <2>5. QED
    BY <2>1, <2>2, <2>4
<1>9. ASSUME NEW l \in 1 .. nl
      PROVE  \E e \in Lows(store, sb.root) :
               \E i \in DOMAIN Children(store, e) : Children(store, e)[i].page = l
  <2> DEFINE S == {g \in 1 .. ng + 1 : f[g] <= l}
  <2>1. 1 \in S /\ ng + 1 \notin S
    BY <1>2, <1>3
  <2>2. S \subseteq Nat /\ S # {} /\ ng + 1 \in Nat /\ \A g \in S : g <= ng + 1
    BY <1>2, <2>1
  <2>3. PICK g : g = Highest(S)
    OBVIOUS
  <2> HIDE DEF S
  <2>4. g \in S /\ \A h \in S : h <= g
    BY <1>2, <2>2, <2>3, HighestFacts
  <2>5. g \in 1 .. ng /\ g + 1 \in 1 .. ng + 1
    BY <1>2, <2>1, <2>4 DEF S
  <2>6. g + 1 \notin S
    BY <2>4, <2>5
  <2>7. f[g] \in Nat /\ f[g + 1] \in Nat /\ f[g] <= l /\ l < f[g + 1]
    BY <1>3, <2>4, <2>5, <2>6 DEF S
  <2>8. PICK i : i = l - f[g] + 1
    OBVIOUS
  <2>9. i \in 1 .. f[g + 1] - f[g] /\ f[g] + i - 1 = l
    BY <2>7, <2>8
  <2>10. i \in DOMAIN Children(store, low(g)) /\ Children(store, low(g))[i].page = l
    BY <1>5, <2>5, <2>9
  <2>11. low(g) \in Lows(store, sb.root)
    BY <1>4, <2>5
  <2>12. QED
    BY <2>10, <2>11
<1>10. ASSUME NEW g \in 1 .. ng, NEW h \in 1 .. ng, g < h PROVE f[g + 1] <= f[h]
  <2>1. g + 1 \in 1 .. ng + 1 /\ h \in 1 .. ng + 1 /\ (g + 1 < h \/ g + 1 = h)
    BY <1>2, <1>10
  <2>2. f[g + 1] \in Nat /\ f[h] \in Nat /\ (g + 1 < h => f[g + 1] < f[h])
    BY <1>3, <2>1
  <2>3. QED
    BY <2>1, <2>2
<1>11. ASSUME NEW g \in 1 .. ng, NEW h \in 1 .. ng,
              NEW i \in DOMAIN Children(store, low(g)), NEW j \in DOMAIN Children(store, low(h)),
              Children(store, low(g))[i].page = Children(store, low(h))[j].page
       PROVE  g = h /\ i = j
  <2>1. PICK x : x = Children(store, low(g))[i].page
    OBVIOUS
  <2>2. /\ x \in f[g] .. f[g + 1] - 1 /\ x \in f[h] .. f[h + 1] - 1
        /\ x = f[g] + i - 1 /\ x = f[h] + j - 1 /\ i \in Nat /\ j \in Nat
    BY <1>8, <1>11, <2>1
  <2>3. f[g] \in Nat /\ f[g + 1] \in Nat /\ f[h] \in Nat /\ f[h + 1] \in Nat
    BY <1>3
  <2>4. ~(g < h)
    <3>1. SUFFICES ASSUME g < h PROVE FALSE
      OBVIOUS
    <3>2. f[g + 1] <= f[h]
      BY <1>10, <3>1
    <3>3. QED
      BY <2>2, <2>3, <3>2
  <2>5. ~(h < g)
    <3>1. SUFFICES ASSUME h < g PROVE FALSE
      OBVIOUS
    <3>2. f[h + 1] <= f[g]
      BY <1>10, <3>1
    <3>3. QED
      BY <2>2, <2>3, <3>2
  <2>6. g = h
    BY <1>2, <2>4, <2>5
  <2>7. QED
    BY <2>2, <2>3, <2>6
<1>12. \A e \in Lows(store, sb.root) : \A i \in DOMAIN Children(store, e) :
         Children(store, e)[i].page \in 1 .. nl
  BY <1>4, <1>8
<1>13. \A d, e \in Lows(store, sb.root) :
         \A i \in DOMAIN Children(store, d), j \in DOMAIN Children(store, e) :
           Children(store, d)[i].page = Children(store, e)[j].page => d = e /\ i = j
  BY <1>4, <1>11
<1>14. QED
  BY <1>9, <1>12, <1>13 DEF NamesOK

\* The tree the build leaves is in order.
LEMMA LayoutTreeOK ==
  ASSUME manifest \in Indexes, NEW nl, NEW ng, NEW root, Layout(nl, ng, root)
  PROVE  TreeOK(store, sb.root)
<1>1. BuiltTree(nl, ng, root) /\ nl \in Nat /\ ng \in Nat \ {0}
  <2>1. BuiltTree(nl, ng, root)
    BY LayoutTree
  <2>2. QED
    BY <2>1 DEF Layout
<1>2. PICK mid : mid = <<nl + ng + 3, 1>>
  OBVIOUS
<1>3. \A m \in Mids(store, sb.root) : IsUpper(store, m) /\ m = mid /\ Depth # 1
  BY <1>1, <1>2 DEF BuiltTree
<1>4. Depth = 3 => IsUpper(store, sb.root) /\ sb.root \notin Mids(store, sb.root)
  <2>1. <<nl + ng + 4, 1>> # mid
    BY <1>1, <1>2
  <2>2. QED
    BY <1>1, <1>2, <1>3, <2>1 DEF BuiltTree
<1>5. \A e \in Lows(store, sb.root) : IsLow(store, e)
  BY <1>1 DEF BuiltTree
<1>6. ASSUME NEW m \in Mids(store, sb.root), NEW q \in Mids(store, sb.root),
             NEW i \in DOMAIN Children(store, m), NEW j \in DOMAIN Children(store, q),
             ChildAt(store, m, i) = ChildAt(store, q, j)
      PROVE  m = q /\ i = j
  <2>1. m = mid /\ q = mid
    BY <1>3
  <2>2. Children(store, mid) = [g \in 1 .. ng |-> NodeChild(<<nl + 2 + g, 1>>)]
    BY <1>1, <1>2, <1>3 DEF BuiltTree
  <2>3. i \in 1 .. ng /\ j \in 1 .. ng
    BY <2>1, <2>2
  <2>4. ChildAt(store, mid, i) = <<nl + 2 + i, 1>> /\ ChildAt(store, mid, j) = <<nl + 2 + j, 1>>
    BY <2>2, <2>3 DEF ChildAt, NodeChild
  <2>5. <<nl + 2 + i, 1>> = <<nl + 2 + j, 1>>
    BY <1>6, <2>1, <2>4
  <2>6. nl + 2 + i = nl + 2 + j
    BY <2>5
  <2>7. QED
    BY <1>1, <2>1, <2>3, <2>6
<1>7. QED
  BY <1>3, <1>4, <1>5, <1>6, SMTT(30) DEF TreeOK

\* The sizes of the layout.
LEMMA LayoutSizes ==
  ASSUME manifest \in Indexes, NEW nl, NEW ng, NEW root, Layout(nl, ng, root)
  PROVE  /\ nl \in Nat /\ ng \in Nat \ {0} /\ Depth \in 1 .. 3 /\ (Depth = 1 => ng = 1)
         /\ root = IF Depth = 1 THEN nl + 3 ELSE IF Depth = 2 THEN nl + ng + 3 ELSE nl + ng + 4
         /\ root \in Nat /\ root >= nl + ng + 2
<1>1. nl \in Nat /\ ng \in Nat \ {0} /\ (Depth = 1 => ng = 1)
      /\ root = IF Depth = 1 THEN nl + 3 ELSE IF Depth = 2 THEN nl + ng + 3 ELSE nl + ng + 4
  BY DEF Layout
<1>2. Depth \in 1 .. 3
  BY ConstantsAssumption DEF IsIndex, Depth
<1>3. QED
  BY <1>1, <1>2

\* The extents the build leaves are all the pages after the reserved ones.
LEMMA LayoutExtents ==
  ASSUME manifest \in Indexes, NEW nl, NEW ng, NEW root, Layout(nl, ng, root)
  PROVE  TableExtents(leaf_table) \cup Nodes(store, sb.root) \cup {sb.config, sb.card, sb.leaf_table}
           = {<<p, 1>> : p \in 3 .. root + 3}
<1> DEFINE T == TableExtents(leaf_table)
           N == Nodes(store, sb.root)
           B == {sb.config, sb.card, sb.leaf_table}
           X == {<<p, 1>> : p \in 3 .. root + 3}
<1>1. BuiltTree(nl, ng, root) /\ nl \in Nat /\ ng \in Nat \ {0} /\ Depth \in 1 .. 3
      /\ (Depth = 1 => ng = 1)
      /\ root = IF Depth = 1 THEN nl + 3 ELSE IF Depth = 2 THEN nl + ng + 3 ELSE nl + ng + 4
  BY LayoutTree, LayoutSizes
<1>2. root \in Nat /\ root >= nl + ng + 2
  BY LayoutSizes
<1>3. T = {<<l + 2, 1>> : l \in 1 .. nl}
  <2>1. leaf_table = [l \in 1 .. nl |-> <<l + 2, 1>>]
    BY DEF Layout
  <2>2. QED
    BY <2>1 DEF TableExtents
<1>4. B = {<<root + 1, 1>>, <<root + 2, 1>>, <<root + 3, 1>>}
  <2>1. sb.config = <<root + 1, 1>> /\ sb.card = <<root + 2, 1>> /\ sb.leaf_table = <<root + 3, 1>>
    BY DEF Layout, Superblock
  <2>2. QED
    BY <2>1
<1>5. N = {<<root, 1>>} \cup (IF Depth = 1 THEN {} ELSE {<<nl + ng + 3, 1>>})
            \cup {<<nl + 2 + g, 1>> : g \in 1 .. ng}
  BY <1>1 DEF BuiltTree, Nodes
<1> HIDE DEF T, N, B
<1>6. T \subseteq X
  BY <1>1, <1>2, <1>3
<1>7. B \subseteq X
  <2>1. root + 1 \in 3 .. root + 3 /\ root + 2 \in 3 .. root + 3 /\ root + 3 \in 3 .. root + 3
    BY <1>1, <1>2
  <2>2. QED
    BY <1>4, <2>1
<1>8. N \subseteq X
  <2>1. \A g \in 1 .. ng : nl + 2 + g \in 3 .. root + 3
    BY <1>1, <1>2
  <2>2. root \in 3 .. root + 3 /\ (Depth # 1 => nl + ng + 3 \in 3 .. root + 3)
    BY <1>1, <1>2
  <2>3. QED
    BY <1>5, <2>1, <2>2
<1>9. ASSUME NEW p \in 3 .. root + 3 PROVE <<p, 1>> \in T \cup N \cup B
  <2>1. CASE p <= nl + 2
    <3>1. p - 2 \in 1 .. nl /\ (p - 2) + 2 = p
      BY <1>1, <1>2, <2>1
    <3>2. <<(p - 2) + 2, 1>> \in T
      BY <1>3, <3>1
    <3>3. QED
      BY <3>1, <3>2
  <2>2. CASE p > nl + 2 /\ p <= nl + ng + 2
    <3>1. p - nl - 2 \in 1 .. ng /\ nl + 2 + (p - nl - 2) = p
      BY <1>1, <1>2, <2>2
    <3>2. <<nl + 2 + (p - nl - 2), 1>> \in N
      BY <1>5, <3>1
    <3>3. QED
      BY <3>1, <3>2
  <2>3. CASE p > root
    <3>1. p \in {root + 1, root + 2, root + 3}
      BY <1>2, <2>3
    <3>2. QED
      BY <1>4, <3>1
  <2>4. CASE p > nl + ng + 2 /\ p <= root
    <3>1. p = root \/ (Depth # 1 /\ p = nl + ng + 3)
      BY <1>1, <2>4
    <3>2. QED
      BY <1>5, <3>1
  <2>5. QED
    BY <1>1, <1>2, <2>1, <2>2, <2>3, <2>4
<1>10. T \cup N \cup B = X
  BY <1>6, <1>7, <1>8, <1>9
<1>11. QED
  BY <1>10 DEF T, N, B

\* They own the allocated pages.
LEMMA LayoutOwns ==
  ASSUME manifest \in Indexes, NEW nl, NEW ng, NEW root, Layout(nl, ng, root)
  PROVE  Owns(store, {<<p, 1>> : p \in 3 .. root + 3})
<1> DEFINE X == {<<p, 1>> : p \in 3 .. root + 3}
<1>1. root \in Nat
  BY LayoutSizes
<1>2. /\ DOMAIN store.file = 0 .. root + 3 /\ store.bm = 0 .. root + 3
      /\ \A p \in DOMAIN store.file : store.file[p] = Cell(store.file[p].o, 0)
  BY DEF Layout
<1>3. ASSUME NEW p \in 3 .. root + 3
      PROVE  /\ <<p, 1>> \in Extents /\ Pages(<<p, 1>>) = {p}
             /\ Whole(store, <<p, 1>>) /\ Pages(<<p, 1>>) \cap Reserved = {}
  <2>1. <<p, 1>> \in Extents
    BY <1>1 DEF Extents
  <2>2. Pages(<<p, 1>>) = {p}
    BY <1>1 DEF Pages
  <2>3. p \in DOMAIN store.file /\ p \notin Reserved /\ p - p = 0
    BY <1>1, <1>2 DEF Reserved
  <2>4. ObjectAt(store, <<p, 1>>) = store.file[p].o
    BY <2>3 DEF ObjectAt
  <2>5. Whole(store, <<p, 1>>)
    BY <1>2, <2>2, <2>3, <2>4 DEF Whole
  <2>6. QED
    BY <2>1, <2>2, <2>3, <2>5
<1>4. \A d, e \in X : d # e => Pages(d) \cap Pages(e) = {}
  BY <1>3
<1>5. Covered(X) = 3 .. root + 3
  <2>1. \A e \in X : \E p \in 3 .. root + 3 : e = <<p, 1>> /\ Pages(e) = {p}
    BY <1>3
  <2>2. \A p \in 3 .. root + 3 : <<p, 1>> \in X /\ p \in Pages(<<p, 1>>)
    BY <1>3
  <2> HIDE DEF X
  <2>3. Covered(X) \subseteq 3 .. root + 3
    BY <2>1 DEF Covered
  <2>4. 3 .. root + 3 \subseteq Covered(X)
    BY <2>2 DEF Covered
  <2>5. QED
    BY <2>3, <2>4
<1>6. 0 .. root + 3 = Reserved \cup 3 .. root + 3
  BY <1>1 DEF Reserved
<1>7. X \subseteq Extents /\ \A e \in X : Whole(store, e) /\ Pages(e) \cap Reserved = {}
  BY <1>3
<1> HIDE DEF X
<1>8. Owns(store, X)
  BY <1>2, <1>4, <1>5, <1>6, <1>7 DEF Owns
<1>9. QED
  BY <1>8 DEF X

\* The leaves the build leaves.
LEMMA LayoutLeaves ==
  ASSUME manifest \in Indexes, NEW nl, NEW ng, NEW root, Layout(nl, ng, root)
  PROVE  /\ TableOK(store, leaf_table)
         /\ DOMAIN leaf_table = 1 .. nl /\ Len(leaf_table) = nl
         /\ \A l \in 1 .. nl : /\ LeafOf(store, l).rows = manifest.leaves[l]
                               /\ manifest.leaves[l] \subseteq manifest.rows
<1>1. nl \in Nat /\ root \in Nat /\ root >= nl + ng + 2 /\ ng \in Nat \ {0}
  BY LayoutSizes
<1>2. leaf_table = [l \in 1 .. nl |-> <<l + 2, 1>>] /\ DOMAIN store.file = 0 .. root + 3
      /\ nl = Len(manifest.leaves)
      /\ \A l \in 1 .. nl : store.file[l + 2].o = Leaf(manifest.leaves[l], FALSE, NoExtent)
  BY DEF Layout
<1>3. \A l \in 1 .. nl : <<l + 2, 1>> \in Extents
  BY <1>1 DEF Extents
<1>4. PICK lt : lt = leaf_table
  OBVIOUS
<1>5. lt = [l \in 1 .. nl |-> lt[l]] /\ \A l \in 1 .. nl : lt[l] = <<l + 2, 1>> /\ lt[l] \in Extents
  BY <1>2, <1>3, <1>4
<1>6. lt \in Seq(Extents) /\ Len(lt) = nl /\ DOMAIN lt = 1 .. nl
  BY <1>1, <1>5
<1>7. ASSUME NEW k \in 1 .. nl, NEW l \in 1 .. nl, lt[k] = lt[l] PROVE k = l
  <2>1. <<k + 2, 1>> = <<l + 2, 1>>
    BY <1>5, <1>7
  <2>2. k + 2 = l + 2
    BY <2>1
  <2>3. QED
    BY <1>1, <2>2
<1>8. ASSUME NEW l \in 1 .. nl
      PROVE  /\ ObjectAt(store, lt[l]) = Leaf(manifest.leaves[l], FALSE, NoExtent)
             /\ manifest.leaves[l] \subseteq manifest.rows
  <2>1. l + 2 \in 0 .. root + 3
    BY <1>1
  <2>2. lt[l][1] = l + 2
    BY <1>5
  <2>3. ObjectAt(store, lt[l]) = store.file[l + 2].o
    BY <1>2, <2>1, <2>2 DEF ObjectAt
  <2>4. manifest.leaves \in Seq(SUBSET manifest.rows)
    BY ConstantsAssumption DEF IsIndex
  <2>5. manifest.leaves[l] \in SUBSET manifest.rows
    BY <1>2, <2>4, ElementOfSeq
  <2>6. QED
    BY <1>2, <2>3, <2>5
<1>9. ASSUME NEW l \in 1 .. nl
      PROVE  LeafOK(ObjectAt(store, lt[l])) /\ ObjectAt(store, lt[l]).rows = manifest.leaves[l]
  <2>1. PICK o, R : o = ObjectAt(store, lt[l]) /\ R = manifest.leaves[l]
    OBVIOUS
  <2>2. o = Leaf(R, FALSE, NoExtent) /\ R \subseteq manifest.rows
    BY <1>8, <2>1
  <2>3. o.rows = R /\ o.dirty = FALSE
    BY <2>2 DEF Leaf
  <2>4. QED
    BY <2>1, <2>2, <2>3 DEF LeafOK
<1>10. TableOK(store, lt)
  BY <1>6, <1>7, <1>9 DEF TableOK
<1>11. \A l \in 1 .. nl : LeafOf(store, l).rows = manifest.leaves[l]
  BY <1>4, <1>9 DEF LeafOf
<1>12. QED
  BY <1>4, <1>6, <1>8, <1>10, <1>11

\* The blobs the build leaves.
LEMMA LayoutBlobs ==
  ASSUME manifest \in Indexes, NEW nl, NEW ng, NEW root, Layout(nl, ng, root)
  PROVE  /\ ObjectAt(store, sb.config) = Config(n_vectors)
         /\ ObjectAt(store, sb.card) = Card
         /\ ObjectAt(store, sb.leaf_table) = Table(leaf_table)
<1>1. root \in Nat /\ DOMAIN store.file = 0 .. root + 3
  <2>1. root \in Nat
    BY LayoutSizes
  <2>2. QED
    BY <2>1 DEF Layout
<1>2. sb.config = <<root + 1, 1>> /\ sb.card = <<root + 2, 1>> /\ sb.leaf_table = <<root + 3, 1>>
  BY DEF Layout, Superblock
<1>3. root + 1 \in DOMAIN store.file /\ root + 2 \in DOMAIN store.file /\ root + 3 \in DOMAIN store.file
  BY <1>1
<1>4. /\ ObjectAt(store, sb.config) = store.file[root + 1].o
      /\ ObjectAt(store, sb.card) = store.file[root + 2].o
      /\ ObjectAt(store, sb.leaf_table) = store.file[root + 3].o
  BY <1>2, <1>3 DEF ObjectAt
<1>5. QED
  BY <1>4 DEF Layout

\* The index the build leaves is intact.
LEMMA LayoutIntact ==
  ASSUME manifest \in Indexes, NEW nl, NEW ng, NEW root, Layout(nl, ng, root)
  PROVE  Intact(store, leaf_table, sb.root, sb.config, sb.card, sb.leaf_table)
<1>1. Owns(store, TableExtents(leaf_table) \cup Nodes(store, sb.root)
                    \cup {sb.config, sb.card, sb.leaf_table})
  BY LayoutExtents, LayoutOwns
<1>2. TableOK(store, leaf_table) /\ Len(leaf_table) = nl
  BY LayoutLeaves
<1>3. TreeOK(store, sb.root) /\ NamesOK(store, sb.root, nl)
  BY LayoutTreeOK, LayoutNames
<1>4. /\ ObjectAt(store, sb.config) = Config(n_vectors)
      /\ ObjectAt(store, sb.card) = Card
      /\ ObjectAt(store, sb.leaf_table) = Table(leaf_table)
  BY LayoutBlobs
<1>5. /\ ObjectAt(store, sb.config).kind = "config" /\ ObjectAt(store, sb.card).kind = "card"
      /\ ObjectAt(store, sb.leaf_table).kind = "table"
  BY <1>4 DEF Config, Card, Table
<1>6. QED
  BY <1>1, <1>2, <1>3, <1>5 DEF Intact, Sound

\* A page of the layout that reads as a table holds one.
LEMMA LayoutTyped ==
  ASSUME manifest \in Indexes, NEW nl, NEW ng, NEW root, Layout(nl, ng, root)
  PROVE  TablesTyped(store)
<1>1. /\ nl \in Nat /\ ng \in Nat \ {0} /\ Depth \in 1 .. 3 /\ (Depth = 1 => ng = 1)
      /\ root = IF Depth = 1 THEN nl + 3 ELSE IF Depth = 2 THEN nl + ng + 3 ELSE nl + ng + 4
      /\ root \in Nat /\ root >= nl + ng + 2
  BY LayoutSizes
<1>2. SUFFICES ASSUME NEW p \in DOMAIN store.file, store.file[p].o.kind = "table"
               PROVE  store.file[p].o = Table(store.file[p].o.entries)
  BY DEF TablesTyped
<1>3. p \in 0 .. root + 3 /\ p \in Nat
  <2>1. DOMAIN store.file = 0 .. root + 3
    BY DEF Layout
  <2>2. QED
    BY <1>1, <2>1
<1>4. CASE p = root + 3
  <2>1. store.file[p].o = Table(leaf_table)
    BY <1>4 DEF Layout
  <2>2. QED
    BY <2>1 DEF Table
<1>5. CASE p # root + 3
  <2>1. store.file[p].o.kind # "table"
    <3>1. CASE p \in Reserved
      BY <3>1 DEF Layout, Zero
    <3>2. CASE p \in 3 .. nl + 2
      <4>1. p - 2 \in 1 .. nl /\ (p - 2) + 2 = p
        BY <1>1, <3>2
      <4>2. store.file[p].o = Leaf(manifest.leaves[p - 2], FALSE, NoExtent)
        BY <4>1 DEF Layout
      <4>3. QED
        BY <4>2 DEF Leaf
    <3>3. CASE p \in nl + 3 .. nl + ng + 2
      <4>1. p - nl - 2 \in 1 .. ng /\ nl + 2 + (p - nl - 2) = p
        BY <1>1, <3>3
      <4>2. store.file[p].o = Node(LowBuilt(p - nl - 2))
        BY <4>1 DEF Layout
      <4>3. QED
        BY <4>2 DEF Node
    <3>4. CASE Depth > 1 /\ p = nl + ng + 3
      <4>1. store.file[p].o = Node([g \in 1 .. ng |-> NodeChild(<<nl + 2 + g, 1>>)])
        BY <3>4 DEF Layout
      <4>2. QED
        BY <4>1 DEF Node
    <3>5. CASE Depth = 3 /\ p = root
      <4>1. store.file[p].o = Node(<<NodeChild(<<nl + ng + 3, 1>>)>>)
        BY <3>5 DEF Layout
      <4>2. QED
        BY <4>1 DEF Node
    <3>6. CASE p = root + 1
      <4>1. store.file[p].o = Config(n_vectors)
        BY <3>6 DEF Layout
      <4>2. QED
        BY <4>1 DEF Config
    <3>7. CASE p = root + 2
      <4>1. store.file[p].o = Card
        BY <3>7 DEF Layout
      <4>2. QED
        BY <4>1 DEF Card
    <3>8. QED
      BY <1>1, <1>3, <1>5, <3>1, <3>2, <3>3, <3>4, <3>5, <3>6, <3>7 DEF Reserved
  <2>2. QED
    BY <1>2, <2>1
<1>6. QED
  BY <1>4, <1>5

\* The rows of the leaves the build leaves are counted.
LEMMA LayoutRows ==
  ASSUME manifest \in Indexes, NEW nl, NEW ng, NEW root, Layout(nl, ng, root)
  PROVE  RowsOK
<1>1. /\ DOMAIN leaf_table = 1 .. nl /\ Len(leaf_table) = nl
      /\ \A l \in 1 .. nl : /\ LeafOf(store, l).rows = manifest.leaves[l]
                            /\ manifest.leaves[l] \subseteq manifest.rows
  BY LayoutLeaves
<1>2. /\ nl = Len(manifest.leaves) /\ nl \in Nat /\ op = Idle
      /\ rows = UNION {manifest.leaves[l] : l \in 1 .. nl} /\ n_vectors = Cardinality(rows)
      /\ fresh = {}
  BY DEF Layout
<1>3. IsIndex(manifest)
  BY ConstantsAssumption
<1>4. /\ IsFiniteSet(manifest.rows) /\ manifest.leaf_capacity \in Nat
      /\ DOMAIN manifest.leaves = 1 .. nl
      /\ \A l \in 1 .. nl : Cardinality(manifest.leaves[l]) <= 2 * manifest.leaf_capacity
  <2>1. manifest.leaves \in Seq(SUBSET manifest.rows)
    BY <1>3 DEF IsIndex
  <2>2. DOMAIN manifest.leaves = 1 .. nl
    BY <1>2, <2>1, LenProperties
  <2>3. QED
    BY <1>3, <2>2 DEF IsIndex
<1>5. Held = rows
  BY <1>1, <1>2 DEF Held
<1>6. ~Inserting /\ ~Deleting /\ ~Splitting
  BY <1>2 DEF Inserting, Deleting, Splitting, Idle
<1>7. rows \subseteq manifest.rows
  BY <1>1, <1>2
<1>8. n_vectors \in Int
  <2>1. IsFiniteSet(rows)
    BY <1>4, <1>7, FS_Subset
  <2>2. QED
    BY <1>2, <2>1, FS_CardinalityType
<1>9. Oversized = {}
  <2>1. ASSUME NEW l \in 1 .. nl PROVE ~(Cardinality(manifest.leaves[l]) > 2 * manifest.leaf_capacity)
    <3>1. IsFiniteSet(manifest.leaves[l])
      BY <1>1, <1>4, FS_Subset
    <3>2. Cardinality(manifest.leaves[l]) \in Nat
      BY <3>1, FS_CardinalityType
    <3>3. QED
      BY <1>4, <3>2
  <2>2. QED
    BY <1>1, <2>1 DEF Oversized, LeafCap
<1>10. CopiesKept
  <2>1. ASSUME NEW r \in rows PROVE Cardinality(Holders(r)) = Given(r)
    <3>1. Holders(r) = BuiltCopies(r)
      BY <1>1, <1>2 DEF Holders, BuiltCopies
    <3>2. QED
      BY <1>2, <3>1 DEF Given
  <2>2. QED
    BY <2>1 DEF CopiesKept
<1>11. QED
  BY <1>2, <1>5, <1>6, <1>8, <1>9, <1>10 DEF RowsOK

\* The file a build leaves satisfies the invariant.
THEOREM IInvInit == Init /\ Plain => IInv
<1> SUFFICES ASSUME Init, Plain PROVE IInv
  OBVIOUS
<1>1. manifest \in Indexes
  BY DEF Init
<1>2. PICK nl, ng, root : Layout(nl, ng, root)
  BY InitLayout
<1>3. op = Idle /\ fault = "none"
  BY <1>2 DEF Layout
<1>4. OpOK /\ AtRest /\ Tab = sb.leaf_table /\ op.kind \notin Mutations
  BY <1>3 DEF OpOK, AtRest, Tab, Idle, Mutations
<1>5. Intact(store, leaf_table, sb.root, sb.config, sb.card, Tab)
  BY <1>1, <1>2, <1>4, LayoutIntact
<1>6. root \in Nat
  BY <1>1, <1>2, LayoutSizes
<1>7. /\ IsStore(store) /\ store.ok = TRUE /\ store.bm = 0 .. root + 3
      /\ DOMAIN store.file = 0 .. root + 3 /\ disk_sb = sb /\ disk_bm = store.bm
      /\ root_children = NodeChildren(store, sb.root)
      /\ sb = Superblock(<<root, 1>>, <<root + 3, 1>>, <<root + 1, 1>>, <<root + 2, 1>>,
                         root + 4, Nil)
      /\ n_vectors_disk = n_vectors
  BY <1>2 DEF Layout
<1>8. TablesTyped(store)
  BY <1>1, <1>2, LayoutTyped
<1>9. root + 4 \in Nat /\ root + 3 = (root + 4) - 1 /\ sb.n_pages = root + 4 /\ SuperblockOK(sb)
  BY <1>6, <1>7 DEF Superblock, SuperblockOK
<1>10. StoreOK
  BY <1>4, <1>7, <1>8, <1>9 DEF StoreOK, GoodFile
<1>11. Synced
  BY <1>7, <1>9 DEF Synced
<1>12. /\ ObjectAt(store, sb.config) = Config(n_vectors)
       /\ ObjectAt(store, sb.leaf_table) = Table(leaf_table)
  BY <1>1, <1>2, LayoutBlobs
<1>13. CommitOK
  BY <1>4, <1>7, <1>9, <1>11, <1>12 DEF CommitOK
<1>14. RowsOK
  BY <1>1, <1>2, LayoutRows
<1>15. Live
  BY <1>4, <1>5, <1>10, <1>13, <1>14 DEF Live
<1>16. QED
  BY <1>1, <1>3, <1>15 DEF IInv

\* The invariant holds throughout.
THEOREM IInvAlways == Spec /\ Plain => []IInv
BY IInvInit, IInvStep, PTL DEF Spec

-----------------------------------------------------------------------------
(* What the invariant says of the properties the runs check *)

\* The levels below the root, read off one by one.
LEMMA LevelNodes ==
  ASSUME NEW s, NEW root, Depth \in 1 .. 3
  PROVE  AllNodes(s, root) = Nodes(s, root) /\ NodesAt(s, root)[Depth - 1] = Lows(s, root)
<1> DEFINE U(S) == UNION {NodeChildren(s, e) : e \in S}
           D == 0 .. Depth - 1
           Body(g) == [k \in D |-> IF k = 0 THEN {root} ELSE U(g[k - 1])]
           W == [k \in D |-> IF k = 0 THEN {root} ELSE IF k = 1 THEN U({root}) ELSE U(U({root}))]
           a == CHOOSE g : g = Body(g)
<1>1. NodesAt(s, root) = a
  BY DEF NodesAt
<1>2. PICK A, B : A = U({root}) /\ B = U(A)
  OBVIOUS
<1>3. W = [k \in D |-> IF k = 0 THEN {root} ELSE IF k = 1 THEN A ELSE B]
  BY <1>2
<1>4. D \subseteq 0 .. 2 /\ 0 \in D
  OBVIOUS
<1> HIDE DEF W, U, D
<1>5. W = Body(W)
  <2>1. ASSUME NEW k \in D PROVE W[k] = IF k = 0 THEN {root} ELSE U(W[k - 1])
    <3>1. k \in 0 .. 2
      BY <1>4
    <3>2. CASE k = 0
      BY <1>3, <3>2
    <3>3. CASE k = 1
      <4>1. W[0] = {root} /\ W[k] = A /\ k - 1 = 0
        BY <1>3, <1>4, <3>3
      <4>2. QED
        BY <1>2, <3>3, <4>1
    <3>4. CASE k = 2
      <4>1. 1 \in D /\ k - 1 = 1
        BY <3>4 DEF D
      <4>2. W[1] = A /\ W[k] = B
        BY <1>3, <3>4, <4>1
      <4>3. QED
        BY <1>2, <3>4, <4>1, <4>2
    <3>5. QED
      BY <3>1, <3>2, <3>3, <3>4
  <2>2. W = [k \in D |-> W[k]]
    BY <1>3
  <2>3. QED
    BY <2>1, <2>2
<1>6. a = Body(a)
  BY <1>5
<1> HIDE DEF a
<1>7. \A k \in D : a[k] = IF k = 0 THEN {root} ELSE U(a[k - 1])
  BY <1>6
<1>8. a[0] = {root}
  BY <1>4, <1>7
<1>9. A = NodeChildren(s, root)
  BY <1>2 DEF U
<1>10. AllNodes(s, root) = UNION {a[k] : k \in D}
  BY <1>1 DEF AllNodes, D
<1>11. CASE Depth = 1
  <2>1. D = {0} /\ Depth - 1 = 0
    BY <1>11 DEF D
  <2>2. UNION {a[k] : k \in {0}} = a[0]
    OBVIOUS
  <2>3. QED
    BY <1>1, <1>8, <1>10, <1>11, <2>1, <2>2 DEF Nodes, Mids, Lows
<1>12. CASE Depth = 2
  <2>1. D = {0, 1} /\ Depth - 1 = 1
    BY <1>12 DEF D
  <2>2. a[1] = A
    BY <1>2, <1>7, <1>8, <2>1
  <2>3. UNION {a[k] : k \in {0, 1}} = a[0] \cup a[1]
    OBVIOUS
  <2>4. Lows(s, root) = A /\ Mids(s, root) = {root}
    BY <1>9, <1>12 DEF Lows, Mids
  <2>5. QED
    BY <1>1, <1>8, <1>10, <2>1, <2>2, <2>3, <2>4 DEF Nodes
<1>13. CASE Depth = 3
  <2>1. D = {0, 1, 2} /\ Depth - 1 = 2
    BY <1>13 DEF D
  <2>2. a[1] = A
    BY <1>2, <1>7, <1>8, <2>1
  <2>3. a[2] = B
    BY <1>2, <1>7, <2>1, <2>2
  <2>4. UNION {a[k] : k \in {0, 1, 2}} = a[0] \cup a[1] \cup a[2]
    OBVIOUS
  <2>5. Lows(s, root) = B /\ Mids(s, root) = A
    BY <1>2, <1>9, <1>13 DEF Lows, Mids, U
  <2>6. QED
    BY <1>1, <1>8, <1>10, <2>1, <2>2, <2>3, <2>4, <2>5 DEF Nodes
<1>14. QED
  BY <1>11, <1>12, <1>13

\* The extents the index refers to, in a store without payloads.
LEMMA LiveExtentsAre ==
  ASSUME IInv, Live
  PROVE  /\ LeafExtents = TableExtents(leaf_table) /\ PayloadExtents = {}
         /\ AllNodes(store, sb.root) = Nodes(store, sb.root)
         /\ LiveExtents = TableExtents(leaf_table) \cup Nodes(store, sb.root) \cup {sb.config, sb.card}
<1>1. Ready
  BY IsReady
<1>2. LeafExtents = TableExtents(leaf_table)
  BY <1>1 DEF Ready, LeafExtents, TableExtents
<1>3. \A l \in 1 .. Len(leaf_table) : LeafOf(store, l).payload = NoExtent
  BY <1>1 DEF Ready, LeafOK, Leaf
<1>4. PayloadExtents = {}
  BY <1>3 DEF PayloadExtents
<1>5. AllNodes(store, sb.root) = Nodes(store, sb.root)
  BY <1>1, LevelNodes DEF Ready
<1>6. QED
  BY <1>2, <1>4, <1>5 DEF LiveExtents

-----------------------------------------------------------------------------
(* What fsck finds between two mutations *)

\* An index in memory that is the committed one.
Rested ==
  /\ disk_sb = sb /\ disk_bm = store.bm /\ GoodFile(store) /\ Ready
  /\ Intact(store, leaf_table, sb.root, sb.config, sb.card, sb.leaf_table)
  /\ ObjectAt(store, sb.leaf_table) = Table(leaf_table)

\* Between two mutations the file holds the index and the superblock names it.
LEMMA IsRested ==
  ASSUME IInv, fault = "none", op = Idle
  PROVE  Live /\ Rested
<1>1. Live
  BY DEF IInv, Idle, Failed
<1>2. AtRest /\ TableWritten /\ Tab = sb.leaf_table
  BY DEF AtRest, TableWritten, Tab, Idle, Mutations
<1>3. Synced /\ GoodFile(store) /\ ObjectAt(store, sb.leaf_table) = Table(leaf_table)
      /\ Intact(store, leaf_table, sb.root, sb.config, sb.card, sb.leaf_table)
  BY <1>1, <1>2 DEF Live, CommitOK, StoreOK
<1>4. Ready
  BY <1>1, IsReady
<1>5. QED
  BY <1>1, <1>3, <1>4 DEF Rested, Synced

\* fsck reads the leaf table as it is.
LEMMA TableRead ==
  ASSUME Rested
  PROVE  TableAsRead = leaf_table
<1>1. PICK o : o = ObjectAt(store, disk_sb.leaf_table)
  OBVIOUS
<1>2. o = Table(leaf_table)
  BY <1>1 DEF Rested
<1>3. o.kind = "table" /\ o.entries = leaf_table
  BY <1>2 DEF Table
<1>4. QED
  BY <1>1, <1>3 DEF TableAsRead

\* The nodes of an intact tree lie in the file.
LEMMA NodesInFile ==
  ASSUME Rested
  PROVE  /\ \A e \in Nodes(store, sb.root) : InFile(e) /\ ObjectAt(store, e).kind = "node"
         /\ sb.root[1] \in DOMAIN store.file
<1>1. Owns(store, TableExtents(leaf_table) \cup Nodes(store, sb.root)
                    \cup {sb.config, sb.card, sb.leaf_table})
      /\ KindsApart(store, leaf_table, sb.root, sb.config, sb.card, sb.leaf_table)
  <2>1. Sound(store, leaf_table, sb.root, sb.config, sb.card, sb.leaf_table) /\ Depth \in 1 .. 3
    BY DEF Rested, Intact, Ready
  <2>2. KindsApart(store, leaf_table, sb.root, sb.config, sb.card, sb.leaf_table)
    BY <2>1, SoundKinds
  <2>3. QED
    BY <2>1, <2>2 DEF Sound
<1>2. \A e \in Nodes(store, sb.root) : InFile(e) /\ e \in Extents
  BY <1>1 DEF Owns, Whole, InFile
<1>3. sb.root \in Nodes(store, sb.root)
  BY DEF Nodes
<1>4. sb.root[1] \in DOMAIN store.file
  BY <1>2, <1>3, PagesFacts DEF InFile
<1>5. QED
  BY <1>1, <1>2, <1>4 DEF KindsApart

\* The walk reaches the nodes of the tree and no other.
LEMMA WalkReaches ==
  ASSUME Rested
  PROVE  WalkedNodes = Nodes(store, sb.root)
<1> DEFINE root == sb.root
           U(S) == UNION {NodeChildren(store, e) : e \in {d \in S : InFile(d)}}
           D == 0 .. Depth
           Body(g) == [k \in D |-> IF k = 0 THEN {root} ELSE U(g[k - 1])]
           A == NodeChildren(store, root)
           B == UNION {NodeChildren(store, e) : e \in A}
           W == [k \in D |-> IF k = Depth THEN {} ELSE IF k = 0 THEN {root}
                               ELSE IF k = 1 THEN A ELSE B]
           a == CHOOSE g : g = Body(g)
<1>1. WalkedNodes = UNION {a[k] : k \in D}
  BY DEF WalkedNodes, Rested
<1>2. Depth \in 1 .. 3 /\ TreeOK(store, root)
  BY DEF Rested, Ready, Intact, Sound
<1>3. /\ \A e \in Nodes(store, root) : InFile(e)
      /\ root \in Nodes(store, root) /\ Mids(store, root) \subseteq Nodes(store, root)
      /\ Lows(store, root) \subseteq Nodes(store, root)
  BY NodesInFile DEF Nodes
<1>4. \A e \in Lows(store, root) : NodeChildren(store, e) = {}
  BY <1>2, LowChildren DEF TreeOK
<1>5. ASSUME NEW S, S \subseteq Nodes(store, root)
      PROVE  U(S) = UNION {NodeChildren(store, e) : e \in S}
  BY <1>3, <1>5
<1>6. U({root}) = A /\ U(Lows(store, root)) = {}
  BY <1>3, <1>4, <1>5
<1>7. A \subseteq Nodes(store, root) => U(A) = B
  BY <1>5
<1>8. /\ Depth = 1 => Lows(store, root) = {root} /\ Nodes(store, root) = {root}
      /\ Depth = 2 => Lows(store, root) = A /\ Nodes(store, root) = {root} \cup A
      /\ Depth = 3 => Lows(store, root) = B /\ Nodes(store, root) = {root} \cup A \cup B
  BY DEF Lows, Mids, Nodes
<1>9. D \subseteq 0 .. 3 /\ 0 \in D /\ Depth \in D
  BY <1>2
<1> HIDE DEF W, U, D, A, B, root
<1>10. W = [k \in D |-> IF k = Depth THEN {} ELSE IF k = 0 THEN {root}
                          ELSE IF k = 1 THEN A ELSE B]
  BY DEF W
<1>11. W = Body(W) /\ UNION {W[k] : k \in D} = Nodes(store, root)
  <2>1. W = [k \in D |-> W[k]]
    BY <1>10
  <2>2. CASE Depth = 1
    <3>1. D = {0, 1}
      BY <2>2 DEF D
    <3>2. W[0] = {root} /\ W[1] = {}
      BY <1>10, <2>2, <3>1
    <3>3. \A k \in D : W[k] = IF k = 0 THEN {root} ELSE U(W[k - 1])
      BY <1>6, <1>8, <2>2, <3>1, <3>2
    <3>4. UNION {W[k] : k \in D} = W[0] \cup W[1]
      BY <3>1
    <3>5. QED
      BY <1>8, <2>1, <2>2, <3>2, <3>3, <3>4
  <2>3. CASE Depth = 2
    <3>1. D = {0, 1, 2}
      BY <2>3 DEF D
    <3>2. W[0] = {root} /\ W[1] = A /\ W[2] = {}
      BY <1>10, <2>3, <3>1
    <3>3. \A k \in D : W[k] = IF k = 0 THEN {root} ELSE U(W[k - 1])
      BY <1>6, <1>8, <2>3, <3>1, <3>2
    <3>4. UNION {W[k] : k \in D} = W[0] \cup W[1] \cup W[2]
      BY <3>1
    <3>5. QED
      BY <1>8, <2>1, <2>3, <3>2, <3>3, <3>4
  <2>4. CASE Depth = 3
    <3>1. D = {0, 1, 2, 3}
      BY <2>4 DEF D
    <3>2. W[0] = {root} /\ W[1] = A /\ W[2] = B /\ W[3] = {}
      BY <1>10, <2>4, <3>1
    <3>3. U(A) = B
      BY <1>7, <1>8, <2>4
    <3>4. \A k \in D : W[k] = IF k = 0 THEN {root} ELSE U(W[k - 1])
      <4>1. U(W[0]) = W[1] /\ U(W[1]) = W[2] /\ U(W[2]) = W[3]
        BY <1>6, <1>8, <2>4, <3>2, <3>3
      <4>2. 1 - 1 = 0 /\ 2 - 1 = 1 /\ 3 - 1 = 2
        OBVIOUS
      <4>3. QED
        BY <3>1, <3>2, <4>1, <4>2
    <3>5. UNION {W[k] : k \in D} = W[0] \cup W[1] \cup W[2] \cup W[3]
      BY <3>1
    <3>6. QED
      BY <1>8, <2>1, <2>4, <3>2, <3>4, <3>5
  <2>5. QED
    BY <1>2, <2>2, <2>3, <2>4
<1>12. a = Body(a)
  BY <1>11
<1> HIDE DEF a
<1>13. \A k \in D : a[k] = IF k = 0 THEN {root} ELSE U(a[k - 1])
  BY <1>12
<1>14. \A k \in D : W[k] = IF k = 0 THEN {root} ELSE U(W[k - 1])
  BY <1>11
<1>15. \A k \in D : a[k] = W[k]
  <2>1. a[0] = W[0]
    BY <1>9, <1>13, <1>14
  <2>2. 1 \in D => a[1] = W[1]
    BY <1>9, <1>13, <1>14, <2>1
  <2>3. 2 \in D => a[2] = W[2]
    <3>1. 2 \in D => 1 \in D
      BY <1>2 DEF D
    <3>2. QED
      BY <1>13, <1>14, <2>2, <3>1
  <2>4. 3 \in D => a[3] = W[3]
    <3>1. 3 \in D => 2 \in D
      BY <1>2 DEF D
    <3>2. QED
      BY <1>13, <1>14, <2>3, <3>1
  <2>5. QED
    BY <1>9, <2>1, <2>2, <2>3, <2>4
<1>16. QED
  BY <1>1, <1>11, <1>15 DEF root

\* The places of the tree that name a leaf.
Places == {slot \in Lows(store, sb.root) \X Nat : slot[2] \in DOMAIN Children(store, slot[1])}

\* The leaves the walk validates are those of the table, each by the one place that
\* names it.
WalkOK ==
  /\ DOMAIN WalkedLeaves = Places
  /\ \A slot \in Places : /\ LeafIdAt(store, slot) \in DOMAIN leaf_table
                          /\ WalkedLeaves[slot] = leaf_table[LeafIdAt(store, slot)]
  /\ \A l \in DOMAIN leaf_table : \E slot \in Places : LeafIdAt(store, slot) = l
  /\ \A s, t \in Places : LeafIdAt(store, s) = LeafIdAt(store, t) => s = t

\* fsck's walk of an index at rest meets every leaf in one place.
LEMMA WalkFacts ==
  ASSUME Rested
  PROVE  WalkOK
<1> DEFINE root == sb.root
           LeafJ(e) == {j \in DOMAIN Children(store, e) : Children(store, e)[j].leaf}
           slots == UNION {{<<e, i>> : i \in LeafJ(e)} : e \in WalkedNodes}
<1>1. WalkedNodes = Nodes(store, root) /\ TableAsRead = leaf_table
  BY WalkReaches, TableRead
<1>2. /\ Depth \in 1 .. 3 /\ TreeOK(store, root) /\ NamesOK(store, root, Len(leaf_table))
      /\ DOMAIN leaf_table = 1 .. Len(leaf_table) /\ Len(leaf_table) \in Nat
  BY DEF Rested, Ready, Intact, Sound
<1>3. ASSUME NEW e \in Lows(store, root)
      PROVE  /\ LeafJ(e) = DOMAIN Children(store, e) /\ DOMAIN Children(store, e) \subseteq Nat
             /\ e \in Nodes(store, root)
  <2>1. PICK c : c = Children(store, e)
    OBVIOUS
  <2>2. IsLow(store, e)
    BY <1>2 DEF TreeOK
  <2>3. c \in Seq(LeafEntries)
    BY <2>1, <2>2 DEF IsLow
  <2>4. DOMAIN c \subseteq Nat
    BY <2>3
  <2>5. \A j \in DOMAIN c : c[j] = LeafChild(c[j].page)
    BY <2>1, <2>2, LowChildren
  <2>6. \A j \in DOMAIN c : c[j].leaf
    BY <2>5 DEF LeafChild
  <2>7. QED
    BY <2>1, <2>4, <2>6 DEF Nodes
<1>4. ASSUME NEW e \in Nodes(store, root), e \notin Lows(store, root) PROVE LeafJ(e) = {}
  <2>1. IsUpper(store, e)
    <3>1. CASE Depth = 1
      BY <1>4, <3>1 DEF Nodes, Mids, Lows
    <3>2. CASE Depth = 2
      BY <1>2, <1>4, <3>2 DEF Nodes, Mids, TreeOK
    <3>3. CASE Depth = 3
      BY <1>2, <1>4, <3>3 DEF Nodes, TreeOK
    <3>4. QED
      BY <1>2, <3>1, <3>2, <3>3
  <2>2. QED
    BY <2>1, UpperChildren
<1>5. slots = Places
  <2>1. ASSUME NEW x \in slots PROVE x \in Places
    <3>1. PICK e \in Nodes(store, root) : \E i \in LeafJ(e) : x = <<e, i>>
      BY <1>1, <2>1
    <3>2. PICK i \in LeafJ(e) : x = <<e, i>>
      BY <3>1
    <3>3. e \in Lows(store, root)
      BY <1>4, <3>2
    <3>4. i \in DOMAIN Children(store, e) /\ i \in Nat
      BY <1>3, <3>2, <3>3
    <3>5. QED
      BY <3>1, <3>2, <3>3, <3>4 DEF Places
  <2>2. ASSUME NEW x \in Places PROVE x \in slots
    <3>1. PICK e \in Lows(store, root), i \in Nat : x = <<e, i>>
      BY <2>2 DEF Places
    <3>2. i \in DOMAIN Children(store, e)
      BY <2>2, <3>1 DEF Places
    <3>3. i \in LeafJ(e) /\ e \in WalkedNodes
      BY <1>1, <1>3, <3>2
    <3>4. QED
      BY <3>1, <3>3
  <2>3. QED
    BY <2>1, <2>2
<1>6. WalkedLeaves = [slot \in slots |->
                        IF LeafIdAt(store, slot) <= Len(TableAsRead)
                        THEN TableAsRead[LeafIdAt(store, slot)]
                        ELSE <<LeafIdAt(store, slot) - 1, 1>>]
  BY DEF WalkedLeaves
<1> HIDE DEF slots
<1>7. ASSUME NEW slot \in Places
      PROVE  \E e \in Lows(store, root) : \E i \in DOMAIN Children(store, e) :
               slot = <<e, i>> /\ LeafIdAt(store, slot) = Children(store, e)[i].page
  <2>1. PICK e \in Lows(store, root), i \in Nat : slot = <<e, i>>
    BY DEF Places
  <2>2. i \in DOMAIN Children(store, e)
    BY <2>1 DEF Places
  <2>3. QED
    BY <2>1, <2>2 DEF LeafIdAt
<1>8. ASSUME NEW slot \in Places PROVE LeafIdAt(store, slot) \in DOMAIN leaf_table
  BY <1>2, <1>7 DEF NamesOK
<1>9. ASSUME NEW slot \in Places
      PROVE  WalkedLeaves[slot] = leaf_table[LeafIdAt(store, slot)]
  <2>1. LeafIdAt(store, slot) <= Len(leaf_table)
    BY <1>2, <1>8
  <2>2. QED
    BY <1>1, <1>5, <1>6, <2>1
<1>10. ASSUME NEW l \in DOMAIN leaf_table PROVE \E slot \in Places : LeafIdAt(store, slot) = l
  <2>1. PICK e \in Lows(store, root) :
          \E i \in DOMAIN Children(store, e) : Children(store, e)[i].page = l
    BY <1>2 DEF NamesOK
  <2>2. PICK i \in DOMAIN Children(store, e) : Children(store, e)[i].page = l
    BY <2>1
  <2>3. i \in Nat /\ e \in Nodes(store, root)
    BY <1>3
  <2>4. <<e, i>> \in Places /\ LeafIdAt(store, <<e, i>>) = l
    BY <2>2, <2>3 DEF Places, LeafIdAt
  <2>5. QED
    BY <2>4
<1>11. ASSUME NEW s \in Places, NEW t \in Places, LeafIdAt(store, s) = LeafIdAt(store, t)
       PROVE  s = t
  <2>1. PICK d \in Lows(store, root) : \E i \in DOMAIN Children(store, d) :
          s = <<d, i>> /\ LeafIdAt(store, s) = Children(store, d)[i].page
    BY <1>7
  <2>2. PICK i \in DOMAIN Children(store, d) :
          s = <<d, i>> /\ LeafIdAt(store, s) = Children(store, d)[i].page
    BY <2>1
  <2>3. PICK e \in Lows(store, root) : \E j \in DOMAIN Children(store, e) :
          t = <<e, j>> /\ LeafIdAt(store, t) = Children(store, e)[j].page
    BY <1>7
  <2>4. PICK j \in DOMAIN Children(store, e) :
          t = <<e, j>> /\ LeafIdAt(store, t) = Children(store, e)[j].page
    BY <2>3
  <2>5. d = e /\ i = j
    BY <1>2, <1>11, <2>2, <2>4 DEF NamesOK
  <2>6. QED
    BY <2>2, <2>4, <2>5
<1>12. DOMAIN WalkedLeaves = Places
  BY <1>5, <1>6
<1>13. QED
  BY <1>8, <1>9, <1>10, <1>11, <1>12 DEF WalkOK

\* The leaves are good, and they are those of the table.
LEMMA WalkedGood ==
  ASSUME Rested
  PROVE  /\ GoodSlots = Places /\ WalkedPayloads = {}
         /\ Range(WalkedLeaves) = TableExtents(leaf_table)
         /\ Range(leaf_table) = TableExtents(leaf_table)
<1>1. WalkOK
  BY WalkFacts
<1>2. ASSUME NEW l \in DOMAIN leaf_table
      PROVE  IsLeaf(leaf_table[l]) /\ ObjectAt(store, leaf_table[l]).payload = NoExtent
  <2>1. leaf_table[l] \in Extents /\ LeafOK(ObjectAt(store, leaf_table[l]))
    BY DEF Rested, Ready, LeafOf
  <2>2. leaf_table[l][2] > 0
    BY <2>1 DEF Extents
  <2>3. ObjectAt(store, leaf_table[l]).kind = "leaf"
        /\ ObjectAt(store, leaf_table[l]).payload = NoExtent
    BY <2>1 DEF LeafOK, Leaf
  <2>4. QED
    BY <2>2, <2>3 DEF IsLeaf
<1>3. \A slot \in Places : IsLeaf(WalkedLeaves[slot])
                           /\ ObjectAt(store, WalkedLeaves[slot]).payload = NoExtent
  BY <1>1, <1>2 DEF WalkOK
<1>4. GoodSlots = Places
  BY <1>1, <1>3 DEF WalkOK, GoodSlots
<1>5. WalkedPayloads = {}
  BY <1>3, <1>4 DEF WalkedPayloads
<1>6. Range(WalkedLeaves) = TableExtents(leaf_table)
  <2>1. Range(WalkedLeaves) = {WalkedLeaves[slot] : slot \in Places}
    BY <1>1 DEF Range, WalkOK
  <2>2. \A slot \in Places : \E l \in DOMAIN leaf_table : WalkedLeaves[slot] = leaf_table[l]
    BY <1>1 DEF WalkOK
  <2>3. \A l \in DOMAIN leaf_table : \E slot \in Places : WalkedLeaves[slot] = leaf_table[l]
    BY <1>1 DEF WalkOK
  <2>4. QED
    BY <2>1, <2>2, <2>3 DEF TableExtents
<1>7. Range(leaf_table) = TableExtents(leaf_table)
  BY DEF Range, TableExtents
<1>8. QED
  BY <1>4, <1>5, <1>6, <1>7

\* fsck finds nothing wrong: no page is leaked and none in use looks free.
LEMMA AllOk ==
  ASSUME Rested
  PROVE  all_ok
<1> DEFINE E == TableExtents(leaf_table) \cup Nodes(store, sb.root)
                  \cup {sb.config, sb.card, sb.leaf_table}
<1>1. Owns(store, E)
  BY DEF Rested, Intact, Sound
<1>2. store.bm \subseteq DOMAIN store.file /\ disk_bm = store.bm /\ disk_sb = sb
  BY DEF Rested, GoodFile
<1>3. /\ WalkedNodes = Nodes(store, sb.root)
      /\ \A e \in Nodes(store, sb.root) : InFile(e) /\ ObjectAt(store, e).kind = "node"
      /\ sb.root[1] \in DOMAIN store.file
  BY WalkReaches, NodesInFile
<1>4. /\ GoodSlots = DOMAIN WalkedLeaves /\ WalkedPayloads = {}
      /\ Range(WalkedLeaves) = TableExtents(leaf_table)
  BY WalkedGood, WalkFacts DEF WalkOK
<1>5. {d \in WalkedNodes : InFile(d)} = Nodes(store, sb.root)
  BY <1>3
<1>6. Allocated = (Reserved \cup UNION {Pages(e) : e \in E}) \cap DOMAIN store.file
  <2>1. {d \in WalkedNodes : InFile(d)} \cup Range(WalkedLeaves) \cup WalkedPayloads
          \cup {disk_sb.config, disk_sb.card, disk_sb.leaf_table} = E
    BY <1>2, <1>4, <1>5
  <2>2. QED
    BY <2>1 DEF Allocated
<1>7. Allocated = store.bm
  BY <1>1, <1>2, <1>6 DEF Owns, Covered
<1>8. page_accounting_ok
  BY <1>2, <1>7 DEF page_accounting_ok, leaked_pages, orphan_pages
<1>9. tree_walk_ok
  BY <1>3, <1>4 DEF tree_walk_ok
<1>10. superblock_ok
  BY <1>2, <1>3 DEF superblock_ok
<1>11. QED
  BY <1>8, <1>9, <1>10 DEF all_ok

\* As many places name a leaf as the table has leaves.
LEMMA PlacesCount ==
  ASSUME Rested
  PROVE  Cardinality(DOMAIN WalkedLeaves) = Len(leaf_table)
<1>1. WalkOK
  BY WalkFacts
<1>2. PICK n \in Nat : n = Len(leaf_table) /\ DOMAIN leaf_table = 1 .. n
  BY DEF Rested, Ready
<1> DEFINE at == [l \in 1 .. n |-> CHOOSE slot \in Places : LeafIdAt(store, slot) = l]
<1>3. \A l \in 1 .. n : at[l] \in Places /\ LeafIdAt(store, at[l]) = l
  BY <1>1, <1>2 DEF WalkOK
<1>4. at \in [1 .. n -> Places]
  BY <1>3
<1> HIDE DEF at
<1>5. \A slot \in Places : \E l \in 1 .. n : slot = at[l]
  <2>1. ASSUME NEW slot \in Places PROVE \E l \in 1 .. n : slot = at[l]
    <3>1. PICK l \in 1 .. n : l = LeafIdAt(store, slot)
      BY <1>1, <1>2 DEF WalkOK
    <3>2. at[l] = slot
      BY <1>1, <1>3, <3>1 DEF WalkOK
    <3>3. QED
      BY <3>2
  <2>2. QED
    BY <2>1
<1>6. \A k, l \in 1 .. n : at[k] = at[l] => k = l
  BY <1>3
<1>7. PICK P : P = Places
  OBVIOUS
<1>8. Cardinality(P) = n
  <2>1. at \in [1 .. n -> P] /\ \A x \in P : \E l \in 1 .. n : x = at[l]
    BY <1>4, <1>5, <1>7
  <2>2. QED
    BY ONLY <1>2, <1>6, <2>1, InjectiveLength
<1>9. QED
  BY <1>1, <1>2, <1>7, <1>8 DEF WalkOK

\* The rows the walk counts are the rows of the leaves, each once.
LEMMA RowsCounted ==
  ASSUME Rested, IsFiniteSet(Held),
         \A k, l \in DOMAIN leaf_table :
           k # l => LeafOf(store, k).rows \cap LeafOf(store, l).rows = {}
  PROVE  TotalLeafCount = Cardinality(Held)
<1>1. WalkOK /\ GoodSlots = Places
  BY WalkFacts, WalkedGood
<1> DEFINE id(slot) == LeafIdAt(store, slot)
           P == UNION {{slot} \X ObjectAt(store, WalkedLeaves[slot]).rows : slot \in Places}
<1>2. ASSUME NEW slot \in Places
      PROVE  id(slot) \in DOMAIN leaf_table
             /\ ObjectAt(store, WalkedLeaves[slot]).rows = LeafOf(store, id(slot)).rows
  BY <1>1 DEF WalkOK, LeafOf
<1>3. \A x : x \in P <=> \E slot \in Places : \E r \in LeafOf(store, id(slot)).rows : x = <<slot, r>>
  BY <1>2
<1>4. TotalLeafCount = Cardinality(P)
  BY <1>1 DEF TotalLeafCount
<1> HIDE DEF P, id
<1>5. ASSUME NEW r \in Held PROVE \E x \in P : x[2] = r
  <2>1. PICK l \in DOMAIN leaf_table : r \in LeafOf(store, l).rows
    BY DEF Held
  <2>2. PICK slot \in Places : id(slot) = l
    BY <1>1 DEF WalkOK, id
  <2>3. <<slot, r>> \in P
    BY <1>3, <2>1, <2>2
  <2>4. QED
    BY <2>3
<1>6. ASSUME NEW x \in P PROVE x[2] \in Held
  BY <1>2, <1>3 DEF Held
<1>7. ASSUME NEW x \in P, NEW y \in P, x[2] = y[2] PROVE x = y
  <2>1. PICK s \in Places : \E r \in LeafOf(store, id(s)).rows : x = <<s, r>>
    BY <1>3
  <2>2. PICK r \in LeafOf(store, id(s)).rows : x = <<s, r>>
    BY <2>1
  <2>3. PICK t \in Places : \E q \in LeafOf(store, id(t)).rows : y = <<t, q>>
    BY <1>3
  <2>4. PICK q \in LeafOf(store, id(t)).rows : y = <<t, q>>
    BY <2>3
  <2>5. r = q
    BY <1>7, <2>2, <2>4
  <2>6. id(s) = id(t)
    BY <1>2, <2>2, <2>4, <2>5
  <2>7. s = t
    BY <1>1, <2>6 DEF WalkOK, id
  <2>8. QED
    BY <2>2, <2>4, <2>5, <2>7
<1> DEFINE f == [r \in Held |-> CHOOSE x \in P : x[2] = r]
<1>8. \A r \in Held : f[r] \in P /\ f[r][2] = r
  BY <1>5
<1>9. f \in [Held -> P]
  BY <1>8
<1> HIDE DEF f
<1>10. \A x \in P : f[x[2]] = x
  BY <1>6, <1>7, <1>8
<1>11. f \in Bijection(Held, P)
  <2>1. \A r, q \in Held : f[r] = f[q] => r = q
    BY <1>8
  <2>2. \A x \in P : \E r \in Held : f[r] = x
    BY <1>6, <1>10
  <2>3. QED
    BY <1>9, <2>1, <2>2 DEF Bijection, Injection, Surjection, IsInjective
<1>12. ExistsBijection(Held, P)
  BY <1>11 DEF ExistsBijection
<1>13. Cardinality(P) = Cardinality(Held)
  BY <1>12, FS_Bijection
<1>14. QED
  BY <1>4, <1>13

-----------------------------------------------------------------------------
(* fsck between mutations *)

\* Once the process was killed, the history says so.
LEMMA FaultStays ==
  ASSUME [NextWithFsck]_vars, fault # "none"
  PROVE  fault' # "none"
<1>1. CASE UNCHANGED vars
  BY <1>1 DEF vars
<1>2. CASE fsck_repair
  BY <1>2 DEF fsck_repair
<1>3. CASE Next
  <2>1. /\ \A route : insert_batch(route) => fault' = fault
        /\ \A ids, repeats : delete_batch(ids, repeats) => fault' = fault
        /\ \A flag : (vacuum(flag) => fault' = fault) /\ (defrag(flag) => fault' = fault)
    BY DEF insert_batch, delete_batch, vacuum, defrag, sweep_begin
  <2>2. /\ \A l : (insert_leaf(l) => fault' = fault) /\ (delete_leaf(l) => fault' = fault)
        /\ \A g : split_leaf_(g) => fault' = fault
        /\ splits_done => fault' = fault
    BY DEF insert_leaf, delete_leaf, split_leaf_, splits_done
  <2>3. vacuum_leaf \/ vacuum_leaves_done \/ vacuum_cardinality => fault' = fault
    BY DEF vacuum_leaf, vacuum_leaves_done, vacuum_cardinality
  <2>4. defrag_leaf \/ defrag_leaves_done \/ defrag_truncate \/ defrag_commit => fault' = fault
    BY DEF defrag_leaf, defrag_leaves_done, defrag_truncate, defrag_commit
  <2>5. commit_blobs \/ flush_bitmap \/ commit_superblock \/ open => fault' = fault
    BY DEF commit_blobs, flush_bitmap, commit_superblock, open
  <2>6. kill => fault' = "killed"
    BY DEF kill
  <2>7. QED
    BY <1>3, <2>1, <2>2, <2>3, <2>4, <2>5, <2>6 DEF Next
<1>4. QED
  BY <1>1, <1>2, <1>3 DEF NextWithFsck

\* The invariant as long as no mutation was killed, in runs that may repair the file.
NoFault == fault = "none" => IInv

\* A repair never runs on the file of an index whose mutations all came to their end.
LEMMA NoRepair ==
  ASSUME IInv, fault = "none"
  PROVE  ~fsck_repair
<1> SUFFICES ASSUME fsck_repair PROVE FALSE
  OBVIOUS
<1>1. op \in {Idle, Down, Corrupt} /\ ~page_accounting_ok
  BY DEF fsck_repair
<1>2. op \notin {Down, Corrupt}
  BY DEF IInv, Live, OpOK, Idle, Down, Corrupt, Failed
<1>3. Rested
  BY <1>1, <1>2, IsRested
<1>4. QED
  BY <1>1, <1>3, AllOk DEF all_ok

\* The invariant holds until a mutation is killed.
THEOREM NoFaultAlways == FsckSpec /\ Plain => []NoFault
<1>1. Init /\ Plain => NoFault
  BY IInvInit DEF NoFault
<1>2. NoFault /\ [NextWithFsck]_vars => NoFault'
  <2> SUFFICES ASSUME NoFault, [NextWithFsck]_vars, fault' = "none" PROVE IInv'
    BY DEF NoFault
  <2>1. fault = "none"
    BY FaultStays
  <2>2. IInv
    BY <2>1 DEF NoFault
  <2>3. [Next]_vars
    BY <2>1, <2>2, NoRepair DEF NextWithFsck
  <2>4. QED
    BY <2>2, <2>3, IInvStep
<1>3. QED
  BY <1>1, <1>2, PTL DEF FsckSpec

(***************************************************************************)
(* No step of any mutation writes over an extent the index refers to, or   *)
(* frees it: insert_batch with its splits, delete_batch, vacuum, defrag    *)
(* and commit_mutable_ each write and link the new extent before the old   *)
(* one is freed, and what the allocator hands out is never in use.         *)
(***************************************************************************)
THEOREM LiveExtentsIntactAlways == FsckSpec /\ Plain => []LiveExtentsIntact
<1>1. NoFault => LiveExtentsIntact
  <2> SUFFICES ASSUME IInv, Settled PROVE LiveExtentsIntact
    BY DEF LiveExtentsIntact, NoFault, Settled
  <2>1. Live
    BY DEF IInv, Settled, Failed, Mutations
  <2> DEFINE E == TableExtents(leaf_table) \cup Nodes(store, sb.root) \cup {sb.config, sb.card, Tab}
  <2>2. Owns(store, E) /\ KindsApart(store, leaf_table, sb.root, sb.config, sb.card, Tab) /\ Ready
    <3>1. Ready /\ Sound(store, leaf_table, sb.root, sb.config, sb.card, Tab)
      BY <2>1, IsReady DEF Live, Intact
    <3>2. KindsApart(store, leaf_table, sb.root, sb.config, sb.card, Tab)
      BY <3>1, SoundKinds DEF Ready
    <3>3. QED
      BY <3>1, <3>2 DEF Sound
  <2>3. /\ LeafExtents = TableExtents(leaf_table) /\ PayloadExtents = {}
        /\ AllNodes(store, sb.root) = Nodes(store, sb.root)
        /\ LiveExtents \subseteq E
    BY <2>1, LiveExtentsAre
  <2> HIDE DEF E
  <2>4. \A e \in E : Whole(store, e) /\ Pages(e) \subseteq store.bm
    BY <2>2 DEF Owns, Covered
  <2>5. \A d, e \in E : d # e => Pages(d) \cap Pages(e) = {}
    BY <2>2 DEF Owns
  <2>6. \A e \in LeafExtents : ObjectAt(store, e).kind = "leaf"
    BY <2>2, <2>3 DEF KindsApart, TableExtents
  <2>7. \A e \in AllNodes(store, sb.root) : ObjectAt(store, e).kind = "node"
    BY <2>2, <2>3 DEF KindsApart
  <2>8. QED
    BY <2>3, <2>4, <2>5, <2>6, <2>7 DEF LiveExtentsIntact
<1>2. QED
  BY <1>1, NoFaultAlways, PTL

(***************************************************************************)
(* Between mutations the index in memory is the committed one, also after  *)
(* a kill and an open that succeeded: commit_mutable_ ends with remap_,    *)
(* and the shrink of defrag refreshes what it changed.                     *)
(***************************************************************************)
THEOREM ReopenSeesSameAlways == Spec /\ Plain => []ReopenSeesSame
<1>1. IInv => ReopenSeesSame
  <2> SUFFICES ASSUME IInv, op = Idle PROVE ReopenSeesSame
    BY DEF ReopenSeesSame
  <2>1. CASE fault = "none"
    <3>1. Live
      BY <2>1 DEF IInv, Idle, Failed
    <3>2. AtRest /\ TableWritten /\ Tab = sb.leaf_table
      BY DEF AtRest, TableWritten, Tab, Idle, Mutations
    <3>3. Synced /\ ObjectAt(store, sb.leaf_table) = Table(leaf_table)
      BY <3>1, <3>2 DEF Live, CommitOK
    <3>4. QED
      BY <3>3 DEF Synced, ReopenSeesSame
  <2>2. CASE fault # "none"
    BY <2>2 DEF IInv, Killed, ReopenSeesSame
  <2>3. QED
    BY <2>1, <2>2
<1>2. QED
  BY <1>1, IInvAlways, PTL

(***************************************************************************)
(* After any sequence of inserts with their splits, deletes, vacuums and   *)
(* defrags each row is in as many leaves as the build or the insert gave   *)
(* it, no leaf stays above twice its capacity, and manifest_.n_vectors is  *)
(* the number of rows, in memory and in the committed blob.  The callers   *)
(* pass no id twice in one delete: delete_batch counts an id as often as   *)
(* it was passed.                                                          *)
(***************************************************************************)
THEOREM RowsKeepCopiesAlways ==
  ASSUME DuplicateIds = FALSE
  PROVE  FsckSpec /\ Plain => []RowsKeepCopies
<1>1. NoFault => RowsKeepCopies
  <2> SUFFICES ASSUME IInv, op = Idle, fault = "none" PROVE RowsKeepCopies
    BY DEF RowsKeepCopies, NoFault
  <2>1. Live
    BY DEF IInv, Idle, Failed
  <2>2. AtRest /\ CountWritten /\ ~Inserting /\ ~Deleting /\ ~Splitting
    BY DEF AtRest, CountWritten, Inserting, Deleting, Splitting, Idle
  <2>3. DOMAIN leaf_table = 1 .. Len(leaf_table)
    BY <2>1, IsReady DEF Ready
  <2>4. rows = UNION {LeafOf(store, l).rows : l \in 1 .. Len(leaf_table)}
    BY <2>1, <2>2, <2>3 DEF Live, RowsOK, Held
  <2>5. CopiesKept /\ rows = Held /\ Oversized = {} /\ n_vectors = Cardinality(rows)
    BY <2>1, <2>2 DEF Live, RowsOK
  <2>8. ASSUME NEW r \in rows PROVE Cardinality(Copies(r)) = Given(r)
    <3>1. Copies(r) = Holders(r)
      BY <2>3 DEF Copies, Holders
    <3>2. QED
      BY <2>5, <3>1 DEF CopiesKept
  <2>6. ObjectAt(store, disk_sb.config) = Config(n_vectors)
    BY <2>1, <2>2 DEF Live, CommitOK, Synced
  <2>7. QED
    BY <2>4, <2>5, <2>6, <2>8 DEF RowsKeepCopies, Given
<1>2. QED
  BY <1>1, NoFaultAlways, PTL

\* fsck with repair rewrites no file whose mutations all came to their end: only a kill
\* leaves page accounting for it to mend.
THEOREM RepairOnlyAfterKill == FsckSpec /\ Plain => [][fsck_repair => fault # "none"]_vars
<1>1. NoFault => (fsck_repair => fault # "none")
  BY NoRepair DEF NoFault
<1>2. QED
  BY <1>1, NoFaultAlways, PTL

\* With copies the walk counts each row at least once.
LEMMA RowsCountedTwice ==
  ASSUME Rested, IsFiniteSet(Held)
  PROVE  TotalLeafCount >= Cardinality(Held)
<1>1. WalkOK /\ GoodSlots = Places
  BY WalkFacts, WalkedGood
<1> DEFINE id(slot) == LeafIdAt(store, slot)
           P == UNION {{slot} \X ObjectAt(store, WalkedLeaves[slot]).rows : slot \in Places}
<1>2. ASSUME NEW slot \in Places
      PROVE  id(slot) \in DOMAIN leaf_table
             /\ ObjectAt(store, WalkedLeaves[slot]).rows = LeafOf(store, id(slot)).rows
  BY <1>1 DEF WalkOK, LeafOf
<1>3. \A x : x \in P <=> \E slot \in Places : \E r \in LeafOf(store, id(slot)).rows : x = <<slot, r>>
  BY <1>2
<1>4. TotalLeafCount = Cardinality(P)
  BY <1>1 DEF TotalLeafCount
<1> HIDE DEF P, id
<1>5. ASSUME NEW r \in Held PROVE \E x \in P : x[2] = r
  <2>1. PICK l \in DOMAIN leaf_table : r \in LeafOf(store, l).rows
    BY DEF Held
  <2>2. PICK slot \in Places : id(slot) = l
    BY <1>1 DEF WalkOK, id
  <2>3. <<slot, r>> \in P
    BY <1>3, <2>1, <2>2
  <2>4. QED
    BY <2>3
<1>6. IsFiniteSet(P)
  <2>1. IsFiniteSet(Places)
    <3>1. PICK Q : Q = Places
      OBVIOUS
    <3>2. \A slot \in Q : id(slot) \in DOMAIN leaf_table
      BY <1>2, <3>1
    <3>3. \A s, t \in Q : id(s) = id(t) => s = t
      BY <1>1, <3>1 DEF WalkOK, id
    <3>4. PICK g : g = [slot \in Q |-> id(slot)]
      OBVIOUS
    <3>5. g \in Injection(Q, DOMAIN leaf_table)
      <4>1. g \in [Q -> DOMAIN leaf_table] /\ \A s, t \in Q : g[s] = g[t] => s = t
        BY <3>2, <3>3, <3>4
      <4>2. QED
        BY <4>1 DEF Injection, IsInjective
    <3>6. IsFiniteSet(DOMAIN leaf_table)
      BY FS_Interval DEF Rested, Ready
    <3>7. QED
      BY <3>1, <3>5, <3>6, FS_Injection
  <2>2. IsFiniteSet(Places \X Held)
    BY <2>1, FS_Product
  <2>3. P \subseteq Places \X Held
    BY <1>2, <1>3 DEF Held
  <2>4. QED
    BY <2>2, <2>3, FS_Subset
<1> DEFINE f == [r \in Held |-> CHOOSE x \in P : x[2] = r]
<1>7. \A r \in Held : f[r] \in P /\ f[r][2] = r
  BY <1>5
<1>8. f \in [Held -> P]
  BY <1>7
<1> HIDE DEF f
<1>9. f \in Injection(Held, P)
  <2>1. \A r, q \in Held : f[r] = f[q] => r = q
    BY <1>7
  <2>2. QED
    BY <1>8, <2>1 DEF Injection, IsInjective
<1>10. Cardinality(Held) <= Cardinality(P)
  BY <1>6, <1>9, FS_Injection
<1>11. QED
  BY <1>4, <1>6, <1>10, FS_CardinalityType

\* What fsck finds on an index between mutations.
LEMMA CleanAtRest ==
  ASSUME DuplicateIds = FALSE, IInv, fault = "none", op = Idle
  PROVE  FsckClean
<1>1. Live /\ Rested
  BY IsRested
<1>2. all_ok /\ Range(WalkedLeaves) = Range(leaf_table)
      /\ Cardinality(DOMAIN WalkedLeaves) = Len(leaf_table)
  BY <1>1, AllOk, WalkedGood, PlacesCount
<1>3. ~Inserting /\ ~Deleting
  BY DEF Inserting, Deleting, Idle
<1>4. rows = Held /\ Cardinality(rows) = n_vectors /\ CopiesKept
  BY <1>1, <1>3 DEF Live, RowsOK
<1>5. IsFiniteSet(Held)
  BY <1>1, HeldFinite
<1>6. TotalLeafCount >= n_vectors
  BY <1>1, <1>4, <1>5, RowsCountedTwice
<1>7. ASSUME NoClosure PROVE TotalLeafCount = n_vectors
  <2>1. Ready
    BY <1>1, IsReady
  <2>2. ASSUME NEW k \in DOMAIN leaf_table, NEW l \in DOMAIN leaf_table, k # l,
               NEW r \in LeafOf(store, k).rows \cap LeafOf(store, l).rows
        PROVE  FALSE
    <3>1. r \in rows /\ r \in manifest.rows
      BY <1>4, <2>1, <2>2 DEF Held, Ready, LeafOK
    <3>2. Cardinality(Holders(r)) = Given(r) /\ Given(r) <= 1
      BY <1>4, <1>7, <3>1 DEF CopiesKept, Given, NoClosure
    <3>3. IsFiniteSet(Holders(r)) /\ {k, l} \subseteq Holders(r)
      <4>1. IsFiniteSet(DOMAIN leaf_table)
        BY <2>1, FS_Interval DEF Ready
      <4>2. Holders(r) \subseteq DOMAIN leaf_table /\ {k, l} \subseteq Holders(r)
        BY <2>2 DEF Holders
      <4>3. QED
        BY <4>1, <4>2, FS_Subset
    <3>4. Cardinality({k, l}) = 2
      BY <2>2, PairCount
    <3>5. Cardinality({k, l}) <= Cardinality(Holders(r)) /\ Cardinality(Holders(r)) \in Nat
      BY <3>3, FS_Subset, FS_CardinalityType
    <3>6. QED
      BY <3>2, <3>4, <3>5
  <2>3. QED
    BY <1>1, <1>4, <1>5, <2>2, RowsCounted
<1>8. QED
  BY <1>2, <1>6, <1>7 DEF FsckClean

(***************************************************************************)
(* fsck finds nothing wrong between mutations: after any sequence of       *)
(* completed mutations the committed bitmap marks exactly the pages the    *)
(* tree and the superblock reach, the walk meets every leaf of the table   *)
(* once, and the leaves' row counts add up to at least manifest_.n_vectors *)
(* and to exactly it on an index built without closure copies.             *)
(***************************************************************************)
THEOREM FsckCleanAlways ==
  ASSUME DuplicateIds = FALSE
  PROVE  Spec /\ Plain => []FsckClean
<1>1. IInv => FsckClean
  <2>1. ASSUME IInv, op = Idle, fault # "killed" PROVE FsckClean
    BY <2>1, CleanAtRest DEF IInv
  <2>2. QED
    BY <2>1 DEF FsckClean
<1>2. QED
  BY <1>1, IInvAlways, PTL

(***************************************************************************)
(* The same when fsck --repair may run between mutations: as long as no    *)
(* mutation was killed it finds nothing, and so changes nothing.           *)
(***************************************************************************)
THEOREM FsckCleanUnlessKilled ==
  ASSUME DuplicateIds = FALSE
  PROVE  FsckSpec /\ Plain => [](fault = "none" => FsckClean)
<1>1. NoFault => (fault = "none" => FsckClean)
  <2>1. ASSUME IInv, op = Idle, fault = "none" PROVE FsckClean
    BY <2>1, CleanAtRest
  <2>2. QED
    BY <2>1 DEF FsckClean, NoFault
<1>2. QED
  BY <1>1, NoFaultAlways, PTL

=============================================================================
