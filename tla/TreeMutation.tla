---------------------------- MODULE TreeMutation ----------------------------
(***************************************************************************)
(* The mutations of the IVF tree index (src/tree/ivf_tree_mutate.cpp):     *)
(* insert_batch with its leaf splits, delete_batch, vacuum, defrag with    *)
(* its optional file shrink, and commit_mutable_, over a file of pages and *)
(* the bitmap allocator.  One mutation runs at a time; a mutation is a     *)
(* sequence of steps, one per leaf, split, blob or commit stage, and the   *)
(* process may be killed between two of them (manifest.kill).              *)
(*                                                                         *)
(* The file holds objects: leaves, internal nodes, the leaf table, the     *)
(* manifest blob, the cardinality blob and payload extents.  A write of k  *)
(* pages stores k cells [o |-> object, i |-> 0 .. k-1], so that an extent  *)
(* partly overwritten by another write, or by the allocator's free-list    *)
(* link, can be told from one that is whole.  Vectors, codes, centroids    *)
(* and filter columns are left out: a leaf is its set of row ids, its      *)
(* summary_dirty flag and its payload extent; routing picks any leaf.      *)
(***************************************************************************)
EXTENDS Integers, Sequences, FiniteSets, Functions

CONSTANTS
  Rows,             \* row ids
  Indexes,          \* the built indexes a behaviour may start from
  RowsPerPage,      \* rows that fit one page of a leaf or payload extent
  ChildrenPerPage,  \* child entries that fit one page of a node
  BatchSize,        \* VacuumConfig / DefragConfig::batch_size
  DuplicateIds,     \* whether a delete request may repeat a row id
  Nil               \* kInvalidPage

\* An index: the rows of each built leaf by leaf id (closure assignment puts a row
\* near a boundary into several leaves), the first leaf id of each last-level node (and the end of the last one), the row ids its callers use,
\* manifest_.depth, manifest_.leaf_capacity, manifest_.schema.has_payload, the values
\* of DefragConfig::shrink_file its callers use, the bound on the mutations and
\* whether the process may be killed during one.
IsIndex(c) ==
  /\ c.depth \in 1 .. 3 /\ (c.depth = 1 => Len(c.first) = 2)
  /\ c.rows \subseteq Rows /\ IsFiniteSet(c.rows)
  /\ c.leaf_capacity \in Nat \ {0}
  /\ c.has_payload \in BOOLEAN
  /\ c.shrink_file \subseteq BOOLEAN
  /\ c.max_ops \in Nat /\ c.kill \in BOOLEAN
  /\ c.leaves \in Seq(SUBSET c.rows)
  /\ \A l \in DOMAIN c.leaves : /\ Cardinality(c.leaves[l]) <= RowsPerPage
                                /\ Cardinality(c.leaves[l]) <= 2 * c.leaf_capacity
  /\ c.first \in Seq(Nat) /\ Len(c.first) - 1 \in 1 .. ChildrenPerPage
  /\ c.first[1] = 1 /\ c.first[Len(c.first)] = Len(c.leaves) + 1
  /\ \A g, h \in DOMAIN c.first : g < h => c.first[g] < c.first[h]
  /\ \A g \in 1 .. Len(c.first) - 1 : c.first[g + 1] - c.first[g] <= ChildrenPerPage

ASSUME ConstantsAssumption ==
  /\ RowsPerPage \in Nat \ {0} /\ ChildrenPerPage \in Nat \ {0}
  /\ BatchSize \in Nat \ {0}
  /\ Nil \notin Nat
  /\ \A c \in Indexes : IsIndex(c)

VARIABLES
  manifest,        \* the index: what the build fixed
  store,           \* [file, bm, n, head, ok]: page file and PageAllocator
  disk_bm,         \* the bitmap region as last flushed
  disk_sb,         \* the committed superblock
  sb,              \* superblock_, the in-memory copy
  leaf_table,      \* leaf_table_: leaf id -> extent
  root_children,   \* root_children_: the root's child extents at the last remap_
  n_vectors,       \* manifest_.n_vectors
  n_vectors_disk,  \* n_vectors_disk_
  op,              \* the mutation in progress and where it stands
  ops,             \* mutations started so far (bounded by max_ops)
  rows,            \* history: the rows the calls made so far should leave
  fresh,           \* history: the rows inserted since the build
  fault            \* history: "none", "killed" during a mutation, or "repaired" since

vars == <<manifest, store, disk_bm, disk_sb, sb, leaf_table, root_children, n_vectors,
          n_vectors_disk, op, ops, rows, fresh, fault>>

Depth == manifest.depth
LeafCap == manifest.leaf_capacity
HasPayload == manifest.has_payload

NoExtent == <<Nil, 0>>
Mutations == {"insert", "delete", "vacuum", "defrag"}
Idle == [kind |-> "idle"]
Failed == [kind |-> "failed"]
Down == [kind |-> "down"]        \* no process has the index open
Corrupt == [kind |-> "corrupt"]  \* the last open threw
Garbage == -1           \* a page id decoded from data: no page of the file
Reserved == 0 .. 2      \* the two superblock pages and the bitmap region

Pages(e) == e[1] .. e[1] + e[2] - 1
Lowest(S) == CHOOSE x \in S : \A y \in S : x <= y
Highest(S) == CHOOSE x \in S : \A y \in S : y <= x
CeilDiv(a, b) == IF a = 0 THEN 1 ELSE (a + b - 1) \div b

\* leaf_extent_pages, node_extent_pages and the payload extent's size.
LeafPages(R) == CeilDiv(Cardinality(R), RowsPerPage)
NodePages(children) == CeilDiv(Len(children), ChildrenPerPage)

\* The objects a page can hold.
Leaf(R, dirty, payload) ==
  [kind |-> "leaf", rows |-> R, dirty |-> dirty, payload |-> payload]
Node(children) == [kind |-> "node", children |-> children]
Table(entries) == [kind |-> "table", entries |-> entries]
Config(n) == [kind |-> "config", n |-> n]
Card == [kind |-> "card"]
Payload(R) == [kind |-> "payload", rows |-> R]
FreeLink(next) == [kind |-> "free", next |-> next]
Zero == [kind |-> "free", next |-> 0]
LeafChild(lid) == [leaf |-> TRUE, page |-> lid, pages |-> 0]
NodeChild(e) == [leaf |-> FALSE, page |-> e[1], pages |-> e[2]]

-----------------------------------------------------------------------------
(***************************************************************************)
(* The page file and the allocator, as functions of the store.  A read     *)
(* past the end of the file throws: ok becomes FALSE and nothing after it  *)
(* in the call takes effect.                                               *)
(***************************************************************************)
Cell(o, i) == [o |-> o, i |-> i]

\* PageFile::write_pages of k pages.
write_pages(s, p, k, o) ==
  IF ~s.ok THEN s
  ELSE [s EXCEPT !.file = [q \in DOMAIN @ \cup Pages(<<p, k>>) |->
                             IF q \in Pages(<<p, k>>) THEN Cell(o, q - p)
                             ELSE @[q]]]

\* PageFile::read_pages: the object whose write starts at the extent.
ObjectAt(s, e) ==
  IF e[1] \in DOMAIN s.file THEN s.file[e[1]].o ELSE FreeLink(Nil)

Whole(s, e) ==
  \A p \in Pages(e) : p \in DOMAIN s.file /\ s.file[p] = Cell(ObjectAt(s, e), p - e[1])

FreeRuns(s, k) == {p \in 0 .. s.n - k : Pages(<<p, k>>) \cap s.bm = {}}

Take(s, p, k) == [s EXCEPT !.bm = @ \cup Pages(<<p, k>>)]

\* PageAllocator::grow: the file ends k pages after the allocator's n_pages_.
Grow(s, k) ==
  [s EXCEPT !.n = @ + k,
            !.file = [q \in 0 .. s.n + k - 1 |->
                        IF q \in DOMAIN @ THEN @[q] ELSE Cell(Zero, 0)]]

\* The lowest free run of k pages, growing the file when there is none.
ScanOrGrow(s, k) ==
  LET g == IF FreeRuns(s, k) = {} THEN Grow(s, k) ELSE s
      p == Lowest(FreeRuns(g, k))
  IN [page |-> p, s |-> Take(g, p, k)]

\* alloc_page pops the head when its bit is clear; a set bit means the list is
\* stale, and it is dropped.
alloc_page(s) ==
  IF s.head # Nil /\ s.head \notin s.bm
  THEN IF s.head \in DOMAIN s.file
       THEN [page |-> s.head,
             s |-> [Take(s, s.head, 1) EXCEPT !.head =
                      IF s.file[s.head].o.kind = "free"
                      THEN s.file[s.head].o.next ELSE Garbage]]
       ELSE [page |-> s.head, s |-> [s EXCEPT !.ok = FALSE]]
  ELSE ScanOrGrow([s EXCEPT !.head = Nil], 1)

alloc_extent(s, k) ==
  IF ~s.ok THEN [page |-> 0, s |-> s]
  ELSE IF k = 1 THEN alloc_page(s) ELSE ScanOrGrow(s, k)

\* free_extent: each allocated page is cleared and linked before the head.
free_extent(s, e) ==
  LET freed == IF s.ok /\ e[1] # Nil THEN Pages(e) \cap s.bm ELSE {}
      Before(p) == {q \in freed : q < p}
  IN IF freed = {} THEN s
     ELSE [s EXCEPT
             !.bm = @ \ freed,
             !.head = Highest(freed),
             !.file = [q \in DOMAIN @ |->
                         IF q \notin freed THEN @[q]
                         ELSE Cell(FreeLink(IF Before(q) = {} THEN s.head
                                            ELSE Highest(Before(q))), 0)]]

clear_free_list(s) == [s EXCEPT !.head = Nil]

\* Allocate an extent for an object and write it there.
Place(s, o, k) ==
  LET a == alloc_extent(s, k)
  IN [e |-> <<a.page, k>>, s |-> write_pages(a.s, a.page, k, o)]

\* PageAllocator::load from the committed superblock and the bitmap region.
load(s) == [s EXCEPT !.bm = disk_bm, !.n = sb.n_pages, !.head = sb.head]

-----------------------------------------------------------------------------
\* The superblock's fields this module follows.
Superblock(root, lt, config, card, n, head) ==
  [root |-> root, leaf_table |-> lt, config |-> config, card |-> card,
   n_pages |-> n, head |-> head]

Children(s, e) ==
  LET o == ObjectAt(s, e) IN IF o.kind = "node" THEN o.children ELSE <<>>

\* The extents of the internal nodes a node's child entries name.
NodeChildren(s, e) ==
  {<<c.page, c.pages>> : c \in {d \in {Children(s, e)[i] :
                                       i \in DOMAIN Children(s, e)} : ~d.leaf}}

\* The internal nodes at each level below the root.
NodesAt(s, root) ==
  LET level[k \in 0 .. Depth - 1] ==
        IF k = 0 THEN {root} ELSE UNION {NodeChildren(s, e) : e \in level[k - 1]}
  IN level

AllNodes(s, root) == UNION {NodesAt(s, root)[k] : k \in 0 .. Depth - 1}

\* The (node, slot) places of the tree that name a leaf.
LeafSlots(s, root) ==
  UNION {{<<e, i>> : i \in {j \in DOMAIN Children(s, e) : Children(s, e)[j].leaf}} :
           e \in NodesAt(s, root)[Depth - 1]}

LeafIdAt(s, slot) == Children(s, slot[1])[slot[2]].page

LeafOf(s, lid) == ObjectAt(s, leaf_table[lid])

-----------------------------------------------------------------------------
\* Mutant: a leaf that needs one page more is still written in place.
WriteLeafOverflows(s, lid, leaf) ==
  LET e == leaf_table[lid]
      k == LeafPages(leaf.rows)
      a == Place(s, leaf, k)
  IN IF k <= e[2] + 1
     THEN [e |-> <<e[1], k>>,
           s |-> free_extent(write_pages(s, e[1], k, leaf), <<e[1] + k, e[2] - k>>)]
     ELSE [e |-> a.e, s |-> free_extent(a.s, e)]

(***************************************************************************)
(* write_leaf_: in place when the extent does not grow, freeing the tail   *)
(* it no longer needs; otherwise to a new extent, the old one freed.       *)
(***************************************************************************)
write_leaf_(s, lid, leaf) ==
  LET e == leaf_table[lid]
      k == LeafPages(leaf.rows)
      a == Place(s, leaf, k)
  IN IF k <= e[2]
     THEN [e |-> <<e[1], k>>,
           s |-> free_extent(write_pages(s, e[1], k, leaf), <<e[1] + k, e[2] - k>>)]
     ELSE [e |-> a.e, s |-> free_extent(a.s, e)]

\* A step leaves the store s and goes on as `next`, unless something threw.
Continue(s, next) ==
  /\ store' = s
  /\ op' = IF s.ok THEN next ELSE Failed

\* A mutation begins; after a kill, only once fsck has found the tree in order.
Start == op = Idle /\ fault # "killed" /\ ops < manifest.max_ops /\ ops' = ops + 1

Commit(o, then) == [o EXCEPT !.pc = "commit", !.then = then]

-----------------------------------------------------------------------------
(***************************************************************************)
(* insert_batch: every point is routed to a leaf of the tree before any    *)
(* leaf changes, and the allocator is loaded.                              *)
(***************************************************************************)
insert_batch(route) ==
  /\ Start
  /\ store' = load(store)
  /\ op' = [kind |-> "insert", pc |-> "leaves", then |-> "split", route |-> route,
            added |-> Cardinality(DOMAIN route), cursor |-> 1, split |-> FALSE,
            lt |-> NoExtent]
  /\ rows' = rows \cup DOMAIN route
  /\ fresh' = fresh \cup DOMAIN route
  /\ UNCHANGED <<manifest, disk_bm, disk_sb, sb, leaf_table, root_children, n_vectors,
                 n_vectors_disk, fault>>

\* The payload extent a leaf gets: the old one is copied with the leaf's own row
\* count, so only an extent written for exactly these rows is read right.
PayloadRows(old, added) ==
  IF old.payload = NoExtent \/ ObjectAt(store, old.payload) # Payload(old.rows)
  THEN added ELSE old.rows \cup added

(***************************************************************************)
(* One leaf of the batch: the payload extent is rebuilt and the old one    *)
(* freed, then the leaf is rewritten with the new rows.  The leaves come   *)
(* in the order of an unordered_map.  After the last one the row count     *)
(* grows by the batch.                                                     *)
(***************************************************************************)
insert_leaf(lid) ==
  /\ op.kind = "insert" /\ op.pc = "leaves"
  /\ LET old   == LeafOf(store, lid)
         added == {r \in DOMAIN op.route : op.route[r] = lid}
         R     == old.rows \cup added
         pay   == Place(store, Payload(PayloadRows(old, added)), LeafPages(R))
         s1    == IF HasPayload THEN free_extent(pay.s, old.payload) ELSE store
         w     == write_leaf_(s1, lid, Leaf(R, old.dirty, IF HasPayload THEN pay.e
                                                         ELSE old.payload))
         rest  == [r \in DOMAIN op.route \ added |-> op.route[r]]
         last  == DOMAIN rest = {}
     IN /\ added # {}
        /\ Continue(w.s, [op EXCEPT !.route = rest,
                                    !.pc = IF last THEN "commit" ELSE "leaves"])
        /\ leaf_table' = [leaf_table EXCEPT ![lid] = w.e]
        /\ n_vectors' = IF last /\ w.s.ok THEN n_vectors + op.added ELSE n_vectors
  /\ UNCHANGED <<manifest, disk_bm, disk_sb, sb, root_children, n_vectors_disk, ops, rows, fresh, fault>>

-----------------------------------------------------------------------------
\* Mutant: the parents are looked up in root_children_ at every depth.
ParentNodesCached(s) ==
  LET kids == Children(s, sb.root)
  IN {[gp |-> sb.root, slot |-> Lowest({1} \cup {i \in DOMAIN kids :
                                               <<kids[i].page, kids[i].pages>> = e}),
       node |-> e] : e \in root_children}

\* Where add_child_to_parent_ looks for the parents of leaves: pairs of a node
\* and the slot of its own parent that names it.  At depth 3 it starts from the
\* in-memory root_children_, at depth 2 from the root as the file has it.
ParentNodes(s) ==
  LET Named(g) == {[gp |-> g, slot |-> i,
                    node |-> <<Children(s, g)[i].page, Children(s, g)[i].pages>>] :
                     i \in {j \in DOMAIN Children(s, g) : ~Children(s, g)[j].leaf}}
  IN CASE Depth = 1 -> {[gp |-> NoExtent, slot |-> 0, node |-> sb.root]}
       [] Depth = 2 -> Named(sb.root)
       [] Depth = 3 -> UNION {Named(l1) : l1 \in root_children}

\* add_child_to_parent_ with update_internal_child_: the new leaf is appended to
\* the parent of the old one; a parent that outgrows its extent moves, and its own
\* parent (or the superblock) is pointed at the new place.  A parent that is not
\* found is logged and the new leaf stays out of the tree.
add_child_to_parent_(s, lid, new) ==
  LET hit   == {q \in ParentNodes(s) : LeafChild(lid) \in Range(Children(s, q.node))}
      par   == CHOOSE q \in hit : TRUE
      chs   == Append(Children(s, par.node), LeafChild(new))
      k     == NodePages(chs)
      moved == Place(s, Node(chs), k)
      freed == free_extent(moved.s, par.node)
      up    == Node([Children(freed, par.gp) EXCEPT ![par.slot] = NodeChild(moved.e)])
  IN IF hit = {} THEN [s |-> s, root |-> sb.root]
     ELSE IF k <= par.node[2]
     THEN [s |-> write_pages(s, par.node[1], k, Node(chs)), root |-> sb.root]
     ELSE IF par.gp = NoExtent
     THEN [s |-> freed, root |-> moved.e]
     ELSE [s |-> write_pages(freed, par.gp[1], par.gp[2], up), root |-> sb.root]

\* The leaves the split loop finds above twice the leaf capacity.
Oversized ==
  {lid \in 1 .. Len(leaf_table) : Cardinality(LeafOf(store, lid).rows) > 2 * LeafCap}

\* The next leaf the ascending scan splits, scanning again from the start when it
\* has passed the end.
NextOversized ==
  IF \E l \in Oversized : l >= op.cursor
  THEN Lowest({l \in Oversized : l >= op.cursor}) ELSE Lowest(Oversized)

(***************************************************************************)
(* split_leaf_: two new leaves, whose headers start as copies of the old   *)
(* one's; the old extent is freed; the first takes the old id, the second  *)
(* the next id and a place in the parent node.                             *)
(***************************************************************************)
split_leaf_(group0) ==
  /\ op.kind = "insert" /\ op.pc = "split"
  /\ Oversized # {}
  /\ LET lid == NextOversized
         old == LeafOf(store, lid)
         g1  == old.rows \ group0
         a   == Place(store, [old EXCEPT !.rows = group0], LeafPages(group0))
         b   == Place(a.s, [old EXCEPT !.rows = g1], LeafPages(g1))
         s1  == free_extent(b.s, leaf_table[lid])
         up  == add_child_to_parent_(s1, lid, Len(leaf_table) + 1)
     IN /\ group0 # {} /\ group0 \subseteq old.rows /\ g1 # {}
        /\ leaf_table' = Append([leaf_table EXCEPT ![lid] = a.e], b.e)
        /\ sb' = [sb EXCEPT !.root = up.root]
        /\ Continue(up.s, [op EXCEPT !.cursor = lid + 1, !.split = TRUE])
  /\ UNCHANGED <<manifest, disk_bm, disk_sb, root_children, n_vectors, n_vectors_disk, ops,
                 rows, fresh, fault>>

\* The split loop found nothing: commit again when it had split anything.
splits_done ==
  /\ op.kind = "insert" /\ op.pc = "split"
  /\ Oversized = {}
  /\ op' = IF op.split THEN Commit(op, "idle") ELSE Idle
  /\ UNCHANGED <<manifest, store, disk_bm, disk_sb, sb, leaf_table, root_children, n_vectors,
                 n_vectors_disk, ops, rows, fresh, fault>>

-----------------------------------------------------------------------------
\* Mutant: only the slot found last for an id is deleted, and its other copies stay.
DeleteBatchLastCopy(ids, repeats) ==
  /\ Start
  /\ ~HasPayload
  /\ LET hit(lid) == {r \in LeafOf(store, lid).rows \cap ids :
                        \A l \in lid + 1 .. Len(leaf_table) : r \notin LeafOf(store, l).rows}
         todo     == {lid \in 1 .. Len(leaf_table) : hit(lid) # {}}
         found    == UNION {hit(lid) : lid \in todo}
     IN /\ todo # {}
        /\ n_vectors' = n_vectors - Cardinality(found) - Cardinality(repeats \cap found)
        /\ op' = [kind |-> "delete", pc |-> "leaves", then |-> "idle", ids |-> ids,
                  todo |-> todo, lt |-> NoExtent]
  /\ store' = load(store)
  /\ rows' = rows \ ids
  /\ UNCHANGED <<manifest, disk_bm, disk_sb, sb, leaf_table, root_children, n_vectors_disk,
                 fresh, fault>>

(***************************************************************************)
(* delete_batch: all leaves are scanned for the requested ids; the row     *)
(* count drops by the requested ids that were found, one for each time an  *)
(* id was passed (`repeats` are the ids passed twice).                     *)
(***************************************************************************)
delete_batch(ids, repeats) ==
  /\ Start
  /\ ~HasPayload
  /\ LET hit(lid) == LeafOf(store, lid).rows \cap ids
         todo     == {lid \in 1 .. Len(leaf_table) : hit(lid) # {}}
         found    == UNION {hit(lid) : lid \in todo}
     IN /\ todo # {}
        /\ n_vectors' = n_vectors - Cardinality(found) - Cardinality(repeats \cap found)
        /\ op' = [kind |-> "delete", pc |-> "leaves", then |-> "idle", ids |-> ids,
                  todo |-> todo, lt |-> NoExtent]
  /\ store' = load(store)
  /\ rows' = rows \ ids
  /\ UNCHANGED <<manifest, disk_bm, disk_sb, sb, leaf_table, root_children, n_vectors_disk,
                 fresh, fault>>

\* One leaf with deletions is compacted to its survivors and marked dirty.
delete_leaf(lid) ==
  /\ op.kind = "delete" /\ op.pc = "leaves"
  /\ lid \in op.todo
  /\ LET old == LeafOf(store, lid)
         w   == write_leaf_(store, lid, Leaf(old.rows \ op.ids, TRUE, old.payload))
     IN /\ Continue(w.s, [op EXCEPT !.todo = @ \ {lid},
                                    !.pc = IF op.todo = {lid} THEN "commit"
                                           ELSE "leaves"])
        /\ leaf_table' = [leaf_table EXCEPT ![lid] = w.e]
  /\ UNCHANGED <<manifest, disk_bm, disk_sb, sb, root_children, n_vectors, n_vectors_disk, ops,
                 rows, fresh, fault>>

-----------------------------------------------------------------------------
\* vacuum and defrag walk the leaf table and commit every BatchSize leaves.
Sweep(kind, flag) ==
  [kind |-> kind, pc |-> "leaves", then |-> "leaves", cursor |-> 1, count |-> 0,
   flag |-> flag, lt |-> NoExtent]

\* Mutant: the sweep commits without moving on to the next leaf.
SweptInPlace(lid) ==
  IF op.count + 1 >= BatchSize
  THEN Commit([op EXCEPT !.count = 0], "leaves")
  ELSE [op EXCEPT !.count = @ + 1]

Swept(lid) ==
  IF op.count + 1 >= BatchSize
  THEN Commit([op EXCEPT !.cursor = lid + 1, !.count = 0], "leaves")
  ELSE [op EXCEPT !.cursor = lid + 1, !.count = @ + 1]

\* The loop is over: commit the rest of the batch, then go on at `then`.
SweepDone(then) ==
  IF op.count > 0 THEN Commit([op EXCEPT !.count = 0], then)
  ELSE IF then = "idle" THEN Idle ELSE [op EXCEPT !.pc = then]

sweep_begin(kind, flag) ==
  /\ Start
  /\ store' = load(store)
  /\ op' = Sweep(kind, flag)
  /\ UNCHANGED <<manifest, disk_bm, disk_sb, sb, leaf_table, root_children, n_vectors,
                 n_vectors_disk, rows, fresh, fault>>

vacuum(rebuild_cardinality) == sweep_begin("vacuum", rebuild_cardinality)

defrag(shrink_file) == sweep_begin("defrag", shrink_file)

DirtyAhead == {lid \in op.cursor .. Len(leaf_table) : LeafOf(store, lid).dirty}

\* vacuum, pass 1: the next dirty leaf gets its summary rebuilt, in place.
vacuum_leaf ==
  /\ op.kind = "vacuum" /\ op.pc = "leaves"
  /\ DirtyAhead # {}
  /\ LET lid == Lowest(DirtyAhead)
         w   == write_leaf_(store, lid, [LeafOf(store, lid) EXCEPT !.dirty = FALSE])
     IN Continue(w.s, Swept(lid)) /\ leaf_table' = [leaf_table EXCEPT ![lid] = w.e]
  /\ UNCHANGED <<manifest, disk_bm, disk_sb, sb, root_children, n_vectors, n_vectors_disk, ops,
                 rows, fresh, fault>>

vacuum_leaves_done ==
  /\ op.kind = "vacuum" /\ op.pc = "leaves"
  /\ DirtyAhead = {}
  /\ op' = SweepDone("cardinality")
  /\ UNCHANGED <<manifest, store, disk_bm, disk_sb, sb, leaf_table, root_children, n_vectors,
                 n_vectors_disk, ops, rows, fresh, fault>>

\* vacuum, pass 2: a new cardinality blob replaces the old one, when asked for.
vacuum_cardinality ==
  /\ op.kind = "vacuum" /\ op.pc = "cardinality"
  /\ LET c == Place(store, Card, 1)
     IN IF op.flag
        THEN /\ Continue(free_extent(c.s, sb.card), Commit(op, "idle"))
             /\ sb' = [sb EXCEPT !.card = c.e]
        ELSE op' = Idle /\ UNCHANGED <<store, sb>>
  /\ UNCHANGED <<manifest, disk_bm, disk_sb, leaf_table, root_children, n_vectors,
                 n_vectors_disk, ops, rows, fresh, fault>>

\* defrag: the next leaf moves to the lowest free run.
defrag_leaf ==
  /\ op.kind = "defrag" /\ op.pc = "leaves"
  /\ op.cursor <= Len(leaf_table)
  /\ LET lid == op.cursor
         e   == leaf_table[lid]
         a   == Place(store, LeafOf(store, lid), e[2])
     IN /\ Continue(free_extent(a.s, e), Swept(lid))
        /\ leaf_table' = [leaf_table EXCEPT ![lid] = a.e]
  /\ UNCHANGED <<manifest, disk_bm, disk_sb, sb, root_children, n_vectors, n_vectors_disk, ops,
                 rows, fresh, fault>>

defrag_leaves_done ==
  /\ op.kind = "defrag" /\ op.pc = "leaves"
  /\ op.cursor > Len(leaf_table)
  /\ op' = SweepDone(IF op.flag THEN "shrink" ELSE "idle")
  /\ UNCHANGED <<manifest, store, disk_bm, disk_sb, sb, leaf_table, root_children, n_vectors,
                 n_vectors_disk, ops, rows, fresh, fault>>

\* The end of the last extent the shrink considers.
MaxEnd ==
  Highest({e[1] + e[2] : e \in {leaf_table[l] : l \in 1 .. Len(leaf_table)}
                            \cup {<<2, 1>>, sb.root, sb.config, sb.card, sb.leaf_table}})

\* The shrink cuts the file first ...
defrag_truncate ==
  /\ op.kind = "defrag" /\ op.pc = "shrink"
  /\ IF MaxEnd \in DOMAIN store.file
     THEN /\ store' = [store EXCEPT !.file = [p \in 0 .. MaxEnd - 1 |-> @[p]]]
          /\ op' = [op EXCEPT !.pc = "shrink_commit"]
     ELSE op' = Idle /\ UNCHANGED store
  /\ UNCHANGED <<manifest, disk_bm, disk_sb, sb, leaf_table, root_children, n_vectors,
                 n_vectors_disk, ops, rows, fresh, fault>>

\* ... and then writes the bitmap and the superblock, whose free-list head is left
\* as the last commit set it.
defrag_commit ==
  /\ op.kind = "defrag" /\ op.pc = "shrink_commit"
  /\ disk_bm' = store.bm
  /\ sb' = [sb EXCEPT !.n_pages = Cardinality(DOMAIN store.file)]
  /\ disk_sb' = sb'
  /\ root_children' = NodeChildren(store, sb.root)
  /\ op' = Idle
  /\ UNCHANGED <<manifest, store, leaf_table, n_vectors, n_vectors_disk, ops, rows, fresh, fault>>

-----------------------------------------------------------------------------
(***************************************************************************)
(* commit_mutable_: the leaf table is written to a new extent and the old  *)
(* one freed; so is the manifest blob when the row count changed; ...      *)
(***************************************************************************)
commit_blobs ==
  /\ op.kind \in Mutations /\ op.pc = "commit"
  /\ LET t  == Place(store, Table(leaf_table), 1)
         s1 == free_extent(t.s, sb.leaf_table)
         c  == Place(s1, Config(n_vectors), 1)
     IN IF n_vectors # n_vectors_disk
        THEN /\ Continue(free_extent(c.s, sb.config),
                         [op EXCEPT !.pc = "flush", !.lt = t.e])
             /\ sb' = [sb EXCEPT !.config = c.e]
        ELSE /\ Continue(s1, [op EXCEPT !.pc = "flush", !.lt = t.e])
             /\ UNCHANGED sb
  /\ n_vectors_disk' = n_vectors
  /\ UNCHANGED <<manifest, disk_bm, disk_sb, leaf_table, root_children, n_vectors, ops, rows, fresh, fault>>

\* ... the bitmap is flushed; ...
flush_bitmap ==
  /\ op.kind \in Mutations /\ op.pc = "flush"
  /\ disk_bm' = store.bm
  /\ op' = [op EXCEPT !.pc = "superblock"]
  /\ UNCHANGED <<manifest, store, disk_sb, sb, leaf_table, root_children, n_vectors,
                 n_vectors_disk, ops, rows, fresh, fault>>

\* Mutant: remap_ keeps the root's children it read before the mutation.
CommitSuperblockKeepsRoot ==
  /\ op.kind \in Mutations /\ op.pc = "superblock"
  /\ sb' = [sb EXCEPT !.leaf_table = op.lt, !.head = store.head,
                      !.n_pages = Cardinality(DOMAIN store.file)]
  /\ disk_sb' = sb'
  /\ store' = clear_free_list(store)
  /\ leaf_table' = ObjectAt(store, op.lt).entries
  /\ op' = IF op.then = "idle" THEN Idle ELSE [op EXCEPT !.pc = op.then]
  /\ UNCHANGED <<manifest, disk_bm, root_children, n_vectors, n_vectors_disk, ops, rows, fresh, fault>>

\* ... the superblock is committed, the allocator drops its list, and remap_ reads
\* the superblock, the leaf table and the root again.
commit_superblock ==
  /\ op.kind \in Mutations /\ op.pc = "superblock"
  /\ sb' = [sb EXCEPT !.leaf_table = op.lt, !.head = store.head,
                      !.n_pages = Cardinality(DOMAIN store.file)]
  /\ disk_sb' = sb'
  /\ store' = clear_free_list(store)
  /\ leaf_table' = ObjectAt(store, op.lt).entries
  /\ root_children' = NodeChildren(store, sb.root)
  /\ op' = IF op.then = "idle" THEN Idle ELSE [op EXCEPT !.pc = op.then]
  /\ UNCHANGED <<manifest, disk_bm, n_vectors, n_vectors_disk, ops, rows, fresh, fault>>

\* The process dies between two steps of a mutation: the file keeps what was written.
kill ==
  /\ manifest.kill
  /\ op.kind \in Mutations
  /\ op' = Down
  /\ fault' = "killed"
  /\ UNCHANGED <<manifest, store, disk_bm, disk_sb, sb, leaf_table, root_children, n_vectors,
                 n_vectors_disk, ops, rows, fresh>>

\* The rows of the leaves a table names.
RowsIn(table) ==
  UNION {ObjectAt(store, e).rows : e \in {d \in Range(table) : ObjectAt(store, d).kind = "leaf"}}

\* The index is opened again, after a close or a kill; what it needs from the
\* superblock may no longer be there.  After a kill the rows are those still there.
open ==
  /\ op \in {Idle, Down, Corrupt}
  /\ LET lt  == ObjectAt(store, disk_sb.leaf_table)
         cfg == ObjectAt(store, disk_sb.config)
     IN IF lt.kind = "table" /\ cfg.kind = "config"
        THEN /\ op' = Idle
             /\ leaf_table' = lt.entries
             /\ n_vectors' = cfg.n /\ n_vectors_disk' = cfg.n
             /\ rows' = IF fault = "none" THEN rows ELSE RowsIn(lt.entries)
        ELSE /\ op' = Corrupt
             /\ UNCHANGED <<leaf_table, n_vectors, n_vectors_disk, rows>>
  /\ sb' = disk_sb
  /\ root_children' = NodeChildren(store, disk_sb.root)
  /\ store' = [store EXCEPT !.bm = disk_bm, !.n = disk_sb.n_pages, !.head = Nil,
                            !.ok = TRUE]
  /\ UNCHANGED <<manifest, disk_bm, disk_sb, ops, fresh, fault>>

-----------------------------------------------------------------------------
(***************************************************************************)
(* Init: the file a build leaves.  Leaves, their payload extents, the      *)
(* nodes bottom-up, the manifest, cardinality and leaf-table blobs follow  *)
(* the reserved pages without gaps.                                        *)
(***************************************************************************)
Init ==
  /\ manifest \in Indexes
  /\ LET nl == Len(manifest.leaves)
         ng == Len(manifest.first) - 1
         leafAt(l) == 3 + l - 1
         payAt(l)  == 3 + nl + l - 1
         lowAt(g)  == 3 + (IF HasPayload THEN 2 * nl ELSE nl) + g - 1
         l1At      == lowAt(ng) + 1
         rootPage  == IF Depth = 1 THEN lowAt(1) ELSE IF Depth = 2 THEN l1At ELSE l1At + 1
         lowNode(g) == Node([i \in 1 .. manifest.first[g + 1] - manifest.first[g] |->
                               LeafChild(manifest.first[g] + i - 1)])
         l1Node     == Node([g \in 1 .. ng |-> NodeChild(<<lowAt(g), 1>>)])
         top        == Node(<<NodeChild(<<l1At, NodePages(l1Node.children)>>)>>)
         table      == [l \in 1 .. nl |-> <<leafAt(l), 1>>]
         all        == UNION {manifest.leaves[l] : l \in 1 .. nl}
         leaf(l)    == Leaf(manifest.leaves[l], FALSE,
                            IF HasPayload THEN <<payAt(l), 1>> ELSE NoExtent)
         np         == rootPage + 4
         object(p)  ==
           CASE p \in Reserved -> Zero
             [] p \in {leafAt(l) : l \in 1 .. nl} -> leaf(p - 2)
             [] HasPayload /\ p \in {payAt(l) : l \in 1 .. nl} ->
                  Payload(manifest.leaves[p - 2 - nl])
             [] p \in {lowAt(g) : g \in 1 .. ng} -> lowNode(p - lowAt(1) + 1)
             [] Depth > 1 /\ p = l1At -> l1Node
             [] Depth = 3 /\ p = rootPage -> top
             [] p = rootPage + 1 -> Config(Cardinality(all))
             [] p = rootPage + 2 -> Card
             [] OTHER -> Table(table)
         super == Superblock(<<rootPage, 1>>, <<rootPage + 3, 1>>, <<rootPage + 1, 1>>,
                             <<rootPage + 2, 1>>, np, Nil)
     IN /\ store = [file |-> [p \in 0 .. np - 1 |-> Cell(object(p), 0)],
                    bm |-> 0 .. np - 1, n |-> np, head |-> Nil, ok |-> TRUE]
        /\ disk_bm = 0 .. np - 1
        /\ disk_sb = super
        /\ sb = super
        /\ leaf_table = table
        /\ root_children = NodeChildren(store, super.root)
        /\ n_vectors = Cardinality(all)
        /\ n_vectors_disk = Cardinality(all)
        /\ op = Idle
        /\ ops = 0
        /\ rows = all
        /\ fresh = {}
        /\ fault = "none"

\* Leaf ids a point can be routed to: the ones the tree names.
Routable == {LeafIdAt(store, slot) : slot \in LeafSlots(store, sb.root)}

Next ==
  \/ \E batch \in SUBSET (manifest.rows \ rows) \ {{}} :
       \E route \in [batch -> Routable] : insert_batch(route)
  \/ \E lid \in 1 .. Len(leaf_table) : insert_leaf(lid)
  \/ \E group0 \in SUBSET manifest.rows : split_leaf_(group0)
  \/ splits_done
  \/ \E ids \in SUBSET manifest.rows : \E repeats \in (IF DuplicateIds THEN SUBSET ids ELSE {{}}) :
       delete_batch(ids, repeats)
  \/ \E lid \in 1 .. Len(leaf_table) : delete_leaf(lid)
  \/ \E rebuild_cardinality \in BOOLEAN : vacuum(rebuild_cardinality)
  \/ vacuum_leaf
  \/ vacuum_leaves_done
  \/ vacuum_cardinality
  \/ \E shrink_file \in manifest.shrink_file : defrag(shrink_file)
  \/ defrag_leaf
  \/ defrag_leaves_done
  \/ defrag_truncate
  \/ defrag_commit
  \/ commit_blobs
  \/ flush_bitmap
  \/ commit_superblock
  \/ kill
  \/ open

Spec == Init /\ [][Next]_vars

-----------------------------------------------------------------------------
LeafExtents == {leaf_table[l] : l \in 1 .. Len(leaf_table)}

PayloadExtents ==
  {LeafOf(store, l).payload : l \in {k \in 1 .. Len(leaf_table) :
                                      LeafOf(store, k).kind = "leaf"}} \ {NoExtent}

\* Everything the in-memory index will read again, except the leaf-table blob.
LiveExtents ==
  AllNodes(store, sb.root) \cup LeafExtents \cup PayloadExtents
    \cup {sb.config, sb.card}

Covered(extents) == UNION {Pages(e) : e \in extents}

Settled == op.kind \in {"idle"} \cup Mutations /\ fault = "none"

(***************************************************************************)
(* At every step of every mutation, each extent the index still refers to  *)
(* is allocated, lies in the file and holds one whole object of the right  *)
(* kind: no leaf, node or blob is written over another, or linked into the *)
(* free list, while something still points at it.                          *)
(***************************************************************************)
LiveExtentsIntact ==
  Settled =>
    /\ \A e \in LiveExtents : Whole(store, e) /\ (op # Idle => Pages(e) \subseteq store.bm)
    /\ \A e \in LeafExtents : ObjectAt(store, e).kind = "leaf"
    /\ \A e \in AllNodes(store, sb.root) : ObjectAt(store, e).kind = "node"
    /\ \A e \in PayloadExtents : ObjectAt(store, e).kind = "payload"
    /\ \A d, e \in LiveExtents : d # e => Pages(d) \cap Pages(e) = {}

\* The leaves that hold a row, and how many the build put it in.
Copies(r) == {l \in 1 .. Len(leaf_table) : r \in LeafOf(store, l).rows}
BuiltCopies(r) == {l \in 1 .. Len(manifest.leaves) : r \in manifest.leaves[l]}

(***************************************************************************)
(* Between mutations the rows are those built or inserted and not deleted, *)
(* and each has the copies it was given: one leaf when it was inserted, as *)
(* many as the build's closure assignment chose otherwise.  Splits, moves  *)
(* and commits lose and double none, a delete takes every copy, no leaf is *)
(* above twice its capacity, and the manifest's row count, in memory and   *)
(* in the committed blob, counts each row once (ivf_tree_mutate.cpp:1384-  *)
(* 1386: it drops "by the rows actually deleted").                         *)
(***************************************************************************)
RowsKeepCopies ==
  op = Idle /\ fault = "none" =>
    /\ rows = UNION {LeafOf(store, l).rows : l \in 1 .. Len(leaf_table)}
    /\ \A r \in rows :
         Cardinality(Copies(r)) = IF r \in fresh THEN 1 ELSE Cardinality(BuiltCopies(r))
    /\ Oversized = {}
    /\ n_vectors = Cardinality(rows)
    /\ ObjectAt(store, disk_sb.config) = Config(n_vectors)

(***************************************************************************)
(* Between mutations the index in memory is the one a reopen would load:   *)
(* the committed superblock and the blobs it names.                        *)
(***************************************************************************)
ReopenSeesSame ==
  op = Idle =>
    /\ sb = disk_sb
    /\ ObjectAt(store, disk_sb.leaf_table) = Table(leaf_table)
    /\ root_children = NodeChildren(store, disk_sb.root)

\* Payload extents are referenced once (fsck.hpp:14), and a leaf's payload extent
\* holds the payloads of exactly its rows.
PayloadReferencedOnce ==
  op = Idle =>
    \A k, l \in 1 .. Len(leaf_table) :
      /\ LeafOf(store, k).payload # NoExtent /\ k # l
           => LeafOf(store, k).payload # LeafOf(store, l).payload
      /\ HasPayload => ObjectAt(store, LeafOf(store, l).payload)
                          = Payload(LeafOf(store, l).rows)

\* How much a mutation has left: the phase it is in (or will be in after the commit
\* under way), the leaves or splits left in it, and the stage of the commit.
Phase ==
  LET at == IF op.pc \in {"commit", "flush", "superblock"} THEN op.then ELSE op.pc
  IN CASE at = "leaves" -> 2 [] at = "idle" -> 0 [] at = "shrink_commit" -> 0 [] OTHER -> 1

LeafWork ==
  CASE op.kind = "insert" /\ op.pc = "leaves" -> Cardinality(DOMAIN op.route)
    [] op.kind = "insert" /\ Oversized # {} ->
         Cardinality(UNION {{l} \X LeafOf(store, l).rows : l \in 1 .. Len(leaf_table)})
           - Cardinality({l \in 1 .. Len(leaf_table) : LeafOf(store, l).rows # {}})
    [] op.kind = "delete" -> Cardinality(op.todo)
    [] op.kind \in {"vacuum", "defrag"} -> Len(leaf_table) + 1 - op.cursor
    [] OTHER -> 0

Stage == CASE op.pc = "commit" -> 4 [] op.pc = "flush" -> 3 [] op.pc = "superblock" -> 2
           [] OTHER -> 1

Left == 1000 * Phase + 10 * LeafWork + Stage

(***************************************************************************)
(* Every step of a mutation leaves less to do, so the split loop of        *)
(* insert_batch ("re-scan until no more splits are needed"), the sweeps of *)
(* vacuum and defrag and the commits between them all come to an end: with *)
(* no deadlock, every mutation finishes.                                   *)
(***************************************************************************)
StepsProgress ==
  [][op.kind \in Mutations =>
       \/ op'.kind \in {"idle", "failed", "down"}
       \/ Left' < Left /\ Left' >= 0]_vars
=============================================================================
