-------------------------------- MODULE Fsck --------------------------------
(***************************************************************************)
(* fsck (src/tree/fsck.cpp) over the file TreeMutation writes: the walk    *)
(* from the committed superblock, the page accounting against the bitmap   *)
(* region, and the repair that rebuilds bitmap and free list from the      *)
(* walk.  It runs on an index no process has open, after a close or after  *)
(* a kill in the middle of a mutation.                                     *)
(*                                                                         *)
(* A header whose object is of another kind fails its magic.  Checksums,   *)
(* the plane extent and the relocation of a bitmap region that is too      *)
(* small (which no file of this version has) are left out.                 *)
(***************************************************************************)
EXTENDS TreeMutation

InFile(e) == \A p \in Pages(e) : p \in DOMAIN store.file

\* The leaf table as the walk reads it: the first eight bytes are the number of
\* entries, whatever the page holds.  A page on the free list reads as that many
\* entries of zeros; anything else is too many entries, and the walk throws.
TableAsRead ==
  LET o == ObjectAt(store, disk_sb.leaf_table)
  IN CASE o.kind = "table" -> o.entries
       [] o.kind = "free" /\ o.next # Nil -> [i \in 1 .. o.next |-> <<0, 0>>]
       [] OTHER -> <<Nil>>

WalkThrows == TableAsRead = <<Nil>>

\* The extents of internal nodes the walk reaches.  Below a page that is not a node
\* it does not go on, and a node out of bounds is not entered.
WalkedNodes ==
  LET level[k \in 0 .. Depth] ==
        IF k = 0 THEN {disk_sb.root}
        ELSE UNION {NodeChildren(store, e) : e \in {d \in level[k - 1] : InFile(d)}}
  IN UNION {level[k] : k \in 0 .. Depth}

\* The leaf extents it validates, by the place that names the leaf.  An id past the
\* end of the table is taken for a page (ids here start at 1, in the file at 0).
WalkedLeaves ==
  LET slots == UNION {{<<e, i>> : i \in {j \in DOMAIN Children(store, e) :
                                           Children(store, e)[j].leaf}} :
                        e \in WalkedNodes}
  IN [slot \in slots |->
        LET lid == LeafIdAt(store, slot)
        IN IF lid <= Len(TableAsRead) THEN TableAsRead[lid] ELSE <<lid - 1, 1>>]

IsLeaf(e) == e[2] > 0 /\ ObjectAt(store, e).kind = "leaf"

\* validate_leaf: a leaf whose magic is right counts its rows and its payload.
GoodSlots == {slot \in DOMAIN WalkedLeaves : IsLeaf(WalkedLeaves[slot])}
WalkedPayloads ==
  {ObjectAt(store, WalkedLeaves[slot]).payload : slot \in GoodSlots} \ {NoExtent}
TotalLeafCount ==
  Cardinality(UNION {{slot} \X ObjectAt(store, WalkedLeaves[slot]).rows : slot \in GoodSlots})

superblock_ok == disk_sb.root[1] \in DOMAIN store.file

\* Levels 1 and 3: the walk met no page of the wrong kind and no bad pointer.
tree_walk_ok ==
  /\ \A e \in WalkedNodes : InFile(e) /\ ObjectAt(store, e).kind = "node"
  /\ GoodSlots = DOMAIN WalkedLeaves

\* Level 2: what the walk and the superblock claim, against the bitmap region.
Allocated ==
  (Reserved \cup UNION {Pages(e) : e \in {d \in WalkedNodes : InFile(d)}
                                    \cup Range(WalkedLeaves) \cup WalkedPayloads
                                    \cup {disk_sb.config, disk_sb.card, disk_sb.leaf_table}})
    \cap DOMAIN store.file

leaked_pages == (disk_bm \cap DOMAIN store.file) \ Allocated
orphan_pages == Allocated \ disk_bm
page_accounting_ok == leaked_pages = {} /\ orphan_pages = {}

all_ok == superblock_ok /\ tree_walk_ok /\ page_accounting_ok

-----------------------------------------------------------------------------
\* The free list the repair threads: every other page of the file, ascending.
Threaded(free) ==
  [p \in DOMAIN store.file |->
     IF p \notin free THEN store.file[p]
     ELSE Cell(FreeLink(IF \E q \in free : q > p THEN Lowest({q \in free : q > p}) ELSE Nil), 0)]

\* Mutant: the payload extents are left out of the rebuilt bitmap.
RepairForgetsPayloads ==
  LET kept == Allocated \ UNION {Pages(e) : e \in WalkedPayloads}
      free == DOMAIN store.file \ kept
  IN /\ op \in {Idle, Down, Corrupt}
     /\ ~WalkThrows /\ ~page_accounting_ok
     /\ disk_bm' = kept
     /\ store' = [store EXCEPT !.file = Threaded(free)]
     /\ disk_sb' = [disk_sb EXCEPT !.n_pages = Cardinality(DOMAIN store.file),
                                   !.head = IF free = {} THEN Nil ELSE Lowest(free)]
     /\ op' = Down
     /\ fault' = IF tree_walk_ok THEN "repaired" ELSE fault
     /\ UNCHANGED <<manifest, sb, leaf_table, root_children, n_vectors, n_vectors_disk, ops,
                    rows, fresh>>

(***************************************************************************)
(* fsck with repair: when the accounting is off, the bitmap becomes what   *)
(* the walk found, every other page goes to a new free list, and the       *)
(* superblock is committed.  It does so whatever the walk met.             *)
(***************************************************************************)
fsck_repair ==
  LET free == DOMAIN store.file \ Allocated
  IN /\ op \in {Idle, Down, Corrupt}
     /\ ~WalkThrows /\ ~page_accounting_ok
     /\ disk_bm' = Allocated
     /\ store' = [store EXCEPT !.file = Threaded(free)]
     /\ disk_sb' = [disk_sb EXCEPT !.n_pages = Cardinality(DOMAIN store.file),
                                   !.head = IF free = {} THEN Nil ELSE Lowest(free)]
     /\ op' = Down
     /\ fault' = IF tree_walk_ok THEN "repaired" ELSE fault
     /\ UNCHANGED <<manifest, sb, leaf_table, root_children, n_vectors, n_vectors_disk, ops,
                    rows, fresh>>

NextWithFsck == Next \/ fsck_repair

FsckSpec == Init /\ [][NextWithFsck]_vars

-----------------------------------------------------------------------------
\* The build gave no row to two leaves.
NoClosure == \A r \in manifest.rows : Cardinality(BuiltCopies(r)) <= 1

(***************************************************************************)
(* Between mutations fsck finds nothing wrong: the committed bitmap marks  *)
(* exactly the pages the tree and the superblock reach (nothing leaked,    *)
(* nothing in use looks free), every pointer leads to a node or a leaf,    *)
(* every leaf of the table is in the tree once, and the leaves' row counts *)
(* add up to the manifest's or more, to exactly it when the build gave no  *)
(* row two copies (fsck.cpp:320-324: "a negative delta or a delta on a     *)
(* payload-less no-closure build would warrant a closer look"), across     *)
(* splits that move nodes.  After a kill this holds again, but for the     *)
(* counts, once a repair found the tree itself in order.                   *)
(***************************************************************************)
FsckClean ==
  op = Idle /\ fault # "killed" =>
    /\ all_ok
    /\ Range(WalkedLeaves) = Range(leaf_table)
    /\ Cardinality(DOMAIN WalkedLeaves) = Len(leaf_table)
    /\ fault = "none" => /\ TotalLeafCount >= n_vectors
                         /\ NoClosure => TotalLeafCount = n_vectors

(***************************************************************************)
(* A repair of a file whose tree is in order leaves a file fsck passes,    *)
(* changes no page the tree claims ("Leaf contents are never modified",    *)
(* fsck.hpp:17), and threads each free page, and no other, on a free list  *)
(* that ends.                                                              *)
(***************************************************************************)
RepairRestores ==
  [][fsck_repair /\ tree_walk_ok =>
       LET link[k \in 0 .. Cardinality(DOMAIN store.file)] ==
             IF k = 0 THEN disk_sb'.head
             ELSE IF link[k - 1] = Nil THEN Nil ELSE store'.file[link[k - 1]].o.next
       IN /\ all_ok'
          /\ \A p \in Allocated : store'.file[p] = store.file[p]
          /\ Range(link) \ {Nil} = DOMAIN store'.file \ disk_bm'
          /\ link[Cardinality(DOMAIN store.file)] = Nil]_vars

=============================================================================
