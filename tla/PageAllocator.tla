---------------------------- MODULE PageAllocator ----------------------------
(***************************************************************************)
(* The page allocator of the tree file (src/tree/page_allocator.cpp), as   *)
(* the index uses it: a mutation loads it from the superblock and the      *)
(* bitmap region, allocates and frees extents, flushes the bitmap and      *)
(* commits the superblock.                                                 *)
(*                                                                         *)
(* The bitmap is the truth about which pages are allocated.  The free list *)
(* is threaded through the first eight bytes of the free pages and is only  *)
(* a hint: alloc_extent takes listed pages by scanning the bitmap and does *)
(* not unlink them, so the chain may run into pages that hold data again.  *)
(*                                                                         *)
(* A page's content is abstracted to what read_free_next would decode from *)
(* its first eight bytes: a page id, Nil (kInvalidPage), or Data, standing  *)
(* for bytes written by a caller, which are no page id at all.  A page the *)
(* file has just grown by is zero, and decodes to page 0.                  *)
(***************************************************************************)
EXTENDS Integers, FiniteSets

CONSTANTS
  MaxPages,   \* bound: the file never grows past this many pages
  Reserved,   \* bitmap_page + bitmap_pages: superblocks and bitmap region
  Coverage,   \* number of pages the bitmap region has a bit for
  MaxCount,   \* bound: the largest extent a caller asks for
  Nil,        \* kInvalidPage
  Data        \* first eight bytes of a page that a caller has written

ASSUME ConstantsAssumption ==
  /\ MaxPages \in Nat
  /\ Reserved \in Nat \ {0}
  /\ Coverage \in Nat
  /\ MaxCount \in Nat \ {0}
  /\ Reserved <= MaxPages
  /\ Reserved <= Coverage
  /\ Nil \notin Nat
  /\ Data \notin Nat
  /\ Nil # Data

VARIABLES
  n_pages,         \* n_pages_: pages the allocator believes the file has
  bitmap,          \* bitmap_: the set of pages whose bit is set
  free_list_head,  \* free_list_head_
  n_free_pages,    \* n_free_pages_
  file_pages,      \* PageFile::num_pages()
  first8,          \* page -> what read_free_next decodes from it
  disk_bitmap,     \* the bitmap region, as last flushed
  sb,              \* the superblock's allocator fields, as last committed
  live,            \* extents <<start, count>> the index refers to
  sb_live,         \* extents the committed superblock reaches
  phase            \* "open", "flushed", "committed", "idle" or "failed"

mem  == <<n_pages, bitmap, free_list_head, n_free_pages>>
file == <<file_pages, first8>>
disk == <<disk_bitmap, sb, sb_live>>
vars == <<n_pages, bitmap, free_list_head, n_free_pages, file_pages, first8,
          disk_bitmap, sb, live, sb_live, phase>>

Pages == 0 .. MaxPages - 1

\* The pages of the extent <<start, count>>.
Run(start, count) == start .. start + count - 1

\* The pages of every extent of a set of extents.
PagesOf(extents) == UNION {Run(e[1], e[2]) : e \in extents}

Extents == Pages \X (1 .. MaxCount)

-----------------------------------------------------------------------------
\* Mutant: find_free_run accepts a run one page too short.
FreeRunsOneShort(bm, n_bits, count) ==
  {s \in 0 .. n_bits - count : Run(s, count - 1) \cap bm = {}}

(***************************************************************************)
(* find_free_run: every start of `count` clear bits below n_bits; the scan *)
(* returns the lowest.                                                     *)
(***************************************************************************)
FreeRuns(bm, n_bits, count) ==
  {s \in 0 .. n_bits - count : Run(s, count) \cap bm = {}}

Lowest(S) == CHOOSE s \in S : \A t \in S : s <= t

Highest(S) == CHOOSE s \in S : \A t \in S : t <= s

\* The recount of clear_free_list: the clear bits below n_pages_.
FreeCount(bm, n) == Cardinality((0 .. n - 1) \ bm)

\* alloc_page found the head's bit set: the entry is stale.
StaleHead == free_list_head # Nil /\ free_list_head \in bitmap

\* What alloc_page leaves of the counter before it takes a page: a stale head
\* makes it discard the list and recount.
CountAfterStale ==
  IF StaleHead THEN FreeCount(bitmap, n_pages) ELSE n_free_pages

-----------------------------------------------------------------------------
\* Mutant: the head is popped without asking the bitmap whether it is stale.
PopFreeListUnchecked ==
  /\ free_list_head # Nil
  /\ free_list_head' = first8[free_list_head]
  /\ bitmap' = bitmap \cup {free_list_head}
  /\ n_free_pages' = n_free_pages - 1
  /\ live' = live \cup {<<free_list_head, 1>>}
  /\ UNCHANGED <<n_pages, file_pages>>

(***************************************************************************)
(* alloc_page: pop the list's head when its bit is clear, ...              *)
(***************************************************************************)
PopFreeList ==
  /\ free_list_head # Nil
  /\ free_list_head \notin bitmap
  /\ free_list_head' = first8[free_list_head]
  /\ bitmap' = bitmap \cup {free_list_head}
  /\ n_free_pages' = n_free_pages - 1
  /\ live' = live \cup {<<free_list_head, 1>>}
  /\ UNCHANGED <<n_pages, file_pages>>

(***************************************************************************)
(* ... otherwise drop the list and take the first clear bit, ...           *)
(***************************************************************************)
ScanOnePage ==
  /\ free_list_head = Nil \/ StaleHead
  /\ FreeRuns(bitmap, n_pages, 1) # {}
  /\ LET page == Lowest(FreeRuns(bitmap, n_pages, 1))
     IN /\ bitmap' = bitmap \cup {page}
        /\ live' = live \cup {<<page, 1>>}
  /\ free_list_head' = Nil
  /\ n_free_pages' = CountAfterStale - 1
  /\ UNCHANGED <<n_pages, file_pages>>

(***************************************************************************)
(* ... or grow the file by one page and take that one.                     *)
(***************************************************************************)
GrowOnePage ==
  /\ free_list_head = Nil \/ StaleHead
  /\ FreeRuns(bitmap, n_pages, 1) = {}
  /\ n_pages + 1 <= MaxPages
  /\ n_pages' = n_pages + 1
  /\ file_pages' = n_pages + 1
  /\ bitmap' = bitmap \cup {n_pages}
  /\ live' = live \cup {<<n_pages, 1>>}
  /\ free_list_head' = Nil
  /\ n_free_pages' = CountAfterStale + 1 - 1

\* Mutant: a page is allocated between the flush and the superblock commit.
AllocPageAfterFlush ==
  /\ phase \in {"open", "flushed", "committed"}
  /\ PopFreeList \/ ScanOnePage \/ GrowOnePage
  /\ phase' = IF phase = "flushed" THEN "flushed" ELSE "open"
  /\ UNCHANGED <<first8, disk>>

alloc_page ==
  /\ phase \in {"open", "committed"}
  /\ PopFreeList \/ ScanOnePage \/ GrowOnePage
  /\ phase' = "open"
  /\ UNCHANGED <<first8, disk>>

(***************************************************************************)
(* alloc_extent for two pages or more: the lowest free run, growing the    *)
(* file by the whole count when there is none.  Listed pages the run       *)
(* covers stay on the list.                                                *)
(***************************************************************************)
PagesAfterGrow(count) ==
  IF FreeRuns(bitmap, n_pages, count) = {} THEN n_pages + count ELSE n_pages

alloc_extent(count) ==
  /\ phase \in {"open", "committed"}
  /\ count > 1
  /\ PagesAfterGrow(count) <= MaxPages
  /\ FreeRuns(bitmap, PagesAfterGrow(count), count) # {}
  /\ n_pages' = PagesAfterGrow(count)
  /\ file_pages' = IF PagesAfterGrow(count) = n_pages
                   THEN file_pages ELSE PagesAfterGrow(count)
  /\ LET start == Lowest(FreeRuns(bitmap, PagesAfterGrow(count), count))
     IN /\ bitmap' = bitmap \cup Run(start, count)
        /\ live' = live \cup {<<start, count>>}
        /\ n_free_pages' =
             n_free_pages + (PagesAfterGrow(count) - n_pages)
                          - Cardinality(Run(start, count) \ bitmap)
  /\ phase' = "open"
  /\ UNCHANGED <<free_list_head, first8, disk>>

\* Mutant: a freed run is counted as one page.
PushFreedCountsOne(freed) ==
  /\ bitmap' = bitmap \ freed
  /\ first8' = [p \in Pages |-> IF p \in freed THEN free_list_head
                                ELSE first8[p]]
  /\ free_list_head' = IF freed = {} THEN free_list_head ELSE Highest(freed)
  /\ n_free_pages' = n_free_pages + 1

(***************************************************************************)
(* free_extent: each page of the run whose bit is set is cleared, zeroed,  *)
(* linked to the head and becomes the head.                                *)
(***************************************************************************)
PushFreed(freed) ==
  /\ bitmap' = bitmap \ freed
  /\ first8' = [p \in Pages |->
                  IF p \notin freed THEN first8[p]
                  ELSE IF {q \in freed : q < p} = {} THEN free_list_head
                  ELSE Highest({q \in freed : q < p})]
  /\ free_list_head' = IF freed = {} THEN free_list_head ELSE Highest(freed)
  /\ n_free_pages' = n_free_pages + Cardinality(freed)

\* A caller gives back a whole extent, or the tail of one that shrank in place
\* (write_leaf_); what it keeps stays live.
free_extent(extent, start) ==
  /\ phase \in {"open", "committed"}
  /\ extent \in live
  /\ start \in Run(extent[1], extent[2])
  /\ LET count == extent[1] + extent[2] - start
         kept  == IF start = extent[1] THEN {}
                  ELSE {<<extent[1], start - extent[1]>>}
     IN /\ PushFreed(Run(start, count) \cap bitmap)
        /\ live' = (live \ {extent}) \cup kept
  /\ phase' = "open"
  /\ UNCHANGED <<n_pages, file_pages, disk>>

\* Mutant: the page's owner drops it but its bit stays set.
FreePageLeaks(page) ==
  /\ phase \in {"open", "committed"}
  /\ <<page, 1>> \in live
  /\ live' = live \ {<<page, 1>>}
  /\ phase' = "open"
  /\ UNCHANGED <<mem, first8, file_pages, disk>>

\* free_page: the same for one page; a page whose bit is clear is left alone.
free_page(page) ==
  /\ phase \in {"open", "committed"}
  /\ <<page, 1>> \in live
  /\ PushFreed({page} \cap bitmap)
  /\ live' = live \ {<<page, 1>>}
  /\ phase' = "open"
  /\ UNCHANGED <<n_pages, file_pages, disk>>

-----------------------------------------------------------------------------
(***************************************************************************)
(* The callers.  write_pages fills an extent the index refers to.          *)
(***************************************************************************)
write_extent(extent) ==
  /\ phase \in {"open", "committed"}
  /\ extent \in live
  /\ first8' = [p \in Pages |->
                  IF p \in Run(extent[1], extent[2]) THEN Data ELSE first8[p]]
  /\ phase' = "open"
  /\ UNCHANGED <<mem, file_pages, disk, live>>

(***************************************************************************)
(* flush_bitmap: refuses when the bitmap has outgrown its region.  By then *)
(* every extent the index refers to has been written.                      *)
(***************************************************************************)
flush_bitmap ==
  /\ phase = "open"
  /\ \A p \in PagesOf(live) : first8[p] = Data
  /\ n_pages <= Coverage
  /\ disk_bitmap' = bitmap
  /\ phase' = "flushed"
  /\ UNCHANGED <<mem, file, sb, live, sb_live>>

flush_bitmap_throws ==
  /\ phase = "open"
  /\ n_pages > Coverage
  /\ phase' = "failed"
  /\ UNCHANGED <<mem, file, disk, live>>

(***************************************************************************)
(* The tail of commit_mutable_: the superblock takes the file's size and   *)
(* the allocator's list and counter and is committed; then the in-memory   *)
(* list, not the committed one, is cleared and the free pages recounted.   *)
(***************************************************************************)
commit_superblock ==
  /\ phase = "flushed"
  /\ sb' = [n_pages |-> file_pages, head |-> free_list_head,
            n_free |-> n_free_pages]
  /\ sb_live' = live
  /\ free_list_head' = Nil
  /\ n_free_pages' = FreeCount(bitmap, n_pages)
  /\ phase' = "committed"
  /\ UNCHANGED <<n_pages, bitmap, file, disk_bitmap, live>>

\* The mutation returns; its PageAllocator goes out of scope.
close ==
  /\ phase = "committed"
  /\ phase' = "idle"
  /\ UNCHANGED <<mem, file, disk, live>>

(***************************************************************************)
(* load: the next mutation starts from the superblock and the region.      *)
(***************************************************************************)
load ==
  /\ phase = "idle"
  /\ sb.n_pages <= Coverage
  /\ n_pages' = sb.n_pages
  /\ bitmap' = disk_bitmap
  /\ free_list_head' = sb.head
  /\ n_free_pages' = sb.n_free
  /\ phase' = "open"
  /\ UNCHANGED <<file, disk, live>>

-----------------------------------------------------------------------------
\* init: a freshly formatted file holds the reserved pages and nothing else.
Init ==
  /\ n_pages = Reserved
  /\ bitmap = 0 .. Reserved - 1
  /\ free_list_head = Nil
  /\ n_free_pages = 0
  /\ file_pages = Reserved
  /\ first8 = [p \in Pages |-> 0]
  /\ disk_bitmap = {}
  /\ sb = [n_pages |-> 0, head |-> Nil, n_free |-> 0]
  /\ live = {}
  /\ sb_live = {}
  /\ phase = "open"

Next ==
  \/ alloc_page
  \/ \E count \in 1 .. MaxCount : alloc_extent(count)
  \/ \E extent \in live : \E start \in Pages : free_extent(extent, start)
  \/ \E page \in Pages : free_page(page)
  \/ \E extent \in live : write_extent(extent)
  \/ flush_bitmap
  \/ flush_bitmap_throws
  \/ commit_superblock
  \/ close
  \/ load

Spec == Init /\ [][Next]_vars

-----------------------------------------------------------------------------
Links == Pages \cup {Nil}

\* Every variable of the allocator, the file and the superblock has its type.
TypeOK ==
  /\ n_pages \in 0 .. MaxPages
  /\ bitmap \in SUBSET Pages
  /\ free_list_head \in Links \cup {Data}
  /\ n_free_pages \in Nat
  /\ file_pages \in 0 .. MaxPages
  /\ first8 \in [Pages -> Links \cup {Data}]
  /\ disk_bitmap \in SUBSET Pages
  /\ sb \in [n_pages : 0 .. MaxPages, head : Links \cup {Data}, n_free : Nat]
  /\ live \in SUBSET Extents
  /\ sb_live \in SUBSET Extents
  /\ phase \in {"open", "flushed", "committed", "idle", "failed"}

(***************************************************************************)
(* The bitmap is exact: its set bits are the reserved pages and the pages  *)
(* of the extents the index refers to.  No live page can be handed out     *)
(* again (page_allocator.cpp:88-92, "insert/delete would hand out live     *)
(* leaf pages") and no page leaks.                                         *)
(***************************************************************************)
BitmapExact == bitmap = (0 .. Reserved - 1) \cup PagesOf(live)

(***************************************************************************)
(* No two extents the index refers to share a page, across every           *)
(* alloc_page, alloc_extent, shrink and free_extent, and across reloads.   *)
(***************************************************************************)
LiveDisjoint ==
  \A d, e \in live : d # e => Run(d[1], d[2]) \cap Run(e[1], e[2]) = {}

(***************************************************************************)
(* The counter committed as the superblock's n_free_pages counts the clear *)
(* bits exactly, whether pages left by the list, by a scan or by a grow.   *)
(***************************************************************************)
FreeCountExact == n_free_pages = FreeCount(bitmap, n_pages)

(***************************************************************************)
(* The free list may be stale but is never garbage: alloc_page never reads *)
(* a next pointer out of a page that holds a caller's data                 *)
(* (page_allocator.cpp:135-142), and never follows one out of the file.    *)
(***************************************************************************)
FreeListNeverGarbage ==
  /\ free_list_head \in Links
  /\ free_list_head \notin bitmap \cup {Nil}
        => /\ free_list_head < n_pages
           /\ first8[free_list_head] # Data

(***************************************************************************)
(* Between mutations the file alone is consistent: the committed bitmap    *)
(* region marks exactly what the committed superblock reaches, so a        *)
(* reopened index starts from the state the last commit left               *)
(* (ivf_tree_mutate.cpp:402-404: nothing is allocated after the flush).    *)
(***************************************************************************)
CommittedBitmapExact ==
  phase \in {"idle", "committed"} =>
    /\ disk_bitmap = (0 .. Reserved - 1) \cup PagesOf(sb_live)
    /\ sb.n_free = FreeCount(disk_bitmap, sb.n_pages)
=============================================================================
