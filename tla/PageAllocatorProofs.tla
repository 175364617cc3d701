------------------------ MODULE PageAllocatorProofs ------------------------
(***************************************************************************)
(* Proofs about PageAllocator, for every file size, every number of        *)
(* reserved pages and every bitmap region.                                 *)
(***************************************************************************)
EXTENDS PageAllocator, FiniteSetTheorems, WellFoundedInduction,
        NaturalsInduction, TLAPS

(***************************************************************************)
(* A next pointer is sound when it is nil or names a page of the file that *)
(* is either allocated (a stale entry, which alloc_page detects) or still  *)
(* holds a next pointer.                                                   *)
(***************************************************************************)
SoundLink(l) ==
  \/ l = Nil
  \/ /\ l \in 0 .. n_pages - 1
     /\ l \in bitmap \/ first8[l] # Data

\* The list's head and every next pointer in the file are sound.
LinksSound ==
  /\ SoundLink(free_list_head)
  /\ \A p \in Pages : first8[p] # Data => SoundLink(first8[p])

\* The reserved pages exist, set bits are inside the file, the allocator and
\* the file agree on its size.
SizesAgree ==
  /\ Reserved <= n_pages
  /\ bitmap \subseteq 0 .. n_pages - 1
  /\ file_pages = n_pages

\* No extent of the index covers a superblock or the bitmap region.
LiveNotReserved == PagesOf(live) \cap (0 .. Reserved - 1) = {}

\* From the flush on, the region on disk is the bitmap in memory; from the
\* commit on, the superblock is the allocator's state and its list is sound.
DiskInSync ==
  /\ phase \in {"flushed", "committed", "idle"} => disk_bitmap = bitmap
  /\ phase \in {"committed", "idle"} =>
       /\ sb.n_pages = n_pages
       /\ sb.n_free = n_free_pages
       /\ SoundLink(sb.head)
       /\ sb_live = live

\* The inductive invariant.
IInv ==
  /\ TypeOK
  /\ SizesAgree
  /\ LiveNotReserved
  /\ BitmapExact
  /\ LiveDisjoint
  /\ FreeCountExact
  /\ LinksSound
  /\ DiskInSync

-----------------------------------------------------------------------------
\* A non-empty set of naturals has a lowest element, which the scan returns:
\* among the initial segments 0 .. s one is minimal for strict inclusion.
LEMMA LowestIn ==
  ASSUME NEW S \in SUBSET Nat, S # {}
  PROVE  Lowest(S) \in S /\ \A t \in S : Lowest(S) <= t
<1> DEFINE T == {0 .. x : x \in S}
<1>1. T \subseteq FiniteSubsetsOf(Nat) /\ T # {}
  <2>1. ASSUME NEW x \in S PROVE 0 .. x \in FiniteSubsetsOf(Nat)
    <3>1. IsFiniteSet(0 .. x)
      BY FS_Interval
    <3>2. 0 .. x \in SUBSET Nat
      OBVIOUS
    <3>3. QED
      BY <3>1, <3>2 DEF FiniteSubsetsOf
  <2>2. QED
    BY <2>1
<1>2. PICK z \in T : \A y \in T : <<y, z>> \notin StrictSubsetOrdering(Nat)
  <2>1. IsWellFoundedOn(StrictSubsetOrdering(Nat), FiniteSubsetsOf(Nat))
    BY FS_StrictSubsetOrderingWellFounded
  <2> HIDE DEF T
  <2>2. QED
    BY <1>1, <2>1, WFMin
<1>3. PICK s \in S : z = 0 .. s
  OBVIOUS
<1>4. ASSUME NEW t \in S PROVE s <= t
  <2>1. SUFFICES ASSUME t < s PROVE FALSE
    OBVIOUS
  <2>2. 0 .. t \in SUBSET Nat /\ 0 .. s \in SUBSET Nat
    OBVIOUS
  <2>3. 0 .. t \subseteq 0 .. s /\ s \in 0 .. s /\ s \notin 0 .. t
    BY <2>1
  <2>4. <<0 .. t, 0 .. s>> \in StrictSubsetOrdering(Nat)
    BY <2>2, <2>3 DEF StrictSubsetOrdering
  <2>5. QED
    BY <1>2, <1>3, <2>4
<1>5. QED
  BY <1>4 DEF Lowest

\* A non-empty set of naturals with an upper bound has a highest element.
LEMMA HighestIn ==
  ASSUME NEW n \in Nat, NEW S \in SUBSET (0 .. n), S # {}
  PROVE  Highest(S) \in S /\ \A t \in S : t <= Highest(S)
<1> DEFINE D == {n - x : x \in S}
<1>1. D \in SUBSET Nat
  <2>1. ASSUME NEW x \in S PROVE n - x \in Nat
    <3>1. x \in 0 .. n
      OBVIOUS
    <3>2. QED
      BY <3>1
  <2>2. QED
    BY <2>1
<1>2. D # {}
  OBVIOUS
<1>3. Lowest(D) \in D /\ \A t \in D : Lowest(D) <= t
  <2> HIDE DEF D
  <2>1. QED
    BY <1>1, <1>2, LowestIn
<1>4. PICK s \in S : Lowest(D) = n - s
  BY <1>3
<1>5. ASSUME NEW t \in S PROVE t <= s
  <2>1. n - t \in D
    OBVIOUS
  <2>2. n - s <= n - t
    BY <1>3, <1>4, <2>1
  <2>3. s \in 0 .. n /\ t \in 0 .. n
    OBVIOUS
  <2>4. QED
    BY <2>2, <2>3
<1>6. QED
  BY <1>5 DEF Highest

\* An interval of pages is finite and has the expected size.
LEMMA IntervalSize ==
  ASSUME NEW a \in Nat, NEW c \in Nat
  PROVE  IsFiniteSet(a .. a + c - 1) /\ Cardinality(a .. a + c - 1) = c
<1>1. a \in Int /\ a + c - 1 \in Int
  OBVIOUS
<1>2. /\ IsFiniteSet(a .. (a + c - 1))
      /\ Cardinality(a .. (a + c - 1))
           = IF a > a + c - 1 THEN 0 ELSE (a + c - 1) - a + 1
  BY <1>1, FS_Interval
<1>3. QED
  BY <1>2

\* The pages below n that a bitmap leaves clear are finitely many.
LEMMA FreeFinite ==
  ASSUME NEW n \in Nat, NEW bm
  PROVE  /\ IsFiniteSet((0 .. n - 1) \ bm)
         /\ FreeCount(bm, n) \in Nat
<1>1. IsFiniteSet(0 .. n - 1)
  BY IntervalSize, 0 + n - 1 = n - 1
<1>2. IsFiniteSet((0 .. n - 1) \ bm)
  BY <1>1, FS_Difference
<1>3. QED
  BY <1>2, FS_CardinalityType DEF FreeCount

\* Taking clear pages below n lowers the count of free pages by their number.
LEMMA FreeCountTake ==
  ASSUME NEW n \in Nat, NEW bm, NEW R \in SUBSET ((0 .. n - 1) \ bm)
  PROVE  /\ FreeCount(bm \cup R, n) = FreeCount(bm, n) - Cardinality(R)
         /\ Cardinality(R) \in Nat
<1> DEFINE F == (0 .. n - 1) \ bm
<1>1. IsFiniteSet(F)
  BY FreeFinite
<1>2. F \ R = (0 .. n - 1) \ (bm \cup R)
  OBVIOUS
<1>3. F \cap R = R
  OBVIOUS
<1>4. Cardinality(F \ R) = Cardinality(F) - Cardinality(F \cap R)
  BY <1>1, FS_Difference
<1>5. Cardinality(R) \in Nat
  BY <1>1, FS_Subset, FS_CardinalityType
<1>6. QED
  BY <1>2, <1>3, <1>4, <1>5 DEF FreeCount

\* Clearing set bits below n raises the count of free pages by their number.
LEMMA FreeCountGive ==
  ASSUME NEW n \in Nat, NEW bm \in SUBSET (0 .. n - 1), NEW R \in SUBSET bm
  PROVE  /\ FreeCount(bm \ R, n) = FreeCount(bm, n) + Cardinality(R)
         /\ Cardinality(R) \in Nat
<1>1. R \in SUBSET ((0 .. n - 1) \ (bm \ R))
  OBVIOUS
<1>2. (bm \ R) \cup R = bm
  OBVIOUS
<1>3. /\ FreeCount((bm \ R) \cup R, n) = FreeCount(bm \ R, n) - Cardinality(R)
      /\ Cardinality(R) \in Nat
  BY <1>1, FreeCountTake
<1>4. FreeCount(bm \ R, n) \in Nat
  BY FreeFinite
<1>5. FreeCount(bm, n) = FreeCount(bm \ R, n) - Cardinality(R)
  BY <1>2, <1>3
<1>6. QED
  BY <1>3, <1>4, <1>5

\* Growing the file by c clear pages raises the count by c.
LEMMA FreeCountGrow ==
  ASSUME NEW n \in Nat, NEW c \in Nat, NEW bm \in SUBSET (0 .. n - 1)
  PROVE  FreeCount(bm, n + c) = FreeCount(bm, n) + c
<1> DEFINE A == (0 .. n - 1) \ bm
           B == n .. n + c - 1
<1>1. IsFiniteSet(A) /\ IsFiniteSet(B) /\ Cardinality(B) = c
  BY FreeFinite, IntervalSize
<1>2. A \cap B = {} /\ A \cup B = (0 .. n + c - 1) \ bm
  OBVIOUS
<1>3. Cardinality(A \cup B) = Cardinality(A) + Cardinality(B)
  <2>1. Cardinality(A \cup B)
          = Cardinality(A) + Cardinality(B) - Cardinality(A \cap B)
    BY <1>1, FS_Union
  <2>2. Cardinality(A) \in Nat /\ Cardinality(B) \in Nat
    BY <1>1, FS_CardinalityType
  <2>3. Cardinality(A \cap B) = 0
    BY <1>2, FS_EmptySet
  <2> HIDE DEF A, B
  <2>4. QED
    BY <2>1, <2>2, <2>3
<1>4. FreeCount(bm, n) = Cardinality(A)
  BY DEF FreeCount
<1>5. FreeCount(bm, n + c) = Cardinality(A \cup B)
  BY <1>2 DEF FreeCount
<1>6. QED
  BY <1>1, <1>3, <1>4, <1>5

\* An extent has as many pages as its count.
LEMMA RunSize ==
  ASSUME NEW s \in Nat, NEW c \in Nat
  PROVE  IsFiniteSet(Run(s, c)) /\ Cardinality(Run(s, c)) = c
BY IntervalSize DEF Run

\* Membership in the pages of a set of extents.
LEMMA PagesOfMember ==
  ASSUME NEW X, NEW p
  PROVE  p \in PagesOf(X) <=> \E e \in X : p \in Run(e[1], e[2])
BY DEF PagesOf
\* Adding an extent adds its pages.
LEMMA PagesOfAdd ==
  ASSUME NEW X, NEW s, NEW c
  PROVE  PagesOf(X \cup {<<s, c>>}) = PagesOf(X) \cup Run(s, c)
<1>1. ASSUME NEW p
      PROVE  p \in PagesOf(X \cup {<<s, c>>}) <=> p \in PagesOf(X) \cup Run(s, c)
  <2>1. p \in PagesOf(X) <=> \E e \in X : p \in Run(e[1], e[2])
    BY PagesOfMember
  <2>2. p \in PagesOf(X \cup {<<s, c>>})
          <=> \E e \in X \cup {<<s, c>>} : p \in Run(e[1], e[2])
    BY PagesOfMember
  <2>3. <<s, c>>[1] = s /\ <<s, c>>[2] = c
    OBVIOUS
  <2>4. (\E e \in X \cup {<<s, c>>} : p \in Run(e[1], e[2]))
          <=> \/ \E e \in X : p \in Run(e[1], e[2])
              \/ p \in Run(<<s, c>>[1], <<s, c>>[2])
    BY Zenon
  <2>5. QED
    BY <2>1, <2>2, <2>3, <2>4
<1>2. QED
  BY <1>1

\* The lowest free run is inside the file and clear.
LEMMA FreeRunSound ==
  ASSUME NEW bm, NEW n \in Nat, NEW c \in Nat \ {0}, FreeRuns(bm, n, c) # {}
  PROVE  /\ Lowest(FreeRuns(bm, n, c)) \in 0 .. n - c
         /\ Run(Lowest(FreeRuns(bm, n, c)), c) \cap bm = {}
         /\ Run(Lowest(FreeRuns(bm, n, c)), c) \subseteq 0 .. n - 1
<1>1. FreeRuns(bm, n, c) \in SUBSET Nat
  BY DEF FreeRuns
<1>2. Lowest(FreeRuns(bm, n, c)) \in FreeRuns(bm, n, c)
  BY <1>1, LowestIn
<1>3. /\ Lowest(FreeRuns(bm, n, c)) \in 0 .. n - c
      /\ Run(Lowest(FreeRuns(bm, n, c)), c) \cap bm = {}
  BY <1>2 DEF FreeRuns
<1>4. ASSUME NEW s \in 0 .. n - c PROVE Run(s, c) \subseteq 0 .. n - 1
  BY DEF Run
<1>5. QED
  BY <1>3, <1>4

-----------------------------------------------------------------------------
LEMMA InitIInv == Init => IInv
<1> SUFFICES ASSUME Init PROVE IInv
  OBVIOUS
<1> USE ConstantsAssumption DEF Init
<1>1. TypeOK
  BY DEF TypeOK, Pages, Links, Extents
<1>2. SizesAgree
  BY DEF SizesAgree
<1>3. BitmapExact /\ LiveDisjoint /\ LiveNotReserved
  BY DEF BitmapExact, LiveDisjoint, LiveNotReserved, PagesOf
<1>4. FreeCountExact
  <2>1. (0 .. Reserved - 1) \ (0 .. Reserved - 1) = {}
    OBVIOUS
  <2>2. QED
    BY <2>1, FS_EmptySet DEF FreeCountExact, FreeCount
<1>5. LinksSound
  BY DEF LinksSound, SoundLink, Pages
<1>6. DiskInSync
  BY DEF DiskInSync
<1>7. QED
  BY <1>1, <1>2, <1>3, <1>4, <1>5, <1>6 DEF IInv

(***************************************************************************)
(* Every allocation hands out clear pages of the (possibly grown) file.    *)
(***************************************************************************)
LEMMA TakePreserves ==
  ASSUME IInv,
         NEW s \in Pages, NEW c \in 1 .. MaxCount, NEW g \in Nat, NEW l,
         Run(s, c) \cap bitmap = {},
         Run(s, c) \subseteq 0 .. n_pages + g - 1,
         n_pages + g <= MaxPages,
         n_pages' = n_pages + g,
         file_pages' = n_pages + g,
         bitmap' = bitmap \cup Run(s, c),
         live' = live \cup {<<s, c>>},
         n_free_pages' = n_free_pages + g - c,
         SoundLink(l),
         free_list_head' = l,
         phase' = "open",
         UNCHANGED <<first8, disk>>
  PROVE  IInv'
<1> USE ConstantsAssumption
<1> USE DEF disk
<1>1. /\ TypeOK /\ SizesAgree /\ LiveNotReserved /\ BitmapExact
      /\ LiveDisjoint /\ FreeCountExact /\ LinksSound /\ DiskInSync
  BY DEF IInv
<1>2. n_pages \in Nat /\ c \in Nat /\ s \in Nat /\ n_pages' \in 0 .. MaxPages
  BY <1>1 DEF TypeOK, Pages
<1>3. Run(s, c) \subseteq Pages
  BY <1>2 DEF Pages
<1>4. FreeCountExact'
  <2>1. bitmap \in SUBSET (0 .. n_pages - 1)
    BY <1>1 DEF SizesAgree
  <2>2. FreeCount(bitmap, n_pages + g) = FreeCount(bitmap, n_pages) + g
    BY <1>2, <2>1, FreeCountGrow
  <2>3. Run(s, c) \in SUBSET ((0 .. n_pages + g - 1) \ bitmap)
    OBVIOUS
  <2>4. FreeCount(bitmap \cup Run(s, c), n_pages + g)
          = FreeCount(bitmap, n_pages + g) - Cardinality(Run(s, c))
    BY <1>2, <2>3, FreeCountTake
  <2>5. Cardinality(Run(s, c)) = c
    BY <1>2, RunSize
  <2>6. n_free_pages = FreeCount(bitmap, n_pages)
    BY <1>1 DEF FreeCountExact
  <2>7. FreeCount(bitmap \cup Run(s, c), n_pages + g) = n_free_pages + g - c
    <3>1. FreeCount(bitmap, n_pages) \in Nat
      BY <1>2, FreeFinite
    <3>2. QED
      BY <1>2, <2>2, <2>4, <2>5, <2>6, <3>1
  <2>8. QED
    BY <2>7 DEF FreeCountExact
<1>5. SizesAgree'
  <2>1. 0 .. n_pages - 1 \subseteq 0 .. n_pages + g - 1
    BY <1>2
  <2>2. Reserved <= n_pages + g
    BY <1>1, <1>2 DEF SizesAgree
  <2>3. bitmap \cup Run(s, c) \subseteq 0 .. n_pages + g - 1
    BY <1>1, <2>1 DEF SizesAgree
  <2>4. QED
    BY <1>2, <2>2, <2>3 DEF SizesAgree
<1>6. BitmapExact'
  BY <1>1, PagesOfAdd DEF BitmapExact
<1>7. LiveDisjoint'
  <2>1. ASSUME NEW d \in live
        PROVE  Run(d[1], d[2]) \cap Run(s, c) = {}
    BY <1>1 DEF BitmapExact, PagesOf
  <2>2. QED
    BY <1>1, <2>1 DEF LiveDisjoint
<1>8. TypeOK'
  <2>1. free_list_head' \in Links
    BY <1>1, <1>2 DEF SoundLink, Links, Pages
  <2>2. n_free_pages' \in Nat
    <3>1. n_pages + g \in Nat
      BY <1>2
    <3>2. FreeCount(bitmap \cup Run(s, c), n_pages + g) \in Nat
      BY <3>1, FreeFinite
    <3>3. QED
      BY <1>4, <3>2 DEF FreeCountExact
  <2>3. bitmap' \in SUBSET Pages
    BY <1>1, <1>3 DEF TypeOK
  <2>4. live' \in SUBSET Extents
    BY <1>1 DEF TypeOK, Extents
  <2>5. file_pages' \in 0 .. MaxPages
    BY <1>2
  <2>6. QED
    BY <1>1, <1>2, <2>1, <2>2, <2>3, <2>4, <2>5 DEF TypeOK
<1>9. LinksSound'
  <2>1. ASSUME NEW k, SoundLink(k) PROVE SoundLink(k)'
    BY <1>2, <2>1 DEF SoundLink
  <2>2. SoundLink(free_list_head)'
    BY <1>2 DEF SoundLink
  <2>3. QED
    BY <1>1, <2>1, <2>2 DEF LinksSound
<1>10. DiskInSync'
  BY DEF DiskInSync
<1>11. LiveNotReserved'
  <2>1. (0 .. Reserved - 1) \cap Run(s, c) = {}
    BY <1>1 DEF BitmapExact
  <2>2. PagesOf(live') = PagesOf(live) \cup Run(s, c)
    BY PagesOfAdd
  <2>3. QED
    BY <1>1, <2>1, <2>2 DEF LiveNotReserved
<1>12. QED
  BY <1>4, <1>5, <1>6, <1>7, <1>8, <1>9, <1>10, <1>11 DEF IInv

\* A stale or absent head: the recount changes nothing.
LEMMA RecountIsCount ==
  ASSUME IInv PROVE CountAfterStale = n_free_pages
BY DEF IInv, FreeCountExact, CountAfterStale

\* One page is an extent of count one.
LEMMA OnePageRun ==
  ASSUME NEW p \in Nat PROVE Run(p, 1) = {p}
BY DEF Run

LEMMA AllocPagePreserves == IInv /\ alloc_page => IInv'
<1> SUFFICES ASSUME IInv, alloc_page PROVE IInv'
  OBVIOUS
<1> USE ConstantsAssumption
<1>1. /\ TypeOK /\ SizesAgree /\ LiveNotReserved /\ BitmapExact
      /\ LiveDisjoint /\ FreeCountExact /\ LinksSound /\ DiskInSync
  BY DEF IInv
<1>2. phase' = "open" /\ UNCHANGED <<first8, disk>>
  BY DEF alloc_page
<1>3. n_pages \in Nat /\ n_pages <= MaxPages /\ file_pages = n_pages
      /\ n_free_pages \in Int /\ 1 \in 1 .. MaxCount
  BY <1>1 DEF TypeOK, SizesAgree
<1>4. SoundLink(Nil)
  BY DEF SoundLink
<1>5. CASE PopFreeList
  <2>1. free_list_head \in 0 .. n_pages - 1 /\ first8[free_list_head] # Data
    BY <1>1, <1>5 DEF PopFreeList, LinksSound, SoundLink
  <2>2. free_list_head \in Pages /\ free_list_head \in Nat
    BY <1>3, <2>1 DEF Pages
  <2>3. SoundLink(first8[free_list_head])
    BY <1>1, <2>1, <2>2 DEF LinksSound
  <2>4. Run(free_list_head, 1) = {free_list_head}
    BY <2>2, OnePageRun
  <2>5. Run(free_list_head, 1) \cap bitmap = {}
    BY <1>5, <2>4 DEF PopFreeList
  <2>6. Run(free_list_head, 1) \subseteq 0 .. n_pages + 0 - 1
    BY <1>3, <2>1, <2>4
  <2>7. /\ n_pages + 0 <= MaxPages
        /\ n_pages' = n_pages + 0
        /\ file_pages' = n_pages + 0
        /\ n_free_pages' = n_free_pages + 0 - 1
    BY <1>3, <1>5 DEF PopFreeList
  <2>8. /\ bitmap' = bitmap \cup Run(free_list_head, 1)
        /\ live' = live \cup {<<free_list_head, 1>>}
        /\ free_list_head' = first8[free_list_head]
    BY <1>5, <2>4 DEF PopFreeList
  <2>9. QED
    BY <1>2, <1>3, <2>2, <2>3, <2>5, <2>6, <2>7, <2>8, TakePreserves
<1>6. CASE ScanOnePage
  <2> DEFINE page == Lowest(FreeRuns(bitmap, n_pages, 1))
  <2>1. /\ page \in 0 .. n_pages - 1
        /\ Run(page, 1) \cap bitmap = {}
        /\ Run(page, 1) \subseteq 0 .. n_pages - 1
    BY <1>3, <1>6, FreeRunSound DEF ScanOnePage
  <2>2. page \in Pages /\ page \in Nat
    BY <1>3, <2>1 DEF Pages
  <2>3. Run(page, 1) = {page}
    BY <2>2, OnePageRun
  <2>4. Run(page, 1) \subseteq 0 .. n_pages + 0 - 1
    BY <1>3, <2>1
  <2>5. /\ n_pages + 0 <= MaxPages
        /\ n_pages' = n_pages + 0
        /\ file_pages' = n_pages + 0
        /\ n_free_pages' = n_free_pages + 0 - 1
    BY <1>3, <1>6, RecountIsCount DEF ScanOnePage
  <2>6. /\ bitmap' = bitmap \cup Run(page, 1)
        /\ live' = live \cup {<<page, 1>>}
        /\ free_list_head' = Nil
    BY <1>6, <2>3 DEF ScanOnePage
  <2> HIDE DEF page
  <2>7. QED
    BY <1>2, <1>3, <1>4, <2>1, <2>2, <2>4, <2>5, <2>6, TakePreserves
<1>7. CASE GrowOnePage
  <2>1. n_pages \in Pages
    BY <1>3, <1>7 DEF GrowOnePage, Pages
  <2>2. Run(n_pages, 1) = {n_pages}
    BY <1>3, OnePageRun
  <2>3. Run(n_pages, 1) \cap bitmap = {}
    BY <1>1, <1>3, <2>2 DEF SizesAgree
  <2>4. Run(n_pages, 1) \subseteq 0 .. n_pages + 1 - 1
    BY <1>3, <2>2
  <2>5. /\ n_pages + 1 <= MaxPages
        /\ n_pages' = n_pages + 1
        /\ file_pages' = n_pages + 1
        /\ n_free_pages' = n_free_pages + 1 - 1
    BY <1>3, <1>7, RecountIsCount DEF GrowOnePage
  <2>6. /\ bitmap' = bitmap \cup Run(n_pages, 1)
        /\ live' = live \cup {<<n_pages, 1>>}
        /\ free_list_head' = Nil
    BY <1>7, <2>2 DEF GrowOnePage
  <2>7. QED
    BY <1>2, <1>3, <1>4, <2>1, <2>3, <2>4, <2>5, <2>6, TakePreserves
<1>8. QED
  BY <1>5, <1>6, <1>7 DEF alloc_page

LEMMA AllocExtentPreserves ==
  ASSUME IInv, NEW count \in 1 .. MaxCount, alloc_extent(count)
  PROVE  IInv'
<1> USE ConstantsAssumption
<1>1. /\ TypeOK /\ SizesAgree /\ LiveNotReserved /\ BitmapExact
      /\ LiveDisjoint /\ FreeCountExact /\ LinksSound /\ DiskInSync
  BY DEF IInv
<1>2. n_pages \in Nat /\ n_pages <= MaxPages /\ file_pages = n_pages
      /\ n_free_pages \in Int /\ count \in Nat \ {0}
  BY <1>1 DEF TypeOK, SizesAgree
<1> DEFINE N == PagesAfterGrow(count)
           start == Lowest(FreeRuns(bitmap, N, count))
<1>3. PICK g \in Nat : N = n_pages + g
  <2>1. N = n_pages + count \/ N = n_pages + 0
    BY <1>2 DEF PagesAfterGrow
  <2> HIDE DEF N
  <2>2. QED
    BY <1>2, <2>1
<1>4. /\ start \in 0 .. N - count
      /\ Run(start, count) \cap bitmap = {}
      /\ Run(start, count) \subseteq 0 .. N - 1
  <2>1. N \in Nat /\ FreeRuns(bitmap, N, count) # {}
    BY <1>2, <1>3 DEF alloc_extent
  <2> HIDE DEF N
  <2>2. QED
    BY <1>2, <2>1, FreeRunSound
<1>5. N <= MaxPages
  BY DEF alloc_extent
<1>6. start \in Pages /\ start \in Nat
  <2> HIDE DEF N, start
  <2>1. QED
    BY <1>2, <1>3, <1>4, <1>5 DEF Pages
<1>7. Cardinality(Run(start, count) \ bitmap) = count
  <2>1. Run(start, count) \ bitmap = Run(start, count)
    BY <1>4
  <2> HIDE DEF start
  <2>2. QED
    BY <1>2, <1>6, <2>1, RunSize
<1>8. /\ n_pages' = N
      /\ file_pages' = N
      /\ bitmap' = bitmap \cup Run(start, count)
      /\ live' = live \cup {<<start, count>>}
      /\ n_free_pages' = n_free_pages + (N - n_pages)
                           - Cardinality(Run(start, count) \ bitmap)
      /\ phase' = "open"
      /\ UNCHANGED <<free_list_head, first8, disk>>
  BY <1>2 DEF alloc_extent
<1>9. n_free_pages' = n_free_pages + g - count
  <2> HIDE DEF N, start
  <2>1. QED
    BY <1>2, <1>3, <1>7, <1>8
<1>10. SoundLink(free_list_head)
  BY <1>1 DEF LinksSound
<1> HIDE DEF N, start
<1>11. /\ n_pages + g <= MaxPages
       /\ n_pages' = n_pages + g
       /\ file_pages' = n_pages + g
  BY <1>3, <1>5, <1>8
<1>12. Run(start, count) \subseteq 0 .. n_pages + g - 1
  <2>1. N - 1 = n_pages + g - 1
    BY <1>2, <1>3
  <2>2. QED
    BY <1>4, <2>1
<1>13. QED
  BY <1>4, <1>6, <1>8, <1>9, <1>10, <1>11, <1>12, TakePreserves

(***************************************************************************)
(* Clearing set bits and pushing the pages onto the list keeps every next  *)
(* pointer sound and the count exact.                                      *)
(***************************************************************************)
LEMMA PushFreedSound ==
  ASSUME IInv, NEW freed \in SUBSET bitmap, PushFreed(freed),
         UNCHANGED n_pages
  PROVE  /\ LinksSound'
         /\ FreeCountExact'
         /\ free_list_head' \in Links \cup {Data}
         /\ first8' \in [Pages -> Links \cup {Data}]
         /\ n_free_pages' \in Nat
         /\ bitmap' = bitmap \ freed
<1> USE ConstantsAssumption
<1>1. /\ TypeOK /\ SizesAgree /\ FreeCountExact /\ LinksSound
  BY DEF IInv
<1>2. /\ bitmap' = bitmap \ freed
      /\ n_free_pages' = n_free_pages + Cardinality(freed)
      /\ free_list_head' = IF freed = {} THEN free_list_head ELSE Highest(freed)
      /\ first8' = [p \in Pages |->
                      IF p \notin freed THEN first8[p]
                      ELSE IF {q \in freed : q < p} = {} THEN free_list_head
                      ELSE Highest({q \in freed : q < p})]
  BY DEF PushFreed
<1>3. n_pages \in Nat /\ n_pages <= MaxPages
  BY <1>1 DEF TypeOK
<1>4. freed \in SUBSET (0 .. n_pages) /\ freed \in SUBSET (0 .. n_pages - 1)
      /\ freed \in SUBSET Pages
  BY <1>1, <1>3 DEF SizesAgree, TypeOK
<1>5. free_list_head \in Links /\ free_list_head # Data
  BY <1>1, <1>3 DEF LinksSound, SoundLink, Links, Pages
<1>6. freed # {} => Highest(freed) \in freed
  BY <1>3, <1>4, HighestIn
<1>7. ASSUME NEW p \in freed
      PROVE  first8'[p] = free_list_head \/ first8'[p] \in freed
  <2> DEFINE below == {q \in freed : q < p}
  <2>1. below \in SUBSET (0 .. n_pages) /\ below \subseteq freed
    BY <1>4
  <2>2. below # {} => Highest(below) \in below
    <3> HIDE DEF below
    <3>1. QED
      BY <1>3, <2>1, HighestIn
  <2>3. p \in Pages
    BY <1>4
  <2>4. first8'[p] = IF below = {} THEN free_list_head ELSE Highest(below)
    BY <1>2, <2>3
  <2> HIDE DEF below
  <2>5. QED
    BY <2>1, <2>2, <2>4
<1>8. ASSUME NEW p \in Pages, p \notin freed PROVE first8'[p] = first8[p]
  BY <1>2, <1>8
<1>9. ASSUME NEW p \in freed PROVE first8'[p] # Data /\ first8'[p] \in Links
  <2>1. freed \subseteq Links
    BY <1>4 DEF Links
  <2>2. Data \notin freed
    <3>1. freed \subseteq Nat
      BY <1>3, <1>4
    <3>2. QED
      BY <3>1
  <2>3. QED
    BY <1>5, <1>7, <2>1, <2>2
<1>10. ASSUME NEW l, SoundLink(l) PROVE SoundLink(l)'
  <2>1. CASE l = Nil
    BY <2>1 DEF SoundLink
  <2>2. CASE l \in freed
    BY <1>4, <1>9, <2>2 DEF SoundLink
  <2>3. CASE l # Nil /\ l \notin freed
    <3>1. l \in 0 .. n_pages - 1 /\ (l \in bitmap \/ first8[l] # Data)
      BY <1>10, <2>3 DEF SoundLink
    <3>2. l \in Pages
      BY <1>3, <3>1 DEF Pages
    <3>3. first8'[l] = first8[l]
      BY <1>8, <2>3, <3>2
    <3>4. QED
      BY <1>2, <2>3, <3>1, <3>3 DEF SoundLink
  <2>4. QED
    BY <2>1, <2>2, <2>3
<1>11. ASSUME NEW l \in freed PROVE SoundLink(l)'
  BY <1>4, <1>9 DEF SoundLink
<1>12. LinksSound'
  <2>1. SoundLink(free_list_head)'
    <3>1. CASE freed = {}
      <4>1. free_list_head' = free_list_head
        BY <1>2, <3>1
      <4>2. SoundLink(free_list_head)
        BY <1>1 DEF LinksSound
      <4>3. QED
        BY <1>10, <4>1, <4>2 DEF SoundLink
    <3>2. CASE freed # {}
      <4>1. free_list_head' \in freed
        BY <1>2, <1>6, <3>2
      <4>2. QED
        BY <1>4, <1>9, <4>1 DEF SoundLink
    <3>3. QED
      BY <3>1, <3>2
  <2>2. ASSUME NEW p \in Pages, first8'[p] # Data
        PROVE  first8'[p] = Nil \/ ( /\ first8'[p] \in 0 .. n_pages' - 1
                                    /\ \/ first8'[p] \in bitmap'
                                       \/ first8'[first8'[p]] # Data)
    <3>1. CASE p \in freed /\ first8'[p] \in freed
      BY <1>4, <1>9, <3>1
    <3>2. CASE p \in freed /\ first8'[p] = free_list_head
      <4>1. SoundLink(free_list_head)'
              \/ SoundLink(free_list_head)
        BY <1>1 DEF LinksSound
      <4>2. PICK k : k = free_list_head
        OBVIOUS
      <4>3. SoundLink(k)
        BY <1>1, <4>2 DEF LinksSound
      <4>4. SoundLink(k)'
        BY <1>10, <4>3
      <4>5. QED
        BY <3>2, <4>2, <4>4 DEF SoundLink
    <3>3. CASE p \notin freed
      <4>1. PICK k : k = first8[p]
        OBVIOUS
      <4>2. first8'[p] = k /\ SoundLink(k)
        BY <1>1, <1>8, <2>2, <3>3, <4>1 DEF LinksSound
      <4>3. SoundLink(k)'
        BY <1>10, <4>2
      <4>4. QED
        BY <4>2, <4>3 DEF SoundLink
    <3>4. QED
      BY <1>7, <3>1, <3>2, <3>3
  <2>3. QED
    BY <2>1, <2>2 DEF LinksSound, SoundLink
<1>13. FreeCountExact'
  <2>1. bitmap \in SUBSET (0 .. n_pages - 1)
    BY <1>1 DEF SizesAgree
  <2>2. FreeCount(bitmap \ freed, n_pages)
          = FreeCount(bitmap, n_pages) + Cardinality(freed)
    BY <1>3, <2>1, FreeCountGive
  <2>3. QED
    BY <1>1, <1>2, <2>2 DEF FreeCountExact
<1>14. n_free_pages' \in Nat
  <2>1. bitmap \in SUBSET (0 .. n_pages - 1)
    BY <1>1 DEF SizesAgree
  <2>2. Cardinality(freed) \in Nat
    BY <1>3, <2>1, FreeCountGive
  <2>3. QED
    BY <1>1, <1>2, <2>2 DEF TypeOK
<1>15. free_list_head' \in Links
  BY <1>2, <1>4, <1>5, <1>6 DEF Links
<1>16. first8' \in [Pages -> Links \cup {Data}]
  <2>1. ASSUME NEW p \in Pages PROVE first8'[p] \in Links \cup {Data}
    BY <1>1, <1>8, <1>9 DEF TypeOK
  <2>2. QED
    BY <1>2, <2>1
<1>17. QED
  BY <1>2, <1>12, <1>13, <1>14, <1>15, <1>16

(***************************************************************************)
(* Giving back the pages R of an extent, and keeping the extents `kept`    *)
(* that cover the rest of it.                                              *)
(***************************************************************************)
LEMMA GivePreserves ==
  ASSUME IInv,
         NEW x \in live, NEW kept \in SUBSET Extents, NEW R,
         R \subseteq Run(x[1], x[2]),
         PagesOf(kept) = Run(x[1], x[2]) \ R,
         \A d, e \in kept : d = e,
         PushFreed(R \cap bitmap),
         live' = (live \ {x}) \cup kept,
         phase' = "open",
         UNCHANGED <<n_pages, file_pages, disk>>
  PROVE  IInv'
<1> USE ConstantsAssumption
<1> USE DEF disk
<1>1. /\ TypeOK /\ SizesAgree /\ LiveNotReserved /\ BitmapExact
      /\ LiveDisjoint /\ FreeCountExact /\ LinksSound /\ DiskInSync
  BY DEF IInv
<1>2. Run(x[1], x[2]) \subseteq PagesOf(live)
  BY DEF PagesOf
<1>3. /\ LinksSound'
      /\ FreeCountExact'
      /\ free_list_head' \in Links \cup {Data}
      /\ first8' \in [Pages -> Links \cup {Data}]
      /\ n_free_pages' \in Nat
      /\ bitmap' = bitmap \ (R \cap bitmap)
  <2>1. R \cap bitmap \in SUBSET bitmap
    OBVIOUS
  <2>2. QED
    BY <2>1, PushFreedSound
<1>4. bitmap' = bitmap \ R
  BY <1>3
<1>5. ASSUME NEW d \in kept
      PROVE  Run(d[1], d[2]) \subseteq Run(x[1], x[2]) \ R
  BY PagesOfMember
<1>6. TypeOK'
  <2>1. live' \in SUBSET Extents
    BY <1>1 DEF TypeOK
  <2>2. bitmap' \in SUBSET Pages
    BY <1>1, <1>4 DEF TypeOK
  <2>3. QED
    BY <1>1, <1>3, <2>1, <2>2 DEF TypeOK
<1>7. SizesAgree'
  BY <1>1, <1>4 DEF SizesAgree
<1>8. PagesOf(live') = PagesOf(live) \ R
  <2>1. ASSUME NEW p, p \in PagesOf(live') PROVE p \in PagesOf(live) \ R
    <3>1. PICK d \in live' : p \in Run(d[1], d[2])
      BY <2>1, PagesOfMember
    <3>2. CASE d \in kept
      BY <1>2, <1>5, <3>1, <3>2
    <3>3. CASE d \in live /\ d # x
      <4>1. Run(d[1], d[2]) \cap Run(x[1], x[2]) = {}
        BY <1>1, <3>3 DEF LiveDisjoint
      <4>2. p \in PagesOf(live)
        BY <3>1, <3>3, PagesOfMember
      <4>3. QED
        BY <3>1, <4>1, <4>2
    <3>4. QED
      BY <3>1, <3>2, <3>3
  <2>2. ASSUME NEW p, p \in PagesOf(live), p \notin R
        PROVE  p \in PagesOf(live')
    <3>1. PICK d \in live : p \in Run(d[1], d[2])
      BY <2>2, PagesOfMember
    <3>2. CASE d = x
      <4>1. p \in PagesOf(kept)
        BY <2>2, <3>1, <3>2
      <4>2. PICK k \in kept : p \in Run(k[1], k[2])
        BY <4>1, PagesOfMember
      <4>3. QED
        BY <4>2, PagesOfMember
    <3>3. CASE d # x
      BY <3>1, <3>3, PagesOfMember
    <3>4. QED
      BY <3>2, <3>3
  <2>3. QED
    BY <2>1, <2>2
<1>9. BitmapExact'
  <2>1. (0 .. Reserved - 1) \cap R = {}
    BY <1>1, <1>2 DEF LiveNotReserved
  <2>2. QED
    BY <1>1, <1>4, <1>8, <2>1 DEF BitmapExact
<1>10. LiveDisjoint'
  <2>1. ASSUME NEW d \in live', NEW e \in live', d # e
        PROVE  Run(d[1], d[2]) \cap Run(e[1], e[2]) = {}
    <3>1. CASE d \in live \ {x} /\ e \in live \ {x}
      BY <1>1, <2>1, <3>1 DEF LiveDisjoint
    <3>2. CASE d \in live \ {x} /\ e \in kept
      <4>1. Run(d[1], d[2]) \cap Run(x[1], x[2]) = {}
        BY <1>1, <3>2 DEF LiveDisjoint
      <4>2. QED
        BY <1>5, <3>2, <4>1
    <3>3. CASE d \in kept /\ e \in live \ {x}
      <4>1. Run(e[1], e[2]) \cap Run(x[1], x[2]) = {}
        BY <1>1, <3>3 DEF LiveDisjoint
      <4>2. QED
        BY <1>5, <3>3, <4>1
    <3>4. CASE d \in kept /\ e \in kept
      BY <2>1, <3>4
    <3>5. QED
      BY <3>1, <3>2, <3>3, <3>4
  <2>2. QED
    BY <2>1 DEF LiveDisjoint
<1>11. LiveNotReserved'
  BY <1>1, <1>8 DEF LiveNotReserved
<1>12. DiskInSync'
  BY DEF DiskInSync
<1>13. QED
  BY <1>3, <1>6, <1>7, <1>9, <1>10, <1>11, <1>12 DEF IInv

LEMMA FreeExtentPreserves ==
  ASSUME IInv, NEW x \in live, NEW start \in Pages, free_extent(x, start)
  PROVE  IInv'
<1> USE ConstantsAssumption
<1> DEFINE count == x[1] + x[2] - start
           kept == IF start = x[1] THEN {} ELSE {<<x[1], start - x[1]>>}
           R == Run(start, count)
<1>1. x[1] \in Pages /\ x[2] \in 1 .. MaxCount
  BY DEF IInv, TypeOK, Extents
<1>2. x[1] \in Nat /\ x[2] \in Nat /\ start \in Nat
  BY <1>1 DEF Pages
<1>3. x[1] <= start /\ start <= x[1] + x[2] - 1
  BY <1>2 DEF free_extent, Run
<1>4. R \subseteq Run(x[1], x[2])
  BY <1>2, <1>3 DEF Run
<1>5. PagesOf(kept) = Run(x[1], x[2]) \ R
  <2>1. Run(x[1], x[2]) \ R = Run(x[1], start - x[1])
    BY <1>2, <1>3 DEF Run
  <2>2. CASE start = x[1]
    <3>1. Run(x[1], start - x[1]) = {}
      BY <1>2, <2>2 DEF Run
    <3>2. PagesOf(kept) = {}
      BY <2>2 DEF PagesOf
    <3>3. QED
      BY <2>1, <3>1, <3>2
  <2>3. CASE start # x[1]
    <3>1. PagesOf(kept) = Run(x[1], start - x[1])
      <4>1. PagesOf({} \cup {<<x[1], start - x[1]>>})
              = PagesOf({}) \cup Run(x[1], start - x[1])
        BY PagesOfAdd
      <4>2. PagesOf({}) = {}
        BY DEF PagesOf
      <4>3. {} \cup {<<x[1], start - x[1]>>} = kept
        BY <2>3
      <4> HIDE DEF kept
      <4>4. QED
        BY <4>1, <4>2, <4>3
    <3>2. QED
      BY <2>1, <3>1
  <2>4. QED
    BY <2>2, <2>3
<1>6. kept \in SUBSET Extents
  <2>1. CASE start = x[1]
    BY <2>1
  <2>2. CASE start # x[1]
    <3>1. start - x[1] \in 1 .. MaxCount
      BY <1>1, <1>2, <1>3, <2>2
    <3>2. QED
      BY <1>1, <2>2, <3>1 DEF Extents
  <2>3. QED
    BY <2>1, <2>2
<1>7. \A d, e \in kept : d = e
  OBVIOUS
<1>8. /\ PushFreed(R \cap bitmap)
      /\ live' = (live \ {x}) \cup kept
      /\ phase' = "open"
      /\ UNCHANGED <<n_pages, file_pages, disk>>
  BY DEF free_extent
<1> HIDE DEF count, kept, R
<1>9. QED
  BY <1>4, <1>5, <1>6, <1>7, <1>8, GivePreserves

LEMMA FreePagePreserves ==
  ASSUME IInv, NEW page \in Pages, free_page(page)
  PROVE  IInv'
<1> USE ConstantsAssumption
<1>1. <<page, 1>> \in live
  BY DEF free_page
<1>2. <<page, 1>>[1] = page /\ <<page, 1>>[2] = 1
  OBVIOUS
<1>3. Run(page, 1) = {page}
  BY OnePageRun DEF Pages
<1>4. PagesOf({}) = Run(page, 1) \ {page}
  BY <1>3 DEF PagesOf
<1>5. /\ PushFreed({page} \cap bitmap)
      /\ live' = (live \ {<<page, 1>>}) \cup {}
      /\ phase' = "open"
      /\ UNCHANGED <<n_pages, file_pages, disk>>
  BY DEF free_page
<1>6. PICK x : x = <<page, 1>>
  OBVIOUS
<1>7. x \in live /\ Run(x[1], x[2]) = {page} /\ live' = (live \ {x}) \cup {}
  BY <1>1, <1>2, <1>3, <1>5, <1>6
<1>8. {} \in SUBSET Extents /\ (\A d, e \in {} : d = e)
  OBVIOUS
<1>9. {page} \subseteq Run(x[1], x[2]) /\ PagesOf({}) = Run(x[1], x[2]) \ {page}
  BY <1>3, <1>4, <1>7
<1>10. QED
  BY <1>5, <1>7, <1>8, <1>9, GivePreserves

-----------------------------------------------------------------------------
\* A caller only overwrites pages whose bit is set, so no free page loses its
\* next pointer.
LEMMA WriteExtentPreserves ==
  ASSUME IInv, NEW x \in live, write_extent(x)
  PROVE  IInv'
<1> USE ConstantsAssumption
<1> USE DEF mem, disk
<1>1. /\ TypeOK /\ SizesAgree /\ LiveNotReserved /\ BitmapExact
      /\ LiveDisjoint /\ FreeCountExact /\ LinksSound /\ DiskInSync
  BY DEF IInv
<1>2. /\ first8' = [p \in Pages |->
                  IF p \in Run(x[1], x[2]) THEN Data ELSE first8[p]]
      /\ phase' = "open"
      /\ UNCHANGED <<mem, file_pages, disk, live>>
  BY DEF write_extent
<1>3. Run(x[1], x[2]) \subseteq bitmap
  BY <1>1, PagesOfMember DEF BitmapExact
<1>4. TypeOK'
  <2>1. first8' \in [Pages -> Links \cup {Data}]
    BY <1>1, <1>2 DEF TypeOK
  <2>2. QED
    BY <1>1, <1>2, <2>1 DEF TypeOK
<1>5. ASSUME NEW l, SoundLink(l) PROVE SoundLink(l)'
  <2>1. n_pages \in Nat /\ n_pages <= MaxPages
    BY <1>1 DEF TypeOK
  <2>2. QED
    BY <1>2, <1>3, <1>5, <2>1 DEF SoundLink, Pages
<1>6. LinksSound'
  <2>1. SoundLink(free_list_head)'
    BY <1>1, <1>2, <1>5 DEF LinksSound, SoundLink
  <2>2. ASSUME NEW p \in Pages, first8'[p] # Data
        PROVE  SoundLink(first8[p])' /\ first8'[p] = first8[p]
    <3>1. first8'[p] = first8[p]
      BY <1>2, <2>2
    <3>2. PICK k : k = first8[p]
      OBVIOUS
    <3>3. SoundLink(k)
      BY <1>1, <2>2, <3>1, <3>2 DEF LinksSound
    <3>4. SoundLink(k)'
      BY <1>5, <3>3
    <3>5. QED
      BY <3>1, <3>2, <3>4 DEF SoundLink
  <2>3. QED
    BY <2>1, <2>2 DEF LinksSound
<1>7. SizesAgree' /\ LiveNotReserved' /\ BitmapExact' /\ LiveDisjoint'
      /\ FreeCountExact'
  BY <1>1, <1>2 DEF SizesAgree, LiveNotReserved, BitmapExact, LiveDisjoint,
                    FreeCountExact
<1>8. DiskInSync'
  BY <1>2 DEF DiskInSync
<1>9. QED
  BY <1>4, <1>6, <1>7, <1>8 DEF IInv

\* What the steps of the commit, and of the reload, leave alone.
LEMMA SameAllocation ==
  ASSUME IInv, UNCHANGED <<n_pages, bitmap, file_pages, first8, live>>
  PROVE  SizesAgree' /\ LiveNotReserved' /\ BitmapExact' /\ LiveDisjoint'
<1>1. SizesAgree /\ LiveNotReserved /\ BitmapExact /\ LiveDisjoint
  BY DEF IInv
<1>2. QED
  BY <1>1 DEF SizesAgree, LiveNotReserved, BitmapExact, LiveDisjoint

LEMMA FlushPreserves == IInv /\ flush_bitmap => IInv'
<1> SUFFICES ASSUME IInv, flush_bitmap PROVE IInv'
  OBVIOUS
<1> USE DEF mem, file
<1>1. TypeOK /\ FreeCountExact /\ LinksSound
  BY DEF IInv
<1>2. TypeOK'
  BY <1>1 DEF TypeOK, flush_bitmap
<1>3. SizesAgree' /\ LiveNotReserved' /\ BitmapExact' /\ LiveDisjoint'
  BY SameAllocation DEF flush_bitmap
<1>4. FreeCountExact' /\ LinksSound'
  BY <1>1 DEF FreeCountExact, LinksSound, SoundLink, flush_bitmap
<1>5. DiskInSync'
  BY DEF DiskInSync, flush_bitmap
<1>6. QED
  BY <1>2, <1>3, <1>4, <1>5 DEF IInv

LEMMA FlushThrowsPreserves == IInv /\ flush_bitmap_throws => IInv'
<1> SUFFICES ASSUME IInv, flush_bitmap_throws PROVE IInv'
  OBVIOUS
<1> USE DEF mem, file, disk
<1>1. TypeOK /\ FreeCountExact /\ LinksSound
  BY DEF IInv
<1>2. TypeOK'
  BY <1>1 DEF TypeOK, flush_bitmap_throws
<1>3. SizesAgree' /\ LiveNotReserved' /\ BitmapExact' /\ LiveDisjoint'
  BY SameAllocation DEF flush_bitmap_throws
<1>4. FreeCountExact' /\ LinksSound'
  BY <1>1 DEF FreeCountExact, LinksSound, SoundLink, flush_bitmap_throws
<1>5. DiskInSync'
  BY DEF DiskInSync, flush_bitmap_throws
<1>6. QED
  BY <1>2, <1>3, <1>4, <1>5 DEF IInv

LEMMA CommitPreserves == IInv /\ commit_superblock => IInv'
<1> SUFFICES ASSUME IInv, commit_superblock PROVE IInv'
  OBVIOUS
<1> USE DEF file
<1>1. /\ TypeOK /\ SizesAgree /\ FreeCountExact /\ LinksSound /\ DiskInSync
  BY DEF IInv
<1>2. FreeCount(bitmap, n_pages) = n_free_pages
  BY <1>1 DEF FreeCountExact
<1>3. /\ sb' = [n_pages |-> n_pages, head |-> free_list_head,
                n_free |-> n_free_pages]
      /\ sb_live' = live
      /\ free_list_head' = Nil
      /\ n_free_pages' = n_free_pages
      /\ phase' = "committed"
      /\ UNCHANGED <<n_pages, bitmap, file_pages, first8, disk_bitmap, live>>
  BY <1>1, <1>2 DEF commit_superblock, SizesAgree
<1>4. TypeOK'
  BY <1>1, <1>3 DEF TypeOK, Links
<1>5. SizesAgree' /\ LiveNotReserved' /\ BitmapExact' /\ LiveDisjoint'
  BY <1>3, SameAllocation
<1>6. FreeCountExact'
  BY <1>1, <1>3 DEF FreeCountExact
<1>7. LinksSound'
  BY <1>1, <1>3 DEF LinksSound, SoundLink
<1>8. DiskInSync'
  <2>1. disk_bitmap' = bitmap'
    BY <1>1, <1>3 DEF DiskInSync, commit_superblock
  <2>2. SoundLink(sb.head)'
    BY <1>1, <1>3 DEF LinksSound, SoundLink
  <2>3. QED
    BY <1>3, <2>1, <2>2 DEF DiskInSync
<1>9. QED
  BY <1>4, <1>5, <1>6, <1>7, <1>8 DEF IInv

LEMMA ClosePreserves == IInv /\ close => IInv'
<1> SUFFICES ASSUME IInv, close PROVE IInv'
  OBVIOUS
<1> USE DEF mem, file, disk
<1>1. TypeOK /\ FreeCountExact /\ LinksSound /\ DiskInSync
  BY DEF IInv
<1>2. TypeOK'
  BY <1>1 DEF TypeOK, close
<1>3. SizesAgree' /\ LiveNotReserved' /\ BitmapExact' /\ LiveDisjoint'
  BY SameAllocation DEF close
<1>4. FreeCountExact' /\ LinksSound'
  BY <1>1 DEF FreeCountExact, LinksSound, SoundLink, close
<1>5. DiskInSync'
  BY <1>1 DEF DiskInSync, SoundLink, close
<1>6. QED
  BY <1>2, <1>3, <1>4, <1>5 DEF IInv

LEMMA LoadPreserves == IInv /\ load => IInv'
<1> SUFFICES ASSUME IInv, load PROVE IInv'
  OBVIOUS
<1> USE DEF file, disk
<1>1. TypeOK /\ FreeCountExact /\ LinksSound /\ DiskInSync
  BY DEF IInv
<1>2. /\ phase' = "open"
      /\ free_list_head' = sb.head
      /\ SoundLink(sb.head)
      /\ UNCHANGED <<n_pages, bitmap, n_free_pages, file_pages, first8,
                     disk_bitmap, sb, sb_live, live>>
  BY <1>1 DEF load, DiskInSync
<1>3. TypeOK'
  BY <1>1, <1>2 DEF TypeOK
<1>4. SizesAgree' /\ LiveNotReserved' /\ BitmapExact' /\ LiveDisjoint'
  BY <1>2, SameAllocation
<1>5. FreeCountExact' /\ LinksSound'
  BY <1>1, <1>2 DEF FreeCountExact, LinksSound, SoundLink
<1>6. DiskInSync'
  BY <1>2 DEF DiskInSync
<1>7. QED
  BY <1>3, <1>4, <1>5, <1>6 DEF IInv

LEMMA StutterPreserves == IInv /\ UNCHANGED vars => IInv'
<1> SUFFICES ASSUME IInv, UNCHANGED vars PROVE IInv'
  OBVIOUS
<1>1. TypeOK /\ FreeCountExact /\ LinksSound /\ DiskInSync
  BY DEF IInv
<1>2. TypeOK'
  BY <1>1 DEF TypeOK, vars
<1>3. SizesAgree' /\ LiveNotReserved' /\ BitmapExact' /\ LiveDisjoint'
  BY SameAllocation DEF vars
<1>4. FreeCountExact' /\ LinksSound' /\ DiskInSync'
  BY <1>1 DEF FreeCountExact, LinksSound, DiskInSync, SoundLink, vars
<1>5. QED
  BY <1>2, <1>3, <1>4 DEF IInv

-----------------------------------------------------------------------------
(***************************************************************************)
(* The inductive invariant holds in every reachable state: no sequence of  *)
(* allocations, frees, writes, commits and reloads breaks the allocator.   *)
(***************************************************************************)
THEOREM IInvAlways == Spec => []IInv
<1>1. IInv /\ [Next]_vars => IInv'
  <2> SUFFICES ASSUME IInv, [Next]_vars PROVE IInv'
    OBVIOUS
  <2>1. CASE alloc_page
    BY <2>1, AllocPagePreserves
  <2>2. CASE \E count \in 1 .. MaxCount : alloc_extent(count)
    BY <2>2, AllocExtentPreserves
  <2>3. CASE \E x \in live : \E start \in Pages : free_extent(x, start)
    BY <2>3, FreeExtentPreserves
  <2>4. CASE \E page \in Pages : free_page(page)
    BY <2>4, FreePagePreserves
  <2>5. CASE \E x \in live : write_extent(x)
    BY <2>5, WriteExtentPreserves
  <2>6. CASE flush_bitmap
    BY <2>6, FlushPreserves
  <2>7. CASE flush_bitmap_throws
    BY <2>7, FlushThrowsPreserves
  <2>8. CASE commit_superblock
    BY <2>8, CommitPreserves
  <2>9. CASE close
    BY <2>9, ClosePreserves
  <2>10. CASE load
    BY <2>10, LoadPreserves
  <2>11. CASE UNCHANGED vars
    BY <2>11, StutterPreserves
  <2>12. QED
    BY <2>1, <2>2, <2>3, <2>4, <2>5, <2>6, <2>7, <2>8, <2>9, <2>10, <2>11
       DEF Next
<1>2. QED
  BY InitIInv, <1>1, PTL DEF Spec

\* Every variable of the allocator, the file and the superblock keeps its type.
THEOREM TypeCorrect == Spec => []TypeOK
<1>1. IInv => TypeOK
  BY DEF IInv
<1>2. QED
  BY IInvAlways, <1>1, PTL

(***************************************************************************)
(* The set bits are always exactly the reserved pages and the pages of the *)
(* extents in use: alloc_page and alloc_extent never hand out a live page  *)
(* and free_extent leaks none.                                             *)
(***************************************************************************)
THEOREM BitmapAlwaysExact == Spec => []BitmapExact
<1>1. IInv => BitmapExact
  BY DEF IInv
<1>2. QED
  BY IInvAlways, <1>1, PTL

\* Two extents the index refers to never share a page.
THEOREM ExtentsAlwaysDisjoint == Spec => []LiveDisjoint
<1>1. IInv => LiveDisjoint
  BY DEF IInv
<1>2. QED
  BY IInvAlways, <1>1, PTL

\* n_free_pages_ always counts the clear bits, although the list it once
\* measured may be stale.
THEOREM FreeCountAlwaysExact == Spec => []FreeCountExact
<1>1. IInv => FreeCountExact
  BY DEF IInv
<1>2. QED
  BY IInvAlways, <1>1, PTL

\* alloc_page never takes a next pointer out of a caller's data, and never
\* follows one out of the file.
THEOREM FreeListAlwaysFollowable == Spec => []FreeListNeverGarbage
<1>1. IInv => FreeListNeverGarbage
  <2> SUFFICES ASSUME IInv PROVE FreeListNeverGarbage
    OBVIOUS
  <2> USE ConstantsAssumption
  <2>1. n_pages \in Nat /\ n_pages <= MaxPages /\ SoundLink(free_list_head)
    BY DEF IInv, TypeOK, LinksSound
  <2>2. free_list_head \in Links
    BY <2>1 DEF SoundLink, Links, Pages
  <2>3. QED
    BY <2>1, <2>2 DEF SoundLink, FreeListNeverGarbage
<1>2. QED
  BY IInvAlways, <1>1, PTL

\* Once a mutation has committed, the bitmap region and the superblock on disk
\* agree with each other.
THEOREM CommittedBitmapAlwaysExact == Spec => []CommittedBitmapExact
<1>1. IInv => CommittedBitmapExact
  <2> SUFFICES ASSUME IInv, phase \in {"idle", "committed"}
               PROVE  /\ disk_bitmap = (0 .. Reserved - 1) \cup PagesOf(sb_live)
                      /\ sb.n_free = FreeCount(disk_bitmap, sb.n_pages)
    BY DEF CommittedBitmapExact
  <2>1. /\ disk_bitmap = bitmap
        /\ sb.n_pages = n_pages
        /\ sb.n_free = n_free_pages
        /\ sb_live = live
    BY DEF IInv, DiskInSync
  <2>2. BitmapExact /\ FreeCountExact
    BY DEF IInv
  <2>3. QED
    BY <2>1, <2>2 DEF BitmapExact, FreeCountExact
<1>2. QED
  BY IInvAlways, <1>1, PTL
=============================================================================
