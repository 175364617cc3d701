----------------------------- MODULE Superblock -----------------------------
(***************************************************************************)
(* The double superblock of the tree file (src/tree/superblock.cpp) across *)
(* power losses: two copies, on pages 0 and 1, in the page cache and on    *)
(* the device.  load picks the valid copy with the higher commit_seq;      *)
(* commit writes the next sequence number over the other copy and waits    *)
(* for fdatasync.                                                          *)
(*                                                                         *)
(* A page written and not yet synced may reach the device at any time.  A  *)
(* power loss keeps what reached it and may leave a page that was being    *)
(* written unreadable (its magic gone).  A superblock's fields besides     *)
(* commit_seq are abstracted to the version of the blobs (root, leaf       *)
(* table, manifest) it points at.                                          *)
(***************************************************************************)
EXTENDS Integers

CONSTANTS
  MaxSeq,     \* bound: highest commit_seq of a behaviour
  MaxLosses   \* bound: power losses of a behaviour

ASSUME ConstantsAssumption == MaxSeq \in Nat /\ MaxLosses \in Nat

VARIABLES
  cached,     \* the two copies, as reads see them
  durable,    \* the two copies on the device
  disk_,      \* Superblock::disk_, the in-memory copy
  phase,      \* "closed", "open" or "written" (commit waits for its sync)
  version,    \* versions of the blobs written so far
  blobs,      \* the highest version known to be on the device
  committed,  \* history: the superblock of the last commit that returned
  losses      \* power losses so far

vars == <<cached, durable, disk_, phase, version, blobs, committed, losses>>

Copies == {0, 1}    \* kSuperblockPage, kSuperblockShadowPage

Copy(magic, seq, blob) == [magic |-> magic, commit_seq |-> seq, blob |-> blob]
Blank == Copy(FALSE, 0, 0)

\* Mutant: page 0 wins whenever it is valid.
LoadPageZero(copies) == IF copies[0].magic THEN copies[0] ELSE copies[1]

\* Superblock::load: the valid copy with the higher commit_seq, page 0 on a tie.
Load(copies) ==
  CASE copies[0].magic /\ copies[1].magic ->
         IF copies[0].commit_seq >= copies[1].commit_seq THEN copies[0] ELSE copies[1]
    [] copies[0].magic /\ ~copies[1].magic -> copies[0]
    [] OTHER -> copies[1]

Loadable(copies) == copies[0].magic \/ copies[1].magic

\* Mutant: every commit overwrites page 0.
CommitPageFixed(seq) == 0

\* The copy commit overwrites.
CommitPage(seq) == IF seq % 2 = 0 THEN 0 ELSE 1

-----------------------------------------------------------------------------
\* Mutant: the copies of an older tree are left in place.
FormatKeepsCopies ==
  /\ phase = "closed"
  /\ committed = Blank
  /\ disk_' = Copy(TRUE, 0, 0)
  /\ phase' = "open"
  /\ UNCHANGED <<cached, durable, version, blobs, committed, losses>>

\* A build formats the file: both old copies are wiped before anything else, and the
\* in-memory superblock starts afresh (init_fresh).  The wipe may stay in the cache.
format ==
  /\ phase = "closed"
  /\ committed = Blank
  /\ cached' = [c \in Copies |-> Blank]
  /\ disk_' = Copy(TRUE, 0, 0)
  /\ phase' = "open"
  /\ UNCHANGED <<durable, version, blobs, committed, losses>>

\* The index writes new blobs and points the in-memory superblock at them.
set_fields ==
  /\ phase = "open"
  /\ version < MaxSeq
  /\ version' = version + 1
  /\ disk_' = [disk_ EXCEPT !.blob = version + 1]
  /\ UNCHANGED <<cached, durable, phase, blobs, committed, losses>>

\* commit: the next sequence number goes to the copy its parity names ...
commit_write ==
  /\ phase = "open"
  /\ disk_.commit_seq < MaxSeq
  /\ disk_' = [disk_ EXCEPT !.commit_seq = @ + 1]
  /\ cached' = [cached EXCEPT ![CommitPage(disk_.commit_seq + 1)] = disk_']
  /\ phase' = "written"
  /\ UNCHANGED <<durable, version, blobs, committed, losses>>

\* ... and fdatasync makes it, and everything written before it, durable.
commit_sync ==
  /\ phase = "written"
  /\ durable' = cached
  /\ blobs' = version
  /\ committed' = disk_
  /\ phase' = "open"
  /\ UNCHANGED <<cached, disk_, version, losses>>

\* The kernel writes a cached copy, or the blobs, back on its own.
writeback(c) ==
  /\ durable' = [durable EXCEPT ![c] = cached[c]]
  /\ UNCHANGED <<cached, disk_, phase, version, blobs, committed, losses>>

writeback_blobs ==
  /\ blobs' = version
  /\ UNCHANGED <<cached, durable, disk_, phase, version, committed, losses>>

\* Power is lost: the cache is gone, and copies that were being written back may be
\* unreadable.
power_loss(torn) ==
  /\ phase # "closed"
  /\ losses < MaxLosses
  /\ \A c \in torn : durable[c] # cached[c]
  /\ durable' = [c \in Copies |-> IF c \in torn THEN Blank ELSE durable[c]]
  /\ cached' = durable'
  /\ phase' = "closed"
  /\ version' = blobs
  /\ losses' = losses + 1
  /\ UNCHANGED <<disk_, blobs, committed>>

\* The file is opened again; with neither copy valid load throws.
load ==
  /\ phase = "closed"
  /\ committed # Blank
  /\ Loadable(cached)
  /\ disk_' = Load(cached)
  /\ committed' = Load(cached)
  /\ phase' = "open"
  /\ UNCHANGED <<cached, durable, version, blobs, losses>>

-----------------------------------------------------------------------------
\* The file may hold the copies of an older tree, whose last commit had any number.
Init ==
  /\ \E s \in 0 .. MaxSeq :
       durable = [c \in Copies |->
                    IF s = 0 THEN Blank
                    ELSE IF c = CommitPage(s) THEN Copy(TRUE, s, 0)
                    ELSE IF s = 1 THEN Blank ELSE Copy(TRUE, s - 1, 0)]
  /\ cached = durable
  /\ disk_ = Blank
  /\ phase = "closed"
  /\ version = 0
  /\ blobs = 0
  /\ committed = Blank
  /\ losses = 0

Next ==
  \/ format
  \/ set_fields
  \/ commit_write
  \/ commit_sync
  \/ \E c \in Copies : writeback(c)
  \/ writeback_blobs
  \/ \E torn \in SUBSET Copies : power_loss(torn)
  \/ load

Spec == Init /\ [][Next]_vars

-----------------------------------------------------------------------------
CopyType == [magic : BOOLEAN, commit_seq : Nat, blob : Nat]

\* The copies, the in-memory superblock and the counters have their types.
TypeOK ==
  /\ cached \in [Copies -> CopyType]
  /\ durable \in [Copies -> CopyType]
  /\ disk_ \in CopyType
  /\ phase \in {"closed", "open", "written"}
  /\ version \in Nat /\ blobs \in Nat /\ losses \in Nat
  /\ committed \in CopyType

(***************************************************************************)
(* A crash leaves either the old or the new superblock (superblock.hpp:    *)
(* 106): whatever is lost, and whatever page was being written, an open    *)
(* loads the last committed superblock or the one being committed.         *)
(***************************************************************************)
OldOrNew ==
  committed # Blank =>
    /\ Loadable(durable)
    /\ \/ Load(durable) = committed
       \/ phase = "written" /\ Load(durable) = disk_
       \/ phase = "closed" /\ Load(durable).commit_seq = committed.commit_seq + 1

\* Superblock v is the one load finds: it is on the page its number names, and the
\* other copy is invalid or older.
Found(copies, v) ==
  LET here == CommitPage(v.commit_seq)
  IN /\ v.magic /\ v.commit_seq > 0
     /\ copies[here] = v
     /\ copies[1 - here].magic => copies[1 - here].commit_seq < v.commit_seq

(***************************************************************************)
(* Why OldOrNew holds: the copy a commit overwrites is never the one load  *)
(* would pick, so until the sync the old superblock stays whole, whatever  *)
(* happens to the new one.                                                 *)
(***************************************************************************)
ShadowProtocol ==
  /\ phase = "open" => disk_.magic
  /\ phase = "open" /\ committed # Blank =>
       /\ cached = durable
       /\ Found(durable, committed)
       /\ disk_.commit_seq = committed.commit_seq
  /\ phase = "open" /\ committed = Blank =>
       disk_.commit_seq = 0 /\ cached = [c \in Copies |-> Blank]
  /\ phase = "written" => Found(cached, disk_)
  /\ phase = "written" /\ committed # Blank =>
       /\ disk_.commit_seq = committed.commit_seq + 1
       /\ committed.magic /\ committed.commit_seq > 0
       /\ Found(durable, committed) \/ Found(durable, disk_)
       /\ durable[CommitPage(committed.commit_seq)] = committed
       /\ cached[CommitPage(committed.commit_seq)] = committed
  /\ phase = "written" /\ committed = Blank =>
       disk_.commit_seq = 1 /\ cached[0] = Blank
  /\ phase = "closed" => cached = durable
  /\ phase = "closed" /\ committed # Blank =>
       \/ Found(durable, committed)
       \/ \E v \in {durable[0], durable[1]} :
            v.commit_seq = committed.commit_seq + 1 /\ Found(durable, v)

\* The superblock an open would load, once the file is formatted.
CurrentOf == IF committed = Blank THEN Blank ELSE Load(durable)

OfferedOf == IF phase = "written" THEN disk_ ELSE Blank

\* The two copies implement one atomically replaced superblock.
Atomic == INSTANCE AtomicSuperblock WITH
            None <- Blank, Superblocks <- CopyType,
            current <- CurrentOf, offered <- OfferedOf

Commits == Atomic!ASpec
=============================================================================
