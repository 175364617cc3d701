-------------------------- MODULE AtomicSuperblock --------------------------
(***************************************************************************)
(* What the superblock promises (superblock.hpp:105-109): a commit is      *)
(* atomic.  There is one current superblock; while a commit is under way a *)
(* crash may leave the old one or the new one; once commit has returned,   *)
(* only the new one.                                                       *)
(***************************************************************************)
CONSTANTS None, Superblocks

VARIABLES
  current,   \* the superblock an open would load
  offered    \* the superblock being committed, or None

avars == <<current, offered>>

AInit == current = None /\ offered = None

\* A commit starts.
Begin ==
  /\ offered = None
  /\ offered' \in Superblocks
  /\ UNCHANGED current

\* The new superblock takes over, at some moment before commit returns.
Flip ==
  /\ offered # None
  /\ current' = offered
  /\ UNCHANGED offered

\* commit returns: from now on the new superblock is the current one.
Return ==
  /\ offered # None
  /\ current' = offered
  /\ offered' = None

\* A crash forgets the commit under way, wherever it had got to.
Crash == offered' = None /\ UNCHANGED current

ANext == Begin \/ Flip \/ Return \/ Crash

ASpec == AInit /\ [][ANext]_avars
=============================================================================
