---------------------------- MODULE MCBlockCache ----------------------------
(***************************************************************************)
(* Instances of BlockCache for TLC.                                        *)
(***************************************************************************)
EXTENDS BlockCache

Config(threads, cap, sizes, elsewhere) ==
  [threads |-> threads, cap |-> cap, sizes |-> sizes, elsewhere |-> elsewhere]

\* Capacity 4 is the least at which the climber has a choice of windows.  With climbs
\* elsewhere at any time one thread is enough: the shard's lock lets no two in.
Caches == {Config(Threads, 2, {0, 1}, FALSE), Config(Threads, 4, {1}, FALSE),
           Config({1}, 4, {1}, TRUE)}
=============================================================================
