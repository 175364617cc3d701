---------------------------- MODULE ClusterStage ----------------------------
(***************************************************************************)
(* The hybrid staging of the emission pass (src/tree/cluster_stage.cpp):   *)
(* one arena of records per cluster in RAM, spilled largest first to a     *)
(* temporary file when the total passes the budget.  A spilled cluster     *)
(* appends through a write buffer of its own while there are some left,    *)
(* else through the shared one.                                            *)
(*                                                                         *)
(* A stage is a record; an operator returns the stage after the call.  All *)
(* records have RecBytes bytes.  File offsets and the two kinds of write   *)
(* buffer count whole records: a record that straddles the end of the      *)
(* shared buffer is written in two pieces, which no reader sees, since     *)
(* for_each flushes both buffers first.  A write past the room on disk     *)
(* throws: failed is set and the rest of the call does nothing.            *)
(***************************************************************************)
EXTENDS Integers, Sequences, SequencesExt, FiniteSets, FiniteSetsExt

\* Bytes of a record: ten, so that nine tenths of a budget differs from the budget.
RecBytes == 10

\* limits: [budget (bytes), wbuf, cbuf, max_dedicated, disk (records)].
NewStage(clusters, limits) ==
  [limits |-> limits,
   arena |-> [c \in clusters |-> <<>>], spilled |-> [c \in clusters |-> FALSE],
   recs |-> [c \in clusters |-> <<>>], cbuf |-> [c \in clusters |-> <<>>],
   dedicated |-> {}, wbuf |-> <<>>, file |-> <<>>, open |-> FALSE, failed |-> FALSE]

HasRoom(s, records) == Len(s.file) + Len(records) <= s.limits.disk

Offsets(s, records) == [i \in DOMAIN records |-> Len(s.file) + i]

flush_wbuf(s) ==
  IF HasRoom(s, s.wbuf) THEN [s EXCEPT !.file = @ \o s.wbuf, !.wbuf = <<>>]
  ELSE [s EXCEPT !.failed = TRUE]

\* What spill and flush_cbuf do with records that go straight to the end of the file.
AtEndOfFile(s, c, records) ==
  IF s.failed \/ ~HasRoom(s, records) THEN [s EXCEPT !.failed = TRUE]
  ELSE [s EXCEPT !.file = @ \o records, !.recs[c] = @ \o Offsets(s, records)]

\* Mutant: the records of the shared buffer are not written first, so the offsets
\* their clusters hold name the records of another cluster.
FlushCbufOnly(s, c) ==
  IF s.cbuf[c] = <<>> THEN s
  ELSE [AtEndOfFile(s, c, s.cbuf[c]) EXCEPT !.cbuf[c] = <<>>]

flush_cbuf(s, c) ==
  LET f == AtEndOfFile(flush_wbuf(s), c, s.cbuf[c])
  IN IF s.cbuf[c] = <<>> THEN s
     ELSE IF f.failed THEN f ELSE [f EXCEPT !.cbuf[c] = <<>>]

spill(s, c) ==
  LET f == AtEndOfFile(flush_wbuf([s EXCEPT !.open = TRUE]), c, s.arena[c])
  IN IF f.failed THEN f ELSE [f EXCEPT !.arena[c] = <<>>, !.spilled[c] = TRUE]

ram_bytes(s) == RecBytes * FoldFunction(LAMBDA a, n : Len(a) + n, 0, s.arena)

\* The largest arena, the first of several.
IsVictim(s, c) ==
  /\ s.arena[c] # <<>>
  /\ \A d \in DOMAIN s.arena :
       \/ Len(s.arena[d]) < Len(s.arena[c])
       \/ Len(s.arena[d]) = Len(s.arena[c]) /\ d >= c

maybe_spill(s) ==
  LET target == s.limits.budget - s.limits.budget \div 10
      after[k \in 0 .. Cardinality(DOMAIN s.arena)] ==
        IF k = 0 THEN s
        ELSE LET p == after[k - 1]
             IN IF p.failed \/ ram_bytes(p) <= target THEN p
                ELSE spill(p, CHOOSE c \in DOMAIN s.arena : IsVictim(p, c))
  IN IF ram_bytes(s) <= s.limits.budget THEN s ELSE after[Cardinality(DOMAIN s.arena)]

\* A cluster keeps the dedicated buffer it was once given.
append_disk(s, c, rec) ==
  LET o == [s EXCEPT !.open = TRUE, !.spilled[c] = TRUE]
      d == [o EXCEPT !.dedicated = @ \cup {c}]
      full == Len(s.cbuf[c]) = s.limits.cbuf
      f == IF full THEN flush_cbuf(d, c) ELSE d
      w == [o EXCEPT !.recs[c] = Append(@, Len(o.file) + Len(o.wbuf) + 1),
                     !.wbuf = Append(@, rec)]
  IN IF c \in s.dedicated \/ Cardinality(s.dedicated) < s.limits.max_dedicated
     THEN IF f.failed THEN f ELSE [f EXCEPT !.cbuf[c] = Append(@, rec)]
     ELSE IF Len(w.wbuf) = s.limits.wbuf THEN flush_wbuf(w) ELSE w

append(s, c, rec) ==
  IF s.limits.budget = 0 \/ s.spilled[c] THEN append_disk(s, c, rec)
  ELSE maybe_spill([s EXCEPT !.arena[c] = Append(@, rec)])

\* for_each makes pending bytes visible before it reads.
BeforeRead(s, c) ==
  IF ~s.spilled[c] THEN s
  ELSE LET f == flush_cbuf(s, c) IN IF f.failed THEN f ELSE flush_wbuf(f)

\* The records for_each hands out, in order, once BeforeRead has run.
for_each(s, c) ==
  IF ~s.spilled[c] THEN s.arena[c] ELSE [i \in DOMAIN s.recs[c] |-> s.file[s.recs[c][i]]]

drop(s, c) ==
  IF s.spilled[c] THEN [s EXCEPT !.recs[c] = <<>>, !.cbuf[c] = <<>>]
  ELSE [s EXCEPT !.arena[c] = <<>>]

\* The file is closed and unlinked only when every pending buffer could be written.
finish(s) ==
  LET empty == [c \in DOMAIN s.arena |-> <<>>]
      f == FoldSet(LAMBDA c, p : flush_cbuf(p, c), flush_wbuf(s), DOMAIN s.arena)
  IN IF ~s.open THEN [s EXCEPT !.arena = empty]
     ELSE IF f.failed THEN f
     ELSE [f EXCEPT !.open = FALSE, !.arena = empty, !.recs = empty]
=============================================================================
