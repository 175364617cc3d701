---------------------------- MODULE VectorSource ----------------------------
(***************************************************************************)
(* The sources a build reads several times over (sources/): a vector array *)
(* in memory, a vector file with a prefetch thread and two buffers, rows   *)
(* pushed through the C API and staged in memory or in a spill file, and a *)
(* set of parquet shards with a label file.                                *)
(*                                                                         *)
(* A row's vector, label and payload are its position in the corpus, so a  *)
(* chunk is right when what it carries at an index all has one position.   *)
(* A source is a record; an operator returns the source after the call.    *)
(***************************************************************************)
EXTENDS Integers, Sequences, SequencesExt, FiniteSetsExt

\* The rows first..last in order.
RowSeq(first, last) == [i \in 1 .. (last - first + 1) |-> first + i - 1]

\* Consecutive pieces of rows, each but the last of the given size.
Pieces(rows, size) ==
  [k \in 1 .. ((Len(rows) + size - 1) \div size) |->
     SubSeq(rows, (k - 1) * size + 1, IF k * size < Len(rows) THEN k * size ELSE Len(rows))]

\* next walks the chunks in order; nchunk is the next one.  bufs[buf] holds the rows
\* of the chunk handed out last.  cols: whether chunks carry filter columns.
\* limit: the last row a read can deliver (a file shorter than its header says).
\* base, before: of each glob chunk, the rows in earlier shards and in its own before it.
\* spilled: the push chunks that are read back from the spill file.
Source(kind, chunks, cols, limit) ==
  [kind |-> kind, chunks |-> chunks, cols |-> cols, limit |-> limit,
   base |-> <<>>, before |-> <<>>, spilled |-> 0,
   nchunk |-> 1, labels |-> 0, bufs |-> <<<<>>, <<>>>>, buf |-> 1,
   pending |-> FALSE, live |-> FALSE, err |-> FALSE, vector_only |-> FALSE]

MemSource(n, size) == Source("mem", Pieces(RowSeq(1, n), size), TRUE, n)
FbinSource(n, size, limit) == Source("fbin", Pieces(RowSeq(1, n), size), FALSE, limit)

\* Each shard starts a chunk of its own, and its reader numbers the rows from 1.
ParquetGlobSource(shards, size) ==
  LET count(k) == FoldLeft(+, 0, SubSeq(shards, 1, k))
      shard(k) == Pieces(RowSeq(count(k - 1) + 1, count(k)), size)
      each(f(_, _)) == FlattenSeq([k \in DOMAIN shards |-> [j \in DOMAIN shard(k) |-> f(k, j)]])
  IN [Source("glob", each(LAMBDA k, j : shard(k)[j]), TRUE, count(Len(shards)))
        EXCEPT !.base = each(LAMBDA k, j : count(k - 1)),
               !.before = each(LAMBDA k, j : (j - 1) * size)]

-----------------------------------------------------------------------------
\* Push staging.

\* limits: chunk_rows (kChunkRows), staging (rows memory_chunks may hold).
NewStager(limits) ==
  [limits |-> limits, current |-> <<>>, memory |-> <<>>, spilled |-> <<>>, rows |-> 0]

\* Mutant: the chunks in memory are put before the ones spilled earlier.
SpillInFront(st) ==
  IF Len(FlattenSeq(st.memory)) <= st.limits.staging THEN st
  ELSE [st EXCEPT !.spilled = st.memory \o @, !.memory = <<>>]

\* Everything staged so far moves to the spill file at once, keeping the order.
push_maybe_spill(st) ==
  IF Len(FlattenSeq(st.memory)) <= st.limits.staging THEN st
  ELSE [st EXCEPT !.spilled = @ \o st.memory, !.memory = <<>>]

\* append_vector with the row's columns and payload, and end_row.
end_row(st, row) ==
  LET s == [st EXCEPT !.current = Append(@, row), !.rows = @ + 1]
  IN IF Len(s.current) < s.limits.chunk_rows THEN s
     ELSE push_maybe_spill([s EXCEPT !.memory = Append(@, s.current), !.current = <<>>])

build_source(st) ==
  LET s == push_maybe_spill(
             IF st.current = <<>> THEN st
             ELSE [st EXCEPT !.memory = Append(@, st.current), !.current = <<>>])
  IN [Source("push", s.spilled \o s.memory, TRUE, s.rows) EXCEPT !.spilled = Len(s.spilled)]

-----------------------------------------------------------------------------
\* reset waits for the prefetch thread; the caller checks ~live.
reset(s) ==
  [s EXCEPT !.nchunk = 1, !.labels = 0, !.pending = FALSE, !.err = FALSE]

Exhausted(s) == s.nchunk > Len(s.chunks)

\* A read past the end of the file throws.
Readable(s, k) == \A i \in DOMAIN s.chunks[k] : s.chunks[k][i] <= s.limit

\* Mutant: one buffer instead of two.
PrefetchIntoCurrent(s) ==
  LET new == s.chunks[s.nchunk]
      over == [i \in DOMAIN s.bufs[s.buf] |-> IF i <= Len(new) THEN new[i] ELSE s.bufs[s.buf][i]]
  IN IF Readable(s, s.nchunk) THEN [s EXCEPT !.bufs = <<over, over>>, !.live = FALSE]
     ELSE [s EXCEPT !.err = TRUE, !.live = FALSE]

\* The body of the prefetch thread: the other buffer, or the error for the next call.
prefetch(s) ==
  IF Readable(s, s.nchunk)
  THEN [s EXCEPT !.bufs[3 - s.buf] = s.chunks[s.nchunk], !.live = FALSE]
  ELSE [s EXCEPT !.err = TRUE, !.live = FALSE]

\* Whether next throws: the prefetch failed, or the read it makes itself does.
NextThrows(s) ==
  s.err \/ (s.kind = "fbin" /\ ~s.pending /\ ~Exhausted(s) /\ ~Readable(s, s.nchunk))

\* next: the source after it, which has the chunk's rows in bufs[buf].
next(s) ==
  LET k    == s.nchunk
      read == IF s.kind # "fbin" THEN [s EXCEPT !.bufs[1] = s.chunks[k]]
              ELSE IF s.pending THEN [s EXCEPT !.buf = 3 - @]
              ELSE [s EXCEPT !.bufs[3 - s.buf] = s.chunks[k], !.buf = 3 - @]
      more == s.kind = "fbin" /\ k < Len(s.chunks)
  IN [read EXCEPT !.nchunk = k + 1, !.pending = more, !.live = more,
                  !.labels = @ + Len(s.chunks[k])]

\* What the chunk handed out last carries besides its rows, index by index: the row
\* ids, and the position each label comes from, 0 for a label that is not there.
Handed(s) == s.nchunk - 1

\* Mutant: the running number of rows handed out is added, not the shard's base.
IdsFromRowsServed(s) ==
  LET k == Handed(s)
      rows == s.chunks[k]
  IN IF s.kind = "glob" THEN [i \in DOMAIN rows |-> s.base[k] + 2 * s.before[k] + i] ELSE rows

ChunkIds(s) ==
  LET k == Handed(s)
      rows == s.chunks[k]
  IN IF s.kind = "glob" THEN [i \in DOMAIN rows |-> s.base[k] + s.before[k] + i] ELSE rows

\* A spilled chunk read for its vectors only has no columns.
HasColumns(s) ==
  s.cols /\ ~(s.kind = "push" /\ s.vector_only /\ Handed(s) <= s.spilled)

\* Labels of a glob source come from the label file, as many as rows were handed out.
ChunkLabels(s) ==
  LET n == Len(s.chunks[Handed(s)])
  IN [i \in 1 .. n |->
        IF HasColumns(s) THEN IF s.kind = "glob" THEN s.labels - n + i ELSE s.bufs[s.buf][i]
        ELSE 0]
=============================================================================
