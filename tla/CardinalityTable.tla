-------------------------- MODULE CardinalityTable --------------------------
(***************************************************************************)
(* The selectivity statistics of one string column and one numeric column  *)
(* (src/tree/cardinality.cpp): a capped exact map for strings beside a     *)
(* distinct-count sketch, an exact histogram for numbers that turns into   *)
(* bins past the cap, and the decision of an auto column.                  *)
(*                                                                         *)
(* A table is a record; an operator returns the table after the call.  The *)
(* sketch is the set of values it was given and estimates exactly; of the  *)
(* bins only the mass is kept, not the positions; counts do not saturate.  *)
(***************************************************************************)
EXTENDS Integers, FiniteSets, Functions, FiniteSetsExt

\* Merged adds at which an auto column is decided.
SampleSize == 3

EmptyMap == [x \in {} |-> 0]

Untracked == {"off", "rejected"}

\* init: one column of each kind in the mode the specification gives.
init(mode, cap) ==
  [cap |-> cap,
   str |-> [mode |-> mode, adds |-> 0, freq |-> EmptyMap, hll |-> {},
            overflowed |-> FALSE, frozen |-> 0],
   num |-> [mode |-> mode, adds |-> 0, hist |-> EmptyMap, binned |-> FALSE,
            bins |-> 0, overflowed |-> FALSE, frozen |-> 0]]

Plus(map, x, n) ==
  [y \in DOMAIN map \cup {x} |-> (IF y \in DOMAIN map THEN map[y] ELSE 0) + (IF y = x THEN n ELSE 0)]

Mass(map) == FoldFunction(+, 0, map)

\* One value of a map taken in under the cap (freq_add_ and the loop of merge_from).
\* Mutant: a value the cap turns away leaves no mark.
FreqAddSilent(col, cap, x, n) ==
  IF x \in DOMAIN col.freq \/ cap = 0 \/ Cardinality(DOMAIN col.freq) < cap
  THEN [col EXCEPT !.freq = Plus(@, x, n)]
  ELSE col

freq_add_(col, cap, x, n) ==
  IF x \in DOMAIN col.freq \/ cap = 0 \/ Cardinality(DOMAIN col.freq) < cap
  THEN [col EXCEPT !.freq = Plus(@, x, n)]
  ELSE [col EXCEPT !.overflowed = TRUE]

add_string(t, x) ==
  IF t.str.mode \in Untracked THEN t
  ELSE [t EXCEPT !.str = freq_add_([@ EXCEPT !.adds = @ + 1, !.hll = @ \cup {x}], t.cap, x, 1)]

\* Nothing happens to an empty histogram.
numeric_to_binned_(col) ==
  IF DOMAIN col.hist = {} THEN col
  ELSE [col EXCEPT !.bins = Mass(col.hist), !.hist = EmptyMap,
                   !.binned = TRUE, !.overflowed = TRUE]

Capped(col, cap) ==
  IF cap # 0 /\ Cardinality(DOMAIN col.hist) > cap THEN numeric_to_binned_(col) ELSE col

add_numeric(t, x) ==
  LET n == [t.num EXCEPT !.adds = @ + 1]
  IN IF n.mode \in Untracked THEN t
     ELSE IF n.binned THEN [t EXCEPT !.num = [n EXCEPT !.bins = @ + 1]]
     ELSE [t EXCEPT !.num = Capped([n EXCEPT !.hist = Plus(@, x, 1)], t.cap)]

MergeString(dst, src, cap) ==
  LET d == [dst EXCEPT !.adds = @ + src.adds, !.hll = @ \cup src.hll,
                       !.overflowed = @ \/ src.overflowed]
  IN FoldSet(LAMBDA x, col : freq_add_(col, cap, x, src.freq[x]), d, DOMAIN src.freq)

\* A binned shard turns the destination into bins, unless the destination is empty.
MergeNumeric(dst, src, cap) ==
  LET a == [dst EXCEPT !.adds = @ + src.adds, !.overflowed = @ \/ src.overflowed]
      d == IF src.binned /\ ~a.binned THEN numeric_to_binned_(a) ELSE a
  IN IF d.binned THEN [d EXCEPT !.bins = @ + (IF src.binned THEN src.bins ELSE Mass(src.hist))]
     ELSE Capped([d EXCEPT !.hist = FoldSet(LAMBDA x, m : Plus(m, x, src.hist[x]), @, DOMAIN src.hist)], cap)

\* An auto column with more than half its adds distinct is taken for an identifier.
Decided(col, distinct, emptied) ==
  IF col.mode # "auto" \/ col.adds < SampleSize THEN col
  ELSE IF 2 * distinct > col.adds THEN [emptied EXCEPT !.mode = "rejected", !.frozen = distinct]
  ELSE [col EXCEPT !.mode = "on"]

free_string(col) == [col EXCEPT !.freq = EmptyMap, !.hll = {}]
free_numeric(col) == [col EXCEPT !.hist = EmptyMap, !.bins = 0]

evaluate_auto(t) ==
  LET n == t.num
  IN [t EXCEPT
        !.str = Decided(@, Cardinality(@.hll), free_string(@)),
        !.num = Decided(@, IF n.binned THEN (IF n.bins < n.adds THEN n.bins ELSE n.adds)
                           ELSE Cardinality(DOMAIN n.hist), free_numeric(@))]

merge_from(t, shard) ==
  evaluate_auto(
    [t EXCEPT !.str = IF @.mode \in Untracked THEN @ ELSE MergeString(@, shard.str, t.cap),
              !.num = IF @.mode \in Untracked THEN @ ELSE MergeNumeric(@, shard.num, t.cap)])

ClearString(col) ==
  [free_string(col) EXCEPT !.overflowed = FALSE, !.adds = 0]
ClearNumeric(col) ==
  [free_numeric(col) EXCEPT !.overflowed = FALSE, !.adds = 0, !.binned = FALSE]

propagate_modes_to(t, shard) ==
  LET s == [shard.str EXCEPT !.mode = t.str.mode]
      n == [shard.num EXCEPT !.mode = t.num.mode]
  IN [shard EXCEPT
        !.str = IF s.mode \in Untracked THEN [ClearString(s) EXCEPT !.frozen = 0] ELSE s,
        !.num = IF n.mode \in Untracked THEN [ClearNumeric(n) EXCEPT !.frozen = 0] ELSE n]

clear_stats(t) ==
  LET kept(col) == IF col.mode = "rejected" THEN col.frozen ELSE 0
  IN [t EXCEPT !.str = [ClearString(@) EXCEPT !.frozen = kept(t.str)],
               !.num = [ClearNumeric(@) EXCEPT !.frozen = kept(t.num)]]

\* Whether selectivity_string answers zero: the value is taken for absent.
looks_absent(t, x) ==
  t.str.mode \notin Untracked /\ x \notin DOMAIN t.str.freq /\ ~t.str.overflowed
=============================================================================
