--------------------------- MODULE FilterSummary ---------------------------
(***************************************************************************)
(* Filter summaries: the min/max ranges and Bloom filters a leaf and every *)
(* child entry above it carry, how the build and the mutations maintain    *)
(* them (src/tree/filter_column_write.hpp, ivf_tree_build.cpp,             *)
(* ivf_tree_mutate.cpp), and the pruning a filtered search does with them  *)
(* (src/tree/filter_scan.cpp, ivf_tree_search.cpp).                        *)
(*                                                                         *)
(* The index has depth 2: one root child, its node, and the node's leaves. *)
(* A row is an id; Row gives its integer column num, its two Float columns *)
(* (the coordinates of a geo box), its string column and its set column.   *)
(* Strings are model values whose filter_hash is given by Hash.            *)
(*                                                                         *)
(* Numbers are in quarters.  An integer column holds multiples of 4, a     *)
(* Float column even numbers, and a comparand, a double, any number: the   *)
(* odd ones lie between two Floats, and between two integers there are one *)
(* below the half, the half and one above it.  Values are exact as doubles *)
(* (int64 up to 2^53) and comparands within the column's width.            *)
(***************************************************************************)
EXTENDS Integers, Sequences, FiniteSets

CONSTANTS
  Ids,             \* row ids
  Row,             \* id -> [num, lat, lng, str, set]
  Strings,         \* string values
  Hash,            \* filter_hash: string -> Nat
  Comparands,      \* numeric values predicates use, in quarters
  Built,           \* ids the build puts into the index
  LeafCap,         \* manifest_.leaf_capacity
  BloomThreshold,  \* kBloomThreshold
  MaxOps,          \* bound: mutations in a behaviour
  Null             \* SQL NULL

IntCols == {"num"}
FloatCols == {"lat", "lng"}
NumCols == IntCols \cup FloatCols
BloomCols == {"str", "set"}
DblMax == 1000000       \* numeric_limits<double>::max(), above every value

ASSUME ConstantsAssumption ==
  /\ Built \subseteq Ids /\ Cardinality(Built) >= 2
  /\ \A i \in Ids : /\ \A c \in NumCols : Row[i][c] = Null \/ Row[i][c] \in -DblMax .. DblMax
                    /\ \A c \in IntCols : Row[i][c] = Null \/ Row[i][c] % 4 = 0
                    /\ \A c \in FloatCols : Row[i][c] = Null \/ Row[i][c] % 2 = 0
                    /\ Row[i].str \in Strings \cup {Null}
                    /\ Row[i].set = Null \/ Row[i].set \subseteq Strings
  /\ Comparands \subseteq Int /\ IsFiniteSet(Strings)
  /\ Null \notin Int \cup Strings
  /\ \A s \in Strings : Hash[s] \in Nat
  /\ LeafCap \in Nat \ {0} /\ BloomThreshold \in Nat \ {0} /\ MaxOps \in Nat

VARIABLES
  leaves,      \* leaf id -> [rows, summary, dirty, mixed]
  entry,       \* leaf id -> summary in the parent's child entry
  root_entry,  \* summary in the root's entry for the node, and its `mixed`
  inserted,    \* history: rows that came with an insert
  ops          \* mutations so far

vars == <<leaves, entry, root_entry, inserted, ops>>

Lowest(S) == CHOOSE x \in S : \A y \in S : x <= y
Highest(S) == CHOOSE x \in S : \A y \in S : y <= x
Least(a, b) == IF a <= b THEN a ELSE b
Greatest(a, b) == IF a >= b THEN a ELSE b

-----------------------------------------------------------------------------
(***************************************************************************)
(* Bloom filters: BitCount is the width for a number of distinct hashes    *)
(* (9.585 bits each for 1% false positives, rounded up to bytes, capped at *)
(* the allocated size), and Probes are the kBloomK = 3 bits of a hash.     *)
(***************************************************************************)
BloomAlloc == (((BloomThreshold * 9585) \div 1000) + 7) \div 8

BitCount(distinct) ==
  Least(8 * ((((distinct * 9585 + 999) \div 1000) + 7) \div 8), 8 * BloomAlloc)

ProbeStep(h) == 2 * (h \div 131072) + 1          \* (h >> 16) | 1

Probes(h, n_bits) == {(h + k * ProbeStep(h)) % n_bits : k \in 0 .. 2}

bloom_check(b, h) == b.n_bits = 0 \/ Probes(h, b.n_bits) \subseteq b.bits

-----------------------------------------------------------------------------
(***************************************************************************)
(* Summaries.  The all-zero bytes hold no entries at all; init_empty is    *)
(* the start of a merge.                                                   *)
(***************************************************************************)
NoBloom == [n_bits |-> 0, bits |-> {}]

ZeroSummary ==
  [present |-> FALSE, num |-> [c \in NumCols |-> <<0, 0>>],
   bloom |-> [c \in BloomCols |-> NoBloom]]

init_empty_summary ==
  [present |-> TRUE, num |-> [c \in NumCols |-> <<DblMax, -DblMax>>],
   bloom |-> [c \in BloomCols |-> NoBloom]]

NonNull(ids, c) == {i \in ids : Row[i][c] # Null}

Elements(i, c) == IF c = "set" THEN Row[i].set ELSE {Row[i].str}

DistinctHashes(ids, c) ==
  UNION {{Hash[s] : s \in Elements(i, c)} : i \in NonNull(ids, c)}

(***************************************************************************)
(* write_filter_summary into the buffer buf: the ranges are overwritten,   *)
(* the Bloom bits are only ever set, so bits buf already had stay.         *)
(***************************************************************************)
write_filter_summary(buf, ids) ==
  LET Values(c) == {Row[i][c] : i \in NonNull(ids, c)}
      Bloom(c) ==
        LET hashes == DistinctHashes(ids, c)
            n      == BitCount(Cardinality(hashes))
        IN IF hashes # {} /\ Cardinality(hashes) <= BloomThreshold
           THEN [n_bits |-> n,
                 bits |-> buf.bloom[c].bits \cup UNION {Probes(h, n) : h \in hashes}]
           ELSE [n_bits |-> 0, bits |-> buf.bloom[c].bits]
  IN [present |-> TRUE,
      num |-> [c \in NumCols |-> IF Values(c) = {} THEN <<DblMax, -DblMax>>
                                 ELSE <<Lowest(Values(c)), Highest(Values(c))>>],
      bloom |-> [c \in BloomCols |-> Bloom(c)]]

\* Mutant: the merge copies the source's Bloom bytes instead of ORing them.
MergeCopiesBits(dst, src) ==
  [dst EXCEPT
     !.num = [c \in NumCols |-> <<Least(@[c][1], src.num[c][1]),
                                  Greatest(@[c][2], src.num[c][2])>>],
     !.bloom = [c \in BloomCols |->
                  [n_bits |-> Greatest(@[c].n_bits, src.bloom[c].n_bits),
                   bits |-> src.bloom[c].bits]]]

\* merge_filter_summary: ranges widen, the larger n_bits wins, all bytes are ORed.
merge_filter_summary(dst, src) ==
  [dst EXCEPT
     !.num = [c \in NumCols |-> <<Least(@[c][1], src.num[c][1]),
                                  Greatest(@[c][2], src.num[c][2])>>],
     !.bloom = [c \in BloomCols |->
                  [n_bits |-> Greatest(@[c].n_bits, src.bloom[c].n_bits),
                   bits |-> @[c].bits \cup src.bloom[c].bits]]]

\* The columns whose Bloom filters two summaries hold at different widths.
Mixed(a, b) == {c \in BloomCols : a.bloom[c].n_bits # b.bloom[c].n_bits}

-----------------------------------------------------------------------------
\* Predicates: numeric comparisons, geo boxes, string and set membership, NULL tests.
Predicates ==
  [col : NumCols, op : {"Eq", "NotEq", "Lt", "Le", "Gt", "Ge"}, v : Comparands]
    \cup [col : NumCols, op : {"Between"}, v : Comparands, v2 : Comparands]
    \cup [col : NumCols \cup BloomCols, op : {"IsNull", "IsNotNull"}]
    \cup [col : {"geo"}, op : {"GeoBox"}, v : Comparands, v2 : Comparands,
          v3 : Comparands, v4 : Comparands]
    \cup [col : {"str"}, op : {"Eq", "NotEq"}, s : Strings]
    \cup [col : {"str"}, op : {"In", "NotIn"}, vals : SUBSET Strings]
    \cup [col : {"set"}, op : {"Contains"}, s : Strings]
    \cup [col : {"set"}, op : {"ContainsAny", "ContainsAll"}, vals : SUBSET Strings]

Compares(x, q) ==
  CASE q.op = "Eq" -> x = q.v
    [] q.op = "NotEq" -> x # q.v
    [] q.op = "Lt" -> x < q.v
    [] q.op = "Le" -> x <= q.v
    [] q.op = "Gt" -> x > q.v
    [] q.op = "Ge" -> x >= q.v
    [] q.op = "Between" -> q.v <= x /\ x <= q.v2

\* round_to: a comparand cast to the column's type, for an integer to the nearest one,
\* halves away from zero, for a Float to the nearest Float, ties to the even one.
round_to(c, v) ==
  LET whole(x) == 4 * ((x + 2) \div 4)
  IN IF c \in IntCols THEN (IF v < 0 THEN -whole(-v) ELSE whole(v))
     ELSE IF v % 2 = 0 THEN v ELSE whole(v)

\* typed_compare: the value against the cast comparands.
typed_compare(x, q) ==
  Compares(x, [f \in DOMAIN q |-> IF f \in {"v", "v2"} THEN round_to(q.col, q[f]) ELSE q[f]])

eval_predicate_geo(i, q) ==
  /\ Row[i].lat # Null /\ Row[i].lng # Null
  /\ q.v <= Row[i].lat /\ Row[i].lat <= q.v3
  /\ q.v2 <= Row[i].lng /\ Row[i].lng <= q.v4

\* eval_predicate: NULL fails every comparison and passes only IS NULL.
eval_predicate(i, q) ==
  IF q.col = "geo" THEN eval_predicate_geo(i, q)
  ELSE LET x == Row[i][q.col] IN
    IF x = Null THEN q.op = "IsNull"
    ELSE CASE q.op = "IsNull" -> FALSE
           [] q.op = "IsNotNull" -> TRUE
           [] q.col \in NumCols -> typed_compare(x, q)
           [] q.col = "str" /\ q.op = "Eq" -> x = q.s
           [] q.col = "str" /\ q.op = "NotEq" -> x # q.s
           [] q.op = "In" -> x \in q.vals
           [] q.op = "NotIn" -> x \notin q.vals
           [] q.op = "Contains" -> q.s \in x
           [] q.op = "ContainsAny" -> q.vals \cap x # {}
           [] q.op = "ContainsAll" -> q.vals \subseteq x

\* The range checks of summary_may_match, which compare the double as it was given.
RangeMayMatch(r, q) ==
  CASE q.op = "Eq" -> r[1] <= q.v /\ q.v <= r[2]
    [] q.op = "Lt" -> r[1] < q.v
    [] q.op = "Le" -> r[1] <= q.v
    [] q.op = "Gt" -> r[2] > q.v
    [] q.op = "Ge" -> r[2] >= q.v
    [] q.op = "Between" -> q.v <= r[2] /\ r[1] <= q.v2
    [] OTHER -> TRUE

BloomMayMatch(b, q) ==
  LET Maybe(s) == bloom_check(b, Hash[s])
  IN CASE q.op = "Eq" \/ q.op = "Contains" -> Maybe(q.s)
       [] q.op = "In" \/ q.op = "ContainsAny" ->
            q.vals = {} \/ \E s \in q.vals : Maybe(s)
       [] q.op = "ContainsAll" -> \A s \in q.vals : Maybe(s)
       [] OTHER -> TRUE

\* summary_may_match: FALSE prunes the leaf or subtree.
summary_may_match(S, q) ==
  \/ ~S.present
  \/ q.op \in {"IsNull", "IsNotNull"}
  \/ /\ q.op = "GeoBox"
     /\ q.v <= S.num["lat"][2] /\ S.num["lat"][1] <= q.v3
     /\ q.v2 <= S.num["lng"][2] /\ S.num["lng"][1] <= q.v4
  \/ q.col \in NumCols /\ RangeMayMatch(S.num[q.col], q)
  \/ q.col \in BloomCols /\ BloomMayMatch(S.bloom[q.col], q)

-----------------------------------------------------------------------------
\* The build: each leaf summarises its rows, each child entry copies its leaf's
\* summary, and the root's entry merges them in the order of the leaves.
NewLeaf(ids) ==
  [rows |-> ids, summary |-> write_filter_summary(ZeroSummary, ids), dirty |-> FALSE,
   mixed |-> {}]

Init ==
  \E left \in SUBSET Built :
    /\ left # {} /\ left # Built
    /\ leaves = <<NewLeaf(left), NewLeaf(Built \ left)>>
    /\ entry = [l \in 1 .. 2 |-> leaves[l].summary]
    /\ root_entry =
         [summary |-> merge_filter_summary(
                        merge_filter_summary(init_empty_summary, leaves[1].summary),
                        leaves[2].summary),
          mixed |-> Mixed(leaves[1].summary, leaves[2].summary)]
    /\ inserted = {}
    /\ ops = 0

Present == UNION {leaves[l].rows : l \in 1 .. Len(leaves)}

Oversized == {l \in 1 .. Len(leaves) : Cardinality(leaves[l].rows) > 2 * LeafCap}

Start == Oversized = {} /\ ops < MaxOps /\ ops' = ops + 1

(***************************************************************************)
(* insert_batch on one leaf: a summary of the new rows is merged into the  *)
(* leaf's.  No child entry above it changes.                               *)
(***************************************************************************)
insert(ids, l) ==
  /\ Start
  /\ ids # {} /\ ids \cap Present = {}
  /\ LET new == write_filter_summary(ZeroSummary, ids)
     IN leaves' = [leaves EXCEPT
          ![l].rows = @ \cup ids,
          ![l].summary = merge_filter_summary(@, new),
          ![l].mixed = @ \cup Mixed(leaves[l].summary, new)]
  /\ inserted' = inserted \cup ids
  /\ UNCHANGED <<entry, root_entry>>

\* Mutant: the new leaf's child entry starts as an empty summary.
SplitEmptyEntry(group0) ==
  /\ Oversized # {}
  /\ LET l == Lowest(Oversized)
     IN /\ group0 # {} /\ group0 \subseteq leaves[l].rows /\ group0 # leaves[l].rows
        /\ leaves' = Append([leaves EXCEPT ![l].rows = group0],
                            [leaves[l] EXCEPT !.rows = @ \ group0])
  /\ entry' = Append(entry, init_empty_summary)
  /\ UNCHANGED <<root_entry, inserted, ops>>

(***************************************************************************)
(* The split loop of insert_batch: both halves keep the old leaf's header  *)
(* and summary; the old child entry keeps its summary, the new one is      *)
(* left all zero.                                                          *)
(***************************************************************************)
split_leaf_(group0) ==
  /\ Oversized # {}
  /\ LET l == Lowest(Oversized)
     IN /\ group0 # {} /\ group0 \subseteq leaves[l].rows /\ group0 # leaves[l].rows
        /\ leaves' = Append([leaves EXCEPT ![l].rows = group0],
                            [leaves[l] EXCEPT !.rows = @ \ group0])
  /\ entry' = Append(entry, ZeroSummary)
  /\ UNCHANGED <<root_entry, inserted, ops>>

\* delete_batch: the leaves that lose rows keep their summaries and become dirty.
delete_batch(ids) ==
  /\ Start
  /\ ids \cap Present # {}
  /\ leaves' = [l \in DOMAIN leaves |->
                  IF leaves[l].rows \cap ids = {} THEN leaves[l]
                  ELSE [leaves[l] EXCEPT !.rows = @ \ ids, !.dirty = TRUE]]
  /\ inserted' = inserted \ ids
  /\ UNCHANGED <<entry, root_entry>>

\* vacuum, pass 1: dirty leaves are summarised again, over the old summary's bytes;
\* an empty one only loses its flag.
vacuum ==
  /\ Start
  /\ \E l \in DOMAIN leaves : leaves[l].dirty
  /\ leaves' = [l \in DOMAIN leaves |->
       CASE ~leaves[l].dirty -> leaves[l]
         [] leaves[l].dirty /\ leaves[l].rows = {} -> [leaves[l] EXCEPT !.dirty = FALSE]
         [] OTHER -> [leaves[l] EXCEPT
                        !.summary = write_filter_summary(@, leaves[l].rows),
                        !.dirty = FALSE, !.mixed = {}]]
  /\ UNCHANGED <<entry, root_entry, inserted>>

Next ==
  \/ \E ids \in SUBSET Ids : \E l \in DOMAIN leaves : insert(ids, l)
  \/ \E group0 \in SUBSET Ids : split_leaf_(group0)
  \/ \E ids \in SUBSET Ids : delete_batch(ids)
  \/ vacuum

Spec == Init /\ [][Next]_vars

-----------------------------------------------------------------------------
(***************************************************************************)
(* A filtered search that probes every child it does not prune: the root's *)
(* entry, the child entries, the leaves' own summaries, then the rows.     *)
(***************************************************************************)
Scanned(q) ==
  {l \in DOMAIN leaves : /\ summary_may_match(root_entry.summary, q)
                         /\ summary_may_match(entry[l], q)
                         /\ summary_may_match(leaves[l].summary, q)}

Search(q) ==
  UNION {{i \in leaves[l].rows : eval_predicate(i, q)} : l \in Scanned(q)}

(***************************************************************************)
(* Row i satisfies a numeric predicate with its comparands as given.  The  *)
(* scan's cast changes the answer for comparands outside the column's      *)
(* domain, both ways (x = 1.5 accepts 2, x > 1.5 drops 2), and the ranges  *)
(* of a summary do not follow it: a row that only the cast comparand       *)
(* accepts may be ruled out.                                               *)
(***************************************************************************)
AsGiven(i, q) ==
  q.col \in NumCols /\ q.op \notin {"IsNull", "IsNotNull"} => Compares(Row[i][q.col], q)

(***************************************************************************)
(* A leaf's own summary never prunes a leaf with a row that matches, by    *)
(* the scan and by the comparand as given, through inserts that merge,     *)
(* splits that copy, deletes that leave it stale and vacuums that write    *)
(* over it, except for a column whose Bloom filters were merged at         *)
(* different widths since the last vacuum.                                 *)
(***************************************************************************)
LeafSummarySound ==
  \A l \in DOMAIN leaves : \A i \in leaves[l].rows : \A q \in Predicates :
    eval_predicate(i, q) /\ AsGiven(i, q) =>
      \/ summary_may_match(leaves[l].summary, q)
      \/ q.col \in leaves[l].mixed

(***************************************************************************)
(* A row the build put into the index is found by every filter it matches, *)
(* in the same sense, for as long as it is there, whatever is inserted,    *)
(* split, deleted and vacuumed around it, with the same exception.         *)
(***************************************************************************)
BuiltRowsFound ==
  \A l \in DOMAIN leaves : \A i \in leaves[l].rows \ inserted : \A q \in Predicates :
    eval_predicate(i, q) /\ AsGiven(i, q) =>
      i \in Search(q) \/ q.col \in leaves[l].mixed \cup root_entry.mixed

(***************************************************************************)
(* No summary, of a leaf or above it, rules out a row that matches:        *)
(* "conservative - never false-negatives" (filter_scan.hpp:316).  Checked  *)
(* before any mutation, when every row came with the build.                *)
(***************************************************************************)
NeverFalseNegative ==
  inserted = {} =>
    \A i \in Present : \A q \in Predicates : eval_predicate(i, q) => i \in Search(q)
=============================================================================
