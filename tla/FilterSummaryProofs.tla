------------------------ MODULE FilterSummaryProofs ------------------------
(***************************************************************************)
(* Proofs about FilterSummary, for every set of rows, hashes, thresholds   *)
(* and numbers of mutations: a leaf's own summary prunes no leaf with a    *)
(* matching row, and no built row is lost on the way down to its leaf.     *)
(***************************************************************************)
EXTENDS FilterSummary, CommonLemmas

\* The summary S rules out no value of row i, outside the Bloom columns in mixed.
CoversNum(S, i) ==
  \A c \in NumCols : Row[i][c] # Null => S.num[c][1] <= Row[i][c] /\ Row[i][c] <= S.num[c][2]

CoversBloom(S, i, c) ==
  Row[i][c] # Null => \A s \in Elements(i, c) : bloom_check(S.bloom[c], Hash[s])

Covers(S, i, mixed) == CoversNum(S, i) /\ \A c \in BloomCols \ mixed : CoversBloom(S, i, c)

Blooms == [n_bits : Nat, bits : SUBSET Int]

Summaries == [present : BOOLEAN, num : [NumCols -> Int \X Int], bloom : [BloomCols -> Blooms]]

Leaves == [rows : SUBSET Ids, summary : Summaries, dirty : BOOLEAN, mixed : SUBSET BloomCols]

\* The types of the variables: as many child entries as leaves.
Types ==
  /\ leaves \in Seq(Leaves) /\ entry \in Seq(Summaries) /\ Len(entry) = Len(leaves)
  /\ root_entry \in [summary : Summaries, mixed : SUBSET BloomCols]
  /\ inserted \subseteq Ids

\* Every leaf's own summary covers its rows.
LeavesCovered ==
  \A l \in DOMAIN leaves : \A i \in leaves[l].rows :
    Covers(leaves[l].summary, i, leaves[l].mixed)

\* Every child entry above a leaf is absent, or covers the built rows of the leaf.
EntriesCover ==
  \A l \in DOMAIN leaves : \A i \in leaves[l].rows \ inserted :
    entry[l].present => Covers(entry[l], i, {})

\* The root's entry covers every built row.
RootCovers ==
  \A l \in DOMAIN leaves : \A i \in leaves[l].rows \ inserted :
    Covers(root_entry.summary, i, root_entry.mixed)

IInv == Types /\ LeavesCovered /\ EntriesCover /\ RootCovers

-----------------------------------------------------------------------------
(***************************************************************************)
(* Summaries never rule out what they cover.                               *)
(***************************************************************************)
\* What the rows hold.
LEMMA RowTypes ==
    ASSUME NEW i \in Ids
    PROVE  /\ \A c \in NumCols : Row[i][c] # Null => Row[i][c] \in Int
           /\ Row[i]["str"] # Null => Row[i]["str"] \in Strings
           /\ Row[i]["set"] # Null => Row[i]["set"] \subseteq Strings
<1>1. DblMax \in Int
  BY SMT DEF DblMax
<1>2. QED
  BY <1>1, ConstantsAssumption DEF NumCols

\* A range that holds a value admits every comparison the value passes.
LEMMA RangeComplete ==
    ASSUME NEW r \in Int \X Int, NEW x \in Int, r[1] <= x, x <= r[2],
           NEW q \in [col : NumCols, op : {"Eq", "NotEq", "Lt", "Le", "Gt", "Ge"}, v : Comparands]
                       \cup [col : NumCols, op : {"Between"}, v : Comparands, v2 : Comparands],
           Compares(x, q)
    PROVE  RangeMayMatch(r, q)
<1>1. Comparands \subseteq Int
  BY ConstantsAssumption
<1>2. r[1] \in Int /\ r[2] \in Int
  OBVIOUS
<1>3. CASE q \in [col : NumCols, op : {"Between"}, v : Comparands, v2 : Comparands]
  <2>1. q.op = "Between" /\ q.v \in Int /\ q.v2 \in Int
    BY <1>1, <1>3
  <2>2. q.v <= x /\ x <= q.v2
    BY <2>1 DEF Compares
  <2>3. q.v <= r[2] /\ r[1] <= q.v2
    BY <1>2, <2>1, <2>2
  <2>4. QED
    BY <2>1, <2>3 DEF RangeMayMatch
<1>4. CASE q \in [col : NumCols, op : {"Eq", "NotEq", "Lt", "Le", "Gt", "Ge"}, v : Comparands]
  <2>1. q.op \in {"Eq", "NotEq", "Lt", "Le", "Gt", "Ge"} /\ q.v \in Int
    BY <1>1, <1>4
  <2>2. CASE q.op = "Eq"
    BY <1>2, <2>1, <2>2 DEF Compares, RangeMayMatch
  <2>3. CASE q.op = "NotEq"
    BY <2>3 DEF RangeMayMatch
  <2>4. CASE q.op = "Lt"
    BY <1>2, <2>1, <2>4 DEF Compares, RangeMayMatch
  <2>5. CASE q.op = "Le"
    BY <1>2, <2>1, <2>5 DEF Compares, RangeMayMatch
  <2>6. CASE q.op = "Gt"
    BY <1>2, <2>1, <2>6 DEF Compares, RangeMayMatch
  <2>7. CASE q.op = "Ge"
    BY <1>2, <2>1, <2>7 DEF Compares, RangeMayMatch
  <2>8. QED
    BY <2>1, <2>2, <2>3, <2>4, <2>5, <2>6, <2>7
<1>5. QED
  BY <1>3, <1>4

\* A Bloom filter that holds a row's strings admits every test the row passes.
LEMMA BloomComplete ==
    ASSUME NEW S \in Summaries, NEW i \in Ids,
           NEW q \in [col : {"str"}, op : {"Eq", "NotEq"}, s : Strings]
                       \cup [col : {"str"}, op : {"In", "NotIn"}, vals : SUBSET Strings]
                       \cup [col : {"set"}, op : {"Contains"}, s : Strings]
                       \cup [col : {"set"}, op : {"ContainsAny", "ContainsAll"}, vals : SUBSET Strings],
           CoversBloom(S, i, q.col), eval_predicate(i, q)
    PROVE  BloomMayMatch(S.bloom[q.col], q)
<1>1. CASE q \in [col : {"str"}, op : {"Eq", "NotEq"}, s : Strings]
  <2>1. q.col = "str" /\ q.op \in {"Eq", "NotEq"}
    BY <1>1
  <2>2. CASE q.op = "NotEq"
    BY <2>2 DEF BloomMayMatch
  <2>3. CASE q.op = "Eq"
    <3>1. Row[i]["str"] # Null /\ Row[i]["str"] = q.s
      BY <2>1, <2>3 DEF eval_predicate, NumCols, IntCols, FloatCols
    <3>2. bloom_check(S.bloom["str"], Hash[q.s])
      BY <2>1, <3>1 DEF CoversBloom, Elements
    <3>3. QED
      BY <2>1, <2>3, <3>2 DEF BloomMayMatch
  <2>4. QED
    BY <2>1, <2>2, <2>3
<1>2. CASE q \in [col : {"str"}, op : {"In", "NotIn"}, vals : SUBSET Strings]
  <2>1. q.col = "str" /\ q.op \in {"In", "NotIn"}
    BY <1>2
  <2>2. CASE q.op = "NotIn"
    BY <2>2 DEF BloomMayMatch
  <2>3. CASE q.op = "In"
    <3>1. Row[i]["str"] # Null /\ Row[i]["str"] \in q.vals
      BY <2>1, <2>3 DEF eval_predicate, NumCols, IntCols, FloatCols
    <3>2. bloom_check(S.bloom["str"], Hash[Row[i]["str"]])
      BY <2>1, <3>1 DEF CoversBloom, Elements
    <3>3. QED
      BY <2>1, <2>3, <3>1, <3>2 DEF BloomMayMatch
  <2>4. QED
    BY <2>1, <2>2, <2>3
<1>3. CASE q \in [col : {"set"}, op : {"Contains"}, s : Strings]
  <2>1. q.col = "set" /\ q.op = "Contains"
    BY <1>3
  <2>2. Row[i]["set"] # Null /\ q.s \in Row[i]["set"]
    BY <2>1 DEF eval_predicate, NumCols, IntCols, FloatCols
  <2>3. bloom_check(S.bloom["set"], Hash[q.s])
    BY <2>1, <2>2 DEF CoversBloom, Elements
  <2>4. QED
    BY <2>1, <2>3 DEF BloomMayMatch
<1>4. CASE q \in [col : {"set"}, op : {"ContainsAny", "ContainsAll"}, vals : SUBSET Strings]
  <2>1. q.col = "set" /\ q.op \in {"ContainsAny", "ContainsAll"}
    BY <1>4
  <2>2. Row[i]["set"] # Null
    BY <2>1 DEF eval_predicate
  <2>3. \A s \in Row[i]["set"] : bloom_check(S.bloom["set"], Hash[s])
    BY <2>1, <2>2 DEF CoversBloom, Elements
  <2>4. CASE q.op = "ContainsAny"
    <3>1. q.vals \cap Row[i]["set"] # {}
      BY <2>1, <2>2, <2>4 DEF eval_predicate, NumCols, IntCols, FloatCols
    <3>2. \E s \in q.vals : bloom_check(S.bloom["set"], Hash[s])
      BY <2>3, <3>1
    <3>3. QED
      BY <2>1, <2>4, <3>2 DEF BloomMayMatch
  <2>5. CASE q.op = "ContainsAll"
    <3>1. q.vals \subseteq Row[i]["set"]
      BY <2>1, <2>2, <2>5 DEF eval_predicate, NumCols, IntCols, FloatCols
    <3>2. \A s \in q.vals : bloom_check(S.bloom["set"], Hash[s])
      BY <2>3, <3>1
    <3>3. QED
      BY <2>1, <2>5, <3>2 DEF BloomMayMatch
  <2>6. QED
    BY <2>1, <2>4, <2>5
<1>5. QED
  BY <1>1, <1>2, <1>3, <1>4

\* summary_may_match is complete for the rows a summary covers.
LEMMA SummaryComplete ==
    ASSUME NEW S \in Summaries, NEW i \in Ids, NEW mixed, Covers(S, i, mixed),
           NEW q \in Predicates, eval_predicate(i, q), AsGiven(i, q), q.col \notin mixed
    PROVE  summary_may_match(S, q)
<1> DEFINE Num == [col : NumCols, op : {"Eq", "NotEq", "Lt", "Le", "Gt", "Ge"}, v : Comparands]
                    \cup [col : NumCols, op : {"Between"}, v : Comparands, v2 : Comparands]
           Nulls == [col : NumCols \cup BloomCols, op : {"IsNull", "IsNotNull"}]
           Geo == [col : {"geo"}, op : {"GeoBox"}, v : Comparands, v2 : Comparands,
                   v3 : Comparands, v4 : Comparands]
           Member == [col : {"str"}, op : {"Eq", "NotEq"}, s : Strings]
                       \cup [col : {"str"}, op : {"In", "NotIn"}, vals : SUBSET Strings]
                       \cup [col : {"set"}, op : {"Contains"}, s : Strings]
                       \cup [col : {"set"}, op : {"ContainsAny", "ContainsAll"}, vals : SUBSET Strings]
<1>1. q \in Num \/ q \in Nulls \/ q \in Geo \/ q \in Member
  BY Zenon DEF Predicates
<1>2. CASE q \in Num
  <2>1. q.col \in NumCols /\ q.op \in {"Eq", "NotEq", "Lt", "Le", "Gt", "Ge", "Between"}
    BY <1>2
  <2>2. Row[i][q.col] # Null /\ Compares(Row[i][q.col], q)
    <3>1. Row[i][q.col] # Null
      BY <2>1 DEF eval_predicate, NumCols, IntCols, FloatCols
    <3> QED
      BY <2>1, <3>1 DEF AsGiven
  <2>3. Row[i][q.col] \in Int
    BY <2>1, <2>2, RowTypes
  <2>4. /\ S.num[q.col] \in Int \X Int
        /\ S.num[q.col][1] <= Row[i][q.col] /\ Row[i][q.col] <= S.num[q.col][2]
    BY <2>1, <2>2 DEF Summaries, Covers, CoversNum
  <2>5. RangeMayMatch(S.num[q.col], q)
    BY <1>2, <2>2, <2>3, <2>4, RangeComplete
  <2>6. QED
    BY <2>1, <2>5 DEF summary_may_match
<1>3. CASE q \in Nulls
  BY <1>3 DEF summary_may_match
<1>4. CASE q \in Geo
  <2>1. /\ q.col = "geo" /\ q.op = "GeoBox"
        /\ q.v \in Int /\ q.v2 \in Int /\ q.v3 \in Int /\ q.v4 \in Int
    BY <1>4, ConstantsAssumption
  <2>2. eval_predicate_geo(i, q)
    BY <2>1 DEF eval_predicate
  <2>3. PICK x, y : x = Row[i]["lat"] /\ y = Row[i]["lng"]
    OBVIOUS
  <2>4. /\ x # Null /\ y # Null /\ q.v <= x /\ x <= q.v3 /\ q.v2 <= y /\ y <= q.v4
    BY <2>2, <2>3 DEF eval_predicate_geo
  <2>5. x \in Int /\ y \in Int
    BY <2>3, <2>4, RowTypes DEF NumCols, FloatCols
  <2>6. PICK a, b : a = S.num["lat"] /\ b = S.num["lng"]
    OBVIOUS
  <2>7. a \in Int \X Int /\ b \in Int \X Int
    BY <2>6 DEF Summaries, NumCols, FloatCols
  <2>8. a[1] <= x /\ x <= a[2] /\ b[1] <= y /\ y <= b[2]
    BY <2>3, <2>4, <2>6 DEF Covers, CoversNum, NumCols, FloatCols
  <2>9. q.v <= a[2] /\ a[1] <= q.v3 /\ q.v2 <= b[2] /\ b[1] <= q.v4
    BY ONLY <2>1, <2>4, <2>5, <2>7, <2>8
  <2>10. QED
    BY <2>1, <2>6, <2>9 DEF summary_may_match
<1>5. CASE q \in Member
  <2>1. q.col \in BloomCols
    BY <1>5 DEF BloomCols
  <2>2. CoversBloom(S, i, q.col)
    BY <2>1 DEF Covers
  <2>3. BloomMayMatch(S.bloom[q.col], q)
    BY <1>5, <2>2, BloomComplete
  <2>4. QED
    BY <2>1, <2>3 DEF summary_may_match
<1>6. QED
  BY <1>1, <1>2, <1>3, <1>4, <1>5

-----------------------------------------------------------------------------
(***************************************************************************)
(* Writing a summary covers the rows it is written for.                    *)
(***************************************************************************)
\* A nonempty set of numbers between two bounds has a least and a greatest one.
LEMMA LowestHighest ==
    ASSUME NEW N \in Nat, NEW V, V \subseteq (-N)..N, V # {}
    PROVE  /\ Lowest(V) \in Int /\ Highest(V) \in Int
           /\ \A x \in V : Lowest(V) <= x /\ x <= Highest(V)
<1> DEFINE U == {n \in 0..(2 * N) : n - N \in V}
<1>1. U \subseteq Nat /\ U \subseteq 0..(2 * N)
  OBVIOUS
<1>2. U # {}
  <2>1. PICK x \in V : TRUE
    OBVIOUS
  <2>2. x + N \in 0..(2 * N) /\ (x + N) - N = x
    BY <2>1
  <2>3. QED
    BY <2>2
<1>3. \A x \in V : x + N \in U
  <2>1. TAKE x \in V
  <2>2. x + N \in 0..(2 * N) /\ (x + N) - N = x
    OBVIOUS
  <2>3. QED
    BY <2>2
<1>4. \A n \in U : n \in Int /\ n - N \in V
  OBVIOUS
<1> HIDE DEF U
<1>5. PICK m \in U : \A k \in U : m <= k
  BY <1>1, <1>2, LeastNat
<1>6. PICK M \in U : \A k \in U : k <= M
  <2>1. 2 * N \in Nat
    OBVIOUS
  <2>2. QED
    BY <1>1, <1>2, <2>1, GreatestNat
<1>7. m - N \in V /\ \A x \in V : m - N <= x
  BY <1>3, <1>4, <1>5
<1>8. M - N \in V /\ \A x \in V : x <= M - N
  BY <1>3, <1>4, <1>6
<1>9. Lowest(V) \in V /\ \A x \in V : Lowest(V) <= x
  BY <1>7 DEF Lowest
<1>10. Highest(V) \in V /\ \A x \in V : x <= Highest(V)
  BY <1>8 DEF Highest
<1>11. V \subseteq Int
  OBVIOUS
<1>12. QED
  BY ONLY <1>9, <1>10, <1>11

\* The width of a Bloom filter is a number, and not 0 when it holds a hash.
LEMMA BitCountPositive ==
    ASSUME NEW d \in Nat, d > 0
    PROVE  BitCount(d) \in Nat /\ BitCount(d) > 0
<1>1. BloomThreshold \in Nat /\ BloomThreshold > 0
  BY ConstantsAssumption
<1>2. PICK a : a = BloomAlloc
  OBVIOUS
<1>3. a \in Nat /\ a > 0
  BY <1>1, <1>2 DEF BloomAlloc
<1>4. QED
  BY <1>2, <1>3 DEF BitCount, Least

\* The bits a hash probes are numbers.
LEMMA ProbesAreInt ==
    ASSUME NEW h \in Nat, NEW n \in Nat, n > 0
    PROVE  Probes(h, n) \subseteq Int
<1>1. PICK p : p = ProbeStep(h)
  OBVIOUS
<1>2. p \in Int
  BY <1>1 DEF ProbeStep
<1>3. \A k \in 0..2 : (h + k * p) % n \in Int
  <2>1. TAKE k \in 0..2
  <2>2. k * p \in Int
    BY <1>2
  <2>3. PICK x : x = h + k * p
    OBVIOUS
  <2>4. x \in Int
    BY <2>2, <2>3
  <2>5. x % n \in Int
    BY ONLY <2>4, n \in Nat, n > 0
  <2>6. QED
    BY <2>3, <2>5
<1>4. QED
  BY <1>1, <1>3 DEF Probes

\* The hashes of a column are finitely many numbers.
LEMMA HashesFinite ==
    ASSUME NEW ids, ids \subseteq Ids, NEW c \in BloomCols
    PROVE  IsFiniteSet(DistinctHashes(ids, c)) /\ DistinctHashes(ids, c) \subseteq Nat
<1> DEFINE All == {Hash[s] : s \in Strings}
<1>1. IsFiniteSet(All)
  <2> DEFINE f == [s \in Strings |-> Hash[s]]
  <2>1. f \in Surjection(Strings, All)
    BY DEF Surjection
  <2>2. IsFiniteSet(Strings)
    BY ConstantsAssumption
  <2> HIDE DEF f, All
  <2>3. QED
    BY <2>1, <2>2, FS_Surjection
<1>2. DistinctHashes(ids, c) \subseteq All
  <2>1. ASSUME NEW i \in NonNull(ids, c) PROVE Elements(i, c) \subseteq Strings
    <3>1. i \in Ids /\ Row[i][c] # Null
      BY DEF NonNull
    <3>2. QED
      BY <3>1, RowTypes DEF Elements, BloomCols
  <2>2. QED
    BY <2>1 DEF DistinctHashes
<1>3. All \subseteq Nat
  BY ConstantsAssumption
<1>4. QED
  BY <1>1, <1>2, <1>3, FS_Subset

\* write_filter_summary gives a summary that covers every row it was given, whatever
\* bytes the buffer held before.
LEMMA WriteCovers ==
    ASSUME NEW buf \in Summaries, NEW ids, ids \subseteq Ids, NEW W, W = write_filter_summary(buf, ids)
    PROVE  W \in Summaries /\ \A i \in ids : Covers(W, i, {})
<1> DEFINE Vals(c) == {Row[i][c] : i \in NonNull(ids, c)}
           NumOf(c) == IF Vals(c) = {} THEN <<DblMax, -DblMax>>
                       ELSE <<Lowest(Vals(c)), Highest(Vals(c))>>
           H(c) == DistinctHashes(ids, c)
           n(c) == BitCount(Cardinality(H(c)))
           BloomOf(c) == IF H(c) # {} /\ Cardinality(H(c)) <= BloomThreshold
                         THEN [n_bits |-> n(c),
                               bits |-> buf.bloom[c].bits \cup UNION {Probes(h, n(c)) : h \in H(c)}]
                         ELSE [n_bits |-> 0, bits |-> buf.bloom[c].bits]
<1>1. W = [present |-> TRUE, num |-> [c \in NumCols |-> NumOf(c)],
           bloom |-> [c \in BloomCols |-> BloomOf(c)]]
  BY DEF write_filter_summary
<1>2. DblMax \in Nat
  BY SMT DEF DblMax
<1>3. ASSUME NEW c \in NumCols
      PROVE  NumOf(c) \in Int \X Int /\ \A x \in Vals(c) : NumOf(c)[1] <= x /\ x <= NumOf(c)[2]
  <2>1. Vals(c) \subseteq (-DblMax)..DblMax
    BY ConstantsAssumption DEF NonNull
  <2>2. CASE Vals(c) = {}
    <3>1. NumOf(c) = <<DblMax, -DblMax>> /\ -DblMax \in Int
      BY <1>2, <2>2
    <3> HIDE DEF NumOf, Vals
    <3>2. QED
      BY <1>2, <2>2, <3>1
  <2>3. CASE Vals(c) # {}
    <3>1. PICK V : V = Vals(c)
      OBVIOUS
    <3>2. /\ Lowest(V) \in Int /\ Highest(V) \in Int
          /\ \A x \in V : Lowest(V) <= x /\ x <= Highest(V)
      BY <1>2, <2>1, <2>3, <3>1, LowestHighest
    <3>3. QED
      BY <2>3, <3>1, <3>2
  <2>4. QED
    BY <2>2, <2>3
<1>4. ASSUME NEW c \in BloomCols
      PROVE  /\ BloomOf(c) \in Blooms
             /\ \A h \in H(c) : bloom_check(BloomOf(c), h)
  <2>1. IsFiniteSet(H(c)) /\ H(c) \subseteq Nat
    BY HashesFinite
  <2>2. buf.bloom[c].bits \subseteq Int
    BY DEF Summaries, Blooms
  <2>3. CASE H(c) # {} /\ Cardinality(H(c)) <= BloomThreshold
    <3>1. Cardinality(H(c)) \in Nat /\ Cardinality(H(c)) > 0
      <4>1. Cardinality(H(c)) \in Nat /\ Cardinality(H(c)) # 0
        BY <2>1, <2>3, FS_CardinalityType, FS_EmptySet
      <4>2. QED
        BY <4>1
    <3>2. PICK w : w = n(c)
      OBVIOUS
    <3>3. w \in Nat /\ w > 0
      BY <3>1, <3>2, BitCountPositive
    <3>4. PICK G : G = H(c)
      OBVIOUS
    <3>5. UNION {Probes(h, w) : h \in G} \subseteq Int
      <4>1. \A h \in G : Probes(h, w) \subseteq Int
        BY <2>1, <3>3, <3>4, ProbesAreInt
      <4>2. QED
        BY <4>1
    <3>6. BloomOf(c) = [n_bits |-> w, bits |-> buf.bloom[c].bits \cup UNION {Probes(h, w) : h \in G}]
      BY <2>3, <3>2, <3>4
    <3>7. \A h \in G : Probes(h, w) \subseteq UNION {Probes(g, w) : g \in G}
      OBVIOUS
    <3> HIDE DEF BloomOf, H, n
    <3>8. QED
      BY <2>2, <3>3, <3>4, <3>5, <3>6, <3>7 DEF Blooms, bloom_check
  <2>4. CASE ~(H(c) # {} /\ Cardinality(H(c)) <= BloomThreshold)
    <3>1. BloomOf(c) = [n_bits |-> 0, bits |-> buf.bloom[c].bits]
      BY <2>4
    <3> HIDE DEF BloomOf, H, n
    <3>2. QED
      BY <2>2, <3>1 DEF Blooms, bloom_check
  <2>5. QED
    BY <2>3, <2>4
<1> HIDE DEF NumOf, BloomOf
<1>5. W \in Summaries
  BY <1>1, <1>3, <1>4 DEF Summaries
<1>6. ASSUME NEW i \in ids PROVE Covers(W, i, {})
  <2>1. ASSUME NEW c \in NumCols, Row[i][c] # Null
        PROVE  W.num[c][1] <= Row[i][c] /\ Row[i][c] <= W.num[c][2]
    <3>1. Row[i][c] \in Vals(c)
      BY <2>1 DEF NonNull
    <3>2. W.num[c] = NumOf(c)
      BY <1>1
    <3>3. QED
      BY <1>3, <3>1, <3>2
  <2>2. ASSUME NEW c \in BloomCols, Row[i][c] # Null, NEW s \in Elements(i, c)
        PROVE  bloom_check(W.bloom[c], Hash[s])
    <3>1. Hash[s] \in H(c)
      BY <2>2 DEF DistinctHashes, NonNull
    <3>2. W.bloom[c] = BloomOf(c)
      BY <1>1
    <3>3. QED
      BY <1>4, <3>1, <3>2
  <2>3. CoversNum(W, i)
    BY <2>1 DEF CoversNum
  <2>4. \A c \in BloomCols : CoversBloom(W, i, c)
    BY <2>2 DEF CoversBloom
  <2>5. QED
    BY <2>3, <2>4 DEF Covers
<1>7. QED
  BY <1>5, <1>6

-----------------------------------------------------------------------------
(***************************************************************************)
(* Merging covers what either side covered, in columns of one width.       *)
(***************************************************************************)
\* What a merge computes, column by column.
LEMMA MergeFacts ==
    ASSUME NEW A \in Summaries, NEW B \in Summaries, NEW M, M = merge_filter_summary(A, B)
    PROVE  /\ M \in Summaries
           /\ \A c \in NumCols : /\ M.num[c][1] <= A.num[c][1] /\ M.num[c][1] <= B.num[c][1]
                                  /\ A.num[c][2] <= M.num[c][2] /\ B.num[c][2] <= M.num[c][2]
           /\ \A c \in BloomCols :
                /\ M.bloom[c].n_bits = Greatest(A.bloom[c].n_bits, B.bloom[c].n_bits)
                /\ M.bloom[c].bits = A.bloom[c].bits \cup B.bloom[c].bits
<1> DEFINE NumOf(c) == <<Least(A.num[c][1], B.num[c][1]), Greatest(A.num[c][2], B.num[c][2])>>
           BloomOf(c) == [n_bits |-> Greatest(A.bloom[c].n_bits, B.bloom[c].n_bits),
                          bits |-> A.bloom[c].bits \cup B.bloom[c].bits]
<1>1. M = [present |-> A.present, num |-> [c \in NumCols |-> NumOf(c)],
           bloom |-> [c \in BloomCols |-> BloomOf(c)]]
  BY DEF merge_filter_summary, Summaries
<1>2. ASSUME NEW c \in NumCols
      PROVE  /\ NumOf(c) \in Int \X Int
             /\ NumOf(c)[1] <= A.num[c][1] /\ NumOf(c)[1] <= B.num[c][1]
             /\ A.num[c][2] <= NumOf(c)[2] /\ B.num[c][2] <= NumOf(c)[2]
  <2>1. PICK a, b : a = A.num[c] /\ b = B.num[c]
    OBVIOUS
  <2>2. a \in Int \X Int /\ b \in Int \X Int
    BY <2>1 DEF Summaries
  <2>3. QED
    BY <2>1, <2>2 DEF Least, Greatest
<1>3. ASSUME NEW c \in BloomCols PROVE BloomOf(c) \in Blooms
  <2>1. PICK a, b : a = A.bloom[c] /\ b = B.bloom[c]
    OBVIOUS
  <2>2. a \in Blooms /\ b \in Blooms
    BY <2>1 DEF Summaries
  <2>3. QED
    BY <2>1, <2>2 DEF Blooms, Greatest
<1>4. \A c \in BloomCols : BloomOf(c).n_bits = Greatest(A.bloom[c].n_bits, B.bloom[c].n_bits)
                           /\ BloomOf(c).bits = A.bloom[c].bits \cup B.bloom[c].bits
  OBVIOUS
<1> HIDE DEF NumOf, BloomOf
<1>5. M \in Summaries
  BY <1>1, <1>2, <1>3 DEF Summaries
<1>6. \A c \in NumCols : M.num[c] = NumOf(c)
  BY <1>1
<1>7. \A c \in BloomCols : M.bloom[c] = BloomOf(c)
  BY <1>1
<1>8. QED
  BY <1>2, <1>4, <1>5, <1>6, <1>7

\* A summary that is wider than S in every range, and that has at least the bits of S
\* at the width of S outside the columns in mixed, covers what S covers.
Widens(M, S, mixed) ==
  /\ \A c \in NumCols : M.num[c][1] <= S.num[c][1] /\ S.num[c][2] <= M.num[c][2]
  /\ \A c \in BloomCols \ mixed : /\ M.bloom[c].n_bits = S.bloom[c].n_bits
                                   /\ S.bloom[c].bits \subseteq M.bloom[c].bits

\* What Widens is for.
LEMMA WidensCovers ==
    ASSUME NEW M \in Summaries, NEW S \in Summaries, NEW mixed, Widens(M, S, mixed),
           NEW i \in Ids, NEW old, Covers(S, i, old)
    PROVE  Covers(M, i, old \cup mixed)
<1>1. ASSUME NEW c \in NumCols, Row[i][c] # Null
      PROVE  M.num[c][1] <= Row[i][c] /\ Row[i][c] <= M.num[c][2]
  <2>1. PICK m, s, x : m = M.num[c] /\ s = S.num[c] /\ x = Row[i][c]
    OBVIOUS
  <2>2. m \in Int \X Int /\ s \in Int \X Int /\ x \in Int
    BY <1>1, <2>1, RowTypes DEF Summaries
  <2>3. m[1] <= s[1] /\ s[2] <= m[2] /\ s[1] <= x /\ x <= s[2]
    BY <1>1, <2>1 DEF Widens, Covers, CoversNum
  <2>4. m[1] <= x /\ x <= m[2]
    BY ONLY <2>2, <2>3
  <2>5. QED
    BY <2>1, <2>4
<1>2. ASSUME NEW c \in BloomCols \ (old \cup mixed), Row[i][c] # Null, NEW s \in Elements(i, c)
      PROVE  bloom_check(M.bloom[c], Hash[s])
  <2>1. bloom_check(S.bloom[c], Hash[s])
    BY <1>2 DEF Covers, CoversBloom
  <2>2. M.bloom[c].n_bits = S.bloom[c].n_bits /\ S.bloom[c].bits \subseteq M.bloom[c].bits
    BY DEF Widens
  <2>3. QED
    BY <2>1, <2>2 DEF bloom_check
<1>3. CoversNum(M, i)
  BY <1>1 DEF CoversNum
<1>4. \A c \in BloomCols \ (old \cup mixed) : CoversBloom(M, i, c)
  BY <1>2 DEF CoversBloom
<1>5. QED
  BY <1>3, <1>4 DEF Covers

\* A merge widens both sides, outside the columns of different widths.
LEMMA MergeWidens ==
    ASSUME NEW A \in Summaries, NEW B \in Summaries, NEW M, M = merge_filter_summary(A, B)
    PROVE  M \in Summaries /\ Widens(M, A, Mixed(A, B)) /\ Widens(M, B, Mixed(A, B))
<1>1. ASSUME NEW c \in BloomCols, c \notin Mixed(A, B)
      PROVE  M.bloom[c].n_bits = A.bloom[c].n_bits /\ M.bloom[c].n_bits = B.bloom[c].n_bits
  <2>1. A.bloom[c].n_bits = B.bloom[c].n_bits
    BY <1>1 DEF Mixed
  <2>2. QED
    BY <2>1, MergeFacts DEF Greatest
<1>2. QED
  BY <1>1, MergeFacts DEF Widens

\* Merging into a summary without Bloom filters keeps those of the other side.
LEMMA MergeIntoEmpty ==
    ASSUME NEW A \in Summaries, NEW B \in Summaries, NEW M, M = merge_filter_summary(A, B),
           \A c \in BloomCols : A.bloom[c].n_bits = 0
    PROVE  /\ M \in Summaries /\ Widens(M, B, {})
           /\ \A c \in BloomCols : M.bloom[c].n_bits = B.bloom[c].n_bits
<1>1. \A c \in BloomCols : M.bloom[c].n_bits = B.bloom[c].n_bits
  <2>1. TAKE c \in BloomCols
  <2>2. PICK b : b = B.bloom[c].n_bits
    OBVIOUS
  <2>3. b \in Nat
    BY <2>2 DEF Summaries, Blooms
  <2>4. M.bloom[c].n_bits = Greatest(0, b)
    BY <2>2, MergeFacts
  <2>5. QED
    BY <2>2, <2>3, <2>4 DEF Greatest
<1>2. QED
  BY <1>1, MergeFacts DEF Widens

-----------------------------------------------------------------------------
(***************************************************************************)
(* The build and every mutation keep the invariant.                        *)
(***************************************************************************)
\* A summary covers in more columns what it covers in fewer.
LEMMA CoversMore ==
    ASSUME NEW S, NEW i, NEW less, NEW more, less \subseteq more, Covers(S, i, less)
    PROVE  Covers(S, i, more)
BY DEF Covers

\* The two summaries no rows are written to.
LEMMA EmptySummaries ==
    /\ ZeroSummary \in Summaries /\ init_empty_summary \in Summaries
    /\ ~ZeroSummary.present
    /\ \A c \in BloomCols : init_empty_summary.bloom[c].n_bits = 0
<1>1. DblMax \in Int /\ -DblMax \in Int
  BY SMT DEF DblMax
<1>2. NoBloom \in Blooms /\ NoBloom.n_bits = 0
  BY DEF NoBloom, Blooms
<1>3. ZeroSummary \in Summaries /\ ~ZeroSummary.present
  BY <1>2 DEF ZeroSummary, Summaries
<1>4. init_empty_summary \in Summaries
  BY <1>1, <1>2 DEF init_empty_summary, Summaries
<1>5. \A c \in BloomCols : init_empty_summary.bloom[c].n_bits = 0
  BY <1>2 DEF init_empty_summary
<1>6. QED
  BY <1>3, <1>4, <1>5

\* A leaf as the build writes it.
LEMMA NewLeafCovers ==
    ASSUME NEW ids, ids \subseteq Ids, NEW L, L = NewLeaf(ids)
    PROVE  /\ L \in Leaves /\ L.rows = ids /\ L.mixed = {} /\ L.summary \in Summaries
           /\ \A i \in ids : Covers(L.summary, i, {})
<1>1. PICK W : W = write_filter_summary(ZeroSummary, ids)
  OBVIOUS
<1>2. W \in Summaries /\ \A i \in ids : Covers(W, i, {})
  BY <1>1, EmptySummaries, WriteCovers
<1>3. L = [rows |-> ids, summary |-> W, dirty |-> FALSE, mixed |-> {}]
  BY <1>1 DEF NewLeaf
<1>4. QED
  BY <1>2, <1>3 DEF Leaves

\* The build: two leaves, their copies, and the merge of both in the root's entry.
LEMMA InitHolds == Init => IInv
<1>1. SUFFICES ASSUME Init PROVE IInv
  OBVIOUS
<1>2. PICK left \in SUBSET Built :
        /\ leaves = <<NewLeaf(left), NewLeaf(Built \ left)>>
        /\ entry = [l \in 1 .. 2 |-> leaves[l].summary]
        /\ root_entry = [summary |-> merge_filter_summary(
                                       merge_filter_summary(init_empty_summary, leaves[1].summary),
                                       leaves[2].summary),
                         mixed |-> Mixed(leaves[1].summary, leaves[2].summary)]
        /\ inserted = {}
  BY <1>1 DEF Init
<1>3. PICK A, B : A = leaves[1] /\ B = leaves[2]
  OBVIOUS
<1>4. left \subseteq Ids /\ Built \ left \subseteq Ids
  BY ConstantsAssumption
<1>5. /\ A \in Leaves /\ A.rows = left /\ A.mixed = {} /\ A.summary \in Summaries
      /\ \A i \in left : Covers(A.summary, i, {})
  <2>1. A = NewLeaf(left)
    BY <1>2, <1>3
  <2>2. QED
    BY <1>4, <2>1, NewLeafCovers
<1>6. /\ B \in Leaves /\ B.rows = Built \ left /\ B.mixed = {} /\ B.summary \in Summaries
      /\ \A i \in Built \ left : Covers(B.summary, i, {})
  <2>1. B = NewLeaf(Built \ left)
    BY <1>2, <1>3
  <2>2. QED
    BY <1>4, <2>1, NewLeafCovers
<1>7. leaves = <<A, B>> /\ Len(leaves) = 2 /\ leaves \in Seq(Leaves)
  BY <1>2, <1>3, <1>5, <1>6
<1>8. entry = <<A.summary, B.summary>> /\ Len(entry) = 2 /\ entry \in Seq(Summaries)
  <2>1. entry = [l \in 1 .. 2 |-> leaves[l].summary]
    BY <1>2
  <2>2. entry = <<A.summary, B.summary>>
    BY <1>3, <2>1
  <2>3. QED
    BY <1>5, <1>6, <2>2
<1>9. PICK M, R : /\ M = merge_filter_summary(init_empty_summary, A.summary)
                  /\ R = merge_filter_summary(M, B.summary)
  OBVIOUS
<1>10. /\ M \in Summaries /\ Widens(M, A.summary, {})
       /\ \A c \in BloomCols : M.bloom[c].n_bits = A.summary.bloom[c].n_bits
  BY <1>5, <1>9, EmptySummaries, MergeIntoEmpty
<1>11. PICK mix : mix = Mixed(A.summary, B.summary)
  OBVIOUS
<1>12. mix = Mixed(M, B.summary) /\ mix \subseteq BloomCols
  BY <1>10, <1>11 DEF Mixed
<1>13. R \in Summaries /\ Widens(R, M, mix) /\ Widens(R, B.summary, mix)
  BY <1>6, <1>9, <1>10, <1>12, MergeWidens
<1>14. root_entry = [summary |-> R, mixed |-> mix]
  BY <1>2, <1>3, <1>9, <1>11
<1>15. \A i \in left : Covers(R, i, mix)
  <2>1. TAKE i \in left
  <2>2. i \in Ids /\ Covers(A.summary, i, {})
    BY <1>4, <1>5
  <2>3. Covers(M, i, {} \cup {})
    BY <1>5, <1>10, <2>2, WidensCovers
  <2>4. Covers(M, i, {})
    BY <2>3, CoversMore
  <2>5. Covers(R, i, {} \cup mix)
    BY <1>10, <1>13, <2>2, <2>4, WidensCovers
  <2>6. QED
    BY <2>5, CoversMore
<1>16. \A i \in Built \ left : Covers(R, i, mix)
  <2>1. TAKE i \in Built \ left
  <2>2. i \in Ids /\ Covers(B.summary, i, {})
    BY <1>4, <1>6
  <2>3. Covers(R, i, {} \cup mix)
    BY <1>6, <1>13, <2>2, WidensCovers
  <2>4. QED
    BY <2>3, CoversMore
<1>17. DOMAIN leaves = {1, 2} /\ leaves[1] = A /\ leaves[2] = B
  BY <1>7
<1>18. entry[1] = A.summary /\ entry[2] = B.summary
  BY <1>8
<1>19. Types
  BY <1>2, <1>7, <1>8, <1>12, <1>13, <1>14 DEF Types
<1>20. LeavesCovered
  BY <1>5, <1>6, <1>17 DEF LeavesCovered
<1>21. EntriesCover
  BY <1>5, <1>6, <1>17, <1>18 DEF EntriesCover
<1>22. RootCovers
  BY <1>5, <1>6, <1>14, <1>15, <1>16, <1>17 DEF RootCovers
<1>23. QED
  BY <1>19, <1>20, <1>21, <1>22 DEF IInv

\* What the invariant says of a leaf.
LEMMA LeafTypes ==
    ASSUME Types, NEW l \in DOMAIN leaves
    PROVE  /\ leaves[l] \in Leaves /\ leaves[l].rows \subseteq Ids
           /\ leaves[l].summary \in Summaries /\ leaves[l].mixed \subseteq BloomCols
<1>1. leaves[l] \in Leaves
  BY LenProperties DEF Types
<1>2. QED
  BY <1>1 DEF Leaves

\* A step that keeps the entries, and gives every leaf no built row it did not have,
\* keeps what the entries cover.
LEMMA EntriesKept ==
    ASSUME IInv, UNCHANGED <<entry, root_entry>>, DOMAIN leaves' = DOMAIN leaves,
           \A l \in DOMAIN leaves : leaves'[l].rows \ inserted' \subseteq leaves[l].rows \ inserted
    PROVE  EntriesCover' /\ RootCovers'
<1>1. EntriesCover'
  BY DEF IInv, EntriesCover
<1>2. RootCovers'
  BY DEF IInv, RootCovers
<1>3. QED
  BY <1>1, <1>2

\* An insert merges a summary of the new rows into the leaf's own.
LEMMA InsertKeeps ==
    ASSUME IInv, NEW ids \in SUBSET Ids, NEW l \in DOMAIN leaves, insert(ids, l)
    PROVE  IInv'
<1>1. Types
  BY DEF IInv
<1>2. PICK L : L = leaves[l]
  OBVIOUS
<1>3. /\ L \in Leaves /\ L.rows \subseteq Ids /\ L.summary \in Summaries
      /\ L.mixed \subseteq BloomCols
  BY <1>1, <1>2, LeafTypes
<1>4. PICK W : W = write_filter_summary(ZeroSummary, ids)
  OBVIOUS
<1>5. W \in Summaries /\ \A i \in ids : Covers(W, i, {})
  BY <1>4, EmptySummaries, WriteCovers
<1>6. PICK M, mix : M = merge_filter_summary(L.summary, W) /\ mix = Mixed(L.summary, W)
  OBVIOUS
<1>7. M \in Summaries /\ Widens(M, L.summary, mix) /\ Widens(M, W, mix)
  BY <1>3, <1>5, <1>6, MergeWidens
<1>8. mix \subseteq BloomCols
  BY <1>6 DEF Mixed
<1>9. PICK N : N = [L EXCEPT !.rows = @ \cup ids, !.summary = M, !.mixed = @ \cup mix]
  OBVIOUS
<1>10. /\ N \in Leaves /\ N.rows = L.rows \cup ids /\ N.summary = M
       /\ N.mixed = L.mixed \cup mix
  BY <1>3, <1>7, <1>8, <1>9 DEF Leaves
<1>11. leaves' = [leaves EXCEPT ![l] = N]
  <2>1. leaves' = [leaves EXCEPT
          ![l].rows = @ \cup ids,
          ![l].summary = merge_filter_summary(@, W),
          ![l].mixed = @ \cup Mixed(leaves[l].summary, W)]
    BY <1>4 DEF insert
  <2>2. QED
    BY <1>2, <1>6, <1>9, <2>1
<1>12. /\ leaves' \in Seq(Leaves) /\ Len(leaves') = Len(leaves)
       /\ DOMAIN leaves' = DOMAIN leaves /\ leaves'[l] = N
       /\ \A m \in DOMAIN leaves : m # l => leaves'[m] = leaves[m]
  <2>1. leaves \in Seq(Leaves) /\ l \in 1..Len(leaves)
    BY <1>1, LenProperties DEF Types
  <2>2. QED
    BY <1>10, <1>11, <2>1, ExceptSeq
<1>13. UNCHANGED <<entry, root_entry>> /\ inserted' = inserted \cup ids
  BY DEF insert
<1>14. Types'
  BY <1>1, <1>12, <1>13 DEF Types
<1>15. LeavesCovered'
  <2>1. ASSUME NEW i \in N.rows PROVE Covers(N.summary, i, N.mixed)
    <3>1. i \in Ids /\ N.summary = M /\ N.mixed = L.mixed \cup mix
      BY <1>3, <1>10
    <3>2. CASE i \in ids
      <4>1. Covers(M, i, {} \cup mix)
        BY <1>5, <1>7, <3>1, <3>2, WidensCovers
      <4>2. QED
        BY <3>1, <4>1, CoversMore
    <3>3. CASE i \in L.rows
      <4>1. Covers(L.summary, i, L.mixed)
        BY <1>2, <3>3 DEF IInv, LeavesCovered
      <4>2. QED
        BY <1>3, <1>7, <3>1, <4>1, WidensCovers
    <3>4. QED
      BY <1>10, <3>2, <3>3
  <2>2. ASSUME NEW m \in DOMAIN leaves', NEW i \in leaves'[m].rows
        PROVE  Covers(leaves'[m].summary, i, leaves'[m].mixed)
    <3>1. CASE m = l
      BY <1>12, <2>1, <2>2, <3>1
    <3>2. CASE m # l
      BY <1>12, <2>2, <3>2 DEF IInv, LeavesCovered
    <3>3. QED
      BY <3>1, <3>2
  <2>3. QED
    BY <2>2 DEF LeavesCovered, Covers, CoversNum, CoversBloom
<1>16. \A m \in DOMAIN leaves : leaves'[m].rows \ inserted' \subseteq leaves[m].rows \ inserted
  <2>1. N.rows = leaves[l].rows \cup ids
    BY <1>2, <1>10
  <2>2. QED
    BY <1>12, <1>13, <2>1
<1>17. EntriesCover' /\ RootCovers'
  BY <1>12, <1>13, <1>16, EntriesKept
<1>18. QED
  BY <1>14, <1>15, <1>17 DEF IInv

\* Both halves of a split keep the summary; the new child entry is absent.
LEMMA SplitKeeps ==
    ASSUME IInv, NEW group0 \in SUBSET Ids, split_leaf_(group0)
    PROVE  IInv'
<1>1. Types
  BY DEF IInv
<1>2. PICK l : l = Lowest(Oversized)
  OBVIOUS
<1>3. Len(leaves) \in Nat /\ DOMAIN leaves = 1..Len(leaves)
  BY <1>1, LenProperties DEF Types
<1>4. l \in DOMAIN leaves
  <2>1. Oversized # {} /\ Oversized \subseteq 1..Len(leaves)
    BY DEF split_leaf_, Oversized
  <2>2. PICK O : O = Oversized
    OBVIOUS
  <2>3. O # {} /\ O \subseteq Nat /\ O \subseteq 1..Len(leaves)
    BY <1>3, <2>1, <2>2
  <2>4. PICK m \in O : \A k \in O : m <= k
    BY <2>3, LeastNat
  <2>5. Lowest(O) \in O
    BY <2>4 DEF Lowest
  <2>6. QED
    BY <1>2, <1>3, <2>2, <2>3, <2>5
<1>5. PICK L : L = leaves[l]
  OBVIOUS
<1>6. /\ L \in Leaves /\ L.rows \subseteq Ids /\ L.summary \in Summaries
      /\ L.mixed \subseteq BloomCols
  BY <1>1, <1>4, <1>5, LeafTypes
<1>7. PICK A, B : A = [L EXCEPT !.rows = group0] /\ B = [L EXCEPT !.rows = @ \ group0]
  OBVIOUS
<1>8. group0 \subseteq L.rows
  BY <1>2, <1>5 DEF split_leaf_
<1>9. /\ A \in Leaves /\ A.rows \subseteq L.rows /\ A.summary = L.summary /\ A.mixed = L.mixed
      /\ B \in Leaves /\ B.rows \subseteq L.rows /\ B.summary = L.summary /\ B.mixed = L.mixed
  BY <1>6, <1>7, <1>8 DEF Leaves
<1>10. PICK s : s = [leaves EXCEPT ![l] = A]
  OBVIOUS
<1>11. leaves' = Append(s, B)
  <2>1. leaves' = Append([leaves EXCEPT ![l].rows = group0], [leaves[l] EXCEPT !.rows = @ \ group0])
    BY <1>2 DEF split_leaf_
  <2>2. [leaves EXCEPT ![l].rows = group0] = s
    BY <1>5, <1>7, <1>10
  <2>3. QED
    BY <1>5, <1>7, <2>1, <2>2
<1>12. /\ s \in Seq(Leaves) /\ Len(s) = Len(leaves) /\ s[l] = A
       /\ \A m \in DOMAIN leaves : m # l => s[m] = leaves[m]
  <2>1. leaves \in Seq(Leaves) /\ l \in 1..Len(leaves)
    BY <1>1, <1>3, <1>4 DEF Types
  <2>2. QED
    BY <1>3, <1>9, <1>10, <2>1, ExceptSeq
<1>13. PICK n : n = Len(leaves)
  OBVIOUS
<1>14. /\ leaves' \in Seq(Leaves) /\ Len(leaves') = n + 1 /\ leaves'[n + 1] = B
       /\ \A m \in 1..n : leaves'[m] = s[m]
  BY <1>9, <1>11, <1>12, <1>13, AppendProperties
<1>15. n \in Nat /\ DOMAIN leaves = 1..n /\ DOMAIN leaves' = 1..(n + 1)
  BY <1>3, <1>13, <1>14, LenProperties
<1>16. entry' = Append(entry, ZeroSummary) /\ UNCHANGED <<root_entry, inserted>>
  BY DEF split_leaf_
<1>17. /\ entry' \in Seq(Summaries) /\ Len(entry') = n + 1 /\ entry'[n + 1] = ZeroSummary
       /\ \A m \in 1..n : entry'[m] = entry[m]
  <2>1. entry \in Seq(Summaries) /\ Len(entry) = n
    BY <1>1, <1>13 DEF Types
  <2>2. QED
    BY <1>16, <2>1, EmptySummaries, AppendProperties
<1>18. Types'
  BY <1>1, <1>14, <1>16, <1>17 DEF Types
<1>19. \A m \in 1..n : leaves'[m] = leaves[m] \/ (m = l /\ leaves'[m] = A)
  BY <1>12, <1>14, <1>15
<1>20. \A m \in 1..(n + 1) : m \in 1..n \/ m = n + 1
  BY <1>15
<1>21. \A m \in 1..(n + 1) : \E k \in 1..n :
         /\ leaves'[m].rows \subseteq leaves[k].rows /\ leaves'[m].summary = leaves[k].summary
         /\ leaves'[m].mixed = leaves[k].mixed /\ (m \in 1..n => k = m)
  <2>1. TAKE m \in 1..(n + 1)
  <2>2. CASE m \in 1..n
    BY <1>5, <1>9, <1>19, <2>2
  <2>3. CASE m = n + 1
    <3>1. m \notin 1..n
      BY <1>15, <2>3
    <3>2. QED
      BY <1>4, <1>5, <1>9, <1>14, <1>15, <2>3, <3>1
  <2>4. QED
    BY <1>20, <2>2, <2>3
<1>22. LeavesCovered'
  <2>1. ASSUME NEW m \in DOMAIN leaves', NEW i \in leaves'[m].rows
        PROVE  Covers(leaves'[m].summary, i, leaves'[m].mixed)
    BY <1>15, <1>21, <2>1 DEF IInv, LeavesCovered
  <2>2. QED
    BY <2>1 DEF LeavesCovered, Covers, CoversNum, CoversBloom
<1>23. EntriesCover'
  <2>1. ASSUME NEW m \in DOMAIN leaves', NEW i \in leaves'[m].rows \ inserted, entry'[m].present
        PROVE  Covers(entry'[m], i, {})
    <3>1. m \in 1..n
      BY <1>15, <1>17, <1>20, <2>1, EmptySummaries
    <3>2. entry'[m] = entry[m] /\ i \in leaves[m].rows \ inserted
      BY <1>15, <1>17, <1>21, <2>1, <3>1
    <3>3. QED
      BY <1>15, <2>1, <3>1, <3>2 DEF IInv, EntriesCover
  <2>2. QED
    BY <1>16, <2>1 DEF EntriesCover, Covers, CoversNum, CoversBloom
<1>24. RootCovers'
  <2>1. ASSUME NEW m \in DOMAIN leaves', NEW i \in leaves'[m].rows \ inserted
        PROVE  Covers(root_entry.summary, i, root_entry.mixed)
    BY <1>15, <1>21, <2>1 DEF IInv, RootCovers
  <2>2. QED
    BY <1>16, <2>1 DEF RootCovers, Covers, CoversNum, CoversBloom
<1>25. QED
  BY <1>18, <1>22, <1>23, <1>24 DEF IInv

\* A leaf that loses rows keeps a summary that is wider than it needs.
LEMMA DeleteKeeps ==
    ASSUME IInv, NEW ids \in SUBSET Ids, delete_batch(ids)
    PROVE  IInv'
<1>1. Types
  BY DEF IInv
<1>2. Len(leaves) \in Nat /\ DOMAIN leaves = 1..Len(leaves)
  BY <1>1, LenProperties DEF Types
<1> DEFINE After(l) == IF leaves[l].rows \cap ids = {} THEN leaves[l]
                       ELSE [leaves[l] EXCEPT !.rows = @ \ ids, !.dirty = TRUE]
<1>3. leaves' = [l \in DOMAIN leaves |-> After(l)] /\ UNCHANGED <<entry, root_entry>>
      /\ inserted' = inserted \ ids
  BY DEF delete_batch
<1>4. ASSUME NEW l \in DOMAIN leaves
      PROVE  /\ After(l) \in Leaves /\ After(l).rows = leaves[l].rows \ ids
             /\ After(l).summary = leaves[l].summary /\ After(l).mixed = leaves[l].mixed
  <2>1. PICK L : L = leaves[l]
    OBVIOUS
  <2>2. L \in Leaves
    BY <1>1, <2>1, LeafTypes
  <2>3. CASE L.rows \cap ids = {}
    BY <2>1, <2>2, <2>3
  <2>4. CASE L.rows \cap ids # {}
    <3>1. After(l) = [L EXCEPT !.rows = @ \ ids, !.dirty = TRUE]
      BY <2>1, <2>4
    <3> HIDE DEF After
    <3>2. QED
      BY <2>1, <2>2, <3>1 DEF Leaves
  <2>5. QED
    BY <2>3, <2>4, <2>1
<1> HIDE DEF After
<1>5. DOMAIN leaves' = DOMAIN leaves /\ \A l \in DOMAIN leaves : leaves'[l] = After(l)
  BY <1>3
<1>6. leaves' \in Seq(Leaves) /\ Len(leaves') = Len(leaves)
  <2>1. leaves' \in [1..Len(leaves) -> Leaves]
    BY <1>2, <1>3, <1>4
  <2>2. PICK n : n = Len(leaves)
    OBVIOUS
  <2>3. n \in Nat /\ leaves' \in [1..n -> Leaves]
    BY <1>2, <2>1, <2>2
  <2>4. leaves' \in Seq(Leaves) /\ Len(leaves') = n
    BY ONLY <2>3, IsASeq, LenProperties
  <2>5. QED
    BY <2>2, <2>4
<1>7. Types'
  BY <1>1, <1>3, <1>6 DEF Types
<1>8. LeavesCovered'
  <2>1. ASSUME NEW l \in DOMAIN leaves', NEW i \in leaves'[l].rows
        PROVE  Covers(leaves'[l].summary, i, leaves'[l].mixed)
    BY <1>4, <1>5, <2>1 DEF IInv, LeavesCovered
  <2>2. QED
    BY <2>1 DEF LeavesCovered, Covers, CoversNum, CoversBloom
<1>9. \A l \in DOMAIN leaves : leaves'[l].rows \ inserted' \subseteq leaves[l].rows \ inserted
  BY <1>3, <1>4, <1>5
<1>10. EntriesCover' /\ RootCovers'
  BY <1>3, <1>5, <1>9, EntriesKept
<1>11. QED
  BY <1>7, <1>8, <1>10 DEF IInv

\* A vacuum writes a dirty leaf's summary again over its remaining rows.
LEMMA VacuumKeeps ==
    ASSUME IInv, vacuum
    PROVE  IInv'
<1>1. Types
  BY DEF IInv
<1>2. Len(leaves) \in Nat /\ DOMAIN leaves = 1..Len(leaves)
  BY <1>1, LenProperties DEF Types
<1> DEFINE After(l) ==
      CASE ~leaves[l].dirty -> leaves[l]
        [] leaves[l].dirty /\ leaves[l].rows = {} -> [leaves[l] EXCEPT !.dirty = FALSE]
        [] OTHER -> [leaves[l] EXCEPT !.summary = write_filter_summary(@, leaves[l].rows),
                                      !.dirty = FALSE, !.mixed = {}]
<1>3. leaves' = [l \in DOMAIN leaves |-> After(l)] /\ UNCHANGED <<entry, root_entry, inserted>>
  BY DEF vacuum
<1>4. ASSUME NEW l \in DOMAIN leaves
      PROVE  /\ After(l) \in Leaves /\ After(l).rows = leaves[l].rows
             /\ \A i \in leaves[l].rows : Covers(After(l).summary, i, After(l).mixed)
  <2>1. PICK L : L = leaves[l]
    OBVIOUS
  <2>2. L \in Leaves /\ L.rows \subseteq Ids /\ L.summary \in Summaries
    BY <1>1, <2>1, LeafTypes
  <2>3. \A i \in L.rows : Covers(L.summary, i, L.mixed)
    BY <2>1 DEF IInv, LeavesCovered
  <2>4. CASE ~L.dirty
    <3>1. After(l) = L
      BY <2>1, <2>4
    <3> HIDE DEF After
    <3>2. QED
      BY <2>1, <2>2, <2>3, <3>1
  <2>5. CASE L.dirty /\ L.rows = {}
    <3>1. After(l) = [L EXCEPT !.dirty = FALSE]
      BY <2>1, <2>5
    <3> HIDE DEF After
    <3>2. After(l) \in Leaves /\ After(l).rows = {}
      BY <2>2, <2>5, <3>1 DEF Leaves
    <3>3. QED
      BY <2>1, <2>5, <3>2
  <2>6. CASE L.dirty /\ L.rows # {}
    <3>1. PICK W : W = write_filter_summary(L.summary, L.rows)
      OBVIOUS
    <3>2. W \in Summaries /\ \A i \in L.rows : Covers(W, i, {})
      BY <2>2, <3>1, WriteCovers
    <3>3. After(l) = [L EXCEPT !.summary = W, !.dirty = FALSE, !.mixed = {}]
      BY <2>1, <2>6, <3>1
    <3> HIDE DEF After
    <3>4. /\ After(l) \in Leaves /\ After(l).rows = L.rows
          /\ After(l).summary = W /\ After(l).mixed = {}
      BY <2>2, <3>2, <3>3 DEF Leaves
    <3>5. QED
      BY <2>1, <3>2, <3>4
  <2>7. QED
    BY <2>4, <2>5, <2>6
<1> HIDE DEF After
<1>5. DOMAIN leaves' = DOMAIN leaves /\ \A l \in DOMAIN leaves : leaves'[l] = After(l)
  BY <1>3
<1>6. leaves' \in Seq(Leaves) /\ Len(leaves') = Len(leaves)
  <2>1. leaves' \in [1..Len(leaves) -> Leaves]
    BY <1>2, <1>3, <1>4
  <2>2. PICK n : n = Len(leaves)
    OBVIOUS
  <2>3. n \in Nat /\ leaves' \in [1..n -> Leaves]
    BY <1>2, <2>1, <2>2
  <2>4. leaves' \in Seq(Leaves) /\ Len(leaves') = n
    BY ONLY <2>3, IsASeq, LenProperties
  <2>5. QED
    BY <2>2, <2>4
<1>7. Types'
  BY <1>1, <1>3, <1>6 DEF Types
<1>8. LeavesCovered'
  <2>1. ASSUME NEW l \in DOMAIN leaves', NEW i \in leaves'[l].rows
        PROVE  Covers(leaves'[l].summary, i, leaves'[l].mixed)
    BY <1>4, <1>5, <2>1
  <2>2. QED
    BY <2>1 DEF LeavesCovered, Covers, CoversNum, CoversBloom
<1>9. \A l \in DOMAIN leaves : leaves'[l].rows \ inserted' \subseteq leaves[l].rows \ inserted
  BY <1>3, <1>4, <1>5
<1>10. EntriesCover' /\ RootCovers'
  BY <1>3, <1>5, <1>9, EntriesKept
<1>11. QED
  BY <1>7, <1>8, <1>10 DEF IInv

\* IInv is inductive: the build establishes it and every mutation keeps it.
THEOREM Invariant == Spec => []IInv
<1>1. IInv /\ [Next]_vars => IInv'
  <2>1. SUFFICES ASSUME IInv, [Next]_vars PROVE IInv'
    OBVIOUS
  <2>2. CASE \E ids \in SUBSET Ids : \E l \in DOMAIN leaves : insert(ids, l)
    BY <2>1, <2>2, InsertKeeps
  <2>3. CASE \E group0 \in SUBSET Ids : split_leaf_(group0)
    BY <2>1, <2>3, SplitKeeps
  <2>4. CASE \E ids \in SUBSET Ids : delete_batch(ids)
    BY <2>1, <2>4, DeleteKeeps
  <2>5. CASE vacuum
    BY <2>1, <2>5, VacuumKeeps
  <2>6. CASE UNCHANGED vars
    BY <2>1, <2>6 DEF vars, IInv, Types, LeavesCovered, EntriesCover, RootCovers,
                      Covers, CoversNum, CoversBloom
  <2>7. QED
    BY <2>1, <2>2, <2>3, <2>4, <2>5, <2>6 DEF Next
<1>2. QED
  BY <1>1, InitHolds, PTL DEF Spec

\* No leaf's own summary prunes a leaf that holds a row that matches, by the scan and by
\* the comparand as given, for any rows, comparands, hashes, widths and sequence of
\* inserts, splits, deletes and vacuums, except for a column whose Bloom filters were
\* merged at different widths since the last vacuum.
THEOREM LeavesNeverPruned == Spec => []LeafSummarySound
<1>1. IInv => LeafSummarySound
  <2>1. SUFFICES ASSUME IInv, NEW l \in DOMAIN leaves, NEW i \in leaves[l].rows,
                        NEW q \in Predicates, eval_predicate(i, q), AsGiven(i, q),
                        q.col \notin leaves[l].mixed
                 PROVE  summary_may_match(leaves[l].summary, q)
    BY DEF LeafSummarySound
  <2>2. leaves[l].summary \in Summaries /\ i \in Ids
    BY <2>1, LeafTypes DEF IInv
  <2>3. Covers(leaves[l].summary, i, leaves[l].mixed)
    BY <2>1 DEF IInv, LeavesCovered
  <2>4. QED
    BY <2>1, <2>2, <2>3, SummaryComplete
<1>2. QED
  BY <1>1, Invariant, PTL

\* A row the build put into the index is found by every filter it matches, in the same
\* sense, for as long as it is there: neither the root's entry, nor the child entry, nor the leaf's
\* summary prunes it, with the same exception.
THEOREM BuiltRowsStayFound == Spec => []BuiltRowsFound
<1>1. IInv => BuiltRowsFound
  <2>1. SUFFICES ASSUME IInv, NEW l \in DOMAIN leaves, NEW i \in leaves[l].rows \ inserted,
                        NEW q \in Predicates, eval_predicate(i, q), AsGiven(i, q),
                        q.col \notin leaves[l].mixed \cup root_entry.mixed
                 PROVE  i \in Search(q)
    BY DEF BuiltRowsFound
  <2>2. leaves[l].summary \in Summaries /\ i \in Ids
    BY <2>1, LeafTypes DEF IInv
  <2>3. summary_may_match(leaves[l].summary, q)
    <3>1. Covers(leaves[l].summary, i, leaves[l].mixed)
      BY <2>1 DEF IInv, LeavesCovered
    <3>2. QED
      BY <2>1, <2>2, <3>1, SummaryComplete
  <2>4. summary_may_match(entry[l], q)
    <3>1. entry[l] \in Summaries
      <4>1. entry \in Seq(Summaries) /\ l \in 1..Len(entry)
        BY <2>1, LenProperties DEF IInv, Types
      <4>2. QED
        BY <4>1, LenProperties
    <3>2. CASE ~entry[l].present
      BY <3>2 DEF summary_may_match
    <3>3. CASE entry[l].present
      <4>1. Covers(entry[l], i, {})
        BY <2>1, <3>3 DEF IInv, EntriesCover
      <4>2. QED
        BY <2>1, <2>2, <3>1, <4>1, SummaryComplete
    <3>4. QED
      BY <3>2, <3>3
  <2>5. summary_may_match(root_entry.summary, q)
    <3>1. root_entry.summary \in Summaries
      BY <2>1 DEF IInv, Types
    <3>2. Covers(root_entry.summary, i, root_entry.mixed)
      BY <2>1 DEF IInv, RootCovers
    <3>3. QED
      BY <2>1, <2>2, <3>1, <3>2, SummaryComplete
  <2>6. l \in Scanned(q)
    BY <2>1, <2>3, <2>4, <2>5 DEF Scanned
  <2>7. QED
    BY <2>1, <2>6 DEF Search
<1>2. QED
  BY <1>1, Invariant, PTL
=============================================================================
