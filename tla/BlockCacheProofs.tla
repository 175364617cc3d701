-------------------------- MODULE BlockCacheProofs --------------------------
(***************************************************************************)
(* Proofs about BlockCache: every resident block is in one list, once, and *)
(* the lists stay within their bounds, for every number of threads, every  *)
(* capacity and every sequence of resizes.                                 *)
(***************************************************************************)
EXTENDS BlockCache, CommonLemmas

-----------------------------------------------------------------------------
\* The lists.

\* Three lists of blocks with no block in two places.
Good(w, p, q) ==
    /\ w \in Seq(Blocks) /\ p \in Seq(Blocks) /\ q \in Seq(Blocks)
    /\ IsInjective(w) /\ IsInjective(p) /\ IsInjective(q)
    /\ Range(w) \cap Range(p) = {} /\ Range(w) \cap Range(q) = {} /\ Range(p) \cap Range(q) = {}

Lists(s) == Good(s.window, s.probation, s.protected)

\* A part of a list without repetitions has none.
LEMMA PartFacts ==
    ASSUME NEW s \in Seq(Blocks), IsInjective(s),
           NEW m \in 1..(Len(s) + 1), NEW n \in (m - 1)..Len(s), NEW t, t = SubSeq(s, m, n)
    PROVE  /\ t \in Seq(Blocks) /\ Len(t) = n - m + 1 /\ IsInjective(t)
           /\ Range(t) \subseteq Range(s) /\ Range(t) = {s[i] : i \in m..n}
  <1>1. t \in Seq(Blocks) /\ Len(t) = n - m + 1 /\ \A i \in 1..(n - m + 1) : t[i] = s[m + i - 1]
    BY SeqPart
  <1>2. Len(s) \in Nat /\ DOMAIN s = 1..Len(s) /\ DOMAIN t = 1..(n - m + 1)
    BY <1>1
  <1>3. \A i, j \in 1..Len(s) : s[i] = s[j] => i = j
    BY <1>2 DEF IsInjective
  <1>4. IsInjective(t)
    <2> SUFFICES ASSUME NEW i \in 1..(n - m + 1), NEW j \in 1..(n - m + 1), t[i] = t[j]
                 PROVE  i = j
      BY <1>2 DEF IsInjective
    <2>1. m + i - 1 \in 1..Len(s) /\ m + j - 1 \in 1..Len(s)
      BY <1>2
    <2>2. s[m + i - 1] = s[m + j - 1]
      BY <1>1
    <2>3. m + i - 1 = m + j - 1
      BY <1>3, <2>1, <2>2
    <2> QED
      BY <2>3
  <1>5. Range(t) = {s[i] : i \in m..n}
    <2>1. ASSUME NEW x \in Range(t) PROVE x \in {s[i] : i \in m..n}
      <3>1. PICK i \in 1..(n - m + 1) : x = t[i]
        BY <1>2 DEF Range
      <3>2. m + i - 1 \in m..n /\ x = s[m + i - 1]
        BY <3>1, <1>1, <1>2
      <3> QED
        BY <3>2
    <2>2. ASSUME NEW i \in m..n PROVE s[i] \in Range(t)
      <3>1. i - m + 1 \in 1..(n - m + 1) /\ m + (i - m + 1) - 1 = i
        BY <1>2
      <3>2. t[i - m + 1] = s[i]
        BY <3>1, <1>1
      <3> QED
        BY <3>1, <3>2, <1>2 DEF Range
    <2> QED
      BY <2>1, <2>2
  <1>6. \A i \in m..n : i \in 1..Len(s)
    BY <1>2
  <1> QED
    BY <1>1, <1>2, <1>4, <1>5, <1>6 DEF Range

\* Two lists with nothing in common, one after the other, repeat nothing.
LEMMA ConcatInjective ==
    ASSUME NEW a \in Seq(Blocks), NEW b \in Seq(Blocks), IsInjective(a), IsInjective(b),
           Range(a) \cap Range(b) = {}, NEW t, t = a \o b
    PROVE  /\ t \in Seq(Blocks) /\ Len(t) = Len(a) + Len(b) /\ IsInjective(t)
           /\ Range(t) = Range(a) \cup Range(b)
  <1>1. /\ t \in Seq(Blocks) /\ Len(t) = Len(a) + Len(b) /\ Len(a) \in Nat /\ Len(b) \in Nat
        /\ DOMAIN t = 1..(Len(a) + Len(b))
        /\ \A i \in 1..Len(a) : t[i] = a[i]
        /\ \A i \in 1..Len(b) : t[Len(a) + i] = b[i]
    <2>1. a \in Seq(Blocks) /\ b \in Seq(Blocks) /\ t = a \o b
      OBVIOUS
    <2> QED
      BY ONLY <2>1, ConcatTwo
  <1>0. Range(t) = Range(a) \cup Range(b)
    BY RangeConcatenation
  <1>2. DOMAIN a = 1..Len(a) /\ DOMAIN b = 1..Len(b)
    OBVIOUS
  <1>3. \A i \in (Len(a) + 1)..(Len(a) + Len(b)) : i - Len(a) \in 1..Len(b) /\ t[i] = b[i - Len(a)]
    <2> TAKE i \in (Len(a) + 1)..(Len(a) + Len(b))
    <2>1. i - Len(a) \in 1..Len(b) /\ Len(a) + (i - Len(a)) = i
      BY <1>1
    <2> QED
      BY <2>1, <1>1
  <1>4. ASSUME NEW i \in DOMAIN t, NEW j \in DOMAIN t, t[i] = t[j]
        PROVE  i = j
    <2>1. CASE i <= Len(a) /\ j <= Len(a)
      <3>1. i \in 1..Len(a) /\ j \in 1..Len(a)
        BY <2>1, <1>1
      <3> QED
        BY <3>1, <1>1, <1>2, <1>4 DEF IsInjective
    <2>2. CASE i > Len(a) /\ j > Len(a)
      <3>1. i \in (Len(a) + 1)..(Len(a) + Len(b)) /\ j \in (Len(a) + 1)..(Len(a) + Len(b))
        BY <2>2, <1>1
      <3>2. i - Len(a) = j - Len(a)
        BY <3>1, <1>3, <1>2, <1>4 DEF IsInjective
      <3> QED
        BY <3>1, <3>2, <1>1
    <2>3. CASE i <= Len(a) /\ j > Len(a)
      <3>1. i \in 1..Len(a) /\ j \in (Len(a) + 1)..(Len(a) + Len(b))
        BY <2>3, <1>1
      <3>2. t[i] \in Range(a) /\ t[j] \in Range(b)
        BY <3>1, <1>1, <1>2, <1>3 DEF Range
      <3> QED
        BY <3>2, <1>4
    <2>4. CASE i > Len(a) /\ j <= Len(a)
      <3>1. j \in 1..Len(a) /\ i \in (Len(a) + 1)..(Len(a) + Len(b))
        BY <2>4, <1>1
      <3>2. t[j] \in Range(a) /\ t[i] \in Range(b)
        BY <3>1, <1>1, <1>2, <1>3 DEF Range
      <3> QED
        BY <3>2, <1>4
    <2> QED
      BY <2>1, <2>2, <2>3, <2>4, <1>1
  <1> QED
    BY <1>0, <1>1, <1>4 DEF IsInjective

\* The end of a list moves to the front of another one.
Moved(a, b, a2, b2) ==
    /\ a2 \in Seq(Blocks) /\ b2 \in Seq(Blocks) /\ IsInjective(a2) /\ IsInjective(b2)
    /\ Len(a2) = Len(a) - 1 /\ Len(b2) = Len(b) + 1
    /\ Range(a2) \cap Range(b2) = {}
    /\ Range(a2) \subseteq Range(a) /\ Range(b2) \subseteq Range(a) \cup Range(b)
    /\ Len(a) >= 2 => Head(a) \in Range(a2)

\* The last entry of one list goes to the front of another.
LEMMA MoveLast ==
    ASSUME NEW a \in Seq(Blocks), NEW b \in Seq(Blocks), IsInjective(a), IsInjective(b),
           Range(a) \cap Range(b) = {}, Len(a) >= 1,
           NEW a2, a2 = Front(a), NEW b2, b2 = <<Last(a)>> \o b
    PROVE  Moved(a, b, a2, b2)
  <1> PICK n : n = Len(a)
    OBVIOUS
  <1> PICK k : k = n - 1
    OBVIOUS
  <1>1. n \in Nat /\ DOMAIN a = 1..n /\ n \in 1..n /\ k \in (1 - 1)..n /\ 1 \in 1..(n + 1)
    OBVIOUS
  <1>2. a2 = SubSeq(a, 1, k)
    BY DEF Front
  <1>3. /\ a2 \in Seq(Blocks) /\ Len(a2) = k - 1 + 1 /\ IsInjective(a2)
        /\ Range(a2) \subseteq Range(a) /\ Range(a2) = {a[i] : i \in 1..k}
    BY ONLY <1>1, <1>2, n = Len(a), PartFacts, a \in Seq(Blocks), IsInjective(a)
  <1> PICK e : e = Last(a)
    OBVIOUS
  <1>4. e = Last(a) /\ e = a[n] /\ e \in Blocks /\ e \in Range(a)
    <2>1. e = a[n]
      BY DEF Last
    <2>2. a[n] \in Blocks /\ a[n] \in Range(a)
      BY ONLY <1>1, a \in Seq(Blocks), n = Len(a) DEF Range
    <2> QED
      BY <2>1, <2>2
  <1>5. e \notin Range(b)
    BY <1>4
  <1>6. e \notin Range(a2)
    <2> SUFFICES ASSUME NEW i \in 1..k, a[i] = a[n] PROVE FALSE
      BY <1>3, <1>4
    <2>1. i \in 1..n /\ i # n
      BY ONLY <1>1, k = n - 1, i \in 1..k
    <2> QED
      BY <2>1, <1>1 DEF IsInjective
  <1>7. /\ b2 \in Seq(Blocks) /\ Len(b2) = Len(b) + 1 /\ Range(b2) = {e} \cup Range(b)
        /\ IsInjective(b2)
    <2>1. b2 = <<e>> \o b /\ e \in Blocks /\ b \in Seq(Blocks)
      BY <1>4
    <2>2. IsInjective(b) /\ e \notin Range(b)
      BY <1>5
    <2>3. b2 \in Seq(Blocks) /\ Len(b2) = Len(b) + 1
      BY ONLY <2>1, Prepend
    <2>4. Range(b2) = {e} \cup Range(b)
      BY ONLY <2>1, PrependRange
    <2>5. IsInjective(b2)
      BY ONLY <2>1, <2>2, Prepend
    <2> QED
      BY <2>3, <2>4, <2>5
  <1>8. Len(a) >= 2 => Head(a) \in Range(a2)
    <2> HAVE Len(a) >= 2
    <2>1. Head(a) = a[1] /\ 1 \in 1..k
      BY <1>1
    <2> QED
      BY <2>1, <1>3
  <1> QED
    BY <1>1, <1>3, <1>4, <1>5, <1>6, <1>7, <1>8 DEF Moved
\* A block moves to the front of its list.
LEMMA ToFront ==
    ASSUME NEW s \in Seq(Blocks), IsInjective(s), NEW b \in Range(s),
           NEW t, t = <<b>> \o RemoveFirst(s, b)
    PROVE  t \in Seq(Blocks) /\ Len(t) = Len(s) /\ IsInjective(t) /\ Range(t) = Range(s)
  <1> PICK r : r = RemoveFirst(s, b)
    OBVIOUS
  <1>1. r \in Seq(Blocks) /\ Len(r) = Len(s) - 1 /\ IsInjective(r) /\ Range(r) = Range(s) \ {b}
    BY RemoveFirstFacts
  <1>2. b \in Blocks /\ Len(s) \in Nat
    BY DEF Range
  <1>3. t = <<b>> \o r /\ b \in Blocks /\ r \in Seq(Blocks)
    BY <1>1, <1>2
  <1>4. IsInjective(r) /\ b \notin Range(r)
    BY <1>1
  <1>5. t \in Seq(Blocks) /\ Len(t) = Len(r) + 1
    BY ONLY <1>3, Prepend
  <1>6. Range(t) = {b} \cup Range(r)
    BY ONLY <1>3, PrependRange
  <1>7. IsInjective(t)
    BY ONLY <1>3, <1>4, Prepend
  <1>8. Len(t) = Len(s)
    BY ONLY <1>1, <1>2, <1>5
  <1> QED
    BY <1>1, <1>5, <1>6, <1>7, <1>8

-----------------------------------------------------------------------------
\* The shard.

Shards == [window : Seq(Blocks), probation : Seq(Blocks), protected : Seq(Blocks),
           cap : Nat, max_window : Nat \ {0}, max_protected : Nat]

\* t is s with other lists.
Relisted(s, t, w, p, q) ==
    t = [window |-> w, probation |-> p, protected |-> q, cap |-> s.cap,
         max_window |-> s.max_window, max_protected |-> s.max_protected]

\* What an operation on the lists leaves alone.
SameLimits(s, t) ==
    t.cap = s.cap /\ t.max_window = s.max_window /\ t.max_protected = s.max_protected

Main(s) == Len(s.probation) + Len(s.protected)

\* A shard that only gets new lists keeps its limits.
LEMMA RelistedFacts ==
    ASSUME NEW s \in Shards, NEW w, NEW p, NEW q, Good(w, p, q), NEW t, Relisted(s, t, w, p, q)
    PROVE  /\ t \in Shards /\ Lists(t) /\ SameLimits(s, t)
           /\ t.window = w /\ t.probation = p /\ t.protected = q
  <1>1. /\ t.window = w /\ t.probation = p /\ t.protected = q /\ SameLimits(s, t)
        /\ t = [window |-> w, probation |-> p, protected |-> q, cap |-> s.cap,
                max_window |-> s.max_window, max_protected |-> s.max_protected]
    BY DEF Relisted, Shards, SameLimits
  <1>2. t \in Shards
    BY <1>1 DEF Shards, Good
  <1> QED
    BY <1>1, <1>2 DEF Lists

\* Lengths are numbers.
LEMMA Lengths ==
    ASSUME NEW s \in Shards
    PROVE  /\ Len(s.window) \in Nat /\ Len(s.probation) \in Nat /\ Len(s.protected) \in Nat
           /\ s.cap \in Nat /\ s.max_window \in Nat \ {0} /\ s.max_protected \in Nat
BY DEF Shards

\* The map holds the window and the main lists.
LEMMA Sizes ==
    ASSUME NEW s \in Shards
    PROVE  /\ Len(s.window) \in Nat /\ Len(s.protected) \in Nat /\ Main(s) \in Nat
           /\ MapSize(s) = Len(s.window) + Main(s) /\ Len(s.protected) <= Main(s)
  <1>1. Len(s.window) \in Nat /\ Len(s.probation) \in Nat /\ Len(s.protected) \in Nat
    BY Lengths
  <1> PICK x, y, z : x = Len(s.window) /\ y = Len(s.probation) /\ z = Len(s.protected)
    OBVIOUS
  <1>2. MapSize(s) = x + y + z /\ Main(s) = y + z
    BY DEF Main, MapSize
  <1>3. x \in Nat /\ y \in Nat /\ z \in Nat
    BY <1>1
  <1>4. y + z \in Nat /\ x + y + z = x + (y + z) /\ z <= y + z
    BY ONLY <1>3
  <1> QED
    BY <1>1, <1>2, <1>4

\* A hit leaves the number of blocks in the window and in the main lists alone, and lets
\* protected grow only up to its limit.
LEMMA HitKeeps ==
    ASSUME NEW s \in Shards, Lists(s), NEW b \in Resident(s), NEW t, t = Hit(s, b)
    PROVE  /\ t \in Shards /\ Lists(t) /\ SameLimits(s, t)
           /\ Len(t.window) = Len(s.window) /\ Main(t) = Main(s)
           /\ Len(t.protected) <= Len(s.protected) \/ Len(t.protected) <= s.max_protected
  <1> PICK w, p, q : w = s.window /\ p = s.probation /\ q = s.protected
    OBVIOUS
  <1>1. Good(w, p, q)
    BY DEF Lists
  <1>2. Len(w) \in Nat /\ Len(p) \in Nat /\ Len(q) \in Nat /\ s.max_protected \in Nat
    BY Lengths
  <1>6. s.window = w /\ s.probation = p /\ s.protected = q /\ s \in Shards /\ t = Hit(s, b)
    OBVIOUS
  <1>3. CASE b \in Range(w)
    <2> PICK v : v = <<b>> \o RemoveFirst(w, b)
      OBVIOUS
    <2>1. v \in Seq(Blocks) /\ Len(v) = Len(w) /\ IsInjective(v) /\ Range(v) = Range(w)
      BY <1>1, <1>3, ToFront DEF Good
    <2>2. Good(v, p, q)
      BY <1>1, <2>1 DEF Good
    <2>5. b \notin Range(p) /\ b \notin Range(q)
      BY <1>1, <1>3 DEF Good
    <2>3. Relisted(s, t, v, p, q)
      BY ONLY <1>3, <1>6, <2>5, v = <<b>> \o RemoveFirst(w, b) DEF Hit, Relisted, Shards
    <2>4. /\ t \in Shards /\ Lists(t) /\ SameLimits(s, t)
          /\ t.window = v /\ t.probation = p /\ t.protected = q
      BY ONLY s \in Shards, <2>2, <2>3, RelistedFacts
    <2> QED
      BY ONLY <1>2, <1>6, <2>1, <2>4 DEF Main
  <1>4. CASE b \notin Range(w) /\ b \in Range(q)
    <2> PICK v : v = <<b>> \o RemoveFirst(q, b)
      OBVIOUS
    <2>1. v \in Seq(Blocks) /\ Len(v) = Len(q) /\ IsInjective(v) /\ Range(v) = Range(q)
      BY <1>1, <1>4, ToFront DEF Good
    <2>2. Good(w, p, v)
      BY <1>1, <2>1 DEF Good
    <2>5. b \notin Range(p)
      BY <1>1, <1>4 DEF Good
    <2>3. Relisted(s, t, w, p, v)
      BY ONLY <1>4, <1>6, <2>5, v = <<b>> \o RemoveFirst(q, b) DEF Hit, Relisted, Shards
    <2>4. /\ t \in Shards /\ Lists(t) /\ SameLimits(s, t)
          /\ t.window = w /\ t.probation = p /\ t.protected = v
      BY ONLY s \in Shards, <2>2, <2>3, RelistedFacts
    <2> QED
      BY ONLY <1>2, <1>6, <2>1, <2>4 DEF Main
  <1>5. CASE b \notin Range(w) /\ b \notin Range(q) /\ b \in Range(p)
    <2> PICK r : r = RemoveFirst(p, b)
      OBVIOUS
    <2> PICK up : up = <<b>> \o q
      OBVIOUS
    <2>1. r \in Seq(Blocks) /\ Len(r) = Len(p) - 1 /\ IsInjective(r) /\ Range(r) = Range(p) \ {b}
      BY <1>1, <1>5, RemoveFirstFacts DEF Good
    <2>2. up = <<b>> \o q /\ b \in Blocks /\ q \in Seq(Blocks)
      BY <1>1, <1>5 DEF Good, Range
    <2>3. IsInjective(q) /\ b \notin Range(q)
      BY <1>1, <1>5 DEF Good
    <2>4. up \in Seq(Blocks) /\ Len(up) = Len(q) + 1
      BY ONLY <2>2, Prepend
    <2>5. Range(up) = {b} \cup Range(q)
      BY ONLY <2>2, PrependRange
    <2>6. IsInjective(up)
      BY ONLY <2>2, <2>3, Prepend
    <2>7. Range(up) \cap Range(r) = {}
      BY <1>1, <2>1, <2>5 DEF Good
    <2>8. CASE Len(up) > s.max_protected
      <3> PICK a2 : a2 = Front(up)
        OBVIOUS
      <3> PICK b2 : b2 = <<Last(up)>> \o r
        OBVIOUS
      <3>1. Len(up) >= 1
        BY <1>2, <2>4
      <3>2. Moved(up, r, a2, b2)
        BY <2>1, <2>4, <2>6, <2>7, <3>1, MoveLast
      <3>3. Good(w, b2, a2)
        BY ONLY <1>1, <1>5, <2>1, <2>5, <3>2 DEF Good, Moved
      <3>4. Relisted(s, t, w, b2, a2)
        BY <1>5, <1>6, <2>8 DEF Hit, Relisted, Shards, Last
      <3>5. /\ t \in Shards /\ Lists(t) /\ SameLimits(s, t)
            /\ t.window = w /\ t.probation = b2 /\ t.protected = a2
        BY ONLY s \in Shards, <3>3, <3>4, RelistedFacts
      <3>6. Len(a2) = Len(q) /\ Len(b2) = Len(p)
        BY ONLY <1>2, <2>1, <2>4, <3>2 DEF Moved
      <3> QED
        BY ONLY <1>2, <1>6, <3>5, <3>6 DEF Main
    <2>9. CASE ~(Len(up) > s.max_protected)
      <3>1. Good(w, r, up)
        BY <1>1, <1>5, <2>1, <2>4, <2>5, <2>6, <2>7 DEF Good
      <3>2. Relisted(s, t, w, r, up)
        BY <1>5, <2>9 DEF Hit, Relisted, Shards
      <3>3. /\ t \in Shards /\ Lists(t) /\ SameLimits(s, t)
            /\ t.window = w /\ t.probation = r /\ t.protected = up
        BY ONLY s \in Shards, <3>1, <3>2, RelistedFacts
      <3> QED
        BY ONLY <1>2, <1>6, <2>1, <2>4, <2>9, <3>3 DEF Main
    <2> QED
      BY <2>8, <2>9
  <1> QED
    BY <1>3, <1>4, <1>5 DEF Resident

\* A new block at the front of the window.
LEMMA PushKeeps ==
    ASSUME NEW s \in Shards, Lists(s), NEW b \in Blocks, b \notin Resident(s),
           NEW t, t = [s EXCEPT !.window = <<b>> \o @]
    PROVE  /\ t \in Shards /\ Lists(t) /\ SameLimits(s, t)
           /\ Len(t.window) = Len(s.window) + 1
           /\ t.probation = s.probation /\ t.protected = s.protected
  <1> PICK w, p, q : w = s.window /\ p = s.probation /\ q = s.protected
    OBVIOUS
  <1> PICK v : v = <<b>> \o w
    OBVIOUS
  <1>1. Good(w, p, q)
    BY DEF Lists
  <1>2. v = <<b>> \o w /\ b \in Blocks /\ w \in Seq(Blocks)
    BY <1>1 DEF Good
  <1>3. IsInjective(w) /\ b \notin Range(w) /\ b \notin Range(p) /\ b \notin Range(q)
    BY <1>1 DEF Good, Resident
  <1>4. v \in Seq(Blocks) /\ Len(v) = Len(w) + 1
    BY ONLY <1>2, Prepend
  <1>5. Range(v) = {b} \cup Range(w)
    BY ONLY <1>2, PrependRange
  <1>6. IsInjective(v)
    BY ONLY <1>2, <1>3, Prepend
  <1>7. Good(v, p, q)
    BY <1>1, <1>3, <1>4, <1>5, <1>6 DEF Good
  <1>8. Relisted(s, t, v, p, q)
    BY DEF Relisted, Shards
  <1>9. /\ t \in Shards /\ Lists(t) /\ SameLimits(s, t)
        /\ t.window = v /\ t.probation = p /\ t.protected = q
    BY ONLY s \in Shards, <1>7, <1>8, RelistedFacts
  <1> QED
    BY <1>4, <1>9

\* Demotion moves the end of protected in front of probation.
LEMMA DemotedKeeps ==
    ASSUME NEW s \in Shards, Lists(s), NEW limit \in Nat, NEW t, t = Demoted(s, limit)
    PROVE  /\ t \in Shards /\ Lists(t) /\ SameLimits(s, t)
           /\ t.window = s.window /\ Main(t) = Main(s) /\ Len(t.protected) <= Len(s.protected)
  <1> PICK w, p, q : w = s.window /\ p = s.probation /\ q = s.protected
    OBVIOUS
  <1>1. Good(w, p, q)
    BY DEF Lists
  <1>2. Len(w) \in Nat /\ Len(p) \in Nat /\ Len(q) \in Nat
    BY Lengths
  <1>6. s.window = w /\ s.probation = p /\ s.protected = q /\ s \in Shards /\ t = Demoted(s, limit)
    OBVIOUS
  <1>3. CASE Len(q) <= limit
    <2>1. t = s
      BY <1>3, <1>6 DEF Demoted
    <2> QED
      BY <1>2, <2>1 DEF SameLimits
  <1>4. CASE ~(Len(q) <= limit)
    <2> PICK a : a = SubSeq(q, 1, limit)
      OBVIOUS
    <2> PICK k : k = limit + 1
      OBVIOUS
    <2> PICK n : n = Len(q)
      OBVIOUS
    <2> PICK b : b = SubSeq(q, k, n)
      OBVIOUS
    <2> PICK v : v = b \o p
      OBVIOUS
    <2>1. /\ 1 \in 1..(Len(q) + 1) /\ limit \in (1 - 1)..Len(q)
          /\ k \in 1..(Len(q) + 1) /\ n \in (k - 1)..Len(q)
      BY <1>2, <1>4
    <2>2. q \in Seq(Blocks) /\ IsInjective(q)
      BY <1>1 DEF Good
    <2>3. /\ a \in Seq(Blocks) /\ Len(a) = limit - 1 + 1 /\ IsInjective(a)
          /\ Range(a) \subseteq Range(q) /\ Range(a) = {q[i] : i \in 1..limit}
      BY ONLY <2>1, <2>2, a = SubSeq(q, 1, limit), PartFacts
    <2>4. /\ b \in Seq(Blocks) /\ Len(b) = n - k + 1 /\ IsInjective(b)
          /\ Range(b) \subseteq Range(q) /\ Range(b) = {q[i] : i \in k..n}
      BY ONLY <2>1, <2>2, b = SubSeq(q, k, n), PartFacts
    <2>5. Range(a) \cap Range(b) = {}
      <3> SUFFICES ASSUME NEW i \in 1..limit, NEW j \in k..n, q[i] = q[j] PROVE FALSE
        BY <2>3, <2>4
      <3>1. i \in 1..Len(q) /\ j \in 1..Len(q) /\ i # j /\ DOMAIN q = 1..Len(q)
        BY ONLY <2>1, <2>2, <1>2, n = Len(q), k = limit + 1, limit \in Nat, i \in 1..limit, j \in k..n
      <3> QED
        BY <3>1, <2>2 DEF IsInjective
    <2>6. p \in Seq(Blocks) /\ IsInjective(p) /\ Range(b) \cap Range(p) = {}
      BY <1>1, <2>4 DEF Good
    <2>7. v \in Seq(Blocks) /\ Len(v) = Len(b) + Len(p) /\ IsInjective(v) /\ Range(v) = Range(b) \cup Range(p)
      BY ONLY <2>4, <2>6, v = b \o p, ConcatInjective
    <2>8. Good(w, v, a)
      BY ONLY <1>1, <2>3, <2>4, <2>5, <2>7 DEF Good
    <2>9. Relisted(s, t, w, v, a)
      BY <1>4, <1>6 DEF Demoted, Relisted, Shards
    <2>10. /\ t \in Shards /\ Lists(t) /\ SameLimits(s, t)
           /\ t.window = w /\ t.probation = v /\ t.protected = a
      BY ONLY s \in Shards, <2>8, <2>9, RelistedFacts
    <2>11. Len(v) + Len(a) = Len(p) + Len(q) /\ Len(a) <= Len(q)
      BY ONLY <1>2, <1>4, <2>1, <2>3, <2>4, <2>7, n = Len(q), k = limit + 1, limit \in Nat
    <2> QED
      BY ONLY <1>6, <2>10, <2>11 DEF Main
  <1> QED
    BY <1>3, <1>4

\* What an admission does: nothing while the window is within its limit, else the window
\* loses its last block, which is not its first.
Admitted(s, t) ==
    /\ t \in Shards /\ Lists(t) /\ SameLimits(s, t) /\ t.protected = s.protected
    /\ IF Len(s.window) <= s.max_window THEN t = s
       ELSE /\ Len(t.window) = Len(s.window) - 1
            /\ Head(s.window) \in Range(t.window)
            /\ Main(t) <= Main(s) \/ Main(t) <= s.cap \/ Main(t) <= Len(s.protected) + 1

\* An admission shortens the window by one and never lets the main lists pass the capacity.
LEMMA AdmitKeeps ==
    ASSUME NEW s \in Shards, Lists(s), NEW admit \in BOOLEAN,
           NEW t, t = admit_one_from_window(s, admit)
    PROVE  Admitted(s, t)
  <1> PICK w, p, q : w = s.window /\ p = s.probation /\ q = s.protected
    OBVIOUS
  <1>1. Good(w, p, q)
    BY DEF Lists
  <1>2. /\ Len(w) \in Nat /\ Len(p) \in Nat /\ Len(q) \in Nat
        /\ s.cap \in Nat /\ s.max_window \in Nat \ {0}
    BY Lengths
  <1>6. /\ s.window = w /\ s.probation = p /\ s.protected = q /\ s \in Shards
        /\ t = admit_one_from_window(s, admit)
    OBVIOUS
  <1>3. CASE Len(w) <= s.max_window
    <2>1. t = s
      BY <1>3, <1>6 DEF admit_one_from_window
    <2> QED
      BY <1>2, <1>3, <2>1 DEF SameLimits, Admitted
  <1>4. CASE ~(Len(w) <= s.max_window)
    <2> PICK a : a = Front(w)
      OBVIOUS
    <2> PICK b : b = <<Last(w)>> \o p
      OBVIOUS
    <2> PICK m : m = [s EXCEPT !.window = Front(@), !.probation = <<Last(s.window)>> \o @]
      OBVIOUS
    <2>1. Len(w) >= 2
      BY <1>2, <1>4
    <2>0. Len(w) >= 1
      BY <1>2, <2>1
    <2>2. Moved(w, p, a, b)
      BY <1>1, <2>0, MoveLast DEF Good
    <2>3. Good(a, b, q) /\ Len(a) = Len(w) - 1 /\ Len(b) = Len(p) + 1 /\ Head(w) \in Range(a)
      BY ONLY <1>1, <2>1, <2>2 DEF Good, Moved
    <2>4. Relisted(s, m, a, b, q)
      BY <1>6 DEF Relisted, Shards
    <2>5. /\ m \in Shards /\ Lists(m) /\ SameLimits(s, m)
          /\ m.window = a /\ m.probation = b /\ m.protected = q
      BY ONLY s \in Shards, <2>3, <2>4, RelistedFacts
    <2>6. t = IF MapSize(m) <= s.cap \/ Len(m.probation) = 1 THEN m
              ELSE IF admit THEN [m EXCEPT !.probation = Front(@)]
                   ELSE [m EXCEPT !.probation = Tail(@)]
      BY ONLY <1>4, <1>6, m = [s EXCEPT !.window = Front(@), !.probation = <<Last(s.window)>> \o @]
         DEF admit_one_from_window
    <2>7. CASE MapSize(m) <= s.cap \/ Len(m.probation) = 1
      <3>1. t = m
        BY <2>6, <2>7
      <3>2. Main(m) <= s.cap \/ Main(m) <= Len(q) + 1
        BY ONLY <1>2, <2>3, <2>5, <2>7 DEF MapSize, Main
      <3> QED
        BY ONLY <1>4, <1>6, <2>3, <2>5, <3>1, <3>2 DEF Admitted
    <2>8. CASE ~(MapSize(m) <= s.cap \/ Len(m.probation) = 1)
      <3> PICK n : n = Len(b)
        OBVIOUS
      <3> PICK c : c = IF admit THEN SubSeq(b, 1, n - 1) ELSE SubSeq(b, 2, n)
        OBVIOUS
      <3>1. b \in Seq(Blocks) /\ IsInjective(b) /\ n \in Nat /\ n >= 1
        BY <1>2, <2>3 DEF Good
      <3>2. t = [m EXCEPT !.probation = c]
        <4>1. b # <<>>
          BY <3>1
        <4>2. Tail(b) = SubSeq(b, 2, n)
          BY ONLY <3>1, <4>1, n = Len(b), TailIsSubSeq
        <4>3. Front(b) = SubSeq(b, 1, n - 1)
          BY DEF Front
        <4> QED
          BY <2>5, <2>6, <2>8, <4>2, <4>3
      <3>3. c \in Seq(Blocks) /\ Len(c) = n - 1 /\ IsInjective(c) /\ Range(c) \subseteq Range(b)
        <4> PICK k : k = n - 1
          OBVIOUS
        <4>1. 1 \in 1..(n + 1) /\ k \in (1 - 1)..n /\ 2 \in 1..(n + 1) /\ n \in (2 - 1)..n
          BY <3>1
        <4>2. CASE admit
          <5>1. c = SubSeq(b, 1, k)
            BY <4>2
          <5>2. c \in Seq(Blocks) /\ Len(c) = k - 1 + 1 /\ IsInjective(c) /\ Range(c) \subseteq Range(b)
            BY ONLY <3>1, <4>1, <5>1, n = Len(b), PartFacts
          <5> QED
            BY <3>1, <5>2
        <4>3. CASE ~admit
          <5>1. c = SubSeq(b, 2, n)
            BY <4>3
          <5>2. c \in Seq(Blocks) /\ Len(c) = n - 2 + 1 /\ IsInjective(c) /\ Range(c) \subseteq Range(b)
            BY ONLY <3>1, <4>1, <5>1, n = Len(b), PartFacts
          <5> QED
            BY <3>1, <5>2
        <4> QED
          BY <4>2, <4>3
      <3>4. Good(a, c, q)
        BY ONLY <2>3, <3>3 DEF Good
      <3>5. Relisted(m, t, a, c, q)
        BY ONLY <2>5, <3>2 DEF Relisted, Shards
      <3>6. /\ t \in Shards /\ Lists(t) /\ SameLimits(m, t)
            /\ t.window = a /\ t.probation = c /\ t.protected = q
        BY ONLY <2>5, <3>4, <3>5, RelistedFacts
      <3>7. SameLimits(s, t)
        BY <2>5, <3>6 DEF SameLimits
      <3>8. Main(t) <= Main(s)
        BY ONLY <1>2, <1>6, <2>3, <3>3, <3>6, n = Len(b) DEF Main
      <3> QED
        BY ONLY <1>4, <1>6, <2>3, <3>6, <3>7, <3>8 DEF Admitted
    <2> QED
      BY <2>7, <2>8
  <1> QED
    BY <1>3, <1>4

\* The first part of a list.
LEMMA FirstPart ==
    ASSUME NEW l \in Seq(Blocks), IsInjective(l), NEW k \in 0..Len(l), NEW t, t = SubSeq(l, 1, k)
    PROVE  t \in Seq(Blocks) /\ Len(t) = k /\ IsInjective(t) /\ Range(t) \subseteq Range(l)
  <1>1. Len(l) \in Nat /\ 1 \in 1..(Len(l) + 1) /\ k \in (1 - 1)..Len(l)
    OBVIOUS
  <1>3. t \in Seq(Blocks) /\ Len(t) = k - 1 + 1 /\ IsInjective(t) /\ Range(t) \subseteq Range(l)
    BY ONLY <1>1, t = SubSeq(l, 1, k), PartFacts, l \in Seq(Blocks), IsInjective(l)
  <1> QED
    BY <1>1, <1>3

\* The evictions of resize: what is left fits the capacity.
LEMMA EvictedKeeps ==
    ASSUME NEW s \in Shards, Lists(s), NEW t, t = Evicted(s)
    PROVE  /\ t \in Shards /\ Lists(t) /\ SameLimits(s, t)
           /\ MapSize(t) <= s.cap /\ Len(t.window) <= Len(s.window)
           /\ Len(t.protected) <= Len(s.protected)
  <1> PICK cap : cap = s.cap
    OBVIOUS
  <1> PICK w, p, q : w = s.window /\ p = s.probation /\ q = s.protected
    OBVIOUS
  <1>1. Good(w, p, q)
    BY DEF Lists
  <1>2. Len(w) \in Nat /\ Len(p) \in Nat /\ Len(q) \in Nat /\ cap \in Nat
    BY Lengths
  <1>6. /\ s.window = w /\ s.probation = p /\ s.protected = q /\ s.cap = cap
        /\ s \in Shards /\ t = Evicted(s)
    OBVIOUS
  <1> PICK x : x = IF MapSize(s) > cap THEN MapSize(s) - cap ELSE 0
    OBVIOUS
  <1> PICK i : i = Least(x, Len(w))
    OBVIOUS
  <1> PICK j : j = Least(x - i, Len(p))
    OBVIOUS
  <1> PICK k : k = x - i - j
    OBVIOUS
  <1>7. /\ x \in Nat /\ Len(w) + Len(p) + Len(q) - x <= cap
        /\ x <= Len(w) + Len(p) + Len(q)
    BY ONLY <1>2, <1>6, x = (IF MapSize(s) > cap THEN MapSize(s) - cap ELSE 0) DEF MapSize
  <1>8. i \in 0..Len(w) /\ j \in 0..Len(p) /\ k \in 0..Len(q) /\ i + j + k = x
    <2> PICK lw, lp, lq : lw = Len(w) /\ lp = Len(p) /\ lq = Len(q)
      OBVIOUS
    <2>1. lw \in Nat /\ lp \in Nat /\ lq \in Nat /\ x \in Nat /\ x <= lw + lp + lq
      BY <1>2, <1>7
    <2>2. i \in 0..lw /\ i <= x /\ (i = lw \/ i = x)
      BY ONLY <2>1, i = Least(x, Len(w)), lw = Len(w) DEF Least
    <2>3. j \in 0..lp /\ j <= x - i /\ (j = lp \/ j = x - i)
      BY ONLY <2>1, <2>2, j = Least(x - i, Len(p)), lp = Len(p) DEF Least
    <2>4. k \in 0..lq /\ i + j + k = x
      BY ONLY <2>1, <2>2, <2>3, k = x - i - j
    <2> QED
      BY <2>2, <2>3, <2>4
  <1> PICK wi : wi = Len(w) - i
    OBVIOUS
  <1> PICK pj : pj = Len(p) - j
    OBVIOUS
  <1> PICK qk : qk = Len(q) - k
    OBVIOUS
  <1> PICK a : a = SubSeq(w, 1, wi)
    OBVIOUS
  <1> PICK b : b = SubSeq(p, 1, pj)
    OBVIOUS
  <1> PICK c : c = SubSeq(q, 1, qk)
    OBVIOUS
  <1>9. w \in Seq(Blocks) /\ IsInjective(w) /\ p \in Seq(Blocks) /\ IsInjective(p) /\ q \in Seq(Blocks) /\ IsInjective(q)
    BY <1>1 DEF Good
  <1>20. wi \in 0..Len(w) /\ pj \in 0..Len(p) /\ qk \in 0..Len(q)
    BY ONLY <1>2, <1>8, wi = Len(w) - i, pj = Len(p) - j, qk = Len(q) - k
  <1>10. a \in Seq(Blocks) /\ Len(a) = wi /\ IsInjective(a) /\ Range(a) \subseteq Range(w)
    BY ONLY <1>20, <1>9, a = SubSeq(w, 1, wi), FirstPart
  <1>11. b \in Seq(Blocks) /\ Len(b) = pj /\ IsInjective(b) /\ Range(b) \subseteq Range(p)
    BY ONLY <1>20, <1>9, b = SubSeq(p, 1, pj), FirstPart
  <1>12. c \in Seq(Blocks) /\ Len(c) = qk /\ IsInjective(c) /\ Range(c) \subseteq Range(q)
    BY ONLY <1>20, <1>9, c = SubSeq(q, 1, qk), FirstPart
  <1>13. Good(a, b, c)
    BY ONLY <1>1, <1>10, <1>11, <1>12 DEF Good
  <1>14. Relisted(s, t, a, b, c)
    BY DEF Evicted, Relisted, Shards
  <1>15. /\ t \in Shards /\ Lists(t) /\ SameLimits(s, t)
         /\ t.window = a /\ t.probation = b /\ t.protected = c
    BY ONLY s \in Shards, <1>13, <1>14, RelistedFacts
  <1>18. Len(a) + Len(b) + Len(c) <= cap /\ Len(a) <= Len(w) /\ Len(c) <= Len(q)
    BY ONLY <1>2, <1>7, <1>8, <1>10, <1>11, <1>12, wi = Len(w) - i, pj = Len(p) - j, qk = Len(q) - k
  <1> QED
    BY <1>6, <1>15, <1>18 DEF MapSize

-----------------------------------------------------------------------------
\* The limits.

\* Four fifths of a number.
LEMMA FourFifths ==
    ASSUME NEW x \in Nat
    PROVE  (x * 80) \div 100 \in Nat /\ (x * 80) \div 100 <= x /\ (x < 2 => (x * 80) \div 100 = 0)
OBVIOUS

\* The constants are numbers.
LEMMA BigNumbers == Wrapped \in Nat /\ MaxCapacity \in Nat
BY SMT DEF Wrapped, MaxCapacity

\* The window limit a capacity starts with.
LEMMA LimitFacts ==
    ASSUME NEW cap \in Nat
    PROVE  /\ DefaultWindow(cap) \in Nat \ {0}
           /\ cap < 3 => DefaultWindow(cap) = 1
           /\ cap >= 3 => DefaultWindow(cap) <= cap - 2
BY DEF DefaultWindow

\* The protected limit, which leaves room for probation unless it wrapped.
LEMMA ProtectedLimit ==
    ASSUME NEW cap \in Nat, NEW w \in Nat \ {0}
    PROVE  /\ MaxProtected(cap, w) \in Nat
           /\ w <= cap => MaxProtected(cap, w) <= cap - 1
           /\ w = 1 /\ cap \in {1, 2} => MaxProtected(cap, w) = 0
  <1>1. CASE cap < w
    BY <1>1, BigNumbers DEF MaxProtected
  <1>2. CASE ~(cap < w)
    <2> PICK x : x = cap - w
      OBVIOUS
    <2>1. x \in Nat /\ MaxProtected(cap, w) = (x * 80) \div 100
      BY <1>2 DEF MaxProtected
    <2> PICK y : y = (x * 80) \div 100
      OBVIOUS
    <2>2. y \in Nat /\ y <= x /\ (x < 2 => y = 0) /\ MaxProtected(cap, w) = y
      BY <2>1, FourFifths
    <2> QED
      BY ONLY <2>1, <2>2, x = cap - w, cap \in Nat, w \in Nat \ {0}
  <1> QED
    BY <1>1, <1>2

\* The capacities of a configuration.
LEMMA CapacityFacts ==
    ASSUME NEW c \in Configs
    PROVE  /\ Capacities(c) \subseteq Nat /\ c.cap \in Capacities(c)
           /\ Largest(c) \in Capacities(c) /\ \A n \in Capacities(c) : n <= Largest(c)
           /\ ~Tiny(c) => Largest(c) >= 3
  <1>1. Capacities(c) \subseteq 0..MaxCapacity /\ c.cap \in Capacities(c) /\ MaxCapacity \in Nat
    BY ConfigsAssumption, BigNumbers DEF Capacities
  <1>2. \E m \in Capacities(c) : \A n \in Capacities(c) : n <= m
    <2>1. Capacities(c) # {}
      BY <1>1
    <2> QED
      BY ONLY <1>1, <2>1, GreatestNat
  <1>3. Largest(c) \in Capacities(c) /\ \A n \in Capacities(c) : n <= Largest(c)
    BY <1>2 DEF Largest
  <1>4. Capacities(c) \subseteq Nat
    BY <1>1
  <1>5. ~Tiny(c) => Largest(c) >= 3
    BY <1>3, <1>4 DEF Tiny
  <1> QED
    BY <1>1, <1>3, <1>4, <1>5

-----------------------------------------------------------------------------
\* The inductive invariant.

Places == Sections \cup {"idle", "ask", "reading", "wait", "reset"}

\* What a thread may be doing in a cache of configuration c.
States(c) ==
    {r \in [at : Places, op : {"none", "insert", "resize"}, arg : Nat, limit : Nat] :
       /\ r.at \in {"wait", "adapt", "spill"} => r.op # "none"
       /\ r.at \in {"resize", "load", "protect", "reset"} => r.op = "resize"
       /\ r.op = "resize" => r.arg \in Capacities(c)}

\* Protected never outgrows the largest limit it is ever given.
ProtectedRoom(c) == IF Tiny(c) THEN 0 ELSE Largest(c) - 1

\* The capacity is one of configuration c's, and the window's limit in proportion.
Within(s, c) == s.cap \in Capacities(c) /\ s.max_window <= WindowRoom(c)

\* A shard of capacity 0 is empty.
Emptied(s) == s.cap = 0 => MapSize(s) = 0

\* The main lists are in proportion, and so is what limits them.
Bounded(s, c) ==
    /\ s.max_protected <= ProtectedRoom(c) \/ s.cap = 0
    /\ Len(s.protected) <= ProtectedRoom(c)
    /\ Main(s) <= MainRoom(s, c)

\* A thread in a write section is alone with the shard.
Exclusive(f) ==
    \A t, u \in Threads : f[t].at \in Sections /\ u # t => f[u].at \notin Sections \cup {"reading"}

Admitting(f) == \E t \in Threads : f[t].at = "admit"

\* A resize has stored the new capacity and not yet evicted.
Shrinks(f) == \E t \in Threads : f[t].at \in Shrinking

\* The window is within its room, or one above it and about to be relieved.
WindowFits(s, c, f) ==
    /\ ~Admitting(f) => Len(s.window) <= WindowRoom(c)
    /\ Admitting(f) => Len(s.window) <= WindowRoom(c) + 1 /\ Len(s.window) >= 1

\* The window's limit that a resize loads: some limit the shard had, and the one that
\* resize stored itself unless other shards climb.
Loaded(s, c, f) ==
    \A t \in Threads :
      /\ f[t].at = "protect" => f[t].limit \in 1..WindowRoom(c)
      /\ ~c.elsewhere /\ f[t].at = "load" => s.max_window = DefaultWindow(s.cap)
      /\ ~c.elsewhere /\ f[t].at = "protect" => f[t].limit = DefaultWindow(s.cap)

Types ==
    /\ config \in Configs /\ shard \in Shards /\ hc_cap \in Capacities(config)
    /\ th \in [Threads -> States(config)] /\ present = TRUE /\ wrapped \in BOOLEAN

\* The proportions of the shard: the main lists' are lost when a protected limit wraps,
\* and wait for the evictions while a resize is under way.
Fits(s, c, f, wr) ==
    /\ Within(s, c)
    /\ ~wr => Len(s.protected) <= ProtectedRoom(c)
    /\ ~Shrinks(f) => Emptied(s) /\ (~wr => Bounded(s, c))

IInv ==
    /\ Types
    /\ Lists(shard)
    /\ Fits(shard, config, th, wrapped)
    /\ Exclusive(th)
    /\ WindowFits(shard, config, th)
    /\ Loaded(shard, config, th)
    /\ wrapped => config.elsewhere

-----------------------------------------------------------------------------
\* Operations keep the proportions.

\* The rooms are numbers, and the main lists have one more place than protected.
LEMMA RoomFacts ==
    ASSUME NEW c \in Configs, NEW s \in Shards, s.cap \in Capacities(c)
    PROVE  /\ WindowRoom(c) \in Nat \ {0} /\ ProtectedRoom(c) \in Nat /\ MainRoom(s, c) \in Nat
           /\ s.cap <= MainRoom(s, c)
           /\ s.cap > 0 => ProtectedRoom(c) + 1 <= MainRoom(s, c)
  <1>1. /\ Capacities(c) \subseteq Nat /\ Largest(c) \in Capacities(c)
        /\ \A n \in Capacities(c) : n <= Largest(c)
        /\ ~Tiny(c) => Largest(c) >= 3
    BY CapacityFacts
  <1>2. Largest(c) \in Nat /\ s.cap \in Nat /\ s.cap <= Largest(c)
    BY <1>1
  <1> QED
    BY ONLY <1>1, <1>2 DEF WindowRoom, ProtectedRoom, MainRoom

\* A hit or a demotion: the blocks only move between the main lists.
LEMMA FitsMoved ==
    ASSUME NEW c \in Configs, NEW s \in Shards, Within(s, c), Emptied(s), NEW t \in Shards, SameLimits(s, t),
           Len(t.window) = Len(s.window), Main(t) = Main(s),
           Len(t.protected) <= Len(s.protected) \/ Len(t.protected) <= s.max_protected
    PROVE  Within(t, c) /\ Emptied(t) /\ (Bounded(s, c) => Bounded(t, c))
  <1>1. /\ Len(s.window) \in Nat /\ Len(s.probation) \in Nat /\ Len(s.protected) \in Nat
        /\ s.cap \in Nat /\ s.max_protected \in Nat
    BY Lengths
  <1>2. Len(t.window) \in Nat /\ Len(t.probation) \in Nat /\ Len(t.protected) \in Nat
    BY Lengths
  <1>3. ProtectedRoom(c) \in Nat
    BY RoomFacts DEF Within
  <1>4. t.cap = s.cap /\ t.max_window = s.max_window /\ t.max_protected = s.max_protected
    BY DEF SameLimits
  <1>5. MapSize(t) = MapSize(s) /\ MainRoom(t, c) = MainRoom(s, c)
    <2>1. MapSize(s) = Len(s.window) + Main(s) /\ MapSize(t) = Len(t.window) + Main(t)
      BY Sizes
    <2> QED
      BY <2>1, <1>4 DEF MainRoom
  <1>6. ASSUME Bounded(s, c) PROVE Bounded(t, c)
    <2>1. CASE s.cap = 0
      <3>1. MapSize(t) = 0
        BY <1>5, <2>1 DEF Emptied
      <3>2. /\ Len(t.window) \in Nat /\ Main(t) \in Nat /\ MapSize(t) = Len(t.window) + Main(t)
            /\ Len(t.protected) <= Main(t)
        BY Sizes
      <3>3. Len(t.protected) <= ProtectedRoom(c)
        BY ONLY <1>2, <1>3, <3>1, <3>2
      <3> QED
        BY <1>4, <1>5, <1>6, <3>3 DEF Bounded
    <2>2. CASE s.cap # 0
      <3>1. Len(t.protected) <= ProtectedRoom(c)
        BY <1>1, <1>2, <1>3, <1>6, <2>2 DEF Bounded
      <3> QED
        BY <1>4, <1>5, <1>6, <3>1 DEF Bounded
    <2> QED
      BY <2>1, <2>2
  <1>7. Within(t, c) /\ Emptied(t)
    BY <1>4, <1>5 DEF Within, Emptied
  <1> QED
    BY <1>6, <1>7

\* An admission.
LEMMA FitsAdmitted ==
    ASSUME NEW c \in Configs, NEW s \in Shards, Within(s, c), Emptied(s), NEW t, Admitted(s, t)
    PROVE  Within(t, c) /\ Emptied(t) /\ (Bounded(s, c) => Bounded(t, c))
  <1>1. CASE Len(s.window) <= s.max_window
    <2>1. t = s
      BY <1>1 DEF Admitted
    <2> QED
      BY <2>1
  <1>2. CASE ~(Len(s.window) <= s.max_window)
    <2>1. /\ Len(s.window) \in Nat /\ Len(s.probation) \in Nat /\ Len(s.protected) \in Nat
          /\ s.cap \in Nat /\ s.max_window \in Nat \ {0}
      BY Lengths
    <2>2. t \in Shards
      BY DEF Admitted
    <2>3. Len(t.window) \in Nat /\ Len(t.probation) \in Nat /\ Len(t.protected) \in Nat
      BY <2>2, Lengths
    <2>4. s.cap # 0
      <3>1. /\ Main(s) \in Nat /\ MapSize(s) = Len(s.window) + Main(s)
        BY Sizes
      <3>2. MapSize(s) # 0
        BY ONLY <1>2, <2>1, <3>1
      <3> QED
        BY <3>2 DEF Emptied
    <2>5. /\ ProtectedRoom(c) \in Nat /\ MainRoom(s, c) \in Nat /\ s.cap <= MainRoom(s, c)
          /\ ProtectedRoom(c) + 1 <= MainRoom(s, c)
      <3>1. s.cap \in Capacities(c) /\ s.cap > 0
        BY <2>1, <2>4 DEF Within
      <3> QED
        BY <3>1, RoomFacts
    <2>6. t.cap = s.cap /\ t.max_window = s.max_window /\ t.max_protected = s.max_protected
      BY DEF Admitted, SameLimits
    <2>7. MainRoom(t, c) = MainRoom(s, c)
      BY <2>6 DEF MainRoom
    <2>8. Main(t) <= Main(s) \/ Main(t) <= s.cap \/ Main(t) <= Len(s.protected) + 1
      BY <1>2 DEF Admitted
    <2>9. t.protected = s.protected
      BY DEF Admitted
    <2>10. ASSUME Bounded(s, c) PROVE Bounded(t, c)
      <3>1. Main(s) \in Nat /\ Main(t) \in Nat
        BY <2>2, Sizes
      <3>2. Main(s) <= MainRoom(s, c) /\ Len(s.protected) <= ProtectedRoom(c)
        BY <2>10 DEF Bounded
      <3>3. Main(t) <= MainRoom(t, c)
        BY ONLY <2>1, <2>5, <2>7, <2>8, <3>1, <3>2
      <3> QED
        BY <2>6, <2>9, <2>10, <3>3 DEF Bounded
    <2>11. Within(t, c) /\ Emptied(t)
      BY <2>4, <2>6 DEF Within, Emptied
    <2> QED
      BY <2>10, <2>11
  <1> QED
    BY <1>1, <1>2

\* A new block in the window.
LEMMA FitsPushed ==
    ASSUME NEW c \in Configs, NEW s \in Shards, Within(s, c), s.cap # 0, NEW t, SameLimits(s, t),
           t.probation = s.probation, t.protected = s.protected
    PROVE  Within(t, c) /\ Emptied(t) /\ (Bounded(s, c) => Bounded(t, c))
  <1>1. t.cap = s.cap /\ t.max_window = s.max_window /\ t.max_protected = s.max_protected
    BY DEF SameLimits
  <1>2. Main(t) = Main(s) /\ MainRoom(t, c) = MainRoom(s, c)
    BY <1>1 DEF Main, MainRoom
  <1> QED
    BY <1>1, <1>2 DEF Within, Emptied, Bounded

\* Lists that fit the capacity, and a protected limit that did not wrap.
LEMMA FitsEvicted ==
    ASSUME NEW c \in Configs, NEW s \in Shards, Within(s, c), NEW w \in 1..WindowRoom(c),
           NEW t \in Shards, t.cap = s.cap, t.max_window = s.max_window,
           t.max_protected = MaxProtected(s.cap, w),
           MapSize(t) <= s.cap, Len(t.protected) <= Len(s.protected)
    PROVE  /\ Within(t, c) /\ Emptied(t)
           /\ Len(s.protected) <= ProtectedRoom(c) /\ (s.cap = 0 \/ w <= s.cap) => Bounded(t, c)
  <1> PICK cap : cap = s.cap
    OBVIOUS
  <1>1. /\ Capacities(c) \subseteq Nat /\ Largest(c) \in Capacities(c) /\ cap \in Capacities(c)
        /\ \A n \in Capacities(c) : n <= Largest(c)
        /\ ~Tiny(c) => Largest(c) >= 3
    BY CapacityFacts DEF Within
  <1>2. Largest(c) \in Nat /\ cap \in Nat /\ cap <= Largest(c) /\ (Tiny(c) => cap < 3)
    BY <1>1 DEF Tiny
  <1>3. Len(t.protected) \in Nat /\ Len(s.protected) \in Nat
    BY Lengths
  <1>4. /\ ProtectedRoom(c) \in Nat /\ MainRoom(t, c) \in Nat /\ cap <= MainRoom(t, c)
        /\ WindowRoom(c) \in Nat \ {0}
    BY <1>1, RoomFacts
  <1>5. Len(t.window) \in Nat /\ Main(t) \in Nat /\ MapSize(t) = Len(t.window) + Main(t)
    BY Sizes
  <1>6. Main(t) <= MainRoom(t, c)
    BY ONLY <1>2, <1>4, <1>5, MapSize(t) <= s.cap, cap = s.cap
  <1>7. Emptied(t)
    BY ONLY <1>2, <1>5, MapSize(t) <= s.cap, t.cap = s.cap, cap = s.cap DEF Emptied
  <1> PICK m : m = MaxProtected(cap, w)
    OBVIOUS
  <1>8. w \in Nat \ {0} /\ (Tiny(c) => w = 1)
    BY <1>4 DEF WindowRoom
  <1>9. m \in Nat /\ (w <= cap => m <= cap - 1) /\ (w = 1 /\ cap \in {1, 2} => m = 0)
    BY <1>2, <1>8, ProtectedLimit
  <1>10. ASSUME Len(s.protected) <= ProtectedRoom(c), cap = 0 \/ w <= cap PROVE Bounded(t, c)
    <2>1. m <= ProtectedRoom(c) \/ cap = 0
      BY ONLY <1>1, <1>2, <1>8, <1>9, <1>10 DEF ProtectedRoom
    <2>2. Len(t.protected) <= ProtectedRoom(c)
      BY ONLY <1>3, <1>4, <1>10, Len(t.protected) <= Len(s.protected)
    <2> QED
      BY <1>6, <2>1, <2>2 DEF Bounded
  <1>11. Within(t, c)
    BY DEF Within
  <1> QED
    BY <1>7, <1>10, <1>11

\* The climber's limits.
Climbed(s, h, x, w, t) ==
    /\ h >= 3 /\ x \in Int /\ w = Clamp(x, 1, h - 2)
    /\ t = [s EXCEPT !.max_window = w, !.max_protected = MaxProtected(h, w)]

\* A climb changes the limits only, within what some capacity of the cache allows.
LEMMA FitsClimbed ==
    ASSUME NEW c \in Configs, NEW s \in Shards, Within(s, c), NEW h \in Capacities(c),
           NEW x, NEW w, NEW t, Climbed(s, h, x, w, t)
    PROVE  /\ t \in Shards /\ Within(t, c) /\ (Emptied(s) => Emptied(t))
           /\ Bounded(s, c) => Bounded(t, c)
           /\ t.window = s.window /\ t.probation = s.probation /\ t.protected = s.protected
  <1> USE DEF Climbed
  <1>1. /\ Capacities(c) \subseteq Nat /\ Largest(c) \in Capacities(c)
        /\ \A n \in Capacities(c) : n <= Largest(c)
    BY CapacityFacts
  <1>2. Largest(c) \in Nat /\ h \in Nat /\ h <= Largest(c)
    BY <1>1
  <1>3. ~Tiny(c)
    BY <1>2 DEF Tiny
  <1>4. w \in 1..(h - 2)
    BY <1>2 DEF Clamp
  <1> PICK m : m = MaxProtected(h, w)
    OBVIOUS
  <1>5. m \in Nat /\ m <= h - 1
    BY <1>2, <1>4, ProtectedLimit
  <1>6. /\ t.window = s.window /\ t.probation = s.probation /\ t.protected = s.protected
        /\ t.cap = s.cap /\ t.max_window = w /\ t.max_protected = m
        /\ t = [window |-> s.window, probation |-> s.probation, protected |-> s.protected,
                cap |-> s.cap, max_window |-> w, max_protected |-> m]
    BY DEF Shards
  <1>7. t \in Shards
    BY <1>4, <1>5, <1>6 DEF Shards
  <1>8. w <= WindowRoom(c) /\ m <= ProtectedRoom(c)
    BY ONLY <1>2, <1>3, <1>4, <1>5 DEF WindowRoom, ProtectedRoom
  <1>9. MapSize(t) = MapSize(s) /\ Main(t) = Main(s) /\ MainRoom(t, c) = MainRoom(s, c)
    BY <1>6 DEF MapSize, Main, MainRoom
  <1> QED
    BY <1>6, <1>7, <1>8, <1>9 DEF Within, Emptied, Bounded

-----------------------------------------------------------------------------
\* Threads.

\* One thread goes on to o.
Moves(t, o) == th' = [th EXCEPT ![t] = o]

\* One thread's step leaves the others where they are.
LEMMA ThreadFacts ==
    ASSUME NEW c, NEW f \in [Threads -> States(c)], NEW t \in Threads, NEW o \in States(c),
           NEW g, g = [f EXCEPT ![t] = o]
    PROVE  /\ g \in [Threads -> States(c)] /\ g[t] = o
           /\ \A u \in Threads \ {t} : g[u] = f[u]
OBVIOUS

\* A thread may go on to o without disturbing the lock.
Allowed(f, t, o) ==
    \/ o.at \notin Sections \cup {"reading"}
    \/ f[t].at \in Sections /\ o.at # "reading"
    \/ \A u \in Threads : f[u].at \notin Sections \cup {"reading"}
    \/ o.at = "reading" /\ \A u \in Threads : f[u].at \notin Sections

\* A step that is allowed to enter a section leaves its writer alone.
LEMMA ExclusiveKept ==
    ASSUME NEW c, NEW f \in [Threads -> States(c)], NEW t \in Threads, NEW o \in States(c),
           NEW g, g = [f EXCEPT ![t] = o], Exclusive(f), Allowed(f, t, o)
    PROVE  Exclusive(g)
  <1>1. g[t] = o /\ \A u \in Threads \ {t} : g[u] = f[u]
    BY ThreadFacts
  <1>0. "reading" \notin Sections
    BY DEF Sections, Shrinking
  <1> SUFFICES ASSUME NEW u \in Threads, NEW v \in Threads, g[u].at \in Sections, v # u
               PROVE  g[v].at \notin Sections \cup {"reading"}
    BY DEF Exclusive
  <1>2. CASE u # t /\ v # t
    BY <1>1, <1>2 DEF Exclusive
  <1>3. CASE u = t
    <2>1. v # t /\ g[v] = f[v] /\ o.at \in Sections /\ o.at # "reading"
      BY <1>0, <1>1, <1>3
    <2> QED
      BY <2>1 DEF Exclusive, Allowed
  <1>4. CASE v = t
    <2>1. u # t /\ g[u] = f[u] /\ g[v] = o /\ f[u].at \in Sections
      BY <1>1, <1>4
    <2>2. f[t].at \notin Sections
      BY <2>1 DEF Exclusive
    <2> QED
      BY <2>1, <2>2 DEF Allowed
  <1> QED
    BY <1>2, <1>3, <1>4

\* A thread in a write section other than admit: nobody is admitting.
LEMMA NotAdmitting ==
    ASSUME NEW f, NEW t \in Threads, Exclusive(f), f[t].at \in Sections, f[t].at # "admit"
    PROVE  ~Admitting(f)
  <1> SUFFICES ASSUME NEW u \in Threads, f[u].at = "admit" PROVE FALSE
    BY DEF Admitting
  <1>1. u # t /\ "admit" \in Sections
    BY DEF Sections
  <1> QED
    BY <1>1 DEF Exclusive

\* A thread that neither leaves nor enters admit.
LEMMA SameAdmitting ==
    ASSUME NEW c, NEW f \in [Threads -> States(c)], NEW t \in Threads, NEW o \in States(c),
           NEW g, g = [f EXCEPT ![t] = o], f[t].at # "admit", o.at # "admit"
    PROVE  Admitting(g) <=> Admitting(f)
  <1>1. g[t] = o /\ \A u \in Threads \ {t} : g[u] = f[u]
    BY ThreadFacts
  <1>2. ASSUME NEW u \in Threads, g[u].at = "admit" PROVE f[u].at = "admit"
    BY <1>1, <1>2
  <1>3. ASSUME NEW u \in Threads, f[u].at = "admit" PROVE g[u].at = "admit"
    BY <1>1, <1>3
  <1> QED
    BY <1>2, <1>3 DEF Admitting

\* A thread in a write section outside a resize's stores: nobody is between them.
LEMMA NotShrinking ==
    ASSUME NEW f, NEW t \in Threads, Exclusive(f), f[t].at \in Sections \ Shrinking
    PROVE  ~Shrinks(f)
  <1> SUFFICES ASSUME NEW u \in Threads, f[u].at \in Shrinking PROVE FALSE
    BY DEF Shrinks
  <1>1. u # t /\ f[u].at \in Sections
    BY DEF Sections
  <1> QED
    BY <1>1 DEF Exclusive

\* A thread that neither leaves nor enters the stores of a resize.
LEMMA SameShrinks ==
    ASSUME NEW c, NEW f \in [Threads -> States(c)], NEW t \in Threads, NEW o \in States(c),
           NEW g, g = [f EXCEPT ![t] = o], f[t].at \notin Shrinking, o.at \notin Shrinking
    PROVE  Shrinks(g) <=> Shrinks(f)
  <1>1. g[t] = o /\ \A u \in Threads \ {t} : g[u] = f[u]
    BY ThreadFacts
  <1>2. ASSUME NEW u \in Threads, g[u].at \in Shrinking PROVE f[u].at \in Shrinking
    BY <1>1, <1>2
  <1>3. ASSUME NEW u \in Threads, f[u].at \in Shrinking PROVE g[u].at \in Shrinking
    BY <1>1, <1>3
  <1> QED
    BY <1>2, <1>3 DEF Shrinks

\* What the thread that holds the write lock finds, outside the stores of a resize.
LEMMA Settled ==
    ASSUME IInv, NEW t \in Threads, th[t].at \in Sections \ Shrinking
    PROVE  /\ shard \in Shards /\ Lists(shard) /\ config \in Configs
           /\ Within(shard, config) /\ Emptied(shard) /\ (~wrapped => Bounded(shard, config))
           /\ ~Shrinks(th)
  <1>1. ~Shrinks(th)
    BY NotShrinking DEF IInv
  <1> QED
    BY <1>1 DEF IInv, Types, Fits

\* A step of one thread that leaves the shard alone.
LEMMA QuietStep ==
    ASSUME IInv, NEW t \in Threads, NEW o \in States(config), Moves(t, o),
           th[t].at \notin Shrinking \cup {"admit"}, o.at \notin Shrinking \cup {"admit"},
           Allowed(th, t, o), config' = config, shard' = shard, present' = present,
           wrapped' = wrapped, hc_cap' \in Capacities(config)
    PROVE  IInv'
  <1>1. th \in [Threads -> States(config)] /\ th' = [th EXCEPT ![t] = o]
    BY DEF IInv, Types, Moves
  <1>2. th' \in [Threads -> States(config)] /\ th'[t] = o /\ \A u \in Threads \ {t} : th'[u] = th[u]
    BY ONLY <1>1, t \in Threads, o \in States(config), ThreadFacts
  <1>3. Exclusive(th')
    BY <1>1, ExclusiveKept DEF IInv
  <1>4. (Admitting(th') <=> Admitting(th)) /\ (Shrinks(th') <=> Shrinks(th))
    <2>1. th[t].at # "admit" /\ o.at # "admit" /\ th[t].at \notin Shrinking /\ o.at \notin Shrinking
      OBVIOUS
    <2>2. t \in Threads /\ o \in States(config)
      OBVIOUS
    <2>3. Admitting(th') <=> Admitting(th)
      BY ONLY <1>1, <2>1, <2>2, SameAdmitting
    <2>4. Shrinks(th') <=> Shrinks(th)
      BY ONLY <1>1, <2>1, <2>2, SameShrinks
    <2> QED
      BY <2>3, <2>4
  <1>5. WindowFits(shard, config, th')
    BY <1>4 DEF IInv, WindowFits
  <1>6. Types'
    BY <1>2 DEF IInv, Types
  <1>7. Fits(shard, config, th', wrapped)
    BY <1>4 DEF IInv, Fits
  <1>8. Loaded(shard, config, th')
    <2> SUFFICES ASSUME NEW u \in Threads
                 PROVE  /\ th'[u].at = "protect" => th'[u].limit \in 1..WindowRoom(config)
                        /\ ~config.elsewhere /\ th'[u].at = "load" => shard.max_window = DefaultWindow(shard.cap)
                        /\ ~config.elsewhere /\ th'[u].at = "protect" => th'[u].limit = DefaultWindow(shard.cap)
      BY DEF Loaded
    <2>1. CASE u = t
      BY <1>2, <2>1 DEF Shrinking
    <2>2. CASE u # t
      BY <1>2, <2>2 DEF IInv, Loaded
    <2> QED
      BY <2>1, <2>2
  <1> QED
    BY <1>3, <1>5, <1>6, <1>7, <1>8 DEF IInv

\* Nobody is between a resize's stores: nothing has been loaded.
LEMMA NothingLoaded ==
    ASSUME NEW s, NEW c, NEW f, ~Shrinks(f)
    PROVE  Loaded(s, c, f)
BY DEF Shrinks, Shrinking, Loaded

\* A step of the thread that holds the write lock, outside admit, on the shard.
LEMMA WriteStep ==
    ASSUME IInv, NEW t \in Threads, NEW o \in States(config), Moves(t, o),
           th[t].at \in Sections \ (Shrinking \cup {"admit"}),
           o.at \notin Shrinking \cup {"admit", "reading"},
           config' = config, present' = present, hc_cap' = hc_cap, wrapped' = wrapped,
           shard' \in Shards, Lists(shard'), Within(shard', config), Emptied(shard'),
           Bounded(shard, config) => Bounded(shard', config),
           Len(shard'.window) <= Len(shard.window)
    PROVE  IInv'
  <1>1. th \in [Threads -> States(config)] /\ th' = [th EXCEPT ![t] = o]
    BY DEF IInv, Types, Moves
  <1>2. th' \in [Threads -> States(config)]
    BY ONLY <1>1, t \in Threads, o \in States(config), ThreadFacts
  <1>3. Exclusive(th')
    <2>1. Allowed(th, t, o)
      BY DEF Allowed
    <2> QED
      BY <1>1, <2>1, ExclusiveKept DEF IInv
  <1>4. ~Admitting(th) /\ ~Shrinks(th)
    <2>1. ~Admitting(th)
      BY NotAdmitting DEF IInv
    <2> QED
      BY <2>1, Settled
  <1>5. ~Admitting(th') /\ ~Shrinks(th')
    <2>1. /\ th[t].at # "admit" /\ o.at # "admit" /\ t \in Threads /\ o \in States(config)
          /\ th[t].at \notin Shrinking /\ o.at \notin Shrinking
      OBVIOUS
    <2>2. Admitting(th') <=> Admitting(th)
      BY ONLY <1>1, <2>1, SameAdmitting
    <2>3. Shrinks(th') <=> Shrinks(th)
      BY ONLY <1>1, <2>1, SameShrinks
    <2> QED
      BY <1>4, <2>2, <2>3
  <1>6. WindowFits(shard', config, th')
    <2>1. Len(shard.window) \in Nat /\ Len(shard'.window) \in Nat
      BY Sizes DEF IInv, Types
    <2>2. WindowRoom(config) \in Nat
      BY RoomFacts DEF IInv, Types, Fits, Within
    <2>3. Len(shard.window) <= WindowRoom(config)
      BY <1>4 DEF IInv, WindowFits
    <2>4. Len(shard'.window) <= WindowRoom(config)
      BY ONLY <2>1, <2>2, <2>3, Len(shard'.window) <= Len(shard.window)
    <2> QED
      BY <1>5, <2>4 DEF WindowFits
  <1>7. Types'
    BY <1>2 DEF IInv, Types
  <1>8. Fits(shard', config, th', wrapped)
    <2>1. ~wrapped => Bounded(shard', config)
      BY Settled
    <2> QED
      BY <2>1 DEF Fits, Bounded
  <1>9. Loaded(shard', config, th')
    BY <1>5, NothingLoaded
  <1> QED
    BY <1>3, <1>6, <1>7, <1>8, <1>9 DEF IInv

-----------------------------------------------------------------------------
\* One lemma for each action.

\* The invariant when a reader asks for the lock ...
LEMMA ReadWaitKeeps ==
    ASSUME IInv, NEW t \in Threads, read_wait(t)
    PROVE  IInv'
  <1> PICK o : o = [Idle EXCEPT !.at = "ask"]
    OBVIOUS
  <1>1. o = [at |-> "ask", op |-> "none", arg |-> 0, limit |-> 0]
    BY DEF Idle
  <1>2. o \in States(config) /\ o.at = "ask"
    BY ONLY <1>1 DEF States, Places
  <1>3. Moves(t, o) /\ th[t].at \notin Shrinking \cup {"admit"} /\ o.at \notin Shrinking \cup {"admit"}
    BY <1>2 DEF read_wait, Go, Moves, Idle, Shrinking
  <1>4. Allowed(th, t, o)
    BY <1>2 DEF Allowed, Sections, Shrinking
  <1>5. /\ config' = config /\ shard' = shard /\ present' = present /\ wrapped' = wrapped
        /\ hc_cap' \in Capacities(config)
    BY DEF read_wait, IInv, Types
  <1> QED
    BY <1>2, <1>3, <1>4, <1>5, QuietStep

\* ... and through ScopedReadLock.
LEMMA ReadLockKeeps ==
    ASSUME IInv, NEW t \in Threads, read_lock(t)
    PROVE  IInv'
  <1> PICK o : o = [Idle EXCEPT !.at = "reading"]
    OBVIOUS
  <1>1. o = [at |-> "reading", op |-> "none", arg |-> 0, limit |-> 0]
    BY DEF Idle
  <1>2. o \in States(config) /\ o.at = "reading"
    BY ONLY <1>1 DEF States, Places
  <1>3. Moves(t, o) /\ th[t].at \notin Shrinking \cup {"admit"} /\ o.at \notin Shrinking \cup {"admit"}
    BY <1>2 DEF read_lock, Go, Moves, Shrinking
  <1>4. Allowed(th, t, o)
    BY <1>2 DEF read_lock, Writers, Allowed
  <1>5. /\ config' = config /\ shard' = shard /\ present' = present /\ wrapped' = wrapped
        /\ hc_cap' \in Capacities(config)
    BY DEF read_lock, IInv, Types
  <1> QED
    BY <1>2, <1>3, <1>4, <1>5, QuietStep

\* Going back to idle is always allowed.
LEMMA IdleFacts ==
    /\ Idle \in States(config) /\ Idle.at = "idle" /\ Idle.at \notin Shrinking \cup {"admit"}
    /\ \A t : Allowed(th, t, Idle)
  <1>1. Idle \in States(config) /\ Idle.at = "idle" /\ Idle.at \notin Shrinking \cup {"admit"}
    BY DEF Idle, States, Places, Shrinking
  <1> QED
    BY <1>1 DEF Allowed, Sections, Shrinking

\* The invariant through a lookup, which changes no list.
LEMMA LookupKeeps ==
    ASSUME IInv, NEW t \in Threads, lookup(t)
    PROVE  IInv'
  <1>1. Moves(t, Idle) /\ th[t].at \notin Shrinking \cup {"admit"}
    BY DEF lookup, Go, Moves, Shrinking
  <1>2. /\ config' = config /\ shard' = shard /\ present' = present /\ wrapped' = wrapped
        /\ hc_cap' \in Capacities(config)
    BY DEF lookup, IInv, Types
  <1>3. Idle \in States(config) /\ Idle.at \notin Shrinking \cup {"admit"} /\ Allowed(th, t, Idle)
    BY IdleFacts
  <1> QED
    BY <1>1, <1>2, <1>3, QuietStep

\* The invariant through an insert that finds its block.
LEMMA InsertHitKeeps ==
    ASSUME IInv, NEW t \in Threads, insert_hit(t)
    PROVE  IInv'
  <1>1. Moves(t, Idle) /\ th[t].at \notin Shrinking \cup {"admit"}
    BY DEF insert_hit, Go, Moves, Shrinking
  <1>2. /\ config' = config /\ shard' = shard /\ present' = present /\ wrapped' = wrapped
        /\ hc_cap' \in Capacities(config)
    BY DEF insert_hit, IInv, Types
  <1>3. Idle \in States(config) /\ Idle.at \notin Shrinking \cup {"admit"} /\ Allowed(th, t, Idle)
    BY IdleFacts
  <1> QED
    BY <1>1, <1>2, <1>3, QuietStep

\* The invariant through the reset of the climber's capacity at the end of a resize.
LEMMA ResizeResetKeeps ==
    ASSUME IInv, NEW t \in Threads, resize_reset(t)
    PROVE  IInv'
  <1>1. Moves(t, Idle) /\ th[t].at \notin Shrinking \cup {"admit"}
    BY DEF resize_reset, Go, Moves, Shrinking
  <1>2. th[t] \in States(config)
    BY DEF IInv, Types
  <1>3. th[t].arg \in Capacities(config)
    BY <1>2 DEF resize_reset, States
  <1>4. /\ config' = config /\ shard' = shard /\ present' = present /\ wrapped' = wrapped
        /\ hc_cap' \in Capacities(config)
    BY <1>3 DEF resize_reset
  <1>5. Idle \in States(config) /\ Idle.at \notin Shrinking \cup {"admit"} /\ Allowed(th, t, Idle)
    BY IdleFacts
  <1> QED
    BY <1>1, <1>4, <1>5, QuietStep

\* The invariant when a writer begins to wait.
LEMMA WriteWaitKeeps ==
    ASSUME IInv, NEW t \in Threads, NEW op, NEW arg, write_wait(t, op, arg),
           (op = "insert" /\ arg = 0) \/ (op = "resize" /\ arg \in Capacities(config))
    PROVE  IInv'
  <1> PICK o : o = [at |-> "wait", op |-> op, arg |-> arg, limit |-> 0]
    OBVIOUS
  <1>1. Capacities(config) \subseteq Nat
    BY CapacityFacts DEF IInv, Types
  <1>2. o \in States(config) /\ o.at = "wait"
    BY <1>1 DEF States, Places
  <1>3. Moves(t, o) /\ th[t].at \notin Shrinking \cup {"admit"} /\ o.at \notin Shrinking \cup {"admit"}
    BY <1>2 DEF write_wait, Go, Moves, Idle, Shrinking
  <1>4. Allowed(th, t, o)
    BY <1>2 DEF Allowed, Sections, Shrinking
  <1>5. /\ config' = config /\ shard' = shard /\ present' = present /\ wrapped' = wrapped
        /\ hc_cap' \in Capacities(config)
    BY DEF write_wait, IInv, Types
  <1> QED
    BY <1>2, <1>3, <1>4, <1>5, QuietStep

\* o is another place for the operation of r.
Placed(c, r, a, n, o) ==
    /\ r \in States(c) /\ a \in Places /\ n \in Nat /\ r.op # "none"
    /\ a \in {"resize", "load", "protect", "reset"} => r.op = "resize"
    /\ o = [r EXCEPT !.at = a, !.limit = n]

\* The state of a thread that goes on inside its operation.
LEMMA PlaceFacts ==
    ASSUME NEW c, NEW r, NEW a, NEW n, NEW o, Placed(c, r, a, n, o)
    PROVE  o \in States(c) /\ o.at = a
  <1> USE DEF Placed
  <1>1. o = [at |-> a, op |-> r.op, arg |-> r.arg, limit |-> n]
    BY DEF States
  <1>2. o.at = a /\ o.op = r.op /\ o.arg = r.arg
    BY ONLY <1>1
  <1>3. o \in [at : Places, op : {"none", "insert", "resize"}, arg : Nat, limit : Nat]
    BY <1>1 DEF States
  <1> QED
    BY <1>2, <1>3 DEF States

\* The invariant through ScopedWriteLock: the writer enters alone.
LEMMA WriteLockKeeps ==
    ASSUME IInv, NEW t \in Threads, write_lock(t)
    PROVE  IInv'
  <1> PICK a : a = IF th[t].op = "insert" THEN "adapt" ELSE "resize"
    OBVIOUS
  <1> PICK o : o = [th[t] EXCEPT !.at = a]
    OBVIOUS
  <1>1. th[t] \in States(config) /\ th[t].at = "wait"
    BY DEF IInv, Types, write_lock
  <1>2. o = [th[t] EXCEPT !.at = a, !.limit = th[t].limit] /\ th[t].limit \in Nat
    BY <1>1 DEF States
  <1>3. th[t].op # "none" /\ (a \in {"resize", "load", "protect", "reset"} => th[t].op = "resize") /\ a \in Places
    BY <1>1 DEF States, Places, Sections, Shrinking
  <1>4. o \in States(config) /\ o.at = a
    <2> PICK r, n : r = th[t] /\ n = th[t].limit
      OBVIOUS
    <2>1. Placed(config, r, a, n, o)
      BY <1>1, <1>2, <1>3 DEF Placed
    <2> QED
      BY ONLY <2>1, PlaceFacts
  <1>5. Moves(t, o) /\ th[t].at \notin Shrinking \cup {"admit"} /\ o.at \notin Shrinking \cup {"admit"}
    BY <1>1, <1>4 DEF write_lock, Go, Moves, Shrinking
  <1>6. Allowed(th, t, o)
    BY DEF write_lock, Readers, Writers, Allowed
  <1>7. /\ config' = config /\ shard' = shard /\ present' = present /\ wrapped' = wrapped
        /\ hc_cap' \in Capacities(config)
    BY DEF write_lock, IInv, Types
  <1> QED
    BY <1>4, <1>5, <1>6, <1>7, QuietStep

\* The invariant at the end of the adaptation loop.
LEMMA SpilledKeeps ==
    ASSUME IInv, NEW t \in Threads, spilled(t)
    PROVE  IInv'
  <1> PICK a : a = IF th[t].op = "insert" THEN "insert" ELSE "reset"
    OBVIOUS
  <1> PICK o : o = [th[t] EXCEPT !.at = a, !.limit = 0]
    OBVIOUS
  <1>1. th[t] \in States(config) /\ th[t].at = "spill"
    BY DEF IInv, Types, spilled
  <1>3. th[t].op # "none" /\ (a \in {"resize", "load", "protect", "reset"} => th[t].op = "resize") /\ a \in Places
    BY <1>1 DEF States, Places, Sections, Shrinking
  <1>4. o \in States(config) /\ o.at = a
    <2> PICK r, n : r = th[t] /\ n = 0
      OBVIOUS
    <2>1. Placed(config, r, a, n, o)
      BY <1>1, <1>3 DEF Placed
    <2> QED
      BY ONLY <2>1, PlaceFacts
  <1>5. /\ Moves(t, o) /\ th[t].at \notin Shrinking \cup {"admit"}
        /\ o.at \notin Shrinking \cup {"admit", "reading"}
    BY <1>1, <1>4 DEF spilled, Go, Moves, Shrinking
  <1>6. Allowed(th, t, o)
    BY <1>1, <1>5 DEF Allowed, Sections
  <1>7. /\ config' = config /\ shard' = shard /\ present' = present /\ wrapped' = wrapped
        /\ hc_cap' \in Capacities(config)
    BY DEF spilled, IInv, Types
  <1> QED
    BY <1>4, <1>5, <1>6, <1>7, QuietStep

\* The invariant through the demotions of maybe_adapt.
LEMMA AdaptKeeps ==
    ASSUME IInv, NEW t \in Threads, adapt(t)
    PROVE  IInv'
  <1> PICK s : s = shard
    OBVIOUS
  <1> PICK x : x = shard'
    OBVIOUS
  <1> PICK r : r = th[t]
    OBVIOUS
  <1> PICK n : n = shard.max_window
    OBVIOUS
  <1> PICK o : o = [r EXCEPT !.at = "spill", !.limit = n]
    OBVIOUS
  <1>0. th[t].at \in Sections \ (Shrinking \cup {"admit"})
    BY DEF adapt, Sections, Shrinking
  <1>1. s \in Shards /\ Lists(s) /\ Within(s, config) /\ Emptied(s) /\ config \in Configs
    BY <1>0, Settled
  <1>2. r \in States(config) /\ r.at = "adapt" /\ n \in Nat
    BY <1>1, Lengths DEF IInv, Types, adapt
  <1>3. r.op # "none" /\ "spill" \in Places
    BY <1>2 DEF States, Places, Sections, Shrinking
  <1>4. o \in States(config) /\ o.at = "spill"
    <2>1. Placed(config, r, "spill", n, o)
      BY <1>2, <1>3 DEF Placed
    <2> QED
      BY ONLY <2>1, PlaceFacts
  <1>5. x = Demoted(s, s.max_protected) /\ s.max_protected \in Nat
    BY <1>1, Lengths DEF adapt
  <1>6. /\ x \in Shards /\ Lists(x) /\ SameLimits(s, x)
        /\ x.window = s.window /\ Main(x) = Main(s) /\ Len(x.protected) <= Len(s.protected)
    BY ONLY <1>1, <1>5, DemotedKeeps
  <1>7. Len(x.window) = Len(s.window)
    BY <1>6
  <1>8. Within(x, config) /\ Emptied(x) /\ (Bounded(s, config) => Bounded(x, config))
    BY ONLY <1>1, <1>6, <1>7, FitsMoved
  <1>9. Len(x.window) <= Len(s.window)
    BY <1>1, <1>7, Sizes
  <1>10. Moves(t, o) /\ o.at \notin Shrinking \cup {"admit", "reading"}
    BY <1>2, <1>4 DEF adapt, Go, Moves, Shrinking
  <1>11. config' = config /\ present' = present /\ hc_cap' = hc_cap /\ wrapped' = wrapped
    BY DEF adapt
  <1> QED
    BY <1>0, <1>4, <1>6, <1>8, <1>9, <1>10, <1>11, WriteStep

\* The invariant through one admission of the adaptation loop.
LEMMA SpillKeeps ==
    ASSUME IInv, NEW t \in Threads, NEW admit \in BOOLEAN, spill(t, admit)
    PROVE  IInv'
  <1> PICK s : s = shard
    OBVIOUS
  <1> PICK x : x = shard'
    OBVIOUS
  <1> PICK o : o = th[t]
    OBVIOUS
  <1>0. th[t].at \in Sections \ (Shrinking \cup {"admit"})
    BY DEF spill, Sections, Shrinking
  <1>1. s \in Shards /\ Lists(s) /\ Within(s, config) /\ Emptied(s) /\ config \in Configs
    BY <1>0, Settled
  <1>2. o \in States(config) /\ o.at = "spill"
    BY DEF IInv, Types, spill
  <1>3. x = admit_one_from_window(s, admit)
    BY DEF spill
  <1>4. Admitted(s, x)
    BY ONLY <1>1, <1>3, admit \in BOOLEAN, AdmitKeeps
  <1>5. Within(x, config) /\ Emptied(x) /\ (Bounded(s, config) => Bounded(x, config))
    BY ONLY <1>1, <1>4, FitsAdmitted
  <1>6. x \in Shards /\ Lists(x) /\ Len(x.window) <= Len(s.window)
    <2>1. Len(s.window) \in Nat
      BY <1>1, Sizes
    <2> QED
      BY <1>4, <2>1 DEF Admitted
  <1>7. Moves(t, o)
    BY DEF spill, Moves, IInv, Types
  <1>8. o.at \notin Shrinking \cup {"admit", "reading"}
    BY <1>2 DEF Shrinking
  <1>9. config' = config /\ present' = present /\ hc_cap' = hc_cap /\ wrapped' = wrapped
    BY DEF spill
  <1> QED
    BY <1>0, <1>2, <1>5, <1>6, <1>7, <1>8, <1>9, WriteStep

\* A resize's thread, alone with the shard, moves between its stores: what is left to show.
LEMMA ResizeStep ==
    ASSUME IInv, NEW t \in Threads, NEW o \in States(config), Moves(t, o),
           th[t].at \in {"resize", "load"}, o.at \in Shrinking,
           config' = config, present' = present, hc_cap' = hc_cap, wrapped' = wrapped,
           shard' \in Shards, Within(shard', config), shard'.window = shard.window,
           shard'.probation = shard.probation, shard'.protected = shard.protected,
           o.at = "protect" => o.limit \in 1..WindowRoom(config),
           ~config.elsewhere /\ o.at = "load" => shard'.max_window = DefaultWindow(shard'.cap),
           ~config.elsewhere /\ o.at = "protect" => o.limit = DefaultWindow(shard'.cap)
    PROVE  IInv'
  <1>1. th \in [Threads -> States(config)] /\ th' = [th EXCEPT ![t] = o]
    BY DEF IInv, Types, Moves
  <1>2. th' \in [Threads -> States(config)] /\ th'[t] = o /\ \A u \in Threads \ {t} : th'[u] = th[u]
    BY ONLY <1>1, t \in Threads, o \in States(config), ThreadFacts
  <1>3. th[t].at \in Sections \ {"admit"} /\ o.at \in Sections \ {"admit"} /\ o.at # "reading"
    BY DEF Sections, Shrinking
  <1>4. Exclusive(th')
    <2>1. Allowed(th, t, o)
      BY <1>3 DEF Allowed
    <2> QED
      BY <1>1, <2>1, ExclusiveKept DEF IInv
  <1>5. ~Admitting(th) /\ ~Admitting(th')
    <2>1. ~Admitting(th)
      BY <1>3, NotAdmitting DEF IInv
    <2>2. ~Admitting(th')
      BY <1>2, <1>3, <1>4, NotAdmitting
    <2> QED
      BY <2>1, <2>2
  <1>6. WindowFits(shard', config, th') /\ Lists(shard')
    BY <1>5 DEF IInv, WindowFits, Lists
  <1>7. Shrinks(th')
    BY <1>2 DEF Shrinks
  <1>8. Fits(shard', config, th', wrapped)
    BY <1>7 DEF IInv, Fits
  <1>9. Types'
    BY <1>2 DEF IInv, Types
  <1>10. Loaded(shard', config, th')
    <2> SUFFICES ASSUME NEW u \in Threads
                 PROVE  /\ th'[u].at = "protect" => th'[u].limit \in 1..WindowRoom(config)
                        /\ ~config.elsewhere /\ th'[u].at = "load" => shard'.max_window = DefaultWindow(shard'.cap)
                        /\ ~config.elsewhere /\ th'[u].at = "protect" => th'[u].limit = DefaultWindow(shard'.cap)
      BY DEF Loaded
    <2>1. CASE u = t
      BY <1>2, <2>1
    <2>2. CASE u # t
      <3>1. th'[u].at \notin Sections
        BY <1>2, <1>3, <1>4, <2>2 DEF Exclusive
      <3> QED
        BY <3>1 DEF Sections, Shrinking
    <2> QED
      BY <2>1, <2>2
  <1> QED
    BY <1>4, <1>6, <1>8, <1>9, <1>10 DEF IInv

\* The invariant through the stores of the new capacity and window.
LEMMA ResizeKeeps ==
    ASSUME IInv, NEW t \in Threads, resize(t)
    PROVE  IInv'
  <1> PICK s : s = shard
    OBVIOUS
  <1> PICK x : x = shard'
    OBVIOUS
  <1> PICK r : r = th[t]
    OBVIOUS
  <1> PICK n : n = r.limit
    OBVIOUS
  <1> PICK cap : cap = r.arg
    OBVIOUS
  <1> PICK w : w = DefaultWindow(cap)
    OBVIOUS
  <1> PICK o : o = [r EXCEPT !.at = "load", !.limit = n]
    OBVIOUS
  <1>1. s \in Shards /\ config \in Configs
    BY DEF IInv, Types
  <1>2. r \in States(config) /\ r.at = "resize"
    BY DEF IInv, Types, resize
  <1>3. r.op = "resize" /\ "load" \in Places /\ n \in Nat /\ cap \in Capacities(config)
    BY <1>2 DEF States, Places, Sections, Shrinking
  <1>4. o \in States(config) /\ o.at = "load"
    <2> PICK a : a = "load"
      OBVIOUS
    <2>1. Placed(config, r, a, n, o)
      BY <1>2, <1>3 DEF Placed
    <2> QED
      BY ONLY <2>1, PlaceFacts, a = "load"
  <1>5. /\ Capacities(config) \subseteq Nat /\ Largest(config) \in Capacities(config)
        /\ \A k \in Capacities(config) : k <= Largest(config)
        /\ ~Tiny(config) => Largest(config) >= 3
    BY <1>1, CapacityFacts
  <1>6. cap \in Nat /\ Largest(config) \in Nat /\ cap <= Largest(config) /\ (Tiny(config) => cap < 3)
    BY <1>3, <1>5 DEF Tiny
  <1>7. w \in Nat \ {0} /\ (cap < 3 => w = 1) /\ (cap >= 3 => w <= cap - 2)
    BY <1>6, LimitFacts
  <1>8. w <= WindowRoom(config)
    BY ONLY <1>5, <1>6, <1>7 DEF WindowRoom
  <1>9. x = [window |-> s.window, probation |-> s.probation, protected |-> s.protected,
             cap |-> cap, max_window |-> w, max_protected |-> s.max_protected]
    BY <1>1 DEF resize, Shards
  <1>10. /\ x.window = s.window /\ x.probation = s.probation /\ x.protected = s.protected
         /\ x.cap = cap /\ x.max_window = w
    BY ONLY <1>9
  <1>11. x \in Shards
    BY <1>1, <1>6, <1>7, <1>9 DEF Shards
  <1>12. Within(x, config)
    BY <1>3, <1>8, <1>10 DEF Within
  <1>13. Moves(t, o)
    <2>1. o = [r EXCEPT !.at = "load"]
      BY <1>2 DEF States
    <2> QED
      BY <2>1 DEF resize, Go, Moves
  <1>14. config' = config /\ present' = present /\ hc_cap' = hc_cap /\ wrapped' = wrapped
    BY DEF resize
  <1>15. th[t].at \in {"resize", "load"} /\ o.at \in Shrinking /\ o.at # "protect"
    BY <1>2, <1>4 DEF Shrinking
  <1>16. x.max_window = DefaultWindow(x.cap)
    BY <1>10
  <1> QED
    BY <1>4, <1>10, <1>11, <1>12, <1>13, <1>14, <1>15, <1>16, ResizeStep

\* The invariant when the window's limit is loaded.
LEMMA ResizeLoadKeeps ==
    ASSUME IInv, NEW t \in Threads, resize_load(t)
    PROVE  IInv'
  <1> PICK r : r = th[t]
    OBVIOUS
  <1> PICK n : n = shard.max_window
    OBVIOUS
  <1> PICK o : o = [r EXCEPT !.at = "protect", !.limit = n]
    OBVIOUS
  <1>1. shard \in Shards /\ config \in Configs /\ Within(shard, config)
    BY DEF IInv, Types, Fits
  <1>2. r \in States(config) /\ r.at = "load"
    BY DEF IInv, Types, resize_load
  <1>3. r.op = "resize" /\ "protect" \in Places /\ n \in Nat \ {0}
    BY <1>1, <1>2, Lengths DEF States, Places, Sections, Shrinking
  <1>4. o \in States(config) /\ o.at = "protect" /\ o.limit = n
    <2> PICK a : a = "protect"
      OBVIOUS
    <2>1. Placed(config, r, a, n, o)
      BY <1>2, <1>3 DEF Placed
    <2>2. o \in States(config) /\ o.at = "protect"
      BY ONLY <2>1, PlaceFacts, a = "protect"
    <2>3. o.limit = n
      BY <1>2 DEF States
    <2> QED
      BY <2>2, <2>3
  <1>5. n \in 1..WindowRoom(config)
    <2>1. WindowRoom(config) \in Nat
      BY <1>1, RoomFacts DEF Within
    <2> QED
      BY <1>1, <1>3, <2>1 DEF Within
  <1>6. Moves(t, o)
    BY DEF resize_load, Go, Moves
  <1>7. /\ config' = config /\ present' = present /\ hc_cap' = hc_cap /\ wrapped' = wrapped
        /\ shard' = shard
    BY DEF resize_load
  <1>8. th[t].at \in {"resize", "load"} /\ o.at \in Shrinking /\ o.at # "load"
    BY <1>2, <1>4 DEF Shrinking
  <1>9. ~config.elsewhere => o.limit = DefaultWindow(shard.cap)
    BY <1>2, <1>4 DEF IInv, Loaded
  <1> QED
    BY <1>1, <1>4, <1>5, <1>6, <1>7, <1>8, <1>9, ResizeStep

\* The invariant through the protected limit and the evictions: the main lists fit again,
\* unless the limit wrapped, which takes a climb of another shard.
LEMMA ResizeProtectKeeps ==
    ASSUME IInv, NEW t \in Threads, resize_protect(t)
    PROVE  IInv'
  <1> PICK s : s = shard
    OBVIOUS
  <1> PICK e : e = Evicted(s)
    OBVIOUS
  <1> PICK x : x = shard'
    OBVIOUS
  <1> PICK r : r = th[t]
    OBVIOUS
  <1> PICK w : w = r.limit
    OBVIOUS
  <1> PICK m : m = MaxProtected(s.cap, w)
    OBVIOUS
  <1> PICK o : o = [r EXCEPT !.at = "adapt", !.limit = 0]
    OBVIOUS
  <1>1. s \in Shards /\ Lists(s) /\ config \in Configs /\ Within(s, config)
    BY DEF IInv, Types, Fits
  <1>2. r \in States(config) /\ r.at = "protect"
    BY DEF IInv, Types, resize_protect
  <1>3. r.op = "resize" /\ "adapt" \in Places
    BY <1>2 DEF States, Places, Sections, Shrinking
  <1>4. o \in States(config) /\ o.at = "adapt"
    <2> PICK a, n : a = "adapt" /\ n = 0
      OBVIOUS
    <2>1. Placed(config, r, a, n, o)
      BY <1>2, <1>3 DEF Placed
    <2> QED
      BY ONLY <2>1, PlaceFacts, a = "adapt"
  <1>5. w \in 1..WindowRoom(config) /\ (~config.elsewhere => w = DefaultWindow(s.cap))
    BY <1>2 DEF IInv, Loaded
  <1>6. /\ e \in Shards /\ Lists(e) /\ SameLimits(s, e)
        /\ MapSize(e) <= s.cap /\ Len(e.window) <= Len(s.window)
        /\ Len(e.protected) <= Len(s.protected)
    BY ONLY <1>1, e = Evicted(s), EvictedKeeps
  <1>7. w \in Nat \ {0} /\ s.cap \in Nat /\ m \in Nat
    <2>1. s.cap \in Nat /\ WindowRoom(config) \in Nat
      BY <1>1, Lengths, RoomFacts DEF Within
    <2>2. w \in Nat \ {0}
      BY <1>5, <2>1
    <2> QED
      BY <2>1, <2>2, ProtectedLimit
  <1>8. x = [window |-> e.window, probation |-> e.probation, protected |-> e.protected,
             cap |-> s.cap, max_window |-> s.max_window, max_protected |-> m]
    <2>1. x = [e EXCEPT !.max_protected = m]
      BY DEF resize_protect
    <2> QED
      BY <1>6, <2>1 DEF Shards, SameLimits
  <1>9. /\ x.window = e.window /\ x.probation = e.probation /\ x.protected = e.protected
        /\ x.cap = s.cap /\ x.max_window = s.max_window /\ x.max_protected = m
    BY ONLY <1>8
  <1>10. x \in Shards
    BY <1>1, <1>6, <1>7, <1>8 DEF Shards
  <1>11. Lists(x) /\ MapSize(x) = MapSize(e)
    BY <1>6, <1>9 DEF Lists, MapSize
  <1>12. MapSize(x) <= s.cap /\ Len(x.window) <= Len(s.window) /\ Len(x.protected) <= Len(s.protected)
    BY <1>6, <1>9, <1>11
  <1>13. /\ Within(x, config) /\ Emptied(x)
         /\ Len(s.protected) <= ProtectedRoom(config) /\ (s.cap = 0 \/ w <= s.cap) => Bounded(x, config)
    <2>1. /\ x.cap = s.cap /\ x.max_window = s.max_window /\ x.max_protected = MaxProtected(s.cap, w)
      BY <1>9
    <2> QED
      BY ONLY <1>1, <1>5, <1>10, <1>12, <2>1, FitsEvicted
  <1>14. wrapped' = (wrapped \/ (s.cap > 0 /\ s.cap < w))
    BY DEF resize_protect
  <1>15. ~wrapped' => ~wrapped /\ (s.cap = 0 \/ w <= s.cap)
    <2>1. ~(s.cap > 0 /\ s.cap < w) => s.cap = 0 \/ w <= s.cap
      BY <1>7
    <2> QED
      BY <1>14, <2>1, Zenon
  <1>16. wrapped' => config.elsewhere
    <2>1. CASE wrapped
      BY <2>1 DEF IInv
    <2>2. CASE s.cap > 0 /\ s.cap < w
      <3> SUFFICES ASSUME ~config.elsewhere PROVE FALSE
        OBVIOUS
      <3> PICK cap : cap = s.cap
        OBVIOUS
      <3>1. w = DefaultWindow(cap) /\ cap \in Nat /\ cap > 0 /\ cap < w
        BY <1>5, <1>7, <2>2
      <3>2. (cap < 3 => w = 1) /\ (cap >= 3 => w <= cap - 2)
        BY <3>1, LimitFacts
      <3> QED
        BY ONLY <3>1, <3>2, <1>7
    <2> QED
      BY <1>14, <2>1, <2>2
  <1>17. th \in [Threads -> States(config)] /\ th' = [th EXCEPT ![t] = o]
    BY DEF IInv, Types, resize_protect, Go
  <1>18. th' \in [Threads -> States(config)] /\ th'[t] = o
    BY ONLY <1>4, <1>17, t \in Threads, ThreadFacts
  <1>19. th[t].at \in Sections \ {"admit"} /\ o.at \in Sections \ Shrinking /\ o.at # "admit" /\ o.at # "reading"
    BY <1>2, <1>4 DEF Sections, Shrinking
  <1>20. Exclusive(th')
    <2>1. Allowed(th, t, o)
      BY <1>19 DEF Allowed
    <2>2. Exclusive(th) /\ t \in Threads
      BY DEF IInv
    <2> QED
      BY ONLY <1>4, <1>17, <2>1, <2>2, ExclusiveKept
  <1>21. ~Admitting(th) /\ ~Admitting(th') /\ ~Shrinks(th')
    <2>1. ~Admitting(th)
      BY <1>19, NotAdmitting DEF IInv
    <2>2. th'[t].at \in Sections /\ th'[t].at # "admit" /\ th'[t].at \in Sections \ Shrinking
      BY <1>18, <1>19
    <2>3. ~Admitting(th')
      BY <1>20, <2>2, NotAdmitting
    <2>4. ~Shrinks(th')
      BY <1>20, <2>2, NotShrinking
    <2> QED
      BY <2>1, <2>3, <2>4
  <1>22. WindowFits(x, config, th')
    <2>1. Len(s.window) \in Nat /\ Len(x.window) \in Nat /\ WindowRoom(config) \in Nat
      BY <1>1, <1>10, Lengths, RoomFacts DEF Within
    <2>2. Len(s.window) <= WindowRoom(config)
      BY <1>21 DEF IInv, WindowFits
    <2>3. Len(x.window) <= WindowRoom(config)
      BY ONLY <1>12, <2>1, <2>2
    <2> QED
      BY <1>21, <2>3 DEF WindowFits
  <1>23. config' = config /\ present' = present /\ hc_cap' = hc_cap
    BY DEF resize_protect
  <1>24. Fits(x, config, th', wrapped')
    <2>1. ~wrapped' => Bounded(x, config)
      <3> SUFFICES ASSUME ~wrapped' PROVE Bounded(x, config)
        OBVIOUS
      <3>1. Len(s.protected) <= ProtectedRoom(config)
        BY <1>15 DEF IInv, Fits
      <3> QED
        BY <1>13, <1>15, <3>1
    <2> QED
      BY <1>13, <2>1 DEF Fits, Bounded
  <1>25. Loaded(x, config, th')
    BY <1>21, NothingLoaded
  <1>26. wrapped' \in BOOLEAN
    BY <1>14 DEF IInv, Types
  <1>27. Types'
    BY <1>10, <1>18, <1>23, <1>26 DEF IInv, Types
  <1> QED
    BY <1>11, <1>16, <1>20, <1>22, <1>23, <1>24, <1>25, <1>27 DEF IInv

\* insert's three cases: a hit, capacity 0, and a new block, which is the one that
\* enters admit.
LEMMA InsertKeeps ==
    ASSUME IInv, NEW t \in Threads, NEW b \in Blocks, insert(t, b)
    PROVE  IInv'
  <1> PICK s : s = shard
    OBVIOUS
  <1> PICK x : x = shard'
    OBVIOUS
  <1> PICK r : r = th[t]
    OBVIOUS
  <1>0. th[t].at \in Sections \ (Shrinking \cup {"admit"})
    BY DEF insert, Sections, Shrinking
  <1>1. s \in Shards /\ Lists(s) /\ Within(s, config) /\ Emptied(s) /\ config \in Configs
    BY <1>0, Settled
  <1>2. r \in States(config) /\ r.at = "insert"
    BY DEF IInv, Types, insert
  <1>3. config' = config /\ present' = present /\ hc_cap' = hc_cap /\ wrapped' = wrapped
    BY DEF insert
  <1>4. ASSUME NEW a \in {"hit", "admit"} PROVE [r EXCEPT !.at = a] \in States(config) /\ [r EXCEPT !.at = a].at = a
    <2> PICK o : o = [r EXCEPT !.at = a]
      OBVIOUS
    <2>1. o = [at |-> a, op |-> r.op, arg |-> r.arg, limit |-> r.limit]
      BY <1>2 DEF States
    <2>2. o.at = a /\ o.op = r.op /\ o.arg = r.arg
      BY ONLY <2>1
    <2>3. o \in [at : Places, op : {"none", "insert", "resize"}, arg : Nat, limit : Nat]
      BY ONLY <2>1, <1>2, a \in {"hit", "admit"} DEF States, Places, Sections, Shrinking
    <2>4. o \in States(config)
      BY ONLY <2>2, <2>3, <1>2, a \in {"hit", "admit"} DEF States
    <2> QED
      BY <2>2, <2>4
  <1>5. CASE b \in Resident(s)
    <2> PICK o : o = [r EXCEPT !.at = "hit"]
      OBVIOUS
    <2>1. o \in States(config) /\ o.at = "hit" /\ Moves(t, o) /\ x = Hit(s, b)
      BY <1>4, <1>5 DEF insert, Go, Moves
    <2>2. /\ x \in Shards /\ Lists(x) /\ SameLimits(s, x)
          /\ Len(x.window) = Len(s.window) /\ Main(x) = Main(s)
          /\ Len(x.protected) <= Len(s.protected) \/ Len(x.protected) <= s.max_protected
      BY ONLY <1>1, <1>5, <2>1, HitKeeps
    <2>3. Within(x, config) /\ Emptied(x) /\ (Bounded(s, config) => Bounded(x, config))
      BY ONLY <1>1, <2>2, FitsMoved
    <2>4. Len(x.window) <= Len(s.window)
      BY <1>1, <2>2, Sizes
    <2>5. o.at \notin Shrinking \cup {"admit", "reading"}
      BY <2>1 DEF Shrinking
    <2> QED
      BY <1>0, <1>2, <1>3, <2>1, <2>2, <2>3, <2>4, <2>5, WriteStep
  <1>6. CASE b \notin Resident(s) /\ s.cap = 0
    <2> PICK o : o = [r EXCEPT !.at = "hit"]
      OBVIOUS
    <2>1. o \in States(config) /\ o.at = "hit" /\ Moves(t, o) /\ x = s
      BY <1>4, <1>6 DEF insert, Go, Moves
    <2>2. Len(x.window) <= Len(s.window)
      BY <1>1, <2>1, Sizes
    <2>5. o.at \notin Shrinking \cup {"admit", "reading"}
      BY <2>1 DEF Shrinking
    <2> QED
      BY <1>0, <1>1, <1>2, <1>3, <2>1, <2>2, <2>5, WriteStep
  <1>7. CASE b \notin Resident(s) /\ s.cap # 0
    <2> PICK o : o = [r EXCEPT !.at = "admit"]
      OBVIOUS
    <2>1. o \in States(config) /\ o.at = "admit" /\ Moves(t, o) /\ x = [s EXCEPT !.window = <<b>> \o @]
      BY <1>4, <1>7 DEF insert, Go, Moves
    <2>2. /\ x \in Shards /\ Lists(x) /\ SameLimits(s, x)
          /\ Len(x.window) = Len(s.window) + 1
          /\ x.probation = s.probation /\ x.protected = s.protected
      BY ONLY <1>1, <1>7, <2>1, b \in Blocks, PushKeeps
    <2>3. Within(x, config) /\ Emptied(x) /\ (Bounded(s, config) => Bounded(x, config))
      BY ONLY <1>1, <1>7, <2>2, FitsPushed
    <2>4. th \in [Threads -> States(config)] /\ th' = [th EXCEPT ![t] = o]
      BY <2>1 DEF IInv, Types, Moves
    <2>5. th' \in [Threads -> States(config)] /\ th'[t] = o
      BY ONLY <2>4, t \in Threads, <2>1, ThreadFacts
    <2>6. Exclusive(th')
      <3>1. Allowed(th, t, o)
        BY <1>0, <2>1 DEF Allowed
      <3> QED
        BY <2>1, <2>4, <3>1, ExclusiveKept DEF IInv
    <2>7. ~Admitting(th)
      BY <1>0, NotAdmitting DEF IInv
    <2>8. Admitting(th')
      BY <2>1, <2>5 DEF Admitting
    <2>9. WindowFits(x, config, th')
      <3>1. Len(s.window) \in Nat /\ WindowRoom(config) \in Nat
        BY <1>1, Sizes, RoomFacts DEF Within
      <3>2. Len(s.window) <= WindowRoom(config)
        BY <2>7 DEF IInv, WindowFits
      <3>3. Len(x.window) <= WindowRoom(config) + 1 /\ Len(x.window) >= 1
        BY ONLY <2>2, <3>1, <3>2
      <3> QED
        BY <2>8, <3>3 DEF WindowFits
    <2>10. Types'
      BY <1>3, <2>2, <2>5 DEF IInv, Types
    <2>11. ~Shrinks(th')
      BY <2>1, <2>5, <2>6, NotShrinking DEF Sections, Shrinking
    <2>12. Fits(x, config, th', wrapped)
      <3>1. ~wrapped => Bounded(x, config)
        BY <1>0, <2>3, Settled
      <3> QED
        BY <2>3, <3>1 DEF Fits, Bounded
    <2>13. Loaded(x, config, th')
      BY <2>11, NothingLoaded
    <2> QED
      BY <1>3, <2>2, <2>6, <2>9, <2>10, <2>12, <2>13 DEF IInv
  <1> QED
    BY <1>5, <1>6, <1>7

\* The invariant through the admission at the end of an insert.
LEMMA InsertAdmitKeeps ==
    ASSUME IInv, NEW t \in Threads, NEW admit \in BOOLEAN, insert_admit(t, admit)
    PROVE  IInv'
  <1> PICK s : s = shard
    OBVIOUS
  <1> PICK x : x = shard'
    OBVIOUS
  <1>0. th[t].at \in Sections \ Shrinking
    BY DEF insert_admit, Sections, Shrinking
  <1>1. s \in Shards /\ Lists(s) /\ Within(s, config) /\ Emptied(s) /\ config \in Configs
    BY <1>0, Settled
  <1>2. th \in [Threads -> States(config)] /\ th[t].at = "admit" /\ th' = [th EXCEPT ![t] = Idle]
    BY DEF IInv, Types, insert_admit, Go
  <1>3. x = admit_one_from_window(s, admit)
    BY DEF insert_admit
  <1>4. Admitted(s, x)
    BY ONLY <1>1, <1>3, admit \in BOOLEAN, AdmitKeeps
  <1>5. Within(x, config) /\ Emptied(x) /\ (Bounded(s, config) => Bounded(x, config))
    BY ONLY <1>1, <1>4, FitsAdmitted
  <1>6. Idle \in States(config) /\ Idle.at = "idle" /\ Allowed(th, t, Idle)
    BY IdleFacts
  <1>7. /\ th' \in [Threads -> States(config)] /\ th'[t] = Idle
        /\ \A u \in Threads \ {t} : th'[u] = th[u]
    BY ONLY <1>2, <1>6, t \in Threads, ThreadFacts
  <1>8. Exclusive(th')
    BY <1>2, <1>6, ExclusiveKept DEF IInv
  <1>9. ~Admitting(th')
    <2> SUFFICES ASSUME NEW u \in Threads, th'[u].at = "admit" PROVE FALSE
      BY DEF Admitting
    <2>1. u # t /\ th[u].at = "admit"
      BY <1>6, <1>7
    <2> QED
      BY <1>0, <1>2, <2>1 DEF IInv, Exclusive
  <1>10. Admitting(th)
    BY <1>2 DEF Admitting
  <1>11. /\ Len(s.window) \in Nat /\ s.max_window \in Nat \ {0} /\ WindowRoom(config) \in Nat
         /\ s.max_window <= WindowRoom(config)
    BY <1>1, Lengths, RoomFacts DEF Within
  <1>12. Len(s.window) <= WindowRoom(config) + 1 /\ Len(s.window) >= 1
    BY <1>10 DEF IInv, WindowFits
  <1>13. Len(x.window) <= WindowRoom(config)
    BY ONLY <1>4, <1>11, <1>12 DEF Admitted
  <1>14. WindowFits(x, config, th')
    BY <1>9, <1>13 DEF WindowFits
  <1>15. Head(s.window) \in Resident(x)
    <2>1. CASE Len(s.window) <= s.max_window
      <3> PICK w : w = s.window
        OBVIOUS
      <3>1. x = s /\ w \in Seq(Blocks)
        BY <1>1, <1>4, <2>1 DEF Admitted, Shards
      <3>2. Head(w) = w[1] /\ 1 \in DOMAIN w
        BY <1>12, <3>1
      <3> QED
        BY <3>1, <3>2 DEF Resident, Range
    <2>2. CASE ~(Len(s.window) <= s.max_window)
      BY <1>4, <2>2 DEF Admitted, Resident
    <2> QED
      BY <2>1, <2>2
  <1>16. present' = TRUE
    BY <1>15 DEF insert_admit
  <1>17. x \in Shards /\ Lists(x) /\ config' = config /\ hc_cap' = hc_cap /\ wrapped' = wrapped
    BY <1>4 DEF Admitted, insert_admit
  <1>18. Types'
    BY <1>7, <1>16, <1>17 DEF IInv, Types
  <1>19. ~Shrinks(th')
    <2>1. ~Shrinks(th) /\ Idle.at \notin Shrinking /\ th[t].at \notin Shrinking
      BY <1>0, Settled, IdleFacts
    <2> QED
      BY ONLY <1>2, <1>6, <2>1, t \in Threads, SameShrinks
  <1>20. Fits(x, config, th', wrapped)
    <2>1. ~wrapped => Bounded(x, config)
      BY <1>0, <1>5, Settled
    <2> QED
      BY <1>5, <2>1 DEF Fits, Bounded
  <1>21. Loaded(x, config, th')
    BY <1>19, NothingLoaded
  <1> QED
    BY <1>8, <1>14, <1>17, <1>18, <1>20, <1>21 DEF IInv

\* The invariant through a climb, which takes no lock.
LEMMA ClimbKeeps ==
    ASSUME IInv, NEW amount \in Int, climb(amount)
    PROVE  IInv'
  <1> PICK s : s = shard
    OBVIOUS
  <1> PICK x : x = shard'
    OBVIOUS
  <1> PICK y : y = s.max_window + amount
    OBVIOUS
  <1> PICK w : w = Clamp(y, 1, hc_cap - 2)
    OBVIOUS
  <1>1. s \in Shards /\ Lists(s) /\ Within(s, config) /\ config \in Configs
    BY DEF IInv, Types, Fits
  <1>2. hc_cap \in Capacities(config) /\ hc_cap >= 3 /\ y \in Int
    BY <1>1, Lengths DEF IInv, Types, climb
  <1>3. x = [s EXCEPT !.max_window = w, !.max_protected = MaxProtected(hc_cap, w)]
    BY DEF climb
  <1>4. /\ x \in Shards /\ Within(x, config) /\ (Emptied(s) => Emptied(x))
        /\ Bounded(s, config) => Bounded(x, config)
        /\ x.window = s.window /\ x.probation = s.probation /\ x.protected = s.protected
    <2>1. Climbed(s, hc_cap, y, w, x)
      BY <1>2, <1>3 DEF Climbed
    <2> QED
      BY ONLY <1>1, <1>2, <2>1, FitsClimbed
  <1>5. /\ config' = config /\ hc_cap' = hc_cap /\ th' = th /\ present' = present
        /\ wrapped' = wrapped
    BY DEF climb
  <1>6. Lists(x) /\ WindowFits(x, config, th)
    BY <1>1, <1>4 DEF IInv, Lists, WindowFits
  <1>7. Fits(x, config, th, wrapped)
    BY <1>4 DEF IInv, Fits
  <1>8. Loaded(x, config, th)
    <2>1. CASE config.elsewhere
      BY <2>1 DEF IInv, Loaded
    <2>2. CASE ~config.elsewhere
      <3>1. PICK u \in Threads : th[u].at \in {"reading", "admit", "hit"}
        BY <2>2 DEF climb
      <3>2. ~Shrinks(th)
        <4> SUFFICES ASSUME NEW v \in Threads, th[v].at \in Shrinking PROVE FALSE
          BY DEF Shrinks
        <4>1. th[v].at \in Sections /\ u # v /\ th[u].at \in Sections \cup {"reading"}
          BY <3>1 DEF Sections, Shrinking
        <4> QED
          BY <4>1 DEF IInv, Exclusive
      <3> QED
        BY <3>2, NothingLoaded
    <2> QED
      BY <2>1, <2>2
  <1> QED
    BY <1>4, <1>5, <1>6, <1>7, <1>8 DEF IInv, Types

-----------------------------------------------------------------------------
\* The invariant holds at the start ...
LEMMA InitHolds == Init => IInv
  <1> SUFFICES ASSUME Init PROVE IInv
    OBVIOUS
  <1> PICK cap : cap = config.cap
    OBVIOUS
  <1> PICK w : w = DefaultWindow(cap)
    OBVIOUS
  <1> PICK m : m = MaxProtected(cap, w)
    OBVIOUS
  <1>0. config \in Configs
    BY DEF Init
  <1>1. /\ Capacities(config) \subseteq Nat /\ cap \in Capacities(config)
        /\ Largest(config) \in Capacities(config) /\ \A n \in Capacities(config) : n <= Largest(config)
        /\ ~Tiny(config) => Largest(config) >= 3
    BY <1>0, CapacityFacts
  <1>2. cap \in Nat /\ Largest(config) \in Nat /\ cap <= Largest(config) /\ (Tiny(config) => cap < 3)
    BY <1>1 DEF Tiny
  <1>3. w \in Nat \ {0} /\ (cap < 3 => w = 1) /\ (cap >= 3 => w <= cap - 2)
    BY <1>2, LimitFacts
  <1>4. m \in Nat /\ (w <= cap => m <= cap - 1) /\ (w = 1 /\ cap \in {1, 2} => m = 0)
    BY <1>2, <1>3, ProtectedLimit
  <1>5. shard = [window |-> <<>>, probation |-> <<>>, protected |-> <<>>, cap |-> cap,
                 max_window |-> w, max_protected |-> m]
    BY DEF Init, Shard
  <1>6. /\ shard.window = <<>> /\ shard.probation = <<>> /\ shard.protected = <<>>
        /\ shard.cap = cap /\ shard.max_window = w /\ shard.max_protected = m
    BY ONLY <1>5
  <1>7. shard \in Shards
    BY <1>2, <1>3, <1>4, <1>5 DEF Shards
  <1>8. Lists(shard)
    BY <1>6 DEF Lists, Good, IsInjective, Range
  <1>9. MapSize(shard) = 0 /\ Main(shard) = 0 /\ Len(shard.protected) = 0 /\ Len(shard.window) = 0
    BY <1>6 DEF MapSize, Main
  <1>10. WindowRoom(config) \in Nat \ {0} /\ ProtectedRoom(config) \in Nat /\ MainRoom(shard, config) \in Nat
    BY <1>0, <1>1, <1>6, <1>7, RoomFacts
  <1>11. w <= WindowRoom(config)
    BY ONLY <1>1, <1>2, <1>3 DEF WindowRoom
  <1>12. m <= ProtectedRoom(config) \/ cap = 0
    BY ONLY <1>1, <1>2, <1>3, <1>4 DEF ProtectedRoom
  <1>13. Within(shard, config) /\ Emptied(shard) /\ Bounded(shard, config)
    BY ONLY <1>1, <1>6, <1>9, <1>10, <1>11, <1>12 DEF Within, Emptied, Bounded
  <1>14. th \in [Threads -> States(config)] /\ \A t \in Threads : th[t].at = "idle"
    BY IdleFacts DEF Init
  <1>15. Exclusive(th) /\ ~Admitting(th) /\ ~Shrinks(th)
    BY <1>14 DEF Exclusive, Admitting, Shrinks, Sections, Shrinking
  <1>16. WindowFits(shard, config, th)
    BY ONLY <1>9, <1>10, <1>15 DEF WindowFits
  <1>17. Types
    BY <1>0, <1>1, <1>7, <1>14 DEF Types, Init
  <1>18. Fits(shard, config, th, wrapped)
    BY <1>13 DEF Fits, Bounded
  <1>19. Loaded(shard, config, th)
    BY <1>15, NothingLoaded
  <1>20. ~wrapped
    BY DEF Init
  <1> QED
    BY <1>8, <1>15, <1>16, <1>17, <1>18, <1>19, <1>20 DEF IInv

\* ... and every step keeps it.
LEMMA StepHolds ==
    ASSUME IInv, [Next]_vars
    PROVE  IInv'
  <1>1. CASE UNCHANGED vars
    BY <1>1 DEF vars, IInv, Types
  <1>2. CASE Next
    <2>0. config.threads \subseteq Threads
      BY ConfigsAssumption DEF IInv, Types
    <2>1. ASSUME NEW t \in Threads, NEW cap \in config.sizes, write_wait(t, "resize", cap) PROVE IInv'
      <3>1. cap \in Capacities(config)
        BY DEF Capacities
      <3> QED
        BY <2>1, <3>1, WriteWaitKeeps
    <2>2. ASSUME NEW t \in Threads, write_wait(t, "insert", 0) PROVE IInv'
      <3> PICK op, arg : op = "insert" /\ arg = 0
        OBVIOUS
      <3>1. write_wait(t, op, arg)
        BY <2>2
      <3>2. (op = "insert" /\ arg = 0) \/ (op = "resize" /\ arg \in Capacities(config))
        OBVIOUS
      <3> QED
        BY ONLY IInv, t \in Threads, <3>1, <3>2, WriteWaitKeeps
    <2>3. ASSUME NEW t \in Threads, Locked(t) PROVE IInv'
      BY <2>3, LookupKeeps, AdaptKeeps, SpillKeeps, SpilledKeeps, InsertKeeps, InsertAdmitKeeps,
         InsertHitKeeps, ResizeKeeps, ResizeLoadKeeps, ResizeProtectKeeps, ResizeResetKeeps DEF Locked
    <2>4. ASSUME NEW amount \in -StepSize(hc_cap) .. StepSize(hc_cap), climb(amount) PROVE IInv'
      BY <2>4, ClimbKeeps
    <2> QED
      BY <1>2, <2>0, <2>1, <2>2, <2>3, <2>4, ReadWaitKeeps, ReadLockKeeps, WriteLockKeeps DEF Next
  <1> QED
    BY <1>1, <1>2

\* IInv is inductive.
LEMMA Inductive == Spec => []IInv
  <1>1. Init => IInv
    BY InitHolds
  <1>2. IInv /\ [Next]_vars => IInv'
    BY StepHolds
  <1> QED
    BY <1>1, <1>2, PTL DEF Spec

(***************************************************************************)
(* No entry is lost or linked twice by promotion, demotion, admission,     *)
(* eviction or resize, and the block an insert has stored is still there   *)
(* when insert looks it up again: for every number of threads and blocks,  *)
(* every capacity and every sequence of resizes and climbs.                *)
(***************************************************************************)
THEOREM EntriesStaySound == Spec => []EntriesSound
  <1>1. IInv => EntriesSound
    <2> SUFFICES ASSUME IInv PROVE EntriesSound
      OBVIOUS
    <2> PICK w, p, q : w = shard.window /\ p = shard.probation /\ q = shard.protected
      OBVIOUS
    <2> PICK v : v = w \o p
      OBVIOUS
    <2> PICK u : u = v \o q
      OBVIOUS
    <2>1. Good(w, p, q)
      BY DEF IInv, Lists
    <2>2. w \in Seq(Blocks) /\ p \in Seq(Blocks) /\ IsInjective(w) /\ IsInjective(p) /\ Range(w) \cap Range(p) = {}
      BY <2>1 DEF Good
    <2>3. v \in Seq(Blocks) /\ IsInjective(v) /\ Range(v) = Range(w) \cup Range(p)
      BY ONLY <2>2, v = w \o p, ConcatInjective
    <2>4. q \in Seq(Blocks) /\ IsInjective(q) /\ Range(v) \cap Range(q) = {}
      BY <2>1, <2>3 DEF Good
    <2>5. IsInjective(u)
      BY ONLY <2>3, <2>4, u = v \o q, ConcatInjective
    <2>6. shard.window \o shard.probation \o shard.protected = u
      OBVIOUS
    <2> QED
      BY <2>5, <2>6 DEF IInv, Types, EntriesSound
  <1> QED
    BY <1>1, Inductive, PTL

(***************************************************************************)
(* The memory of a shard is bounded: the window by the largest limit the   *)
(* climber can give it, always, and the main lists by the capacity, unless *)
(* a resize loaded a window limit above its new capacity, which needs a    *)
(* climb of another shard between two of resize's stores.                  *)
(***************************************************************************)
THEOREM CapacityIsHeld == Spec => []CapacityHeld
  <1>1. IInv => CapacityHeld
    <2> SUFFICES ASSUME IInv PROVE CapacityHeld
      OBVIOUS
    <2>1. ~wrapped /\ ~Shrinks(th) =>
            Len(shard.probation) + Len(shard.protected) <= MainRoom(shard, config)
      BY DEF IInv, Fits, Bounded, Main
    <2>2. WindowRoom(config) \in Nat
      BY RoomFacts DEF IInv, Types, Fits, Within
    <2>3. (\A t \in Threads : th[t].at \notin Shrinking) => ~Shrinks(th)
      BY DEF Shrinks
    <2>4. wrapped => config.elsewhere
      BY DEF IInv
    <2>5. CASE Admitting(th)
      BY <2>1, <2>2, <2>3, <2>4, <2>5 DEF IInv, WindowFits, Admitting, CapacityHeld
    <2>6. CASE ~Admitting(th)
      <3>1. ~(\E t \in Threads : th[t].at = "admit")
        BY <2>6 DEF Admitting
      <3>2. Len(shard.window) \in Nat /\ Len(shard.window) <= WindowRoom(config)
        BY <2>6, Sizes DEF IInv, Types, WindowFits
      <3>3. Len(shard.window) <= WindowRoom(config) + 0
        BY ONLY <2>2, <3>2
      <3> QED
        BY <2>1, <2>3, <2>4, <3>1, <3>3 DEF CapacityHeld
    <2> QED
      BY <2>5, <2>6
  <1> QED
    BY <1>1, Inductive, PTL
=============================================================================
