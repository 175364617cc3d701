---------------------------- MODULE CommonLemmas ----------------------------
(***************************************************************************)
(* Facts about naturals, sequences and iterated steps that the proofs of   *)
(* several components use.  Induction is stated for sets, not for          *)
(* predicates: a set is an ordinary variable, which every prover can       *)
(* instantiate.                                                            *)
(***************************************************************************)
EXTENDS Integers, Sequences, FiniteSets, SequencesExt,
        FiniteSetTheorems, SequenceTheorems, WellFoundedInduction, TLAPS

\* A set that holds 0 and, with every number, the next one, holds all of them.
LEMMA NatSetInduction ==
    ASSUME NEW T, 0 \in T, \A n \in Nat : n \in T => n + 1 \in T
    PROVE  \A n \in Nat : n \in T
<1> DEFINE R == OpToRel(<, Nat)
           B == Nat \ T
<1>1. R = {ss \in Nat \X Nat : ss[1] < ss[2]}
  BY DEF OpToRel
<1>2. IsWellFoundedOn(R, Nat)
  BY NatLessThanWellFounded
<1> HIDE DEF R
<1>3. SUFFICES ASSUME B # {} PROVE FALSE
  OBVIOUS
<1>4. PICK x \in B : \A y \in B : ~ (<<y, x>> \in R)
  <2>1. B \subseteq Nat
    OBVIOUS
  <2> HIDE DEF B
  <2>2. QED
    BY <1>2, <1>3, <2>1, WFMin
<1>5. x - 1 \in Nat /\ x - 1 < x
  BY <1>4
<1>6. <<x - 1, x>> \in R
  BY <1>5, <1>1
<1>7. x - 1 \notin B
  BY <1>4, <1>6
<1>8. QED
  BY <1>5, <1>7

\* A nonempty set of naturals has a least element.
LEMMA LeastNat ==
    ASSUME NEW S, S \subseteq Nat, S # {}
    PROVE  \E m \in S : \A k \in S : m <= k
<1>1. SUFFICES ASSUME \A m \in S : \E k \in S : k < m PROVE FALSE
  OBVIOUS
<1> DEFINE T == {n \in Nat : \A k \in 0..n : k \notin S}
<1>2. 0 \in T
  BY <1>1
<1>3. ASSUME NEW n \in Nat, n \in T PROVE n + 1 \in T
  BY <1>1, <1>3
<1> HIDE DEF T
<1>4. \A n \in Nat : n \in T
  BY <1>2, <1>3, NatSetInduction
<1>5. PICK k \in S : TRUE
  OBVIOUS
<1>6. k \in T /\ k \in 0..k
  BY <1>4
<1>7. QED
  BY <1>5, <1>6 DEF T

\* A nonempty set of naturals with a bound has a greatest element.
LEMMA GreatestNat ==
    ASSUME NEW N \in Nat, NEW S, S \subseteq 0..N, S # {}
    PROVE  \E m \in S : \A k \in S : k <= m
<1> DEFINE D == {d \in Nat : N - d \in S}
<1>1. D \subseteq Nat /\ D # {}
  <2>1. PICK k \in S : TRUE
    OBVIOUS
  <2>2. N - k \in D
    BY <2>1
  <2>3. QED
    BY <2>2
<1>2. PICK d \in D : \A e \in D : d <= e
  <2> HIDE DEF D
  <2>1. QED
    BY <1>1, LeastNat
<1>3. \A k \in S : N - k \in D
  OBVIOUS
<1>4. ASSUME NEW k \in S PROVE k <= N - d
  <2>1. d <= N - k /\ k \in Nat /\ d \in Nat
    BY <1>2, <1>3
  <2>2. QED
    BY <2>1
<1>5. QED
  BY <1>2, <1>4

\* The longest prefix of 1..N inside a set.
LEMMA LongestPrefix ==
    ASSUME NEW N \in Nat, NEW D
    PROVE  \E n \in 0..N : (\A i \in 1..n : i \in D) /\ (n = N \/ n + 1 \notin D)
<1> DEFINE P == {n \in 0..N : \A i \in 1..n : i \in D}
<1>1. 0 \in P
  OBVIOUS
<1>2. PICK n \in P : \A k \in P : k <= n
  <2>1. P \subseteq 0..N /\ P # {}
    BY <1>1
  <2> HIDE DEF P
  <2>2. QED
    BY <2>1, GreatestNat
<1>3. ASSUME n # N, n + 1 \in D PROVE FALSE
  <2>1. n + 1 \in P
    BY <1>2, <1>3
  <2>2. QED
    BY <1>2, <2>1
<1>4. QED
  BY <1>2, <1>3

\* A sequence without repetitions is as long as its range is large.
LEMMA InjectiveLength ==
    ASSUME NEW n \in Nat, NEW f, NEW S, f \in [1..n -> S], \A x \in S : \E i \in 1..n : x = f[i],
           \A i, j \in 1..n : f[i] = f[j] => i = j
    PROVE  IsFiniteSet(S) /\ Cardinality(S) = n
<1>1. f \in Bijection(1..n, S)
  BY DEF Bijection, Injection, Surjection, IsInjective
<1>2. ExistsBijection(1..n, S)
  BY <1>1 DEF ExistsBijection
<1>3. QED
  BY <1>2, FS_CountingElements, FS_NatBijection

\* The elements of a sequence, an element and a sequence put together.
LEMMA ConcatThree ==
    ASSUME NEW S, NEW a \in Seq(S), NEW e \in S, NEW b \in Seq(S)
    PROVE  /\ a \o <<e>> \o b \in Seq(S)
           /\ Len(a \o <<e>> \o b) = Len(a) + 1 + Len(b)
           /\ \A i \in 1..Len(a) : (a \o <<e>> \o b)[i] = a[i]
           /\ (a \o <<e>> \o b)[Len(a) + 1] = e
           /\ \A i \in 1..Len(b) : (a \o <<e>> \o b)[Len(a) + 1 + i] = b[i]
<1> DEFINE c == a \o <<e>>
<1>1. Len(a) \in Nat /\ Len(b) \in Nat
  BY LenProperties
<1>2. c \in Seq(S) /\ Len(c) = Len(a) + 1 /\ c[Len(a) + 1] = e /\ \A i \in 1..Len(a) : c[i] = a[i]
  BY <1>1
<1> HIDE DEF c
<1>3. /\ c \o b \in Seq(S) /\ Len(c \o b) = Len(c) + Len(b)
      /\ \A i \in 1..(Len(c) + Len(b)) : (c \o b)[i] = IF i <= Len(c) THEN c[i] ELSE b[i - Len(c)]
  BY <1>2, ConcatProperties
<1> DEFINE t == c \o b
<1> HIDE DEF t
<1>4. /\ t \in Seq(S) /\ Len(t) = Len(a) + 1 + Len(b)
      /\ \A i \in 1..(Len(a) + 1 + Len(b)) : t[i] = IF i <= Len(a) + 1 THEN c[i] ELSE b[i - (Len(a) + 1)]
  BY <1>1, <1>2, <1>3 DEF t
<1>5. /\ \A i \in 1..Len(a) : t[i] = a[i]
      /\ t[Len(a) + 1] = e
  BY <1>1, <1>2, <1>4
<1>6. ASSUME NEW i \in 1..Len(b) PROVE t[Len(a) + 1 + i] = b[i]
  <2>1. Len(a) + 1 + i \in 1..(Len(a) + 1 + Len(b)) /\ ~(Len(a) + 1 + i <= Len(a) + 1)
        /\ (Len(a) + 1 + i) - (Len(a) + 1) = i
    BY <1>1
  <2>2. QED
    BY <2>1, <1>4
<1>7. QED
  BY <1>4, <1>5, <1>6 DEF t, c

\* A part of a sequence.
LEMMA SeqPart ==
    ASSUME NEW S, NEW s \in Seq(S), NEW m \in 1..(Len(s) + 1), NEW n \in (m - 1)..Len(s)
    PROVE  /\ SubSeq(s, m, n) \in Seq(S) /\ Len(SubSeq(s, m, n)) = n - m + 1
           /\ \A i \in 1..(n - m + 1) : SubSeq(s, m, n)[i] = s[m + i - 1]
<1>1. Len(s) \in Nat /\ \A i \in 1..Len(s) : s[i] \in S
  BY LenProperties
<1>2. m \in Int /\ n \in Int /\ \A i \in m..n : s[i] \in S
  BY <1>1
<1>3. QED
  BY <1>1, <1>2, SubSeqProperties

\* t is s with e put in after its first n elements.
InsertedAt(t, s, n, e) ==
    /\ Len(t) = Len(s) + 1
    /\ \A i \in 1..n : t[i] = s[i]
    /\ t[n + 1] = e
    /\ \A i \in (n + 1)..Len(s) : t[i + 1] = s[i]

\* The elements of a sequence with one put in after the first n.
LEMMA SeqInsert ==
    ASSUME NEW S, NEW s \in Seq(S), NEW e \in S, NEW n \in 0..Len(s),
           NEW a, a = SubSeq(s, 1, n), NEW b, b = SubSeq(s, n + 1, Len(s)),
           NEW t, t = a \o <<e>> \o b
    PROVE  t \in Seq(S) /\ InsertedAt(t, s, n, e)
<1> DEFINE u == a \o <<e>> \o b
<1>0. Len(s) \in Nat
  BY LenProperties
<1>1. a \in Seq(S) /\ Len(a) = n /\ \A i \in 1..n : a[i] = s[i]
  BY ONLY <1>0, s \in Seq(S), n \in 0..Len(s), a = SubSeq(s, 1, n), SeqPart
<1>2. b \in Seq(S) /\ Len(b) = Len(s) - n /\ \A i \in 1..(Len(s) - n) : b[i] = s[n + i]
  BY ONLY <1>0, s \in Seq(S), n \in 0..Len(s), b = SubSeq(s, n + 1, Len(s)), SeqPart
<1>3. /\ u \in Seq(S) /\ Len(u) = Len(a) + 1 + Len(b)
      /\ \A i \in 1..Len(a) : u[i] = a[i]
      /\ u[Len(a) + 1] = e
      /\ \A i \in 1..Len(b) : u[Len(a) + 1 + i] = b[i]
  <2>1. a \in Seq(S) /\ b \in Seq(S)
    BY <1>1, <1>2
  <2>2. QED
    BY ONLY <2>1, e \in S, ConcatThree
<1> HIDE DEF u
<1>4. ASSUME NEW i \in (n + 1)..Len(s) PROVE u[i + 1] = s[i]
  <2>1. i - n \in 1..Len(b) /\ Len(a) + 1 + (i - n) = i + 1 /\ n + (i - n) = i
    BY ONLY <1>0, <1>1, <1>2, n \in 0..Len(s), i \in (n + 1)..Len(s)
  <2>2. u[Len(a) + 1 + (i - n)] = b[i - n]
    BY ONLY <2>1, <1>3
  <2>3. b[i - n] = s[n + (i - n)]
    BY ONLY <2>1, <1>2
  <2>4. QED
    BY ONLY <2>1, <2>2, <2>3
<1>5. /\ u \in Seq(S) /\ Len(u) = Len(s) + 1
      /\ \A i \in 1..n : u[i] = s[i]
      /\ u[n + 1] = e
  BY ONLY <1>0, <1>1, <1>2, <1>3, n \in 0..Len(s)
<1>6. t = u
  BY DEF u
<1>7. QED
  BY ONLY <1>4, <1>5, <1>6 DEF InsertedAt

\* The elements of two sequences put together.
LEMMA ConcatTwo ==
    ASSUME NEW S, NEW a \in Seq(S), NEW b \in Seq(S), NEW t, t = a \o b
    PROVE  /\ t \in Seq(S) /\ Len(t) = Len(a) + Len(b) /\ Len(a) \in Nat /\ Len(b) \in Nat
           /\ DOMAIN t = 1..(Len(a) + Len(b))
           /\ \A i \in 1..Len(a) : t[i] = a[i]
           /\ \A i \in 1..Len(b) : t[Len(a) + i] = b[i]
           /\ Range(t) = Range(a) \cup Range(b)
<1>1. Len(a) \in Nat /\ Len(b) \in Nat
  BY LenProperties
<1>2. /\ a \o b \in Seq(S) /\ Len(a \o b) = Len(a) + Len(b)
      /\ \A i \in 1..(Len(a) + Len(b)) : (a \o b)[i] = IF i <= Len(a) THEN a[i] ELSE b[i - Len(a)]
  BY ConcatProperties
<1>3. /\ t \in Seq(S) /\ Len(t) = Len(a) + Len(b)
      /\ \A i \in 1..(Len(a) + Len(b)) : t[i] = IF i <= Len(a) THEN a[i] ELSE b[i - Len(a)]
  BY ONLY <1>2, t = a \o b
<1>4. DOMAIN t = 1..(Len(a) + Len(b))
  BY ONLY <1>3, LenProperties
<1>5. \A i \in 1..Len(a) : t[i] = a[i]
  BY ONLY <1>1, <1>3
<1>6. ASSUME NEW i \in 1..Len(b) PROVE t[Len(a) + i] = b[i]
  <2>1. Len(a) + i \in 1..(Len(a) + Len(b)) /\ ~(Len(a) + i <= Len(a)) /\ (Len(a) + i) - Len(a) = i
    BY ONLY <1>1, i \in 1..Len(b)
  <2>2. QED
    BY ONLY <2>1, <1>3
<1>7. Range(t) = Range(a) \cup Range(b)
  BY RangeConcatenation
<1>8. QED
  BY ONLY <1>1, <1>3, <1>4, <1>5, <1>6, <1>7

\* A sequence with an element in front.
LEMMA Prepend ==
    ASSUME NEW S, NEW s \in Seq(S), NEW e \in S, NEW t, t = <<e>> \o s
    PROVE  /\ t \in Seq(S) /\ Len(t) = Len(s) + 1 /\ DOMAIN t = 1..(Len(s) + 1)
           /\ t[1] = e /\ \A i \in 1..Len(s) : t[i + 1] = s[i]
           /\ Range(t) = {e} \cup Range(s)
           /\ IsInjective(s) /\ e \notin Range(s) => IsInjective(t)
<1> DEFINE a == <<e>>
<1>1. a \in Seq(S) /\ Len(a) = 1 /\ a[1] = e /\ Range(a) = {e}
  BY DEF Range
<1>0. t = a \o s
  OBVIOUS
<1> HIDE DEF a
<1>2. /\ t \in Seq(S) /\ Len(t) = Len(a) + Len(s) /\ Len(s) \in Nat
      /\ DOMAIN t = 1..(Len(a) + Len(s))
      /\ \A i \in 1..Len(a) : t[i] = a[i]
      /\ \A i \in 1..Len(s) : t[Len(a) + i] = s[i]
  <2>1. a \in Seq(S) /\ s \in Seq(S) /\ t = a \o s
    BY <1>0, <1>1
  <2>2. QED
    BY ONLY <2>1, ConcatTwo
<1>7. Range(t) = Range(a) \cup Range(s)
  BY <1>0, <1>1, RangeConcatenation
<1>3. /\ t \in Seq(S) /\ Len(t) = Len(s) + 1 /\ DOMAIN t = 1..(Len(s) + 1)
      /\ t[1] = e
      /\ Range(t) = {e} \cup Range(s)
  BY ONLY <1>1, <1>2, <1>7
<1>4. \A i \in 1..Len(s) : t[i + 1] = s[i]
  BY ONLY <1>1, <1>2
<1>5. ASSUME IsInjective(s), e \notin Range(s) PROVE IsInjective(t)
  <2>1. DOMAIN s = 1..Len(s)
    BY ONLY s \in Seq(S), LenProperties
  <2> SUFFICES ASSUME NEW i \in DOMAIN t, NEW j \in DOMAIN t, t[i] = t[j] PROVE i = j
    BY DEF IsInjective
  <2>2. ASSUME NEW k \in DOMAIN t, k # 1 PROVE k - 1 \in DOMAIN s /\ t[k] = s[k - 1]
    <3>1. k - 1 \in 1..Len(s) /\ (k - 1) + 1 = k
      BY ONLY <1>2, <1>3, k \in DOMAIN t, <2>2
    <3>2. QED
      BY ONLY <3>1, <2>1, <1>4
  <2>3. CASE i = 1 \/ j = 1
    BY <2>2, <2>3, <1>3, <1>5 DEF Range
  <2>4. CASE i # 1 /\ j # 1
    <3>1. i - 1 = j - 1
      BY <2>2, <2>4, <1>5 DEF IsInjective
    <3>2. QED
      BY ONLY <3>1, <1>2, <1>3, i \in DOMAIN t, j \in DOMAIN t
  <2>5. QED
    BY <2>3, <2>4
<1>6. QED
  BY ONLY <1>3, <1>4, <1>5

\* The range of a sequence with an element in front.
LEMMA PrependRange ==
    ASSUME NEW S, NEW s \in Seq(S), NEW e \in S, NEW t, t = <<e>> \o s
    PROVE  Range(t) = {e} \cup Range(s)
BY Prepend

\* A sequence without its element i.
LEMMA RemoveAtFacts ==
    ASSUME NEW S, NEW s \in Seq(S), NEW i \in 1..Len(s), NEW t, t = RemoveAt(s, i)
    PROVE  /\ t \in Seq(S) /\ Len(t) = Len(s) - 1 /\ DOMAIN t = 1..(Len(s) - 1)
           /\ \A j \in 1..(i - 1) : t[j] = s[j]
           /\ \A j \in i..(Len(s) - 1) : t[j] = s[j + 1]
<1> DEFINE a == SubSeq(s, 1, i - 1)
           b == SubSeq(s, i + 1, Len(s))
<1>0. Len(s) \in Nat /\ i \in Nat
  BY ONLY s \in Seq(S), i \in 1..Len(s), LenProperties
<1>1. a \in Seq(S) /\ Len(a) = i - 1 /\ \A j \in 1..(i - 1) : a[j] = s[j]
  BY ONLY <1>0, s \in Seq(S), i \in 1..Len(s), SeqPart
<1>2. b \in Seq(S) /\ Len(b) = Len(s) - i /\ \A j \in 1..(Len(s) - i) : b[j] = s[i + j]
  BY ONLY <1>0, s \in Seq(S), i \in 1..Len(s), SeqPart
<1>3. t = a \o b
  BY DEF RemoveAt
<1> HIDE DEF a, b
<1>4. /\ t \in Seq(S) /\ Len(t) = Len(a) + Len(b) /\ DOMAIN t = 1..(Len(a) + Len(b))
      /\ \A j \in 1..Len(a) : t[j] = a[j]
      /\ \A j \in 1..Len(b) : t[Len(a) + j] = b[j]
  <2>1. a \in Seq(S) /\ b \in Seq(S) /\ t = a \o b
    BY <1>1, <1>2, <1>3
  <2>2. QED
    BY ONLY <2>1, ConcatTwo
<1>5. t \in Seq(S) /\ Len(t) = Len(s) - 1 /\ DOMAIN t = 1..(Len(s) - 1)
  BY ONLY <1>0, <1>1, <1>2, <1>4
<1>6. \A j \in 1..(i - 1) : t[j] = s[j]
  BY ONLY <1>1, <1>4
<1>7. ASSUME NEW j \in i..(Len(s) - 1) PROVE t[j] = s[j + 1]
  <2> DEFINE k == j - i + 1
  <2>1. k \in 1..(Len(s) - i) /\ Len(a) + k = j /\ i + k = j + 1
    BY ONLY <1>0, <1>1, j \in i..(Len(s) - 1)
  <2> HIDE DEF k
  <2>2. t[Len(a) + k] = b[k] /\ b[k] = s[i + k]
    BY ONLY <2>1, <1>2, <1>4
  <2>3. QED
    BY ONLY <2>1, <2>2
<1>8. QED
  BY ONLY <1>5, <1>6, <1>7

\* What is left are elements of the sequence; each of them once, if each was there once.
LEMMA RemoveAtRange ==
    ASSUME NEW S, NEW s \in Seq(S), NEW i \in 1..Len(s), NEW t, t = RemoveAt(s, i)
    PROVE  /\ Range(t) \subseteq Range(s)
           /\ IsInjective(s) => IsInjective(t) /\ Range(t) = Range(s) \ {s[i]}
<1>1. Len(s) \in Nat /\ DOMAIN s = 1..Len(s)
  BY ONLY s \in Seq(S), LenProperties
<1>2. /\ DOMAIN t = 1..(Len(s) - 1)
      /\ \A j \in 1..(i - 1) : t[j] = s[j]
      /\ \A j \in i..(Len(s) - 1) : t[j] = s[j + 1]
  BY RemoveAtFacts
<1> DEFINE old(j) == IF j < i THEN j ELSE j + 1
<1>3. ASSUME NEW j \in DOMAIN t PROVE old(j) \in DOMAIN s /\ t[j] = s[old(j)] /\ old(j) # i
  BY ONLY <1>1, <1>2, <1>3, i \in 1..Len(s)
<1>4. ASSUME NEW k \in DOMAIN s, k # i PROVE \E j \in DOMAIN t : t[j] = s[k]
  <2>1. CASE k < i
    BY ONLY <2>1, <1>1, <1>2, <1>4, i \in 1..Len(s)
  <2>2. CASE k > i
    <3>1. k - 1 \in i..(Len(s) - 1) /\ (k - 1) + 1 = k /\ k - 1 \in DOMAIN t
      BY ONLY <2>2, <1>1, <1>2, <1>4, i \in 1..Len(s)
    <3>2. t[k - 1] = s[k]
      BY ONLY <3>1, <1>2
    <3>3. QED
      BY ONLY <3>1, <3>2
  <2>3. QED
    BY ONLY <2>1, <2>2, <1>1, <1>4, i \in 1..Len(s)
<1>5. Range(t) \subseteq Range(s)
  BY ONLY <1>3 DEF Range
<1>6. ASSUME IsInjective(s) PROVE IsInjective(t)
  <2> SUFFICES ASSUME NEW j \in DOMAIN t, NEW k \in DOMAIN t, t[j] = t[k] PROVE j = k
    BY DEF IsInjective
  <2>1. old(j) = old(k)
    BY <1>3, <1>6 DEF IsInjective
  <2>2. QED
    BY ONLY <2>1, <1>1, <1>2, j \in DOMAIN t, k \in DOMAIN t, i \in 1..Len(s)
<1>7. ASSUME IsInjective(s) PROVE Range(t) = Range(s) \ {s[i]}
  <2>1. \A j \in DOMAIN t : s[old(j)] # s[i]
    BY <1>1, <1>3, <1>7 DEF IsInjective
  <2>2. QED
    BY ONLY <2>1, <1>3, <1>4, <1>1 DEF Range
<1>8. QED
  BY ONLY <1>5, <1>6, <1>7

\* An element moved to the front.
LEMMA MoveToFront ==
    ASSUME NEW S, NEW s \in Seq(S), NEW i \in 1..Len(s), NEW t, t = <<s[i]>> \o RemoveAt(s, i)
    PROVE  /\ t \in Seq(S) /\ Len(t) = Len(s) /\ t[1] = s[i]
           /\ Range(t) = Range(s)
           /\ IsInjective(s) => IsInjective(t)
<1> DEFINE r == RemoveAt(s, i)
           e == s[i]
<1>1. Len(s) \in Nat /\ DOMAIN s = 1..Len(s) /\ e \in S /\ e \in Range(s)
  BY LenProperties, ElementOfSeq DEF Range
<1>2. t = <<e>> \o r
  OBVIOUS
<1>8. r = RemoveAt(s, i)
  OBVIOUS
<1> HIDE DEF r
<1>3. r \in Seq(S) /\ Len(r) = Len(s) - 1
  BY ONLY <1>8, s \in Seq(S), i \in 1..Len(s), RemoveAtFacts
<1>4. /\ Range(r) \subseteq Range(s)
      /\ IsInjective(s) => IsInjective(r) /\ Range(r) = Range(s) \ {e}
  BY ONLY <1>8, s \in Seq(S), i \in 1..Len(s), RemoveAtRange
<1> HIDE DEF e
<1>5. /\ t \in Seq(S) /\ Len(t) = Len(r) + 1 /\ t[1] = e
      /\ Range(t) = {e} \cup Range(r)
      /\ IsInjective(r) /\ e \notin Range(r) => IsInjective(t)
  <2>1. r \in Seq(S) /\ e \in S /\ t = <<e>> \o r
    BY <1>1, <1>2, <1>3
  <2>2. t \in Seq(S) /\ Len(t) = Len(r) + 1 /\ t[1] = e
    BY ONLY <2>1, Prepend
  <2>3. Range(t) = {e} \cup Range(r)
    BY ONLY <2>1, Prepend
  <2>4. IsInjective(r) /\ e \notin Range(r) => IsInjective(t)
    BY ONLY <2>1, Prepend
  <2>5. QED
    BY <2>2, <2>3, <2>4
<1>6. Range(s) \subseteq {e} \cup Range(r)
  <2> SUFFICES ASSUME NEW k \in DOMAIN s, k # i PROVE s[k] \in Range(r)
    BY DEF Range, e
  <2>1. /\ DOMAIN r = 1..(Len(s) - 1)
        /\ \A j \in 1..(i - 1) : r[j] = s[j]
        /\ \A j \in i..(Len(s) - 1) : r[j] = s[j + 1]
    <3>1. DOMAIN r = 1..(Len(s) - 1)
      BY ONLY <1>8, s \in Seq(S), i \in 1..Len(s), RemoveAtFacts, Zenon
    <3>2. \A j \in 1..(i - 1) : r[j] = s[j]
      BY ONLY <1>8, s \in Seq(S), i \in 1..Len(s), RemoveAtFacts, Zenon
    <3>3. ASSUME NEW j \in i..(Len(s) - 1) PROVE r[j] = s[j + 1]
      BY ONLY <1>8, s \in Seq(S), i \in 1..Len(s), j \in i..(Len(s) - 1), RemoveAtFacts, Zenon
    <3>4. QED
      BY <3>1, <3>2, <3>3
  <2>2. CASE k < i
    BY ONLY <2>1, <2>2, <1>1, k \in DOMAIN s, i \in 1..Len(s) DEF Range
  <2>3. CASE k > i
    <3>1. k - 1 \in i..(Len(s) - 1) /\ (k - 1) + 1 = k /\ k - 1 \in DOMAIN r
      BY ONLY <2>1, <2>3, <1>1, k \in DOMAIN s, i \in 1..Len(s)
    <3>2. r[k - 1] = s[k]
      BY ONLY <3>1, <2>1
    <3>3. QED
      BY ONLY <3>1, <3>2 DEF Range
  <2>4. QED
    BY ONLY <2>2, <2>3, <1>1, k \in DOMAIN s, k # i, i \in 1..Len(s)
<1>7. QED
  BY <1>1, <1>3, <1>4, <1>5, <1>6 DEF e

\* The library's Min and Max of a set of naturals belong to it.
LEMMA MinFacts ==
    ASSUME NEW S, S \subseteq Nat, S # {}
    PROVE  Min(S) \in S /\ \A k \in S : Min(S) <= k
BY LeastNat DEF Min

\* Max of a bounded nonempty set of naturals.
LEMMA MaxFacts ==
    ASSUME NEW N \in Nat, NEW S, S \subseteq 0..N, S # {}
    PROVE  Max(S) \in S /\ \A k \in S : k <= Max(S)
<1>1. PICK m \in S : \A k \in S : k <= m
  BY GreatestNat
<1>2. \A k \in S : m >= k
  BY <1>1
<1>3. Max(S) \in S /\ \A k \in S : Max(S) >= k
  BY <1>2 DEF Max
<1>4. QED
  BY <1>3

\* Taking an element that is there once out of a sequence.
LEMMA RemoveFirstFacts ==
    ASSUME NEW S, NEW s \in Seq(S), IsInjective(s), NEW e \in Range(s), NEW t, t = RemoveFirst(s, e)
    PROVE  /\ t \in Seq(S) /\ Len(t) = Len(s) - 1
           /\ IsInjective(t) /\ Range(t) = Range(s) \ {e}
<1> DEFINE I == {i \in 1..Len(s) : s[i] = e}
           m == Min(I)
<1>1. Len(s) \in Nat /\ DOMAIN s = 1..Len(s)
  BY ONLY s \in Seq(S), LenProperties
<1>2. I \subseteq Nat /\ I # {}
  BY <1>1 DEF Range
<1>3. t = RemoveAt(s, m)
  BY <1>2 DEF RemoveFirst, SelectInSeq
<1>4. m \in I
  <2> HIDE DEF I
  <2>1. QED
    BY <1>2, MinFacts
<1> HIDE DEF m
<1>5. m \in 1..Len(s) /\ s[m] = e
  BY <1>4
<1>6. t \in Seq(S) /\ Len(t) = Len(s) - 1
  BY ONLY <1>3, <1>5, s \in Seq(S), RemoveAtFacts
<1>7. IsInjective(t) /\ Range(t) = Range(s) \ {e}
  BY ONLY <1>3, <1>5, s \in Seq(S), IsInjective(s), RemoveAtRange
<1>8. QED
  BY ONLY <1>6, <1>7

\* g lists the states of a loop whose body is the function f.
Iteration(g, S, s, f, n) ==
    g \in [0..n -> S] /\ g[0] = s /\ \A k \in 1..n : g[k] = f[g[k - 1]]

\* The steps of a loop whose body is the function f exist, and stay in the set f maps
\* into itself.
LEMMA Iterates ==
    ASSUME NEW S, NEW s \in S, NEW f \in [S -> S], NEW n \in Nat
    PROVE  \E g : Iteration(g, S, s, f, n)
<1> DEFINE T == {m \in Nat : \E g \in [0..m -> S] :
                                g[0] = s /\ \A k \in 1..m : g[k] = f[g[k - 1]]}
<1>1. 0 \in T
  <2> DEFINE g == [k \in 0..0 |-> s]
  <2>1. g \in [0..0 -> S] /\ g[0] = s /\ \A k \in 1..0 : g[k] = f[g[k - 1]]
    OBVIOUS
  <2> HIDE DEF g
  <2>2. QED
    BY <2>1
<1>2. ASSUME NEW m \in Nat, m \in T PROVE m + 1 \in T
  <2>1. PICK g \in [0..m -> S] : g[0] = s /\ \A k \in 1..m : g[k] = f[g[k - 1]]
    BY <1>2
  <2> DEFINE h == [k \in 0..(m + 1) |-> IF k = m + 1 THEN f[g[m]] ELSE g[k]]
  <2>2. h \in [0..(m + 1) -> S] /\ h[0] = s
    BY <2>1
  <2>3. \A k \in 1..(m + 1) : h[k] = f[h[k - 1]]
    BY <2>1
  <2> HIDE DEF h
  <2>4. QED
    BY <2>2, <2>3
<1> HIDE DEF T
<1>3. \A m \in Nat : m \in T
  BY <1>1, <1>2, NatSetInduction
<1>4. QED
  BY <1>3 DEF T, Iteration

\* What every step keeps inside a set is inside it after the last step.
LEMMA StaysIn ==
    ASSUME NEW S, NEW n \in Nat, NEW a, a[0] \in S, \A k \in 1..n : a[k - 1] \in S => a[k] \in S
    PROVE  a[n] \in S
<1> DEFINE T == {m \in Nat : m <= n => a[m] \in S}
<1>1. 0 \in T
  OBVIOUS
<1>2. ASSUME NEW m \in Nat, m \in T PROVE m + 1 \in T
  <2>1. ASSUME m + 1 <= n PROVE a[m + 1] \in S
    <3>1. a[m] \in S /\ m + 1 \in 1..n /\ (m + 1) - 1 = m
      BY <1>2, <2>1
    <3>2. QED
      BY <3>1
  <2>2. QED
    BY <2>1
<1> HIDE DEF T
<1>3. n \in T
  BY <1>1, <1>2, NatSetInduction
<1>4. QED
  BY <1>3 DEF T

=============================================================================
