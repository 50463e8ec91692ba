----------------------------- MODULE RanksProofs -----------------------------
(***************************************************************************)
(* Facts about ranks in finite sets of integers, and about subsequences.   *)
(***************************************************************************)
EXTENDS Ranks, FiniteSetTheorems, TLAPS

\* The prover of a leaf that names none.
USE ZenonT(30)

\* A member's place lies between 1 and the size of the set.
LEMMA RankBounds ==
  ASSUME NEW S \in SUBSET Int, IsFiniteSet(S), NEW i \in S
  PROVE  Rank(S, i) \in 1..Cardinality(S) /\ Cardinality(S) \in Nat
<1> DEFINE U == {j \in S : j <= i}
<1>1. U \in SUBSET S /\ i \in U
  BY SMTT(30)
<1>2. IsFiniteSet(U) /\ Cardinality(U) <= Cardinality(S)
  BY <1>1, FS_Subset
<1>3. Cardinality(U) \in Nat /\ Cardinality(S) \in Nat
  BY <1>2, FS_CardinalityType
<1>4. Cardinality(U) # 0
  BY <1>1, <1>2, FS_EmptySet
<1> QED BY SMTT(30), <1>2, <1>3, <1>4 DEF Rank

\* A greater member has a later place.
LEMMA RankMonotone ==
  ASSUME NEW S \in SUBSET Int, IsFiniteSet(S), NEW i \in S, NEW j \in S, i < j
  PROVE  Rank(S, i) < Rank(S, j)
<1> DEFINE U == {k \in S : k <= i}
           T == {k \in S : k <= j}
<1>1. U \in SUBSET T /\ T \in SUBSET S /\ j \in T /\ j \notin U
  <2>1. \A k \in S : k \in Int
    OBVIOUS
  <2>2. i \in Int /\ j \in Int
    BY <2>1
  <2>3. \A k \in S : k <= i => k <= j
    BY SMTT(30), <2>1, <2>2
  <2>4. j <= j /\ ~(j <= i)
    BY SMTT(30), <2>2
  <2> QED BY <2>3, <2>4
<1>2. IsFiniteSet(T)
  BY <1>1, FS_Subset
<1>3. Cardinality(U) <= Cardinality(T) /\ (Cardinality(T) = Cardinality(U) => T = U) /\ IsFiniteSet(U)
  BY <1>1, <1>2, FS_Subset
<1>4. Cardinality(U) \in Nat /\ Cardinality(T) \in Nat
  BY <1>2, <1>3, FS_CardinalityType
<1>5. Cardinality(T) # Cardinality(U)
  BY <1>1, <1>3
<1>6. Cardinality(U) < Cardinality(T)
  BY SMTT(30), <1>3, <1>4, <1>5
<1> QED BY <1>6 DEF Rank

\* No two members have the same place.
LEMMA RankInjective ==
  ASSUME NEW S \in SUBSET Int, IsFiniteSet(S), NEW i \in S, NEW j \in S, Rank(S, i) = Rank(S, j)
  PROVE  i = j
<1>1. Rank(S, i) \in Int /\ i \in Int /\ j \in Int
  BY SMTT(30), RankBounds
<1>2. ~(i < j) /\ ~(j < i)
  BY SMTT(30), <1>1, RankMonotone
<1> QED BY SMTT(30), <1>1, <1>2

\* There is a member at every place.
LEMMA NthMember ==
  ASSUME NEW S \in SUBSET Int, IsFiniteSet(S), NEW k \in 1..Cardinality(S)
  PROVE  Nth(S, k) \in S /\ Rank(S, Nth(S, k)) = k
<1> DEFINE n == Cardinality(S)
           f == [i \in S |-> Rank(S, i)]
<1>1. n \in Nat
  BY FS_CardinalityType
<1>2. IsFiniteSet(1..n) /\ Cardinality(1..n) = n
  <2>1. 1 \in Int /\ n \in Int
    BY SMTT(30), <1>1
  <2>2. IsFiniteSet(1..n) /\ Cardinality(1..n) = IF 1 > n THEN 0 ELSE n - 1 + 1
    BY <2>1, FS_Interval
  <2> QED BY SMTT(30), <1>1, <2>2
<1>3. f \in [S -> 1..n]
  BY RankBounds
<1>4. f \in Injection(S, 1..n)
  <2>1. \A i, j \in S : f[i] = f[j] => i = j
    BY RankInjective
  <2> QED BY <1>3, <2>1 DEF Injection, IsInjective
<1>5. f \in Surjection(S, 1..n)
  BY <1>2, <1>4, FS_Injection
<1>6. PICK i \in S : f[i] = k
  BY <1>5 DEF Surjection
<1>7. Rank(S, i) = k
  BY <1>6
<1> QED BY <1>7 DEF Nth

\* A member is found at its place.
LEMMA NthOfRank ==
  ASSUME NEW S \in SUBSET Int, IsFiniteSet(S), NEW i \in S
  PROVE  Nth(S, Rank(S, i)) = i
<1>1. Rank(S, i) \in 1..Cardinality(S)
  BY RankBounds
<1> DEFINE n == Nth(S, Rank(S, i))
<1>2. n \in S /\ Rank(S, n) = Rank(S, i)
  BY <1>1, NthMember
<1> HIDE DEF n
<1>3. n = i
  BY <1>2, RankInjective
<1> QED BY <1>3 DEF n

\* Members are in ascending order.
LEMMA NthMonotone ==
  ASSUME NEW S \in SUBSET Int, IsFiniteSet(S),
         NEW k \in 1..Cardinality(S), NEW l \in 1..Cardinality(S), k < l
  PROVE  Nth(S, k) < Nth(S, l)
<1>1. /\ Nth(S, k) \in S /\ Rank(S, Nth(S, k)) = k
      /\ Nth(S, l) \in S /\ Rank(S, Nth(S, l)) = l
  BY NthMember
<1>2. Nth(S, k) # Nth(S, l)
  BY SMTT(30), <1>1
<1>3. ~(Nth(S, l) < Nth(S, k))
  <2>1. CASE Nth(S, l) < Nth(S, k)
    <3>1. Rank(S, Nth(S, l)) < Rank(S, Nth(S, k))
      BY <1>1, <2>1, RankMonotone
    <3> QED BY SMTT(30), <1>1, <3>1
  <2> QED BY <2>1
<1>4. Nth(S, k) \in Int /\ Nth(S, l) \in Int
  BY <1>1
<1> QED BY SMTT(30), <1>2, <1>3, <1>4

\* A finite set of integers has a least member.
LEMMA LeastMember ==
  ASSUME NEW S \in SUBSET Int, IsFiniteSet(S), S # {}
  PROVE  \E x \in S : \A y \in S : x <= y
<1>1. Cardinality(S) \in Nat /\ Cardinality(S) # 0
  BY FS_CardinalityType, FS_EmptySet
<1>2. 1 \in 1..Cardinality(S)
  BY SMTT(30), <1>1
<1>3. Nth(S, 1) \in S /\ Rank(S, Nth(S, 1)) = 1
  BY <1>2, NthMember
<1>4. \A y \in S : ~(y < Nth(S, 1))
  <2>1. SUFFICES ASSUME NEW y \in S, y < Nth(S, 1)
                 PROVE  FALSE
    OBVIOUS
  <2>2. Rank(S, y) < 1
    BY <1>3, <2>1, RankMonotone
  <2>3. Rank(S, y) \in 1..Cardinality(S)
    BY RankBounds
  <2> QED BY SMTT(30), <1>1, <2>2, <2>3
<1>5. \A y \in S : y \in Int
  OBVIOUS
<1> DEFINE x == Nth(S, 1)
<1>6. x \in Int
  BY <1>3
<1> HIDE DEF x
<1>7. \A y \in S : x <= y
  BY SMTT(30), <1>4, <1>5, <1>6 DEF x
<1> QED BY <1>3, <1>7 DEF x

\* A finite set of integers has a greatest member.
LEMMA GreatestMember ==
  ASSUME NEW S \in SUBSET Int, IsFiniteSet(S), S # {}
  PROVE  \E x \in S : \A y \in S : x >= y
<1> DEFINE n == Cardinality(S)
           x == Nth(S, n)
<1>1. n \in Nat /\ n # 0
  BY FS_CardinalityType, FS_EmptySet
<1>2. n \in 1..Cardinality(S)
  BY SMTT(30), <1>1
<1>3. x \in S /\ Rank(S, x) = n
  BY <1>2, NthMember
<1>4. \A y \in S : ~(x < y)
  <2>1. SUFFICES ASSUME NEW y \in S, x < y
                 PROVE  FALSE
    OBVIOUS
  <2>2. n < Rank(S, y)
    BY <1>3, <2>1, RankMonotone
  <2>3. Rank(S, y) \in 1..n
    BY RankBounds
  <2> QED BY SMTT(30), <1>1, <2>2, <2>3
<1>5. \A y \in S : y \in Int
  BY SMTT(30)
<1>6. x \in Int
  BY <1>3
<1> HIDE DEF x
<1>7. \A y \in S : x >= y
  BY SMTT(30), <1>4, <1>5, <1>6
<1> QED BY <1>3, <1>7

\* The n-th number of 1..m is n.
LEMMA NthOfInterval ==
  ASSUME NEW m \in Nat, NEW k \in 1..m
  PROVE  Nth(1..m, k) = k /\ IsFiniteSet(1..m) /\ Cardinality(1..m) = m
<1>1. /\ IsFiniteSet(1..m) /\ Cardinality(1..m) = IF 1 > m THEN 0 ELSE m - 1 + 1
      /\ Cardinality(1..k) = IF 1 > k THEN 0 ELSE k - 1 + 1
  BY SMTT(30), FS_Interval
<1>2. {j \in 1..m : j <= k} = 1..k
  BY SMTT(30)
<1>3. Rank(1..m, k) = k
  <2>1. Rank(1..m, k) = Cardinality(1..k)
    BY <1>2 DEF Rank
  <2> QED BY SMTT(30), <1>1, <2>1
<1>4. 1..m \in SUBSET Int /\ k \in 1..m
  BY SMTT(30)
<1>5. Nth(1..m, Rank(1..m, k)) = k
  BY <1>1, <1>4, NthOfRank
<1> QED BY SMTT(30), <1>1, <1>3, <1>5

\* A subsequence has one entry per position, each one of the entries there.
LEMMA SubsequenceEntries ==
  ASSUME NEW seq, NEW S \in SUBSET Int, IsFiniteSet(S)
  PROVE  /\ Cardinality(S) \in Nat
         /\ DOMAIN Subsequence(seq, S) = 1..Cardinality(S)
         /\ Len(Subsequence(seq, S)) = Cardinality(S)
         /\ \A k \in 1..Cardinality(S) :
              Subsequence(seq, S)[k] = seq[Nth(S, k)] /\ Nth(S, k) \in S
         /\ {Subsequence(seq, S)[k] : k \in 1..Cardinality(S)} = {seq[i] : i \in S}
<1>1. Cardinality(S) \in Nat
  BY FS_CardinalityType
<1>2. \A k \in 1..Cardinality(S) : Subsequence(seq, S)[k] = seq[Nth(S, k)] /\ Nth(S, k) \in S
  BY NthMember DEF Subsequence
<1>3. \A i \in S : \E k \in 1..Cardinality(S) : i = Nth(S, k)
  BY RankBounds, NthOfRank
<1>4. {Subsequence(seq, S)[k] : k \in 1..Cardinality(S)} = {seq[i] : i \in S}
  <2> DEFINE s == Subsequence(seq, S)
             n == Cardinality(S)
  <2>1. \A k \in 1..n : s[k] \in {seq[i] : i \in S}
    BY <1>2
  <2>2. \A i \in S : seq[i] \in {s[k] : k \in 1..n}
    BY <1>2, <1>3
  <2> QED BY <2>1, <2>2
<1>5. DOMAIN Subsequence(seq, S) = 1..Cardinality(S)
  BY DEF Subsequence
<1>6. Len(Subsequence(seq, S)) = Cardinality(S)
  BY SMTT(30), <1>1, <1>5 DEF Subsequence
<1> QED BY <1>1, <1>2, <1>4, <1>5, <1>6

\* A sequence has finitely many entries.
LEMMA FiniteRange ==
  ASSUME NEW T, NEW seq \in Seq(T)
  PROVE  IsFiniteSet({seq[i] : i \in DOMAIN seq}) /\ IsFiniteSet(DOMAIN seq)
<1> DEFINE R == {seq[i] : i \in DOMAIN seq}
<1>1. DOMAIN seq = 1..Len(seq) /\ Len(seq) \in Nat /\ seq \in [DOMAIN seq -> R]
  BY SMTT(30)
<1>2. IsFiniteSet(DOMAIN seq)
  BY SMTT(30), <1>1, FS_Interval
<1>3. seq \in Surjection(DOMAIN seq, R)
  BY <1>1 DEF Surjection
<1> QED BY <1>2, <1>3, FS_Surjection

\* The subsequence of all positions is the sequence.
LEMMA SubsequenceOfAll ==
  ASSUME NEW T, NEW seq \in Seq(T)
  PROVE  Subsequence(seq, DOMAIN seq) = seq
<1>1. DOMAIN seq = 1..Len(seq) /\ Len(seq) \in Nat
  BY SMTT(30)
<1>2. Cardinality(1..Len(seq)) = Len(seq)
  <2>1. CASE Len(seq) = 0
    <3>1. 1..Len(seq) = {}
      BY SMTT(30), <2>1
    <3> QED BY <2>1, <3>1, FS_EmptySet
  <2>2. CASE Len(seq) # 0
    BY SMTT(30), <1>1, <2>2, NthOfInterval
  <2> QED BY <2>1, <2>2
<1>3. \A k \in 1..Len(seq) : Nth(1..Len(seq), k) = k
  BY <1>1, NthOfInterval
<1>4. Subsequence(seq, DOMAIN seq) = [k \in 1..Len(seq) |-> seq[k]]
  BY <1>1, <1>2, <1>3 DEF Subsequence
<1> QED BY SMTT(30), <1>4
=============================================================================
