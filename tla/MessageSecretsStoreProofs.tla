---------------------- MODULE MessageSecretsStoreProofs ----------------------
(***************************************************************************)
(* The list of past message secrets is ordered, within its limit and holds *)
(* the newest secrets, the configured policy is applied, and deletion by   *)
(* time is exact.                                                          *)
(***************************************************************************)
EXTENDS MessageSecretsStore, RanksProofs

\* The prover of a leaf that names none.
USE ZenonT(30)

Stamps == {{}} \cup {{t} : t \in Times}

Trees == [epoch : Nat, added_at : Stamps]

Groups ==
  [policy : Limits, max_epochs : Limits, epoch : Nat, added_at : Stamps,
   past_epoch_trees : Seq(Trees), kept : SUBSET Nat]

\* Oldest first, and the trees without a timestamp before those with one: only
\* versions older than any that writes timestamps left them out.
Ordered(past) ==
  \A i, j \in DOMAIN past :
    i < j => past[i].epoch < past[j].epoch /\ (past[j].added_at = {} => past[i].added_at = {})

ListOK(g) ==
  LET past == g.past_epoch_trees
  IN /\ \A i \in DOMAIN past : past[i].epoch < g.epoch
     /\ \A f \in g.kept : f < g.epoch
     /\ g.added_at = {} => \A i \in DOMAIN past : past[i].added_at = {}
     /\ Ordered(past)
     /\ Len(past) <= g.max_epochs
     /\ NewestSurvive(g)

GroupOK(g) == g \in Groups /\ ListOK(g)

\* The inductive invariant.  A failed operation may leave a group in memory whose
\* limit is not the configured one; the stored group is always consistent.
IInv ==
  /\ GroupOK(mem) /\ GroupOK(disk)
  /\ disk.max_epochs = disk.policy
  /\ ~failed => mem.max_epochs = mem.policy
  /\ clock \in Times /\ failed \in BOOLEAN

-----------------------------------------------------------------------------
(* What is left of a list.                                                 *)

\* q has trees of the list in their order, and with a tree all the later ones.
Retains(q, past) ==
  /\ q \in Seq(Trees) /\ Len(q) <= Len(past)
  /\ \A i, j \in DOMAIN q : i < j =>
       \E k, l \in DOMAIN past : k < l /\ q[i] = past[k] /\ q[j] = past[l]
  /\ \A i \in DOMAIN q : \E k \in DOMAIN past :
       /\ q[i] = past[k]
       /\ \A l \in DOMAIN past : k < l => \E j \in DOMAIN q : q[j] = past[l]

\* The length of a part of a list.
LEMMA SubSeqLength ==
  ASSUME NEW S, NEW s \in Seq(S), NEW a \in Int, NEW n \in Int, a <= n, 1 <= a, n <= Len(s)
  PROVE  Len(SubSeq(s, a, n)) = n - a + 1
BY SMTT(30)

\* A position before the last one has a next one.
LEMMA OneMoreIsWithin ==
  ASSUME NEW k \in Nat, NEW n \in Nat, k <= n, k # n
  PROVE  k + 1 \in Int /\ n \in Int /\ k + 1 <= n /\ 1 <= k + 1 /\ n <= n
BY SMTT(30)

\* The entries of the end of a list.
LEMMA SubSeqEntries ==
  ASSUME NEW past \in Seq(Trees), NEW k \in 0..Len(past)
  PROVE  LET q == SubSeq(past, k + 1, Len(past))
         IN /\ q \in Seq(Trees) /\ Len(q) = Len(past) - k
            /\ \A i \in DOMAIN q : i + k \in DOMAIN past /\ q[i] = past[i + k]
            /\ \A l \in DOMAIN past : l > k => l - k \in DOMAIN q /\ q[l - k] = past[l]
<1> DEFINE q == SubSeq(past, k + 1, Len(past))
<1>1. Len(past) \in Nat /\ DOMAIN past = 1..Len(past) /\ k \in Nat /\ k <= Len(past)
  BY SMTT(30)
<1>2. q \in Seq(Trees)
  BY SMTT(30), <1>1
<1>3. Len(q) = Len(past) - k
  <2> HIDE DEF q
  <2>1. CASE k = Len(past)
    BY SMTT(30), <1>1, <2>1 DEF q
  <2>2. CASE k # Len(past)
    <3>1. k + 1 \in Int /\ Len(past) \in Int /\ k + 1 <= Len(past) /\ 1 <= k + 1 /\ Len(past) <= Len(past)
      BY <1>1, <2>2, OneMoreIsWithin
    <3>2. Len(q) = Len(past) - (k + 1) + 1
      BY <3>1, SubSeqLength DEF q
    <3>3. Len(past) - (k + 1) + 1 = Len(past) - k
      BY SMTT(30), <1>1
    <3> QED BY <3>2, <3>3
  <2> QED BY <2>1, <2>2
<1>4. DOMAIN q = 1..(Len(past) - k)
  BY SMTT(30), <1>2, <1>3
<1>5. \A i \in 1..(Len(past) - k) : q[i] = past[i + k]
  BY SMTT(30), <1>1
<1> HIDE DEF q
<1>6. \A l \in DOMAIN past : l > k => l - k \in DOMAIN q /\ q[l - k] = past[l]
  <2>1. SUFFICES ASSUME NEW l \in DOMAIN past, l > k
                 PROVE  l - k \in DOMAIN q /\ q[l - k] = past[l]
    OBVIOUS
  <2>2. l - k \in 1..(Len(past) - k) /\ (l - k) + k = l
    BY SMTT(30), <1>1, <2>1
  <2> QED BY <1>4, <1>5, <2>2
<1>7. \A i \in DOMAIN q : i + k \in DOMAIN past /\ q[i] = past[i + k]
  BY SMTT(30), <1>1, <1>4, <1>5
<1> QED BY <1>2, <1>3, <1>6, <1>7 DEF q

\* The end of a list retains the list from there.
LEMMA SuffixRetains ==
  ASSUME NEW past \in Seq(Trees), NEW k \in 0..Len(past)
  PROVE  /\ Retains(SubSeq(past, k + 1, Len(past)), past)
         /\ Len(SubSeq(past, k + 1, Len(past))) = Len(past) - k
<1> DEFINE q == SubSeq(past, k + 1, Len(past))
<1>1. /\ q \in Seq(Trees) /\ Len(q) = Len(past) - k /\ DOMAIN q = 1..Len(q)
      /\ \A i \in DOMAIN q : i + k \in DOMAIN past /\ q[i] = past[i + k]
      /\ \A l \in DOMAIN past : l > k => l - k \in DOMAIN q /\ q[l - k] = past[l]
  BY SMTT(30), SubSeqEntries
<1>2. Len(past) \in Nat /\ DOMAIN past = 1..Len(past) /\ k \in Nat
  BY SMTT(30)
<1> HIDE DEF q
<1>3. ASSUME NEW i \in DOMAIN q, NEW j \in DOMAIN q, i < j
      PROVE  \E a, l \in DOMAIN past : a < l /\ q[i] = past[a] /\ q[j] = past[l]
  <2>1. i + k \in DOMAIN past /\ j + k \in DOMAIN past /\ i + k < j + k
    BY SMTT(30), <1>1, <1>2, <1>3
  <2> QED BY <1>1, <2>1
<1>4. ASSUME NEW i \in DOMAIN q
      PROVE  \E a \in DOMAIN past :
               /\ q[i] = past[a]
               /\ \A l \in DOMAIN past : a < l => \E j \in DOMAIN q : q[j] = past[l]
  <2>1. i + k \in DOMAIN past /\ q[i] = past[i + k]
    BY <1>1
  <2>2. ASSUME NEW l \in DOMAIN past, i + k < l
        PROVE  \E j \in DOMAIN q : q[j] = past[l]
    <3>1. l > k
      BY SMTT(30), <1>1, <1>2, <2>2
    <3> QED BY <1>1, <3>1
  <2> QED BY <2>1, <2>2
<1>5. Len(q) <= Len(past)
  BY SMTT(30), <1>1, <1>2
<1> QED BY <1>1, <1>3, <1>4, <1>5 DEF Retains, q

\* A list retains itself.
LEMMA ListRetains ==
  ASSUME NEW past \in Seq(Trees)
  PROVE  Retains(past, past)
BY SMTT(30) DEF Retains

\* resize and truncation retain the newest trees, as many as they are told.
LEMMA NewestRetains ==
  ASSUME NEW past \in Seq(Trees), NEW n \in Nat
  PROVE  Retains(Newest(past, n), past) /\ Len(Newest(past, n)) <= n
<1>1. Len(past) \in Nat
  BY SMTT(30)
<1>2. CASE Len(past) <= n
  BY <1>2, ListRetains DEF Newest
<1>3. CASE ~(Len(past) <= n)
  <2>1. Len(past) - n \in 0..Len(past)
    BY SMTT(30), <1>1, <1>3
  <2>2. Newest(past, n) = SubSeq(past, (Len(past) - n) + 1, Len(past))
    BY <1>3 DEF Newest
  <2>3. /\ Retains(SubSeq(past, (Len(past) - n) + 1, Len(past)), past)
        /\ Len(SubSeq(past, (Len(past) - n) + 1, Len(past))) = Len(past) - (Len(past) - n)
    BY <2>1, SuffixRetains
  <2> QED BY SMTT(30), <1>1, <2>2, <2>3
<1> QED BY <1>2, <1>3

\* An operation that only retains trees of the list keeps the list in order.
LEMMA RetainedOK ==
  ASSUME NEW g, GroupOK(g), NEW h \in Groups,
         h.epoch = g.epoch, h.added_at = g.added_at, h.kept = g.kept,
         Retains(h.past_epoch_trees, g.past_epoch_trees),
         Len(h.past_epoch_trees) <= h.max_epochs
  PROVE  GroupOK(h)
<1> DEFINE past == g.past_epoch_trees
           q == h.past_epoch_trees
<1>1. /\ past \in Seq(Trees) /\ q \in Seq(Trees)
      /\ \A i \in DOMAIN past : past[i].epoch < g.epoch /\ past[i].epoch \in Nat
      /\ g.added_at = {} => \A i \in DOMAIN past : past[i].added_at = {}
      /\ Ordered(past)
      /\ \A i \in DOMAIN past, f \in g.kept :
           f > past[i].epoch => \E j \in DOMAIN past : past[j].epoch = f
      /\ g.kept \subseteq Nat /\ \A f \in g.kept : f < g.epoch
  <2>1. /\ past \in Seq(Trees) /\ q \in Seq(Trees) /\ g.kept \subseteq Nat
        /\ ListOK(g)
    BY DEF GroupOK, Groups
  <2>2. \A i \in DOMAIN past : past[i] \in Trees
    BY SMTT(30), <2>1
  <2>3. \A i \in DOMAIN past : past[i].epoch \in Nat
    BY <2>2 DEF Trees
  <2> QED BY <2>1, <2>3 DEF ListOK, NewestSurvive
<1>2. /\ \A i, j \in DOMAIN q : i < j =>
           \E k, l \in DOMAIN past : k < l /\ q[i] = past[k] /\ q[j] = past[l]
      /\ \A i \in DOMAIN q : \E k \in DOMAIN past :
           /\ q[i] = past[k]
           /\ \A l \in DOMAIN past : k < l => \E j \in DOMAIN q : q[j] = past[l]
  BY DEF Retains
<1>3. \A i \in DOMAIN q : q[i].epoch < h.epoch
  BY <1>1, <1>2
<1>4. h.added_at = {} => \A i \in DOMAIN q : q[i].added_at = {}
  BY <1>1, <1>2
<1>5. Ordered(q)
  <2>1. SUFFICES ASSUME NEW i \in DOMAIN q, NEW j \in DOMAIN q, i < j
                 PROVE  q[i].epoch < q[j].epoch /\ (q[j].added_at = {} => q[i].added_at = {})
    BY DEF Ordered
  <2>2. PICK k \in DOMAIN past, l \in DOMAIN past : k < l /\ q[i] = past[k] /\ q[j] = past[l]
    BY <1>2, <2>1
  <2>3. past[k].epoch < past[l].epoch /\ (past[l].added_at = {} => past[k].added_at = {})
    BY <1>1, <2>2 DEF Ordered
  <2> QED BY <2>2, <2>3
<1>6. ASSUME NEW i \in DOMAIN q, NEW f \in h.kept, f > q[i].epoch
      PROVE  \E j \in DOMAIN q : q[j].epoch = f
  <2>1. PICK k \in DOMAIN past :
          q[i] = past[k] /\ \A l \in DOMAIN past : k < l => \E j \in DOMAIN q : q[j] = past[l]
    BY <1>2
  <2>2. PICK l \in DOMAIN past : past[l].epoch = f
    BY <1>1, <1>6, <2>1
  <2>3. k < l
    <3>1. k \in Nat /\ l \in Nat /\ past[k].epoch \in Nat /\ past[l].epoch \in Nat
      BY SMTT(30), <1>1
    <3>2. past[k].epoch < past[l].epoch
      BY <1>6, <2>1, <2>2, <3>1
    <3>3. ~(l < k) /\ l # k
      BY SMTT(30), <1>1, <3>1, <3>2 DEF Ordered
    <3> QED BY SMTT(30), <3>1, <3>3
  <2> QED BY <2>1, <2>2, <2>3
<1> QED BY <1>1, <1>3, <1>4, <1>5, <1>6 DEF GroupOK, ListOK, NewestSurvive
-----------------------------------------------------------------------------
(* Sorting and deleting.                                                   *)

\* Sorting gives trees of the list, strictly ordered by their epochs, and one of
\* each epoch.
LEMMA SortedList ==
  ASSUME NEW past \in Seq(Trees)
  PROVE  LET q == EpochTreesOldestFirst(past)
         IN /\ q \in Seq(Trees) /\ Len(q) <= Len(past)
            /\ \A k \in DOMAIN q : \E i \in DOMAIN past : q[k] = past[i]
            /\ \A k, l \in DOMAIN q : k < l => q[k].epoch < q[l].epoch
            /\ \A i \in DOMAIN past : \E k \in DOMAIN q : q[k].epoch = past[i].epoch
<1> DEFINE epochs == {past[i].epoch : i \in DOMAIN past}
           n == Cardinality(epochs)
           q == EpochTreesOldestFirst(past)
<1>1. DOMAIN past = 1..Len(past) /\ Len(past) \in Nat /\ \A i \in DOMAIN past : past[i] \in Trees
  BY SMTT(30)
<1>2. epochs \in SUBSET Int
  BY SMTT(30), <1>1 DEF Trees
<1>3. IsFiniteSet(epochs) /\ n \in Nat /\ n <= Len(past)
  <2> DEFINE f == [i \in DOMAIN past |-> past[i].epoch]
  <2>1. f \in Surjection(DOMAIN past, epochs)
    BY DEF Surjection
  <2>2. IsFiniteSet(DOMAIN past) /\ Cardinality(DOMAIN past) = Len(past)
    <3>1. IsFiniteSet(1..Len(past)) /\ Cardinality(1..Len(past)) = IF 1 > Len(past) THEN 0 ELSE Len(past) - 1 + 1
      BY SMTT(30), <1>1, FS_Interval
    <3> QED BY SMTT(30), <1>1, <3>1
  <2> HIDE DEF f, epochs
  <2>3. IsFiniteSet(epochs) /\ Cardinality(epochs) <= Cardinality(DOMAIN past)
    BY <2>1, <2>2, FS_Surjection
  <2> QED BY <2>2, <2>3, FS_CardinalityType
<1>4. \A k \in 1..n : Nth(epochs, k) \in epochs
  BY <1>2, <1>3, NthMember
<1>5. q = [k \in 1..n |-> CHOOSE tree \in Range(past) : tree.epoch = Nth(epochs, k)]
  BY DEF EpochTreesOldestFirst
<1>6. \A k \in 1..n : q[k].epoch = Nth(epochs, k) /\ \E i \in DOMAIN past : q[k] = past[i]
  <2>1. SUFFICES ASSUME NEW k \in 1..n
                 PROVE  q[k].epoch = Nth(epochs, k) /\ \E i \in DOMAIN past : q[k] = past[i]
    OBVIOUS
  <2>2. q[k] = CHOOSE tree \in Range(past) : tree.epoch = Nth(epochs, k)
    BY <1>5
  <2>3. \E tree \in Range(past) : tree.epoch = Nth(epochs, k)
    <3>1. PICK i \in DOMAIN past : past[i].epoch = Nth(epochs, k)
      BY <1>4
    <3> QED BY <3>1 DEF Range
  <2>4. q[k] \in Range(past) /\ q[k].epoch = Nth(epochs, k)
    BY <2>2, <2>3
  <2> QED BY <2>4 DEF Range
<1>7. q \in Seq(Trees) /\ Len(q) = n /\ DOMAIN q = 1..n
  <2> HIDE DEF q
  <2>1. q \in [1..n -> Trees]
    BY <1>1, <1>5, <1>6
  <2>2. PICK c : c = n
    OBVIOUS
  <2> HIDE DEF n
  <2> QED BY SMTT(30), <1>3, <2>1, <2>2
<1>8. ASSUME NEW i \in DOMAIN past
      PROVE  \E k \in DOMAIN q : q[k].epoch = past[i].epoch
  <2>1. past[i].epoch \in epochs
    OBVIOUS
  <2>2. /\ Rank(epochs, past[i].epoch) \in 1..n
        /\ Nth(epochs, Rank(epochs, past[i].epoch)) = past[i].epoch
    BY <1>2, <1>3, <2>1, RankBounds, NthOfRank
  <2> QED BY <1>6, <1>7, <2>2
<1>9. ASSUME NEW k \in DOMAIN q, NEW l \in DOMAIN q, k < l
      PROVE  q[k].epoch < q[l].epoch
  <2>1. Nth(epochs, k) < Nth(epochs, l)
    BY <1>2, <1>3, <1>7, <1>9, NthMonotone
  <2> QED BY <1>6, <1>7, <2>1
<1> QED BY <1>3, <1>6, <1>7, <1>8, <1>9

\* A stored list is the same after it was loaded: in order, and with the same trees.
LEMMA LoadedOK ==
  ASSUME NEW g, GroupOK(g),
         NEW h, h = [g EXCEPT !.past_epoch_trees = EpochTreesOldestFirst(@)]
  PROVE  GroupOK(h) /\ h.max_epochs = g.max_epochs /\ h.policy = g.policy
<1> DEFINE past == g.past_epoch_trees
           q == EpochTreesOldestFirst(past)
<1>1. g \in Groups /\ ListOK(g) /\ past \in Seq(Trees) /\ Len(past) \in Nat
      /\ g.max_epochs \in Nat /\ g.kept \in SUBSET Nat
  BY SMTT(30), LimitsAssumption DEF GroupOK, Groups
<1>2. /\ q \in Seq(Trees) /\ Len(q) <= Len(past)
      /\ \A k \in DOMAIN q : \E i \in DOMAIN past : q[k] = past[i]
      /\ \A k, l \in DOMAIN q : k < l => q[k].epoch < q[l].epoch
      /\ \A i \in DOMAIN past : \E k \in DOMAIN q : q[k].epoch = past[i].epoch
  BY <1>1, SortedList
<1> HIDE DEF q
<1>3. /\ h \in Groups /\ h.past_epoch_trees = q /\ h.epoch = g.epoch /\ h.added_at = g.added_at
      /\ h.kept = g.kept /\ h.max_epochs = g.max_epochs /\ h.policy = g.policy
  <2>1. h = [g EXCEPT !.past_epoch_trees = q]
    BY DEF q
  <2> QED BY <1>1, <1>2, <2>1 DEF Groups
<1>4. Len(q) <= h.max_epochs
  BY SMTT(30), <1>1, <1>2, <1>3 DEF ListOK
<1>5. \A i \in DOMAIN past : i \in Nat /\ past[i].epoch \in Nat
  <2>1. \A i \in DOMAIN past : i \in Nat /\ past[i] \in Trees
    BY SMTT(30), <1>1
  <2> QED BY <2>1 DEF Trees
<1>6. Ordered(q)
  <2>1. SUFFICES ASSUME NEW k \in DOMAIN q, NEW l \in DOMAIN q, k < l
                 PROVE  q[l].added_at = {} => q[k].added_at = {}
    BY <1>2 DEF Ordered
  <2>2. PICK i \in DOMAIN past, j \in DOMAIN past : q[k] = past[i] /\ q[l] = past[j]
    BY <1>2
  <2>3. past[i].epoch < past[j].epoch
    BY <1>2, <2>1, <2>2
  <2>4. i < j
    BY SMTT(30), <1>1, <1>5, <2>3 DEF ListOK, Ordered
  <2> QED BY <1>1, <2>2, <2>4 DEF ListOK, Ordered
<1>7. \A k \in DOMAIN q : q[k].epoch < h.epoch /\ (h.added_at = {} => q[k].added_at = {})
  BY SMTT(30), <1>1, <1>2, <1>3 DEF ListOK
<1>8. ASSUME NEW k \in DOMAIN q, NEW f \in g.kept, f > q[k].epoch
      PROVE  \E l \in DOMAIN q : q[l].epoch = f
  <2>1. PICK i \in DOMAIN past : q[k] = past[i]
    BY <1>2
  <2>2. PICK j \in DOMAIN past : past[j].epoch = f
    BY <1>1, <1>8, <2>1 DEF ListOK, NewestSurvive
  <2> QED BY <1>2, <2>2
<1>9. \A f \in h.kept : f < h.epoch
  BY <1>1, <1>3 DEF ListOK
<1> QED BY SMTT(30), <1>3, <1>4, <1>6, <1>7, <1>8, <1>9 DEF GroupOK, ListOK, NewestSurvive

\* The position after which delete_past_epoch_secrets keeps the trees.
LastFound(g, expired) ==
  Max({i \in DOMAIN g.past_epoch_trees : g.past_epoch_trees[i].added_at \cap expired # {}} \cup {0})

\* It is the last position of an expired tree, or 0.
LEMMA LastFoundIsLast ==
  ASSUME NEW g, g.past_epoch_trees \in Seq(Trees), NEW expired
  PROVE  LET past == g.past_epoch_trees
         IN /\ LastFound(g, expired) \in 0..Len(past)
            /\ LastFound(g, expired) # 0 => past[LastFound(g, expired)].added_at \cap expired # {}
            /\ \A i \in DOMAIN past : past[i].added_at \cap expired # {} => i <= LastFound(g, expired)
<1> DEFINE past == g.past_epoch_trees
           S == {i \in DOMAIN past : past[i].added_at \cap expired # {}} \cup {0}
<1>1. DOMAIN past = 1..Len(past) /\ Len(past) \in Nat
  BY SMTT(30)
<1>2. S \in SUBSET (0..Len(past)) /\ S # {}
  BY SMTT(30), <1>1
<1>3. IsFiniteSet(S) /\ S \in SUBSET Int
  <2>1. IsFiniteSet(0..Len(past)) /\ (0..Len(past)) \in SUBSET Int
    BY SMTT(30), <1>1, FS_Interval
  <2> HIDE DEF S
  <2> QED BY <1>2, <2>1, FS_Subset
<1>4. \E x \in S : \A y \in S : x >= y
  <2> HIDE DEF S
  <2> QED BY <1>2, <1>3, GreatestMember
<1>5. Max(S) \in S /\ \A y \in S : Max(S) >= y
  <2> HIDE DEF S
  <2> QED BY <1>4 DEF Max
<1>6. LastFound(g, expired) = Max(S)
  BY DEF LastFound
<1>7. \A i \in DOMAIN past : past[i].added_at \cap expired # {} => i \in S
  OBVIOUS
<1>8. \A i \in S : i # 0 => i \in DOMAIN past /\ past[i].added_at \cap expired # {}
  OBVIOUS
<1> HIDE DEF S
<1> QED BY <1>1, <1>2, <1>3, <1>5, <1>6, <1>7, <1>8

\* Deletion by time retains the trees after a position.
LEMMA ExpiredRetains ==
  ASSUME NEW g, g.past_epoch_trees \in Seq(Trees), NEW expired
  PROVE  Retains(DeleteExpired(g, expired), g.past_epoch_trees)
<1> DEFINE past == g.past_epoch_trees
<1>1. CASE g.added_at \cap expired # {}
  <2>1. DeleteExpired(g, expired) = <<>>
    BY <1>1 DEF DeleteExpired
  <2> QED BY SMTT(30), <2>1 DEF Retains
<1>2. CASE g.added_at \cap expired = {}
  <2>1. DeleteExpired(g, expired) = SubSeq(past, LastFound(g, expired) + 1, Len(past))
    BY <1>2 DEF DeleteExpired, LastFound
  <2>2. LastFound(g, expired) \in 0..Len(past)
    BY LastFoundIsLast
  <2> QED BY <2>1, <2>2, SuffixRetains
<1> QED BY <1>1, <1>2

\* The trees with a timestamp are the later ones.
LEMMA StampedRetains ==
  ASSUME NEW past \in Seq(Trees), Ordered(past)
  PROVE  Retains(Subsequence(past, {i \in DOMAIN past : past[i].added_at # {}}), past)
<1> DEFINE S == {i \in DOMAIN past : past[i].added_at # {}}
           q == Subsequence(past, S)
           n == Cardinality(S)
<1>1. DOMAIN past = 1..Len(past) /\ Len(past) \in Nat /\ \A i \in DOMAIN past : past[i] \in Trees
  BY SMTT(30)
<1>2. IsFiniteSet(S) /\ S \in SUBSET Int /\ n <= Len(past) /\ S \in SUBSET DOMAIN past
  <2>1. S \in SUBSET (1..Len(past)) /\ S \in SUBSET Int /\ S \in SUBSET DOMAIN past
    BY SMTT(30), <1>1
  <2>2. IsFiniteSet(1..Len(past)) /\ Cardinality(1..Len(past)) = Len(past)
    <3>1. IsFiniteSet(1..Len(past)) /\ Cardinality(1..Len(past)) = IF 1 > Len(past) THEN 0 ELSE Len(past) - 1 + 1
      BY SMTT(30), <1>1, FS_Interval
    <3> QED BY SMTT(30), <1>1, <3>1
  <2> HIDE DEF S
  <2> QED BY <2>1, <2>2, FS_Subset
<1>3. /\ n \in Nat /\ DOMAIN q = 1..n /\ Len(q) = n
      /\ \A k \in 1..n : q[k] = past[Nth(S, k)] /\ Nth(S, k) \in S
  <2> HIDE DEF S
  <2> QED BY <1>2, SubsequenceEntries
<1>4. \A i \in S : Rank(S, i) \in 1..n /\ Nth(S, Rank(S, i)) = i
  BY <1>2, RankBounds, NthOfRank
<1>5. \A k, l \in 1..n : k < l => Nth(S, k) < Nth(S, l)
  BY <1>2, NthMonotone
<1>6. \A i \in S, l \in DOMAIN past : i < l => l \in S
  BY DEF Ordered
<1>7. q \in Seq(Trees)
  <2>1. q = [k \in 1..n |-> past[Nth(S, k)]]
    BY DEF Subsequence
  <2> HIDE DEF q, S
  <2>2. q \in [1..n -> Trees]
    BY <1>1, <1>2, <1>3, <2>1
  <2> HIDE DEF n
  <2> QED BY SMTT(30), <1>3, <2>2
<1> HIDE DEF q, S, n
<1>8. ASSUME NEW k \in DOMAIN q, NEW l \in DOMAIN q, k < l
      PROVE  \E i, j \in DOMAIN past : i < j /\ q[k] = past[i] /\ q[l] = past[j]
  <2>1. /\ Nth(S, k) \in DOMAIN past /\ Nth(S, l) \in DOMAIN past /\ Nth(S, k) < Nth(S, l)
        /\ q[k] = past[Nth(S, k)] /\ q[l] = past[Nth(S, l)]
    BY <1>2, <1>3, <1>5, <1>8
  <2> QED BY <2>1
<1>9. ASSUME NEW k \in DOMAIN q
      PROVE  \E i \in DOMAIN past :
               /\ q[k] = past[i]
               /\ \A l \in DOMAIN past : i < l => \E j \in DOMAIN q : q[j] = past[l]
  <2>1. Nth(S, k) \in S /\ Nth(S, k) \in DOMAIN past /\ q[k] = past[Nth(S, k)]
    BY <1>2, <1>3
  <2>2. ASSUME NEW l \in DOMAIN past, Nth(S, k) < l
        PROVE  \E j \in DOMAIN q : q[j] = past[l]
    <3>1. l \in S
      BY <1>6, <2>1, <2>2
    <3>2. Rank(S, l) \in DOMAIN q /\ q[Rank(S, l)] = past[l]
      BY <1>3, <1>4, <3>1
    <3> QED BY <3>2
  <2> QED BY <2>1, <2>2
<1> QED BY <1>2, <1>3, <1>7, <1>8, <1>9 DEF Retains, q, S

\* Every deletion retains the trees after a position.
LEMMA DeletionRetains ==
  ASSUME NEW g, GroupOK(g), NEW config \in Configs
  PROVE  Retains(DeletedBy(g, config), g.past_epoch_trees)
<1>1. g.past_epoch_trees \in Seq(Trees) /\ Ordered(g.past_epoch_trees)
  BY DEF GroupOK, Groups, ListOK
<1>2. CASE config.kind = "OlderThanDuration"
  BY <1>1, <1>2, ExpiredRetains DEF DeletedBy
<1>3. CASE config.kind = "BeforeTimestamp"
  BY <1>1, <1>3, ExpiredRetains DEF DeletedBy
<1>4. CASE config.kind = "DeleteAllWithoutTimestamp"
  BY <1>1, <1>4, StampedRetains DEF DeletedBy
<1>5. CASE config.kind = "DeleteAll"
  <2>1. DeletedBy(g, config) = <<>>
    BY <1>5 DEF DeletedBy
  <2> QED BY SMTT(30), <1>1, <2>1 DEF Retains
<1> QED BY <1>2, <1>3, <1>4, <1>5 DEF Configs

-----------------------------------------------------------------------------
(* The operations keep a group consistent.                                 *)

\* A shorter list in a group that is consistent.
LEMMA ShortenedOK ==
  ASSUME NEW g, GroupOK(g), NEW q, Retains(q, g.past_epoch_trees),
         NEW policy \in Limits, NEW limit \in Limits, Len(q) <= limit
  PROVE  GroupOK([g EXCEPT !.policy = policy, !.max_epochs = limit, !.past_epoch_trees = q])
<1> DEFINE h == [g EXCEPT !.policy = policy, !.max_epochs = limit, !.past_epoch_trees = q]
<1>1. g \in Groups /\ q \in Seq(Trees)
  BY DEF GroupOK, Retains
<1>2. /\ h \in Groups /\ h.past_epoch_trees = q /\ h.epoch = g.epoch /\ h.added_at = g.added_at
      /\ h.kept = g.kept /\ h.max_epochs = limit
  BY <1>1 DEF Groups
<1> HIDE DEF h
<1>3. GroupOK(h)
  BY <1>2, RetainedOK
<1> QED BY <1>3 DEF h

\* Setting the policy and resizing the list, in the orders the two operations use.
LEMMA ResizedOK ==
  ASSUME NEW g, GroupOK(g), NEW policy \in Limits,
         NEW h, h \in {Resized([g EXCEPT !.policy = policy], policy),
                       [Resized(g, policy) EXCEPT !.policy = policy]}
  PROVE  GroupOK(h) /\ h.max_epochs = policy /\ h.policy = policy
<1> DEFINE q == Newest(g.past_epoch_trees, policy)
<1>1. g \in Groups /\ g.past_epoch_trees \in Seq(Trees) /\ policy \in Nat
  BY LimitsAssumption DEF GroupOK, Groups
<1>2. Retains(q, g.past_epoch_trees) /\ Len(q) <= policy
  BY <1>1, NewestRetains
<1>3. h = [g EXCEPT !.policy = policy, !.max_epochs = policy, !.past_epoch_trees = q]
  <2>1. q \in Seq(Trees)
    BY <1>2 DEF Retains
  <2>2. CASE h = Resized([g EXCEPT !.policy = policy], policy)
    BY <1>1, <2>2 DEF Groups, Resized
  <2>3. CASE h = [Resized(g, policy) EXCEPT !.policy = policy]
    BY <1>1, <2>3 DEF Groups, Resized
  <2> QED BY <2>2, <2>3
<1> HIDE DEF q
<1>4. GroupOK(h)
  BY <1>2, <1>3, ShortenedOK
<1> QED BY <1>1, <1>3, <1>4 DEF Groups

\* delete_past_epoch_secrets, by time and then by number.
LEMMA AfterDeletionOK ==
  ASSUME NEW g, GroupOK(g), NEW config \in Configs, NEW max \in MaxPastEpochs
  PROVE  LET h == AfterDeletion(g, config, max)
         IN GroupOK(h) /\ h.max_epochs = g.max_epochs /\ h.policy = g.policy
<1> DEFINE rest == DeletedBy(g, config)
           g1 == [g EXCEPT !.past_epoch_trees = rest]
           h == AfterDeletion(g, config, max)
<1>1. /\ g \in Groups /\ g.max_epochs \in Limits /\ g.policy \in Limits /\ g.max_epochs \in Nat
      /\ g.past_epoch_trees \in Seq(Trees) /\ Len(g.past_epoch_trees) <= g.max_epochs
  BY LimitsAssumption DEF GroupOK, Groups, ListOK
<1>2. Retains(rest, g.past_epoch_trees)
  BY DeletionRetains
<1> HIDE DEF rest
<1>3. rest \in Seq(Trees) /\ Len(rest) <= g.max_epochs
  BY SMTT(30), <1>1, <1>2 DEF Retains
<1>4. g1 = [g EXCEPT !.policy = g.policy, !.max_epochs = g.max_epochs, !.past_epoch_trees = rest]
  BY <1>1 DEF Groups
<1>5. GroupOK(g1)
  BY <1>1, <1>2, <1>3, <1>4, ShortenedOK
<1>6. CASE max = {}
  <2>1. h = g1
    BY <1>6 DEF AfterDeletion, rest
  <2> QED BY <1>1, <1>5, <2>1 DEF Groups
<1>7. CASE max # {}
  <2>1. PICK n \in Limits : max = {n}
    BY <1>7 DEF MaxPastEpochs
  <2>2. (CHOOSE m \in max : TRUE) = n /\ n \in Nat
    BY <2>1, LimitsAssumption
  <2> DEFINE q == Newest(rest, n)
  <2>3. Retains(q, rest) /\ Len(q) <= Len(rest)
    BY SMTT(30), <1>3, <2>2, NewestRetains DEF Retains
  <2>4. h = [g EXCEPT !.past_epoch_trees = q]
    BY <1>7, <2>2 DEF AfterDeletion, rest
  <2> HIDE DEF q, h
  <2>5. q \in Seq(Trees) /\ Len(q) <= g.max_epochs
    BY SMTT(30), <1>1, <1>3, <2>3 DEF Retains
  <2>6. h = [g1 EXCEPT !.policy = g.policy, !.max_epochs = g.max_epochs, !.past_epoch_trees = q]
    BY <1>1, <2>4 DEF Groups
  <2>7. g1.past_epoch_trees = rest
    BY <1>1 DEF Groups
  <2>8. GroupOK(h)
    <3> HIDE DEF g1
    <3> QED BY <1>1, <1>5, <2>3, <2>5, <2>6, <2>7, ShortenedOK
  <2> QED BY <1>1, <2>4, <2>8 DEF Groups, h
<1> QED BY <1>6, <1>7

\* merge_commit: the secrets of the epoch that ends become the newest past ones.
LEMMA MergedOK ==
  ASSUME NEW g, GroupOK(g), clock \in Times
  PROVE  /\ GroupOK(MergedGroup(g))
         /\ MergedGroup(g).max_epochs = g.max_epochs /\ MergedGroup(g).policy = g.policy
<1> DEFINE past == g.past_epoch_trees
           h == MergedGroup(g)
<1>1. /\ g \in Groups /\ ListOK(g) /\ past \in Seq(Trees) /\ Len(past) \in Nat /\ g.epoch \in Nat
      /\ g.max_epochs \in Limits /\ g.policy \in Limits /\ g.max_epochs \in Nat
      /\ Len(past) <= g.max_epochs /\ g.kept \in SUBSET Nat /\ g.added_at \in Stamps
  <2>1. g \in Groups /\ ListOK(g)
    BY DEF GroupOK
  <2>2. Len(past) <= g.max_epochs
    BY <2>1 DEF ListOK
  <2>3. /\ past \in Seq(Trees) /\ g.epoch \in Nat /\ g.kept \in SUBSET Nat /\ g.added_at \in Stamps
        /\ g.max_epochs \in Limits /\ g.policy \in Limits
    BY <2>1 DEF Groups
  <2>4. g.max_epochs \in Nat
    BY <2>3, LimitsAssumption
  <2>5. Len(past) \in Nat
    BY SMTT(30), <2>3
  <2> QED BY <2>1, <2>2, <2>3, <2>4, <2>5
<1>2. {clock} \in Stamps /\ {clock} # {} /\ g.epoch + 1 \in Nat
  BY SMTT(30), <1>1 DEF Stamps
<1>3. CASE g.max_epochs = 0
  <2>1. h = [g EXCEPT !.epoch = g.epoch + 1, !.added_at = {clock}]
    BY <1>3 DEF MergedGroup, AddPastEpochTree
  <2>2. /\ h \in Groups /\ h.past_epoch_trees = past /\ h.epoch = g.epoch + 1 /\ h.added_at = {clock}
        /\ h.kept = g.kept /\ h.max_epochs = g.max_epochs /\ h.policy = g.policy
    <3> HIDE DEF h
    <3> QED BY <1>1, <1>2, <2>1 DEF Groups
  <2> HIDE DEF h
  <2>3. DOMAIN past = {} /\ Len(past) <= 0
    BY SMTT(30), <1>1, <1>3
  <2>4. \A f \in h.kept : f < h.epoch
    BY SMTT(30), <1>1, <2>2 DEF ListOK
  <2>5. ListOK(h)
    BY <1>3, <2>2, <2>3, <2>4 DEF ListOK, Ordered, NewestSurvive
  <2> QED BY <2>2, <2>5 DEF GroupOK, h
<1>4. CASE g.max_epochs # 0
  <2> DEFINE base == IF Len(past) >= g.max_epochs THEN Newest(past, g.max_epochs - 1) ELSE past
             tree == EpochTree(g.epoch, g.added_at)
             q == Append(base, tree)
             n == Len(base)
             g1 == [g EXCEPT !.policy = g.policy, !.max_epochs = g.max_epochs, !.past_epoch_trees = base]
  <2>1. h = [g EXCEPT !.past_epoch_trees = q, !.kept = @ \cup {g.epoch},
                      !.epoch = g.epoch + 1, !.added_at = {clock}]
    BY <1>1, <1>4 DEF MergedGroup, AddPastEpochTree, Groups
  <2>2. Retains(base, past) /\ n <= g.max_epochs - 1
    <3>1. CASE Len(past) >= g.max_epochs
      <4>1. g.max_epochs - 1 \in Nat
        BY SMTT(30), <1>1, <1>4
      <4> QED BY <1>1, <3>1, <4>1, NewestRetains
    <3>2. CASE ~(Len(past) >= g.max_epochs)
      BY SMTT(30), <1>1, <3>2, ListRetains
    <3> QED BY <3>1, <3>2
  <2> HIDE DEF base
  <2>3. base \in Seq(Trees) /\ n \in Nat /\ n <= g.max_epochs
    BY SMTT(30), <1>1, <2>2 DEF Retains
  <2>4. GroupOK(g1)
    BY <1>1, <2>2, <2>3, ShortenedOK
  <2>5. g1.past_epoch_trees = base /\ g1.epoch = g.epoch /\ g1.added_at = g.added_at /\ g1.kept = g.kept
    BY <1>1 DEF Groups
  <2> HIDE DEF g1
  <2>6. /\ \A i \in DOMAIN base : base[i].epoch < g.epoch
        /\ \A f \in g.kept : f < g.epoch
        /\ g.added_at = {} => \A i \in DOMAIN base : base[i].added_at = {}
        /\ Ordered(base)
        /\ \A i \in DOMAIN base, f \in g.kept :
             f > base[i].epoch => \E j \in DOMAIN base : base[j].epoch = f
    BY <2>4, <2>5 DEF GroupOK, ListOK, NewestSurvive
  <2>7. tree \in Trees /\ tree.epoch = g.epoch /\ tree.added_at = g.added_at
    BY <1>1 DEF EpochTree, Trees
  <2> HIDE DEF tree
  <2>8. /\ q \in Seq(Trees) /\ Len(q) = n + 1 /\ DOMAIN q = 1..(n + 1) /\ DOMAIN base = 1..n
        /\ \A i \in 1..n : q[i] = base[i]
        /\ q[n + 1] = tree
    BY SMTT(30), <2>3, <2>7
  <2> HIDE DEF q, n
  <2>9. /\ h \in Groups /\ h.past_epoch_trees = q /\ h.epoch = g.epoch + 1 /\ h.added_at = {clock}
        /\ h.kept = g.kept \cup {g.epoch} /\ h.max_epochs = g.max_epochs /\ h.policy = g.policy
    <3> HIDE DEF h
    <3> QED BY <1>1, <1>2, <2>1, <2>8 DEF Groups
  <2> HIDE DEF h
  <2>10. \A i \in DOMAIN q : i = n + 1 \/ i \in 1..n
    BY SMTT(30), <2>3, <2>8
  <2>11. \A i \in 1..n : base[i].epoch \in Nat
    <3>1. \A i \in 1..n : base[i] \in Trees
      BY SMTT(30), <2>3, <2>8
    <3> QED BY <3>1 DEF Trees
  <2>12. \A i \in DOMAIN q : q[i].epoch < h.epoch
    BY SMTT(30), <1>1, <2>6, <2>7, <2>8, <2>9, <2>10, <2>11
  <2>13. \A f \in h.kept : f < h.epoch
    BY SMTT(30), <1>1, <2>6, <2>9
  <2>14. ASSUME NEW i \in DOMAIN q, NEW j \in DOMAIN q, i < j
         PROVE  q[i].epoch < q[j].epoch /\ (q[j].added_at = {} => q[i].added_at = {})
    <3>1. i \in 1..n /\ q[i] = base[i]
      BY SMTT(30), <2>3, <2>8, <2>10, <2>14
    <3>2. CASE j = n + 1
      BY <2>6, <2>7, <2>8, <3>1, <3>2
    <3>3. CASE j \in 1..n
      BY <2>6, <2>8, <2>14, <3>1, <3>3 DEF Ordered
    <3> QED BY <2>10, <3>2, <3>3
  <2>15. ASSUME NEW i \in DOMAIN q, NEW f \in g.kept \cup {g.epoch}, f > q[i].epoch
         PROVE  \E j \in DOMAIN q : q[j].epoch = f
    <3>1. CASE f = g.epoch
      <4>1. n + 1 \in DOMAIN q /\ q[n + 1].epoch = f
        BY SMTT(30), <2>3, <2>7, <2>8, <3>1
      <4> QED BY <4>1
    <3>2. CASE f \in g.kept /\ f # g.epoch
      <4>1. f \in Nat /\ f < g.epoch
        BY <1>1, <2>6, <3>2
      <4>2. i \in 1..n
        BY SMTT(30), <1>1, <2>7, <2>8, <2>10, <2>15, <4>1
      <4>3. PICK j \in DOMAIN base : base[j].epoch = f
        BY <2>6, <2>8, <2>15, <3>2, <4>2
      <4>4. j \in DOMAIN q /\ q[j].epoch = f
        BY SMTT(30), <2>3, <2>8, <4>3
      <4> QED BY <4>4
    <3> QED BY <3>1, <3>2
  <2>16. Ordered(q)
    BY <2>14 DEF Ordered
  <2>17. NewestSurvive(h)
    BY <2>9, <2>15 DEF NewestSurvive
  <2>18. Len(q) <= h.max_epochs
    BY SMTT(30), <1>1, <2>2, <2>3, <2>8, <2>9 DEF n
  <2>19. ListOK(h)
    BY <1>2, <2>9, <2>12, <2>13, <2>16, <2>17, <2>18 DEF ListOK
  <2> QED BY <2>9, <2>19 DEF GroupOK, h
<1> QED BY <1>3, <1>4

\* A new group, and one that an older version stored.
LEMMA InitInv == Init => IInv
<1> SUFFICES ASSUME Init PROVE IInv
  OBVIOUS
<1>1. PICK policy \in Limits :
        \/ mem = Group(policy, 0, {clock}, <<>>)
        \/ \E past \in LegacyLists(2, policy) : mem = Group(policy, 2, {}, EpochTreesOldestFirst(past))
  BY DEF Init
<1>2. policy \in Nat /\ clock \in Times /\ disk = mem /\ failed = FALSE
  BY LimitsAssumption DEF Init
<1>3. CASE mem = Group(policy, 0, {clock}, <<>>)
  <2>1. {clock} \in Stamps /\ {clock} # {}
    BY <1>2 DEF Stamps
  <2>2. /\ mem \in Groups /\ mem.past_epoch_trees = <<>> /\ mem.kept = {}
        /\ mem.added_at # {} /\ mem.max_epochs = policy /\ mem.policy = policy
    BY SMTT(30), <1>2, <1>3, <2>1 DEF Group, Groups
  <2>3. Len(mem.past_epoch_trees) <= mem.max_epochs /\ DOMAIN mem.past_epoch_trees = {}
    BY SMTT(30), <1>2, <2>2
  <2>4. ListOK(mem)
    BY <2>2, <2>3 DEF ListOK, Ordered, NewestSurvive
  <2> QED BY <1>2, <2>2, <2>4 DEF IInv, GroupOK
<1>4. ASSUME NEW past \in LegacyLists(2, policy), mem = Group(policy, 2, {}, EpochTreesOldestFirst(past))
      PROVE  IInv
  <2> DEFINE q == EpochTreesOldestFirst(past)
  <2>1. /\ past \in Seq(Trees) /\ Len(past) <= policy
        /\ \A i \in DOMAIN past : past[i].epoch < 2 /\ past[i].added_at = {}
    <3>0. PICK x \in {y \in SUBSET (0..(2 - 1)) : Cardinality(y) <= policy} :
            past \in {[i \in DOMAIN b |-> EpochTree(b[i], {})] : b \in Bijection(1..Cardinality(x), x)}
      BY DEF LegacyLists
    <3>1. PICK b \in Bijection(1..Cardinality(x), x) :
            past = [i \in DOMAIN b |-> EpochTree(b[i], {})]
      BY <3>0
    <3>2. IsFiniteSet(x) /\ Cardinality(x) \in Nat /\ x \in SUBSET (0..(2 - 1))
      <4>1. 0 \in Int /\ 2 - 1 \in Int
        BY SMTT(30)
      <4>2. IsFiniteSet(0..(2 - 1))
        BY <4>1, FS_Interval
      <4>3. x \in SUBSET (0..(2 - 1))
        BY <3>0
      <4> QED BY <4>2, <4>3, FS_Subset, FS_CardinalityType
    <3>3. DOMAIN b = 1..Cardinality(x) /\ \A i \in 1..Cardinality(x) : b[i] \in x
      BY <3>1 DEF Bijection, Injection
    <3>4. \A i \in DOMAIN b : /\ EpochTree(b[i], {}) \in Trees
                              /\ EpochTree(b[i], {}).epoch < 2 /\ EpochTree(b[i], {}).added_at = {}
      <4>0. \A i \in DOMAIN b : b[i] \in 0..(2 - 1)
        BY <3>2, <3>3
      <4>1. \A i \in DOMAIN b : b[i] \in Nat /\ b[i] < 2
        BY SMTT(30), <4>0
      <4> QED BY <4>1 DEF EpochTree, Trees, Stamps
    <3>5. PICK n : n = Cardinality(x)
      OBVIOUS
    <3>6. past \in [1..n -> Trees] /\ n \in Nat /\ n <= policy
      BY <3>1, <3>2, <3>3, <3>4, <3>5
    <3>7. past \in Seq(Trees) /\ Len(past) = n
      BY SMTT(30), <3>6
    <3> QED BY <3>1, <3>4, <3>6, <3>7
  <2>2. /\ q \in Seq(Trees) /\ Len(q) <= Len(past)
        /\ \A k \in DOMAIN q : \E i \in DOMAIN past : q[k] = past[i]
        /\ \A k, l \in DOMAIN q : k < l => q[k].epoch < q[l].epoch
    BY <2>1, SortedList
  <2> HIDE DEF q
  <2>3. mem = Group(policy, 2, {}, q)
    BY <1>4 DEF q
  <2>4. \A i \in DOMAIN q : q[i].epoch \in Nat /\ q[i].epoch < 2 /\ q[i].added_at = {}
    <3>1. \A i \in DOMAIN q : q[i] \in Trees
      BY SMTT(30), <2>2
    <3> QED BY <2>1, <2>2, <3>1 DEF Trees
  <2>5. /\ mem \in Groups /\ mem.past_epoch_trees = q /\ mem.kept = {q[i].epoch : i \in DOMAIN q}
        /\ mem.max_epochs = policy /\ mem.policy = policy /\ mem.epoch = 2 /\ mem.added_at = {}
    BY SMTT(30), <1>2, <2>2, <2>3, <2>4 DEF Group, Groups, Stamps
  <2>6. Ordered(q) /\ Len(q) <= policy
    BY SMTT(30), <1>2, <2>1, <2>2, <2>4 DEF Ordered
  <2>7. /\ \A f \in mem.kept : f < mem.epoch
        /\ NewestSurvive(mem)
    BY <2>4, <2>5 DEF NewestSurvive
  <2>8. ListOK(mem)
    BY <2>4, <2>5, <2>6, <2>7 DEF ListOK
  <2> QED BY <1>2, <2>5, <2>8 DEF IInv, GroupOK
<1> QED BY <1>1, <1>3, <1>4

\* The groups after a step.
LEMMA PrimedOK ==
  ASSUME GroupOK(mem'), GroupOK(disk')
  PROVE  GroupOK(mem)' /\ GroupOK(disk)'
BY DEF GroupOK, Groups, ListOK, Ordered, NewestSurvive, Trees, Stamps, Times

\* What an operation writes, or fails to write.
LEMMA WriteOrFailInv ==
  ASSUME IInv, NEW new, GroupOK(new), new.max_epochs = new.policy,
         WriteOrFail(new), UNCHANGED clock
  PROVE  IInv'
<1>1. mem' = new /\ clock' = clock
  BY DEF WriteOrFail
<1>2. GroupOK(mem') /\ mem'.max_epochs = mem'.policy
  BY <1>1
<1>3. (disk' = new /\ failed' = FALSE) \/ (disk' = disk /\ failed' = TRUE)
  BY DEF WriteOrFail
<1>4. GroupOK(disk') /\ disk'.max_epochs = disk'.policy /\ failed' \in BOOLEAN
  BY <1>3 DEF IInv
<1>5. GroupOK(mem)' /\ GroupOK(disk)'
  BY <1>2, <1>4, PrimedOK
<1> QED BY <1>1, <1>2, <1>4, <1>5 DEF IInv, Times

\* Every step keeps the invariant.
LEMMA NextInv ==
  ASSUME IInv, [Next]_vars
  PROVE  IInv'
<1>1. GroupOK(mem) /\ GroupOK(disk) /\ clock \in Times /\ mem \in Groups
  BY DEF IInv, GroupOK
<1>2. CASE MergeCommit
  <2>1. ~failed /\ WriteOrFail(MergedGroup(mem)) /\ UNCHANGED clock
    BY <1>2 DEF MergeCommit
  <2>2. GroupOK(MergedGroup(mem)) /\ MergedGroup(mem).max_epochs = MergedGroup(mem).policy
    BY <1>1, <2>1, MergedOK DEF IInv
  <2> QED BY <2>1, <2>2, WriteOrFailInv
<1>3. ASSUME NEW policy \in Limits, SetConfiguration(policy)
      PROVE  IInv'
  <2> DEFINE configured == [mem EXCEPT !.policy = policy]
             resized == Resized(configured, policy)
  <2>1. ~failed /\ UNCHANGED clock /\ mem.max_epochs = mem.policy
    BY <1>3 DEF SetConfiguration, IInv
  <2>2. configured = [mem EXCEPT !.policy = policy, !.max_epochs = mem.max_epochs,
                                 !.past_epoch_trees = mem.past_epoch_trees]
    BY <1>1 DEF Groups
  <2>3. GroupOK(configured) /\ configured.policy = policy
    <3>1. /\ mem.max_epochs \in Limits /\ mem.past_epoch_trees \in Seq(Trees)
          /\ Len(mem.past_epoch_trees) <= mem.max_epochs /\ configured.policy = policy
      BY <1>1 DEF GroupOK, Groups, ListOK
    <3>2. Retains(mem.past_epoch_trees, mem.past_epoch_trees)
      BY <3>1, ListRetains
    <3>3. GroupOK([mem EXCEPT !.policy = policy, !.max_epochs = mem.max_epochs,
                              !.past_epoch_trees = mem.past_epoch_trees])
      BY <1>1, <3>1, <3>2, ShortenedOK
    <3> QED BY <2>2, <3>1, <3>3
  <2>4. CASE mem' = configured /\ UNCHANGED disk /\ failed' = TRUE
    <3>1. GroupOK(mem')
      BY <2>3, <2>4
    <3>2. GroupOK(disk') /\ disk'.max_epochs = disk'.policy
      BY <2>4 DEF IInv
    <3>3. GroupOK(mem)' /\ GroupOK(disk)'
      BY <3>1, <3>2, PrimedOK
    <3> QED BY <1>1, <2>1, <2>4, <3>2, <3>3 DEF IInv, Times
  <2>5. CASE policy = mem.policy /\ WriteOrFail(configured)
    <3>1. configured = mem
      BY <1>1, <2>5 DEF Groups
    <3> QED BY <1>1, <2>1, <2>5, <3>1, WriteOrFailInv
  <2>6. CASE WriteOrFail(resized)
    <3>1. GroupOK(resized) /\ resized.max_epochs = policy /\ resized.policy = policy
      BY <1>1, ResizedOK
    <3> QED BY <2>1, <2>6, <3>1, WriteOrFailInv
  <2> QED BY <1>3, <2>4, <2>5, <2>6 DEF SetConfiguration
<1>4. ASSUME NEW policy \in Limits, SetPastEpochDeletionPolicy(policy)
      PROVE  IInv'
  <2> DEFINE new == [Resized(mem, policy) EXCEPT !.policy = policy]
  <2>1. WriteOrFail(new) /\ UNCHANGED clock
    BY <1>4 DEF SetPastEpochDeletionPolicy
  <2>2. GroupOK(new) /\ new.max_epochs = policy /\ new.policy = policy
    BY <1>1, ResizedOK
  <2> QED BY <2>1, <2>2, WriteOrFailInv
<1>5. ASSUME NEW config \in Configs, NEW max \in MaxPastEpochs, DeletePastEpochSecrets(config, max)
      PROVE  IInv'
  <2> DEFINE new == AfterDeletion(mem, config, max)
  <2>1. ~failed /\ WriteOrFail(new) /\ UNCHANGED clock
    BY <1>5 DEF DeletePastEpochSecrets
  <2>2. GroupOK(new) /\ new.max_epochs = mem.max_epochs /\ new.policy = mem.policy
    BY <1>1, AfterDeletionOK
  <2> QED BY <2>1, <2>2, WriteOrFailInv DEF IInv
<1>6. CASE Load
  <2> DEFINE new == [disk EXCEPT !.past_epoch_trees = EpochTreesOldestFirst(@)]
  <2>1. mem' = new /\ failed' = FALSE /\ disk' = disk /\ clock' = clock
    BY <1>6 DEF Load
  <2>2. GroupOK(new) /\ new.max_epochs = disk.max_epochs /\ new.policy = disk.policy
    BY <1>1, LoadedOK
  <2> HIDE DEF new
  <2>3. GroupOK(mem)' /\ GroupOK(disk)'
    BY <1>1, <2>1, <2>2, PrimedOK
  <2> QED BY <2>1, <2>2, <2>3 DEF IInv, Times
<1>7. ASSUME NEW t \in Times, SetClock(t)
      PROVE  IInv'
  <2>1. GroupOK(mem)' /\ GroupOK(disk)'
    BY <1>1, <1>7, PrimedOK DEF SetClock
  <2> QED BY <1>7, <2>1 DEF SetClock, IInv, Times
<1>8. CASE UNCHANGED vars
  <2>1. GroupOK(mem)' /\ GroupOK(disk)'
    BY <1>1, <1>8, PrimedOK DEF vars
  <2> QED BY <1>8, <2>1 DEF vars, IInv, Times
<1> QED BY <1>2, <1>3, <1>4, <1>5, <1>6, <1>7, <1>8 DEF Next

\* The invariant holds at all times.
LEMMA StoreInv == Spec => []IInv
<1>1. Init => IInv
  BY InitInv
<1>2. IInv /\ [Next]_vars => IInv'
  BY NextInv
<1> QED BY <1>1, <1>2, PTL DEF Spec

-----------------------------------------------------------------------------
(* The results.                                                            *)

\* Whatever resizing, eviction and deletion are combined, a lookup finds at most
\* one tree per epoch, the limit is kept, and the oldest secrets go first.
THEOREM SecretsOldestGoFirst == Spec => []OldestGoFirst
<1>1. IInv => OldestGoFirst
  BY DEF IInv, GroupOK, ListOK, Ordered, OldestGoFirst, OldestFirstWithinLimit
<1> QED BY <1>1, StoreInv, PTL

\* The number of epochs that are kept is the configured one, also after storage
\* errors.
THEOREM SecretsPolicyIsApplied == Spec => []PolicyIsApplied
<1>1. IInv => PolicyIsApplied
  BY DEF IInv, PolicyIsApplied
<1> QED BY <1>1, StoreInv, PTL

\* Deletion by a timestamp, without a limit on the number: exactly what is known
\* to be older goes, and what is not known to be younger than it.
LEMMA DeletedBefore ==
  ASSUME NEW g, GroupOK(g), NEW cutoff \in Times
  PROVE  LET rest == DeleteExpired(g, Before(cutoff))
             past == g.past_epoch_trees
         IN /\ \A i \in DOMAIN rest : rest[i].added_at \cap Before(cutoff) = {}
            /\ BeganInOrder(g) =>
                 \A i \in DOMAIN past : (\E s \in past[i].added_at : s >= cutoff) =>
                   \E j \in DOMAIN rest : rest[j] = past[i]
<1> DEFINE expired == Before(cutoff)
           past == g.past_epoch_trees
           rest == DeleteExpired(g, expired)
           k == LastFound(g, expired)
<1>1. /\ past \in Seq(Trees) /\ g.added_at \in Stamps /\ Len(past) \in Nat /\ DOMAIN past = 1..Len(past)
      /\ \A i \in DOMAIN past : past[i] \in Trees
  BY SMTT(30) DEF GroupOK, Groups
<1>2. \A t \in expired : t \in Int /\ t < cutoff
  BY SMTT(30) DEF Before, Times
<1>3. cutoff \in Int /\ Times \in SUBSET Int
  BY SMTT(30) DEF Times
<1>4. \A i \in DOMAIN past : past[i].added_at \in Stamps
  BY <1>1 DEF Trees
<1> HIDE DEF expired
<1>5. BeganInOrder(g) =>
        /\ \A i, j \in DOMAIN past : i < j => \A s \in past[i].added_at, t \in past[j].added_at : s <= t
        /\ \A i \in DOMAIN past : \A s \in past[i].added_at, t \in g.added_at : s <= t
  <2> DEFINE stamps == [i \in DOMAIN past |-> past[i].added_at]
             starts == Append(stamps, g.added_at)
  <2>1. stamps \in Seq(Stamps) /\ Len(stamps) = Len(past)
    <3>1. PICK n : n = Len(past)
      OBVIOUS
    <3>2. stamps \in [1..n -> Stamps] /\ n \in Nat
      BY <1>1, <1>4, <3>1
    <3> HIDE DEF stamps
    <3> QED BY SMTT(30), <3>1, <3>2
  <2>2. \A i \in DOMAIN past : stamps[i] = past[i].added_at
    OBVIOUS
  <2> HIDE DEF stamps
  <2>3. /\ DOMAIN starts = 1..(Len(past) + 1) /\ starts[Len(past) + 1] = g.added_at
        /\ \A i \in DOMAIN past : starts[i] = stamps[i]
    BY SMTT(30), <1>1, <2>1
  <2>4. BeganInOrder(g) => \A i, j \in DOMAIN starts : i < j => \A s \in starts[i], t \in starts[j] : s <= t
    BY DEF BeganInOrder, stamps
  <2> HIDE DEF starts
  <2>5. \A i \in DOMAIN past : i \in DOMAIN starts /\ i < Len(past) + 1
    BY SMTT(30), <1>1, <2>3
  <2>6. Len(past) + 1 \in DOMAIN starts
    BY SMTT(30), <1>1, <2>3
  <2> QED BY <2>2, <2>3, <2>4, <2>5, <2>6
<1>6. CASE g.added_at \cap expired # {}
  <2>1. rest = <<>>
    BY <1>6 DEF DeleteExpired
  <2>2. ASSUME BeganInOrder(g), NEW i \in DOMAIN past, NEW s \in past[i].added_at, s >= cutoff
        PROVE  FALSE
    <3>1. PICK t \in g.added_at : t \in expired
      BY <1>6
    <3>2. s \in Int /\ s <= t
      BY <1>3, <1>4, <1>5, <2>2, <3>1 DEF Stamps
    <3> QED BY SMTT(30), <1>2, <1>3, <2>2, <3>1, <3>2
  <2> QED BY SMTT(30), <2>1, <2>2 DEF expired
<1>7. CASE g.added_at \cap expired = {}
  <2>1. rest = SubSeq(past, k + 1, Len(past))
    BY <1>7 DEF DeleteExpired, LastFound
  <2>2. /\ k \in 0..Len(past)
        /\ k # 0 => past[k].added_at \cap expired # {}
        /\ \A i \in DOMAIN past : past[i].added_at \cap expired # {} => i <= k
    BY <1>1, LastFoundIsLast
  <2> HIDE DEF k
  <2>3. /\ rest \in Seq(Trees) /\ Len(rest) = Len(past) - k /\ DOMAIN rest = 1..Len(rest)
        /\ \A i \in DOMAIN rest : i + k \in DOMAIN past /\ rest[i] = past[i + k]
        /\ \A l \in DOMAIN past : l > k => l - k \in DOMAIN rest /\ rest[l - k] = past[l]
    <3> HIDE DEF rest
    <3>1. /\ rest \in Seq(Trees) /\ Len(rest) = Len(past) - k
          /\ \A i \in DOMAIN rest : i + k \in DOMAIN past /\ rest[i] = past[i + k]
          /\ \A l \in DOMAIN past : l > k => l - k \in DOMAIN rest /\ rest[l - k] = past[l]
      BY <1>1, <2>1, <2>2, SubSeqEntries
    <3>2. DOMAIN rest = 1..Len(rest)
      BY SMTT(30), <3>1
    <3> QED BY <3>1, <3>2
  <2> HIDE DEF rest
  <2>4. ASSUME NEW i \in DOMAIN rest
        PROVE  rest[i].added_at \cap expired = {}
    <3>1. i + k \in DOMAIN past /\ rest[i] = past[i + k] /\ ~(i + k <= k)
      BY SMTT(30), <1>1, <2>2, <2>3
    <3> QED BY <2>2, <3>1
  <2>5. ASSUME BeganInOrder(g), NEW i \in DOMAIN past, NEW s \in past[i].added_at, s >= cutoff
        PROVE  \E j \in DOMAIN rest : rest[j] = past[i]
    <3>1. ~(i <= k)
      <4>1. SUFFICES ASSUME i <= k PROVE FALSE
        OBVIOUS
      <4>2. k # 0 /\ k \in DOMAIN past /\ i \in Int /\ k \in Int
        BY SMTT(30), <1>1, <2>2, <4>1
      <4>3. PICK t \in past[k].added_at : t \in expired
        BY <2>2, <4>2
      <4>4. s \in Int
        BY <1>3, <1>4, <2>5 DEF Stamps
      <4>5. CASE i = k
        <5>1. s = t
          BY SMTT(30), <1>4, <2>5, <4>3, <4>5 DEF Stamps
        <5> QED BY SMTT(30), <1>2, <1>3, <2>5, <4>3, <4>4, <5>1
      <4>6. CASE i < k
        <5>1. s <= t
          BY <1>5, <2>5, <4>2, <4>3, <4>6
        <5> QED BY SMTT(30), <1>2, <1>3, <2>5, <4>3, <4>4, <5>1
      <4> QED BY SMTT(30), <4>1, <4>2, <4>5, <4>6
    <3>2. i > k
      BY SMTT(30), <1>1, <2>2, <3>1
    <3> QED BY <2>3, <3>2
  <2> QED BY <2>4, <2>5 DEF expired, rest
<1> QED BY <1>6, <1>7

\* No step of delete_past_epoch_secrets leaves an expired secret, and none takes
\* a secret inside the retention window.
THEOREM SecretsDeletionIsExact == Spec => DeletionIsExact
<1> DEFINE Exact ==
      \A cutoff \in Times, max \in MaxPastEpochs :
        DeletePastEpochSecrets([kind |-> "BeforeTimestamp", time |-> cutoff], max) =>
          /\ \A t \in Range(mem'.past_epoch_trees) : t.added_at \cap Before(cutoff) = {}
          /\ max = {} /\ BeganInOrder(mem) =>
               \A t \in Range(mem.past_epoch_trees) :
                 (\E s \in t.added_at : s >= cutoff) => t \in Range(mem'.past_epoch_trees)
<1>1. IInv => Exact
  <2> SUFFICES ASSUME IInv, NEW cutoff \in Times, NEW max \in MaxPastEpochs,
                      DeletePastEpochSecrets([kind |-> "BeforeTimestamp", time |-> cutoff], max)
               PROVE  /\ \A t \in Range(mem'.past_epoch_trees) : t.added_at \cap Before(cutoff) = {}
                      /\ max = {} /\ BeganInOrder(mem) =>
                           \A t \in Range(mem.past_epoch_trees) :
                             (\E s \in t.added_at : s >= cutoff) => t \in Range(mem'.past_epoch_trees)
    OBVIOUS
  <2> DEFINE config == [kind |-> "BeforeTimestamp", time |-> cutoff]
             past == mem.past_epoch_trees
             rest == DeleteExpired(mem, Before(cutoff))
             q == mem'.past_epoch_trees
  <2>1. GroupOK(mem) /\ mem \in Groups /\ past \in Seq(Trees)
    BY DEF IInv, GroupOK, Groups
  <2>2. mem' = AfterDeletion(mem, config, max)
    BY DEF DeletePastEpochSecrets, WriteOrFail
  <2>3. DeletedBy(mem, config) = rest
    BY DEF DeletedBy
  <2>4. Retains(rest, past)
    BY <2>1, ExpiredRetains
  <2>5. /\ \A i \in DOMAIN rest : rest[i].added_at \cap Before(cutoff) = {}
        /\ BeganInOrder(mem) =>
             \A i \in DOMAIN past : (\E s \in past[i].added_at : s >= cutoff) =>
               \E j \in DOMAIN rest : rest[j] = past[i]
    BY <2>1, DeletedBefore
  <2> HIDE DEF rest, config
  <2>6. q = IF max = {} THEN rest ELSE Newest(rest, CHOOSE n \in max : TRUE)
    BY SMTT(30), <2>1, <2>2, <2>3 DEF AfterDeletion, Groups
  <2>7. \A i \in DOMAIN q : \E j \in DOMAIN rest : q[i] = rest[j]
    <3>1. CASE max = {}
      BY <2>6, <3>1
    <3>2. CASE max # {}
      <4>1. PICK n \in Limits : max = {n}
        BY <3>2 DEF MaxPastEpochs
      <4>2. (CHOOSE m \in max : TRUE) = n /\ n \in Nat
        BY <4>1, LimitsAssumption
      <4>3. q = Newest(rest, n)
        BY <2>6, <3>2, <4>2
      <4>4. Retains(q, rest)
        BY SMTT(30), <2>4, <4>2, <4>3, NewestRetains DEF Retains
      <4> QED BY <4>4 DEF Retains
    <3> QED BY <3>1, <3>2
  <2>8. \A t \in Range(q) : t.added_at \cap Before(cutoff) = {}
    <3>1. SUFFICES ASSUME NEW t \in Range(q)
                   PROVE  t.added_at \cap Before(cutoff) = {}
      OBVIOUS
    <3>2. PICK i \in DOMAIN q : t = q[i]
      BY <3>1 DEF Range
    <3>3. PICK j \in DOMAIN rest : q[i] = rest[j]
      BY <2>7
    <3> QED BY <2>5, <3>2, <3>3
  <2>9. ASSUME max = {}, BeganInOrder(mem), NEW t \in Range(past), \E s \in t.added_at : s >= cutoff
        PROVE  t \in Range(q)
    <3>1. PICK i \in DOMAIN past : t = past[i]
      BY <2>9 DEF Range
    <3>2. PICK j \in DOMAIN rest : rest[j] = t
      BY <2>5, <2>9, <3>1
    <3> QED BY <2>6, <2>9, <3>2 DEF Range
  <2> QED BY <2>8, <2>9
<1>2. IInv => [Exact]_vars
  BY <1>1
<1> QED BY <1>2, StoreInv, PTL DEF DeletionIsExact
=============================================================================
