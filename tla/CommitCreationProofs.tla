------------------------ MODULE CommitCreationProofs ------------------------
(***************************************************************************)
(* A commit that its builder accepts is accepted by every member that has  *)
(* the proposals, loses no removal, and keeps the members apart.           *)
(***************************************************************************)
EXTENDS CommitCreation, ProposalQueueProofs

\* The prover of a leaf that names none.
USE ZenonT(30)

-----------------------------------------------------------------------------
(* What filter_proposals keeps.                                            *)

IsListed(p, list) == \E k \in DOMAIN list : list[k] = p

\* The winners are all on the list that filter_proposals makes.
LEMMA WinnersAreListed ==
  ASSUME NEW T, NEW queue \in Seq(T), NEW own, NEW list \in FilterProposals(queue, own),
         NEW p \in MemberSpecificWinners(queue, own)
  PROVE  IsListed(p, list)
<1> DEFINE A == Deduplicated(queue, OfType(queue, "Add"))
           V == Deduplicated(queue, ValidInOrder(queue))
           W == MemberSpecificWinners(queue, own)
           u == A \o V
<1>1. PICK w \in Bijection(1..Cardinality(W), W) : list = u \o w
  BY DEF FilterProposals
<1>2. A \in Seq(T) /\ V \in Seq(T)
  <2>1. OfType(queue, "Add") \in SUBSET DOMAIN queue /\ ValidInOrder(queue) \in SUBSET DOMAIN queue
    BY DEF OfType, ValidInOrder
  <2> QED BY <2>1, DeduplicatedEntries
<1>3. W \in SUBSET {queue[i] : i \in DOMAIN queue}
  BY DEF MemberSpecificWinners
<1>4. \A q \in W : q \in T
  BY SMTT(30), <1>3
<1>5. IsFiniteSet(W)
  <2> HIDE DEF W
  <2>1. IsFiniteSet({queue[i] : i \in DOMAIN queue})
    BY FiniteRange
  <2> QED BY <1>3, <2>1, FS_Subset
<1> HIDE DEF W, A, V
<1>6. PICK n : n = Cardinality(W)
  OBVIOUS
<1>7. n \in Nat /\ w \in [1..n -> W] /\ \E k \in 1..n : w[k] = p
  <2>1. n \in Nat
    BY <1>5, <1>6, FS_CardinalityType
  <2> QED BY <1>1, <1>6, <2>1 DEF Bijection, Injection, Surjection, W
<1>8. w \in Seq(T) /\ DOMAIN w = 1..n
  BY SMTT(30), <1>4, <1>7
<1>9. u \in Seq(T)
  BY SMTT(30), <1>2
<1> HIDE DEF u
<1>10. PICK k \in 1..n : w[k] = p
  BY <1>7
<1>11. Len(u) + k \in DOMAIN (u \o w) /\ (u \o w)[Len(u) + k] = w[k]
  BY SMTT(30), <1>7, <1>8, <1>9
<1> QED BY <1>1, <1>10, <1>11 DEF IsListed

IsRemoved(m, winners) ==
  \E p \in winners : p.type \in {"Remove", "SelfRemove"} /\ Concerned(p) = m

\* A member whose removal is in the queue has a removal among the winners: the
\* last SelfRemove, or the last Remove if there is no SelfRemove.
LEMMA RemovalsWin ==
  ASSUME NEW T, NEW queue \in Seq(T), NEW own, NEW m \in RemovedMembers(queue)
  PROVE  IsRemoved(m, MemberSpecificWinners(queue, own))
<1> DEFINE eligible == {i \in DOMAIN queue : /\ queue[i].type \in MemberSpecific
                                             /\ ~(queue[i].type = "Update" /\ queue[i].sender = own)}
           registered(i) ==
             \A j \in eligible : Concerned(queue[j]) = Concerned(queue[i]) =>
               /\ j < i => HasLowerPriorityThan(queue[j], queue[i])
               /\ i < j => ~HasLowerPriorityThan(queue[i], queue[j])
           S == {i \in DOMAIN queue : queue[i].type = "SelfRemove" /\ queue[i].sender = m}
           R == {i \in DOMAIN queue : queue[i].type = "Remove" /\ queue[i].subject = m}
<1>1. S \cup R # {}
  BY DEF RemovedMembers, SubjectsOf, SendersOf, OfType
<1>2. DOMAIN queue \in SUBSET Int /\ IsFiniteSet(DOMAIN queue)
  <2>1. DOMAIN queue = 1..Len(queue) /\ Len(queue) \in Nat
    BY SMTT(30)
  <2> QED BY SMTT(30), <2>1, FS_Interval
<1>3. \A X \in SUBSET DOMAIN queue : X # {} => \E x \in X : \A y \in X : x >= y
  <2>1. SUFFICES ASSUME NEW X \in SUBSET DOMAIN queue, X # {}
                 PROVE  \E x \in X : \A y \in X : x >= y
    OBVIOUS
  <2>2. X \in SUBSET Int /\ IsFiniteSet(X)
    BY <1>2, FS_Subset
  <2> QED BY <2>1, <2>2, GreatestMember
<1>4. \A i \in eligible : registered(i) => queue[i] \in MemberSpecificWinners(queue, own)
  BY DEF MemberSpecificWinners
<1>5. CASE S # {}
  <2>1. PICK i \in S : \A j \in S : i >= j
    <3>1. S \in SUBSET DOMAIN queue
      OBVIOUS
    <3> HIDE DEF S
    <3> QED BY <1>3, <1>5, <3>1
  <2>2. /\ i \in DOMAIN queue /\ queue[i].type = "SelfRemove" /\ queue[i].sender = m
        /\ Concerned(queue[i]) = m /\ i \in eligible
    BY DEF Concerned, MemberSpecific
  <2>3. ASSUME NEW j \in eligible, Concerned(queue[j]) = m, i < j
        PROVE  ~HasLowerPriorityThan(queue[i], queue[j])
    <3>1. ~(i >= j)
      BY SMTT(30), <1>2, <2>2, <2>3
    <3>2. j \notin S
      BY <2>1, <3>1
    <3>3. queue[j].type # "SelfRemove"
      BY <2>3, <3>2 DEF Concerned
    <3> QED BY <2>2, <3>3 DEF HasLowerPriorityThan
  <2>4. registered(i)
    BY <2>2, <2>3 DEF HasLowerPriorityThan
  <2> QED BY <1>4, <2>2, <2>4 DEF IsRemoved
<1>6. CASE S = {}
  <2>1. PICK i \in R : \A j \in R : i >= j
    <3>1. R \in SUBSET DOMAIN queue /\ R # {}
      BY <1>1, <1>6
    <3> HIDE DEF R
    <3> QED BY <1>3, <3>1
  <2>2. /\ i \in DOMAIN queue /\ queue[i].type = "Remove" /\ queue[i].subject = m
        /\ Concerned(queue[i]) = m /\ i \in eligible
    BY DEF Concerned, MemberSpecific
  <2>3. ASSUME NEW j \in eligible, Concerned(queue[j]) = m
        PROVE  queue[j].type = "Update" \/ (queue[j].type = "Remove" /\ j \in R)
    BY <1>6, <2>3 DEF Concerned, MemberSpecific
  <2>4. ASSUME NEW j \in eligible, Concerned(queue[j]) = m, i < j
        PROVE  ~HasLowerPriorityThan(queue[i], queue[j])
    <3>1. ~(i >= j)
      BY SMTT(30), <1>2, <2>2, <2>4
    <3>2. queue[j].type = "Update"
      BY <2>1, <2>3, <2>4, <3>1
    <3> QED BY <2>2, <3>2 DEF HasLowerPriorityThan
  <2>5. ASSUME NEW j \in eligible, Concerned(queue[j]) = m
        PROVE  HasLowerPriorityThan(queue[j], queue[i])
    BY <2>2, <2>3, <2>5 DEF HasLowerPriorityThan
  <2>6. registered(i)
    BY <2>2, <2>4, <2>5
  <2> QED BY <1>4, <2>2, <2>6 DEF IsRemoved
<1> QED BY <1>5, <1>6

\* filter_proposals loses no removal.
LEMMA RemovalsStay ==
  ASSUME NEW T, NEW queue \in Seq(T), NEW own, NEW list \in FilterProposals(queue, own)
  PROVE  RemovedMembers(queue) \subseteq RemovedMembers(list)
<1>1. SUFFICES ASSUME NEW m \in RemovedMembers(queue)
               PROVE  m \in RemovedMembers(list)
  OBVIOUS
<1>2. PICK p \in MemberSpecificWinners(queue, own) :
        p.type \in {"Remove", "SelfRemove"} /\ Concerned(p) = m
  <2>1. IsRemoved(m, MemberSpecificWinners(queue, own))
    BY RemovalsWin
  <2> QED BY <2>1 DEF IsRemoved
<1>3. PICK k \in DOMAIN list : list[k] = p
  <2>1. IsListed(p, list)
    BY WinnersAreListed
  <2> QED BY <2>1 DEF IsListed
<1> QED BY <1>2, <1>3 DEF RemovedMembers, SubjectsOf, SendersOf, OfType, Concerned

-----------------------------------------------------------------------------
(* What a receiver rebuilds and checks.                                    *)

\* from_committed_proposals can only miss proposals of a commit that its builder
\* has checked.
LEMMA OnlyMissingProposals ==
  ASSUME NEW T, NEW queue \in Seq(T), NEW store, NEW committer,
         \A i \in DOMAIN queue : queue[i].byRef =>
           \A j \in DOMAIN store : store[j].id = queue[i].id => store[j] = queue[i],
         \A i \in OfType(queue, "Remove") : queue[i].subject # committer,
         ValidatePreSharedKeyProposals(queue)
  PROVE  CommittedProposalsError(CommitList(queue), store, committer) \in {"Ok", "MissingProposal"}
<1> DEFINE list == CommitList(queue)
           error(i) ==
             IF ~IsKnown(list[i], store) THEN "MissingProposal"
             ELSE LET p == Resolve(list[i], store)
                  IN IF p.type = "Remove" /\ p.subject = committer THEN "AttemptedSelfRemoval"
                     ELSE IF /\ p.type = "PreSharedKey"
                             /\ \E j \in 1..(i - 1) :
                                  /\ IsKnown(list[j], store)
                                  /\ LET q == Resolve(list[j], store)
                                     IN q.type = "PreSharedKey" /\ q.subject = p.subject
                          THEN "DuplicatePskId" ELSE "Ok"
           bad == {i \in DOMAIN list : error(i) # "Ok"}
<1>1. CommittedProposalsError(list, store, committer) = IF bad = {} THEN "Ok" ELSE error(Min(bad))
  BY DEF CommittedProposalsError
<1>2. DOMAIN list = 1..Len(queue) /\ DOMAIN queue = 1..Len(queue) /\ Len(queue) \in Nat
  BY SMTT(30) DEF CommitList
<1>3. \A i \in DOMAIN queue : IsKnown(list[i], store) => Resolve(list[i], store) = queue[i]
  BY ResolvedEntry
<1>4. \A i, j \in DOMAIN queue :
        (/\ queue[i].type = "PreSharedKey" /\ queue[j].type = "PreSharedKey"
         /\ queue[i].subject = queue[j].subject) => i = j
  BY DEF ValidatePreSharedKeyProposals, DistinctSubjects, OfType
<1> HIDE DEF list
<1>5. ASSUME NEW i \in DOMAIN list
      PROVE  error(i) \in {"Ok", "MissingProposal"}
  <2>1. CASE ~IsKnown(list[i], store)
    BY <2>1
  <2>2. CASE IsKnown(list[i], store)
    <3>1. Resolve(list[i], store) = queue[i] /\ i \in DOMAIN queue
      BY <1>2, <1>3, <2>2
    <3>2. ~(queue[i].type = "Remove" /\ queue[i].subject = committer)
      BY <3>1 DEF OfType
    <3>3. \A j \in 1..(i - 1) : j \in DOMAIN queue /\ j # i
      BY SMTT(30), <1>2, <3>1
    <3>4. queue[i].type = "PreSharedKey" =>
            ~\E j \in 1..(i - 1) :
               /\ IsKnown(list[j], store)
               /\ Resolve(list[j], store).type = "PreSharedKey"
               /\ Resolve(list[j], store).subject = queue[i].subject
      BY <1>3, <1>4, <3>1, <3>3
    <3> QED BY <3>1, <3>2, <3>4
  <2> QED BY <2>1, <2>2
<1>6. CASE bad = {}
  BY <1>1, <1>6 DEF list
<1>7. CASE bad # {}
  <2>1. bad \in SUBSET (1..Len(queue)) /\ IsFiniteSet(1..Len(queue)) /\ bad \in SUBSET DOMAIN list
    BY SMTT(30), <1>2, FS_Interval
  <2> HIDE DEF bad, error
  <2>2. IsFiniteSet(bad) /\ bad \in SUBSET Int
    <3>1. IsFiniteSet(bad)
      BY <2>1, FS_Subset
    <3>2. \A i \in 1..Len(queue) : i \in Int
      BY SMTT(30), <1>2
    <3> QED BY <2>1, <3>1, <3>2
  <2>3. \E x \in bad : \A y \in bad : x <= y
    BY <1>7, <2>2, LeastMember
  <2>4. Min(bad) \in bad
    BY <2>3 DEF Min
  <2>5. Min(bad) \in DOMAIN list
    BY <2>1, <2>4
  <2> QED BY <1>1, <1>5, <1>7, <2>5 DEF list
<1> QED BY <1>6, <1>7

\* The key of the leaf that a commit's path installs, for a new signer or not.
PathKeyOf(committer, new_key, pathKey) ==
  pathKey \in {NoKey, new_key, Tree[committer].key} /\ (new_key # NoKey => pathKey = new_key)

\* validate_key_uniqueness of a receiver accepts what the builder's accepted: if the
\* committer keeps its key, the builder looked for it among the members.
LEMMA ReceiverKeyUniqueness ==
  ASSUME NEW queue, NEW committer \in DOMAIN Tree, NEW new_key, NEW pathKey,
         PathKeyOf(committer, new_key, pathKey),
         committer \notin RemovedMembers(queue),
         ValidateKeyUniqueness(queue, Tree, committer, new_key)
  PROVE  ValidateKeyUniqueness(queue, Tree, committer, pathKey)
<1>1. CASE pathKey = new_key
  BY <1>1
<1>2. CASE pathKey # new_key
  <2> DEFINE kept == DOMAIN Tree \ RemovedMembers(queue)
             added == SubjectsOf(queue, "Add")
  <2>1. new_key = NoKey /\ pathKey # NoKey /\ pathKey = Tree[committer].key
    BY <1>2 DEF PathKeyOf
  <2>2. DistinctSubjects(queue, "Add") /\ added \cap {Tree[m].key : m \in kept} = {}
    <3>1. kept \ {} = kept
      OBVIOUS
    <3> HIDE DEF kept
    <3> QED BY <2>1, <3>1 DEF ValidateKeyUniqueness, kept
  <2>3. committer \in kept
    OBVIOUS
  <2>4. \A m \in kept \ {committer} : Tree[m].key # pathKey
    BY <2>1, TreeAssumption
  <2>5. pathKey \notin added
    BY <2>1, <2>2, <2>3
  <2>6. (added \cup {pathKey}) \cap {Tree[m].key : m \in kept \ {committer}} = {}
    BY <2>2, <2>4
  <2>7. added \cap {pathKey} = {}
    BY <2>5
  <2> QED BY <2>1, <2>2, <2>6, <2>7 DEF ValidateKeyUniqueness
<1> QED BY <1>1, <1>2

-----------------------------------------------------------------------------
(* The keys of the new tree.                                               *)

\* A key that a member of the tree may have after the commit, path aside: the one
\* it has, or the one that its Update brings.
OwnKey(s, m, key) ==
  \/ key = Tree[m].key
  \/ \E p \in Proposals(s) : /\ p.type = "Update" /\ p.sender = m /\ p.subject = key
                             /\ key \notin KeysOfOthers(s, p)

\* There is a free leaf for every added client.
LEMMA RoomForAll ==
  ASSUME NEW s \in DOMAIN Scenarios, NEW queue \in Seq(Proposals(s)), DistinctSubjects(queue, "Add"),
         NEW kept \in SUBSET DOMAIN Tree
  PROVE  LET adds == OfType(queue, "Add")
             free == LeafIndices \ kept
         IN /\ adds \in SUBSET Int /\ IsFiniteSet(adds) /\ free \in SUBSET Int /\ IsFiniteSet(free)
            /\ Cardinality(adds) \in Nat /\ Cardinality(free) \in Nat
            /\ Cardinality(adds) <= Cardinality(free)
<1> DEFINE adds == OfType(queue, "Add")
           free == LeafIndices \ kept
           f == [i \in adds |-> queue[i].subject]
<1>1. adds \in SUBSET DOMAIN queue /\ DOMAIN queue \in SUBSET Int
  BY SMTT(30) DEF OfType
<1>2. \A i \in adds : queue[i] \in Proposals(s) /\ queue[i].type = "Add"
  BY SMTT(30) DEF OfType
<1>3. f \in Injection(adds, AddedKeys(s))
  <2>1. \A i \in adds : queue[i].subject \in AddedKeys(s)
    BY <1>2 DEF AddedKeys
  <2>2. \A i, j \in adds : queue[i].subject = queue[j].subject => i = j
    BY DEF DistinctSubjects
  <2> HIDE DEF adds
  <2> QED BY <2>1, <2>2 DEF Injection, IsInjective
<1>4. /\ IsFiniteSet(AddedKeys(s))
      /\ Cardinality(DOMAIN Tree) + Cardinality(AddedKeys(s)) <= Cardinality(LeafIndices)
  BY ScenariosAssumption
<1>5. IsFiniteSet(adds) /\ Cardinality(adds) <= Cardinality(AddedKeys(s))
  <2> HIDE DEF adds, f
  <2> QED BY <1>3, <1>4, FS_Injection
<1>6. /\ IsFiniteSet(LeafIndices) /\ LeafIndices \in SUBSET Int
      /\ kept \in SUBSET LeafIndices /\ DOMAIN Tree \in SUBSET LeafIndices
  BY SMTT(30), LeafIndicesAssumption, TreeAssumption
<1>7. IsFiniteSet(DOMAIN Tree) /\ IsFiniteSet(kept) /\ Cardinality(kept) <= Cardinality(DOMAIN Tree)
  BY <1>6, FS_Subset
<1>8. IsFiniteSet(free) /\ Cardinality(free) = Cardinality(LeafIndices) - Cardinality(kept)
  <2>1. LeafIndices \cap kept = kept
    BY <1>6
  <2> QED BY <1>6, <2>1, FS_Difference
<1> HIDE DEF adds, free
<1>9. /\ Cardinality(adds) \in Nat /\ Cardinality(free) \in Nat /\ Cardinality(kept) \in Nat
      /\ Cardinality(LeafIndices) \in Nat /\ Cardinality(DOMAIN Tree) \in Nat
      /\ Cardinality(AddedKeys(s)) \in Nat
  BY <1>4, <1>5, <1>6, <1>7, <1>8, FS_CardinalityType
<1>10. Cardinality(adds) <= Cardinality(free)
  BY SMTT(30), <1>4, <1>5, <1>7, <1>8, <1>9
<1>11. free \in SUBSET Int /\ adds \in SUBSET Int
  BY <1>1, <1>6 DEF free
<1> QED BY <1>5, <1>8, <1>9, <1>10, <1>11 DEF adds, free

\* The leaves after the proposals: the kept members with a key of their own, and
\* the added clients on other leaves, each with its own key.
LEMMA AppliedKeys ==
  ASSUME NEW s \in DOMAIN Scenarios, NEW queue \in Seq(Proposals(s)), DistinctSubjects(queue, "Add")
  PROVE  LET kept == DOMAIN Tree \ RemovedMembers(queue)
             applied == ApplyProposals(queue, Tree)
         IN /\ kept \subseteq DOMAIN applied
            /\ \A m \in kept : OwnKey(s, m, applied[m].key)
            /\ \A m \in DOMAIN applied \ kept : applied[m].key \in SubjectsOf(queue, "Add")
            /\ \A m, n \in DOMAIN applied \ kept : applied[m].key = applied[n].key => m = n
<1> DEFINE updates == {queue[i] : i \in OfType(queue, "Update")}
           adds == OfType(queue, "Add")
           kept == DOMAIN Tree \ RemovedMembers(queue)
           free == LeafIndices \ kept
           joined == {Nth(free, k) : k \in 1..Cardinality(adds)}
           applied == ApplyProposals(queue, Tree)
<1>1. applied = [m \in kept \cup joined |->
                   IF m \in joined THEN NewLeaf(queue[Nth(adds, Rank(free, m))])
                   ELSE IF \E p \in updates : p.sender = m
                   THEN NewLeaf(CHOOSE p \in updates : p.sender = m)
                   ELSE Tree[m]]
  BY DEF ApplyProposals
<1>2. kept \in SUBSET DOMAIN Tree /\ free \cap kept = {}
  OBVIOUS
<1>3. /\ adds \in SUBSET Int /\ IsFiniteSet(adds) /\ free \in SUBSET Int /\ IsFiniteSet(free)
      /\ Cardinality(adds) \in Nat /\ Cardinality(free) \in Nat
      /\ Cardinality(adds) <= Cardinality(free)
  <2> HIDE DEF kept
  <2> QED BY <1>2, RoomForAll
<1>4. \A p \in updates : p \in Proposals(s) /\ p.type = "Update"
  BY SMTT(30) DEF OfType
<1>5. \A i \in adds : i \in DOMAIN queue /\ queue[i].subject \in SubjectsOf(queue, "Add")
  BY DEF OfType, SubjectsOf
<1>6. \A i, j \in adds : queue[i].subject = queue[j].subject => i = j
  BY DEF DistinctSubjects
<1> HIDE DEF updates, adds, kept, free, applied
<1>7. \A k \in 1..Cardinality(adds) :
        /\ Nth(free, k) \in free /\ Rank(free, Nth(free, k)) = k
        /\ Nth(adds, k) \in adds /\ Rank(adds, Nth(adds, k)) = k
  <2>1. \A k \in 1..Cardinality(adds) : k \in 1..Cardinality(free)
    BY SMTT(30), <1>3
  <2> QED BY <1>3, <2>1, NthMember
<1>8. \A m \in joined : m \in free /\ Rank(free, m) \in 1..Cardinality(adds) /\ m \notin kept
  BY <1>2, <1>7
<1>9. \A m \in joined : applied[m].key = queue[Nth(adds, Rank(free, m))].subject
  BY <1>1 DEF NewLeaf
<1>10. DOMAIN applied = kept \cup joined
  BY <1>1
<1>11. ASSUME NEW m \in joined, NEW n \in joined, applied[m].key = applied[n].key
       PROVE  m = n
  <2>1. Nth(adds, Rank(free, m)) = Nth(adds, Rank(free, n))
    BY SMTT(30), <1>6, <1>7, <1>8, <1>9, <1>11
  <2>2. Rank(free, m) = Rank(free, n)
    BY <1>7, <1>8, <2>1
  <2> QED BY <1>3, <1>8, <2>2, RankInjective
<1>12. ASSUME NEW m \in kept
       PROVE  OwnKey(s, m, applied[m].key)
  <2>1. m \notin joined /\ m \in DOMAIN Tree
    BY <1>2, <1>8
  <2>2. CASE \E p \in updates : p.sender = m
    <3> DEFINE p == CHOOSE q \in updates : q.sender = m
    <3>1. p \in updates /\ p.sender = m
      BY <2>2
    <3>2. applied[m] = NewLeaf(p)
      BY <1>1, <2>1, <2>2
    <3> HIDE DEF p
    <3>3. applied[m].key = p.subject
      BY SMTT(30), <3>2 DEF NewLeaf
    <3>4. p.subject = Tree[m].key \/ p.subject \notin KeysOfOthers(s, p)
      BY <1>4, <2>1, <3>1, ScenariosAssumption
    <3> QED BY <1>4, <3>1, <3>3, <3>4 DEF OwnKey
  <2>3. CASE ~\E p \in updates : p.sender = m
    BY <1>1, <2>1, <2>3 DEF OwnKey
  <2> QED BY <2>2, <2>3
<1>13. \A m \in joined : applied[m].key \in SubjectsOf(queue, "Add")
  BY <1>5, <1>7, <1>8, <1>9
<1>14. DOMAIN applied \ kept = joined
  BY <1>8, <1>10
<1> QED BY <1>10, <1>11, <1>12, <1>13, <1>14 DEF kept, applied

\* Two members do not get one key by their Updates.
LEMMA OwnKeysDiffer ==
  ASSUME NEW s \in DOMAIN Scenarios, NEW m \in DOMAIN Tree, NEW n \in DOMAIN Tree, m # n,
         NEW key, OwnKey(s, m, key), OwnKey(s, n, key)
  PROVE  FALSE
<1>1. CASE key = Tree[m].key /\ key = Tree[n].key
  BY <1>1, TreeAssumption
<1>2. ASSUME NEW p \in Proposals(s), p.type = "Update", p.sender = m, p.subject = key,
             key \notin KeysOfOthers(s, p)
      PROVE  FALSE
  <2>1. key # Tree[n].key
    BY <1>2 DEF KeysOfOthers
  <2>2. PICK q \in Proposals(s) : q.type = "Update" /\ q.sender = n /\ q.subject = key
    BY <2>1 DEF OwnKey
  <2> QED BY <1>2, <2>2 DEF KeysOfOthers
<1>3. ASSUME NEW p \in Proposals(s), p.type = "Update", p.sender = n, p.subject = key,
             key \notin KeysOfOthers(s, p), key = Tree[m].key
      PROVE  FALSE
  BY <1>3 DEF KeysOfOthers
<1> QED BY <1>1, <1>2, <1>3 DEF OwnKey

\* A key that is a client's to be added, a builder's new one or another member's, is
\* not one that an Update brings.
LEMMA OwnKeyIsTheOld ==
  ASSUME NEW s \in DOMAIN Scenarios, NEW m \in DOMAIN Tree, NEW key, OwnKey(s, m, key),
         \/ key \in AddedKeys(s)
         \/ key \in {opt.new_key : opt \in Scenarios[s].options}
         \/ \E n \in DOMAIN Tree \ {m} : key = Tree[n].key
  PROVE  key = Tree[m].key
BY DEF OwnKey, KeysOfOthers

\* The keys of the new tree are different.
LEMMA NewTreeKeys ==
  ASSUME NEW s \in DOMAIN Scenarios, NEW queue \in Seq(Proposals(s)),
         NEW committer \in DOMAIN Tree, committer \notin RemovedMembers(queue), NEW pathKey,
         pathKey \in {NoKey, Tree[committer].key} \cup {opt.new_key : opt \in Scenarios[s].options},
         ValidateKeyUniqueness(queue, Tree, committer, pathKey)
  PROVE  LET tree == NewTree(queue, committer, pathKey)
         IN \A m, n \in DOMAIN tree : m # n => tree[m].key # tree[n].key
<1> DEFINE kept == DOMAIN Tree \ RemovedMembers(queue)
           applied == ApplyProposals(queue, Tree)
           tree == NewTree(queue, committer, pathKey)
           added == SubjectsOf(queue, "Add")
           others == kept \ (IF pathKey = NoKey THEN {} ELSE {committer})
<1>1. /\ DistinctSubjects(queue, "Add")
      /\ pathKey # NoKey => pathKey \notin added /\ \A m \in others : Tree[m].key # pathKey
      /\ \A m \in others : Tree[m].key \notin added
  BY SMTT(30) DEF ValidateKeyUniqueness
<1>2. /\ kept \subseteq DOMAIN applied
      /\ \A m \in kept : OwnKey(s, m, applied[m].key)
      /\ \A m \in DOMAIN applied \ kept : applied[m].key \in added
      /\ \A m, n \in DOMAIN applied \ kept : applied[m].key = applied[n].key => m = n
  BY <1>1, AppliedKeys
<1>3. committer \in kept /\ \A m \in kept : m \in DOMAIN Tree
  OBVIOUS
<1>4. \A key \in added : key \in AddedKeys(s)
  BY SMTT(30) DEF SubjectsOf, OfType, AddedKeys
<1>5. /\ pathKey # NoKey => tree[committer].key = pathKey
      /\ \A m \in DOMAIN applied : pathKey = NoKey \/ m # committer => tree[m] = applied[m]
      /\ DOMAIN tree = DOMAIN applied
  <2>1. tree = IF pathKey = NoKey THEN applied
               ELSE [applied EXCEPT ![committer] = [key |-> pathKey, leaf |-> 0]]
    BY DEF NewTree
  <2>2. committer \in DOMAIN applied
    BY <1>2, <1>3
  <2> HIDE DEF applied, tree
  <2>3. CASE pathKey = NoKey
    BY <2>1, <2>3
  <2>4. CASE pathKey # NoKey
    <3> DEFINE new == [key |-> pathKey, leaf |-> 0]
    <3>1. new.key = pathKey
      OBVIOUS
    <3>2. tree = [applied EXCEPT ![committer] = new]
      BY <2>1, <2>4
    <3> HIDE DEF new
    <3> QED BY <2>2, <2>4, <3>1, <3>2
  <2> QED BY <2>3, <2>4
<1> HIDE DEF kept, applied, tree, added
\* An added client and a member.
<1>6. ASSUME NEW m \in DOMAIN applied \ kept, NEW n \in kept
      PROVE  tree[m].key # tree[n].key
  <2>1. m # committer /\ tree[m].key = applied[m].key /\ tree[m].key \in added
    BY <1>2, <1>3, <1>5
  <2>2. CASE pathKey # NoKey /\ n = committer
    BY <1>1, <1>5, <2>1, <2>2
  <2>3. CASE ~(pathKey # NoKey /\ n = committer)
    <3>1. tree[n].key = applied[n].key /\ n \in others
      BY <1>2, <1>5, <2>3
    <3>2. applied[n].key \in added => applied[n].key = Tree[n].key
      BY <1>2, <1>3, <1>4, OwnKeyIsTheOld
    <3> QED BY <1>1, <2>1, <3>1, <3>2
  <2> QED BY <2>2, <2>3
\* Two members.
<1>7. ASSUME NEW m \in kept, NEW n \in kept, m # n, ~(pathKey # NoKey /\ m = committer)
      PROVE  tree[m].key # tree[n].key
  <2>1. tree[m].key = applied[m].key /\ m \in others
    BY <1>2, <1>5, <1>7
  <2>2. CASE pathKey # NoKey /\ n = committer
    <3>1. tree[n].key = pathKey
      BY <1>5, <2>2
    <3>2. applied[m].key = pathKey => applied[m].key = Tree[m].key
      <4>1. SUFFICES ASSUME applied[m].key = pathKey
                     PROVE  applied[m].key = Tree[m].key
        OBVIOUS
      <4>2. \/ pathKey \in {opt.new_key : opt \in Scenarios[s].options}
            \/ pathKey = Tree[n].key /\ n \in DOMAIN Tree \ {m}
        BY <1>3, <1>7, <2>2
      <4>3. OwnKey(s, m, applied[m].key) /\ m \in DOMAIN Tree
        BY <1>2, <1>3
      <4> QED BY <4>1, <4>2, <4>3, OwnKeyIsTheOld
    <3> QED BY <1>1, <2>1, <2>2, <3>1, <3>2
  <2>3. CASE ~(pathKey # NoKey /\ n = committer)
    <3>1. tree[n].key = applied[n].key
      BY <1>2, <1>5, <2>3
    <3> QED BY <1>2, <1>3, <1>7, <2>1, <3>1, OwnKeysDiffer
  <2> QED BY <2>2, <2>3
\* Two added clients.
<1>8. ASSUME NEW m \in DOMAIN applied \ kept, NEW n \in DOMAIN applied \ kept, m # n
      PROVE  tree[m].key # tree[n].key
  BY <1>2, <1>3, <1>5, <1>8
<1>9. ASSUME NEW m \in DOMAIN tree, NEW n \in DOMAIN tree, m # n
      PROVE  tree[m].key # tree[n].key
  <2>1. CASE m \in kept /\ n \in kept
    BY <1>7, <1>9, <2>1
  <2>2. CASE m \notin kept \/ n \notin kept
    BY <1>5, <1>6, <1>8, <1>9, <2>2
  <2> QED BY <2>1, <2>2
<1> QED BY <1>9 DEF tree

-----------------------------------------------------------------------------
(* The inductive invariant.                                                *)

\* What the builder guarantees of a commit.
CommitOK(s, c) ==
  /\ c.committer \in Committers
  /\ c.queue \in Seq(Proposals(s)) /\ DistinctIds(c.queue) /\ OnePerMember(c.queue)
  /\ ValidateCommit(c.queue, Tree, c.committer, c.pathKey) = "Ok"
  /\ c.committer \notin RemovedMembers(c.queue)
  /\ c.pathKey \in {NoKey, Tree[c.committer].key} \cup {opt.new_key : opt \in Scenarios[s].options}
  /\ c.list = CommitList(c.queue)
  /\ c.tree = NewTree(c.queue, c.committer, c.pathKey)
  /\ c.removals \subseteq RemovedMembers(c.queue)

\* What a member may report of a commit.
ResultOK(c, result) ==
  /\ result \in {Nothing, "Staged", "Removed", "MissingProposal", "ConfirmationTagMismatch"}
  /\ result = "ConfirmationTagMismatch" => c.psks # PskList(c.queue)

IInv ==
  /\ scenario \in DOMAIN Scenarios
  /\ proposal_store \in [Active -> Seq(Catalogue)]
  /\ commit # NoCommit => CommitOK(scenario, commit)
  /\ DOMAIN staged = Active
  /\ \A m \in Active : ResultOK(commit, staged[m]) /\ (commit = NoCommit => staged[m] = Nothing)

\* Selecting entries of a list gives entries of the list.
LEMMA SelectedEntries ==
  ASSUME NEW T, NEW q \in Seq(T), NEW P \in SUBSET DOMAIN q
  PROVE  Subsequence(q, P) \in Seq(T)
<1>1. DOMAIN q = 1..Len(q) /\ Len(q) \in Nat /\ \A i \in DOMAIN q : q[i] \in T
  BY SMTT(30)
<1>2. P \in SUBSET Int /\ IsFiniteSet(P)
  <2>1. IsFiniteSet(DOMAIN q) /\ DOMAIN q \in SUBSET Int
    BY SMTT(30), <1>1, FS_Interval
  <2> QED BY <2>1, FS_Subset
<1>3. /\ Cardinality(P) \in Nat /\ DOMAIN Subsequence(q, P) = 1..Cardinality(P)
      /\ \A k \in 1..Cardinality(P) : Subsequence(q, P)[k] = q[Nth(P, k)] /\ Nth(P, k) \in P
  BY <1>2, SubsequenceEntries
<1>4. PICK n : n = Cardinality(P)
  OBVIOUS
<1>5. Subsequence(q, P) = [k \in 1..n |-> q[Nth(P, k)]]
  BY <1>4 DEF Subsequence
<1>6. Subsequence(q, P) \in [1..n -> T] /\ n \in Nat
  BY <1>1, <1>3, <1>4, <1>5
<1> QED BY SMTT(30), <1>6

\* In a list of proposals of an epoch, a reference stands for one proposal.
LEMMA ProposalsAreNamed ==
  ASSUME NEW s \in DOMAIN Scenarios, NEW q \in Seq(Proposals(s))
  PROVE  IdsName(q)
<1>1. \A i \in DOMAIN q : q[i] \in Proposals(s)
  BY SMTT(30)
<1> QED BY <1>1, ScenariosAssumption DEF IdsName

\* The builder's input consists of proposals of the epoch.
LEMMA InputIsProposed ==
  ASSUME NEW s \in DOMAIN Scenarios, NEW store \in Seq(Scenarios[s].catalogue),
         NEW opt \in Scenarios[s].options, NEW P \in SUBSET DOMAIN (store \o opt.own_proposals)
  PROVE  Subsequence(store \o opt.own_proposals, P) \in Seq(Proposals(s))
<1>1. store \in Seq(Proposals(s))
  <2>1. \A p \in Scenarios[s].catalogue : p \in Proposals(s)
    BY DEF Proposals
  <2> QED BY SMTT(30), <2>1
<1>2. opt.own_proposals \in Seq(Proposals(s))
  BY ScenariosAssumption
<1>3. store \o opt.own_proposals \in Seq(Proposals(s))
  BY SMTT(30), <1>1, <1>2
<1> QED BY <1>3, SelectedEntries

\* What the builder makes of its input.
LEMMA BuiltCommit ==
  ASSUME NEW s \in DOMAIN Scenarios, NEW m \in Committers, NEW opt \in Scenarios[s].options,
         NEW input \in Seq(Proposals(s)), NEW queue \in FilterProposals(input, m),
         BuilderChecks(queue, Tree, m, opt.new_key) = "Ok",
         NEW path \in BOOLEAN, PathRequired(queue) => path, opt.new_key # NoKey => path,
         NEW c, c.committer = m, c.list = CommitList(queue),
         c.pathKey = IF ~path THEN NoKey
                     ELSE IF opt.new_key # NoKey THEN opt.new_key ELSE Tree[m].key,
         c.tree = NewTree(queue, m, c.pathKey), c.queue = queue,
         c.removals = RemovedMembers(input)
  PROVE  CommitOK(s, c)
<1>1. IdsName(input) /\ m \in DOMAIN Tree
  BY ProposalsAreNamed, TreeAssumption
<1>2. queue \in Seq(Proposals(s)) /\ DistinctIds(queue) /\ OnePerMember(queue)
  BY <1>1, FilteredEntries
<1>3. /\ ValidateKeyUniqueness(queue, Tree, m, opt.new_key)
      /\ ValidateRemoveProposals(queue, Tree)
      /\ ValidatePreSharedKeyProposals(queue)
      /\ ValidateReinitProposals(queue)
      /\ ValidateUpdateProposals(queue, m)
      /\ ValidateGroupContextExtensions(queue)
      /\ ValidateAppDataUpdates(queue)
      /\ m \notin RemovedMembers(queue)
  BY SMTT(30), BuilderChecksOk
<1>4. Tree[m].key # NoKey
  BY <1>1, TreeAssumption
<1>5. /\ PathKeyOf(m, opt.new_key, c.pathKey)
      /\ PathRequired(queue) => c.pathKey # NoKey
      /\ c.pathKey \in {NoKey, Tree[m].key} \cup {o.new_key : o \in Scenarios[s].options}
  BY <1>4 DEF PathKeyOf
<1>6. ValidateKeyUniqueness(queue, Tree, m, c.pathKey)
  BY <1>1, <1>3, <1>5, ReceiverKeyUniqueness
<1>7. ValidateCommit(queue, Tree, m, c.pathKey) = "Ok"
  BY SMTT(30), <1>3, <1>5, <1>6, ValidateCommitOk
<1>8. RemovedMembers(input) \subseteq RemovedMembers(queue)
  BY RemovalsStay
<1> QED BY <1>2, <1>3, <1>5, <1>7, <1>8 DEF CommitOK

\* What a member makes of a commit.
LEMMA StagedResult ==
  ASSUME IInv, NEW m \in Active, commit # NoCommit
  PROVE  ResultOK(commit, StageCommitResult(m))
<1> DEFINE store == proposal_store[m]
           queue == commit.queue
           committer == commit.committer
           error == CommittedProposalsError(commit.list, store, committer)
<1>1. CommitOK(scenario, commit) /\ scenario \in DOMAIN Scenarios /\ store \in Seq(Catalogue)
  BY DEF IInv
<1>2. /\ queue \in Seq(Proposals(scenario)) /\ DistinctIds(queue)
      /\ ValidateCommit(queue, Tree, committer, commit.pathKey) = "Ok"
      /\ committer \notin RemovedMembers(queue) /\ commit.list = CommitList(queue)
      /\ commit.tree = NewTree(queue, committer, commit.pathKey)
  BY <1>1 DEF CommitOK
<1>3. \A i \in DOMAIN queue, j \in DOMAIN store : store[j].id = queue[i].id => store[j] = queue[i]
  <2>1. \A i \in DOMAIN queue : queue[i] \in Proposals(scenario)
    BY SMTT(30), <1>2
  <2>2. \A j \in DOMAIN store : store[j] \in Catalogue
    BY SMTT(30), <1>1
  <2>3. \A p \in Catalogue : p \in Proposals(scenario)
    BY DEF Catalogue, Proposals
  <2> QED BY <1>1, <2>1, <2>2, <2>3, ScenariosAssumption
<1> HIDE DEF store, queue, committer
<1>4. /\ ValidatePreSharedKeyProposals(queue)
      /\ \A i \in OfType(queue, "Remove") : queue[i].subject # committer
  <2>1. ValidatePreSharedKeyProposals(queue)
    BY <1>2, ValidateCommitOk
  <2>2. \A i \in OfType(queue, "Remove") : queue[i].subject \in RemovedMembers(queue)
    BY DEF RemovedMembers, SubjectsOf
  <2> QED BY <1>2, <2>1, <2>2
<1>5. error \in {"Ok", "MissingProposal"}
  BY <1>2, <1>3, <1>4, OnlyMissingProposals
<1>6. error = "Ok" => FromCommittedProposals(commit.list, store) = queue
  <2>1. error = "Ok" => KnowsList(queue, store)
    BY <1>2, <1>3, CommittedProposalsOk
  <2> QED BY <1>2, <2>1, RebuiltQueue
<1>7. CASE error = "MissingProposal"
  <2>1. StageCommitResult(m) = "MissingProposal"
    BY <1>7 DEF StageCommitResult, store, committer
  <2> QED BY <2>1 DEF ResultOK
<1>8. CASE error = "Ok"
  <2>1. FromCommittedProposals(commit.list, store) = queue
    BY <1>6, <1>8
  <2>2. StageCommitResult(m) =
          IF m \in RemovedMembers(queue) THEN "Removed"
          ELSE IF PskList(queue) # commit.psks THEN "ConfirmationTagMismatch" ELSE "Staged"
    <3> HIDE DEF error
    <3>1. StageCommitResult(m) =
            IF error # "Ok" THEN error
            ELSE IF ValidateCommit(queue, Tree, committer, commit.pathKey) # "Ok"
                 THEN ValidateCommit(queue, Tree, committer, commit.pathKey)
            ELSE IF m \in RemovedMembers(queue) THEN "Removed"
            ELSE IF \/ NewTree(queue, committer, commit.pathKey) # commit.tree
                    \/ PskList(queue) # commit.psks THEN "ConfirmationTagMismatch"
            ELSE "Staged"
      BY <2>1 DEF StageCommitResult, store, committer, error
    <3> QED BY <1>2, <1>8, <3>1
  <2> QED BY <2>2 DEF ResultOK, queue
<1> QED BY <1>5, <1>7, <1>8

\* The invariant holds in the beginning.
LEMMA InitInv == Init => IInv
BY SMTT(30) DEF Init, IInv, ResultOK, NoCommit, Nothing

\* A step that changes only the proposal stores.
LEMMA StoresInv ==
  ASSUME IInv, proposal_store' \in [Active -> Seq(Catalogue)], UNCHANGED <<scenario, commit, staged>>
  PROVE  IInv'
<1>1. scenario' = scenario /\ commit' = commit /\ staged' = staged
  OBVIOUS
<1> QED BY <1>1 DEF IInv, Catalogue, CommitOK, ResultOK

\* Appending a proposal to a store.
LEMMA QueuedInv ==
  ASSUME IInv, NEW m \in Active, NEW p \in Catalogue, Queue(m, p)
  PROVE  proposal_store' \in [Active -> Seq(Catalogue)]
<1> DEFINE new == Append(proposal_store[m], p)
<1>1. proposal_store \in [Active -> Seq(Catalogue)]
  BY DEF IInv
<1>2. new \in Seq(Catalogue)
  BY SMTT(30), <1>1
<1>3. proposal_store' = [proposal_store EXCEPT ![m] = new]
  BY DEF Queue
<1> HIDE DEF new
<1> QED BY <1>1, <1>2, <1>3

\* Every step keeps the invariant.
LEMMA NextInv ==
  ASSUME IInv, [Next]_vars
  PROVE  IInv'
<1>1. proposal_store \in [Active -> Seq(Catalogue)] /\ scenario \in DOMAIN Scenarios
  BY DEF IInv
<1>2. ASSUME NEW p \in Catalogue, Propose(p)
      PROVE  IInv'
  <2>1. UNCHANGED <<scenario, commit, staged>>
    BY <1>2 DEF Propose
  <2>2. proposal_store' \in [Active -> Seq(Catalogue)]
    <3>1. CASE p.sender \in Active
      BY <1>2, <3>1, QueuedInv DEF Propose
    <3>2. CASE p.sender \notin Active
      BY <1>1, <1>2, <3>2 DEF Propose
    <3> QED BY <3>1, <3>2
  <2> QED BY <2>1, <2>2, StoresInv
<1>3. ASSUME NEW m \in Active, NEW p \in Catalogue, StorePendingProposal(m, p)
      PROVE  IInv'
  <2>1. UNCHANGED <<scenario, commit, staged>> /\ Queue(m, p)
    BY <1>3 DEF StorePendingProposal
  <2> QED BY <2>1, QueuedInv, StoresInv
<1>4. ASSUME NEW m \in Active, NEW id, RemovePendingProposal(m, id)
      PROVE  IInv'
  <2>1. UNCHANGED <<scenario, commit, staged>>
    BY <1>4 DEF RemovePendingProposal
  <2>2. PICK i \in DOMAIN proposal_store[m] :
          proposal_store' =
            [proposal_store EXCEPT ![m] = Subsequence(proposal_store[m], DOMAIN proposal_store[m] \ {i})]
    BY <1>4 DEF RemovePendingProposal
  <2> DEFINE new == Subsequence(proposal_store[m], DOMAIN proposal_store[m] \ {i})
  <2>3. new \in Seq(Catalogue)
    BY <1>1, SelectedEntries
  <2>4. proposal_store' = [proposal_store EXCEPT ![m] = new]
    BY <2>2
  <2> HIDE DEF new
  <2>5. proposal_store' \in [Active -> Seq(Catalogue)]
    BY <1>1, <2>3, <2>4
  <2> QED BY <2>1, <2>5, StoresInv
<1>5. ASSUME NEW m \in Active, ClearPendingProposals(m)
      PROVE  IInv'
  <2>1. UNCHANGED <<scenario, commit, staged>> /\ proposal_store' = [proposal_store EXCEPT ![m] = <<>>]
    BY <1>5 DEF ClearPendingProposals
  <2>2. proposal_store' \in [Active -> Seq(Catalogue)]
    BY SMTT(30), <1>1, <2>1
  <2> QED BY <2>1, <2>2, StoresInv
<1>6. ASSUME NEW m \in Active, StageCommit(m)
      PROVE  IInv'
  <2>1. /\ commit # NoCommit /\ UNCHANGED <<scenario, proposal_store, commit>>
        /\ staged' = [staged EXCEPT ![m] = StageCommitResult(m)]
    BY <1>6 DEF StageCommit
  <2>2. ResultOK(commit, StageCommitResult(m))
    BY <2>1, StagedResult
  <2>3. DOMAIN staged' = Active /\ \A n \in Active : ResultOK(commit, staged'[n])
    <3>1. DOMAIN staged = Active /\ \A n \in Active : ResultOK(commit, staged[n])
      BY DEF IInv
    <3>2. \A n \in Active : staged'[n] = IF n = m THEN StageCommitResult(m) ELSE staged[n]
      BY <2>1, <3>1
    <3> QED BY <2>1, <2>2, <3>1, <3>2
  <2>4. \A n \in Active : ResultOK(commit, staged[n])'
    BY <2>1, <2>3 DEF ResultOK
  <2>5. scenario' = scenario /\ proposal_store' = proposal_store /\ commit' = commit
    BY <2>1
  <2>6. CommitOK(scenario, commit)'
    BY <2>1, <2>5 DEF IInv, CommitOK
  <2> QED BY <1>1, <2>1, <2>3, <2>4, <2>5, <2>6 DEF IInv, Catalogue
<1>7. ASSUME NEW m \in Committers, CreateCommit(m)
      PROVE  IInv'
  <2>1. commit = NoCommit /\ UNCHANGED <<scenario, proposal_store, staged>>
    BY <1>7 DEF CreateCommit
  <2>0. PICK opt \in Scenarios[scenario].options : \E excluded : Build(m, opt, excluded)
    BY <1>7 DEF CreateCommit
  <2>2. PICK excluded : Build(m, opt, excluded)
    BY <2>0
  <2> DEFINE store == IF opt.consume_proposal_store THEN proposal_store[m] ELSE <<>>
             all == store \o opt.own_proposals
             P == {i \in DOMAIN all : all[i].id \notin excluded}
             input == Subsequence(all, P)
  <2>3. input \in Seq(Proposals(scenario))
    <3>1. store \in Seq(Catalogue)
      BY SMTT(30), <1>1, TreeAssumption
    <3>2. P \in SUBSET DOMAIN all
      OBVIOUS
    <3> HIDE DEF store, P
    <3> QED BY <1>1, <3>1, <3>2, InputIsProposed DEF Catalogue
  <2>4. PICK queue \in FilterProposals(input, m) :
          LET path == \/ PathRequired(queue)
                      \/ ContainsOwnUpdates(input, m)
                      \/ opt.force_self_update
                      \/ opt.new_key # NoKey
              pathKey == IF ~path THEN NoKey
                         ELSE IF opt.new_key # NoKey THEN opt.new_key ELSE Tree[m].key
          IN /\ BuilderChecks(queue, Tree, m, opt.new_key) = "Ok"
             /\ commit' = [committer |-> m, list |-> CommitList(queue), pathKey |-> pathKey,
                           tree |-> NewTree(queue, m, pathKey),
                           psks |-> LoadPsks(opt.own_proposals, proposal_store[m]),
                           queue |-> queue,
                           removals |-> RemovedMembers(input)]
    BY <2>2 DEF Build
  <2> DEFINE path == \/ PathRequired(queue)
                     \/ ContainsOwnUpdates(input, m)
                     \/ opt.force_self_update
                     \/ opt.new_key # NoKey
             pathKey == IF ~path THEN NoKey
                        ELSE IF opt.new_key # NoKey THEN opt.new_key ELSE Tree[m].key
  <2> HIDE DEF input
  <2>5. /\ BuilderChecks(queue, Tree, m, opt.new_key) = "Ok"
        /\ commit'.committer = m /\ commit'.list = CommitList(queue) /\ commit'.pathKey = pathKey
        /\ commit'.tree = NewTree(queue, m, pathKey) /\ commit'.queue = queue
        /\ commit'.removals = RemovedMembers(input)
    BY <2>4
  <2>6. /\ PathRequired(queue) => path
        /\ opt.new_key # NoKey => path
        /\ path \in BOOLEAN
    BY DEF PathRequired, ContainsOwnUpdates
  <2> HIDE DEF path
  <2>7. CommitOK(scenario, commit')
    BY <1>1, <2>3, <2>5, <2>6, BuiltCommit
  <2>8. CommitOK(scenario, commit)'
    BY <2>1, <2>7 DEF CommitOK
  <2>9. \A n \in Active : ResultOK(commit, staged[n])'
    <3>1. \A n \in Active : staged[n] = Nothing
      BY <2>1 DEF IInv
    <3> QED BY <2>1, <3>1 DEF ResultOK, Nothing
  <2>10. commit' # NoCommit
    <3>1. m # -1 /\ NoCommit.committer = -1
      BY SMTT(30), TreeAssumption DEF NoCommit
    <3> QED BY <2>5, <3>1
  <2> QED BY <1>1, <2>1, <2>8, <2>9, <2>10 DEF IInv, Catalogue
<1>8. CASE UNCHANGED vars
  BY <1>1, <1>8, StoresInv DEF vars
<1> QED BY <1>2, <1>3, <1>4, <1>5, <1>6, <1>7, <1>8 DEF Next

\* The invariant holds at all times.
LEMMA EpochInv == Spec => []IInv
<1>1. Init => IInv
  BY InitInv
<1>2. IInv /\ [Next]_vars => IInv'
  BY NextInv
<1> QED BY <1>1, <1>2, PTL DEF Spec

-----------------------------------------------------------------------------
(* The results.                                                            *)

\* Whatever the builder accepts, a member that has the referenced proposals
\* validates, and both compute the same tree.
THEOREM CommitsAreAccepted == Spec => []CommitsAreStageable
<1>1. IInv => CommitsAreStageable
  BY DEF IInv, ResultOK, CommitsAreStageable
<1> QED BY <1>1, EpochInv, PTL

\* No order of queueing makes filter_proposals lose a removal.
THEOREM CommitsKeepRemovals == Spec => []RemovalsAreNotLost
<1>1. IInv => RemovalsAreNotLost
  BY DEF IInv, CommitOK, RemovalsAreNotLost
<1> QED BY <1>1, EpochInv, PTL

\* A commit has one proposal about a member, and the members of the new tree have
\* different signature keys.
THEOREM CommitsKeepMembersDistinct == Spec => []MembersStayDistinct
<1>1. IInv => MembersStayDistinct
  <2>1. SUFFICES ASSUME IInv, commit # NoCommit
                 PROVE  MembersStayDistinct
    BY DEF MembersStayDistinct, OneProposalPerMember, SignatureKeysStayUnique
  <2>2. CommitOK(scenario, commit) /\ scenario \in DOMAIN Scenarios
    BY <2>1 DEF IInv
  <2>3. OneProposalPerMember
    <3>1. OnePerMember(commit.queue)
      BY <2>2 DEF CommitOK
    <3> QED BY <3>1 DEF OnePerMember, OneProposalPerMember
  <2>4. SignatureKeysStayUnique
    <3>1. /\ commit.committer \in DOMAIN Tree /\ commit.queue \in Seq(Proposals(scenario))
          /\ commit.committer \notin RemovedMembers(commit.queue)
          /\ commit.pathKey \in {NoKey, Tree[commit.committer].key}
                                  \cup {opt.new_key : opt \in Scenarios[scenario].options}
          /\ ValidateCommit(commit.queue, Tree, commit.committer, commit.pathKey) = "Ok"
          /\ commit.tree = NewTree(commit.queue, commit.committer, commit.pathKey)
      BY <2>2, TreeAssumption DEF CommitOK
    <3>2. ValidateKeyUniqueness(commit.queue, Tree, commit.committer, commit.pathKey)
      BY <3>1, ValidateCommitOk
    <3> QED BY SMTT(30), <2>2, <3>1, <3>2, NewTreeKeys DEF SignatureKeysStayUnique
  <2> QED BY <2>3, <2>4 DEF MembersStayDistinct
<1> QED BY <1>1, EpochInv, PTL
=============================================================================
