------------------------- MODULE ProposalQueueProofs -------------------------
(***************************************************************************)
(* Facts about how proposal lists are filtered, sent, rebuilt and          *)
(* validated.                                                              *)
(***************************************************************************)
EXTENDS ProposalQueue, RanksProofs

\* The prover of a leaf that names none.
USE ZenonT(30)

-----------------------------------------------------------------------------
(* Validation.                                                             *)

\* A validation succeeds exactly if every check does.
LEMMA FirstErrorOk ==
  ASSUME NEW n \in Nat, NEW checks, DOMAIN checks = 1..n,
         \A i \in 1..n : checks[i][2] # "Ok"
  PROVE  FirstError(checks) = "Ok" <=> \A i \in 1..n : checks[i][1]
<1> DEFINE failing == {i \in 1..n : ~checks[i][1]}
<1>1. FirstError(checks) = IF failing = {} THEN "Ok" ELSE checks[Min(failing)][2]
  BY DEF FirstError
<1>2. CASE failing = {}
  BY <1>1, <1>2
<1>3. CASE failing # {}
  <2>1. failing \in SUBSET (1..n) /\ IsFiniteSet(1..n)
    BY SMTT(30), FS_Interval
  <2>2. IsFiniteSet(failing) /\ failing \in SUBSET Int
    BY SMTT(30), <2>1, FS_Subset
  <2> HIDE DEF failing
  <2>3. \E x \in failing : \A y \in failing : x <= y
    BY <1>3, <2>2, LeastMember
  <2>4. Min(failing) \in failing
    BY <2>3 DEF Min
  <2>5. checks[Min(failing)][2] # "Ok" /\ ~checks[Min(failing)][1] /\ Min(failing) \in 1..n
    BY <2>4 DEF failing
  <2> QED BY <1>1, <1>3, <2>5
<1> QED BY <1>2, <1>3

\* The committer's checks succeed exactly if each of them does.
LEMMA BuilderChecksOk ==
  ASSUME NEW queue, NEW tree, NEW committer, NEW pathKey
  PROVE  BuilderChecks(queue, tree, committer, pathKey) = "Ok" <=>
           /\ ValidateKeyUniqueness(queue, tree, committer, pathKey)
           /\ ValidateRemoveProposals(queue, tree)
           /\ ValidatePreSharedKeyProposals(queue)
           /\ ValidateReinitProposals(queue)
           /\ ValidateUpdateProposals(queue, committer)
           /\ ValidateGroupContextExtensions(queue)
           /\ ValidateAppDataUpdates(queue)
           /\ committer \notin RemovedMembers(queue)
<1> DEFINE A1 == ValidateKeyUniqueness(queue, tree, committer, pathKey)
           A2 == ValidateRemoveProposals(queue, tree)
           A3 == ValidatePreSharedKeyProposals(queue)
           A4 == ValidateReinitProposals(queue)
           A5 == ValidateUpdateProposals(queue, committer)
           A6 == ValidateGroupContextExtensions(queue)
           A7 == ValidateAppDataUpdates(queue)
           A8 == committer \notin RemovedMembers(queue)
           checks == <<<<A1, "DuplicateSignatureKey">>, <<A2, "RemoveProposals">>,
                       <<A3, "DuplicatePsk">>, <<A4, "ReInitProposalNotAlone">>,
                       <<A5, "CommitterIncludedOwnUpdate">>, <<A6, "TooManyGCEProposals">>,
                       <<A7, "AppDataUpdate">>, <<A8, "CannotRemoveSelf">>>>
<1>1. BuilderChecks(queue, tree, committer, pathKey) = FirstError(checks)
  BY DEF BuilderChecks
<1> HIDE DEF A1, A2, A3, A4, A5, A6, A7, A8
<1>2. DOMAIN checks = 1..8 /\ \A i \in 1..8 : checks[i][2] # "Ok"
  BY SMTT(30)
<1>3. (\A i \in 1..8 : checks[i][1]) <=> (A1 /\ A2 /\ A3 /\ A4 /\ A5 /\ A6 /\ A7 /\ A8)
  BY SMTT(30)
<1> HIDE DEF checks
<1>4. FirstError(checks) = "Ok" <=> \A i \in 1..8 : checks[i][1]
  BY <1>2, FirstErrorOk
<1>5. BuilderChecks(queue, tree, committer, pathKey) = "Ok" <=>
        (A1 /\ A2 /\ A3 /\ A4 /\ A5 /\ A6 /\ A7 /\ A8)
  BY <1>1, <1>3, <1>4
<1> QED BY <1>5 DEF A1, A2, A3, A4, A5, A6, A7, A8

\* The receiver's checks succeed exactly if each of them does.
LEMMA ValidateCommitOk ==
  ASSUME NEW queue, NEW tree, NEW committer, NEW pathKey
  PROVE  ValidateCommit(queue, tree, committer, pathKey) = "Ok" <=>
           /\ ValidateKeyUniqueness(queue, tree, committer, pathKey)
           /\ ValidateRemoveProposals(queue, tree)
           /\ ValidateGroupContextExtensions(queue)
           /\ ValidateAppDataUpdates(queue)
           /\ ValidatePreSharedKeyProposals(queue)
           /\ ValidateUpdateProposals(queue, committer)
           /\ ValidateReinitProposals(queue)
           /\ PathRequired(queue) => pathKey # NoKey
<1> DEFINE A1 == ValidateKeyUniqueness(queue, tree, committer, pathKey)
           A2 == ValidateRemoveProposals(queue, tree)
           A3 == ValidateGroupContextExtensions(queue)
           A4 == ValidateAppDataUpdates(queue)
           A5 == ValidatePreSharedKeyProposals(queue)
           A6 == ValidateUpdateProposals(queue, committer)
           A7 == ValidateReinitProposals(queue)
           A8 == PathRequired(queue) => pathKey # NoKey
           checks == <<<<A1, "DuplicateSignatureKey">>, <<A2, "RemoveProposals">>,
                       <<A3, "TooManyGCEProposals">>, <<A4, "AppDataUpdate">>,
                       <<A5, "DuplicatePsk">>, <<A6, "CommitterIncludedOwnUpdate">>,
                       <<A7, "ReInitProposalNotAlone">>, <<A8, "RequiredPathNotFound">>>>
<1>1. ValidateCommit(queue, tree, committer, pathKey) = FirstError(checks)
  BY DEF ValidateCommit
<1> HIDE DEF A1, A2, A3, A4, A5, A6, A7, A8
<1>2. DOMAIN checks = 1..8 /\ \A i \in 1..8 : checks[i][2] # "Ok"
  BY SMTT(30)
<1>3. (\A i \in 1..8 : checks[i][1]) <=> (A1 /\ A2 /\ A3 /\ A4 /\ A5 /\ A6 /\ A7 /\ A8)
  BY SMTT(30)
<1> HIDE DEF checks
<1>4. FirstError(checks) = "Ok" <=> \A i \in 1..8 : checks[i][1]
  BY <1>2, FirstErrorOk
<1>5. ValidateCommit(queue, tree, committer, pathKey) = "Ok" <=>
        (A1 /\ A2 /\ A3 /\ A4 /\ A5 /\ A6 /\ A7 /\ A8)
  BY SMTT(30), <1>1, <1>3, <1>4
<1> QED BY <1>5 DEF A1, A2, A3, A4, A5, A6, A7, A8
-----------------------------------------------------------------------------
(* Filtering.                                                              *)

\* In a queue, a reference stands for one proposal.
IdsName(queue) == \A i, j \in DOMAIN queue : queue[i].id = queue[j].id => queue[i] = queue[j]

\* Deduplication keeps proposals of the given positions, with different references.
LEMMA DeduplicatedEntries ==
  ASSUME NEW T, NEW queue \in Seq(T), NEW P \in SUBSET DOMAIN queue
  PROVE  /\ Deduplicated(queue, P) \in Seq(T)
         /\ \A k \in DOMAIN Deduplicated(queue, P) : \E i \in P : Deduplicated(queue, P)[k] = queue[i]
         /\ DistinctIds(Deduplicated(queue, P))
<1> DEFINE Q == {i \in P : \A j \in P : j < i => queue[j].id # queue[i].id}
           D == Subsequence(queue, Q)
           n == Cardinality(Q)
<1>1. Deduplicated(queue, P) = D
  BY DEF Deduplicated
<1>2. Q \in SUBSET P /\ Q \in SUBSET Int /\ IsFiniteSet(Q)
  <2>1. DOMAIN queue = 1..Len(queue) /\ Len(queue) \in Nat
    BY SMTT(30)
  <2>2. IsFiniteSet(1..Len(queue))
    BY SMTT(30), <2>1, FS_Interval
  <2>3. Q \in SUBSET (1..Len(queue)) /\ Q \in SUBSET P
    BY <2>1
  <2> QED BY SMTT(30), <2>2, <2>3, FS_Subset
<1>3. \A i, j \in Q : queue[i].id = queue[j].id => i = j
  <2>1. \A i, j \in Q : i < j => queue[i].id # queue[j].id
    OBVIOUS
  <2>2. \A i \in Q : i \in Int
    BY <1>2
  <2> QED BY SMTT(30), <2>1, <2>2
<1> HIDE DEF Q
<1>4. /\ n \in Nat /\ DOMAIN D = 1..n
      /\ \A k \in 1..n : D[k] = queue[Nth(Q, k)] /\ Nth(Q, k) \in Q
  BY <1>2, SubsequenceEntries
<1>5. \A k, l \in 1..n : Nth(Q, k) = Nth(Q, l) => k = l
  <2>1. \A k \in 1..n : Rank(Q, Nth(Q, k)) = k
    BY <1>2, NthMember
  <2> QED BY <2>1
<1>6. D \in Seq(T)
  <2>1. \A k \in 1..n : queue[Nth(Q, k)] \in T
    <3>1. \A i \in DOMAIN queue : queue[i] \in T
      BY SMTT(30)
    <3>2. \A k \in 1..n : Nth(Q, k) \in DOMAIN queue
      BY <1>2, <1>4
    <3> QED BY <3>1, <3>2
  <2>2. D = [k \in 1..n |-> queue[Nth(Q, k)]]
    BY DEF Subsequence
  <2> HIDE DEF D, n
  <2> QED BY SMTT(30), <1>4, <2>1, <2>2
<1>7. DistinctIds(D)
  <2>1. SUFFICES ASSUME NEW k \in 1..n, NEW l \in 1..n, D[k].id = D[l].id
                 PROVE  k = l
    BY <1>4 DEF DistinctIds
  <2>2. Nth(Q, k) = Nth(Q, l)
    BY SMTT(30), <1>3, <1>4, <2>1
  <2> QED BY <1>5, <2>2
<1> QED BY <1>1, <1>2, <1>4, <1>6, <1>7

\* The entries of two lists that are joined.
LEMMA ConcatEntries ==
  ASSUME NEW T, NEW s \in Seq(T), NEW t \in Seq(T), NEW k \in DOMAIN (s \o t)
  PROVE  \/ k \in DOMAIN s /\ (s \o t)[k] = s[k]
         \/ k - Len(s) \in DOMAIN t /\ (s \o t)[k] = t[k - Len(s)] /\ k \in Int
BY SMTT(30)

\* References stay different when lists without a common reference are joined.
LEMMA ConcatDistinctIds ==
  ASSUME NEW T, NEW s \in Seq(T), NEW t \in Seq(T), DistinctIds(s), DistinctIds(t),
         \A k \in DOMAIN s, l \in DOMAIN t : s[k].id # t[l].id
  PROVE  DistinctIds(s \o t)
<1> DEFINE u == s \o t
<1>1. /\ DOMAIN u = 1..(Len(s) + Len(t)) /\ Len(s) \in Nat /\ Len(t) \in Nat
      /\ DOMAIN s = 1..Len(s) /\ DOMAIN t = 1..Len(t)
  BY SMTT(30)
<1>2. \A k \in DOMAIN u : \/ k \in DOMAIN s /\ u[k] = s[k]
                          \/ k - Len(s) \in DOMAIN t /\ u[k] = t[k - Len(s)] /\ k \in Int
  BY ConcatEntries
<1> HIDE DEF u
<1>3. \A k, l \in DOMAIN u : u[k].id = u[l].id => k = l
  <2>1. SUFFICES ASSUME NEW k \in DOMAIN u, NEW l \in DOMAIN u, u[k].id = u[l].id
                 PROVE  k = l
    OBVIOUS
  <2>2. CASE k \in DOMAIN s /\ u[k] = s[k] /\ l \in DOMAIN s /\ u[l] = s[l]
    BY <2>1, <2>2 DEF DistinctIds
  <2>3. CASE /\ k - Len(s) \in DOMAIN t /\ u[k] = t[k - Len(s)] /\ k \in Int
             /\ l - Len(s) \in DOMAIN t /\ u[l] = t[l - Len(s)] /\ l \in Int
    <3>1. k - Len(s) = l - Len(s)
      BY <2>1, <2>3 DEF DistinctIds
    <3> QED BY SMTT(30), <1>1, <2>3, <3>1
  <2> QED BY <1>2, <2>1, <2>2, <2>3
<1> QED BY <1>3 DEF DistinctIds, u

\* No member has two member-specific proposals.
OnePerMember(list) ==
  \A k, l \in DOMAIN list :
    list[k].type \in MemberSpecific /\ list[l].type \in MemberSpecific
      /\ Concerned(list[k]) = Concerned(list[l]) => k = l

\* register_member_specific_proposal leaves one proposal for a member.
LEMMA OneWinner ==
  ASSUME NEW T, NEW queue \in Seq(T), NEW own,
         NEW p \in MemberSpecificWinners(queue, own), NEW q \in MemberSpecificWinners(queue, own),
         Concerned(p) = Concerned(q)
  PROVE  p = q
<1> DEFINE eligible == {i \in DOMAIN queue : /\ queue[i].type \in MemberSpecific
                                             /\ ~(queue[i].type = "Update" /\ queue[i].sender = own)}
           registered(i) ==
             \A j \in eligible : Concerned(queue[j]) = Concerned(queue[i]) =>
               /\ j < i => HasLowerPriorityThan(queue[j], queue[i])
               /\ i < j => ~HasLowerPriorityThan(queue[i], queue[j])
<1>1. /\ \E i \in eligible : p = queue[i] /\ registered(i)
      /\ \E j \in eligible : q = queue[j] /\ registered(j)
  BY DEF MemberSpecificWinners
<1>2. PICK i \in eligible : p = queue[i] /\ registered(i)
  BY <1>1
<1>3. PICK j \in eligible : q = queue[j] /\ registered(j)
  BY <1>1
<1>4. i \in Nat /\ j \in Nat
  BY SMTT(30)
<1>5. Concerned(queue[j]) = Concerned(queue[i])
  BY <1>2, <1>3
<1>6. ~(i < j)
  BY <1>2, <1>3, <1>5
<1>7. ~(j < i)
  BY <1>2, <1>3, <1>5
<1> QED BY SMTT(30), <1>2, <1>3, <1>4, <1>6, <1>7

\* The list that filter_proposals makes has proposals of the queue only, each of
\* them once, and one about a member.
LEMMA FilteredEntries ==
  ASSUME NEW T, NEW queue \in Seq(T), IdsName(queue), NEW own,
         NEW list \in FilterProposals(queue, own)
  PROVE  /\ list \in Seq(T)
         /\ \A k \in DOMAIN list : \E i \in DOMAIN queue : list[k] = queue[i]
         /\ DistinctIds(list)
         /\ OnePerMember(list)
<1> DEFINE A == Deduplicated(queue, OfType(queue, "Add"))
           V == Deduplicated(queue, ValidInOrder(queue))
           W == MemberSpecificWinners(queue, own)
<1>1. PICK w \in Bijection(1..Cardinality(W), W) : list = (A \o V) \o w
  BY DEF FilterProposals
<1>2. /\ A \in Seq(T) /\ DistinctIds(A)
      /\ \A k \in DOMAIN A : \E i \in DOMAIN queue : A[k] = queue[i] /\ queue[i].type = "Add"
  <2>1. OfType(queue, "Add") \in SUBSET DOMAIN queue
    BY DEF OfType
  <2>2. /\ A \in Seq(T) /\ DistinctIds(A)
        /\ \A k \in DOMAIN A : \E i \in OfType(queue, "Add") : A[k] = queue[i]
    BY SMTT(30), <2>1, DeduplicatedEntries
  <2> QED BY <2>2 DEF OfType
<1>3. /\ V \in Seq(T) /\ DistinctIds(V)
      /\ \A k \in DOMAIN V : \E i \in DOMAIN queue :
           V[k] = queue[i] /\ queue[i].type \notin MemberSpecific \cup {"Add"}
  <2>1. ValidInOrder(queue) \in SUBSET DOMAIN queue
    BY DEF ValidInOrder
  <2>2. /\ V \in Seq(T) /\ DistinctIds(V)
        /\ \A k \in DOMAIN V : \E i \in ValidInOrder(queue) : V[k] = queue[i]
    BY SMTT(30), <2>1, DeduplicatedEntries
  <2> QED BY <2>2 DEF ValidInOrder
<1>4. \A p \in W : \E i \in DOMAIN queue : p = queue[i] /\ queue[i].type \in MemberSpecific
  BY DEF MemberSpecificWinners
<1>5. \A p, q \in W : p.id = q.id => p = q
  BY SMTT(30), <1>4 DEF IdsName
<1>6. \A p, q \in W : Concerned(p) = Concerned(q) => p = q
  BY OneWinner
<1> HIDE DEF A, V, W
<1>7. PICK n : /\ n = Cardinality(W) /\ w \in [1..n -> W]
               /\ \A i, j \in 1..n : i # j => w[i] # w[j]
  BY <1>1 DEF Bijection, Injection, IsInjective
<1>8. n \in Nat
  <2>1. W \in SUBSET {queue[i] : i \in DOMAIN queue}
    BY <1>4
  <2>2. IsFiniteSet({queue[i] : i \in DOMAIN queue})
    BY FiniteRange
  <2>3. IsFiniteSet(W)
    BY <2>1, <2>2, FS_Subset
  <2> QED BY <1>7, <2>3, FS_CardinalityType
<1>9. w \in Seq(T) /\ DOMAIN w = 1..n
  <2>1. \A p \in W : p \in T
    BY SMTT(30), <1>4
  <2> QED BY SMTT(30), <1>7, <1>8, <2>1
<1>10. DistinctIds(w)
  BY <1>5, <1>7, <1>9 DEF DistinctIds
<1>11. \A k \in DOMAIN w : \E i \in DOMAIN queue : w[k] = queue[i] /\ queue[i].type \in MemberSpecific
  BY <1>4, <1>7, <1>9
<1>12. \A k \in DOMAIN A, l \in DOMAIN V : A[k].id # V[l].id
  <2>1. SUFFICES ASSUME NEW k \in DOMAIN A, NEW l \in DOMAIN V, A[k].id = V[l].id
                 PROVE  FALSE
    OBVIOUS
  <2>2. PICK i \in DOMAIN queue : A[k] = queue[i] /\ queue[i].type = "Add"
    BY <1>2, <2>1
  <2>3. PICK j \in DOMAIN queue : V[l] = queue[j] /\ queue[j].type # "Add"
    BY <1>3, <2>1
  <2>4. queue[i].id = queue[j].id
    BY <2>1, <2>2, <2>3
  <2>5. queue[i] = queue[j]
    BY <2>2, <2>3, <2>4 DEF IdsName
  <2> QED BY <2>2, <2>3, <2>5
<1>13. A \o V \in Seq(T) /\ DistinctIds(A \o V)
  BY SMTT(30), <1>2, <1>3, <1>12, ConcatDistinctIds
<1>14. \A k \in DOMAIN (A \o V) : \E i \in DOMAIN queue :
         (A \o V)[k] = queue[i] /\ queue[i].type \notin MemberSpecific
  <2>1. SUFFICES ASSUME NEW k \in DOMAIN (A \o V)
                 PROVE  \E i \in DOMAIN queue :
                          (A \o V)[k] = queue[i] /\ queue[i].type \notin MemberSpecific
    OBVIOUS
  <2>2. \/ k \in DOMAIN A /\ (A \o V)[k] = A[k]
        \/ k - Len(A) \in DOMAIN V /\ (A \o V)[k] = V[k - Len(A)]
    BY SMTT(30), <1>2, <1>3, ConcatEntries
  <2> QED BY <1>2, <1>3, <2>2 DEF MemberSpecific
<1> DEFINE u == A \o V
<1>15. u \in Seq(T) /\ DistinctIds(u) /\ list = u \o w
  BY <1>1, <1>13
<1>16. \A k \in DOMAIN u : \E i \in DOMAIN queue : u[k] = queue[i] /\ queue[i].type \notin MemberSpecific
  BY <1>14
<1> HIDE DEF u
<1>17. \A k \in DOMAIN u, l \in DOMAIN w : u[k].id # w[l].id
  BY SMTT(30), <1>11, <1>16 DEF IdsName
<1>18. list \in Seq(T) /\ DistinctIds(list)
  <2>1. u \o w \in Seq(T)
    BY SMTT(30), <1>9, <1>15
  <2>2. DistinctIds(u \o w)
    BY <1>9, <1>10, <1>15, <1>17, ConcatDistinctIds
  <2> QED BY <1>15, <2>1, <2>2
<1>19. \A k \in DOMAIN list : \E i \in DOMAIN queue : list[k] = queue[i]
  <2>1. SUFFICES ASSUME NEW k \in DOMAIN list
                 PROVE  \E i \in DOMAIN queue : list[k] = queue[i]
    OBVIOUS
  <2>2. \/ k \in DOMAIN u /\ list[k] = u[k]
        \/ k - Len(u) \in DOMAIN w /\ list[k] = w[k - Len(u)]
    BY <1>9, <1>15, ConcatEntries
  <2> QED BY SMTT(30), <1>11, <1>16, <2>2
<1>20. \A k \in DOMAIN list : list[k].type \in MemberSpecific => list[k] \in W
  <2>1. SUFFICES ASSUME NEW k \in DOMAIN list, list[k].type \in MemberSpecific
                 PROVE  list[k] \in W
    OBVIOUS
  <2>2. \/ k \in DOMAIN u /\ list[k] = u[k]
        \/ k - Len(u) \in DOMAIN w /\ list[k] = w[k - Len(u)]
    BY <1>9, <1>15, ConcatEntries
  <2> QED BY <1>7, <1>9, <1>16, <2>1, <2>2
<1>21. OnePerMember(list)
  BY <1>5, <1>18, <1>20, <1>6 DEF OnePerMember, DistinctIds
<1> QED BY <1>18, <1>19, <1>21

-----------------------------------------------------------------------------
(* Sending and rebuilding.                                                 *)

\* What is needed of a store to rebuild a list: it has the proposals that the list
\* refers to, and no other ones with their references.
KnowsList(queue, store) ==
  \A i \in DOMAIN queue : queue[i].byRef =>
    /\ \E j \in DOMAIN store : store[j].id = queue[i].id
    /\ \A j \in DOMAIN store : store[j].id = queue[i].id => store[j] = queue[i]

\* A receiver that knows the proposals of a list rebuilds the committer's list
\* from what the commit says.
LEMMA RebuiltQueue ==
  ASSUME NEW T, NEW queue \in Seq(T), NEW store, DistinctIds(queue), KnowsList(queue, store)
  PROVE  FromCommittedProposals(CommitList(queue), store) = queue
<1> DEFINE list == CommitList(queue)
           r == [i \in DOMAIN list |-> Resolve(list[i], store)]
<1>1. DOMAIN list = DOMAIN queue
  BY DEF CommitList
<1>2. \A i \in DOMAIN queue : Resolve(list[i], store) = queue[i]
  <2>1. SUFFICES ASSUME NEW i \in DOMAIN queue
                 PROVE  Resolve(list[i], store) = queue[i]
    OBVIOUS
  <2>2. CASE queue[i].byRef
    <3>1. list[i].byRef = TRUE /\ list[i].id = queue[i].id
      BY <2>2 DEF CommitList
    <3>2. \E p \in Range(store) : p.id = queue[i].id
      BY <2>2 DEF KnowsList, Range
    <3>3. \A p \in Range(store) : p.id = queue[i].id => p = queue[i]
      BY SMTT(30), <2>2 DEF KnowsList, Range
    <3>4. Resolve(list[i], store) = CHOOSE p \in Range(store) : p.id = queue[i].id
      BY <3>1 DEF Resolve
    <3> QED BY <3>2, <3>3, <3>4
  <2>3. CASE ~queue[i].byRef
    BY <2>3 DEF CommitList, Resolve
  <2> QED BY <2>2, <2>3
<1>3. r = queue
  BY SMTT(30), <1>1, <1>2
<1>4. {i \in DOMAIN queue : \A j \in DOMAIN queue : j < i => queue[j].id # queue[i].id} = DOMAIN queue
  <2>1. \A i \in DOMAIN queue : i \in Int
    BY SMTT(30)
  <2>2. \A i, j \in DOMAIN queue : j < i => queue[j].id # queue[i].id
    BY SMTT(30), <2>1 DEF DistinctIds
  <2> QED BY <2>2
<1>5. Deduplicated(queue, DOMAIN queue) = queue
  BY <1>4, SubsequenceOfAll DEF Deduplicated
<1> QED BY <1>1, <1>3, <1>5 DEF FromCommittedProposals

\* A receiver that has the proposal of an entry finds that proposal.
LEMMA ResolvedEntry ==
  ASSUME NEW queue, NEW store, NEW i \in DOMAIN queue,
         queue[i].byRef => \A j \in DOMAIN store : store[j].id = queue[i].id => store[j] = queue[i]
  PROVE  LET entry == CommitList(queue)[i]
         IN /\ IsKnown(entry, store) => Resolve(entry, store) = queue[i]
            /\ IsKnown(entry, store) <=>
                 (queue[i].byRef => \E j \in DOMAIN store : store[j].id = queue[i].id)
<1> DEFINE list == CommitList(queue)
<1>2. CASE queue[i].byRef
  <2>1. list[i].byRef = TRUE /\ list[i].id = queue[i].id
    BY <1>2 DEF CommitList
  <2>2. IsKnown(list[i], store) <=> \E p \in Range(store) : p.id = queue[i].id
    BY <2>1 DEF IsKnown
  <2>3. \A p \in Range(store) : p.id = queue[i].id => p = queue[i]
    BY <1>2 DEF Range
  <2>4. Resolve(list[i], store) = CHOOSE p \in Range(store) : p.id = queue[i].id
    BY <2>1 DEF Resolve
  <2>5. (\E p \in Range(store) : p.id = queue[i].id) <=> \E j \in DOMAIN store : store[j].id = queue[i].id
    BY DEF Range
  <2> QED BY <1>2, <2>2, <2>3, <2>4, <2>5
<1>3. CASE ~queue[i].byRef
  <2>1. list[i] = queue[i]
    BY <1>3 DEF CommitList
  <2> QED BY <1>3, <2>1 DEF IsKnown, Resolve
<1> QED BY <1>2, <1>3

\* from_committed_proposals accepts a list exactly if it knows all proposals of the
\* list, none of them removes the committer, and no two are about one PSK.
LEMMA CommittedProposalsOk ==
  ASSUME NEW T, NEW queue \in Seq(T), NEW store, DistinctIds(queue), NEW committer,
         \A i \in DOMAIN queue : queue[i].byRef =>
           \A j \in DOMAIN store : store[j].id = queue[i].id => store[j] = queue[i]
  PROVE  CommittedProposalsError(CommitList(queue), store, committer) = "Ok" <=>
           /\ KnowsList(queue, store)
           /\ \A i \in OfType(queue, "Remove") : queue[i].subject # committer
           /\ ValidatePreSharedKeyProposals(queue)
<1> DEFINE list == CommitList(queue)
           error(i) ==
             IF ~IsKnown(list[i], store) THEN "MissingProposal"
             ELSE LET p == Resolve(list[i], store)
                  IN IF p.type = "Remove" /\ p.subject = committer THEN "AttemptedSelfRemoval"
                     ELSE IF /\ p.type = "PreSharedKey"
                             /\ \E j \in 1..(i - 1) :
                                  /\ IsKnown(list[j], store)
                                  /\ LET q == Resolve(list[j], store)
                                     IN q.type = "PreSharedKey" /\ q.subject = p.subject
                          THEN "DuplicatePskId" ELSE "Ok"
           bad == {i \in DOMAIN list : error(i) # "Ok"}
<1>1. CommittedProposalsError(list, store, committer) = IF bad = {} THEN "Ok" ELSE error(Min(bad))
  BY DEF CommittedProposalsError
<1>2. DOMAIN list = 1..Len(queue) /\ DOMAIN queue = 1..Len(queue) /\ Len(queue) \in Nat
  BY SMTT(30) DEF CommitList
<1>3. \A i \in DOMAIN queue : /\ IsKnown(list[i], store) => Resolve(list[i], store) = queue[i]
                              /\ IsKnown(list[i], store) <=>
                                   (queue[i].byRef => \E j \in DOMAIN store : store[j].id = queue[i].id)
  BY ResolvedEntry
<1> HIDE DEF list
<1>4. CommittedProposalsError(list, store, committer) = "Ok" <=> bad = {}
  <2>1. bad \in SUBSET Int /\ IsFiniteSet(bad)
    <3>1. bad \in SUBSET (1..Len(queue)) /\ IsFiniteSet(1..Len(queue))
      BY SMTT(30), <1>2, FS_Interval
    <3> HIDE DEF bad
    <3>2. IsFiniteSet(bad)
      BY <3>1, FS_Subset
    <3>3. \A i \in 1..Len(queue) : i \in Int
      BY SMTT(30), <1>2
    <3> QED BY <3>1, <3>2, <3>3
  <2>2. \A i \in bad : error(i) # "Ok"
    OBVIOUS
  <2> HIDE DEF bad, error
  <2>3. CASE bad # {}
    <3>1. \E x \in bad : \A y \in bad : x <= y
      BY <2>1, <2>3, LeastMember
    <3>2. Min(bad) \in bad
      BY <3>1 DEF Min
    <3> QED BY <1>1, <2>2, <2>3, <3>2
  <2>4. CASE bad = {}
    BY <1>1, <2>4
  <2> QED BY <2>3, <2>4
<1>5. KnowsList(queue, store) <=> \A i \in DOMAIN queue : IsKnown(list[i], store)
  BY <1>3 DEF KnowsList
<1>6. ASSUME \A i \in DOMAIN queue : IsKnown(list[i], store), NEW i \in DOMAIN queue
      PROVE  error(i) = "Ok" <=>
               /\ ~(queue[i].type = "Remove" /\ queue[i].subject = committer)
               /\ ~(/\ queue[i].type = "PreSharedKey"
                    /\ \E j \in 1..(i - 1) :
                         queue[j].type = "PreSharedKey" /\ queue[j].subject = queue[i].subject)
  <2>1. Resolve(list[i], store) = queue[i] /\ i \in 1..Len(queue)
    BY <1>2, <1>3, <1>6
  <2>2. \A j \in 1..(i - 1) : IsKnown(list[j], store) /\ Resolve(list[j], store) = queue[j]
    BY SMTT(30), <1>2, <1>3, <1>6
  <2> QED BY SMTT(30), <1>6, <2>1, <2>2
<1>7. (\A i \in DOMAIN queue :
         ~(/\ queue[i].type = "PreSharedKey"
           /\ \E j \in 1..(i - 1) :
                queue[j].type = "PreSharedKey" /\ queue[j].subject = queue[i].subject))
      <=> ValidatePreSharedKeyProposals(queue)
  <2>1. \A i \in DOMAIN queue : i \in Int /\ 1..(i - 1) = {j \in DOMAIN queue : j < i}
    BY SMTT(30), <1>2
  <2>2. ValidatePreSharedKeyProposals(queue) <=>
          \A i, j \in DOMAIN queue :
            (/\ queue[i].type = "PreSharedKey" /\ queue[j].type = "PreSharedKey"
             /\ queue[i].subject = queue[j].subject) => i = j
    BY DEF ValidatePreSharedKeyProposals, DistinctSubjects, OfType
  <2>3. \A i, j \in DOMAIN queue : i = j \/ i < j \/ j < i
    BY SMTT(30), <2>1
  <2>4. \A i, j \in DOMAIN queue : j < i => i # j
    BY SMTT(30), <2>1
  <2> HIDE DEF error, bad
  <2> QED BY SMTT(30), <2>1, <2>2, <2>3, <2>4
<1>8. bad = {} <=> /\ KnowsList(queue, store)
                   /\ \A i \in OfType(queue, "Remove") : queue[i].subject # committer
                   /\ ValidatePreSharedKeyProposals(queue)
  <2>1. bad = {} <=> \A i \in DOMAIN queue : error(i) = "Ok"
    BY <1>2
  <2>2. \A i \in DOMAIN queue : error(i) = "Ok" => IsKnown(list[i], store)
    OBVIOUS
  <2> HIDE DEF bad, error
  <2>3. CASE \A i \in DOMAIN queue : IsKnown(list[i], store)
    BY <1>5, <1>6, <1>7, <2>1, <2>3 DEF OfType
  <2>4. CASE ~(\A i \in DOMAIN queue : IsKnown(list[i], store))
    BY <1>5, <2>1, <2>2, <2>4
  <2> QED BY <2>3, <2>4
<1> QED BY <1>4, <1>8 DEF list
=============================================================================
