--------------------------- MODULE ProposalQueue ---------------------------
(***************************************************************************)
(* The proposal list of a commit: how a committer selects it from its      *)
(* proposal store, how a receiver rebuilds it, how both validate it and    *)
(* what it does to the ratchet tree's leaves.                              *)
(*                                                                         *)
(* A proposal is a record: "id" is its ProposalRef, "byRef" tells a        *)
(* proposal that was sent on its own from one carried inside the commit,   *)
(* "subject" is what it is about: the signature key of an added client or  *)
(* of an updated leaf, a removed leaf, a PSK id, a component.  "remove"    *)
(* distinguishes the two operations of an AppDataUpdate.                   *)
(* A tree is a function from the occupied leaf indices to leaves.          *)
(***************************************************************************)
EXTENDS Ranks, Functions, FiniteSetsExt

CONSTANT LeafIndices

ASSUME LeafIndicesAssumption == IsFiniteSet(LeafIndices) /\ LeafIndices \subseteq Nat

MemberSpecific == {"Update", "Remove", "SelfRemove"}

PathRequiring == {"Update", "Remove", "SelfRemove", "GroupContextExtensions"}

NoKey == "no key"

\* The positions of the proposals of a type.
OfType(queue, type) == {i \in DOMAIN queue : queue[i].type = type}

SubjectsOf(queue, type) == {queue[i].subject : i \in OfType(queue, type)}

SendersOf(queue, type) == {queue[i].sender : i \in OfType(queue, type)}

\* The leaf a member-specific proposal is registered under.
Concerned(p) == IF p.type = "Remove" THEN p.subject ELSE p.sender

RemovedMembers(queue) == SubjectsOf(queue, "Remove") \cup SendersOf(queue, "SelfRemove")

\* No two entries have the same reference.
DistinctIds(s) == \A k, l \in DOMAIN s : s[k].id = s[l].id => k = l

MutantLaterProposalWins(old, new) == TRUE

HasLowerPriorityThan(old, new) ==
  \/ old.type = "Update"
  \/ old.type = "Remove" /\ new.type = "Remove"
  \/ new.type = "SelfRemove"

\* OrderedProposalRefs and ProposalQueue::add, over some positions of a queue: the
\* first of equal references stays.
Deduplicated(queue, positions) ==
  Subsequence(queue, {i \in positions : \A j \in positions : j < i => queue[j].id # queue[i].id})

\* register_member_specific_proposal: one winner per member, which replaced
\* every earlier proposal about the member and was not replaced by a later one.
\* An Update of the committer itself is left out.
MemberSpecificWinners(queue, ownIndex) ==
  LET eligible == {i \in DOMAIN queue : /\ queue[i].type \in MemberSpecific
                                        /\ ~(queue[i].type = "Update" /\ queue[i].sender = ownIndex)}
      registered(i) ==
        \A j \in eligible : Concerned(queue[j]) = Concerned(queue[i]) =>
          /\ j < i => HasLowerPriorityThan(queue[j], queue[i])
          /\ i < j => ~HasLowerPriorityThan(queue[i], queue[j])
  IN {queue[i] : i \in {k \in eligible : registered(k)}}

\* All types but Adds and the above, of the ReInits only the first.
ValidInOrder(queue) ==
  {i \in DOMAIN queue :
     /\ queue[i].type \notin MemberSpecific \cup {"Add"}
     /\ queue[i].type = "ReInit" => \A j \in OfType(queue, "ReInit") : i <= j}

\* The queues filter_proposals can return: the winners come out of a HashMap.
FilterProposals(queue, ownIndex) ==
  LET winners == MemberSpecificWinners(queue, ownIndex)
  IN {Deduplicated(queue, OfType(queue, "Add")) \o Deduplicated(queue, ValidInOrder(queue)) \o ordered :
        ordered \in Bijection(1..Cardinality(winners), winners)}

ContainsOwnUpdates(queue, ownIndex) == ownIndex \in SendersOf(queue, "Update")

-----------------------------------------------------------------------------
(* Validation.  Each check is a pair of a condition and the error it       *)
(* reports; the first failing one is the result.                           *)

FirstError(checks) ==
  LET failing == {i \in DOMAIN checks : ~checks[i][1]}
  IN IF failing = {} THEN "Ok" ELSE checks[Min(failing)][2]

SubjectSeq(queue, type) ==
  LET s == Subsequence(queue, OfType(queue, type)) IN [i \in DOMAIN s |-> s[i].subject]

\* No two proposals of the type have the same subject.
DistinctSubjects(queue, type) ==
  \A i, j \in OfType(queue, type) : queue[i].subject = queue[j].subject => i = j

MutantNoKeyUniqueness(queue, tree, committer, pathKey) == TRUE

\* pathKey is the signature key of the leaf the commit's path installs.
ValidateKeyUniqueness(queue, tree, committer, pathKey) ==
  LET kept == DOMAIN tree \ RemovedMembers(queue)
      path == IF pathKey = NoKey THEN {} ELSE {pathKey}
      members == {tree[m].key : m \in kept \ (IF pathKey = NoKey THEN {} ELSE {committer})}
      added == SubjectsOf(queue, "Add")
  IN DistinctSubjects(queue, "Add") /\ added \cap path = {} /\ (added \cup path) \cap members = {}

ValidateRemoveProposals(queue, tree) ==
  /\ SubjectsOf(queue, "Remove") \subseteq DOMAIN tree
  /\ DistinctSubjects(queue, "Remove")
  /\ SubjectsOf(queue, "Remove") \cap SendersOf(queue, "Update") = {}

ValidatePreSharedKeyProposals(queue) == DistinctSubjects(queue, "PreSharedKey")

ValidateReinitProposals(queue) == OfType(queue, "ReInit") # {} => Len(queue) = 1

ValidateUpdateProposals(queue, committer) == committer \notin SendersOf(queue, "Update")

ValidateGroupContextExtensions(queue) == Cardinality(OfType(queue, "GroupContextExtensions")) <= 1

\* The dictionary of the first GroupContextExtensions proposal, if both exist.
ProposedDictionary(queue) ==
  LET gce == OfType(queue, "GroupContextExtensions")
  IN IF gce = {} THEN {} ELSE queue[Min(gce)].subject

\* Without a proposed dictionary the loop returns Ok at the first Remove it meets.
ValidateAppDataUpdates(queue) ==
  /\ \A i, j \in DOMAIN queue :
       queue[i].type = "AppDataUpdate" /\ queue[j].type = "GroupContextExtensions" => j < i
  /\ \A dictionary \in ProposedDictionary(queue), i \in DOMAIN queue :
       queue[i].type = "AppDataUpdate" /\ queue[i].subject.remove =>
         /\ queue[i].subject.component \in dictionary
         /\ \A j \in DOMAIN queue \ {i} :
              queue[j].type = "AppDataUpdate" =>
                queue[j].subject.component # queue[i].subject.component

-----------------------------------------------------------------------------
(* What a validated list does to the leaves.  "leaf" names the leaf node   *)
(* a proposal or a path installs.                                          *)

NewLeaf(p) == [key |-> p.subject, leaf |-> p.id]

\* apply_proposals: Updates, then Removes and SelfRemoves, then Adds, each at the
\* leftmost free leaf.
ApplyProposals(queue, tree) ==
  LET updates == {queue[i] : i \in OfType(queue, "Update")}
      adds == OfType(queue, "Add")
      kept == DOMAIN tree \ RemovedMembers(queue)
      free == LeafIndices \ kept
      joined == {Nth(free, k) : k \in 1..Cardinality(adds)}
  IN [m \in kept \cup joined |->
        IF m \in joined THEN NewLeaf(queue[Nth(adds, Rank(free, m))])
        ELSE IF \E p \in updates : p.sender = m
        THEN NewLeaf(CHOOSE p \in updates : p.sender = m)
        ELSE tree[m]]

PathRequired(queue) == queue = <<>> \/ \E p \in Range(queue) : p.type \in PathRequiring

-----------------------------------------------------------------------------
(* The committer's and the receiver's side of a member commit.             *)

MutantBuilderRemovesSelf(queue, tree, committer, pathKey) ==
  FirstError(<<
    <<ValidateKeyUniqueness(queue, tree, committer, pathKey), "DuplicateSignatureKey">>,
    <<ValidateRemoveProposals(queue, tree), "RemoveProposals">> >>)

\* validate_* as called by build_internal, in its order.
BuilderChecks(queue, tree, committer, pathKey) ==
  FirstError(<<
    <<ValidateKeyUniqueness(queue, tree, committer, pathKey), "DuplicateSignatureKey">>,
    <<ValidateRemoveProposals(queue, tree), "RemoveProposals">>,
    <<ValidatePreSharedKeyProposals(queue), "DuplicatePsk">>,
    <<ValidateReinitProposals(queue), "ReInitProposalNotAlone">>,
    <<ValidateUpdateProposals(queue, committer), "CommitterIncludedOwnUpdate">>,
    <<ValidateGroupContextExtensions(queue), "TooManyGCEProposals">>,
    <<ValidateAppDataUpdates(queue), "AppDataUpdate">>,
    <<committer \notin RemovedMembers(queue), "CannotRemoveSelf">> >>)

\* What goes over the wire: a proposal by value, or only the reference of one.
CommitList(queue) ==
  [i \in DOMAIN queue |-> IF queue[i].byRef THEN [byRef |-> TRUE, id |-> queue[i].id]
                                            ELSE queue[i]]

\* The store's proposal for a reference; the proposal itself if by value.
Resolve(entry, store) ==
  IF entry.byRef THEN CHOOSE p \in Range(store) : p.id = entry.id ELSE entry

IsKnown(entry, store) == entry.byRef => \E p \in Range(store) : p.id = entry.id

FromCommittedProposals(list, store) ==
  Deduplicated([i \in DOMAIN list |-> Resolve(list[i], store)], DOMAIN list)

\* from_committed_proposals' own errors, at the first offending entry.
CommittedProposalsError(list, store, committer) ==
  LET error(i) ==
        IF ~IsKnown(list[i], store) THEN "MissingProposal"
        ELSE LET p == Resolve(list[i], store)
             IN IF p.type = "Remove" /\ p.subject = committer THEN "AttemptedSelfRemoval"
                ELSE IF /\ p.type = "PreSharedKey"
                        /\ \E j \in 1..(i - 1) :
                             /\ IsKnown(list[j], store)
                             /\ LET q == Resolve(list[j], store)
                                IN q.type = "PreSharedKey" /\ q.subject = p.subject
                     THEN "DuplicatePskId" ELSE "Ok"
      bad == {i \in DOMAIN list : error(i) # "Ok"}
  IN IF bad = {} THEN "Ok" ELSE error(Min(bad))

\* validate_commit for a member's commit, after the queue was rebuilt.
ValidateCommit(queue, tree, committer, pathKey) ==
  FirstError(<<
    <<ValidateKeyUniqueness(queue, tree, committer, pathKey), "DuplicateSignatureKey">>,
    <<ValidateRemoveProposals(queue, tree), "RemoveProposals">>,
    <<ValidateGroupContextExtensions(queue), "TooManyGCEProposals">>,
    <<ValidateAppDataUpdates(queue), "AppDataUpdate">>,
    <<ValidatePreSharedKeyProposals(queue), "DuplicatePsk">>,
    <<ValidateUpdateProposals(queue, committer), "CommitterIncludedOwnUpdate">>,
    <<ValidateReinitProposals(queue), "ReInitProposalNotAlone">>,
    <<PathRequired(queue) => pathKey # NoKey, "RequiredPathNotFound">> >>)
=============================================================================
