--------------------------- MODULE CommitCreation ---------------------------
(***************************************************************************)
(* One epoch of a group: members frame proposals and queue what reaches    *)
(* them, in any order and possibly twice; one member builds a commit with  *)
(* the commit builder (members of its proposal store, proposals of its     *)
(* own, a filter); the others stage the commit when it arrives.            *)
(*                                                                         *)
(* The confirmation tag is abstracted to what the two sides feed into it   *)
(* independently: the leaves of the new tree, and the list of PSKs, whose  *)
(* order, positions and number all enter psk_secret (PskSecret::new).      *)
(* Secrets are known to everyone, so loading a PSK never fails.            *)
(***************************************************************************)
EXTENDS ProposalQueue

CONSTANTS
  Tree,        \* the ratchet tree's leaves in this epoch
  Active,      \* the members that queue proposals and stage commits
  Committers,  \* those of them that may commit
  Scenarios,   \* per kind of epoch: the proposals members may send on their
               \* own (catalogue), the settings of a commit builder (options,
               \* see Build), and a bound on the proposals framed (max_sent)
  MaxQueued    \* bound: length of a proposal store

\* A member's signature key is its own.
ASSUME TreeAssumption ==
  /\ DOMAIN Tree \subseteq LeafIndices
  /\ \A m, n \in DOMAIN Tree : Tree[m].key = Tree[n].key => m = n
  /\ \A m \in DOMAIN Tree : Tree[m].key # NoKey
  /\ Active \subseteq Nat /\ Committers \subseteq Active \cap DOMAIN Tree

\* The proposals of a kind of epoch, sent on their own or added by a builder.
Proposals(s) ==
  Scenarios[s].catalogue \cup UNION {Range(opt.own_proposals) : opt \in Scenarios[s].options}

AddedKeys(s) == {p.subject : p \in {q \in Proposals(s) : q.type = "Add"}}

\* The keys that a new signature key of the sender of p must not be.
KeysOfOthers(s, p) ==
  {Tree[m].key : m \in DOMAIN Tree \ {p.sender}} \cup AddedKeys(s)
    \cup {q.subject : q \in {r \in Proposals(s) : r.type = "Update" /\ r.sender # p.sender}}
    \cup {opt.new_key : opt \in Scenarios[s].options}

\* A reference is the hash of one proposal.  An Update keeps its sender's signature
\* key or brings one that nobody else has: validate_key_uniqueness does not look
\* at the keys of Updates.  There is a leaf for every client that may be added.
ASSUME ScenariosAssumption ==
  \A s \in DOMAIN Scenarios :
    /\ \A opt \in Scenarios[s].options : opt.own_proposals \in Seq(Proposals(s))
    /\ \A p, q \in Proposals(s) : p.id = q.id => p = q
    /\ \A p \in Proposals(s) : p.type = "Update" /\ p.sender \in DOMAIN Tree =>
         p.subject = Tree[p.sender].key \/ p.subject \notin KeysOfOthers(s, p)
    /\ IsFiniteSet(AddedKeys(s))
    /\ Cardinality(DOMAIN Tree) + Cardinality(AddedKeys(s)) <= Cardinality(LeafIndices)

VARIABLES
  scenario,    \* the kind of epoch, chosen once
  sent, proposal_store, commit, staged
vars == <<scenario, sent, proposal_store, commit, staged>>

Catalogue == Scenarios[scenario].catalogue

NoCommit == [committer |-> -1]

Nothing == "nothing"

Init ==
  /\ scenario \in DOMAIN Scenarios
  /\ sent = {}
  /\ proposal_store = [m \in Active |-> <<>>]
  /\ commit = NoCommit
  /\ staged = [m \in Active |-> Nothing]

\* The epoch's proposals are framed before its commit, whose author stops
\* looking at its store.
Queueing(m) == m # commit.committer

Queue(m, p) ==
  /\ Queueing(m)
  /\ Len(proposal_store[m]) < MaxQueued
  /\ proposal_store' = [proposal_store EXCEPT ![m] = Append(@, p)]

\* A member frames a proposal and queues it; members outside Active only send.
Propose(p) ==
  /\ commit = NoCommit
  /\ p \notin sent /\ Cardinality(sent) < Scenarios[scenario].max_sent
  /\ sent' = sent \cup {p}
  /\ IF p.sender \in Active THEN Queue(p.sender, p) ELSE UNCHANGED proposal_store
  /\ UNCHANGED <<scenario, commit, staged>>

\* store_pending_proposal: no check that the proposal is already there.
StorePendingProposal(m, p) ==
  /\ p \in sent /\ p.sender # m
  /\ Queue(m, p)
  /\ UNCHANGED <<scenario, sent, commit, staged>>

RemovePendingProposal(m, id) ==
  /\ Queueing(m)
  /\ \E i \in DOMAIN proposal_store[m] :
       /\ proposal_store[m][i].id = id
       /\ \A j \in 1..(i - 1) : proposal_store[m][j].id # id
       /\ proposal_store' = [proposal_store EXCEPT ![m] = Subsequence(@, DOMAIN @ \ {i})]
  /\ UNCHANGED <<scenario, sent, commit, staged>>

ClearPendingProposals(m) ==
  /\ Queueing(m)
  /\ proposal_store[m] # <<>>
  /\ proposal_store' = [proposal_store EXCEPT ![m] = <<>>]
  /\ UNCHANGED <<scenario, sent, commit, staged>>

PskList(queue) == SubjectSeq(queue, "PreSharedKey")

\* load_psks: the builder's own proposals, then the whole proposal store.
LoadPsks(own, store) == PskList(own) \o PskList(store)

\* The leaves after the proposals and, with a path, the committer's new leaf.
NewTree(queue, committer, pathKey) ==
  LET applied == ApplyProposals(queue, Tree)
  IN IF pathKey = NoKey THEN applied
     ELSE [applied EXCEPT ![committer] = [key |-> pathKey, leaf |-> 0]]

\* build_internal up to the finished commit.  The options of a builder are
\* the proposals it adds by value, consume_proposal_store, the signature key
\* of a new signer and force_self_update; the filter drops the excluded ones.
Build(m, opt, excluded) ==
  LET store == IF opt.consume_proposal_store THEN proposal_store[m] ELSE <<>>
      all == store \o opt.own_proposals
      input == Subsequence(all, {i \in DOMAIN all : all[i].id \notin excluded})
  IN \E queue \in FilterProposals(input, m) :
       LET path == \/ PathRequired(queue)
                   \/ ContainsOwnUpdates(input, m)
                   \/ opt.force_self_update
                   \/ opt.new_key # NoKey
           pathKey == IF ~path THEN NoKey
                      ELSE IF opt.new_key # NoKey THEN opt.new_key ELSE Tree[m].key
       IN /\ BuilderChecks(queue, Tree, m, opt.new_key) = "Ok"
          /\ commit' = [committer |-> m, list |-> CommitList(queue), pathKey |-> pathKey,
                        tree |-> NewTree(queue, m, pathKey),
                        psks |-> LoadPsks(opt.own_proposals, proposal_store[m]),
                        queue |-> queue,
                        \* what the builder was asked for, for the properties
                        removals |-> RemovedMembers(input)]

CreateCommit(m) ==
  /\ commit = NoCommit
  /\ \E opt \in Scenarios[scenario].options :
       \E excluded \in SUBSET {p.id : p \in Range(proposal_store[m] \o opt.own_proposals)} :
         Build(m, opt, excluded)
  /\ UNCHANGED <<scenario, sent, proposal_store, staged>>

\* validate_commit and stage_applied_proposal_values; a removed member returns
\* before the confirmation tag is computed.
StageCommitResult(m) ==
  LET store == proposal_store[m]
      error == CommittedProposalsError(commit.list, store, commit.committer)
      queue == FromCommittedProposals(commit.list, store)
      invalid == ValidateCommit(queue, Tree, commit.committer, commit.pathKey)
  IN IF error # "Ok" THEN error
     ELSE IF invalid # "Ok" THEN invalid
     ELSE IF m \in RemovedMembers(queue) THEN "Removed"
     ELSE IF \/ NewTree(queue, commit.committer, commit.pathKey) # commit.tree
             \/ PskList(queue) # commit.psks THEN "ConfirmationTagMismatch"
     ELSE "Staged"

\* A failed attempt leaves the group as it was and may be repeated.
StageCommit(m) ==
  /\ commit # NoCommit /\ m # commit.committer
  /\ staged[m] \notin {"Staged", "Removed"}
  /\ staged' = [staged EXCEPT ![m] = StageCommitResult(m)]
  /\ UNCHANGED <<scenario, sent, proposal_store, commit>>

Next ==
  \/ \E p \in Catalogue : Propose(p)
  \/ \E m \in Active, p \in Catalogue : StorePendingProposal(m, p)
  \/ \E m \in Active, id \in {p.id : p \in Catalogue} : RemovePendingProposal(m, id)
  \/ \E m \in Active : ClearPendingProposals(m) \/ StageCommit(m)
  \/ \E m \in Committers : CreateCommit(m)

Spec == Init /\ [][Next]_vars

-----------------------------------------------------------------------------

\* Members queue only proposals that were sent, and the commit is none or one
\* built by the commit builder of a committer.
TypeOK ==
  /\ scenario \in DOMAIN Scenarios
  /\ sent \subseteq Catalogue /\ Cardinality(sent) <= Scenarios[scenario].max_sent
  /\ DOMAIN proposal_store = Active
  /\ \A m \in Active : Range(proposal_store[m]) \subseteq Catalogue /\ Len(proposal_store[m]) <= MaxQueued
  /\ commit.committer \in Active \cup {-1}
  /\ commit # NoCommit => commit.committer \in DOMAIN commit.tree
  /\ staged \in [Active -> STRING]

\* Whatever build_internal accepts and signs, a member that holds the
\* referenced proposals validates: no check of validate_commit or
\* from_committed_proposals goes beyond the builder's, and both sides compute the
\* same new tree.  Only the PSKs that load_psks selects can make them disagree.
CommitsAreStageable ==
  \A m \in Active :
    /\ staged[m] \in {Nothing, "Staged", "Removed", "MissingProposal", "ConfirmationTagMismatch"}
    /\ staged[m] = "ConfirmationTagMismatch" => commit.psks # PskList(commit.queue)

\* filter_proposals never drops a removal that was selected for the commit in
\* favour of an Update, whatever the order in which they were queued.
RemovalsAreNotLost ==
  commit # NoCommit => commit.removals \subseteq RemovedMembers(commit.queue)

\* Every member is the object of at most one Update, Remove or SelfRemove in a
\* commit: validate_remove_proposals does not look at SelfRemoves, and nothing
\* looks for two Updates of one member, so this rests on filter_proposals.
OneProposalPerMember ==
  commit # NoCommit =>
    \A i, j \in DOMAIN commit.queue :
      /\ i # j
      /\ {commit.queue[i].type, commit.queue[j].type} \subseteq MemberSpecific
      => Concerned(commit.queue[i]) # Concerned(commit.queue[j])

\* The signature keys of the members stay unique: an added client may only
\* take the key of a member that the same commit removes, and a committer may
\* not rotate to a key that is or becomes a member's (validate_key_uniqueness).
SignatureKeysStayUnique ==
  commit # NoCommit =>
    \A m, n \in DOMAIN commit.tree : m # n => commit.tree[m].key # commit.tree[n].key

\* What a commit does to the members is consistent.
MembersStayDistinct == OneProposalPerMember /\ SignatureKeysStayUnique

-----------------------------------------------------------------------------
(* What the documentation says and the code does not do.                   *)

\* "Loads the PSKs for the PskProposals marked for inclusion": the key schedule
\* uses exactly the PSKs of the commit's proposals, so that a member with all
\* referenced proposals can follow it.
PsksOfTheCommit == \A m \in Active : staged[m] # "ConfirmationTagMismatch"

\* "For any ComponentId, the list of AppDataUpdateProposals includes both
\* Updates and Removes" and "includes more than one Remove" are errors.
AppDataUpdatesDoNotConflict ==
  commit # NoCommit =>
    \A i, j \in DOMAIN commit.queue :
      /\ i # j
      /\ commit.queue[i].type = "AppDataUpdate" /\ commit.queue[j].type = "AppDataUpdate"
      /\ commit.queue[i].subject.remove
      => commit.queue[i].subject.component # commit.queue[j].subject.component
=============================================================================
