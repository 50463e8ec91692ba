---------------------------- MODULE GroupJoining ----------------------------
(***************************************************************************)
(* How a client comes to the secrets of an epoch: by creating the group,   *)
(* by committing, by processing a commit, from a Welcome, by an external   *)
(* commit, or by branching off or reinitializing an older group.  All of   *)
(* them go through the key schedule (module KeySchedule); module           *)
(* ProposalQueue selects and validates the proposals of a commit.          *)
(*                                                                         *)
(* A signature key is a string, Owner[key] the identity in its credential. *)
(* A group is a record; its "pending" commit is a set of at most one.      *)
(* Options are sets of at most one element, and a function that may fail   *)
(* returns the set of its results.  The extensions of a group are its      *)
(* external senders, records [index, signer].                              *)
(***************************************************************************)
EXTENDS ProposalQueue, KeySchedule, TLC

CONSTANT Owner

\* Sender values of non-members; a member is its leaf index.
ExternalSender(index) == 1000 + index

NewMemberProposal == 2000

NewMemberCommit == 2001

Context(g) ==
  [gid |-> g.gid, suite |-> g.suite, epoch |-> g.epoch, tree |-> g.tree, exts |-> g.exts,
   transcript |-> g.transcript]

OwnKey(g) == g.tree[g.own].key

Credentials(tree) == [identity \in {Owner[tree[m].key] : m \in DOMAIN tree} |->
                        Cardinality({m \in DOMAIN tree : Owner[tree[m].key] = identity})]

\* MlsGroupBuilder::build: an epoch 0 from a random init secret.
NewGroup(gid, suite, exts, key) ==
  LET context == [gid |-> gid, suite |-> suite, epoch |-> 0, exts |-> exts,
                  tree |-> 0 :> [key |-> key, leaf |-> <<>>], transcript |-> <<>>]
      joiner == JoinerSecret(Zero, <<"random", gid, key>>, context)
      secret == EpochSecret(KeyScheduleInit(joiner, PskSecret(<<>>)), context)
  IN context @@ [own |-> 0, epoch_secret |-> secret, proposal_store |-> <<>>, pending |-> {},
                 active |-> TRUE, resumption_psks |-> 0 :> ResumptionPskSecret(secret)]

IsOperational(g) == g.active /\ g.pending = {}

(***************************************************************************)
(* Proposals.  "id" is the ProposalRef; an update carries a fresh leaf, so *)
(* n tells two updates of one member apart.                                *)
(***************************************************************************)
Proposal(type, sender, subject, byRef, gid, epoch, n) ==
  [id |-> <<type, gid, epoch, sender, subject, n>>, type |-> type, sender |-> sender,
   subject |-> subject, byRef |-> byRef]

\* Proposals of clients that are not members, for the epoch of a GroupInfo.
JoinProposal(key, context) ==
  Proposal("Add", NewMemberProposal, key, TRUE, context.gid, context.epoch, 0)

ExternalProposal(type, subject, context, index) ==
  Proposal(type, ExternalSender(index), subject, TRUE, context.gid, context.epoch, 0)

PskIds(queue) == SubjectSeq(queue, "PreSharedKey")

ReInitOf(queue) == SubjectsOf(queue, "ReInit")

(***************************************************************************)
(* The new epoch a validated list of proposals and a path lead to, as the  *)
(* committer and every receiver compute it.                                *)
(***************************************************************************)
Applied(g, queue, committer, pathKey, content) ==
  LET tree == ApplyProposals(queue, g.tree)
      leaf == [key |-> pathKey, leaf |-> <<"path", g.gid, g.epoch, pathKey>>]
      gce == OfType(queue, "GroupContextExtensions")
  IN [g EXCEPT !.tree = IF pathKey = NoKey THEN tree ELSE (committer :> leaf) @@ tree,
               !.exts = IF gce = {} THEN @ ELSE queue[Min(gce)].subject,
               !.epoch = @ + 1,
               !.transcript = Append(@, content)]

NextSecrets(applied, init_secret, commit_secret, psks) ==
  LET context == Context(applied)
      joiner == JoinerSecret(commit_secret, init_secret, context)
      schedule == KeyScheduleInit(joiner, PskSecret(psks))
      secret == EpochSecret(schedule, context)
  IN [joiner |-> joiner, welcome |-> WelcomeSecret(schedule), epoch_secret |-> secret,
      tag |-> ConfirmationTag(secret, applied.transcript)]

\* A staged commit: the group after it and what became of the old one.
Staged(applied, epoch_secret, removed, queue) ==
  [group |-> [applied EXCEPT !.epoch_secret = epoch_secret], removed |-> removed,
   reinit |-> ReInitOf(queue)]

\* merge_staged_commit and merge_commit: of a commit that removes this member
\* only the public part is merged, the epoch's secrets stay the old ones.
MergeStagedCommit(g, staged) ==
  [staged.group EXCEPT !.proposal_store = <<>>, !.pending = {},
     !.active = ~staged.removed /\ staged.reinit = {},
     !.resumption_psks = (staged.group.epoch :> ResumptionPskSecret(staged.group.epoch_secret)) @@ @]

MergePendingCommit(g) ==
  IF g.pending = {} THEN g ELSE MergeStagedCommit(g, CHOOSE staged \in g.pending : TRUE)

GroupInfo(g, with_ratchet_tree) ==
  [type |-> "group info", context |-> Context(g),
   tag |-> ConfirmationTag(g.epoch_secret, g.transcript),
   external_pub |-> PublicKey(ExternalPriv(g.epoch_secret)),
   ratchet_tree |-> IF with_ratchet_tree THEN {g.tree} ELSE {}]

(***************************************************************************)
(* The commit builder.  "external" is the key of an external committer,    *)
(* with the init secret and the index it commits under.                    *)
(***************************************************************************)
CommitterOf(g) == [key |-> OwnKey(g), init |-> InitSecret(g.epoch_secret), sender |-> g.own]

\* A commit to one epoch of a group, with the confirmation tag of the next.
FramedCommit(g, content, path, tag) ==
  [type |-> "commit", gid |-> g.gid, epoch |-> g.epoch, content |-> content, path |-> path,
   tag |-> tag]

\* What a Welcome tells each new member, encrypted to its key package.
GroupSecrets(joiner, psks) == [joiner |-> joiner, psks |-> psks]

Welcome(suite, new_members, group_secrets, welcome_secret, info) ==
  [type |-> "welcome", suite |-> suite, new_members |-> new_members, psks |-> group_secrets.psks,
   joiner |-> group_secrets.joiner, key |-> welcome_secret, info |-> info]

\* filter, validate, apply, derive, and encrypt the secrets to the new members.
\* A key package is a record [key, suite]; new_members holds those of the Adds.
\* psks are all the keys loaded, the Welcome names those of the filtered queue.
BuildCommit(g, committer, own_proposals, force_self_update, psks, new_members) ==
  LET input == g.proposal_store \o own_proposals
      external == committer.sender = NewMemberCommit
      built(queue) ==
        LET path == \/ PathRequired(queue) \/ ContainsOwnUpdates(input, g.own)
                    \/ force_self_update \/ external
            pathKey == IF path THEN committer.key ELSE NoKey
            content == [sender |-> committer.sender, list |-> CommitList(queue), pathKey |-> pathKey]
            applied == Applied(g, queue, g.own, pathKey, content)
            path_secret == <<"fresh", committer.key, g.gid, g.epoch>>
            secrets == NextSecrets(applied, committer.init,
                                   IF path THEN CommitSecret(path_secret) ELSE Zero, psks)
            staged == Staged(applied, secrets.epoch_secret, FALSE, queue)
            added == {kp \in new_members : kp.key \in SubjectsOf(queue, "Add")}
        IN [group |-> [g EXCEPT !.pending = {staged}],
            commit |-> FramedCommit(g, content, IF path THEN {path_secret} ELSE {}, secrets.tag),
            welcome |-> {Welcome(g.suite, added, GroupSecrets(secrets.joiner, PskIds(queue)),
                                 secrets.welcome, GroupInfo(staged.group, TRUE)) :
                           nonempty \in {TRUE} \cap {added # {}}}]
      valid(queue) ==
        /\ BuilderChecks(queue, g.tree, committer.sender,
                         IF external THEN committer.key ELSE NoKey) = "Ok"
        /\ \A i \in DOMAIN PskIds(queue) : IsForeign(PskIds(queue)[i]) => g.epoch = 0
        /\ \A kp \in new_members : kp.key \in SubjectsOf(queue, "Add") => kp.suite = g.suite
  IN {built(queue) : queue \in {q \in FilterProposals(input, g.own) : valid(q)}}

(***************************************************************************)
(* Receiving.  process_message for a proposal sent on its own: "signer" is *)
(* who signed it, "group" the group and epoch it was framed for.           *)
(***************************************************************************)
AcceptsProposal(g, message) ==
  /\ g.active
  /\ message.gid = g.gid /\ message.epoch = g.epoch
  /\ \/ message.proposal.sender \in DOMAIN g.tree
     \/ message.proposal.sender = NewMemberProposal /\ message.proposal.type = "Add"
     \/ \E sender \in g.exts : /\ message.proposal.sender = ExternalSender(sender.index)
                               /\ message.signer = sender.signer

StorePendingProposal(g, proposal) == [g EXCEPT !.proposal_store = Append(@, proposal)]

ExternalCommitter(g, queue) ==
  Min(LeafIndices \ (DOMAIN g.tree \ RemovedMembers(queue)))

MutantTagMatches(commit, tag) == TRUE

TagMatches(commit, tag) == commit.tag = tag

\* process_message and stage_commit for a commit of another client.
StageCommit(g, commit, stored_psks) ==
  LET list == commit.content.list
      external == commit.content.sender = NewMemberCommit
      queue == FromCommittedProposals(list, g.proposal_store)
      committer == IF external THEN ExternalCommitter(g, queue) ELSE commit.content.sender
      removed == g.own \in RemovedMembers(queue)
      applied == Applied(g, queue, committer, commit.content.pathKey, commit.content)
      init == IF external THEN InitFromKemOutput(ExternalPriv(g.epoch_secret),
                                                 Head(SubjectSeq(queue, "ExternalInit")))
              ELSE InitSecret(g.epoch_secret)
      commit_secret == IF commit.path = {} THEN Zero
                       ELSE CommitSecret(CHOOSE secret \in commit.path : TRUE)
      staged(psks) == NextSecrets(applied, init, commit_secret, psks)
  IN IF /\ g.active /\ commit.gid = g.gid /\ commit.epoch = g.epoch
        /\ external \/ committer \in DOMAIN g.tree
        /\ CommittedProposalsError(list, g.proposal_store, commit.content.sender) = "Ok"
        /\ ValidateCommit(queue, g.tree, commit.content.sender, commit.content.pathKey) = "Ok"
     THEN IF removed THEN {Staged(applied, g.epoch_secret, TRUE, queue)}
          ELSE {Staged(applied, staged(psks).epoch_secret, FALSE, queue) :
                  psks \in {p \in LoadPsks(stored_psks, g.resumption_psks, {g.gid}, {}, PskIds(queue)) :
                              TagMatches(commit, staged(p).tag)}}
     ELSE {}

(***************************************************************************)
(* Branches and successors.                                                *)
(***************************************************************************)
BranchInfo(g) ==
  [suite |-> g.suite, gid |-> g.gid, epoch |-> g.epoch,
   secret |-> ResumptionPskSecret(g.epoch_secret), members |-> Credentials(g.tree)]

ReInitInfo(g, proposal) ==
  IF g.active THEN {}
  ELSE {[proposal |-> proposal, gid |-> g.gid, epoch |-> g.epoch,
         secret |-> ResumptionPskSecret(g.epoch_secret), members |-> Credentials(g.tree)]}

ForeignPsk(usage, info, nonce) ==
  [id |-> ResumptionPsk(usage, info.gid, info.epoch, nonce), secret |-> info.secret]

\* The first commit of a fresh group: it adds the others, and mixes in the
\* older group's resumption PSK.
FirstCommit(g, usage, info, exts, force_self_update, new_members) ==
  LET foreign == ForeignPsk(usage, info, <<OwnKey(g), g.gid>>)
      own(type, subject) == Proposal(type, 0, subject, FALSE, g.gid, 0, 0)
      adds == SetToSeq(new_members)
      own_proposals == <<own("PreSharedKey", foreign.id)>>
                         \o [i \in DOMAIN adds |-> own("Add", adds[i].key)]
                         \o (IF exts = {} THEN <<>>
                             ELSE <<own("GroupContextExtensions", CHOOSE e \in exts : TRUE)>>)
  IN UNION {BuildCommit(g, CommitterOf(g), own_proposals, force_self_update, psks, new_members) :
              psks \in LoadPsks(<<>>, g.resumption_psks, {g.gid}, {foreign}, <<foreign.id>>)}

BuildBranch(info, gid, key, exts, force_self_update, new_members) ==
  FirstCommit(NewGroup(gid, info.suite, {}, key), "Branch", info, exts,
              force_self_update, new_members)

BuildReinit(info, key, force_self_update, new_members) ==
  FirstCommit(NewGroup(info.proposal.gid, info.proposal.suite, info.proposal.exts, key),
              "Reinit", info, {}, force_self_update, new_members)

(***************************************************************************)
(* Joining from a Welcome with a key package, in the order of the code.    *)
(* keys_for_welcome deletes the key package as soon as the Welcome names   *)
(* it: every later failure leaves the client without it.                   *)
(***************************************************************************)
DecryptGroupSecrets(welcome, kp) ==
  {GroupSecrets(welcome.joiner, welcome.psks) :
     found \in {k \in welcome.new_members : /\ k = kp /\ kp.suite = welcome.suite
                                            /\ ValidateInWelcome(welcome.psks)}}

RequiredResumptionSecret(welcome) ==
  LET foreign == SelectSeq(welcome.psks, IsForeign)
  IN IF foreign = <<>> THEN {} ELSE {Head(foreign)}

\* resuming is none, or the usage and the information on the older group.
ResumptionSecretFor(psks, resuming) ==
  UNION {{[id |-> psks[i], secret |-> r.info.secret] :
            i \in {j \in DOMAIN psks : /\ psks[j].usage = r.usage
                                       /\ psks[j].gid = r.info.gid
                                       /\ psks[j].epoch = r.info.epoch}} : r \in resuming}

FinishProcessedWelcome(secrets, welcome, resuming, stored_psks) ==
  LET foreign == ResumptionSecretFor(secrets.psks, resuming)
      schedule(psks) == KeyScheduleInit(secrets.joiner, PskSecret(psks))
  IN IF resuming # {} /\ foreign = {} THEN {}
     ELSE {EpochSecret(schedule(psks), welcome.info.context) :
             psks \in {p \in LoadPsks(stored_psks, <<>>, {}, foreign, secrets.psks) :
                         WelcomeSecret(schedule(p)) = welcome.key}}

IntoStagedWelcome(info, epoch_secret, ratchet_tree, key) ==
  LET trees == IF info.ratchet_tree # {} THEN info.ratchet_tree ELSE ratchet_tree
      joined(tree, own) ==
        info.context @@
        [own |-> own, epoch_secret |-> epoch_secret, proposal_store |-> <<>>,
         pending |-> {}, active |-> TRUE,
         resumption_psks |-> info.context.epoch :> ResumptionPskSecret(epoch_secret)]
  IN IF info.tag # ConfirmationTag(epoch_secret, info.context.transcript) THEN {}
     ELSE UNION {{joined(tree, own) : own \in {m \in DOMAIN tree : tree[m].key = key}} :
                   tree \in {t \in trees : t = info.context.tree}}

CountOf(members, identity) == IF identity \in DOMAIN members THEN members[identity] ELSE 0

MutantChecksOfResumption(g, resuming) == TRUE

\* JoinBuilder::build with check_members.
ChecksOfResumption(g, resuming) ==
  LET members == Credentials(g.tree)
  IN \A r \in resuming :
       /\ g.epoch = 1
       /\ r.usage = "Branch" =>
            /\ g.suite = r.info.suite
            /\ \A identity \in DOMAIN members :
                 members[identity] <= CountOf(r.info.members, identity)
       /\ r.usage = "Reinit" =>
            /\ g.suite = r.info.proposal.suite /\ g.gid = r.info.proposal.gid
            /\ g.exts = r.info.proposal.exts
            /\ members = r.info.members

JoinFromWelcome(welcome, kp, resuming, stored_psks, ratchet_tree) ==
  LET secretsOf(s) == FinishProcessedWelcome(s, welcome, resuming, stored_psks)
      groups == UNION {UNION {IntoStagedWelcome(welcome.info, epoch_secret, ratchet_tree, kp.key) :
                                epoch_secret \in secretsOf(s)} : s \in DecryptGroupSecrets(welcome, kp)}
  IN {g \in groups : ChecksOfResumption(g, resuming)}

(***************************************************************************)
(* Joining by an external commit: the committer builds on a GroupInfo and  *)
(* removes the member that has its own signature key.                      *)
(***************************************************************************)
ExternalCommit(info, ratchet_tree, key) ==
  LET trees == {t \in IF info.ratchet_tree # {} THEN info.ratchet_tree ELSE ratchet_tree :
                  t = info.context.tree}
      kem == KemOutput(info.external_pub, key)
      inline(type, subject) ==
        Proposal(type, NewMemberCommit, subject, FALSE, info.context.gid, info.context.epoch, 0)
      prior(tree) == {m \in DOMAIN tree : tree[m].key = key}
      removal(tree) == IF prior(tree) = {} THEN <<>> ELSE <<inline("Remove", Min(prior(tree)))>>
      proposals(tree) == <<inline("ExternalInit", kem)>> \o removal(tree)
      group(tree) ==
        info.context @@
        [own |-> Min(LeafIndices \ (DOMAIN tree \ prior(tree))), epoch_secret |-> Zero,
         proposal_store |-> proposals(tree), pending |-> {}, active |-> TRUE,
         resumption_psks |-> <<>>]
      committer == [key |-> key, init |-> InitFromGroupContext(info.external_pub, kem),
                    sender |-> NewMemberCommit]
  IN UNION {BuildCommit(group(tree), committer, <<>>, TRUE, <<>>, {}) : tree \in trees}
=============================================================================
