---------------------------- MODULE InteropClient ----------------------------
(***************************************************************************)
(* The interoperability client (interop_client): gRPC servers that a test  *)
(* runner drives.  Each server holds the group states of its actors, the   *)
(* key packages it was told to create, external signers, a cache of        *)
(* BranchInfos and the state of reinitializations.  The runner may call    *)
(* the remote procedures in any order; what it passes on is what earlier   *)
(* calls returned, kept in "wire".  Every handler is one step: it holds    *)
(* the locks it needs until it returns.                                    *)
(*                                                                         *)
(* A transaction id and a reinit id are named by the signature key made    *)
(* with them, a state id is an index into the server's groups.             *)
(***************************************************************************)
EXTENDS GroupJoining

CONSTANTS
  Servers,
  Home,        \* identity -> the server its actor runs on
  KeyPool,     \* identity -> the signature keys it may come to have, in order
  Scenarios    \* kind of test -> the calls it makes, and their bounds

VARIABLES
  scenario,
  groups,            \* server -> sequence of InteropGroups
  pending_state,     \* server -> transaction id -> key package and its provider
  external_signers,  \* server -> signers created there
  branch_infos,      \* server -> (group id, epoch) -> BranchInfo
  pending_reinits,   \* server -> reinit id -> ReInitState
  minted,            \* identity -> number of its signature keys
  wire,              \* what the calls returned so far
  surprises          \* calls that failed although they had all they need

vars == <<scenario, groups, pending_state, external_signers, branch_infos, pending_reinits,
          minted, wire, surprises>>

Test == Scenarios[scenario]

Suite == "suite"

NoExtensions == {}

Init ==
  /\ scenario \in DOMAIN Scenarios
  /\ groups = [s \in Servers |-> <<>>]
  /\ pending_state = [s \in Servers |-> <<>>]
  /\ external_signers = [s \in Servers |-> {}]
  /\ branch_infos = [s \in Servers |-> <<>>]
  /\ pending_reinits = [s \in Servers |-> <<>>]
  /\ minted = [identity \in DOMAIN KeyPool |-> 0]
  /\ wire = {}
  /\ surprises = {}

(***************************************************************************)
(* The servers' state.                                                     *)
(***************************************************************************)
\* An InteropGroup has a storage provider of its own, with its PSKs.  How the
\* state came about, from which older group, and the proposals it was given
\* already, are kept for the properties and the runner.
InteropGroup(group, key, psks, origin, resumed) ==
  [group |-> group, signature_key |-> key, messages_out |-> {}, psks |-> psks,
   origin |-> origin, resumed |-> resumed, given |-> {}]

Push(s, entry) == groups' = [groups EXCEPT ![s] = Append(@, entry)]

Set(s, i, entry) == groups' = [groups EXCEPT ![s][i] = entry]

RecordBranchInfo(s, g) ==
  branch_infos' = [branch_infos EXCEPT ![s] = (<<g.gid, g.epoch>> :> BranchInfo(g)) @@ @]

Calls(call) == call \in Test.calls

CanMint(identity) == minted[identity] < Test.keys[identity]

NewKey(identity) == KeyPool[identity][minted[identity] + 1]

Mint(identity) == minted' = [minted EXCEPT ![identity] = @ + 1]

Returns(messages) == wire' = wire \cup messages

Received(type) == {m \in wire : m.type = type}

KeyPackages == {[key |-> m.key, suite |-> m.suite] : m \in Received("key package")}

KeyPackageMessage(kp) == [type |-> "key package", key |-> kp.key, suite |-> kp.suite]

\* States are never freed (Free is a no-op), so a test has a bounded number.
HasRoom(s) == Len(groups[s]) < Test.max_states

MayAdvance(g) == g.epoch < Test.max_epoch

MayCommit(g) == MayAdvance(g) /\ Cardinality(Received("commit")) < Test.max_commits

SurpriseIf(condition, call) ==
  surprises' = IF condition THEN surprises \cup {call} ELSE surprises

(***************************************************************************)
(* Groups and key packages.                                                *)
(***************************************************************************)
CreateGroup(identity) ==
  LET s == Home[identity]
      key == NewKey(identity)
      g == NewGroup("group", Suite, NoExtensions, key)
  IN /\ Calls("create_group") /\ CanMint(identity)
     /\ \A t \in Servers : groups[t] = <<>>
     /\ Mint(identity)
     /\ Push(s, InteropGroup(g, key, <<>>, "created", {}))
     /\ RecordBranchInfo(s, g)
     /\ UNCHANGED <<scenario, pending_state, external_signers, pending_reinits, wire, surprises>>

NewPendingState(s, kp) ==
  pending_state' = [pending_state EXCEPT ![s] = (kp.key :> [key_package |-> kp, psks |-> <<>>]) @@ @]

CreateKeyPackage(identity) ==
  LET kp == [key |-> NewKey(identity), suite |-> Suite]
  IN /\ Calls("create_key_package") /\ minted[identity] < Test.packages[identity]
     /\ \E s \in Servers : groups[s] # <<>>
     /\ Mint(identity)
     /\ NewPendingState(Home[identity], kp)
     /\ Returns({KeyPackageMessage(kp)})
     /\ UNCHANGED <<scenario, groups, external_signers, branch_infos, pending_reinits, surprises>>

\* take_pending_key_package: gone whatever the rest of the call does.
TakePendingKeyPackage(s, txn) ==
  pending_state' = [pending_state EXCEPT ![s] = [t \in DOMAIN @ \ {txn} |-> @[t]]]

SameSecrets(psks, used) ==
  \A i \in DOMAIN used :
    used[i].id.type = "External" => /\ used[i].id.gid \in DOMAIN psks
                                    /\ used[i].secret = StoredSecret(psks, used[i].id)

JoinGroup(s, txn, message) ==
  LET pending == pending_state[s][txn]
      welcome == message.welcome
      joined == JoinFromWelcome(welcome, pending.key_package, {}, pending.psks, {})
  IN /\ Calls("join_group") /\ HasRoom(s)
     /\ pending.key_package \in welcome.new_members
     /\ TakePendingKeyPackage(s, txn)
     /\ SurpriseIf(/\ joined = {} /\ RequiredResumptionSecret(welcome) = {}
                   /\ ValidateInWelcome(welcome.psks) /\ SameSecrets(pending.psks, message.used),
                   "join_group")
     /\ IF joined = {} THEN UNCHANGED <<groups, branch_infos>>
        ELSE \E g \in joined : /\ Push(s, InteropGroup(g, txn, pending.psks, "welcome", {}))
                               /\ RecordBranchInfo(s, g)
     /\ UNCHANGED <<scenario, external_signers, pending_reinits, minted, wire>>

StorePsk(psks, name, secret) == (name :> secret) @@ psks

StorePskForTransaction(s, txn, name, secret) ==
  /\ Calls("store_psk") /\ name \notin DOMAIN pending_state[s][txn].psks
  /\ pending_state' = [pending_state EXCEPT ![s][txn].psks = StorePsk(@, name, secret)]
  /\ UNCHANGED <<scenario, groups, external_signers, branch_infos, pending_reinits, minted, wire,
                 surprises>>

StorePskForGroup(s, i, name, secret) ==
  /\ Calls("store_psk") /\ name \notin DOMAIN groups[s][i].psks
  /\ groups' = [groups EXCEPT ![s][i].psks = StorePsk(@, name, secret)]
  /\ UNCHANGED <<scenario, pending_state, external_signers, branch_infos, pending_reinits, minted,
                 wire, surprises>>

(***************************************************************************)
(* What the runner compares and sends.                                     *)
(***************************************************************************)
StateAuth(entry) == EpochAuthenticator(entry.group.epoch_secret)

Export(entry, label) ==
  IF entry.group.active THEN {ExportedSecret(entry.group.epoch_secret, label)} ELSE {}

\* The key a message is protected under, if the group may still send.
Protect(entry) ==
  IF IsOperational(entry.group) THEN {EncryptionSecret(entry.group.epoch_secret)} ELSE {}

\* The keys under which a message of this epoch can be opened.
Unprotect(entry) ==
  IF entry.group.active THEN {EncryptionSecret(entry.group.epoch_secret)} ELSE {}

GroupInfoCall(s, i) ==
  /\ Calls("group_info") /\ groups[s][i].group.active
  /\ LET info == GroupInfo(groups[s][i].group, ~Test.external_tree)
     IN info \notin wire /\ Returns({info})
  /\ UNCHANGED <<scenario, groups, pending_state, external_signers, branch_infos, pending_reinits,
                 minted, surprises>>

\* The tree the runner hands over where the GroupInfo does not carry it.
RatchetTreeFromConfig(info) == IF Test.external_tree THEN {info.context.tree} ELSE {}

(***************************************************************************)
(* Proposals: every handler queues the proposal in its own group and       *)
(* remembers the message.                                                  *)
(***************************************************************************)
ProposalMessage(g, proposal, signer) ==
  [type |-> "proposal", gid |-> g.gid, epoch |-> g.epoch, proposal |-> proposal, signer |-> signer]

OwnProposal(g, type, subject, byRef) ==
  Proposal(type, g.own, subject, byRef, g.gid, g.epoch,
           IF type = "Update" THEN Len(g.proposal_store) ELSE 0)

MutantProposed(s, i, type, subject) ==
  LET entry == groups[s][i]
      proposal == OwnProposal(entry.group, type, subject, TRUE)
  IN /\ IsOperational(entry.group)
     /\ Set(s, i, [entry EXCEPT !.group = StorePendingProposal(@, proposal)])
     /\ Returns({ProposalMessage(entry.group, proposal, entry.signature_key)})

Proposed(s, i, type, subject) ==
  LET entry == groups[s][i]
      proposal == OwnProposal(entry.group, type, subject, TRUE)
  IN /\ IsOperational(entry.group)
     /\ Set(s, i, [entry EXCEPT !.group = StorePendingProposal(@, proposal),
                                !.messages_out = @ \cup {proposal.id}])
     /\ Returns({ProposalMessage(entry.group, proposal, entry.signature_key)})

\* Bounds: proposals sent and stored in a test, and none in its last epoch.
MayPropose(s, i, call) ==
  /\ Calls(call) /\ MayAdvance(groups[s][i].group)
  /\ Cardinality(Received("proposal")) < Test.max_proposals
  /\ Len(groups[s][i].group.proposal_store) < Test.max_stored

Proposing == UNCHANGED <<scenario, pending_state, external_signers, branch_infos, pending_reinits,
                         minted, surprises>>

AddProposal(s, i, kp) ==
  /\ MayPropose(s, i, "add_proposal") /\ Proposed(s, i, "Add", kp.key) /\ Proposing

UpdateProposal(s, i) ==
  /\ MayPropose(s, i, "update_proposal")
  /\ Proposed(s, i, "Update", groups[s][i].signature_key) /\ Proposing

\* propose_remove_member_by_credential: the first leaf with the credential.
LeavesOf(g, identity) == {m \in DOMAIN g.tree : Owner[g.tree[m].key] = identity}

RemoveProposal(s, i, identity) ==
  /\ MayPropose(s, i, "remove_proposal")
  /\ LeavesOf(groups[s][i].group, identity) # {}
  /\ Proposed(s, i, "Remove", Min(LeavesOf(groups[s][i].group, identity))) /\ Proposing

Nonce(entry) == <<entry.signature_key, entry.group.epoch, Len(entry.group.proposal_store)>>

ExternalPskProposal(s, i, name) ==
  /\ MayPropose(s, i, "external_psk_proposal")
  /\ Proposed(s, i, "PreSharedKey", ExternalPsk(name, Nonce(groups[s][i]))) /\ Proposing

ResumptionPskProposal(s, i, epoch) ==
  /\ MayPropose(s, i, "resumption_psk_proposal")
  /\ Proposed(s, i, "PreSharedKey",
              ResumptionPsk("Application", groups[s][i].group.gid, epoch, Nonce(groups[s][i])))
  /\ Proposing

GroupContextExtensionsProposal(s, i) ==
  /\ MayPropose(s, i, "group_context_extensions_proposal")
  /\ Proposed(s, i, "GroupContextExtensions", NoExtensions) /\ Proposing

ReInitProposal(s, i, reinit) ==
  /\ MayPropose(s, i, "re_init_proposal") /\ Proposed(s, i, "ReInit", reinit) /\ Proposing

\* The new list of senders is read from the committed extensions.
AddExternalSigner(s, i, signer) ==
  LET senders == groups[s][i].group.exts
      added == [index |-> Cardinality(senders), signer |-> signer]
  IN /\ MayPropose(s, i, "add_external_signer")
     /\ \A sender \in senders : sender.signer # signer
     /\ Proposed(s, i, "GroupContextExtensions", senders \cup {added}) /\ Proposing

(***************************************************************************)
(* Commits.  The runner gives a client each proposal of another one once,  *)
(* and never its own commits.                                              *)
(***************************************************************************)
\* The loop over by_reference: process and store, up to the first refusal.
ProcessProposals(entry, messages) ==
  FoldLeft(LAMBDA acc, m :
             IF ~acc.ok \/ m.proposal.id \in acc.entry.messages_out THEN acc
             ELSE IF ~AcceptsProposal(acc.entry.group, m) THEN [acc EXCEPT !.ok = FALSE]
             ELSE [acc EXCEPT !.entry.group = StorePendingProposal(@, m.proposal),
                              !.entry.given = @ \cup {m.proposal.id}],
           [entry |-> entry, ok |-> TRUE], messages)

\* Is the proposal new to the client, or its own?
Deliverable(entry, m) ==
  /\ m.gid = entry.group.gid /\ m.epoch = entry.group.epoch
  /\ m.proposal.id \notin entry.given

\* What the proposals a commit passes by value are about, by their type.
ByValue(entry) ==
  LET g == entry.group
      one(type, subjects) == {<<[type |-> type, subject |-> subject]>> : subject \in subjects}
      adds == {SetToSeq({[type |-> "Add", subject |-> kp.key] : kp \in kps}) :
                 kps \in (SUBSET {kp \in KeyPackages : Owner[kp.key] \in Test.joiners}) \ {{}}}
      options == [none |-> {<<>>},
                  add |-> adds,
                  remove |-> one("Remove", DOMAIN g.tree),
                  externalPSK |-> one("PreSharedKey", {ExternalPsk("psk", Nonce(entry))}),
                  resumptionPSK |-> one("PreSharedKey", {ResumptionPsk("Application", g.gid, epoch,
                                                           Nonce(entry)) : epoch \in 0..g.epoch}),
                  groupContextExtensions |-> one("GroupContextExtensions", {NoExtensions})]
  IN UNION {options[type] : type \in Test.by_value}

QueuedByValue(g, values) ==
  FoldLeft(LAMBDA acc, v : StorePendingProposal(acc, OwnProposal(acc, v.type, v.subject, FALSE)),
           g, values)

\* commit_to_pending_proposals; "used" are the PSKs that went into the secret.
CommitToPendingProposals(entry) ==
  LET g == entry.group
  IN IF ~IsOperational(g) THEN {}
     ELSE UNION {{[built |-> b, used |-> psks] :
                    b \in BuildCommit(g, CommitterOf(g), <<>>, FALSE, psks, KeyPackages)} :
                   psks \in LoadPsks(entry.psks, g.resumption_psks, {g.gid}, {},
                                     PskIds(g.proposal_store))}

\* What the runner keeps of a commit: who made it on which epoch, with which
\* proposals by reference and PSKs.
CommitMessage(s, i, base, refs, commit, used) ==
  [type |-> "commit", from |-> <<s, i>>, base |-> base, refs |-> refs, commit |-> commit,
   used |-> used]

\* With a Welcome it keeps the older groups it continues.
WelcomeMessages(welcomes, used, older) ==
  {[type |-> "welcome", welcome |-> w, used |-> used, older |-> older] : w \in welcomes}

Commit(s, i, refs, values) ==
  LET processed == ProcessProposals(groups[s][i], SetToSeq(refs))
      entry == [processed.entry EXCEPT !.group = QueuedByValue(@, values)]
      results == CommitToPendingProposals(entry)
  IN /\ Calls("commit") /\ MayCommit(groups[s][i].group)
     /\ Len(groups[s][i].group.proposal_store) + Len(values) <= Test.max_stored
     /\ \A m \in refs : Deliverable(groups[s][i], m)
     /\ IF ~processed.ok \/ ~IsOperational(processed.entry.group)
        THEN /\ Set(s, i, processed.entry) /\ UNCHANGED <<branch_infos, wire>>
        ELSE IF results = {} THEN Set(s, i, entry) /\ UNCHANGED <<branch_infos, wire>>
        ELSE \E r \in results :
               LET merged == MergePendingCommit(r.built.group)
               IN /\ Set(s, i, [entry EXCEPT !.group = merged])
                  /\ RecordBranchInfo(s, merged)
                  /\ Returns({CommitMessage(s, i, Context(entry.group), refs, r.built.commit, r.used)}
                             \cup WelcomeMessages(r.built.welcome, r.used, {}))
     /\ UNCHANGED <<scenario, pending_state, external_signers, pending_reinits, minted, surprises>>

\* The runner may expect a client in the commit's epoch to follow it if it
\* is given its proposals, has its PSKs and was there in the epochs they name.
MayExpectToFollow(entry, message) ==
  LET list == message.commit.content.list
      known == {m.proposal.id : m \in message.refs} \cup {p.id : p \in ToSet(entry.group.proposal_store)}
  IN /\ entry.group.active /\ Context(entry.group) = message.base
     /\ \A k \in DOMAIN list : list[k].byRef => list[k].id \in known
     /\ SameSecrets(entry.psks, message.used)
     /\ \A k \in DOMAIN message.used :
          message.used[k].id.usage = "Application" =>
            message.used[k].id.epoch \in DOMAIN entry.group.resumption_psks

Undelivered(entry, message) ==
  SetToSeq({m \in message.refs : m.proposal.id \notin entry.given})

HandleCommit(s, i, message) ==
  LET processed == ProcessProposals(groups[s][i], Undelivered(groups[s][i], message))
      staged == StageCommit(processed.entry.group, message.commit, processed.entry.psks)
  IN /\ Calls("handle_commit") /\ message.from # <<s, i>>
     /\ message.commit.gid = groups[s][i].group.gid
     /\ message.commit.epoch = groups[s][i].group.epoch
     /\ SurpriseIf(/\ ~processed.ok \/ staged = {}
                   /\ MayExpectToFollow(groups[s][i], message), "handle_commit")
     /\ IF ~processed.ok \/ staged = {}
        THEN Set(s, i, processed.entry) /\ UNCHANGED branch_infos
        ELSE \E st \in staged :
               LET merged == MergeStagedCommit(processed.entry.group, st)
               IN Set(s, i, [processed.entry EXCEPT !.group = merged]) /\ RecordBranchInfo(s, merged)
     /\ UNCHANGED <<scenario, pending_state, external_signers, pending_reinits, minted, wire>>

HandlePendingCommit(s, i) ==
  LET merged == MergePendingCommit(groups[s][i].group)
  IN /\ Calls("handle_pending_commit")
     /\ groups' = [groups EXCEPT ![s][i].group = merged]
     /\ RecordBranchInfo(s, merged)
     /\ UNCHANGED <<scenario, pending_state, external_signers, pending_reinits, minted, wire,
                    surprises>>

(***************************************************************************)
(* Joining by an external commit.  With remove_prior the signature key of  *)
(* the identity's first state of that group on this server is used again.  *)
(***************************************************************************)
IsOurs(entry, gid, identity) ==
  /\ entry.group.gid = gid /\ entry.group.own \in DOMAIN entry.group.tree
  /\ Owner[entry.group.tree[entry.group.own].key] = identity

PriorSigner(s, gid, identity) ==
  LET ours == {i \in DOMAIN groups[s] : IsOurs(groups[s][i], gid, identity)}
  IN IF ours = {} THEN {} ELSE {groups[s][Min(ours)].signature_key}

ExternalJoin(identity, info, remove_prior) ==
  LET s == Home[identity]
      prior == IF remove_prior THEN PriorSigner(s, info.context.gid, identity) ELSE {}
      key == IF prior = {} THEN NewKey(identity) ELSE CHOOSE k \in prior : TRUE
      results == ExternalCommit(info, RatchetTreeFromConfig(info), key)
  IN /\ Calls("external_join") /\ HasRoom(s) /\ MayCommit(info.context)
     /\ IF prior = {} THEN CanMint(identity) /\ Mint(identity) ELSE UNCHANGED minted
     /\ \E r \in results :
          LET joined == MergePendingCommit(r.group)
          IN /\ Push(s, InteropGroup(joined, key, <<>>, "external", {}))
             /\ RecordBranchInfo(s, joined)
             /\ Returns({CommitMessage(s, Len(groups[s]) + 1, info.context, {}, r.commit, <<>>)})
     /\ UNCHANGED <<scenario, pending_state, external_signers, pending_reinits, surprises>>

(***************************************************************************)
(* Proposals of clients that are not members, for the group of a GroupInfo.*)
(***************************************************************************)
NewMemberAddProposal(identity, info) ==
  LET key == NewKey(identity)
      context == info.context
      proposal == JoinProposal(key, context)
      kp == [key |-> key, suite |-> context.suite]
  IN /\ Calls("new_member_add_proposal") /\ CanMint(identity) /\ MayAdvance(context)
     /\ Mint(identity)
     /\ NewPendingState(Home[identity], kp)
     /\ Returns({KeyPackageMessage(kp), ProposalMessage(context, proposal, key)})
     /\ UNCHANGED <<scenario, groups, external_signers, branch_infos, pending_reinits, surprises>>

CreateExternalSigner(s, signer) ==
  /\ Calls("create_external_signer") /\ \A t \in Servers : signer \notin external_signers[t]
  /\ external_signers' = [external_signers EXCEPT ![s] = @ \cup {signer}]
  /\ UNCHANGED <<scenario, groups, pending_state, branch_infos, pending_reinits, minted, wire,
                 surprises>>

\* What an external signer may be asked to propose.
ExternallyProposable(info) ==
  LET tree == info.context.tree
      nonce == <<"external", info.context.epoch>>
  IN [Add |-> {kp.key : kp \in KeyPackages},
      Remove |-> {Min(LeavesOf(info.context, identity)) :
                    identity \in {Owner[tree[m].key] : m \in DOMAIN tree}},
      GroupContextExtensions |-> {NoExtensions},
      PreSharedKey |-> {ExternalPsk("psk", nonce),
                        ResumptionPsk("Application", info.context.gid, info.context.epoch, nonce)},
      ReInit |-> {[gid |-> "successor", suite |-> Suite, exts |-> NoExtensions]}]

ExternalSignerProposal(s, signer, info, index, type, subject) ==
  LET context == info.context
      proposal == ExternalProposal(type, subject, context, index)
  IN /\ Calls("external_signer_proposal") /\ MayAdvance(context)
     /\ ProposalMessage(context, proposal, signer) \notin wire
     /\ Cardinality(Received("proposal")) < Test.max_proposals
     /\ Returns({ProposalMessage(context, proposal, signer)})
     /\ UNCHANGED <<scenario, groups, pending_state, external_signers, branch_infos,
                    pending_reinits, minted, surprises>>

(***************************************************************************)
(* Reinitialization.  The runner calls for the commit once a ReInit was    *)
(* proposed.                                                               *)
(***************************************************************************)
ReInitCommit(s, i, refs) ==
  LET processed == ProcessProposals(groups[s][i], SetToSeq(refs))
      results == CommitToPendingProposals(processed.entry)
  IN /\ Calls("re_init_commit") /\ MayCommit(groups[s][i].group)
     /\ \A m \in refs : Deliverable(groups[s][i], m) /\ m.proposal.sender # NewMemberProposal
     /\ ReInitOf(groups[s][i].group.proposal_store) # {} \/ \E m \in refs : m.proposal.type = "ReInit"
     /\ IF ~processed.ok \/ results = {} THEN Set(s, i, processed.entry) /\ UNCHANGED wire
        ELSE \E r \in results :
               /\ Set(s, i, [processed.entry EXCEPT !.group = r.built.group])
               /\ Returns({CommitMessage(s, i, Context(processed.entry.group), refs,
                                         r.built.commit, r.used)})
     /\ UNCHANGED <<scenario, pending_state, external_signers, branch_infos, pending_reinits, minted,
                    surprises>>

\* build_reinit_state: a key package for the successor with a fresh key.
BuildReInitState(s, i, g, proposal) ==
  LET identity == Owner[OwnKey(g)]
      kp == [key |-> NewKey(identity), suite |-> proposal.suite]
  IN /\ Mint(identity)
     /\ pending_reinits' = [pending_reinits EXCEPT ![s] =
          (kp.key :> [old_state_id |-> i, key_package |-> kp, proposal |-> proposal]) @@ @]
     /\ Returns({KeyPackageMessage(kp)})

HandlePendingReInitCommit(s, i) ==
  LET g == groups[s][i].group
      merged == MergePendingCommit(g)
  IN /\ Calls("handle_pending_re_init_commit") /\ CanMint(Owner[OwnKey(g)])
     /\ \E staged \in g.pending : \E proposal \in staged.reinit :
          BuildReInitState(s, i, merged, proposal)
     /\ groups' = [groups EXCEPT ![s][i].group = merged]
     /\ UNCHANGED <<scenario, pending_state, external_signers, branch_infos, surprises>>

\* A commit without a ReInit is refused, a removed member has no leaf to
\* continue with.
HandleReInitCommit(s, i, message) ==
  LET processed == ProcessProposals(groups[s][i], Undelivered(groups[s][i], message))
      staged == {st \in StageCommit(processed.entry.group, message.commit, processed.entry.psks) :
                   st.reinit # {}}
      isReInit == \E p \in ToSet(message.commit.content.list) : p.id[1] = "ReInit"
  IN /\ Calls("handle_re_init_commit") /\ message.from # <<s, i>>
     /\ CanMint(Owner[groups[s][i].signature_key])
     /\ message.commit.gid = groups[s][i].group.gid
     /\ message.commit.epoch = groups[s][i].group.epoch
     /\ SurpriseIf(/\ ~processed.ok \/ staged = {}
                   /\ isReInit /\ MayExpectToFollow(groups[s][i], message), "handle_re_init_commit")
     /\ IF ~processed.ok \/ staged = {}
        THEN Set(s, i, processed.entry) /\ UNCHANGED <<pending_reinits, minted, wire>>
        ELSE \E st \in staged : \E proposal \in st.reinit :
               LET merged == MergeStagedCommit(processed.entry.group, st)
               IN /\ Set(s, i, [processed.entry EXCEPT !.group = merged])
                  /\ BuildReInitState(s, i, merged, proposal)
     /\ UNCHANGED <<scenario, pending_state, external_signers, branch_infos>>

\* The reinit state is taken out first, whatever the rest of the call does.
TakeReInitState(s, id) ==
  pending_reinits' = [pending_reinits EXCEPT ![s] = [t \in DOMAIN @ \ {id} |-> @[t]]]

ReInitWelcome(s, id, force_path, kps) ==
  LET state == pending_reinits[s][id]
      old == groups[s][state.old_state_id].group
      infos == ReInitInfo(old, state.proposal)
      results == UNION {BuildReinit(info, state.key_package.key, force_path, kps) : info \in infos}
      origin == [usage |-> "Reinit", info |-> infos, key |-> groups[s][state.old_state_id].signature_key]
  IN /\ Calls("re_init_welcome") /\ HasRoom(s)
     /\ TakeReInitState(s, id)
     /\ IF results = {} THEN UNCHANGED <<groups, wire>>
        ELSE \E r \in results :
               /\ Push(s, InteropGroup(MergePendingCommit(r.group), state.key_package.key, <<>>,
                                       "resumed", {origin}))
               /\ Returns(WelcomeMessages(r.welcome, <<>>, infos))
     /\ UNCHANGED <<scenario, pending_state, external_signers, branch_infos, minted, surprises>>

HandleReInitWelcome(s, id, message) ==
  LET state == pending_reinits[s][id]
      old == groups[s][state.old_state_id].group
      infos == ReInitInfo(old, state.proposal)
      joined == UNION {JoinFromWelcome(message.welcome, state.key_package,
                                       {[usage |-> "Reinit", info |-> info]}, <<>>, {}) : info \in infos}
      origin == [usage |-> "Reinit", info |-> infos, key |-> groups[s][state.old_state_id].signature_key]
  IN /\ Calls("handle_re_init_welcome") /\ HasRoom(s)
     /\ state.key_package \in message.welcome.new_members
     /\ TakeReInitState(s, id)
     /\ SurpriseIf(/\ joined = {} /\ Credentials(message.welcome.info.context.tree) = Credentials(old.tree)
                   /\ \A info \in message.older : info \in infos,
                   "handle_re_init_welcome")
     /\ IF joined = {} THEN UNCHANGED groups
        ELSE \E g \in joined : Push(s, InteropGroup(g, id, <<>>, "welcome", {origin}))
     /\ UNCHANGED <<scenario, pending_state, external_signers, branch_infos, minted, wire>>

(***************************************************************************)
(* Branching.                                                              *)
(***************************************************************************)

\* Only the first group is branched: a state that handle_branch joined has no
\* BranchInfo recorded for the epoch it joined, so a subgroup of it is refused.
CreateBranch(s, i, gid, force_path, kps) ==
  LET parent == groups[s][i]
      info == BranchInfo(parent.group)
      results == BuildBranch(info, gid, parent.signature_key, {}, force_path, kps)
      origin == [usage |-> "Branch", info |-> {info}, key |-> parent.signature_key]
  IN /\ Calls("create_branch") /\ HasRoom(s)
     /\ parent.group.active
     /\ parent.group.gid = "group"
     /\ \A t \in Servers : \A j \in DOMAIN groups[t] : groups[t][j].group.gid # gid
     /\ \E r \in results :
          /\ Push(s, InteropGroup(MergePendingCommit(r.group), parent.signature_key, <<>>,
                                  "resumed", {origin}))
          /\ Returns(WelcomeMessages(r.welcome, <<>>, {info}))
     /\ RecordBranchInfo(s, parent.group)
     /\ UNCHANGED <<scenario, pending_state, external_signers, pending_reinits, minted, surprises>>

\* Looked up for the epoch that the Welcome names, not for state i's own.
CachedBranchInfo(s, i, psk) ==
  {branch_infos[s][k] : k \in DOMAIN branch_infos[s] \cap {<<psk.gid, psk.epoch>>}}

WasMember(s, identity, info) ==
  \E i \in DOMAIN groups[s] :
    LET entry == groups[s][i]
    IN /\ entry.group.gid = info.gid /\ Owner[entry.signature_key] = identity
       /\ info.epoch \in DOMAIN entry.group.resumption_psks
       /\ entry.group.resumption_psks[info.epoch] = info.secret

HandleBranch(s, i, txn, message) ==
  LET pending == pending_state[s][txn]
      psks == {psk \in RequiredResumptionSecret(message.welcome) : psk.usage = "Branch"}
      infos == UNION {CachedBranchInfo(s, i, psk) : psk \in psks}
      joined == UNION {JoinFromWelcome(message.welcome, pending.key_package,
                                       {[usage |-> "Branch", info |-> info]}, pending.psks, {}) :
                         info \in infos}
      members == Credentials(message.welcome.info.context.tree)
      origin == [usage |-> "Branch", info |-> infos, key |-> txn]
  IN /\ Calls("handle_branch") /\ HasRoom(s)
     /\ pending.key_package \in message.welcome.new_members
     /\ TakePendingKeyPackage(s, txn)
     /\ SurpriseIf(/\ joined = {}
                   /\ \E info \in message.older :
                        /\ WasMember(s, Owner[txn], info)
                        /\ \A m \in DOMAIN members : members[m] <= CountOf(info.members, m),
                   "handle_branch")
     /\ IF joined = {} THEN UNCHANGED groups
        ELSE \E g \in joined : Push(s, InteropGroup(g, txn, pending.psks, "welcome", {origin}))
     /\ UNCHANGED <<scenario, external_signers, branch_infos, pending_reinits, minted, wire>>

-----------------------------------------------------------------------------
GroupCalls(s, i) ==
  \/ GroupInfoCall(s, i)
  \/ \E kp \in KeyPackages : AddProposal(s, i, kp)
  \/ UpdateProposal(s, i)
  \/ \E identity \in DOMAIN KeyPool : RemoveProposal(s, i, identity)
  \/ \E name \in Test.psks : ExternalPskProposal(s, i, name)
  \/ \E epoch \in 0..groups[s][i].group.epoch : ResumptionPskProposal(s, i, epoch)
  \/ GroupContextExtensionsProposal(s, i)
  \/ \E reinit \in Test.reinits : ReInitProposal(s, i, reinit)
  \/ \E signer \in external_signers[s] : AddExternalSigner(s, i, signer)
  \/ \E name \in Test.psks : StorePskForGroup(s, i, name, Min(Test.secrets))
  \/ \E refs \in SUBSET Received("proposal"), values \in ByValue(groups[s][i]) :
       Commit(s, i, refs, values)
  \/ \E message \in Received("commit") : HandleCommit(s, i, message)
  \/ HandlePendingCommit(s, i)
  \/ \E refs \in SUBSET Received("proposal") : ReInitCommit(s, i, refs)
  \/ HandlePendingReInitCommit(s, i)
  \/ \E message \in Received("commit") : HandleReInitCommit(s, i, message)

JoinCalls(s) ==
  \/ \E txn \in DOMAIN pending_state[s] :
       \/ \E message \in Received("welcome") : JoinGroup(s, txn, message)
       \/ \E name \in Test.psks, secret \in Test.secrets : StorePskForTransaction(s, txn, name, secret)
       \/ \E message \in Received("welcome"), i \in DOMAIN groups[s] : HandleBranch(s, i, txn, message)
  \/ \E id \in DOMAIN pending_reinits[s] :
       \/ \E force_path \in Test.force_path, kps \in (SUBSET (KeyPackages \ {pending_reinits[s][id].key_package})) \ {{}} :
            ReInitWelcome(s, id, force_path, kps)
       \/ \E message \in Received("welcome") : HandleReInitWelcome(s, id, message)
  \/ \E i \in DOMAIN groups[s], gid \in Test.branches, force_path \in Test.force_path,
       kps \in (SUBSET KeyPackages) \ {{}} : CreateBranch(s, i, gid, force_path, kps)

OutsiderCalls ==
  \/ \E identity \in Test.creators : CreateGroup(identity)
  \/ \E identity \in DOMAIN KeyPool : CreateKeyPackage(identity)
  \/ \E identity \in DOMAIN KeyPool, info \in Received("group info") :
       \/ \E remove_prior \in BOOLEAN : ExternalJoin(identity, info, remove_prior)
       \/ NewMemberAddProposal(identity, info)
  \/ \E s \in Servers, signer \in Test.signers : CreateExternalSigner(s, signer)
  \/ \E s \in Servers, info \in Received("group info") :
       \E signer \in external_signers[s], index \in Test.indices :
         \E type \in Test.external_types : \E subject \in ExternallyProposable(info)[type] :
           ExternalSignerProposal(s, signer, info, index, type, subject)

Next ==
  \/ OutsiderCalls
  \/ \E s \in Servers : JoinCalls(s) \/ \E i \in DOMAIN groups[s] : GroupCalls(s, i)

Spec == Init /\ [][Next]_vars

-----------------------------------------------------------------------------
Entries == UNION {ToSet(groups[s]) : s \in Servers}

\* Clients that are in the same group context answer StateAuth and Export alike
\* and can read each other, also where a wrong PSK was stored: the
\* confirmation tag and the Welcome's key keep those out (stage_commit,
\* into_staged_welcome).
AuthenticatorsAgree ==
  \A e, f \in Entries :
    e.group.active /\ f.group.active /\ Context(e.group) = Context(f.group) =>
      /\ StateAuth(e) = StateAuth(f)
      /\ \A label \in {"label"} : Export(e, label) = Export(f, label)
      /\ Protect(e) \subseteq Unprotect(f)

\* A client that is in the epoch a commit builds on and has its proposals and
\* PSKs can process it, an external one as well; a Welcome's addressee with its
\* PSKs can join; a member of the old group can join its successor; a member of
\* the epoch a subgroup was branched from finds that epoch's BranchInfo when the
\* Welcome arrives, also when its parent group moved on in between
\* (handle_commit, join_group, handle_re_init_commit, handle_re_init_welcome,
\* record_branch_info, handle_branch).
NobodyIsLeftBehind == surprises = {}

\* A client that joined a successor or a subgroup by its Welcome finds there
\* what the older group agreed on: the ReInit's parameters and the old members,
\* or a subset of the parent's members under its ciphersuite; and a successor
\* exists only where the old group is closed (JoinBuilder::build, reinit_info).
SuccessorsContinueTheGroup ==
  \A e \in Entries : \A origin \in e.resumed : \A info \in origin.info :
    /\ origin.usage = "Reinit" =>
         \A f \in Entries : f.signature_key = origin.key /\ f.group.gid = info.gid => ~f.group.active
    /\ e.origin = "welcome" /\ e.group.epoch = 1 =>
         IF origin.usage = "Reinit"
         THEN /\ e.group.gid = info.proposal.gid /\ e.group.suite = info.proposal.suite
              /\ Credentials(e.group.tree) = info.members
         ELSE /\ e.group.suite = info.suite
              /\ \A m \in DOMAIN Credentials(e.group.tree) :
                   Credentials(e.group.tree)[m] <= CountOf(info.members, m)
=============================================================================
