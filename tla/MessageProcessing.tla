-------------------------- MODULE MessageProcessing --------------------------
(***************************************************************************)
(* How a group frames what it sends and processes what it receives         *)
(* (openmls/src/group/mls_group/{application,processing,mod}.rs and        *)
(* openmls/src/group/public_group/{process,validation}.rs), as operators   *)
(* on the state of a group:                                                *)
(*   context    group id, epoch, whether Safe AAD is required, the keys of *)
(*              the external senders and the confirmed transcript;         *)
(*   leaves     the signature keys in the ratchet tree, by leaf index;     *)
(*   secrets    the message secrets of the epoch;                          *)
(*   past       epoch |-> secrets and leaves of a past epoch;              *)
(*   proposals  the proposal store, pending the pending commit (option);   *)
(*   emulation  the leaf in the emulation group, if the group is bound to  *)
(*              a virtual client;                                          *)
(* and own_index, key, dual_use, incoming, outgoing, active, removed.      *)
(* A public group has context, leaves and proposals only.                  *)
(*                                                                         *)
(* What a commit does to the tree and where the secret of an epoch comes   *)
(* from are modelled in TreeSync, CommitCreation and GroupJoining: here a  *)
(* commit removes, adds and sets what is required, and the context names   *)
(* the secret of its epoch.                                                *)
(***************************************************************************)
EXTENDS Framing

CONSTANTS RatchetConfig,   \* the sender ratchet configuration of all members
          MaxPastEpochs,   \* how many past epochs keep their secrets
          TailAad          \* the authenticated data of the applications

SafeAadComponent == 0

ContextSecret(context) == EpochSecret(Zero, context)

FreeLeaf(leaves) == Min((0..Cardinality(DOMAIN leaves)) \ DOMAIN leaves)

NodesFor(leaves) == TreeSize(2 * Max(DOMAIN leaves) + 1)

OfType(proposals, type) == {p \in proposals : p.type = type}

-----------------------------------------------------------------------------
(* A commit, as far as messages see it.                                    *)

\* The proposals a commit covers, from the store where it has references.
Resolved(commit, store) ==
  {p.payload : p \in {p \in commit.proposals : p.kind = "Proposal"}}
    \cup {q.proposal : q \in {q \in store : [kind |-> "Reference", payload |-> q.ref] \in commit.proposals}}

Unknown(commit, store) ==
  {p \in commit.proposals : p.kind = "Reference" /\ p.payload \notin {q.ref : q \in store}}

\* The epoch after a commit: its context and its leaves.
NextEpoch(context, leaves, authenticated_content, proposals) ==
  LET kept == Restrict(leaves, DOMAIN leaves \ {p.index : p \in OfType(proposals, "Remove")})
      joining == {p.key : p \in OfType(proposals, "Add")}
                   \cup IF authenticated_content.content.sender.kind = "NewMemberCommit"
                        THEN authenticated_content.content.body.payload.path ELSE {}
      joined == FoldSet(LAMBDA key, acc : (FreeLeaf(acc) :> key) @@ acc, kept, joining)
      safe == {p \in OfType(proposals, "AppDataUpdate") : p.index = SafeAadComponent}
  IN [context |-> [context EXCEPT
                     !.epoch = @ + 1,
                     !.confirmed = ConfirmedTranscript(context, authenticated_content),
                     !.safe_aad_required = IF safe = {} THEN @ ELSE \E p \in safe : p.key = "required"],
      leaves |-> joined,
      removed |-> {p.index : p \in OfType(proposals, "Remove")}]

TagOfEpoch(next) == ConfirmationTag(ContextSecret(next.context), next.context.confirmed)

\* stage_commit: the next epoch, or nothing if a proposal is not known or the
\* tag is not that of the epoch.
StageCommit(context, leaves, store, authenticated_content) ==
  LET commit == authenticated_content.content.body.payload
      next == NextEpoch(context, leaves, authenticated_content, Resolved(commit, store))
  IN IF Unknown(commit, store) = {} /\ authenticated_content.auth.confirmation_tag = {TagOfEpoch(next)}
     THEN {next} ELSE {}

SecretsOf(next, own_index, dual_use) ==
  NewMessageSecrets(ContextSecret(next.context), next.context, NodesFor(next.leaves), own_index, dual_use)

\* The secrets and the leaves of the epoch that ends are kept for a while.
MergeCommit(g, next) ==
  IF g.own_index \in next.removed
  THEN [g EXCEPT !.active = FALSE, !.proposals = {}, !.pending = {}]
  ELSE [g EXCEPT
          !.context = next.context, !.leaves = next.leaves, !.proposals = {}, !.pending = {},
          !.secrets = SecretsOf(next, g.own_index, g.dual_use),
          !.past = LET all == (g.context.epoch :> [secrets |-> g.secrets, leaves |-> g.leaves]) @@ @
                   IN Restrict(all, {e \in DOMAIN all : e + MaxPastEpochs >= next.context.epoch})]

\* into_group: the group of a member who was added.
JoinedGroup(g, next, own_index) ==
  [g EXCEPT !.active = TRUE, !.own_index = own_index, !.context = next.context, !.leaves = next.leaves,
            !.secrets = SecretsOf(next, own_index, g.dual_use), !.past = <<>>]

-----------------------------------------------------------------------------
(* Sending.                                                                *)

OutgoingWireFormat(g) ==
  IF g.outgoing = "AlwaysPlaintext" THEN "PublicMessage" ELSE "PrivateMessage"

OutgoingAuthenticatedData(g) ==
  IF g.context.safe_aad_required THEN AssembleAuthenticatedData(SafeAad({}), TailAad) ELSE TailAad

\* What a delivery service compares between siblings.
GenerationId(g, content_type, generation) ==
  IF g.emulation = {} THEN {}
  ELSE {<<"generation id", g.context.epoch, SecretTypeOf(content_type), generation>>}

\* encrypt: the message, what confirms it, and the group.
Encrypt(g, authenticated_content) ==
  {[message |-> out.message, generation |-> out.generation,
    generation_id |-> GenerationId(g, out.message.content_type, out.generation),
    group |-> [g EXCEPT !.secrets = out.secrets]] :
     out \in EncryptContent(authenticated_content, g.secrets, g.emulation)}

\* content_to_mls_message: the policy chooses the wire format.
ContentToMlsMessage(g, authenticated_content) ==
  IF g.outgoing = "AlwaysPlaintext"
  THEN LET plaintext == PublicMessageOf(authenticated_content)
       IN {[message |-> IF plaintext.content.sender.kind = "Member"
                        THEN SetMembershipTag(plaintext, g.secrets) ELSE plaintext,
            generation |-> 0, generation_id |-> {}, group |-> g]}
  ELSE Encrypt(g, authenticated_content)

\* create_message: refused while there are proposals to commit.
CreateMessage(g, text) ==
  IF ~g.active \/ g.proposals # {} THEN {}
  ELSE Encrypt(g, NewApplication(g.own_index, OutgoingAuthenticatedData(g), text, g.context, g.key))

\* propose: the proposal is also put into the own store.
CreateProposal(g, proposal) ==
  LET content == MemberProposal(OutgoingWireFormat(g), OutgoingAuthenticatedData(g), g.own_index,
                                proposal, g.context, g.key)
      queued == [g EXCEPT !.proposals = @ \cup {[ref |-> ProposalRef(content), proposal |-> proposal]}]
  IN IF ~g.active THEN {} ELSE ContentToMlsMessage(queued, content)

CommitBody(store, inline, path) ==
  [proposals |-> {[kind |-> "Reference", payload |-> q.ref] : q \in store}
                   \cup {[kind |-> "Proposal", payload |-> p] : p \in inline},
   path |-> path]

\* The commit with the tag of the epoch it starts, and that epoch.
SignedCommit(wire_format, aad, sender, body, context, leaves, store, key) ==
  LET content == NewCommit(wire_format, aad, sender, body, context, key)
      next == NextEpoch(context, leaves, content, Resolved(body, store))
  IN [content |-> SetConfirmationTag(content, TagOfEpoch(next)), next |-> next]

\* A commit of all that is in the store, with a path; it becomes the pending
\* commit.
CreateCommit(g, inline) ==
  LET commit == SignedCommit(OutgoingWireFormat(g), OutgoingAuthenticatedData(g), Member(g.own_index),
                  CommitBody(g.proposals, inline, {g.key}), g.context, g.leaves, g.proposals, g.key)
      removed == {p.index : p \in OfType({q.proposal : q \in g.proposals} \cup inline, "Remove")}
  IN IF ~g.active \/ g.pending # {} \/ g.own_index \in removed THEN {}
     ELSE {out @@ [next |-> commit.next] :
             out \in ContentToMlsMessage(
               [g EXCEPT !.pending = {[tag |-> TagOfEpoch(commit.next), next |-> commit.next]}],
               commit.content)}

\* confirm_own_secret: the key of the send goes, if its epoch is still there.
ConfirmOwnSecret(g, epoch, content_type, generation) ==
  LET type == SecretTypeOf(content_type)
  IN CASE epoch > g.context.epoch -> g
       [] epoch = g.context.epoch ->
            [g EXCEPT !.secrets.tree = DeleteOwnSecretForGeneration(@, type, generation)]
       [] epoch \in DOMAIN g.past ->
            [g EXCEPT !.past[epoch].secrets.tree = DeleteOwnSecretForGeneration(@, type, generation)]
       [] OTHER -> g

-----------------------------------------------------------------------------
(* Receiving: framing, decryption and parsing.                             *)

ValidateFraming(context, message) ==
  CASE MessageGroupId(message) # context.group_id -> "WrongGroupId"
    [] MessageContentType(message) = "Application" ->
         IF MessageEpoch(message) > context.epoch THEN "WrongEpoch" ELSE "Ok"
    [] OTHER -> IF MessageEpoch(message) # context.epoch THEN "WrongEpoch" ELSE "Ok"

HasSecretsFor(g, epoch) == epoch >= g.context.epoch \/ epoch \in DOMAIN g.past

MessageSecretsForEpoch(g, epoch) ==
  IF epoch < g.context.epoch THEN g.past[epoch].secrets ELSE g.secrets

WithTree(g, epoch, tree) ==
  IF epoch < g.context.epoch THEN [g EXCEPT !.past[epoch].secrets.tree = tree]
  ELSE [g EXCEPT !.secrets.tree = tree]

\* The outcome of a step that opens a message: an error, the own message, or
\* content with the change of a ratchet that comes with it.
Failed(g, error) == [result |-> error, group |-> g, content |-> {}, update |-> {}, emulator |-> {}]

\* The content under the key that was prepared for it; what the ratchet has to
\* do is done later.
ContentFromCiphertext(g, message, secrets, sender_data, prepared) ==
  LET ready == WithTree(g, message.epoch, prepared.tree)
      contents == ToVerifiableContent(message, secrets, prepared.key, sender_data)
      checks == {FromVerifiableContent(content) : content \in contents}
  IN CASE prepared.result = "OwnMessageConfirmed" -> Failed(ready, "OwnPrivateMessage")
       [] prepared.result # "Ok" -> Failed(ready, prepared.result)
       [] contents = {} -> Failed(ready, "AeadError")
       [] checks # {"Ok"} -> Failed(ready, CHOOSE error \in checks : TRUE)
       [] OTHER ->
            [result |-> "Ok", group |-> ready, content |-> contents,
             update |-> {[epoch |-> message.epoch, leaf |-> sender_data.leaf_index,
                          type |-> SecretTypeOf(message.content_type),
                          generation |-> sender_data.generation]},
             emulator |-> IF sender_data.leaf_index = secrets.tree.own_index
                          THEN {EmulatorSender(prepared.key, sender_data.reuse_guard)} ELSE {}]

\* Nothing is decrypted that this client itself sent, as far as it can tell.
FromSender(g, message, secrets, sender_data) ==
  IF sender_data.leaf_index = secrets.tree.own_index /\ g.emulation = {}
  THEN Failed(g, "OwnPrivateMessage")
  ELSE ContentFromCiphertext(g, message, secrets, sender_data,
         PrepareDecryption(secrets.tree, sender_data.leaf_index, SecretTypeOf(message.content_type),
                           sender_data.generation, RatchetConfig))

FromInboundCiphertext(g, message) ==
  LET secrets == MessageSecretsForEpoch(g, message.epoch)
      inbound == {FromSender(g, message, secrets, data) : data \in OpenSenderData(message, secrets)}
  IN CASE ~HasSecretsFor(g, message.epoch) -> Failed(g, "TooDistantInThePast")
       [] inbound = {} -> Failed(g, "AeadError")
       [] OTHER -> CHOOSE decrypted \in inbound : TRUE

DecryptMessage(g, message) ==
  LET framing == ValidateFraming(g.context, message)
      secrets == MessageSecretsForEpoch(g, MessageEpoch(message))
      inbound == FromInboundPublicMessage(message, {secrets}, secrets.context)
  IN CASE framing # "Ok" -> Failed(g, framing)
       [] message.wire_format = "PrivateMessage" -> FromInboundCiphertext(g, message)
       [] ~HasSecretsFor(g, MessageEpoch(message)) -> Failed(g, "NoPastEpochData")
       [] inbound # "Ok" -> Failed(g, inbound)
       [] OTHER -> [Failed(g, "Ok") EXCEPT !.content = {IntoVerifiableContent(message, secrets.context)}]

\* The leaves that sent in the epoch of the message.
LeavesForMessage(context, leaves, past, epoch) ==
  IF epoch = context.epoch THEN leaves
  ELSE IF epoch \in DOMAIN past THEN past[epoch].leaves ELSE <<>>

\* validate_verifiable_content, for what is left to check.
IsFromKnownLeaf(leaves, past, v) ==
  v.content.sender.kind = "Member" =>
    \/ v.content.sender.index \in DOMAIN leaves
    \/ v.content.epoch \in DOMAIN past /\ v.content.sender.index \in DOMAIN past[v.content.epoch].leaves

\* parse_message and verify: the signature key of the sender has to fit.
ParseAndVerify(context, leaves, past, v) ==
  LET credential == Credential(v, LeavesForMessage(context, leaves, past, v.content.epoch),
                               context.external_senders)
  IN CASE ~IsFromKnownLeaf(leaves, past, v) -> "UnknownMember"
       [] credential = {} -> "UnknownMember"
       [] \E key \in credential : ~VerifySignature(v, key) -> "InvalidSignature"
       [] OTHER -> "Ok"

-----------------------------------------------------------------------------
(* Receiving: what a verified message is.                                  *)

MatchesPendingCommit(g, tag) == \E pending \in g.pending : pending.tag \in tag

CommittedAppDataUpdates(commit, store) == OfType(Resolved(commit, store), "AppDataUpdate")

\* An own commit that is not the pending one cannot be staged if it has a path.
ProcessInternal(g, v) ==
  LET body == v.content.body
      own == v.content.sender = Member(g.own_index)
  IN CASE body.content_type = "Application" -> "ApplicationMessage"
       [] body.content_type = "Proposal" ->
            IF v.content.sender.kind = "NewMemberProposal" THEN "ExternalJoinProposalMessage"
            ELSE "ProposalMessage"
       [] own /\ MatchesPendingCommit(g, v.auth.confirmation_tag) -> "OwnPendingCommit"
       [] own /\ body.payload.path # {} -> "OwnCommitMismatch"
       [] CommittedAppDataUpdates(body.payload, g.proposals) # {} -> "UnresolvedAppDataCommit"
       [] StageCommit(g.context, g.leaves, g.proposals, v) = {} -> "StageCommitError"
       [] OTHER -> "StagedCommitMessage"

\* process_external_authenticated_content: a sender from outside may propose,
\* and not everything.
ProcessExternal(v) ==
  CASE v.content.body.content_type = "Application" -> "UnauthorizedExternalApplicationMessage"
    [] v.content.body.content_type = "Commit" -> "UnauthorizedExternalCommitMessage"
    [] v.content.body.payload.type \in {"GroupContextExtensions", "Remove", "Add", "PreSharedKey", "ReInit"} ->
         "ProposalMessage"
    [] OTHER -> "UnsupportedProposalType"

Successes == {"ApplicationMessage", "ProposalMessage", "ExternalJoinProposalMessage", "StagedCommitMessage",
              "OwnPendingCommit", "UnresolvedAppDataCommit", "OwnPrivateMessage"}

\* What the context at hand requires of the data: the error, or the result with
\* the Safe AAD (option).
AttachSafeAad(context, authenticated_data, result) ==
  LET parsed == ParseAuthenticatedDataPrefix(authenticated_data)
  IN CASE result \notin Successes \/ ~context.safe_aad_required -> [result |-> result, safe_aad |-> {}]
       [] parsed = {} -> [result |-> "MalformedSafeAad", safe_aad |-> {}]
       [] OTHER -> [result |-> result, safe_aad |-> parsed]

ProcessVerifiedMessage(g, v) ==
  AttachSafeAad(g.context, v.content.authenticated_data,
    IF v.content.sender.kind = "External" THEN ProcessExternal(v) ELSE ProcessInternal(g, v))

ApplyRatchetUpdate(g, update) ==
  WithTree(g, update.epoch,
    ApplyDecryptionUpdate(MessageSecretsForEpoch(g, update.epoch).tree, update.leaf, update.type,
                          update.generation, RatchetConfig))

\* The change of the ratchet is applied only if all went well.
ProcessUnverifiedMessage(g, v, decrypted) ==
  LET verified == ParseAndVerify(g.context, g.leaves, g.past, v)
      processed == ProcessVerifiedMessage(g, v)
      used == {ApplyRatchetUpdate(g, u) : u \in decrypted.update}
  IN CASE verified # "Ok" -> [result |-> verified, safe_aad |-> {}, group |-> g]
       [] processed.result \notin Successes \/ used = {} -> processed @@ [group |-> g]
       [] OTHER -> processed @@ [group |-> CHOOSE h \in used : TRUE]

Processed(result, safe_aad, group, content, emulator) ==
  [result |-> result, safe_aad |-> safe_aad, group |-> group, content |-> content, emulator |-> emulator]

\* What becomes of a message once it is decrypted, or not.
ProcessDecrypted(g, message, decrypted) ==
  CASE decrypted.result = "OwnPrivateMessage" ->
         AttachSafeAad(g.context, message.authenticated_data, "OwnPrivateMessage")
           @@ [group |-> decrypted.group, content |-> {}, emulator |-> {}]
    [] decrypted.result # "Ok" -> Processed(decrypted.result, {}, decrypted.group, {}, {})
    [] OTHER ->
         CHOOSE out \in
           {ProcessUnverifiedMessage(decrypted.group, v, decrypted)
              @@ [content |-> {v}, emulator |-> decrypted.emulator] : v \in decrypted.content} : TRUE

\* process_message: the result, the content and the group.
ProcessMessage(g, message) ==
  CASE ~g.active -> Processed("UseAfterEviction", {}, g, {}, {})
    [] /\ ~IsExternal(message)
       /\ IsHandshakeMessage(MessageContentType(message))
       /\ ~IsCompatibleWith(g.incoming, message.wire_format) ->
         Processed("IncompatibleWireFormat", {}, g, {}, {})
    [] OTHER -> ProcessDecrypted(g, message, DecryptMessage(g, message))

\* What an application does with the result: it keeps the proposal, merges the
\* commit, with the updates it computed where there are any, or its own one.
Handle(g, result, content) ==
  LET v == CHOOSE v \in content : TRUE
      staged == StageCommit(g.context, g.leaves, g.proposals, v)
  IN CASE result \in {"ProposalMessage", "ExternalJoinProposalMessage"} ->
            [g EXCEPT !.proposals =
               @ \cup {[ref |-> ProposalRef(AuthenticatedContent(v.wire_format, v.content, v.auth)),
                        proposal |-> v.content.body.payload]}]
       [] result \in {"StagedCommitMessage", "UnresolvedAppDataCommit"} /\ staged # {} ->
            MergeCommit(g, CHOOSE next \in staged : TRUE)
       [] result = "OwnPendingCommit" -> MergeCommit(g, (CHOOSE p \in g.pending : TRUE).next)
       [] OTHER -> g

-----------------------------------------------------------------------------
(* A public group follows the same way without secrets.                    *)

PublicProcessInternal(pg, v) ==
  LET body == v.content.body
  IN CASE body.content_type = "Application" -> "ApplicationMessage"
       [] body.content_type = "Proposal" ->
            IF v.content.sender.kind = "NewMemberProposal" THEN "ExternalJoinProposalMessage"
            ELSE "ProposalMessage"
       [] CommittedAppDataUpdates(body.payload, pg.proposals) # {} -> "UnresolvedAppDataCommit"
       [] StageCommit(pg.context, pg.leaves, pg.proposals, v) = {} -> "StageCommitError"
       [] OTHER -> "StagedCommitMessage"

PublicProcessUnverified(pg, v) ==
  LET verified == ParseAndVerify(pg.context, pg.leaves, <<>>, v)
  IN IF verified # "Ok" THEN [result |-> verified, safe_aad |-> {}]
     ELSE AttachSafeAad(pg.context, v.content.authenticated_data,
            IF v.content.sender.kind = "External" THEN ProcessExternal(v)
            ELSE PublicProcessInternal(pg, v))

PublicProcessMessage(pg, message) ==
  LET framing == ValidateFraming(pg.context, message)
      inbound == FromInboundPublicMessage(message, {}, pg.context)
      v == IntoVerifiableContent(message, pg.context)
      refuse(error) == [result |-> error, safe_aad |-> {}, content |-> {}]
  IN CASE framing # "Ok" -> refuse(framing)
       [] message.wire_format = "PrivateMessage" -> refuse("IncompatibleWireFormat")
       [] inbound # "Ok" -> refuse(inbound)
       [] OTHER -> PublicProcessUnverified(pg, v) @@ [content |-> {v}]

PublicHandle(pg, result, content) ==
  LET v == CHOOSE v \in content : TRUE
      staged == StageCommit(pg.context, pg.leaves, pg.proposals, v)
      next == CHOOSE next \in staged : TRUE
  IN CASE result \in {"ProposalMessage", "ExternalJoinProposalMessage"} ->
            [pg EXCEPT !.proposals =
               @ \cup {[ref |-> ProposalRef(AuthenticatedContent(v.wire_format, v.content, v.auth)),
                        proposal |-> v.content.body.payload]}]
       [] result \in {"StagedCommitMessage", "UnresolvedAppDataCommit"} /\ staged # {} ->
            [context |-> next.context, leaves |-> next.leaves, proposals |-> {}]
       [] OTHER -> pg
=============================================================================
