------------------------------- MODULE Framing -------------------------------
(***************************************************************************)
(* Messages (openmls/src/framing): content is signed, framed as a public   *)
(* message with a membership tag or encrypted as a private message, and    *)
(* opened again.  Cryptography is symbolic: a signature, a tag or a        *)
(* ciphertext is the term of what it was made from.                        *)
(*                                                                         *)
(* A proposal is a record [type, index, key]; a commit names the proposals *)
(* it covers by value or by reference.                                     *)
(***************************************************************************)
EXTENDS SecretTree

Member(index) == [kind |-> "Member", index |-> index]

ExternalSender(index) == [kind |-> "External", index |-> index]

NewMemberProposal == [kind |-> "NewMemberProposal", index |-> 0]

NewMemberCommit == [kind |-> "NewMemberCommit", index |-> 0]

Body(content_type, payload) == [content_type |-> content_type, payload |-> payload]

IsHandshakeMessage(content_type) == content_type \in {"Proposal", "Commit"}

FramedContent(group_id, epoch, sender, authenticated_data, body) ==
  [group_id |-> group_id, epoch |-> epoch, sender |-> sender,
   authenticated_data |-> authenticated_data, body |-> body]

\* What is signed: the context is part of it only for those who know it.
FramedContentTbs(wire_format, content, context) ==
  [wire_format |-> wire_format, content |-> content,
   context |-> IF content.sender.kind \in {"Member", "NewMemberCommit"} THEN {context} ELSE {}]

Sign(signature_key, payload) == <<"signature", signature_key, payload>>

\* FramedContentAuthData: the tag is an option.
Auth(signature, confirmation_tag) ==
  [signature |-> signature, confirmation_tag |-> confirmation_tag]

AuthenticatedContent(wire_format, content, auth) ==
  [wire_format |-> wire_format, content |-> content, auth |-> auth]

NewAndSign(wire_format, sender, authenticated_data, body, context, signer) ==
  LET content == FramedContent(context.group_id, context.epoch, sender, authenticated_data, body)
  IN AuthenticatedContent(wire_format, content,
       Auth(Sign(signer, FramedContentTbs(wire_format, content, context)), {}))

NewApplication(index, authenticated_data, text, context, signer) ==
  NewAndSign("PrivateMessage", Member(index), authenticated_data, Body("Application", text), context, signer)

MemberProposal(wire_format, authenticated_data, index, proposal, context, signer) ==
  NewAndSign(wire_format, Member(index), authenticated_data, Body("Proposal", proposal), context, signer)

\* Who is not a member sends nothing with a proposal, not even a Safe AAD.
NewJoinProposal(proposal, context, signer) ==
  NewAndSign("PublicMessage", NewMemberProposal, <<>>, Body("Proposal", proposal), context, signer)

NewExternalProposal(index, proposal, context, signer) ==
  NewAndSign("PublicMessage", ExternalSender(index), <<>>, Body("Proposal", proposal), context, signer)

NewCommit(wire_format, authenticated_data, sender, commit, context, signer) ==
  NewAndSign(wire_format, sender, authenticated_data, Body("Commit", commit), context, signer)

SetConfirmationTag(authenticated_content, tag) ==
  [authenticated_content EXCEPT !.auth.confirmation_tag = {tag}]

\* The transcript takes in a commit with its signature, not with its tag.
ConfirmedTranscript(context, authenticated_content) ==
  <<"confirmed", context.confirmed, authenticated_content.wire_format,
    authenticated_content.content, authenticated_content.auth.signature>>

ProposalRef(authenticated_content) == <<"ref", authenticated_content>>

-----------------------------------------------------------------------------
(* The secrets a member needs for the messages of one epoch.               *)

NewMessageSecrets(epoch_secret, context, size, own_index, dual_use) ==
  [sender_data_secret |-> DeriveSecret(epoch_secret, "sender data"),
   epoch_secret |-> epoch_secret, context |-> context,
   tree |-> NewSecretTree(EncryptionSecret(epoch_secret), size, own_index, dual_use)]

-----------------------------------------------------------------------------
(* Public messages.                                                        *)

\* The bytes under the membership tag are those under the signature, with the
\* signature and the confirmation tag.
AuthenticatedContentTbm(authenticated_content, context) ==
  <<FramedContentTbs(authenticated_content.wire_format, authenticated_content.content, context),
    authenticated_content.auth>>

PublicMessageOf(authenticated_content) ==
  [wire_format |-> "PublicMessage", content |-> authenticated_content.content,
   auth |-> authenticated_content.auth, membership_tag |-> {}]

SetMembershipTag(message, secrets) ==
  [message EXCEPT !.membership_tag =
     {MembershipTag(secrets.epoch_secret, AuthenticatedContentTbm(message, secrets.context))}]

VerifyMembership(message, secrets) ==
  message.membership_tag
    = {MembershipTag(secrets.epoch_secret, AuthenticatedContentTbm(message, secrets.context))}

-----------------------------------------------------------------------------
(* Private messages.  A key stands for a key with its nonce; the reuse     *)
(* guard changes the nonce.  emulation is the leaf of the client in the    *)
(* emulation group of a virtual client, if the group is bound to one.      *)

Seal(key, aad, plaintext) == <<"aead", key, aad, plaintext>>

Open(key, aad, ciphertext) ==
  IF ciphertext[2] = key /\ ciphertext[3] = aad THEN {ciphertext[4]} ELSE {}

ReuseGuard(emulation, ratchet_key) ==
  IF emulation = {} THEN <<"random">> ELSE <<"prp", ratchet_key, CHOOSE leaf \in emulation : TRUE>>

\* Inverting the guard yields the leaf of the sibling.
EmulatorSender(ratchet_key, guard) ==
  IF guard[1] = "prp" /\ guard[2] = ratchet_key THEN guard[3] ELSE 0

PrivateContentAad(group_id, epoch, content_type, authenticated_data) ==
  <<group_id, epoch, content_type, authenticated_data>>

\* The first bytes of a ciphertext, as random as the key it was made with.
CiphertextSample(ciphertext) == ciphertext[2]

SenderDataKey(sender_data_secret, ciphertext) ==
  KdfExpandLabel(sender_data_secret, "key", CiphertextSample(ciphertext))

SenderDataAad(group_id, epoch, content_type) == <<group_id, epoch, content_type>>

SenderData(leaf_index, generation, reuse_guard) ==
  [leaf_index |-> leaf_index, generation |-> generation, reuse_guard |-> reuse_guard]

\* encrypt_content: the message with its generation and the secrets that have
\* moved on, or nothing if there is no key.  Padding is left out.
EncryptContent(authenticated_content, secrets, emulation) ==
  LET c == authenticated_content.content
      type == c.body.content_type
      sealed(next) ==
        LET guard == ReuseGuard(emulation, next.key)
            ciphertext == Seal(<<next.key, guard>>,
              PrivateContentAad(c.group_id, c.epoch, type, c.authenticated_data),
              [payload |-> c.body.payload, auth |-> authenticated_content.auth])
        IN [wire_format |-> "PrivateMessage", group_id |-> c.group_id, epoch |-> c.epoch,
            content_type |-> type, authenticated_data |-> c.authenticated_data,
            encrypted_sender_data |->
              Seal(SenderDataKey(secrets.sender_data_secret, ciphertext),
                   SenderDataAad(c.group_id, c.epoch, type),
                   SenderData(c.sender.index, next.generation, guard)),
            ciphertext |-> ciphertext]
  IN IF authenticated_content.wire_format # "PrivateMessage" \/ c.sender.kind # "Member" THEN {}
     ELSE {[message |-> sealed(next), generation |-> next.generation,
            secrets |-> [secrets EXCEPT !.tree = next.tree]] :
             next \in SecretForEncryption(secrets.tree, SecretTypeOf(type))}

OpenSenderData(message, secrets) ==
  Open(SenderDataKey(secrets.sender_data_secret, message.ciphertext),
       SenderDataAad(message.group_id, message.epoch, message.content_type),
       message.encrypted_sender_data)

\* The content with what is needed to verify it, or nothing if the key does
\* not open the message.  The sender of a private message is a member.
ToVerifiableContent(message, secrets, ratchet_key, sender_data) ==
  {[wire_format |-> "PrivateMessage", auth |-> plaintext.auth, context |-> secrets.context,
    content |-> FramedContent(message.group_id, message.epoch, Member(sender_data.leaf_index),
                  message.authenticated_data, Body(message.content_type, plaintext.payload))] :
     plaintext \in Open(<<ratchet_key, sender_data.reuse_guard>>,
                     PrivateContentAad(message.group_id, message.epoch, message.content_type,
                                       message.authenticated_data),
                     message.ciphertext)}

IntoVerifiableContent(message, context) ==
  [wire_format |-> "PublicMessage", auth |-> message.auth, context |-> context,
   content |-> message.content]

-----------------------------------------------------------------------------
(* ProtocolMessage: what can be read of either kind.                       *)

MessageEpoch(message) ==
  IF message.wire_format = "PrivateMessage" THEN message.epoch ELSE message.content.epoch

MessageGroupId(message) ==
  IF message.wire_format = "PrivateMessage" THEN message.group_id ELSE message.content.group_id

MessageContentType(message) ==
  IF message.wire_format = "PrivateMessage" THEN message.content_type
  ELSE message.content.body.content_type

IsExternal(message) ==
  message.wire_format = "PublicMessage" /\ message.content.sender.kind # "Member"

\* IncomingWireFormatPolicy::is_compatible_with
IsCompatibleWith(policy, wire_format) ==
  CASE policy = "AlwaysCiphertext" -> wire_format = "PrivateMessage"
    [] policy = "AlwaysPlaintext" -> wire_format = "PublicMessage"
    [] policy = "Mixed" -> TRUE

\* Whether the content, once verifiable, may be what it claims to be.
FromVerifiableContent(v) ==
  CASE v.content.body.content_type = "Commit" /\ v.auth.confirmation_tag = {} -> "MissingConfirmationTag"
    [] v.content.body.content_type = "Application" /\ v.wire_format # "PrivateMessage" ->
         "UnencryptedApplicationMessage"
    [] v.content.body.content_type = "Application" /\ v.content.sender.kind # "Member" -> "LibraryError"
    [] OTHER -> "Ok"

\* Without the secrets of the group only the presence of the tag is checked.
FromInboundPublicMessage(message, secrets_option, context) ==
  LET v == IntoVerifiableContent(message, context)
  IN CASE message.content.sender.kind = "Member" /\ message.membership_tag = {} -> "MissingMembershipTag"
       [] message.content.sender.kind = "Member"
            /\ \E secrets \in secrets_option : ~VerifyMembership(message, secrets) -> "InvalidMembershipTag"
       [] OTHER -> FromVerifiableContent(v)

\* Verifiable::verify: the signature is over what the receiver knows.
VerifySignature(v, signature_key) ==
  v.auth.signature = Sign(signature_key, FramedContentTbs(v.wire_format, v.content, v.context))

NewMemberCredential(v) ==
  CASE v.content.sender.kind = "NewMemberCommit" ->
         IF v.content.body.content_type # "Commit" THEN {} ELSE v.content.body.payload.path
    [] v.content.sender.kind = "NewMemberProposal" ->
         IF v.content.body.content_type = "Proposal" /\ v.content.body.payload.type = "Add"
         THEN {v.content.body.payload.key} ELSE {}
    [] OTHER -> {}

\* The signature key of the sender, if there is one: leaves are those of the
\* epoch of the message, path is the key in the leaf of the update path.
Credential(v, leaves, external_senders) ==
  CASE v.content.sender.kind = "Member" ->
         IF v.content.sender.index \in DOMAIN leaves THEN {leaves[v.content.sender.index]} ELSE {}
    [] v.content.sender.kind = "External" ->
         IF v.content.sender.index < Len(external_senders)
         THEN {external_senders[v.content.sender.index + 1]} ELSE {}
    [] OTHER -> NewMemberCredential(v)

-----------------------------------------------------------------------------
(* Safe AAD: a struct in front of the authenticated data of the            *)
(* application.  Data is a sequence of tokens; a struct is one of them.     *)

SafeAad(items) == <<"safe", items>>

AssembleAuthenticatedData(safe_aad, tail) == <<safe_aad>> \o tail

\* The struct at the start, or nothing: other bytes are taken not to parse.
ParseAuthenticatedDataPrefix(data) ==
  IF data # <<>> /\ data[1][1] = "safe" THEN {data[1]} ELSE {}
=============================================================================
