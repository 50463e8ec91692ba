---------------------------- MODULE GroupMessages ----------------------------
(***************************************************************************)
(* The messages of one group: members send application messages, proposals *)
(* and commits, some from a leaf they share with a sibling, others propose *)
(* or join from outside, a public group follows along, and the delivery    *)
(* service hands out what it accepted in any order, any number of times.   *)
(*                                                                         *)
(* A scenario, fixed at the start, says who is in the group and how it is  *)
(* set up, what may be sent and how much of it.                            *)
(***************************************************************************)
EXTENDS MessageProcessing

CONSTANTS Clients,      \* who may be or become a member
          Scenarios     \* the set-ups that are looked at

VARIABLES scenario,     \* the set-up
          groups,       \* the group of each client
          observer,     \* a public group
          messages,     \* what was sent, with what is known of it
          status,       \* "Accepted" or "Rejected" by the delivery service, or "Confirmed"
          read,         \* the messages each client has processed
          surprises     \* what should not have happened

vars == <<scenario, groups, observer, messages, status, read, surprises>>

InitialContext(s) ==
  [group_id |-> "group", epoch |-> 0, safe_aad_required |-> s.safe_aad_required,
   external_senders |-> <<"ext">>, confirmed |-> <<"initial">>]

InitialGroup(s, c) ==
  LET context == InitialContext(s)
      own == IF c \in DOMAIN s.index THEN s.index[c] ELSE 0
      dual == c \in s.dual_use
  IN [active |-> c \in DOMAIN s.index, own_index |-> own, key |-> s.key[c], dual_use |-> dual,
      emulation |-> s.emulation[c], incoming |-> s.incoming, outgoing |-> s.outgoing[c],
      context |-> context, leaves |-> s.leaves, past |-> <<>>, proposals |-> {}, pending |-> {},
      secrets |-> NewMessageSecrets(ContextSecret(context), context, NodesFor(s.leaves), own, dual)]

Init ==
  /\ scenario \in Scenarios
  /\ groups = [c \in Clients |-> InitialGroup(scenario, c)]
  /\ observer = [context |-> InitialContext(scenario), leaves |-> scenario.leaves, proposals |-> {}]
  /\ messages = <<>>
  /\ status = <<>>
  /\ read = [c \in Clients |-> {}]
  /\ surprises = {}

-----------------------------------------------------------------------------
(* Sending.                                                                *)

CountOf(kind) == Cardinality({i \in DOMAIN messages : messages[i].kind = kind})

MaySend(kind) == CountOf(kind) < scenario.budget[kind]

Entry(kind, from, context, sender, body, out) ==
  [kind |-> kind, from |-> from, epoch |-> context.epoch, sender |-> sender, body |-> body,
   safe_aad_required |-> context.safe_aad_required, message |-> out.message,
   generation |-> out.generation, generation_id |-> out.generation_id,
   next |-> IF kind = "Commit" THEN {out.next} ELSE {}]

\* The delivery service takes one commit per epoch, and one message per
\* generation of a leaf that siblings share.
Clashes(entry) ==
  \E j \in DOMAIN messages :
    /\ status[j] # "Rejected"
    /\ \/ entry.kind = "Commit" /\ messages[j].kind = "Commit" /\ messages[j].epoch = entry.epoch
       \/ entry.generation_id # {} /\ messages[j].generation_id = entry.generation_id

Emit(entry) ==
  /\ messages' = Append(messages, entry)
  /\ status' = Append(status, IF Clashes(entry) THEN "Rejected" ELSE "Accepted")

\* create_message or create_unconfirmed_message
SendApplication(c) ==
  /\ MaySend("Application") /\ c \in scenario.senders
  /\ \E out \in CreateMessage(groups[c], Len(messages) + 1) :
       /\ groups' = [groups EXCEPT ![c] = out.group]
       /\ Emit(Entry("Application", c, groups[c].context, Member(groups[c].own_index),
                     Body("Application", Len(messages) + 1), out))
  /\ UNCHANGED <<scenario, observer, read, surprises>>

\* propose_*
Propose(c, proposal) ==
  /\ MaySend("Proposal") /\ c \in scenario.proposers
  /\ \E out \in CreateProposal(groups[c], proposal) :
       /\ groups' = [groups EXCEPT ![c] = out.group]
       /\ Emit(Entry("Proposal", c, groups[c].context, Member(groups[c].own_index),
                     Body("Proposal", proposal), out))
  /\ UNCHANGED <<scenario, observer, read, surprises>>

\* ExternalProposal and JoinProposal: made for the epoch of some member.
ProposeFromOutside(proposal) ==
  /\ MaySend("Outside")
  /\ \E c \in Clients :
       LET context == groups[c].context
           joins == proposal.type = "Add"
           content == IF joins THEN NewJoinProposal(proposal, context, proposal.key)
                      ELSE NewExternalProposal(0, proposal, context, "ext")
       IN /\ groups[c].active
          /\ Emit(Entry("Outside", IF joins THEN proposal.key ELSE "ext", context, content.content.sender,
                        content.content.body,
                        [message |-> PublicMessageOf(content), generation |-> 0, generation_id |-> {}]))
  /\ UNCHANGED <<scenario, groups, observer, read, surprises>>

\* The commit builder, with the proposals in the store and others by value.
Commit(c, inline) ==
  /\ MaySend("Commit") /\ c \in scenario.committers
  /\ \E out \in CreateCommit(groups[c], inline) :
       /\ groups' = [groups EXCEPT ![c] = out.group]
       /\ Emit(Entry("Commit", c, groups[c].context, Member(groups[c].own_index),
                     Body("Commit", CommitBody(groups[c].proposals, inline, {groups[c].key})), out))
  /\ UNCHANGED <<scenario, observer, read, surprises>>

\* A commit from outside, made from the group info of some member.
ExternalCommit(c) ==
  /\ MaySend("Commit") /\ c \in scenario.joiners /\ ~groups[c].active
  /\ \E d \in Clients :
       LET g == groups[d]
           body == CommitBody({}, {}, {groups[c].key})
           commit == SignedCommit("PublicMessage", OutgoingAuthenticatedData(g), NewMemberCommit, body,
                                  g.context, g.leaves, {}, groups[c].key)
       IN /\ g.active
          /\ Emit(Entry("Commit", c, g.context, NewMemberCommit, Body("Commit", body),
                        [message |-> PublicMessageOf(commit.content), next |-> commit.next,
                         generation |-> 0, generation_id |-> {}]))
  /\ UNCHANGED <<scenario, groups, observer, read, surprises>>

-----------------------------------------------------------------------------
(* After the word of the delivery service.  A client whose commit was      *)
(* rejected drops it when it merges the other one.                         *)

\* confirm_application_message, confirm_handshake_message
Confirm(i) ==
  LET m == messages[i]
      c == m.from
  IN /\ status[i] = "Accepted" /\ m.message.wire_format = "PrivateMessage" /\ groups[c].dual_use
     /\ groups' = [groups EXCEPT ![c] = ConfirmOwnSecret(@, m.epoch, m.message.content_type, m.generation)]
     /\ status' = [status EXCEPT ![i] = "Confirmed"]
     /\ UNCHANGED <<scenario, observer, messages, read, surprises>>

\* merge_pending_commit on the word of the delivery service
MergeOwn(i) ==
  LET c == messages[i].from
  IN /\ messages[i].kind = "Commit" /\ status[i] # "Rejected"
     /\ \E next \in messages[i].next :
          /\ groups[c].pending = {[tag |-> TagOfEpoch(next), next |-> next]}
          /\ groups' = [groups EXCEPT ![c] = MergeCommit(@, next)]
     /\ UNCHANGED <<scenario, observer, messages, status, read, surprises>>

\* By the Welcome of a commit, or by the own commit from outside.
Join(c, i) ==
  /\ messages[i].kind = "Commit" /\ status[i] # "Rejected"
  /\ c \in scenario.joiners /\ ~groups[c].active
  /\ \E next \in messages[i].next : \E leaf \in DOMAIN next.leaves :
       /\ next.leaves[leaf] = groups[c].key
       /\ groups' = [groups EXCEPT ![c] = JoinedGroup(@, next, leaf)]
  /\ UNCHANGED <<scenario, observer, messages, status, read, surprises>>

-----------------------------------------------------------------------------
(* What is to be expected of a delivery, from what was sent and read.      *)

IsOut(i) == status[i] # "Rejected"

IsPrivate(i) == messages[i].message.wire_format = "PrivateMessage"

\* Messages under one ratchet.
SameRatchet(i, j) ==
  /\ IsPrivate(i) /\ IsPrivate(j)
  /\ messages[i].epoch = messages[j].epoch
  /\ messages[i].sender = messages[j].sender
  /\ (messages[i].kind = "Application") = (messages[j].kind = "Application")

\* The generations of the ratchet of message i that client c has read, and
\* those it has used itself.
ReadGenerations(c, i) == {messages[j].generation : j \in {j \in read[c] : SameRatchet(i, j)}}

OwnGenerations(c, i) ==
  {messages[j].generation : j \in {j \in DOMAIN messages : messages[j].from = c /\ SameRatchet(i, j)}}

\* A generation is in reach if it is not too far ahead, or if fewer than the
\* tolerated number of generations above it, own sends left out, were passed.
InReach(c, i) ==
  LET generation == messages[i].generation
      seen == ReadGenerations(c, i) \cup OwnGenerations(c, i)
      head == IF seen = {} THEN 0 ELSE Max(seen) + 1
      unread_own == OwnGenerations(c, i) \ ReadGenerations(c, i)
  IN IF generation >= head THEN generation - head <= RatchetConfig.maximum_forward_distance
     ELSE \/ generation \in unread_own
          \/ Cardinality(((generation + 1)..(head - 1)) \ unread_own) < RatchetConfig.out_of_order_tolerance

KnownProposals(store, i) ==
  messages[i].kind = "Commit" => Unknown(messages[i].body.payload, store) = {}

\* Client c has all it takes to process message i of someone else.
CanProcess(c, i) ==
  LET g == groups[c]
      m == messages[i]
  IN /\ g.active /\ m.from # c
     /\ m.epoch = g.context.epoch \/ (m.kind = "Application" /\ m.epoch \in DOMAIN g.past)
     /\ m.kind \in {"Proposal", "Commit"} /\ m.sender.kind = "Member" =>
          IsCompatibleWith(g.incoming, m.message.wire_format)
     /\ KnownProposals(g.proposals, i)
     /\ IsPrivate(i) => i \notin read[c] /\ InReach(c, i)

\* Results that say more or other than what was sent.
IsMisread(c, i, processed) ==
  LET m == messages[i]
      mine == m.from = c
  IN \/ processed.result \in {"OwnPrivateMessage", "OwnPendingCommit"} /\ ~mine
     \/ /\ processed.content # {} /\ processed.result \in Successes
        /\ \/ IsPrivate(i) /\ i \in read[c]
           \/ \E v \in processed.content : v.content.sender # m.sender \/ v.content.body # m.body
           \/ processed.emulator # {} /\ processed.emulator # groups[m.from].emulation

\* The Safe AAD is there if and only if the epoch of the message required it.
IsMisframed(i, processed) ==
  \/ processed.result = "MalformedSafeAad"
  \/ processed.result \in Successes /\ (processed.safe_aad # {}) # messages[i].safe_aad_required

SurprisesOf(who, i, expected, misread, processed) ==
  (IF expected /\ processed.result \notin Successes THEN {<<"refused", who, i>>} ELSE {})
    \cup (IF misread THEN {<<"misread", who, i>>} ELSE {})
    \cup (IF IsMisframed(i, processed) THEN {<<"misframed", who, i>>} ELSE {})

\* process_message, and what the application does with the result
Deliver(c, i) ==
  /\ IsOut(i) /\ c \in scenario.receivers
  /\ \E processed \in {ProcessMessage(groups[c], messages[i].message)} :
       /\ groups' = [groups EXCEPT ![c] = Handle(processed.group, processed.result, processed.content)]
       /\ read' = IF processed.content # {} /\ processed.result \in Successes
                  THEN [read EXCEPT ![c] = @ \cup {i}] ELSE read
       /\ surprises' = surprises \cup
            SurprisesOf(c, i, CanProcess(c, i), IsMisread(c, i, processed), processed)
  /\ UNCHANGED <<scenario, observer, messages, status>>

\* The public group of the delivery service
Observe(i) ==
  LET processed == PublicProcessMessage(observer, messages[i].message)
      expected == ~IsPrivate(i) /\ messages[i].epoch = observer.context.epoch
                    /\ KnownProposals(observer.proposals, i)
  IN /\ IsOut(i) /\ "observer" \in scenario.receivers
     /\ observer' = PublicHandle(observer, processed.result, processed.content)
     /\ surprises' = surprises \cup SurprisesOf("observer", i, expected, FALSE, processed)
     /\ UNCHANGED <<scenario, groups, messages, status, read>>

Next ==
  \/ \E c \in Clients : SendApplication(c) \/ ExternalCommit(c)
  \/ \E c \in Clients : \E p \in scenario.proposals : Propose(c, p)
  \/ \E p \in scenario.outside : ProposeFromOutside(p)
  \/ \E c \in Clients : \E inline \in scenario.inline : Commit(c, inline)
  \/ \E i \in DOMAIN messages : Confirm(i) \/ MergeOwn(i) \/ Observe(i)
  \/ \E c \in Clients, i \in DOMAIN messages : Join(c, i) \/ Deliver(c, i)

Spec == Init /\ [][Next]_vars

-----------------------------------------------------------------------------
(* Properties.                                                             *)

SurprisesOfKind(kind) == {s \in surprises : s[1] = kind}

\* A message that was accepted by the delivery service is processed by every
\* client that is in its epoch (for an application message: that has kept its
\* epoch), knows the proposals a commit covers and has not passed its
\* generation by more than the tolerance, also when the client refused the
\* message before because something was missing, when the sender has left the
\* group since, or when a sibling used the same generation for a message that
\* was not accepted; and the public group processes every public message of
\* its epoch (process_message, PublicGroup::process_message).
MessagesAreProcessed == SurprisesOfKind("refused") = {}

\* No message is taken for something else: a private message is not processed
\* twice, what comes out is what was sent by whom it was sent, down to the
\* sibling behind a shared leaf, and only a client's own messages are reported
\* as such (OwnPrivateMessage, OwnPendingCommit).
MessagesAreNotMistaken == SurprisesOfKind("misread") = {}

\* Messages come through, and come through as what they are.
MessagesAreUnderstood == MessagesAreProcessed /\ MessagesAreNotMistaken

\* The tree of every epoch that a client keeps holds, for each leaf, the two
\* ratchets and nothing they could be derived from again, or exactly one secret
\* above the leaf to derive them from (initialize_sender_ratchets, derive_down).
SecretTreesAreForwardSecure ==
  \A c \in Clients : groups[c].active =>
    /\ IsForwardSecure(groups[c].secrets.tree, EncryptionSecret(ContextSecret(groups[c].context)))
    /\ \A e \in DOMAIN groups[c].past :
         LET secrets == groups[c].past[e].secrets
         IN IsForwardSecure(secrets.tree, EncryptionSecret(ContextSecret(secrets.context)))

\* A processed message has a Safe AAD if and only if the group required it in
\* the epoch of the message (the documentation of ProcessedMessage::safe_aad).
SafeAadFollowsTheMessage == SurprisesOfKind("misframed") = {}
=============================================================================
