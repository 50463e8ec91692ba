---------------------------- MODULE CliClient ----------------------------
(***************************************************************************)
(* The command line clients of cli/ talking to the delivery service.  Each *)
(* member of Names is a CLI process with a client of that name.  A command *)
(* is a sequence of HTTP requests, and other processes run between two of  *)
(* them: the variable step[u] says where u is in its command.  main()      *)
(* unwraps the results of update, invite and remove, so an error there, or *)
(* a panic, ends the process: what was not saved is gone.                  *)
(*                                                                         *)
(* A group's state is its history: the commits that led to it, starting    *)
(* with its creation.  Two members can read each other's messages iff they *)
(* have the same history, which is what the MLS key schedule gives them.   *)
(* Key packages and groups are told apart by the randomness of their maker.*)
(***************************************************************************)
EXTENDS DeliveryService

CONSTANTS
  Names,        \* client names
  GroupNames,   \* group names, which are also the group ids
  Present,      \* the clients that start registered and know each other
  Creators,     \* the clients that create groups
  Senders,      \* the clients that send application messages
  Restarting,   \* the clients that save their state, stop and start again
  Budget,       \* bound: the random values a name may draw (a creator or newcomer: one more)
  MaxCommits,   \* bound: commits made
  MessageEpoch, \* bound: the epoch in which application messages are sent
  MaxFaults     \* bound: requests and responses lost, server resets, loads

VARIABLES
  ds,        \* the delivery service
  users,     \* name -> its running client, or NoClient
  step,      \* name -> the rest of the command it is executing
  disk,      \* name -> what it last saved and can load, or NoClient
  random,    \* name -> random values drawn so far
  faults,    \* faults so far
  reset,     \* whether the server was reset
  \* history
  handed,    \* key packages given out by the service, in order
  accepted,  \* commits the service queued, with the clients it served
  missed,    \* name -> commits lost on the way to it or received too early
  unlisted   \* clients one of whose list requests failed

vars == <<ds, users, step, disk, random, faults, reset,
          handed, accepted, missed, unlisted>>

NoClient == [running |-> FALSE]
Idle == [cmd |-> "idle"]

---------------------------------------------------------------------------
(* MLS groups, as far as the client can tell them apart.                   *)

Blank == [name |-> "blank", key |-> 0]

(* The leaf a new member gets: the leftmost blank one, or a new one.       *)
AddLeaf(leaves, leaf) ==
  LET Blanks == {i \in DOMAIN leaves : leaves[i] = Blank} IN
  IF Blanks = {} THEN Append(leaves, leaf)
  ELSE [leaves EXCEPT ![Min(Blanks)] = leaf]

Apply(leaves, commit) ==
  IF commit.op = "remove" THEN [leaves EXCEPT ![commit.index] = Blank]
  ELSE AddLeaf(leaves, commit.leaf)

(* MlsGroup::members: the leaves after the group's commits.                *)
Leaves(hist) == FoldLeft(Apply, <<>>, hist)
Members(hist) == SelectSeq(Leaves(hist), LAMBDA l : l # Blank)
Epoch(hist) == Len(hist) - 1

(* Group: the MLS state, the conversation and the own sending generation.  *)
Group(hist) == [hist |-> hist, conversation |-> <<>>, generation |-> 0]

---------------------------------------------------------------------------
(* Identity and User.                                                      *)

KeyPackage(u, n, key) == [owner |-> u, n |-> n, key |-> key]

(* User::new: one key package from Identity::new and the two that the      *)
(* register command adds.  The signature key is the first random value.    *)
NewUser(u, n) ==
  [running |-> TRUE, key |-> n, kp |-> {KeyPackage(u, n + i, n) : i \in 0..2},
   contacts |-> {}, groups |-> <<>>, group_list |-> {},
   autosave |-> FALSE, auth_token |-> {}]

FirstKeyPackages(u, n) == [i \in 1..3 |-> KeyPackage(u, n + i - 1, n)]

Leaf(u) == [name |-> u, key |-> users[u].key]

(* User::find_member_index: the first leaf with that name.                 *)
FindMember(hist, name) ==
  {i \in DOMAIN Leaves(hist) :
     /\ Leaves(hist)[i].name = name
     /\ \A j \in 1..(i - 1) : Leaves(hist)[j].name # name}

(* User::recipients: everyone but the holder of our signature key.         *)
Recipients(u, hist) ==
  LET others == SelectSeq(Members(hist), LAMBDA l : l # Leaf(u))
  IN [i \in DOMAIN others |-> others[i].name]

(* recipients panics on a member that is not a contact.                    *)
KnowsRecipients(u, hist) == ToSet(Recipients(u, hist)) \subseteq users[u].contacts

(* What User::load reads back of what User::save writes: everything but    *)
(* the groups that are not listed, and empty conversations.                *)
Loaded(user) ==
  [user EXCEPT !.groups =
     [g \in user.group_list \cap DOMAIN user.groups |->
        [user.groups[g] EXCEPT !.conversation = <<>>]]]

(* User::autosave.                                                         *)
Autosave(u, user) == IF user.autosave THEN [disk EXCEPT ![u] = Loaded(user)] ELSE disk

---------------------------------------------------------------------------
(* Requests.  A request may be lost before it reaches the service, and the *)
(* response may be lost after it: both are an error to the client.         *)

Fates == {"answered", "lost", "unanswered"}

Answer(reply, fate) ==
  CASE fate = "answered"   -> reply
    [] fate = "lost"       -> Reply("ERROR", ds, <<>>)
    [] fate = "unanswered" -> Reply("ERROR", reply.ds, <<>>)

Fault == faults < MaxFaults /\ faults' = faults + 1

CountFailure(fate) == IF fate = "answered" THEN UNCHANGED faults ELSE Fault

(* The process ends.                                                       *)
Stop(u) ==
  /\ users' = [users EXCEPT ![u] = NoClient]
  /\ step' = [step EXCEPT ![u] = Idle]
  /\ UNCHANGED disk

(* A command that cannot succeed ends it too; bound: only Restarting       *)
(* clients give one.                                                       *)
Mistake(u) == u \in Restarting /\ Stop(u)

Become(u, user, next) ==
  /\ users' = [users EXCEPT ![u] = user]
  /\ step' = [step EXCEPT ![u] = next]

Draw(u, n) ==
  /\ random[u] + n <= IF u \in Creators \cup (Names \ Present) THEN Budget + 1 ELSE Budget
  /\ random' = [random EXCEPT ![u] = @ + n]

Ready(u) == users[u].running /\ step[u] = Idle

History == <<handed, accepted, missed, unlisted>>

Init ==
  /\ ds = [DsData EXCEPT !.clients = [u \in Present |-> ClientInfo(FirstKeyPackages(u, 0), 0)]]
  /\ users = [u \in Names |->
                IF u \notin Present THEN NoClient
                ELSE [NewUser(u, 0) EXCEPT !.contacts = Present \ {u}, !.auth_token = {0}]]
  /\ step = [u \in Names |-> Idle]
  /\ disk = [u \in Names |-> NoClient]
  /\ random = [u \in Names |-> IF u \in Present THEN 3 ELSE 0]
  /\ faults = 0 /\ reset = FALSE
  /\ handed = <<>> /\ accepted = {} /\ unlisted = {}
  /\ missed = [u \in Names |-> {}]

---------------------------------------------------------------------------
(* Commands of main().                                                     *)

(* register: a new user.  A refused registration is only logged and leaves *)
(* the user without a token.                                               *)
Register(u) ==
  /\ ~users[u].running
  /\ Draw(u, 3)
  /\ \E fate \in Fates :
       LET user == NewUser(u, random[u])
           kps == FirstKeyPackages(u, random[u])
           r == Answer(RegisterClient(ds, kps, random[u]), fate)
       IN /\ CountFailure(fate)
          /\ ds' = r.ds
          /\ Become(u, IF r.status = "OK" THEN [user EXCEPT !.auth_token = {r.body}] ELSE user,
                    Idle)
  /\ UNCHANGED <<disk, reset, History>>

(* create kp: the key package stays in the identity even if publishing it  *)
(* fails, which is only printed.  Bound: when it has one left to give out. *)
CreateKp(u) ==
  /\ Ready(u)
  /\ Len(GetKeyPackages(ds, u).body) <= 2
  /\ Draw(u, 1)
  /\ LET user == users[u]
         kp == KeyPackage(u, random[u], user.key)
     IN /\ Become(u, [user EXCEPT !.kp = @ \cup {kp}], Idle)
        /\ \/ /\ user.auth_token = {}
              /\ UNCHANGED <<ds, faults>>
           \/ \E token \in user.auth_token, fate \in Fates :
                /\ CountFailure(fate)
                /\ ds' = Answer(PublishKeyPackages(ds, u, token, <<kp>>), fate).ds
  /\ UNCHANGED <<disk, reset, History>>

(* create group: a second group of that name panics.                       *)
CreateGroup(u, g) ==
  /\ Ready(u)
  /\ u \in Creators
  /\ Draw(u, 1)
  /\ LET create == [op |-> "create", leaf |-> Leaf(u), n |-> random[u]]
         user == [users[u] EXCEPT !.groups = (g :> Group(<<create>>)) @@ @]
     IN IF g \in DOMAIN users[u].groups THEN Mistake(u)
        ELSE Become(u, user, Idle) /\ disk' = Autosave(u, user)
  /\ UNCHANGED <<ds, faults, reset, History>>

(* A commit and what is left to do once it is made: to send it, and for an *)
(* added client its Welcome.                                               *)
Committing(g, commit) == [cmd |-> "commit", gid |-> g, commit |-> commit]

CommitsLeft == Cardinality(accepted) < MaxCommits

(* invite, up to the commit.  The key package is consumed before the group *)
(* is looked up.  add_members refuses a signature key that is in the group *)
(* already.                                                                *)
Invite(u, v, g) ==
  /\ Ready(u)
  /\ CommitsLeft
  /\ \/ /\ v \notin users[u].contacts
        /\ Mistake(u)
        /\ UNCHANGED <<ds, faults, handed>>
     \/ /\ v \in users[u].contacts
        /\ \E fate \in Fates :
             LET sent == ConsumeKeyPackage(ds, v)
                 r == Answer(sent, fate)
                 new == [name |-> v, key |-> r.body.key]
                 Accepts == /\ g \in DOMAIN users[u].groups
                            /\ new \notin ToSet(Members(users[u].groups[g].hist))
             IN /\ CountFailure(fate)
                /\ ds' = r.ds
                /\ handed' = IF fate = "lost" \/ sent.status # "OK" THEN handed
                             ELSE Append(handed, sent.body)
                /\ IF r.status = "OK" /\ Accepts
                   THEN /\ Become(u, users[u],
                              Committing(g, [op |-> "add", leaf |-> new, kp |-> r.body,
                                             by |-> Leaf(u)]))
                        /\ UNCHANGED disk
                   ELSE Stop(u)
  /\ UNCHANGED <<random, reset, accepted, missed, unlisted>>

(* remove, up to the commit.  A member does not remove itself.             *)
RemoveMember(u, v, g) ==
  /\ Ready(u)
  /\ CommitsLeft
  /\ LET Found == IF g \in DOMAIN users[u].groups
                  THEN FindMember(users[u].groups[g].hist, v) ELSE {}
     IN IF Found = {} \/ v = u THEN Mistake(u)
        ELSE /\ \E i \in Found :
                  Become(u, users[u],
                    Committing(g, [op |-> "remove", index |-> i, by |-> Leaf(u)]))
             /\ UNCHANGED disk
  /\ UNCHANGED <<ds, random, faults, reset, History>>

(* The clients for which a request queued a message.                       *)
Served(after) == {id \in DOMAIN ds.clients : after.clients[id].msgs # ds.clients[id].msgs}

(* The commit goes to the members of the current epoch; only when the      *)
(* service took it is it merged.                                           *)
SendCommit(u) ==
  /\ step[u].cmd = "commit"
  /\ LET g == step[u].gid
         commit == step[u].commit
         hist == users[u].groups[g].hist
         msg == [type |-> "commit", gid |-> g, epoch |-> Epoch(hist),
                 hist |-> hist, commit |-> commit]
         merged == Append(hist, commit)
         user == [users[u] EXCEPT !.groups[g].hist = merged, !.groups[g].generation = 0]
         to == Recipients(u, hist)
     IN IF ~KnowsRecipients(u, hist)
        THEN Stop(u) /\ UNCHANGED <<ds, faults, accepted>>
        ELSE \E fate \in Fates :
               LET sent == MsgSend(ds, msg, to)
                   r == Answer(sent, fate)
               IN /\ CountFailure(fate)
                  /\ ds' = r.ds
                  /\ accepted' = IF fate = "lost" \/ sent.status = "CONFLICT" THEN accepted
                                 ELSE accepted \cup {[msg |-> msg, to |-> Served(sent.ds)]}
                  /\ IF r.status # "OK" THEN Stop(u)
                     ELSE IF commit.op = "add"
                     THEN /\ Become(u, user, [cmd |-> "welcome",
                               welcome |-> [type |-> "welcome", secrets |-> <<commit.kp>>,
                                            gid |-> g, hist |-> merged]])
                          /\ UNCHANGED disk
                     ELSE Become(u, user, Idle) /\ disk' = Autosave(u, user)
  /\ UNCHANGED <<random, reset, handed, missed, unlisted>>

(* The end of invite.                                                      *)
SendTheWelcome(u) ==
  /\ step[u].cmd = "welcome"
  /\ \E fate \in Fates :
       LET r == Answer(SendWelcome(ds, step[u].welcome), fate)
       IN /\ CountFailure(fate)
          /\ ds' = r.ds
          /\ IF r.status # "OK" THEN Stop(u)
             ELSE Become(u, users[u], Idle) /\ disk' = Autosave(u, users[u])
  /\ UNCHANGED <<random, reset, History>>

(* send: errors are only printed, but the sending key is used up.          *)
SendMsg(u, g) ==
  /\ Ready(u)
  /\ u \in Senders
  /\ g \in DOMAIN users[u].groups
  /\ users[u].groups[g].generation = 0 /\ Epoch(users[u].groups[g].hist) = MessageEpoch
  /\ LET group == users[u].groups[g]
         user == [users[u] EXCEPT !.groups[g].generation = @ + 1]
         msg == [type |-> "app", gid |-> g, epoch |-> Epoch(group.hist), hist |-> group.hist,
                 sender |-> Leaf(u), generation |-> group.generation]
     IN IF ~KnowsRecipients(u, group.hist)
        THEN Stop(u) /\ UNCHANGED <<ds, faults>>
        ELSE \E fate \in Fates :
               /\ CountFailure(fate)
               /\ ds' = Answer(MsgSend(ds, msg, Recipients(u, group.hist)), fate).ds
               /\ Become(u, user, Idle)
               /\ UNCHANGED disk
  /\ UNCHANGED <<random, reset, History>>

---------------------------------------------------------------------------
(* User::join_group: the key package must be ours.  Joining a group of a   *)
(* name we have replaces it and is an error, which ends update early.      *)
JoinGroup(user, welcome) ==
  LET Mine == {kp \in user.kp : \E i \in DOMAIN welcome.secrets : welcome.secrets[i] = kp}
  IN [user |-> [user EXCEPT !.kp = @ \ Mine,
                            !.groups = (welcome.gid :> Group(welcome.hist)) @@ @],
      ok   |-> Mine # {} /\ welcome.gid \notin DOMAIN user.groups]

(* User::process_protocol_message, for a group we have and a message its   *)
(* state can read: the same history, and an application message only once. *)
(* Anything else is dropped.  A commit that removes us drops the group.    *)
ProcessProtocolMessage(u, user, msg) ==
  IF msg.gid \notin DOMAIN user.groups \/ user.groups[msg.gid].hist # msg.hist THEN user
  ELSE IF msg.type = "app"
  THEN IF msg \in ToSet(user.groups[msg.gid].conversation) THEN user
       ELSE [user EXCEPT !.groups[msg.gid].conversation = Append(@, msg)]
  ELSE LET hist == Append(msg.hist, msg.commit)
           SelfRemoved == [name |-> u, key |-> user.key] \notin ToSet(Leaves(hist))
       IN IF SelfRemoved
          THEN [user EXCEPT !.groups = [g \in DOMAIN @ \ {msg.gid} |-> @[g]],
                            !.group_list = @ \ {msg.gid}]
          ELSE [user EXCEPT !.groups[msg.gid].hist = hist, !.groups[msg.gid].generation = 0]

(* The loop of User::update.                                               *)
ProcessAll(u, user, messages) ==
  FoldLeft(LAMBDA acc, msg :
             IF ~acc.ok THEN acc
             ELSE IF msg.type = "welcome" THEN JoinGroup(acc.user, msg)
             ELSE [acc EXCEPT !.user = ProcessProtocolMessage(u, @, msg)],
           [user |-> user, ok |-> TRUE], messages)

(* The commits in a batch that no group could take: the Welcome is yet to  *)
(* come.                                                                   *)
TooEarly(user, messages) ==
  {m \in ToSet(messages) :
     /\ m.type = "commit"
     /\ m.gid \notin DOMAIN user.groups
     /\ \A w \in ToSet(messages) : w.type = "welcome" => w.gid # m.gid}

(* An update that finds neither messages nor clients changes nothing and   *)
(* is left out.                                                            *)
FindsNews(u) ==
  u \in DOMAIN ds.clients
    => \/ Queued(ds.clients[u]) # <<>>
       \/ ~(DOMAIN ds.clients \subseteq users[u].contacts \cup {u})

(* update, first half: fetch the messages and process them.  A client      *)
(* without a token, a failed request and a failed join end the process.    *)
Update(u) ==
  /\ Ready(u)
  /\ FindsNews(u)
  /\ \/ /\ users[u].auth_token = {}
        /\ Stop(u)
        /\ UNCHANGED <<ds, faults, missed>>
     \/ \E token \in users[u].auth_token, fate \in Fates :
          LET sent == MsgRecv(ds, u, token)
              r == Answer(sent, fate)
              done == ProcessAll(u, users[u], r.body)
          IN /\ CountFailure(fate)
             /\ ds' = r.ds
             /\ missed' = [missed EXCEPT ![u] = @ \cup
                  IF fate = "unanswered" THEN {m \in ToSet(sent.body) : m.type = "commit"}
                  ELSE TooEarly(users[u], r.body)]
             /\ IF r.status = "OK" /\ done.ok
                THEN Become(u, done.user, [cmd |-> "list"]) /\ UNCHANGED disk
                ELSE Stop(u)
  /\ UNCHANGED <<random, reset, handed, accepted, unlisted>>

(* Variant: a client that is in a group does not read the list.            *)
(* User::update_clients: the clients the service lists become contacts.    *)
NewContacts(user, u, listed) == user.contacts \cup (listed \ {u})

(* update, second half: User::update_clients adds the clients the service  *)
(* lists to the contacts; a failed request is only logged.                 *)
UpdateClients(u) ==
  /\ step[u].cmd = "list"
  /\ \E fate \in Fates :
       LET r == Answer(ListClients(ds), fate)
           user == IF r.status # "OK" THEN users[u]
                   ELSE [users[u] EXCEPT !.contacts = NewContacts(users[u], u, r.body)]
       IN /\ CountFailure(fate)
          /\ ds' = r.ds
          /\ Become(u, user, Idle)
          /\ disk' = Autosave(u, user)
          /\ unlisted' = IF r.status = "OK" THEN unlisted ELSE unlisted \cup {u}
  /\ UNCHANGED <<random, reset, handed, accepted, missed>>

(* Bound: the first state saved is one with a group.                       *)
SavesLeft(u) == ~disk[u].running /\ faults < MaxFaults /\ DOMAIN users[u].groups # {}

Save(u) ==
  /\ Ready(u)
  /\ SavesLeft(u)
  /\ u \in Restarting
  /\ disk' = [disk EXCEPT ![u] = Loaded(users[u])]
  /\ UNCHANGED <<ds, users, step, random, faults, reset, History>>

EnableAutosave(u) ==
  /\ Ready(u)
  /\ SavesLeft(u)
  /\ u \in Restarting
  /\ users' = [users EXCEPT ![u].autosave = TRUE]
  /\ UNCHANGED <<ds, step, disk, random, faults, reset, History>>

Load(u) ==
  /\ ~users[u].running
  /\ disk[u].running
  /\ Fault
  /\ Become(u, disk[u], Idle)
  /\ UNCHANGED <<ds, disk, random, reset, History>>

(* reset: the server is emptied and this client forgotten.                 *)
Reset(u) ==
  /\ step[u] = Idle
  /\ Fault
  /\ reset' = TRUE
  /\ ds' = ResetServer.ds
  /\ users' = [users EXCEPT ![u] = NoClient]
  /\ UNCHANGED <<step, disk, random, History>>

(* The process ends between two requests.                                  *)
Quit(u) ==
  /\ users[u].running
  /\ faults < MaxFaults
  /\ u \in Restarting
  /\ Stop(u)
  /\ UNCHANGED <<ds, random, faults, reset, History>>

Next ==
  \E u \in Names :
    \/ Register(u) \/ CreateKp(u) \/ SendCommit(u) \/ SendTheWelcome(u)
    \/ Update(u) \/ UpdateClients(u) \/ Save(u) \/ EnableAutosave(u) \/ Load(u)
    \/ Reset(u) \/ Quit(u)
    \/ \E g \in GroupNames : CreateGroup(u, g) \/ SendMsg(u, g)
    \/ \E v \in Names, g \in GroupNames : Invite(u, v, g) \/ RemoveMember(u, v, g)

Spec == Init /\ [][Next]_vars

---------------------------------------------------------------------------
(* A key package is given out at most once: no two invitations get the     *)
(* same one, whatever is published, lost or reset in between, and none     *)
(* that was given out is offered again (ClientInfo::consume_kp).           *)
KeyPackagesAreUsedOnce ==
  /\ \A i, j \in DOMAIN handed : handed[i] = handed[j] => i = j
  /\ \A id \in DOMAIN ds.clients :
       ToSet(GetKeyPackages(ds, id).body) \cap ToSet(handed) = {}

(* A client that has fetched everything queued for it follows the group:   *)
(* no commit that was queued for it continues the state it is in, unless   *)
(* that commit was lost on the way or fetched before the Welcome was sent. *)
(* Colliding commits, removals, other clients' crashes and the order of    *)
(* Welcomes and messages in User::update do not make it fall behind.       *)
MembersFollow ==
  \A u \in Names :
    /\ Ready(u)
    /\ u \in DOMAIN ds.clients
    /\ users[u].auth_token = {ds.clients[u].auth_token}
    /\ Queued(ds.clients[u]) = <<>>
    => \A a \in accepted, g \in DOMAIN users[u].groups :
         a.msg.gid = g /\ a.msg.hist = users[u].groups[g].hist /\ u \in a.to
           => a.msg \in missed[u]

(* User::recipients never meets "a member in the group we don't know" as   *)
(* long as the server is not reset and the client's list requests succeed: *)
(* whoever joins a group is a contact of each member that has learned of   *)
(* it, once its update is over.                                            *)
MembersAreKnown ==
  \A u \in Names :
    Ready(u) /\ ~reset /\ u \notin unlisted
      => \A g \in DOMAIN users[u].groups : KnowsRecipients(u, users[u].groups[g].hist)

(* Members keep up with the group and with each other.                     *)
MembersKeepUp == MembersFollow /\ MembersAreKnown

(* What the documentation of msg_send says: a handshake message of an      *)
(* epoch smaller than or equal to one the service has seen is refused.     *)
OneCommitPerEpoch ==
  \A a, b \in accepted :
    a.msg.gid = b.msg.gid /\ a.msg.epoch = b.msg.epoch => a = b \/ reset
===========================================================================
