------------------------------ MODULE MlsGroup ------------------------------
(***************************************************************************)
(* The life of one group at all of its clients: proposals, commits that    *)
(* compete for an epoch, staging, merging and clearing, removal, joining   *)
(* by Welcome, deletion and restart.                                       *)
(*                                                                         *)
(* Every client has an MlsGroup in memory and its image in storage; every  *)
(* operation changes the fields it assigns and writes the fields it        *)
(* writes.  Storage operations do not fail here, and an operation is one   *)
(* step: a restart happens between operations (applications run them in a  *)
(* storage transaction).                                                   *)
(*                                                                         *)
(* The delivery service and the application are external.  The delivery    *)
(* service accepts the first commit it gets for an epoch; an application   *)
(* merges its own commit only after that.  Messages are public, and may be *)
(* late or never arrive.                                                   *)
(*                                                                         *)
(* A client is its leaf index.  The transcript is the sequence of commits  *)
(* that led to an epoch and stands for the confirmed transcript hash, its  *)
(* length is the epoch.  A leaf key is named by the proposal or commit     *)
(* that installed the leaf; parent nodes are left out.                     *)
(***************************************************************************)
EXTENDS ProposalQueue, Integers

CONSTANTS
  Clients,         \* all clients
  InitialMembers,  \* the creator and those it added in its first commit
  Key,             \* the signature keys of the clients
  Kinds,           \* the <<type, target>> pairs of proposals that are made
  Joining,         \* "fresh": only without a stored group; "replace": replace_old_group
  MaxProposals,    \* bound: proposals sent
  MaxCommits       \* bound: commits built

ASSUME ClientsAssumption == Clients \subseteq Nat /\ InitialMembers \subseteq Clients

\* Signature keys are unique; a proposal is about a client.
ASSUME KeyAssumption ==
  \A c, d \in Clients : Key[c] # NoKey /\ (Key[c] = Key[d] => c = d)

ASSUME KindsAssumption == \A k \in Kinds : k[2] \in Clients

ASSUME BoundsAssumption == MaxProposals \in Nat /\ MaxCommits \in Nat

VARIABLES
  mem,             \* the MlsGroup values in memory
  disk,            \* the same fields in storage
  keystore,        \* private keys in storage
  app,             \* the StagedCommit an application has not merged yet
  proposals,       \* proposals sent
  commits,         \* commits sent
  log              \* the commits the delivery service accepted, in order

vars == <<mem, disk, keystore, app, proposals, commits, log>>

\* The hashes that name the n-th proposal, commit, and proposal inside a commit;
\* they do not collide.
ProposalId(n) == 3 * n + 1

CommitId(n) == 3 * n

InlineId(n) == 3 * n + 2

NoCommit == [id |-> 0]

NoGroup ==
  [state |-> "None", pending |-> NoCommit, transcript |-> <<>>, tree |-> <<>>,
   proposals |-> <<>>, own_leaf_nodes |-> {}]

FirstTree == [c \in InitialMembers |-> [key |-> Key[c], leaf |-> -1 - c]]

FirstGroup == [NoGroup EXCEPT !.state = "Operational", !.transcript = <<0>>, !.tree = FirstTree]

Init ==
  /\ mem = [c \in Clients |-> IF c \in InitialMembers THEN FirstGroup ELSE NoGroup]
  /\ disk = mem
  /\ keystore = [c \in Clients |->
                   [epoch_keypairs |-> IF c \in InitialMembers THEN {<<1, -1 - c>>} ELSE {},
                    leaf_keypairs |-> {}, used_key_packages |-> {}]]
  /\ app = [c \in Clients |-> NoCommit]
  /\ proposals = {} /\ commits = {} /\ log = <<>>

Epoch(c) == Len(mem[c].transcript)

IsActive(c) == mem[c].state \in {"Operational", "PendingCommit"}

\* The private keys a client can use in its current epoch.
EpochKeys(c) == {k[2] : k \in {k \in keystore[c].epoch_keypairs : k[1] = Epoch(c)}}

-----------------------------------------------------------------------------
(* Proposals.                                                              *)

Subject(type, target) ==
  IF type = "Remove" THEN target ELSE Key[target]

\* propose_*: only in the Operational state; the own proposal is queued.
Propose(c, type, target) ==
  LET id == ProposalId(Cardinality(proposals) + 1)
      p == [id |-> id, type |-> type, sender |-> c, subject |-> Subject(type, target),
            target |-> target, byRef |-> TRUE, context |-> mem[c].transcript]
      leaf == IF type = "Update" THEN {id} ELSE {}
  IN /\ mem[c].state = "Operational"
     /\ type = "Update" => target = c
     /\ type = "Remove" => target \in DOMAIN mem[c].tree
     /\ Cardinality(proposals) < MaxProposals
     /\ proposals' = proposals \cup {p}
     /\ mem' = [mem EXCEPT ![c].proposals = Append(@, p), ![c].own_leaf_nodes = @ \cup leaf]
     /\ disk' = [disk EXCEPT ![c].proposals = Append(@, p), ![c].own_leaf_nodes = @ \cup leaf]
     /\ keystore' = [keystore EXCEPT ![c].leaf_keypairs = @ \cup leaf]
     /\ UNCHANGED <<app, commits, log>>

\* process_message and store_pending_proposal.  A proposal that is still queued
\* is not delivered again (CommitCreation has the duplicates).
ReceiveProposal(c, p) ==
  /\ IsActive(c)
  /\ p.context = mem[c].transcript
  /\ p \notin Range(mem[c].proposals)
  /\ mem' = [mem EXCEPT ![c].proposals = Append(@, p)]
  /\ disk' = [disk EXCEPT ![c].proposals = Append(@, p)]
  /\ UNCHANGED <<keystore, app, proposals, commits, log>>

ClearPendingProposals(c) ==
  /\ mem[c].proposals # <<>>
  /\ mem' = [mem EXCEPT ![c].proposals = <<>>]
  /\ disk' = [disk EXCEPT ![c].proposals = <<>>]
  /\ UNCHANGED <<keystore, app, proposals, commits, log>>

-----------------------------------------------------------------------------
(* Commits.                                                                *)

\* The leaves after apply_proposals and, with a path, the committer's new leaf.
NewTree(queue, tree, committer, path, id) ==
  LET adds == {queue[i] : i \in OfType(queue, "Add")}
      updates == {queue[i] : i \in OfType(queue, "Update")}
      leafOf(m) == {p.id : p \in {p \in adds \cup updates : p.target = m}}
      added == {p.target : p \in adds}
      applied == [m \in (DOMAIN tree \ RemovedMembers(queue)) \cup added |->
                    IF leafOf(m) = {} THEN tree[m]
                    ELSE [key |-> Key[m], leaf |-> CHOOSE k \in leafOf(m) : TRUE]]
  IN IF path THEN [applied EXCEPT ![committer] = [key |-> Key[committer], leaf |-> id]]
     ELSE applied

\* The builder's inline proposals: none, or one of any kind that is made.
Inline(c, id) ==
  {<<>>} \cup
  {<<[id |-> id, type |-> k[1], sender |-> c, subject |-> Subject(k[1], k[2]), target |-> k[2],
      byRef |-> FALSE, context |-> mem[c].transcript]>> : k \in {k \in Kinds : k[1] # "Update"}}

\* build_internal does not look at the group's state, it needs the own leaf.  An
\* application does not commit in a group that is inactive.
CanBuild(c) == c \in DOMAIN mem[c].tree /\ IsActive(c)

\* stage_commit's write_group_state.
WritePendingCommit(d, c, staged) ==
  [d EXCEPT ![c].state = "PendingCommit", ![c].pending = staged]

\* The StagedCommit of an own commit, with the private key of its path.
OwnStaged(m) ==
  [id |-> m.id, kind |-> "GroupMember", transcript |-> Append(m.context, m.id), tree |-> m.tree,
   new_keypairs |-> IF m.path THEN {m.id} ELSE {}, new_leaf_keypair |-> {},
   reinit |-> OfType(m.queue, "ReInit") # {}]

\* The commit builder with the proposal store consumed: load_psks, build and
\* stage_commit.  A pending commit is replaced.
CreateCommit(c, force_self_update) ==
  LET n == Cardinality(commits) + 1
      tree == mem[c].tree
  IN /\ CanBuild(c)
     /\ Cardinality(commits) < MaxCommits
     /\ \E own \in Inline(c, InlineId(n)) :
        \E queue \in FilterProposals(mem[c].proposals \o own, c) :
          LET path == \/ PathRequired(queue)
                      \/ ContainsOwnUpdates(mem[c].proposals \o own, c)
                      \/ force_self_update
              m == [id |-> CommitId(n), sender |-> c, context |-> mem[c].transcript, path |-> path,
                    queue |-> queue, tree |-> NewTree(queue, tree, c, path, CommitId(n))]
          IN /\ BuilderChecks(queue, tree, c, NoKey) = "Ok"
             /\ commits' = commits \cup {m}
             /\ mem' = WritePendingCommit(mem, c, OwnStaged(m))
             /\ disk' = WritePendingCommit(disk, c, OwnStaged(m))
  /\ UNCHANGED <<keystore, app, proposals, log>>

MutantClearDropsOwnLeaves(c) ==
  LET cleared(g) == [g EXCEPT !.state = "Operational", !.pending = NoCommit, !.own_leaf_nodes = {}]
  IN /\ mem[c].state = "PendingCommit"
     /\ mem' = [mem EXCEPT ![c] = cleared(@)]
     /\ disk' = [disk EXCEPT ![c] = cleared(@)]
     /\ UNCHANGED <<keystore, app, proposals, commits, log>>

ClearPendingCommit(c) ==
  /\ mem[c].state = "PendingCommit"
  /\ mem' = [mem EXCEPT ![c].state = "Operational", ![c].pending = NoCommit]
  /\ disk' = [disk EXCEPT ![c].state = "Operational", ![c].pending = NoCommit]
  /\ UNCHANGED <<keystore, app, proposals, commits, log>>

\* What a commit says of its proposals, and the clients and key packages it adds.
SentList(m) == CommitList(m.queue)

Added(m) == {<<m.queue[i].target, m.queue[i].id>> : i \in OfType(m.queue, "Add")}

\* The delivery service (external): the first commit for an epoch wins.
Accept(m) ==
  /\ Len(m.context) = Len(log) + 1
  /\ log' = Append(log, m)
  /\ UNCHANGED <<mem, disk, keystore, app, proposals, commits>>

\* The commit the delivery service has for the client's epoch.
Pending(c) == {m \in Range(log) : m.context = mem[c].transcript}

IsOwnPendingCommit(c, m) == m.sender = c /\ mem[c].pending.id = m.id

\* The StagedCommit for the rebuilt queue, none if a check fails.
StagedWith(c, m, queue) ==
  LET tree == mem[c].tree
      leafKeys == keystore[c].leaf_keypairs \cap mem[c].own_leaf_nodes
      pathKey == IF m.path THEN Key[m.sender] ELSE NoKey
      newTree == NewTree(queue, tree, m.sender, m.path, m.id)
      ok == /\ ~(m.sender = c /\ m.path)
            /\ ValidateCommit(queue, tree, m.sender, pathKey) = "Ok"
      staged == [id |-> m.id, kind |-> "GroupMember", transcript |-> Append(mem[c].transcript, m.id),
                 tree |-> newTree, new_keypairs |-> {}, reinit |-> OfType(queue, "ReInit") # {},
                 new_leaf_keypair |-> {}]
  IN IF ~ok THEN {}
     ELSE IF c \in RemovedMembers(queue) THEN {[staged EXCEPT !.kind = "PublicState"]}
     ELSE IF newTree # m.tree THEN {}
     ELSE IF ~m.path THEN {staged}
     ELSE IF newTree[c].leaf \notin EpochKeys(c) \cup leafKeys THEN {}
     ELSE {[staged EXCEPT !.new_leaf_keypair = leafKeys \cap {newTree[c].leaf}]}

\* stage_commit for a received commit, with the keys read_decryption_keypairs
\* finds.  Each failing check leaves the group as it is.
StagedFrom(c, m) ==
  LET store == mem[c].proposals
  IN IF CommittedProposalsError(SentList(m), store, m.sender) # "Ok" THEN {}
     ELSE UNION {StagedWith(c, m, queue) : queue \in {FromCommittedProposals(SentList(m), store)}}

MutantProcessOnlyOperational(c) ==
  /\ mem[c].state = "Operational"
  /\ app[c] = NoCommit
  /\ \E s \in UNION {StagedFrom(c, m) : m \in Pending(c)} :
       app' = [app EXCEPT ![c] = s]
  /\ UNCHANGED <<mem, disk, keystore, proposals, commits, log>>

\* process_message for a commit; the application keeps the StagedCommit.
ProcessCommit(c) ==
  /\ IsActive(c)
  /\ app[c] = NoCommit
  /\ \E m \in Pending(c) :
       /\ ~IsOwnPendingCommit(c, m)
       /\ \E s \in StagedFrom(c, m) : app' = [app EXCEPT ![c] = s]
  /\ UNCHANGED <<mem, disk, keystore, proposals, commits, log>>

-----------------------------------------------------------------------------
(* Merging.                                                                *)

MutantPendingSurvives(g, s) ==
  [g EXCEPT
     !.state = IF s.kind = "PublicState" \/ s.reinit THEN "Inactive"
               ELSE IF s.id # g.pending.id THEN @ ELSE "Operational",
     !.pending = IF s.id # @.id THEN @ ELSE NoCommit, !.own_leaf_nodes = {},
     !.transcript = s.transcript, !.tree = s.tree,
     !.proposals = IF s.kind = "PublicState" THEN @ ELSE <<>>]

\* What merge_staged_commit and merge_commit assign and write; memory and
\* storage get the same fields.  After a self-removal the proposals stay.
Merged(g, s) ==
  [g EXCEPT
     !.state = IF s.kind = "PublicState" \/ s.reinit THEN "Inactive" ELSE "Operational",
     !.pending = NoCommit, !.own_leaf_nodes = {},
     !.transcript = s.transcript, !.tree = s.tree,
     !.proposals = IF s.kind = "PublicState" THEN @ ELSE <<>>]

\* The private keys merge_commit can choose from for the new epoch.
AvailableKeys(c, s) == EpochKeys(c) \cup s.new_keypairs \cup s.new_leaf_keypair

MutantOldEpochKeysStay(c, s) ==
  LET owned == AvailableKeys(c, s) \cap {s.tree[c].leaf}
  IN [keystore[c] EXCEPT
        !.epoch_keypairs = @ \cup {<<Len(s.transcript), k>> : k \in owned}]

MutantLeafKeyIsForgotten(c, s) ==
  LET owned == (EpochKeys(c) \cup s.new_keypairs) \cap {s.tree[c].leaf}
  IN [keystore[c] EXCEPT
        !.epoch_keypairs = {k \in @ : k[1] # Len(s.transcript) - 1}
                             \cup {<<Len(s.transcript), k>> : k \in owned},
        !.leaf_keypairs = @ \ s.new_leaf_keypair]

\* store_epoch_keypairs, delete_previous_epoch_keypairs and the leaf's deletion.
MergedKeys(c, s) ==
  LET owned == AvailableKeys(c, s) \cap {s.tree[c].leaf}
  IN [keystore[c] EXCEPT
        !.epoch_keypairs = {k \in @ : k[1] # Len(s.transcript) - 1}
                             \cup {<<Len(s.transcript), k>> : k \in owned},
        !.leaf_keypairs = @ \ s.new_leaf_keypair]

\* merge_commit fails when a private key of the own leaf is missing.
Merge(c, s) ==
  /\ s.kind = "GroupMember" => s.tree[c].leaf \in AvailableKeys(c, s)
  /\ mem' = [mem EXCEPT ![c] = Merged(@, s)]
  /\ disk' = [disk EXCEPT ![c] = Merged(@, s)]
  /\ keystore' = [keystore EXCEPT ![c] = IF s.kind = "PublicState" THEN @ ELSE MergedKeys(c, s)]
  /\ app' = [app EXCEPT ![c] = NoCommit]
  /\ UNCHANGED <<proposals, commits, log>>

MergeStagedCommit(c) == app[c] # NoCommit /\ Merge(c, app[c])

MutantMergesUnaccepted(c) ==
  /\ mem[c].state = "PendingCommit"
  /\ Merge(c, mem[c].pending)

\* merge_pending_commit, called once the delivery service echoes the commit.
MergePendingCommit(c) ==
  /\ mem[c].state = "PendingCommit"
  /\ \E m \in Pending(c) : IsOwnPendingCommit(c, m)
  /\ Merge(c, mem[c].pending)

-----------------------------------------------------------------------------
(* Joining, deletion, restart.                                             *)

\* new_from_welcome, into_staged_welcome and into_group.  The key package is
\* consumed before it is checked that no group is stored under the group id;
\* "store" writes neither the proposal queue nor the own leaf nodes.
JoinFromWelcome(c, m) ==
  /\ \E add \in Added(m) :
       /\ add[1] = c /\ add[2] \notin keystore[c].used_key_packages
       /\ LET group == [NoGroup EXCEPT !.state = "Operational", !.tree = m.tree,
                                       !.transcript = Append(m.context, m.id)]
              used == [keystore[c] EXCEPT !.used_key_packages = @ \cup {add[2]}]
          IN IF Joining = "fresh" /\ disk[c].state # "None"
             THEN /\ keystore' = [keystore EXCEPT ![c] = used]
                  /\ UNCHANGED <<mem, disk, app>>
             ELSE /\ keystore' = [keystore EXCEPT ![c] = [used EXCEPT
                         !.epoch_keypairs = @ \cup {<<Len(m.context) + 1, add[2]>>}]]
                  /\ mem' = [mem EXCEPT ![c] = group]
                  /\ disk' = [disk EXCEPT ![c] =
                                [group EXCEPT !.proposals = disk[c].proposals,
                                              !.own_leaf_nodes = disk[c].own_leaf_nodes]]
                  /\ app' = [app EXCEPT ![c] = NoCommit]
  /\ UNCHANGED <<proposals, commits, log>>

\* An application deletes a group that it was removed from.
Delete(c) ==
  /\ mem[c].state = "Inactive"
  /\ mem' = [mem EXCEPT ![c] = NoGroup]
  /\ disk' = [disk EXCEPT ![c] = NoGroup]
  /\ keystore' = [keystore EXCEPT ![c].epoch_keypairs = {k \in @ : k[1] # Epoch(c)}]
  /\ UNCHANGED <<app, proposals, commits, log>>

\* A restart: load reads what is stored; what only the application held is lost.
Load(c) ==
  /\ mem[c] # disk[c] \/ app[c] # NoCommit
  /\ mem' = [mem EXCEPT ![c] = disk[c]]
  /\ app' = [app EXCEPT ![c] = NoCommit]
  /\ UNCHANGED <<disk, keystore, proposals, commits, log>>

Next ==
  \/ \E c \in Clients :
       \/ \E k \in Kinds : Propose(c, k[1], k[2])
       \/ \E p \in proposals : ReceiveProposal(c, p)
       \/ \E force \in BOOLEAN : CreateCommit(c, force)
       \/ ClearPendingProposals(c)
       \/ ClearPendingCommit(c)
       \/ ProcessCommit(c)
       \/ MergeStagedCommit(c)
       \/ MergePendingCommit(c)
       \/ \E m \in Range(log) : JoinFromWelcome(c, m)
       \/ Delete(c)
       \/ Load(c)
  \/ \E m \in commits : Accept(m)

Spec == Init /\ [][Next]_vars

\* Members stay connected and keep merging what they staged; a client that
\* restarts comes back.  Clearing the proposals is the application's last
\* resort, so nobody does it forever.
FairSpec ==
  /\ Spec
  /\ \A c \in Clients :
       /\ \A p \in 1..MaxProposals :
            SF_vars(\E q \in proposals : q.id = ProposalId(p) /\ ReceiveProposal(c, q))
       /\ SF_vars(ProcessCommit(c))
       /\ SF_vars(MergeStagedCommit(c))
       /\ SF_vars(MergePendingCommit(c))
       /\ <>[][~ClearPendingProposals(c)]_vars

-----------------------------------------------------------------------------

\* The state of every client, in memory and as stored, has the type of the
\* fields of MlsGroup; the delivery service orders one commit per epoch.
TypeOK ==
  /\ \A c \in Clients : \A g \in {mem[c], disk[c]} :
       /\ g.state \in {"None", "Operational", "PendingCommit", "Inactive"}
       /\ g.state = "PendingCommit" <=> g.pending # NoCommit
       /\ Range(g.proposals) \subseteq proposals
       /\ DOMAIN g.tree \subseteq Clients
       /\ g.own_leaf_nodes \subseteq {ProposalId(n) : n \in 1..MaxProposals}
       /\ g.state = "None" => g = NoGroup
  /\ \A c \in Clients : keystore[c].leaf_keypairs \subseteq {ProposalId(n) : n \in 1..MaxProposals}
  /\ Cardinality(proposals) <= MaxProposals /\ Cardinality(commits) <= MaxCommits
  /\ Range(log) \subseteq commits

\* The tree of the epoch a transcript leads to, according to the delivery service.
TreeAt(n) == IF n = 1 THEN FirstTree ELSE log[n - 1].tree

\* The transcript of epoch n, according to the delivery service.
TranscriptAt(n) == [i \in 1..n |-> IF i = 1 THEN 0 ELSE log[i - 1].id]

\* Whoever built the commits, however they raced, and whatever was cleared,
\* lost or reloaded: a client in epoch n has followed the accepted commits up
\* to n and has the same leaves as everybody else there.
LockStep ==
  \A c \in Clients : mem[c].state # "None" =>
    LET n == Epoch(c)
    IN /\ n \in 1..(Len(log) + 1)
       /\ mem[c].transcript = TranscriptAt(n)
       /\ mem[c].tree = TreeAt(n)

\* The StagedCommits a client holds, as pending commit or at the application.
StagedAt(c) == {s \in {mem[c].pending, app[c]} : s # NoCommit}

\* Merging has no check of the epoch: a staged commit that is still held, or
\* that comes back from storage, must belong to the client's current epoch.
StagedCommitsAreCurrent ==
  \A c \in Clients : \A s \in StagedAt(c) :
    s.transcript = Append(mem[c].transcript, s.id)

\* An active client's proposal queue, in memory and in storage, holds proposals
\* of its current epoch only: every other one would make its next commit
\* unprocessable for the other members.
QueuedProposalsAreCurrent ==
  \A c \in Clients : IsActive(c) =>
    \A p \in Range(mem[c].proposals \o disk[c].proposals) : p.context = mem[c].transcript

\* A restart between any two operations loses nothing but what only the
\* application held.
RestartLosesNothing == mem = disk

\* Nothing a client holds is stale: neither its staged commits nor its queue,
\* nor the copy of the group that it would load after a restart.
NothingHeldIsStale ==
  StagedCommitsAreCurrent /\ QueuedProposalsAreCurrent /\ RestartLosesNothing

\* "We should have all the private key material we need": merge_commit never
\* fails, also when an Update of the client is committed by another member,
\* after a restart, and after pending commits that were replaced or cleared.
KeyMaterialIsComplete ==
  \A c \in Clients :
    /\ IsActive(c) => mem[c].tree[c].leaf \in EpochKeys(c)
    /\ \A s \in StagedAt(c) : s.kind = "GroupMember" => s.tree[c].leaf \in AvailableKeys(c, s)

\* A private key of an earlier epoch is kept only by a client that was removed
\* in that epoch: every other merge deletes the previous epoch's keys.
OldKeysAreDeleted ==
  \A c \in Clients : \A k \in keystore[c].epoch_keypairs :
    k[1] # Epoch(c) =>
      /\ k[1] <= Len(log)
      /\ c \in DOMAIN TreeAt(k[1] + 1) => \E add \in Added(log[k[1]]) : add[1] = c

\* The keys of the current epoch, all of them and no others.
KeysFollowTheEpoch == KeyMaterialIsComplete /\ OldKeysAreDeleted

\* The own commit with a path was accepted after the client had dropped it.
LostOwnCommit(c, m) == m.sender = c /\ m.path /\ ~IsOwnPendingCommit(c, m)

\* A commit the delivery service accepted can be processed by every member of
\* its epoch that has the referenced proposals, whatever the member itself has
\* proposed, committed, cleared or reloaded meanwhile.  The exception is the
\* documented one: the client's own commit that it cleared.
AcceptedCommitsAreProcessable ==
  \A c \in Clients : IsActive(c) =>
    \A m \in Pending(c) :
      \/ IsOwnPendingCommit(c, m)
      \/ LostOwnCommit(c, m)
      \/ \E e \in Range(SentList(m)) : ~IsKnown(e, mem[c].proposals)
      \/ StagedFrom(c, m) # {}

\* The group of GroupHistory: the accepted commits, and what each client followed.
History ==
  INSTANCE GroupHistory WITH
    Ids <- {CommitId(n) : n \in 1..MaxCommits},
    history <- TranscriptAt(Len(log) + 1),
    members <- [i \in 1..(Len(log) + 1) |-> DOMAIN TreeAt(i)],
    view <- [c \in Clients |-> mem[c].transcript]

\* The clients with all their racing, cleared, replaced and reloaded commits
\* implement one history that every member follows commit by commit.
ImplementsHistory == History!Spec

\* A member that is behind catches up, one accepted commit after the other,
\* although it may restart before merging and may clear its own commits.
MembersCatchUp ==
  \A c \in Clients : \A n \in 1..MaxCommits :
    (IsActive(c) /\ Epoch(c) = n /\ Len(log) >= n)
      ~> (Epoch(c) # n \/ \E m \in Pending(c) : LostOwnCommit(c, m))

-----------------------------------------------------------------------------
(* What the documentation says and the code does not do.                   *)

\* "In this state, it can perform the same operations as in the Operational,
\* except that it cannot create proposals or commits."
PendingCommitIsNotReplaced ==
  [][\A c \in Clients : mem[c].state = "PendingCommit" /\ mem'[c].state = "PendingCommit" =>
       mem'[c].pending = mem[c].pending]_vars
=============================================================================
