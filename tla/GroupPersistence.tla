--------------------------- MODULE GroupPersistence ----------------------------
(***************************************************************************)
(* How MlsGroup uses its storage: the calls each operation makes, in the   *)
(* order it makes them, on the contract and on the three providers at      *)
(* once.                                                                   *)
(*                                                                         *)
(* The application either opens a transaction around each operation (tx)   *)
(* or not.  Any call may fail; the operation then returns the error.  In a *)
(* transaction the earlier calls are undone and the application loads the  *)
(* group again, as merge_commit's comment demands.  Without one they stay, *)
(* and the group is torn: this module looks at what of it still loads, not *)
(* at what the application might do with it.                               *)
(*                                                                         *)
(* A value stored for a group is the epoch it belongs to, except the leaf  *)
(* index, the state and the configuration.                                 *)
(***************************************************************************)
EXTENDS MemoryStorage, SqlStorage, SequencesExt, FiniteSets

CONSTANTS Groups, Refs, Leaves,
    Bystander,          \* a group of the same client that no operation is about
    StartEpochs,        \* the epochs in which a Welcome lets a group be joined
    MaxMerges,          \* how often a group may change its epoch
    MaxOwnLeafNodes,    \* pending own updates in one epoch
    MaxProposals,       \* queued proposals of a group
    QueueOnce           \* TRUE: the application never stores a proposal twice

VARIABLES
    group,              \* the MlsGroup values in memory, by group id
    contract, memory, sqlite, sqlx,
    tx,                 \* does the application open transactions
    torn,               \* group id -> the operation interrupted and its calls made
    deleted,            \* groups whose delete returned Ok
    left                \* how many more epochs a group may advance (a bound)

stores == <<contract, memory, sqlite, sqlx>>
vars == <<group, contract, memory, sqlite, sqlx, tx, torn, deleted, left>>

StampedKinds == GroupKinds \ {"own_index", "state", "config"}

--------------------------------------------------------------------------------
(* PublicGroup::load needs the four public values, MlsGroup::load all the  *)
(* others; the export tree is optional.                                    *)
PublicLoads(st, g) == \A kind \in PublicKinds : HasGroupData(st, g, kind)

Loads(st, g) ==
    /\ PublicLoads(st, g)
    /\ \A kind \in MemberKinds \cup {"config"} : HasGroupData(st, g, kind)

Load(st, g) ==
    [epoch |-> GroupData(st, g, "context"), leaf |-> GroupData(st, g, "own_index"),
     state |-> GroupData(st, g, "state"), config |-> GroupData(st, g, "config"),
     ownLeafNodes |-> OwnLeafNodes(st, g), proposals |-> QueuedProposals(st, g)]

--------------------------------------------------------------------------------
(* The calls of the operations.                                            *)

PublicStore(g, e) ==
    <<WriteCall(g, "tree", e), WriteCall(g, "tag", e),
      WriteCall(g, "context", e), WriteCall(g, "hash", e)>>

PublicDelete(g) ==
    <<DeleteCall(g, "tree"), DeleteCall(g, "tag"),
      DeleteCall(g, "context"), DeleteCall(g, "hash")>>

(* MlsGroup::store of a group whose secrets are those of epoch s (the last *)
(* epoch it was a member of).                                              *)
StoreGroup(g, m, s) ==
    PublicStore(g, m.epoch) \o
    <<WriteCall(g, "epoch_secrets", s), WriteCall(g, "own_index", m.leaf),
      WriteCall(g, "message_secrets", s), WriteCall(g, "psk_store", s),
      WriteCall(g, "config", m.config), WriteCall(g, "state", m.state),
      WriteCall(g, "export_tree", s)>>

StoreEpochKeypairs(g, m) == <<WriteEpochCall(g, m.epoch, m.leaf, <<m.epoch>>)>>

MutantDeletePreviousEpochKeypairs(g, m, leaf) == <<DeleteEpochCall(g, m.epoch - 1, m.leaf)>>

(* The previous epoch's pairs are filed under the leaf the member had then.*)
DeletePreviousEpochKeypairs(g, m, leaf) == <<DeleteEpochCall(g, m.epoch - 1, leaf)>>

(* merge_commit of a commit that leaves us a member: the export tree first,*)
(* then the group, its secrets and its keys, then the key pair of our own  *)
(* update if the commit applied one, then the proposals go.                *)
MergeMember(g, m, oldLeaf, applied) ==
    <<WriteCall(g, "export_tree", m.epoch)>>
    \o PublicStore(g, m.epoch)
    \o <<WriteCall(g, "own_index", m.leaf), WriteCall(g, "epoch_secrets", m.epoch),
         WriteCall(g, "message_secrets", m.epoch)>>
    \o StoreEpochKeypairs(g, m)
    \o DeletePreviousEpochKeypairs(g, m, oldLeaf)
    \o [i \in 1..Len(applied) |-> DeleteKeyCall("encryption_key_pair", applied[i])]
    \o <<ClearCall(g)>>

(* merge_staged_commit: the state is written before the merge, and again  *)
(* after it where a pending commit is cleared or a ReInit suspends the     *)
(* group.                                                                  *)
MergeStagedCommit(g, entry, kind, m, merge) ==
    <<WriteCall(g, "state", IF kind = "removed" THEN "inactive" ELSE entry)>>
    \o merge
    \o <<WriteCall(g, "psk_store", m.epoch), DeleteLeavesCall(g)>>
    \o (IF entry = "pending" /\ kind # "removed"
        THEN <<WriteCall(g, "state", "operational")>> ELSE << >>)
    \o (IF kind = "reinit" THEN <<WriteCall(g, "state", "inactive")>> ELSE << >>)

MutantDeleteGroup(g, m) ==
    <<DeleteEpochCall(g, m.epoch, m.leaf)>> \o PublicDelete(g) \o
    <<DeleteCall(g, "own_index"), DeleteCall(g, "epoch_secrets"),
      DeleteCall(g, "message_secrets"), DeleteCall(g, "psk_store"),
      DeleteCall(g, "config"), DeleteLeavesCall(g), DeleteCall(g, "state"),
      ClearCall(g), DeleteCall(g, "export_tree")>>

(* MlsGroup::delete                                                        *)
DeleteGroup(g, m) ==
    PublicDelete(g) \o
    <<DeleteCall(g, "own_index"), DeleteCall(g, "epoch_secrets"),
      DeleteCall(g, "message_secrets"), DeleteCall(g, "psk_store"),
      DeleteCall(g, "config"), DeleteLeavesCall(g), DeleteCall(g, "state"),
      ClearCall(g), DeleteCall(g, "export_tree"),
      DeleteEpochCall(g, m.epoch, m.leaf)>>

--------------------------------------------------------------------------------
(* One operation: all its calls succeed, or one of them returns an error.  *)

Run(g, op, calls, after) ==
    \/ /\ contract' = FoldLeft(Call, contract, calls)
       /\ memory' = FoldLeft(MemCall, memory, calls)
       /\ sqlite' = FoldLeft(SqliteCall, sqlite, calls)
       /\ sqlx' = FoldLeft(SqlxCall, sqlx, calls)
       /\ group' = after
       /\ deleted' = IF op = "delete" THEN deleted \cup {g} ELSE deleted
       /\ UNCHANGED torn
    \/ /\ tx
       /\ group' = IF g \in DOMAIN group THEN Put(group, g, Load(contract, g)) ELSE group
       /\ UNCHANGED <<stores, torn, deleted>>
    \/ /\ ~tx
       /\ \E k \in 0..(Len(calls) - 1) :
             LET made == SubSeq(calls, 1, k)
             IN  /\ contract' = FoldLeft(Call, contract, made)
                 /\ memory' = FoldLeft(MemCall, memory, made)
                 /\ sqlite' = FoldLeft(SqliteCall, sqlite, made)
                 /\ sqlx' = FoldLeft(SqlxCall, sqlx, made)
                 /\ torn' = Put(torn, g, [op |-> op, made |-> k])
       /\ group' = Drop(group, g)
       /\ UNCHANGED deleted

(* A group id is used once.                                                *)
Unused(g) == g \notin DOMAIN group \cup DOMAIN torn \cup deleted

NewGroup(e, l) ==
    [epoch |-> e, leaf |-> l, state |-> "operational", config |-> 0,
     ownLeafNodes |-> << >>, proposals |-> {}]

--------------------------------------------------------------------------------
(* The operations.                                                         *)

(* MlsGroupBuilder::build_internal: the group, then its leaf's key pair.   *)
Build(g) ==
    /\ Unused(g)
    /\ LET m == NewGroup(0, 0)
       IN  Run(g, "build", StoreGroup(g, m, m.epoch) \o StoreEpochKeypairs(g, m), Put(group, g, m))
    /\ UNCHANGED <<tx, left>>

(* A Welcome: the key package goes as soon as it is read, then, in         *)
(* StagedWelcome::into_group, the key pairs are stored before the group.   *)
Join(g, e, l) ==
    /\ Unused(g)
    /\ HasKeyed(contract, "key_package", g)
    /\ LET m == NewGroup(e, l)
       IN  Run(g, "join", <<DeleteKeyCall("key_package", g)>> \o StoreEpochKeypairs(g, m)
                          \o StoreGroup(g, m, m.epoch), Put(group, g, m))
    /\ UNCHANGED <<tx, left>>

(* propose_self_update: the new leaf's key pair, the leaf node, then the   *)
(* proposal that carries it.                                               *)
ProposeSelfUpdate(g, ref) ==
    /\ g \in DOMAIN group
    /\ group[g].state = "operational"
    /\ Len(group[g].ownLeafNodes) < MaxOwnLeafNodes
    /\ ref \notin group[g].proposals
    /\ Cardinality(group[g].proposals) < MaxProposals
    /\ Run(g, "update", <<WriteKeyCall("encryption_key_pair", ref, 1), AppendLeafCall(g, ref),
                        QueueCall(g, ref)>>,
           [group EXCEPT ![g].ownLeafNodes = Append(@, ref), ![g].proposals = @ \cup {ref}])
    /\ UNCHANGED <<tx, left>>

StorePendingProposal(g, ref) ==
    /\ g \in DOMAIN group
    /\ Cardinality(group[g].proposals) < MaxProposals
    /\ QueueOnce => ref \notin group[g].proposals
    /\ Run(g, "store_proposal", <<QueueCall(g, ref)>>,
           [group EXCEPT ![g].proposals = @ \cup {ref}])
    /\ UNCHANGED <<tx, left>>

RemovePendingProposal(g, ref) ==
    /\ g \in DOMAIN group
    /\ ref \in group[g].proposals
    /\ Run(g, "remove_proposal", <<RemoveCall(g, ref)>>,
           [group EXCEPT ![g].proposals = @ \ {ref}])
    /\ UNCHANGED <<tx, left>>

ClearPendingProposals(g) ==
    /\ g \in DOMAIN group
    /\ group[g].proposals # {}
    /\ Run(g, "clear_proposals", <<ClearCall(g)>>, [group EXCEPT ![g].proposals = {}])
    /\ UNCHANGED <<tx, left>>

(* CommitBuilder::stage_commit                                             *)
StageCommit(g) ==
    /\ g \in DOMAIN group
    /\ group[g].state = "operational"
    /\ Run(g, "stage", <<WriteCall(g, "state", "pending")>>, [group EXCEPT ![g].state = "pending"])
    /\ UNCHANGED <<tx, left>>

ClearPendingCommit(g) ==
    /\ g \in DOMAIN group
    /\ group[g].state = "pending"
    /\ Run(g, "clear_commit", <<WriteCall(g, "state", "operational")>>,
           [group EXCEPT ![g].state = "operational"])
    /\ UNCHANGED <<tx, left>>

(* A commit is merged: our own pending one (which is taken out of the      *)
(* state first) or another member's.  It leaves us a member, perhaps at    *)
(* another leaf and perhaps with one of our own updates applied, or removes*)
(* us, or reinitializes the group.                                         *)
Merge(g, own, kind, l, applied) ==
    /\ g \in DOMAIN group
    /\ ToSet(applied) \subseteq ToSet(group[g].ownLeafNodes)
    /\ applied # << >> => ~own /\ kind = "member"
    /\ left[g] > 0
    /\ group[g].state # "inactive"
    /\ own => group[g].state = "pending" /\ kind # "removed"
    /\ kind # "member" => l = group[g].leaf
    /\ LET old == group[g]
           m == [old EXCEPT !.epoch = @ + 1, !.leaf = l, !.ownLeafNodes = << >>,
                            !.state = IF kind = "member" THEN "operational" ELSE "inactive",
                            !.proposals = IF kind = "removed" THEN @ ELSE {}]
           entry == IF own THEN "operational" ELSE old.state
           merge == IF kind = "removed" THEN StoreGroup(g, m, old.epoch)
                    ELSE MergeMember(g, m, old.leaf, applied)
       IN  Run(g, "merge", MergeStagedCommit(g, entry, kind, m, merge), Put(group, g, m))
    /\ left' = [left EXCEPT ![g] = @ - 1]
    /\ UNCHANGED tx

SetConfiguration(g) ==
    /\ g \in DOMAIN group
    /\ group[g].config = 0
    /\ Run(g, "configure",
           <<WriteCall(g, "config", 1), WriteCall(g, "message_secrets", group[g].epoch)>>,
           [group EXCEPT ![g].config = 1])
    /\ UNCHANGED <<tx, left>>

MlsGroupDelete(g) ==
    /\ g \in DOMAIN group
    /\ Run(g, "delete", DeleteGroup(g, group[g]), Drop(group, g))
    /\ UNCHANGED <<tx, left>>

(* The process ends and starts again: every group is loaded from storage.  *)
Restart ==
    /\ group' = [g \in DOMAIN group |-> Load(contract, g)]
    /\ UNCHANGED <<stores, tx, torn, deleted, left>>

(* The client is in one group, has one key package for each other one, and *)
(* a signature key and a PSK.                                              *)
Before ==
    StoreGroup(Bystander, NewGroup(1, 0), 1)
    \o StoreEpochKeypairs(Bystander, NewGroup(1, 0))
    \o <<QueueCall(Bystander, CHOOSE ref \in Refs : TRUE)>>
    \o <<WriteKeyCall("signature_key_pair", Bystander, 1), WriteKeyCall("psk", Bystander, 1)>>
    \o LET others == SetToSeq(Groups \ {Bystander})
       IN  [i \in DOMAIN others |-> WriteKeyCall("key_package", others[i], 1)]

Init ==
    /\ group = (Bystander :> [NewGroup(1, 0) EXCEPT !.proposals = {CHOOSE ref \in Refs : TRUE}])
    /\ contract = FoldLeft(Call, EmptyStore, Before)
    /\ memory = FoldLeft(MemCall, EmptyMemory, Before)
    /\ sqlite = FoldLeft(SqliteCall, EmptySqlite, Before)
    /\ sqlx = FoldLeft(SqlxCall, EmptySqlx, Before)
    /\ tx \in BOOLEAN
    /\ torn = << >>
    /\ deleted = {}
    /\ left = [g \in Groups \ {Bystander} |-> MaxMerges]

Next ==
    \/ \E g \in Groups \ {Bystander} :
         \/ Build(g)
         \/ \E e \in StartEpochs, l \in Leaves : Join(g, e, l)
         \/ \E ref \in Refs :
              \/ ProposeSelfUpdate(g, ref)
              \/ StorePendingProposal(g, ref)
              \/ RemovePendingProposal(g, ref)
         \/ ClearPendingProposals(g)
         \/ StageCommit(g)
         \/ ClearPendingCommit(g)
         \/ \E own \in BOOLEAN, kind \in {"member", "removed", "reinit"}, l \in Leaves,
               applied \in {<< >>} \cup {<<ref>> : ref \in Refs} :
              Merge(g, own, kind, l, applied)
         \/ SetConfiguration(g)
         \/ MlsGroupDelete(g)
    \/ Restart

Spec == Init /\ [][Next]_vars

--------------------------------------------------------------------------------
(* Properties.                                                             *)

(* The (group, epoch, leaf) triples the library asks key pairs for, or     *)
(* has stored pairs under.                                                 *)
KeyPairIds ==
    DOMAIN contract.epochKeys \cup {<<g, group[g].epoch, group[g].leaf>> : g \in DOMAIN group}

(* Wherever a call failed, the in-memory, the SQLite and the sqlx provider *)
(* return for every getter what the contract says: the same values, the    *)
(* same queued proposals (memory_storage also finds the proposal of every  *)
(* listed reference, so the unwrap in queued_proposals is safe) and the    *)
(* same key pairs, although memory_storage files the pairs of all epochs   *)
(* and leaves of a group under keys without a separator.  The own leaf     *)
(* nodes of the sqlx provider are left out: see SqlxKeepsOwnLeafNodes.     *)
ProvidersAgree ==
    /\ \A g \in Groups :
         /\ \A kind \in GroupKinds :
              LET has == HasGroupData(contract, g, kind)
              IN  /\ MemHasGroupData(memory, g, kind) = has
                  /\ SqliteHasGroupData(sqlite, g, kind) = has
                  /\ SqlxHasGroupData(sqlx, g, kind) = has
                  /\ has => LET v == GroupData(contract, g, kind)
                            IN  /\ MemGroupData(memory, g, kind) = v
                                /\ SqliteGroupData(sqlite, g, kind) = v
                                /\ SqlxGroupData(sqlx, g, kind) = v
         /\ Range(MemQueuedProposalRefs(memory, g)) = QueuedProposals(contract, g)
         /\ MemQueuedProposalsReturn(memory, g)
         /\ SqliteQueuedProposals(sqlite, g) = QueuedProposals(contract, g)
         /\ SqlxQueuedProposals(sqlx, g) = QueuedProposals(contract, g)
         /\ MemOwnLeafNodes(memory, g) = OwnLeafNodes(contract, g)
         /\ SqliteOwnLeafNodes(sqlite, g) = OwnLeafNodes(contract, g)
    /\ \A id \in KeyPairIds :
         LET pairs == EpochKeyPairs(contract, id[1], id[2], id[3])
         IN  /\ MemEpochKeyPairs(memory, id[1], id[2], id[3]) = pairs
             /\ SqliteEpochKeyPairs(sqlite, id[1], id[2], id[3]) = pairs
             /\ SqlxEpochKeyPairs(sqlx, id[1], id[2], id[3]) = pairs
    /\ \A kind \in KeyKinds, k \in Groups \cup Refs :
         LET has == HasKeyed(contract, kind, k)
         IN  /\ MemHasKeyed(memory, kind, k) = has
             /\ SqliteHasKeyed(sqlite, kind, k) = has
             /\ SqlxHasKeyed(sqlx, kind, k) = has

(* After every operation and every restart, a group that is in memory is   *)
(* exactly the group that would load: nothing an operation changes is left *)
(* unwritten, and in a transaction a failed operation leaves the group as  *)
(* it was.  A member's values are all of one epoch, and the key pairs on   *)
(* file are those of that epoch at its leaf and no others.                 *)
StorageFollowsTheGroup ==
    \A g \in DOMAIN group :
        LET m == group[g]
            pairs == {id \in DOMAIN contract.epochKeys : id[1] = g}
        IN  /\ Loads(contract, g)
            /\ Load(contract, g) = m
            /\ m.state # "inactive" =>
                 /\ \A kind \in StampedKinds : GroupData(contract, g, kind) = m.epoch
                 /\ pairs = {<<g, m.epoch, m.leaf>>}

(* Without a transaction: a delete that got past its first call leaves     *)
(* nothing that loads, and a join that loads has its key pairs.            *)
TornGroupsAreSafe ==
    \A g \in DOMAIN torn :
        /\ torn[g].op = "delete" /\ torn[g].made > 0 => ~Loads(contract, g)
        /\ torn[g].op = "join" /\ Loads(contract, g) =>
             \E id \in DOMAIN contract.epochKeys : id[1] = g

(* "Adds an own leaf node for the group with given id to storage": what was*)
(* added is returned by own_leaf_nodes, also by the sqlx provider.         *)
SqlxKeepsOwnLeafNodes ==
    \A g \in Groups : SqlxOwnLeafNodes(sqlx, g) = OwnLeafNodes(contract, g)

(* "Removes an individual proposal from the proposal queue of the group":  *)
(* memory_storage no longer lists it.                                      *)
RemovedProposalsAreGone ==
    \A g \in Groups : Range(MemQueuedProposalRefs(memory, g)) \subseteq QueuedProposals(contract, g)

(* "Remove the persisted state of this group from storage": after delete   *)
(* returned Ok no entry is filed under the group.                          *)
DeleteLeavesNothing ==
    \A g \in deleted :
        /\ \A kind \in GroupKinds : ~HasGroupData(contract, g, kind)
        /\ OwnLeafNodes(contract, g) = << >>
        /\ QueuedProposals(contract, g) = {}
        /\ \A id \in DOMAIN contract.epochKeys : id[1] # g
================================================================================
