---------------------------- MODULE VirtualClients ----------------------------
(***************************************************************************)
(* The emulator clients of one virtual client.  They are the members of an  *)
(* emulation group, "em", and share one leaf of a higher-level group, "hl". *)
(* An epoch of the emulation group that changes its membership, or that its *)
(* commit marks, is a derivation epoch: every client registers it, with a   *)
(* state, an operation secret tree and an entry of the group's log.  All    *)
(* that the virtual client does (create a group, commit, publish key        *)
(* packages, take an application secret) uses an operation secret of the    *)
(* newest derivation epoch of the acting client; the siblings derive the    *)
(* same secret from its coordinates.                                        *)
(*                                                                          *)
(* A client is its leaf index in the emulation group and a derivation epoch *)
(* is the group epoch it was exported from (the exporter gives each group   *)
(* epoch an id of its own).  The stored objects are kept by both providers. *)
(* A method is a sequence of storage calls, and a client may stop after any *)
(* of them: what it had in memory is lost.  The load, the derivation and    *)
(* the store of a tree are one step, as the # Concurrency note of the tree  *)
(* asks of the application; so are opening a key package batch and          *)
(* finalizing it.                                                           *)
(***************************************************************************)
EXTENDS VcSecrets, SequencesExt

CONSTANTS
    Clients,         \* the leaf indices of the emulator clients
    Actors,          \* bound: the clients that start operations
    Refs,            \* key package references
    Retention,       \* VcDerivationEpochRetentionPolicy::MaxEpochs of the emulation group
    MaxPastEpochs,   \* max_epochs of the message secrets of the higher-level group
    MaxEmulation,    \* bound: epochs of the emulation group
    MaxCommits,      \* bound: commits of the higher-level group
    MaxAllocations,  \* bound: operations of the virtual client
    GuardBits,       \* bits of a reuse guard
    MergePromptly,   \* no epoch is registered or dropped while a commit is not merged
    TornRegistration \* a registration may stop between two of its writes

Mem == INSTANCE MemoryStorage
Sql == INSTANCE SqlStorage

VARIABLES
    store,      \* per client: the rows of both providers
    em,         \* per client: its epoch of the emulation group, -1 once deleted
    derives,    \* per epoch of the emulation group: is it a derivation epoch
    hl,         \* per client: epoch, first epoch it is a member of, own pending and staged commit
    commits,    \* the commits of the higher-level group: a set of at most one VC leaf each
    ops,        \* the operations siblings were told of
    joined,     \* per client: the references it joined a group with
    allocated,  \* per coordinates: the keys of each operation that used them
    consumed,   \* per client: the coordinates of the operations it processed
    busy        \* bound: the client that stops, drops epochs and deletes groups

vars == <<store, em, derives, hl, commits, ops, joined, allocated, consumed, busy>>

EmulationSize == TreeSize(2 * Cardinality(Clients) - 1)

--------------------------------------------------------------------------------
(* Storage calls.                                                          *)

\* The operation tree and what is retained of key packages.
TreeCall(s, c) ==
    CASE c.op = "tree" ->
           [mem |-> Mem!MemWriteTree(s.mem, c.e, c.v), sql |-> Sql!StoreTree(s.sql, c.e, c.v)]
      [] c.op = "materials" ->
           [mem |-> Mem!MemWriteMaterials(s.mem, c.e, c.v, {c.ref}),
            sql |-> Sql!SqlWriteMaterials(s.sql, c.e, c.v, {c.ref})]
      [] c.op = "delete_material" ->
           [mem |-> Mem!MemDeleteMaterial(s.mem, c.ref), sql |-> Sql!DeleteMaterial(s.sql, c.ref)]
      [] c.op = "delete_key_package" ->
           [mem |-> Mem!MemDeleteKeyPackage(s.mem, c.ref), sql |-> Sql!SqlDeleteKeyPackage(s.sql, c.ref)]

\* The states of derivation epochs, the log and the bindings that name them.
EpochCall(s, c) ==
    CASE c.op = "state" ->
           [mem |-> Mem!MemWriteState(s.mem, c.e, c.v), sql |-> Sql!StoreState(s.sql, c.e, c.v)]
      [] c.op = "sweep" -> [mem |-> Mem!MemSweep(s.mem), sql |-> Sql!SqlSweep(s.sql)]
      [] c.op = "binding" ->
           [mem |-> Mem!MemWriteBinding(s.mem, c.g, c.ge, c.e),
            sql |-> Sql!StoreBinding(s.sql, c.g, c.ge, c.e)]
      [] c.op = "delete_bindings" ->
           [mem |-> Mem!MemDeleteBindings(s.mem, c.g, c.es),
            sql |-> Sql!DeleteBindings(s.sql, c.g, c.es)]
      [] c.op = "delete_all_bindings" ->
           [mem |-> Mem!MemDeleteAllBindings(s.mem, c.g), sql |-> Sql!DeleteAllBindings(s.sql, c.g)]
      [] c.op = "log" ->
           [mem |-> Mem!MemWriteLogEntry(s.mem, c.g, c.e, c.v),
            sql |-> Sql!StoreLogEntry(s.sql, c.g, c.e, c.v)]
      [] c.op = "delete_log_entries" ->
           [mem |-> Mem!MemDeleteLogEntries(s.mem, c.g, c.es),
            sql |-> Sql!DeleteLogEntries(s.sql, c.g, c.es)]
      [] c.op = "delete_log" ->
           [mem |-> Mem!MemDeleteLog(s.mem, c.g), sql |-> Sql!DeleteLog(s.sql, c.g)]

Call(s, c) ==
    IF c.op \in {"tree", "materials", "delete_material", "delete_key_package"}
    THEN TreeCall(s, c) ELSE EpochCall(s, c)

Calls(s, calls) == FoldLeft(Call, s, calls)

\* What a client reads: the rows of its hash map.
Rows(c) == store[c].mem

Has(c, label, key) == Mem!MemHas(Rows(c), label, key)

Tree(c, e) == Mem!MemRead(Rows(c), "tree", e)

LeafOf(c, e) == Mem!MemRead(Rows(c), "state", e).leaf

BoundTo(c, g, ge) == Mem!MemBinding(Rows(c), g, ge)

\* load_vc_epoch_state_and_tree succeeds.
Usable(c, e) == Has(c, "state", e) /\ Has(c, "tree", e)

--------------------------------------------------------------------------------
(* The log of the derivation epochs.                                       *)

\* The entries in the order of their sequence numbers.
LoadLog(rows, g) ==
    SetToSortSeq(Mem!MemLogEntries(rows, g), LAMBDA x, y : x.sequence < y.sequence)

PushLog(log, ge, e) ==
    Append(log, [sequence |-> IF log = << >> THEN 0 ELSE Last(log).sequence + 1,
                 group_epoch |-> ge, epoch_id |-> e])

\* Of an entry count the oldest are dropped, never the newest.
DropOldest(log, count) ==
    LET n == Min({count, Max({Len(log) - 1, 0})})
    IN  {log[i].epoch_id : i \in 1..n}

ShrinkTo(log, max) ==
    DropOldest(log, Max({Len(log) - Max({max, 1}), 0}))

\* An entry goes when its successor was registered before the cutoff: the time of
\* a registration is its place in the log.
DropSupersededBefore(log, cutoff) ==
    DropOldest(log, Cardinality({i \in 2..Len(log) : i < cutoff}))

\* The newest epoch a client knows, as a set of at most one.
NewestDerivationEpoch(c) ==
    LET entries == Mem!MemLogEntries(Rows(c), "em")
    IN  {x.epoch_id : x \in {x \in entries : \A y \in entries : y.sequence <= x.sequence}}

\* Writes the tree of an epoch that is registered already.
MutantRegister(rows, c, ge) ==
    LET log == LoadLog(rows, "em")
        pushed == PushLog(log, ge, ge)
        dropped == ShrinkTo(pushed, Retention)
    IN  << [op |-> "tree", e |-> ge, v |-> NewOperationTree(EmulationSize)],
           [op |-> "state", e |-> ge, v |-> [leaf |-> c, size |-> EmulationSize]],
           [op |-> "log", g |-> "em", e |-> ge, v |-> Last(pushed)],
           [op |-> "delete_log_entries", g |-> "em", es |-> dropped],
           [op |-> "sweep"] >>

\* register_vc_derivation_epoch: nothing to write for the epoch registered last,
\* which a client that stopped before it stored the group registers again.
Register(rows, c, ge) ==
    LET log == LoadLog(rows, "em")
        pushed == PushLog(log, ge, ge)
        dropped == ShrinkTo(pushed, Retention)
        prune == IF dropped = {} THEN << >>
                 ELSE << [op |-> "delete_log_entries", g |-> "em", es |-> dropped] >>
    IN  IF log # << >> /\ Last(log).group_epoch = ge THEN << >>
        ELSE << [op |-> "tree", e |-> ge, v |-> NewOperationTree(EmulationSize)],
                [op |-> "state", e |-> ge, v |-> [leaf |-> c, size |-> EmulationSize]],
                [op |-> "log", g |-> "em", e |-> ge, v |-> Last(pushed)] >>
             \o prune \o << [op |-> "sweep"] >>

\* Keeps as many bindings as there are past epochs.
MutantWriteBindingWithPruning(rows, g, ge, e) ==
    LET epochs == {b.group_epoch : b \in Mem!MemBindings(rows, g)} \cup {ge}
        stale == {x \in epochs : Cardinality({y \in epochs : y > x}) >= MaxPastEpochs}
    IN  << [op |-> "binding", g |-> g, ge |-> ge, e |-> e],
           [op |-> "delete_bindings", g |-> g, es |-> stale] >>

\* write_vc_emulation_binding_with_pruning: keeps the MaxPastEpochs + 1 newest.
WriteBindingWithPruning(rows, g, ge, e) ==
    LET epochs == {b.group_epoch : b \in Mem!MemBindings(rows, g)} \cup {ge}
        stale == {x \in epochs : Cardinality({y \in epochs : y > x}) > MaxPastEpochs}
    IN  << [op |-> "binding", g |-> g, ge |-> ge, e |-> e] >>
        \o (IF stale = {} THEN << >> ELSE << [op |-> "delete_bindings", g |-> g, es |-> stale] >>)

\* release_vc_derivation_epochs
Release(dropped) ==
    << [op |-> "delete_log_entries", g |-> "em", es |-> dropped], [op |-> "sweep"] >>

\* drop_all_vc_derivation_epoch_references
DropAllReferences(g) ==
    << [op |-> "delete_all_bindings", g |-> g], [op |-> "delete_log", g |-> g], [op |-> "sweep"] >>

--------------------------------------------------------------------------------
(* Operations.                                                             *)

Coordinates(c, e, type) ==
    [epoch |-> e, leaf |-> LeafOf(c, e), type |-> type,
     gen |-> NextGeneration(Tree(c, e), LeafOf(c, e), type)]

\* The newest epoch gives an operation of a type.
CanOperate(c, e, type) ==
    /\ c \in Actors /\ e \in NewestDerivationEpoch(c) /\ Usable(c, e)
    /\ CanAllocate(Tree(c, e), LeafOf(c, e), type)
    /\ FoldSet(LAMBDA k, n : Len(allocated[k]) + n, 0, DOMAIN allocated) < MaxAllocations

TreeAfterAllocation(c, e, type) == NextOperationSecret(Tree(c, e), LeafOf(c, e), type)

WriteTree(e, tree) == << [op |-> "tree", e |-> e, v |-> tree] >>

\* The operation takes the coordinates k and derives keys from their secret.
Allocate(k, keys) ==
    allocated' = (k :> (IF k \in DOMAIN allocated THEN Append(allocated[k], keys) ELSE <<keys>>))
                    @@ allocated

\* The keys of a commit in the higher-level group, a group created and a key package.
CommitKeys(k) ==
    LET target == TargetOperationSecret(k, "suite", "hl")
    IN  <<KeyPairFrom(TargetEncryptionKey(target)), PathGenerationSecret(target)>>

GroupKeys(k) ==
    LET seed == KeyPackageSeedSecret(k, "suite", 0)
    IN  <<KeyPairFrom(SeedEncryptionKey(seed)), GroupCreationSecret(seed)>>

KeyPackageKeys(k) ==
    LET seed == KeyPackageSeedSecret(k, "suite", 0)
    IN  <<KeyPairFrom(SeedEncryptionKey(seed)), KeyPairFrom(SeedInitKey(seed))>>

\* A leaf with its first key, carrying the derivation info.
VcLeaf(k, keys, external_init) ==
    [encryption_key |-> keys[1],
     derivation_info |-> EncryptDerivationInfo(k.epoch, keys[1], DerivationInfoTbe(k, 0, external_init))]

\* The coordinates a sibling that has the epoch reads from a leaf.
Opened(leaf, type) ==
    {[epoch |-> leaf.derivation_info.epoch_id, leaf |-> t.leaf_index, type |-> type, gen |-> t.generation]
       : t \in DecryptDerivationInfo(leaf.derivation_info, leaf.encryption_key, type)}

\* A sibling's operation the client can derive.
CanFollow(c, k) ==
    Usable(c, k.epoch) /\ CanDerive(Tree(c, k.epoch), k.leaf, k.type, k.gen)

TreeAfterFollowing(c, k) == DeriveOperationSecret(Tree(c, k.epoch), k.leaf, k.type, k.gen)

Consume(c, k) == consumed' = [consumed EXCEPT ![c] = @ \cup {k}]

\* Some prefix of the calls is done; all of them, or the client stopped.
DoneOf(c, calls, n) == store' = [store EXCEPT ![c] = Calls(@, SubSeq(calls, 1, n))]

Do(c, calls) == DoneOf(c, calls, Len(calls))

--------------------------------------------------------------------------------

Fresh(c) == [mem |-> << >>, sql |-> Sql!EmptyVcTables]

\* The emulation group is set up: each client registered its epochs 0 and 1.
Init ==
    /\ store = [c \in Clients |->
                 LET s == Calls(Fresh(c), Register(<< >>, c, 0)) IN Calls(s, Register(s.mem, c, 1))]
    /\ em = [c \in Clients |-> 1]
    /\ derives = <<TRUE>>
    /\ hl = [c \in Clients |-> [epoch |-> -1, since |-> 0, pending |-> {}, staged |-> << >>]]
    /\ commits = << >> /\ ops = {} /\ joined = [c \in Clients |-> {}]
    /\ allocated = << >> /\ consumed = [c \in Clients |-> {}]
    /\ busy \in Clients

(* The actions of a commit of the emulation group, in its Safe AAD item.   *)

CreatesDerivationEpoch(actions) == "new_derivation_epoch" \in Range(actions)

RequireNewDerivationEpoch(actions) ==
    IF CreatesDerivationEpoch(actions) THEN actions ELSE Append(actions, "new_derivation_epoch")

ValidActions(actions) ==
    Cardinality({i \in DOMAIN actions : actions[i] = "new_derivation_epoch"}) <= 1

\* The actions staged by the application, and the marker if the builder asks for it.
StagedCommitData(actions, forced) ==
    IF forced THEN RequireNewDerivationEpoch(actions) ELSE actions

CommitCreatesVcDerivationEpoch(actions, membership) ==
    CreatesDerivationEpoch(actions) \/ membership

\* A member of the emulation group commits.
EmulationCommit(actions, forced, membership) ==
    /\ Len(derives) < MaxEmulation
    /\ ValidActions(actions)
    /\ derives' = Append(derives,
                         CommitCreatesVcDerivationEpoch(StagedCommitData(actions, forced), membership))
    /\ UNCHANGED <<store, em, hl, commits, ops, joined, allocated, consumed, busy>>

Settled(c) == hl[c].pending = {} /\ hl[c].staged = << >>

\* A client merges the next commit of the emulation group: it registers the epoch
\* and then stores the group.  A client that stopped in between merges again.
MergeEmulationCommit(c, n, stored) ==
    /\ em[c] \in 0..(Len(derives) - 1)
    /\ MergePromptly => Settled(c)
    /\ LET ge == em[c] + 1
           calls == IF derives[ge] THEN Register(Rows(c), c, ge) ELSE << >>
       IN  /\ n \in 0..Len(calls)
           /\ stored \/ ~TornRegistration => n = Len(calls)
           /\ stored \/ c = busy
           /\ DoneOf(c, calls, n)
           /\ em' = IF stored THEN [em EXCEPT ![c] = ge] ELSE em
           /\ hl' = IF stored THEN hl ELSE [hl EXCEPT ![c].staged = << >>]
    /\ UNCHANGED <<derives, commits, ops, joined, allocated, consumed, busy>>

\* build_vc_internal: the virtual client creates the higher-level group.
CreateGroup(c) ==
    /\ \A d \in Clients : hl[d].epoch = -1
    /\ commits = << >> /\ \A k \in ops : k.type # "group"
    /\ \E e \in NewestDerivationEpoch(c) :
         /\ CanOperate(c, e, "key_package")
         /\ LET k == Coordinates(c, e, "key_package")
            IN  /\ Allocate(k, GroupKeys(k))
                /\ Do(c, WriteTree(e, TreeAfterAllocation(c, e, "key_package"))
                         \o WriteBindingWithPruning(Rows(c), "hl", 0, e))
                /\ ops' = ops \cup {[type |-> "group", leaf |-> VcLeaf(k, GroupKeys(k), {})]}
    /\ hl' = [hl EXCEPT ![c].epoch = 0]
    /\ UNCHANGED <<em, derives, commits, joined, consumed, busy>>

\* vc_join_at_creation: the tree is stored once the group was reconstructed.
VcJoinAtCreation(c) ==
    /\ hl[c].epoch = -1
    /\ \E o \in {o \in ops : o.type = "group"} : \E k \in Opened(o.leaf, "key_package") :
         /\ CanFollow(c, k)
         /\ o.leaf.encryption_key = GroupKeys(k)[1]
         /\ Consume(c, k)
         /\ Do(c, WriteTree(k.epoch, TreeAfterFollowing(c, k))
                  \o WriteBindingWithPruning(Rows(c), "hl", 0, k.epoch))
    /\ hl' = [hl EXCEPT ![c].epoch = 0]
    /\ UNCHANGED <<em, derives, commits, ops, joined, allocated, busy>>

\* vc_emulation and build: the advanced tree is stored before anything is built,
\* so a client that stops has used up the generation.
VcEmulationCommit(c, built) ==
    /\ hl[c].epoch >= 0 /\ Settled(c) /\ (built \/ c = busy)
    /\ \E e \in NewestDerivationEpoch(c) :
         /\ CanOperate(c, e, "leaf_node")
         /\ LET k == Coordinates(c, e, "leaf_node")
            IN  /\ Allocate(k, CommitKeys(k))
                /\ Do(c, WriteTree(e, TreeAfterAllocation(c, e, "leaf_node")))
                /\ hl' = IF built THEN [hl EXCEPT ![c].pending = {VcLeaf(k, CommitKeys(k), {})}] ELSE hl
    /\ UNCHANGED <<em, derives, commits, ops, joined, consumed, busy>>

\* The virtual client joins a group of others by an external commit, which the
\* delivery service accepts: its transient group is at the epoch before.
VcExternalCommit(c) ==
    /\ \A d \in Clients : hl[d].epoch = -1
    /\ commits = << >> /\ MaxCommits > 0 /\ \A k \in ops : k.type # "group"
    /\ \E e \in NewestDerivationEpoch(c) :
         /\ CanOperate(c, e, "leaf_node")
         /\ LET k == Coordinates(c, e, "leaf_node")
                leaf == VcLeaf(k, CommitKeys(k), {"init_secret"})
            IN  /\ Allocate(k, CommitKeys(k))
                /\ Do(c, WriteTree(e, TreeAfterAllocation(c, e, "leaf_node")))
                /\ commits' = <<{leaf}>>
                /\ hl' = [hl EXCEPT ![c] = [@ EXCEPT !.epoch = 0, !.since = 1, !.pending = {leaf}]]
    /\ UNCHANGED <<em, derives, ops, joined, consumed, busy>>

\* The delivery service accepts one commit per epoch: a client's pending commit
\* or one of another member.
AcceptCommit(c) ==
    /\ hl[c].pending # {} /\ hl[c].epoch = Len(commits) /\ Len(commits) < MaxCommits
    /\ commits' = Append(commits, hl[c].pending)
    /\ UNCHANGED <<store, em, derives, hl, ops, joined, allocated, consumed, busy>>

AcceptOtherCommit ==
    /\ Len(commits) < MaxCommits
    /\ \E c \in Clients : hl[c].epoch >= 0
    /\ commits' = Append(commits, {})
    /\ UNCHANGED <<store, em, derives, hl, ops, joined, allocated, consumed, busy>>

\* load_vc_commit_material for a sibling's commit: consumes the generation when
\* the commit is processed, before it is merged.
ProcessCommit(c) ==
    /\ hl[c].epoch \in 0..(Len(commits) - 1) /\ hl[c].staged = << >>
    /\ LET commit == commits[hl[c].epoch + 1]
           material == UNION {Opened(leaf, "leaf_node") : leaf \in commit}
       IN  /\ commit # hl[c].pending \/ commit = {}
           /\ commit # {} => material # {}
           /\ \A k \in material : k.leaf # c /\ CanFollow(c, k)
           /\ \A leaf \in commit, k \in material : leaf.encryption_key = CommitKeys(k)[1]
           /\ hl' = [hl EXCEPT ![c].staged = <<commit>>]
           /\ consumed' = [consumed EXCEPT ![c] = @ \cup material]
           /\ \/ commit = {} /\ UNCHANGED store
              \/ \E k \in material : Do(c, WriteTree(k.epoch, TreeAfterFollowing(c, k)))
    /\ UNCHANGED <<em, derives, commits, ops, joined, allocated, busy>>

\* Binding of a new epoch: to the derivation epoch of the commit or else to the
\* one of the current epoch; what was only bound before is swept.
BindNewEpoch(c, rows, commit) ==
    LET bound == IF commit # {} THEN {leaf.derivation_info.epoch_id : leaf \in commit}
                 ELSE Mem!MemBinding(rows, "hl", hl[c].epoch)
    IN  IF bound = {} THEN << >>
        ELSE WriteBindingWithPruning(rows, "hl", Max({hl[c].epoch, 0}) + 1, CHOOSE e \in bound : TRUE)
             \o << [op |-> "sweep"] >>

\* merge_staged_commit, or a prefix of its writes.
MergeStagedCommit(c, n) ==
    /\ hl[c].epoch \in 0..(Len(commits) - 1)
    /\ LET next == commits[hl[c].epoch + 1]
           calls == BindNewEpoch(c, Rows(c), next)
       IN  /\ hl[c].staged = <<next>> \/ (next # {} /\ next = hl[c].pending)
           /\ n \in 0..Len(calls) /\ (n = 0 => calls = << >>) /\ (n = Len(calls) \/ c = busy)
           /\ DoneOf(c, calls, n)
           /\ hl' = [hl EXCEPT ![c] =
                        IF n = Len(calls)
                        THEN [@ EXCEPT !.epoch = @ + 1, !.pending = {}, !.staged = << >>]
                        ELSE [@ EXCEPT !.staged = << >>]]
    /\ UNCHANGED <<em, derives, commits, ops, joined, allocated, consumed, busy>>

\* process_commit of the join builder: the first commit is a sibling's external
\* commit, and its leaf names a derivation epoch.
JoinableExternalCommits ==
    {leaf \in UNION Range(SubSeq(commits, 1, Min({1, Len(commits)}))) :
        "external_init_secret" \in DOMAIN leaf.derivation_info.ciphertext.payload
            /\ leaf.derivation_info.ciphertext.payload.external_init_secret # {}}

\* A sibling that is not a member follows the external commit: the material is
\* consumed and the commit staged and merged in one go.
VcExternalCommitJoin(c) ==
    /\ hl[c].epoch = -1
    /\ \E leaf \in JoinableExternalCommits : \E k \in Opened(leaf, "leaf_node") :
         /\ CanFollow(c, k) /\ leaf.encryption_key = CommitKeys(k)[1]
         /\ Consume(c, k)
         /\ Do(c, WriteTree(k.epoch, TreeAfterFollowing(c, k)) \o BindNewEpoch(c, Rows(c), {leaf}))
    /\ hl' = [hl EXCEPT ![c] = [@ EXCEPT !.epoch = 1, !.since = 1]]
    /\ UNCHANGED <<em, derives, commits, ops, joined, allocated, busy>>

\* A batch of one key package: tree and material are written together, and the
\* upload is assembled from it.
KeyPackageBatch(c, ref) ==
    /\ \A o \in ops : o.type = "upload" => o.ref # ref
    /\ \E e \in NewestDerivationEpoch(c) :
         /\ CanOperate(c, e, "key_package")
         /\ LET k == Coordinates(c, e, "key_package")
            IN  /\ Allocate(k, KeyPackageKeys(k))
                /\ Do(c, << [op |-> "materials", e |-> e, ref |-> ref,
                             v |-> TreeAfterAllocation(c, e, "key_package")] >>)
                /\ ops' = ops \cup {[type |-> "upload", at |-> k, ref |-> ref]}
    /\ UNCHANGED <<em, derives, hl, commits, joined, consumed, busy>>

\* process_vc_key_package_upload
ProcessUpload(c) ==
    /\ \E o \in ops :
         /\ o.type = "upload" /\ o.at.leaf # c
         /\ CanFollow(c, o.at)
         /\ Consume(c, o.at)
         /\ Do(c, << [op |-> "materials", e |-> o.at.epoch, ref |-> o.ref,
                      v |-> TreeAfterFollowing(c, o.at)] >>)
    /\ UNCHANGED <<em, derives, hl, commits, ops, joined, allocated, busy>>

\* A Welcome for a key package of the virtual client.  The new group is bound
\* to the epoch of the leaf before the retained material goes, the client's own
\* material with its key package.
JoinGroup(c, ref, n) ==
    /\ ref \notin joined[c]
    /\ Has(c, "material", ref)
    /\ LET e == Mem!MemRead(Rows(c), "material", ref)
           own == \E o \in ops : o.type = "upload" /\ o.ref = ref /\ o.at.leaf = c
           calls == WriteBindingWithPruning(Rows(c), ref, 0, e)
                    \o << [op |-> IF own THEN "delete_key_package" ELSE "delete_material",
                           ref |-> ref] >>
       IN  /\ Has(c, "state", e)
           /\ n \in 1..Len(calls) /\ (n = Len(calls) \/ c = busy)
           /\ DoneOf(c, calls, n)
           /\ joined' = IF n = Len(calls) THEN [joined EXCEPT ![c] = @ \cup {ref}] ELSE joined
    /\ UNCHANGED <<em, derives, hl, commits, ops, allocated, consumed, busy>>

\* next_vc_application_secret
NextApplicationSecret(c) ==
    /\ \E e \in NewestDerivationEpoch(c) :
         /\ CanOperate(c, e, "application")
         /\ LET k == Coordinates(c, e, "application")
            IN  /\ Allocate(k, <<OperationSecret(k, << >>)>>)
                /\ Do(c, WriteTree(e, TreeAfterAllocation(c, e, "application")))
                /\ ops' = ops \cup {[type |-> "application", at |-> k]}
    /\ UNCHANGED <<em, derives, hl, commits, joined, consumed, busy>>

\* derive_vc_application_secret
DeriveApplicationSecret(c) ==
    /\ \E o \in ops :
         /\ o.type = "application" /\ CanFollow(c, o.at) /\ o.at.leaf # LeafOf(c, o.at.epoch)
         /\ Consume(c, o.at)
         /\ Do(c, WriteTree(o.at.epoch, TreeAfterFollowing(c, o.at)))
    /\ UNCHANGED <<em, derives, hl, commits, ops, joined, allocated, busy>>

\* delete_vc_derivation_epochs, by time or by number
DeleteDerivationEpochs(c, cutoff, max) ==
    /\ em[c] >= 0 /\ (MergePromptly => Settled(c)) /\ c = busy
    /\ LET log == LoadLog(Rows(c), "em")
           superseded == DropSupersededBefore(log, cutoff)
           left == SelectSeq(log, LAMBDA x : x.epoch_id \notin superseded)
           dropped == superseded \cup ShrinkTo(left, max)
       IN  dropped # {} /\ Do(c, Release(dropped))
    /\ UNCHANGED <<em, derives, hl, commits, ops, joined, allocated, consumed, busy>>

\* delete: of the emulation group, or of a group joined with a key package.
DeleteGroup(c, g) ==
    /\ c = busy
    /\ \/ g = "em" /\ em[c] >= 0 /\ (MergePromptly => Settled(c)) /\ em' = [em EXCEPT ![c] = -1]
       \/ g \in joined[c] /\ BoundTo(c, g, 0) # {} /\ UNCHANGED em
    /\ Do(c, DropAllReferences(g))
    /\ UNCHANGED <<derives, hl, commits, ops, joined, allocated, consumed, busy>>

Next ==
    \/ \E actions \in {<< >>, <<"key_package_upload">>, <<"new_derivation_epoch">>} :
          \E forced, membership \in BOOLEAN : EmulationCommit(actions, forced, membership)
    \/ \E c \in Clients, n \in 0..5, stored \in BOOLEAN : MergeEmulationCommit(c, n, stored)
    \/ \E c \in Clients : CreateGroup(c) \/ VcJoinAtCreation(c)
    \/ \E c \in Clients : VcExternalCommit(c) \/ VcExternalCommitJoin(c)
    \/ \E c \in Clients, built \in BOOLEAN : VcEmulationCommit(c, built)
    \/ \E c \in Clients : AcceptCommit(c) \/ ProcessCommit(c)
    \/ AcceptOtherCommit
    \/ \E c \in Clients, n \in 0..3 : MergeStagedCommit(c, n)
    \/ \E c \in Clients, ref \in Refs : KeyPackageBatch(c, ref)
    \/ \E c \in Clients : ProcessUpload(c)
    \/ \E c \in Clients, ref \in Refs, n \in 1..3 : JoinGroup(c, ref, n)
    \/ \E c \in Clients : NextApplicationSecret(c) \/ DeriveApplicationSecret(c)
    \/ \E c \in Clients, cutoff \in {0, 3}, max \in {0, MaxEmulation + 1} :
          DeleteDerivationEpochs(c, cutoff, max)
    \/ \E c \in Clients, g \in Refs \cup {"em"} : DeleteGroup(c, g)

Spec == Init /\ [][Next]_vars

--------------------------------------------------------------------------------

\* Every allocation of an operation secret (for a group, a commit, a key package
\* batch or an application secret, each followed by a restart or not) has
\* coordinates of its own and derives keys that no other has, and a client's stored tree no longer determines the
\* secret of an operation it made or processed: key material is not used twice,
\* and not recoverable from the store, even if a registration is retried.
OperationSecretsAreUsedOnce ==
    /\ \A k \in DOMAIN allocated : Len(allocated[k]) = 1 /\ IsInjective(allocated[k][1])
    /\ \A j, k \in DOMAIN allocated :
         j # k => Range(allocated[j][1]) \cap Range(allocated[k][1]) = {}
    /\ \A c \in Clients : \A k \in consumed[c] \cup {k \in DOMAIN allocated : k.leaf = c} :
         Has(c, "tree", k.epoch) => ~Determines(Tree(c, k.epoch), k.leaf, k.type, k.gen)

\* Whatever order the operations of a sibling arrive in, a client that still has
\* the derivation epoch and did not process the operation yet can derive its
\* secret, unless the sibling went on by more than the ratchet tolerates; and
\* from the leaf of every commit it reads the coordinates the author took.
SiblingsCanFollow ==
    /\ \A leaf \in UNION Range(commits) :
         \E k \in Opened(leaf, "leaf_node") : k \in DOMAIN allocated /\ leaf.encryption_key = CommitKeys(k)[1]
    /\ \A c \in Clients : \A k \in DOMAIN allocated :
        (/\ k.leaf # c /\ k \notin consumed[c] /\ Usable(c, k.epoch)
         /\ \A j \in DOMAIN allocated :
              [j EXCEPT !.gen = k.gen] = k =>
                  j.gen - k.gen < OutOfOrderTolerance /\ k.gen <= MaximumForwardDistance)
            => CanFollow(c, k)

\* Takes the leaf index for the whole class of values.
MutantReuseGuardValues(leaf, size) ==
    LET n == LeafCount(size)
        full == (2^GuardBits \div n) * n
    IN  {(r \div n) + leaf : r \in 0..(full - 1)}

\* for_emulator_sender: the values before the permutation keyed by the nonce.
ReuseGuardValues(leaf, size) ==
    LET n == LeafCount(size)
        full == (2^GuardBits \div n) * n
    IN  {(r \div n) * n + leaf : r \in 0..(full - 1)}

GuardsAt(c, ge) ==
    UNION {ReuseGuardValues(Mem!MemRead(Rows(c), "state", e).leaf, Mem!MemRead(Rows(c), "state", e).size)
             : e \in {e \in BoundTo(c, "hl", ge) : Has(c, "state", e)}}

\* For some nonce and generation of the epoch of the higher-level group.
PrpKeysAt(c, ge) == {DerivePrpKey(e, <<"nonce", ge>>) : e \in BoundTo(c, "hl", ge)}

GenerationIdsAt(c, ge) ==
    {DeriveGenerationId(e, "hl", ge, 0, "application") : e \in BoundTo(c, "hl", ge)}

\* Two siblings that hold the same epoch of the higher-level group send from one
\* leaf and may use the same key and nonce.  They are bound to the same
\* derivation epoch, so they permute with the same key, and the reuse guards they
\* can draw are apart: encrypt never gives the two the same nonce.  And the
\* delivery service sees two messages of one generation by their generation ids.
SiblingsDoNotShareNonces ==
    \A c, d \in Clients : \A ge \in 0..MaxCommits :
        (c # d /\ ge <= hl[c].epoch /\ ge <= hl[d].epoch
           /\ BoundTo(c, "hl", ge) # {} /\ BoundTo(d, "hl", ge) # {})
        => /\ PrpKeysAt(c, ge) = PrpKeysAt(d, ge) /\ GenerationIdsAt(c, ge) = GenerationIdsAt(d, ge)
           /\ GuardsAt(c, ge) \cap GuardsAt(d, ge) = {}

\* The derivation epoch of every log entry and of every key package retained has
\* its state and its tree, the one bound to an epoch of a group its state; and
\* the higher-level group is bound at its epoch and at every past epoch whose
\* message secrets it keeps (but for the oldest of them, if a merge stopped after
\* it bound the next epoch).  No sweep, in whatever order groups are left,
\* epochs dropped and bindings pruned, takes an epoch something still needs.
ReferencedEpochsAreKept ==
    \A c \in Clients :
        /\ \A x \in Mem!MemLogEntries(Rows(c), "em") : Usable(c, x.epoch_id)
        /\ \A ref \in Refs : Has(c, "material", ref) => Usable(c, Mem!MemRead(Rows(c), "material", ref))
        /\ \A g \in Refs \cup {"hl"} : \A b \in Mem!MemBindings(Rows(c), g) : Usable(c, b.epoch_id)
        /\ \A ge \in 0..MaxCommits :
             (/\ ge \in hl[c].since..hl[c].epoch
              /\ ge + MaxPastEpochs >= hl[c].epoch + Cardinality(BoundTo(c, "hl", hl[c].epoch + 1)))
                => BoundTo(c, "hl", ge) # {}

\* The memory and the SQLite provider, driven by the same calls, give the same
\* answers to every question about the virtual client.
VcProvidersAgree ==
    \A c \in Clients :
        LET t == store[c].sql
            values(label, key) == IF Has(c, label, key) THEN {Mem!MemRead(Rows(c), label, key)} ELSE {}
        IN  /\ \A e \in 0..MaxEmulation :
                 /\ Sql!LoadState(t, e) = values("state", e)
                 /\ Sql!LoadTree(t, e) = values("tree", e)
            /\ \A ref \in Refs : Sql!LoadMaterial(t, ref) = values("material", ref)
            /\ \A g \in Refs \cup {"hl"} :
                 /\ Sql!LoadBindings(t, g) = Mem!MemBindings(Rows(c), g)
                 /\ \A ge \in 0..MaxCommits : Sql!LoadBinding(t, g, ge) = BoundTo(c, g, ge)
            /\ Sql!LoadLogEntries(t, "em") = Mem!MemLogEntries(Rows(c), "em")
================================================================================
