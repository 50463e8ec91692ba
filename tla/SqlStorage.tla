--------------------------------- MODULE SqlStorage ----------------------------
(***************************************************************************)
(* The two SQL providers.  openmls_sqlite_storage, with the tables of      *)
(* virtual clients, comes first; openmls_sqlx_storage is at the end.       *)
(*                                                                         *)
(* openmls_sqlite_storage: one table per kind of object.  A table with a   *)
(* primary key is a function from keys to rows.  The table of own leaf     *)
(* nodes has an AUTOINCREMENT id, so it is the sequence of its rows.       *)
(*                                                                         *)
(* storage_provider.rs only picks the table: every method builds a         *)
(* Storable value and calls the statement of the table's own file.  The    *)
(* column provider_version is the same in every statement of a build.      *)
(***************************************************************************)
EXTENDS StorageProvider, FiniteSets

EmptySqlite ==
    [groupData |-> << >>, proposals |-> << >>, ownLeafNodes |-> << >>,
     epochKeyPairs |-> << >>, signatureKeys |-> << >>, encryptionKeys |-> << >>,
     keyPackages |-> << >>, psks |-> << >>]

--------------------------------------------------------------------------------
(* The statements, file by file.                                           *)

(* INSERT OR REPLACE INTO openmls_group_data                               *)
StoreGroupData(db, g, kind, v) == [db EXCEPT !.groupData = Put(@, <<g, kind>>, v)]
(* DELETE FROM openmls_group_data WHERE group_id AND data_type             *)
DropGroupData(db, g, kind) == [db EXCEPT !.groupData = Drop(@, <<g, kind>>)]

(* INSERT OR IGNORE INTO openmls_proposals: the row of a queued reference  *)
(* stays as it is.                                                         *)
StoreProposal(db, g, ref) == [db EXCEPT !.proposals = @ @@ (<<g, ref>> :> ref)]
DropProposal(db, g, ref) == [db EXCEPT !.proposals = Drop(@, <<g, ref>>)]
DropAllProposals(db, g) ==
    [db EXCEPT !.proposals = Restrict(@, {k \in DOMAIN @ : k[1] # g})]

(* INSERT INTO openmls_own_leaf_nodes: always a new row.                   *)
StoreLeafNode(db, g, leaf) == [db EXCEPT !.ownLeafNodes = Append(@, <<g, leaf>>)]
DropLeafNodes(db, g) ==
    [db EXCEPT !.ownLeafNodes = SelectSeq(@, LAMBDA row : row[1] # g)]

(* openmls_epoch_keys_pairs, keyed by group, epoch and leaf index.         *)
StoreEpochKeyPairs(db, g, e, l, v) == [db EXCEPT !.epochKeyPairs = Put(@, <<g, e, l>>, v)]
DropEpochKeyPairs(db, g, e, l) == [db EXCEPT !.epochKeyPairs = Drop(@, <<g, e, l>>)]

(* The four tables of objects with a key of their own, a file each: a row  *)
(* is stored by INSERT OR REPLACE and deleted by its key.                  *)
Row(t, c) == IF c.op = "write_key" THEN Put(t, c.k, c.v) ELSE Drop(t, c.k)
SignatureKeyPairs(db, c) == [db EXCEPT !.signatureKeys = Row(@, c)]
EncryptionKeyPairs(db, c) == [db EXCEPT !.encryptionKeys = Row(@, c)]
KeyPackages(db, c) == [db EXCEPT !.keyPackages = Row(@, c)]
Psks(db, c) == [db EXCEPT !.psks = Row(@, c)]

Object(db, c) ==
    CASE c.kind = "signature_key_pair" -> SignatureKeyPairs(db, c)
      [] c.kind = "encryption_key_pair" -> EncryptionKeyPairs(db, c)
      [] c.kind = "key_package" -> KeyPackages(db, c)
      [] c.kind = "psk" -> Psks(db, c)

--------------------------------------------------------------------------------
(* The provider's methods.                                                 *)

SqliteListSetter(db, c) ==
    IF c.op = "append_leaf" THEN StoreLeafNode(db, c.g, c.v) ELSE StoreProposal(db, c.g, c.ref)

SqliteGroupSetter(db, c) == StoreGroupData(db, c.g, c.kind, c.v)

SqliteExportTree(db, c) ==
    IF c.op = "write" THEN StoreGroupData(db, c.g, c.kind, c.v)
    ELSE DropGroupData(db, c.g, c.kind)

SqliteObjectSetter(db, c) ==
    IF c.op = "write_epoch" THEN StoreEpochKeyPairs(db, c.g, c.e, c.l, c.v) ELSE Object(db, c)

SqliteListDeleter(db, c) ==
    CASE c.op = "remove" -> DropProposal(db, c.g, c.ref)
      [] c.op = "delete_leaves" -> DropLeafNodes(db, c.g)
      [] c.op = "clear" -> DropAllProposals(db, c.g)

SqliteGroupDeleter(db, c) == DropGroupData(db, c.g, c.kind)

SqliteObjectDeleter(db, c) ==
    IF c.op = "delete_epoch" THEN DropEpochKeyPairs(db, c.g, c.e, c.l) ELSE Object(db, c)

SqliteCall(db, c) ==
    CASE c.op \in {"append_leaf", "queue"} -> SqliteListSetter(db, c)
      [] c.op \in {"write", "delete"} /\ c.kind = "export_tree" -> SqliteExportTree(db, c)
      [] c.op = "write" /\ c.kind # "export_tree" -> SqliteGroupSetter(db, c)
      [] c.op = "delete" /\ c.kind # "export_tree" -> SqliteGroupDeleter(db, c)
      [] c.op \in {"remove", "delete_leaves", "clear"} -> SqliteListDeleter(db, c)
      [] c.op \in {"write_key", "write_epoch"} -> SqliteObjectSetter(db, c)
      [] c.op \in {"delete_key", "delete_epoch"} -> SqliteObjectDeleter(db, c)

--------------------------------------------------------------------------------
(* The getters.  Proposals come back in no particular order, own leaf      *)
(* nodes in the order of their ids.                                        *)

SqliteHasGroupData(db, g, kind) == <<g, kind>> \in DOMAIN db.groupData
SqliteGroupData(db, g, kind) == db.groupData[<<g, kind>>]
SqliteQueuedProposals(db, g) == {k[2] : k \in {r \in DOMAIN db.proposals : r[1] = g}}
SqliteOwnLeafNodes(db, g) ==
    LET rows == SelectSeq(db.ownLeafNodes, LAMBDA row : row[1] = g)
    IN  [i \in DOMAIN rows |-> rows[i][2]]
SqliteHasKeyed(db, kind, k) ==
    k \in DOMAIN (CASE kind = "signature_key_pair" -> db.signatureKeys
                    [] kind = "encryption_key_pair" -> db.encryptionKeys
                    [] kind = "key_package" -> db.keyPackages
                    [] kind = "psk" -> db.psks)
SqliteEpochKeyPairs(db, g, e, l) == Listed(db.epochKeyPairs, <<g, e, l>>)

--------------------------------------------------------------------------------
(* The virtual-client tables of openmls_sqlite_storage: sets of rows, each  *)
(* with the primary key its migration declares.  A write is an INSERT that  *)
(* on a conflict of the key updates the columns it lists.                   *)

EmptyVcTables ==
    [vc_derivation_epoch_secrets |-> {}, vc_operation_trees |-> {}, vc_emulation_bindings |-> {},
     vc_derivation_epoch_log_entries |-> {}, vc_retained_key_package_material |-> {}]

\* secret_type has one value, so epoch_id is the key.
StoreState(t, e, state) ==
    [t EXCEPT !.vc_derivation_epoch_secrets =
        {r \in @ : r.epoch_id # e} \cup {[epoch_id |-> e, vc_secret |-> state]}]

LoadState(t, e) == {r.vc_secret : r \in {r \in t.vc_derivation_epoch_secrets : r.epoch_id = e}}

StoreTree(t, e, tree) ==
    [t EXCEPT !.vc_operation_trees =
        {r \in @ : r.epoch_id # e} \cup {[epoch_id |-> e, operation_tree |-> tree]}]

LoadTree(t, e) == {r.operation_tree : r \in {r \in t.vc_operation_trees : r.epoch_id = e}}

StoreBinding(t, g, ge, e) ==
    [t EXCEPT !.vc_emulation_bindings =
        {r \in @ : <<r.group_id, r.group_epoch>> # <<g, ge>>}
            \cup {[group_id |-> g, group_epoch |-> ge, epoch_id |-> e,
                   binding |-> [group_epoch |-> ge, epoch_id |-> e]]}]

LoadBinding(t, g, ge) ==
    {r.binding.epoch_id : r \in {r \in t.vc_emulation_bindings :
                                    r.group_id = g /\ r.group_epoch = ge}}

LoadBindings(t, g) == {r.binding : r \in {r \in t.vc_emulation_bindings : r.group_id = g}}

DeleteBindings(t, g, epochs) ==
    [t EXCEPT !.vc_emulation_bindings = {r \in @ : ~(r.group_id = g /\ r.group_epoch \in epochs)}]

DeleteAllBindings(t, g) == [t EXCEPT !.vc_emulation_bindings = {r \in @ : r.group_id # g}]

StoreLogEntry(t, g, e, entry) ==
    [t EXCEPT !.vc_derivation_epoch_log_entries =
        {r \in @ : <<r.group_id, r.epoch_id>> # <<g, e>>}
            \cup {[group_id |-> g, epoch_id |-> e, entry |-> entry]}]

LoadLogEntries(t, g) == {r.entry : r \in {r \in t.vc_derivation_epoch_log_entries : r.group_id = g}}

DeleteLogEntries(t, g, epochs) ==
    [t EXCEPT !.vc_derivation_epoch_log_entries =
        {r \in @ : ~(r.group_id = g /\ r.epoch_id \in epochs)}]

DeleteLog(t, g) == [t EXCEPT !.vc_derivation_epoch_log_entries = {r \in @ : r.group_id # g}]

StoreMaterial(t, e, refs) ==
    [t EXCEPT !.vc_retained_key_package_material =
        {r \in @ : r.key_package_ref \notin refs}
            \cup {[key_package_ref |-> ref, epoch_id |-> e] : ref \in refs}]

LoadMaterial(t, ref) ==
    {r.epoch_id : r \in {r \in t.vc_retained_key_package_material : r.key_package_ref = ref}}

DeleteMaterial(t, ref) ==
    [t EXCEPT !.vc_retained_key_package_material = {r \in @ : r.key_package_ref # ref}]

\* Leaves the table of the bindings out of the query.
MutantSqlSweep(t) ==
    LET named == {r.epoch_id : r \in t.vc_derivation_epoch_log_entries}
                     \cup {r.epoch_id : r \in t.vc_retained_key_package_material}
    IN  [t EXCEPT !.vc_derivation_epoch_secrets = {r \in @ : r.epoch_id \in named},
                  !.vc_operation_trees = {r \in @ : r.epoch_id \in named}]

\* The candidates no row of the three other tables names, deleted one by one.
\* The statements run in the transaction of the caller.
SqlSweep(t) ==
    LET candidates == {r.epoch_id : r \in t.vc_derivation_epoch_secrets}
                          \cup {r.epoch_id : r \in t.vc_operation_trees}
        named == {r.epoch_id : r \in t.vc_derivation_epoch_log_entries}
                     \cup {r.epoch_id : r \in t.vc_emulation_bindings}
                     \cup {r.epoch_id : r \in t.vc_retained_key_package_material}
        unreferenced == candidates \ named
    IN  [t EXCEPT !.vc_derivation_epoch_secrets = {r \in @ : r.epoch_id \notin unreferenced},
                  !.vc_operation_trees = {r \in @ : r.epoch_id \notin unreferenced}]

(* The methods of the provider are one statement each, but for these two.  *)
\* What was retained for the reference goes before the key package.
SqlDeleteKeyPackage(t, ref) == DeleteMaterial(t, ref)

SqlWriteMaterials(t, e, tree, refs) == StoreMaterial(StoreTree(t, e, tree), e, refs)

--------------------------------------------------------------------------------
(* openmls_sqlx_storage: the asynchronous SQLite provider.  Its tables are *)
(* those of openmls_sqlite_storage without the version column, but its     *)
(* statements are its own: every one of them is INSERT OR REPLACE, and the *)
(* table of own leaf nodes has the group as its primary key.               *)
(*                                                                         *)
(* Every method locks the connection, runs one statement and returns, so a *)
(* call is one step.  Several calls are one step only inside a transaction *)
(* the application opens.                                                  *)

EmptySqlx ==
    [groupData |-> << >>, proposals |-> << >>, ownLeafNode |-> << >>,
     epochKeyPairs |-> << >>, objects |-> << >>]

--------------------------------------------------------------------------------
(* The statements.                                                         *)

SqlxStoreGroupData(db, g, kind, v) == [db EXCEPT !.groupData = Put(@, <<g, kind>>, v)]
SqlxStoreLeafNode(db, g, leaf) == [db EXCEPT !.ownLeafNode = Put(@, g, leaf)]
SqlxStoreProposal(db, g, ref) == [db EXCEPT !.proposals = Put(@, <<g, ref>>, ref)]
SqlxStoreEpochKeyPairs(db, g, e, l, v) == [db EXCEPT !.epochKeyPairs = Put(@, <<g, e, l>>, v)]
SqlxStoreObject(db, kind, k, v) == [db EXCEPT !.objects = Put(@, <<kind, k>>, v)]

(* The DELETE statements that start from a group id.                       *)
SqlxDropOfGroup(db, c) ==
    CASE c.op = "clear" ->
             [db EXCEPT !.proposals = Restrict(@, {k \in DOMAIN @ : k[1] # c.g})]
      [] c.op = "remove" -> [db EXCEPT !.proposals = Drop(@, <<c.g, c.ref>>)]
      [] c.op = "delete_leaves" -> [db EXCEPT !.ownLeafNode = Drop(@, c.g)]
      [] c.op = "delete" -> [db EXCEPT !.groupData = Drop(@, <<c.g, c.kind>>)]
      [] c.op = "delete_epoch" -> [db EXCEPT !.epochKeyPairs = Drop(@, <<c.g, c.e, c.l>>)]

(* The DELETE statements of the four tables of objects.                    *)
SqlxDropObject(db, kind, k) == [db EXCEPT !.objects = Drop(@, <<kind, k>>)]

--------------------------------------------------------------------------------
(* The provider's methods.                                                 *)

SqlxListSetter(db, c) ==
    IF c.op = "append_leaf" THEN SqlxStoreLeafNode(db, c.g, c.v)
    ELSE SqlxStoreProposal(db, c.g, c.ref)

SqlxGroupSetter(db, c) == SqlxStoreGroupData(db, c.g, c.kind, c.v)

SqlxExportTree(db, c) ==
    IF c.op = "write" THEN SqlxStoreGroupData(db, c.g, c.kind, c.v) ELSE SqlxDropOfGroup(db, c)

SqlxObjectSetter(db, c) ==
    IF c.op = "write_epoch" THEN SqlxStoreEpochKeyPairs(db, c.g, c.e, c.l, c.v)
    ELSE SqlxStoreObject(db, c.kind, c.k, c.v)

SqlxGroupDeleter(db, c) == SqlxDropOfGroup(db, c)

SqlxObjectDeleter(db, c) ==
    IF c.op = "delete_epoch" THEN SqlxDropOfGroup(db, c) ELSE SqlxDropObject(db, c.kind, c.k)

SqlxCall(db, c) ==
    CASE c.op \in {"append_leaf", "queue"} -> SqlxListSetter(db, c)
      [] c.op \in {"write", "delete"} /\ c.kind = "export_tree" -> SqlxExportTree(db, c)
      [] c.op = "write" /\ c.kind # "export_tree" -> SqlxGroupSetter(db, c)
      [] c.op = "delete" /\ c.kind # "export_tree" -> SqlxGroupDeleter(db, c)
      [] c.op \in {"remove", "delete_leaves", "clear"} -> SqlxGroupDeleter(db, c)
      [] c.op \in {"write_key", "write_epoch"} -> SqlxObjectSetter(db, c)
      [] c.op \in {"delete_key", "delete_epoch"} -> SqlxObjectDeleter(db, c)

--------------------------------------------------------------------------------
(* The getters.                                                            *)

SqlxHasGroupData(db, g, kind) == <<g, kind>> \in DOMAIN db.groupData
SqlxGroupData(db, g, kind) == db.groupData[<<g, kind>>]
SqlxQueuedProposals(db, g) == {k[2] : k \in {r \in DOMAIN db.proposals : r[1] = g}}
SqlxOwnLeafNodes(db, g) == IF g \in DOMAIN db.ownLeafNode THEN <<db.ownLeafNode[g]>> ELSE << >>
SqlxHasKeyed(db, kind, k) == <<kind, k>> \in DOMAIN db.objects
SqlxEpochKeyPairs(db, g, e, l) == Listed(db.epochKeyPairs, <<g, e, l>>)
================================================================================
