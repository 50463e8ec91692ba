----------------------------- MODULE MemoryStorage -----------------------------
(***************************************************************************)
(* openmls_memory_storage: every entry of the store lives in one hash map. *)
(* A map key is a label followed by the serialized key of the entry; a     *)
(* list is one entry that holds the whole list.                            *)
(*                                                                         *)
(* The serialized key of a group, of a pair or of an object is opaque here *)
(* (JSON of distinct values is distinct), except in epoch_key_pairs_id:    *)
(* the JSON of the epoch and of the leaf index are put one after the other *)
(* with nothing in between, so a key is the group and one row of digits.   *)
(***************************************************************************)
EXTENDS StorageProvider, FiniteSets

EmptyMemory == << >>

--------------------------------------------------------------------------------
(* The helpers every method is written with.                               *)

Write(m, label, key, v) == Put(m, <<label, key>>, v)

AppendItem(m, label, key, v) == Put(m, <<label, key>>, Append(Listed(m, <<label, key>>), v))

(* A removed item leaves the (possibly empty) list behind.                 *)
RemoveItem(m, label, key, v) ==
    LET list == Listed(m, <<label, key>>)
        hits == {i \in DOMAIN list : list[i] = v}
        pos == CHOOSE i \in hits : \A j \in hits : i <= j
    IN  Put(m, <<label, key>>,
            IF hits = {} THEN list
            ELSE SubSeq(list, 1, pos - 1) \o SubSeq(list, pos + 1, Len(list)))

Has(m, label, key) == <<label, key>> \in DOMAIN m
ReadList(m, label, key) == Listed(m, <<label, key>>)
Delete(m, label, key) == Drop(m, <<label, key>>)

(* Decimal digits, most significant first: the JSON of a number.           *)
Digits[n \in Nat] == IF n < 10 THEN <<n>> ELSE Append(Digits[n \div 10], n % 10)

MutantEpochKeyPairsId(g, e, l) == <<g, Digits[l]>>

EpochKeyPairsId(g, e, l) == <<g, Digits[e] \o Digits[l]>>

--------------------------------------------------------------------------------
(* The methods.                                                            *)

MemWriteGroupData(m, g, kind, v) == Write(m, kind, g, v)

MemDeleteGroupData(m, g, kind) == Delete(m, kind, g)

(* The five values only a member has come as getter, setter and deleter.   *)
MemMemberData(m, c) ==
    IF c.op = "write" THEN Write(m, c.kind, c.g, c.v) ELSE Delete(m, c.kind, c.g)

MemExportTree(m, c) ==
    IF c.op = "write" THEN Write(m, c.kind, c.g, c.v) ELSE Delete(m, c.kind, c.g)

MemAppendOwnLeafNode(m, g, leaf) == AppendItem(m, "own_leaf_nodes", g, leaf)

MemDeleteOwnLeafNodes(m, g) == Delete(m, "own_leaf_nodes", g)

(* The proposal under its own key, and its reference in the group's list,  *)
(* whether or not the list has it.                                         *)
MemQueueProposal(m, g, ref) ==
    AppendItem(Write(m, "queued_proposal", <<g, ref>>, ref), "proposal_refs", g, ref)

MemRemoveProposal(m, g, ref) ==
    Delete(RemoveItem(m, "proposal_refs", g, ref), "queued_proposal", <<g, ref>>)

MemClearProposalQueue(m, g) ==
    LET refs == ReadList(m, "proposal_refs", g)
        gone == {<<"queued_proposal", <<g, refs[i]>>>> : i \in DOMAIN refs}
    IN  Restrict(m, DOMAIN m \ (gone \cup {<<"proposal_refs", g>>}))

MemWriteKeyed(m, kind, k, v) == Write(m, kind, k, v)

MemDeleteKeyed(m, kind, k) == Delete(m, kind, k)

MemWriteEpochKeyPairs(m, g, e, l, v) == Write(m, "epoch_key_pairs", EpochKeyPairsId(g, e, l), v)

MemDeleteEpochKeyPairs(m, g, e, l) == Delete(m, "epoch_key_pairs", EpochKeyPairsId(g, e, l))

MemCall(m, c) ==
    CASE c.op \in {"write", "delete"} /\ c.kind \in MemberKinds -> MemMemberData(m, c)
      [] c.op \in {"write", "delete"} /\ c.kind = "export_tree" -> MemExportTree(m, c)
      [] c.op = "write" /\ c.kind \in PublicKinds \cup {"config"} ->
             MemWriteGroupData(m, c.g, c.kind, c.v)
      [] c.op = "delete" /\ c.kind \in PublicKinds \cup {"config"} ->
             MemDeleteGroupData(m, c.g, c.kind)
      [] c.op = "append_leaf" -> MemAppendOwnLeafNode(m, c.g, c.v)
      [] c.op = "delete_leaves" -> MemDeleteOwnLeafNodes(m, c.g)
      [] c.op = "queue" -> MemQueueProposal(m, c.g, c.ref)
      [] c.op = "remove" -> MemRemoveProposal(m, c.g, c.ref)
      [] c.op = "clear" -> MemClearProposalQueue(m, c.g)
      [] c.op = "write_epoch" -> MemWriteEpochKeyPairs(m, c.g, c.e, c.l, c.v)
      [] c.op = "delete_epoch" -> MemDeleteEpochKeyPairs(m, c.g, c.e, c.l)
      [] c.op = "write_key" -> MemWriteKeyed(m, c.kind, c.k, c.v)
      [] c.op = "delete_key" -> MemDeleteKeyed(m, c.kind, c.k)

--------------------------------------------------------------------------------
(* The getters.                                                            *)

MemHasGroupData(m, g, kind) == Has(m, kind, g)
MemGroupData(m, g, kind) == m[<<kind, g>>]
MemOwnLeafNodes(m, g) == ReadList(m, "own_leaf_nodes", g)
MemQueuedProposalRefs(m, g) == ReadList(m, "proposal_refs", g)
MemHasKeyed(m, kind, k) == Has(m, kind, k)
MemEpochKeyPairs(m, g, e, l) == ReadList(m, "epoch_key_pairs", EpochKeyPairsId(g, e, l))

(* queued_proposals looks every listed reference up and unwraps the result:*)
(* it returns only if each one has its proposal.                           *)
MemQueuedProposalsReturn(m, g) ==
    LET refs == MemQueuedProposalRefs(m, g)
    IN  \A i \in DOMAIN refs : Has(m, "queued_proposal", <<g, refs[i]>>)

--------------------------------------------------------------------------------
(* The virtual-client entries of openmls_memory_storage: rows of its one    *)
(* hash map.  A key is a label followed by one or two serialized parts.  A  *)
(* binding and a log entry are stored next to the derivation epoch they     *)
(* name (epoch_tagged_value), retained key package material has a second    *)
(* row for its epoch, so that the sweep sees every reference.               *)

MemRow(m, key, value) == (key :> value) @@ m

Without(m, keys) == Restrict(m, DOMAIN m \ keys)

\* The keys below a label.
Labelled(m, label) == {k \in DOMAIN m : k[1] = label}

MemWriteState(m, e, state) == MemRow(m, <<"state", e>>, state)

MemWriteTree(m, e, tree) == MemRow(m, <<"tree", e>>, tree)

MemHas(m, label, key) == <<label, key>> \in DOMAIN m

MemRead(m, label, key) == m[<<label, key>>]

MemWriteBinding(m, g, ge, e) ==
    MemRow(m, <<"binding", g, ge>>, [tag |-> e, entity |-> [group_epoch |-> ge, epoch_id |-> e]])

MemBinding(m, g, ge) ==
    {m[k].entity.epoch_id : k \in {k \in Labelled(m, "binding") : k = <<"binding", g, ge>>}}

MemBindings(m, g) == {m[k].entity : k \in {k \in Labelled(m, "binding") : k[2] = g}}

MemDeleteBindings(m, g, epochs) == Without(m, {<<"binding", g, ge>> : ge \in epochs})

MemDeleteAllBindings(m, g) == Without(m, {k \in Labelled(m, "binding") : k[2] = g})

MemWriteLogEntry(m, g, e, entry) == MemRow(m, <<"log", g, e>>, [tag |-> e, entity |-> entry])

MemLogEntries(m, g) == {m[k].entity : k \in {k \in Labelled(m, "log") : k[2] = g}}

MemDeleteLogEntries(m, g, epochs) == Without(m, {<<"log", g, e>> : e \in epochs})

MemDeleteLog(m, g) == Without(m, {k \in Labelled(m, "log") : k[2] = g})

\* One lock for the tree and all materials.
MemWriteMaterials(m, e, tree, refs) ==
    [r \in {<<"tree", e>>} |-> tree] @@
    [k \in {"material", "material_epoch"} \X refs |-> e] @@ m

MemDeleteMaterial(m, ref) == Without(m, {"material", "material_epoch"} \X {ref})

\* Deletes the key package and, with it, what was retained for its reference.
MemDeleteKeyPackage(m, ref) ==
    Without(m, {"key_package", "material", "material_epoch"} \X {ref})

AnyEntryUnderLabel(m, label, e) == \E k \in Labelled(m, label) : m[k] = e

AnyEpochTaggedUnderLabel(m, label, e) == \E k \in Labelled(m, label) : m[k].tag = e

\* A state or a tree alone makes an epoch a candidate.  One lock for the checks
\* and the deletions.
MemSweep(m) ==
    LET candidates == {k[2] : k \in Labelled(m, "state") \cup Labelled(m, "tree")}
        referenced(e) == \/ AnyEntryUnderLabel(m, "material_epoch", e)
                         \/ AnyEpochTaggedUnderLabel(m, "log", e)
                         \/ AnyEpochTaggedUnderLabel(m, "binding", e)
    IN  Without(m, {"state", "tree"} \X {e \in candidates : ~referenced(e)})
================================================================================
