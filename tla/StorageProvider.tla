---------------------------- MODULE StorageProvider ----------------------------
(***************************************************************************)
(* The contract of openmls_traits::storage::StorageProvider: what a store  *)
(* keeps and what each call does to it, without saying how it is kept.     *)
(*                                                                         *)
(* A store is a value and a call is a record; Call(st, c) is the store     *)
(* after the call.  The four parts of a store are the single values kept   *)
(* per group (one per kind of data), the two per-group lists (own leaf     *)
(* nodes and queued proposals), the HPKE key pairs of one (group, epoch,   *)
(* leaf), and the objects found by a key of their own.  A missing entry is *)
(* a key outside the domain: the getters' Ok(None).                        *)
(***************************************************************************)
EXTENDS Naturals, Sequences, Functions, TLC

(* The values any client of a PublicGroup needs, and those of a member.    *)
PublicKinds == {"tree", "tag", "context", "hash"}
MemberKinds == {"state", "message_secrets", "psk_store", "own_index", "epoch_secrets"}
OtherKinds == {"config", "export_tree"}
GroupKinds == PublicKinds \cup MemberKinds \cup OtherKinds

(* The objects that are not filed under a group.                           *)
KeyKinds == {"signature_key_pair", "encryption_key_pair", "key_package", "psk"}

Put(f, k, v) == (k :> v) @@ f
Drop(f, k) == Restrict(f, DOMAIN f \ {k})
Listed(f, k) == IF k \in DOMAIN f THEN f[k] ELSE << >>

EmptyStore ==
    [data |-> << >>, leaves |-> << >>, queue |-> {}, epochKeys |-> << >>, keyed |-> << >>]

--------------------------------------------------------------------------------
(* Setters.  A setter replaces; only own leaf nodes and proposals add to a *)
(* list.                                                                   *)

WriteGroupData(st, g, kind, v) == [st EXCEPT !.data = Put(@, <<g, kind>>, v)]

AppendOwnLeafNode(st, g, leaf) ==
    [st EXCEPT !.leaves = Put(@, g, Append(Listed(@, g), leaf))]

QueueProposal(st, g, ref) == [st EXCEPT !.queue = @ \cup {<<g, ref>>}]

WriteKeyed(st, kind, k, v) == [st EXCEPT !.keyed = Put(@, <<kind, k>>, v)]

WriteEpochKeyPairs(st, g, e, l, v) == [st EXCEPT !.epochKeys = Put(@, <<g, e, l>>, v)]

(* Deleters.  Deleting what is not there does nothing.                     *)

RemoveProposal(st, g, ref) == [st EXCEPT !.queue = @ \ {<<g, ref>>}]

DeleteOwnLeafNodes(st, g) == [st EXCEPT !.leaves = Drop(@, g)]

DeleteGroupData(st, g, kind) == [st EXCEPT !.data = Drop(@, <<g, kind>>)]

ClearProposalQueue(st, g) == [st EXCEPT !.queue = {q \in @ : q[1] # g}]

DeleteKeyed(st, kind, k) == [st EXCEPT !.keyed = Drop(@, <<kind, k>>)]

DeleteEpochKeyPairs(st, g, e, l) == [st EXCEPT !.epochKeys = Drop(@, <<g, e, l>>)]

(* Getters.                                                                *)

HasGroupData(st, g, kind) == <<g, kind>> \in DOMAIN st.data
GroupData(st, g, kind) == st.data[<<g, kind>>]
OwnLeafNodes(st, g) == Listed(st.leaves, g)
QueuedProposals(st, g) == {q[2] : q \in {p \in st.queue : p[1] = g}}
HasKeyed(st, kind, k) == <<kind, k>> \in DOMAIN st.keyed
EpochKeyPairs(st, g, e, l) == Listed(st.epochKeys, <<g, e, l>>)

--------------------------------------------------------------------------------
(* A call is a record whose field op names the method (or the family of    *)
(* methods that differ only in the kind of data).                          *)

WriteCall(g, kind, v) == [op |-> "write", g |-> g, kind |-> kind, v |-> v]
DeleteCall(g, kind) == [op |-> "delete", g |-> g, kind |-> kind]
AppendLeafCall(g, leaf) == [op |-> "append_leaf", g |-> g, v |-> leaf]
DeleteLeavesCall(g) == [op |-> "delete_leaves", g |-> g]
QueueCall(g, ref) == [op |-> "queue", g |-> g, ref |-> ref]
RemoveCall(g, ref) == [op |-> "remove", g |-> g, ref |-> ref]
ClearCall(g) == [op |-> "clear", g |-> g]
WriteEpochCall(g, e, l, v) == [op |-> "write_epoch", g |-> g, e |-> e, l |-> l, v |-> v]
DeleteEpochCall(g, e, l) == [op |-> "delete_epoch", g |-> g, e |-> e, l |-> l]
WriteKeyCall(kind, k, v) == [op |-> "write_key", kind |-> kind, k |-> k, v |-> v]
DeleteKeyCall(kind, k) == [op |-> "delete_key", kind |-> kind, k |-> k]

Call(st, c) ==
    CASE c.op = "write" -> WriteGroupData(st, c.g, c.kind, c.v)
      [] c.op = "delete" -> DeleteGroupData(st, c.g, c.kind)
      [] c.op = "append_leaf" -> AppendOwnLeafNode(st, c.g, c.v)
      [] c.op = "delete_leaves" -> DeleteOwnLeafNodes(st, c.g)
      [] c.op = "queue" -> QueueProposal(st, c.g, c.ref)
      [] c.op = "remove" -> RemoveProposal(st, c.g, c.ref)
      [] c.op = "clear" -> ClearProposalQueue(st, c.g)
      [] c.op = "write_epoch" -> WriteEpochKeyPairs(st, c.g, c.e, c.l, c.v)
      [] c.op = "delete_epoch" -> DeleteEpochKeyPairs(st, c.g, c.e, c.l)
      [] c.op = "write_key" -> WriteKeyed(st, c.kind, c.k, c.v)
      [] c.op = "delete_key" -> DeleteKeyed(st, c.kind, c.k)
================================================================================
