------------------------------ MODULE VcSecrets ------------------------------
(***************************************************************************)
(* The secrets of a virtual client, as terms: a secret is the tuple of the  *)
(* secret it was derived from, the label and the context (the KDF and the   *)
(* AEAD are ideal).  A context starts with a tag for its structure.         *)
(***************************************************************************)
EXTENDS TreeMath, FiniteSets, TLC, FiniteSetsExt

Derive(secret, label, context) == <<secret, label, context>>

\* Extracts under the target's ciphersuite, even when it is the same.
ImportSecret(secret, suite, label, context) ==
    Derive(Derive(secret, "extract", <<suite>>), label, context)

--------------------------------------------------------------------------------
(* Secrets of a derivation epoch, from the exporter of the emulation group. *)

EmulatorEpochSecret(e) == <<"safe export", e>>

EpochSecretLabels ==
    [epoch_id |-> "Epoch ID", epoch_encryption_key |-> "Encryption Key",
     epoch_base_secret |-> "Base Secret", reuse_guard_secret |-> "Reuse Guard",
     generation_id_secret |-> "Generation ID Secret"]

EpochSecret(e, name) == Derive(EmulatorEpochSecret(e), EpochSecretLabels[name], << >>)

\* The key of the permutation of reuse guards, for one nonce of a message.
DerivePrpKey(e, nonce) == Derive(EpochSecret(e, "reuse_guard_secret"), "reuse guard", nonce)

\* What the delivery service compares to detect two messages of one generation.
DeriveGenerationId(e, group, epoch, generation, ratchet) ==
    Derive(EpochSecret(e, "generation_id_secret"), "generation id",
           <<"message", group, epoch, generation, ratchet>>)

--------------------------------------------------------------------------------
(* Secrets of an operation, from its coordinates k in the operation tree.   *)

\* The context of a leaf node operation is the id of the group it is for.
OperationSecret(k, context) == <<"operation", k.epoch, k.leaf, k.type, k.gen, context>>

TargetOperationSecret(k, suite, group) ==
    ImportSecret(OperationSecret(k, <<"group", group>>), suite, "vc target operation", <<"group", suite, group>>)

KeyPackageSeedSecret(k, suite, index) ==
    ImportSecret(OperationSecret(k, << >>), suite, "vc key package seed", <<"index", suite, index>>)

SeedInitKey(seed) == Derive(seed, "Init Key", << >>)

SeedEncryptionKey(seed) == Derive(seed, "Encryption Key", << >>)

GroupCreationSecret(seed) == Derive(seed, "Group Creation", << >>)

TargetEncryptionKey(target) == Derive(target, "Encryption Key", << >>)

PathGenerationSecret(target) == Derive(target, "Path Generation", << >>)

\* The public key of a pair generated from a secret.
KeyPairFrom(secret) == Derive(secret, "hpke key pair", << >>)

--------------------------------------------------------------------------------
(* The derivation info a leaf carries: coordinates sealed for the siblings.  *)

DerivationInfoTbe(k, index, external_init) ==
    IF k.type = "key_package"
    THEN [leaf_index |-> k.leaf, generation |-> k.gen, key_package_index |-> index]
    ELSE [leaf_index |-> k.leaf, generation |-> k.gen, external_init_secret |-> external_init]

\* The plaintext has no tag: the operation type selects the structure, and the
\* bytes have to be used up.
DeserializeForOperation(tbe, type) ==
    IF \/ type = "key_package" /\ "key_package_index" \in DOMAIN tbe
       \/ type = "leaf_node" /\ "external_init_secret" \in DOMAIN tbe
    THEN {tbe} ELSE {}

DeriveKeyNonce(e, leaf_key) ==
    <<Derive(EpochSecret(e, "epoch_encryption_key"), "key", leaf_key),
      Derive(EpochSecret(e, "epoch_encryption_key"), "nonce", leaf_key)>>

EncryptDerivationInfo(e, leaf_key, tbe) ==
    [epoch_id |-> e, ciphertext |-> [key_nonce |-> DeriveKeyNonce(e, leaf_key), aad |-> e, payload |-> tbe]]

DecryptDerivationInfo(info, leaf_key, type) ==
    IF /\ info.ciphertext.key_nonce = DeriveKeyNonce(info.epoch_id, leaf_key)
       /\ info.ciphertext.aad = info.epoch_id
    THEN DeserializeForOperation(info.ciphertext.payload, type) ELSE {}

-----------------------------------------------------------------------------
(***************************************************************************)
(* The operation secret tree of one derivation epoch of a virtual client.  *)
(* A secret is known by its place, so the tree holds the set of nodes whose *)
(* secret is stored and, for a leaf that was used, one ratchet per type of *)
(* operation.  A ratchet holds the generation its head derives next and the *)
(* skipped generations whose secrets it retains.                            *)
(***************************************************************************)

CONSTANTS
    MaximumForwardDistance,   \* how far ahead of the head a receiver follows
    OutOfOrderTolerance,      \* how many skipped secrets a ratchet retains
    MaxGeneration             \* the last value of the generation counter

ASSUME OperationTreeBounds ==
    {MaximumForwardDistance, OutOfOrderTolerance, MaxGeneration} \subseteq Nat

VirtualClientOperationType == {"key_package", "leaf_node", "application"}

NewOperationTree(size) == [size |-> size, nodes |-> {Root(size)}, ratchets |-> << >>]

LeafOperationRatchets ==
    [type \in VirtualClientOperationType |-> [next |-> 0, retained |-> {}]]

\* The parent's secret gives those of both children and is deleted.
DeriveDown(nodes, parent) == (nodes \ {parent}) \cup {Left(parent), Right(parent)}

\* From the closest ancestor whose secret is stored down to the leaf, whose own
\* secret is taken for its ratchets.  A leaf without one was used up: an error.
InitializeLeafRatchets(tree, leaf) ==
    LET path == <<LeafNode(leaf)>> \o DirectPath(leaf, tree.size)
        stored == {i \in DOMAIN path : path[i] \in tree.nodes}
        down[i \in 1..Len(path)] ==     \* the nodes once those above path[i] are derived
            IF i = Min(stored) THEN tree.nodes ELSE DeriveDown(down[i + 1], path[i + 1])
    IN  IF stored = {} THEN tree
        ELSE [tree EXCEPT !.nodes = down[1] \ {LeafNode(leaf)},
                          !.ratchets = (leaf :> LeafOperationRatchets) @@ @]

RatchetMut(tree, leaf) ==
    IF leaf \in DOMAIN tree.ratchets THEN tree ELSE InitializeLeafRatchets(tree, leaf)

\* One step of the head: refused at the last generation.
Advance(r) == [r EXCEPT !.next = @ + 1]

CanAdvance(r) == r.next < MaxGeneration

TooDistant(r, generation) ==
    r.next < MaxGeneration - MaximumForwardDistance /\ generation > r.next + MaximumForwardDistance

\* Whether the ratchet still has the secret of a generation.
HasGeneration(r, generation) ==
    IF generation < r.next THEN generation \in r.retained
    ELSE ~TooDistant(r, generation) /\ generation < MaxGeneration

\* Forgets the secrets it skips.
MutantGenerationSecret(r, generation) ==
    IF generation < r.next THEN [r EXCEPT !.retained = @ \ {generation}]
    ELSE Advance([r EXCEPT !.next = generation])

\* The ratchet after it gave out a generation it has: a retained secret is
\* removed, the ones skipped on the way are retained and the oldest evicted.
GenerationSecret(r, generation) ==
    IF generation < r.next THEN [r EXCEPT !.retained = @ \ {generation}]
    ELSE LET skipped == r.retained \cup (r.next..(generation - 1))
             evicted == {g \in skipped :
                          Cardinality({h \in skipped : h > g}) >= OutOfOrderTolerance}
         IN  Advance([next |-> generation, retained |-> skipped \ evicted])

CanDerive(tree, leaf, type, generation) ==
    /\ leaf < LeafCount(tree.size)
    /\ LET t == RatchetMut(tree, leaf)
       IN  leaf \in DOMAIN t.ratchets /\ HasGeneration(t.ratchets[leaf][type], generation)

DeriveOperationSecret(tree, leaf, type, generation) ==
    [RatchetMut(tree, leaf) EXCEPT !.ratchets[leaf][type] = GenerationSecret(@, generation)]

\* The generation the head gives out next.
NextGeneration(tree, leaf, type) == RatchetMut(tree, leaf).ratchets[leaf][type].next

NextOperationSecret(tree, leaf, type) ==
    [RatchetMut(tree, leaf) EXCEPT !.ratchets[leaf][type] = Advance(@)]

\* The head allocates with a step, which the last generation refuses.
CanAllocate(tree, leaf, type) ==
    /\ leaf < LeafCount(tree.size)
    /\ LET t == RatchetMut(tree, leaf)
       IN  leaf \in DOMAIN t.ratchets /\ CanAdvance(t.ratchets[leaf][type])

--------------------------------------------------------------------------------

\* Whether the stored tree still determines the secret of a generation: through
\* a node above the leaf, through the head of its ratchet or as a retained one.
\* This is about the secrets, whatever the code would agree to derive.
Determines(tree, leaf, type, generation) ==
    \/ \E i \in DOMAIN DirectPath(leaf, tree.size) : DirectPath(leaf, tree.size)[i] \in tree.nodes
    \/ LeafNode(leaf) \in tree.nodes
    \/ /\ leaf \in DOMAIN tree.ratchets
       /\ LET r == tree.ratchets[leaf][type]
          IN  generation >= r.next \/ generation \in r.retained
================================================================================
