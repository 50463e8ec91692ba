----------------------------- MODULE SecretTree -----------------------------
(***************************************************************************)
(* The ratchet of the own leaf when virtual clients are enabled            *)
(* (openmls/src/tree/dual_use_ratchet.rs): several sibling clients send    *)
(* through one leaf, so a client encrypts with it and also decrypts what   *)
(* its siblings sent.                                                      *)
(*                                                                         *)
(* past_secrets maps a generation to what is kept of it: the key of an own *)
(* send that was not confirmed yet, the key of a generation that was       *)
(* skipped, or the mark that the key was used.                             *)
(***************************************************************************)
EXTENDS TreeMath, KeySchedule, SenderRatchet, FiniteSetsExt, Functions, TLC

AwaitingConfirmation(key) == [state |-> "AwaitingConfirmation", key |-> key]

Available(key) == [state |-> "Available", key |-> key]

Consumed == [state |-> "Consumed", key |-> Taken]

IsRetainedForDecryption(entry) == entry.state \in {"Available", "Consumed"}

NewDualUseRatchet ==
  [past_secrets |-> <<>>, ratchet_head |-> InitialRatchetSecret, pruned_below |-> 0]

\* Confirming a send drops its key; what was received in its place stays.
DeleteSecretForGeneration(r, generation) ==
  IF /\ generation < r.ratchet_head
     /\ generation \in DOMAIN r.past_secrets
     /\ r.past_secrets[generation].state = "AwaitingConfirmation"
  THEN [r EXCEPT !.past_secrets = Restrict(@, DOMAIN @ \ {generation})]
  ELSE r

\* The key is kept until the send is confirmed, whatever the window.
DualSecretForEncryption(r) ==
  [r EXCEPT !.past_secrets = (r.ratchet_head :> AwaitingConfirmation(r.ratchet_head)) @@ @,
            !.ratchet_head = RatchetForward(@)]

\* Takes every missing generation for an own send that was confirmed.
MutantMissingPastSecret(r, generation) == "OwnMessageConfirmed"

\* A missing generation was pruned or confirmed: below the bound it is not
\* known which.
MissingPastSecret(r, generation) ==
  IF generation < r.pruned_below THEN "TooDistantInThePast" ELSE "OwnMessageConfirmed"

\* What peek returns: "Ok", or the reason why there is no key.
DualPeekResult(r, generation, cfg) ==
  CASE TooDistantInTheFuture(r, generation, cfg) -> "TooDistantInTheFuture"
    [] generation >= r.ratchet_head ->
         IF generation = MaxGeneration THEN "RatchetTooLong" ELSE "Ok"
    [] generation \notin DOMAIN r.past_secrets -> MissingPastSecret(r, generation)
    [] r.past_secrets[generation].state = "Consumed" -> "SecretReuseError"
    [] OTHER -> "Ok"

DualPeekedSecret(r, generation) ==
  IF generation >= r.ratchet_head THEN generation ELSE r.past_secrets[generation].key

\* The oldest entries kept for decryption go when there are more of them than
\* the tolerance; own sends that await their confirmation do not count.
PrunePastSecrets(r, cfg) ==
  LET retained == {g \in DOMAIN r.past_secrets : IsRetainedForDecryption(r.past_secrets[g])}
      newer(g) == Cardinality({h \in retained : h > g})
      pruned == {g \in retained : newer(g) >= cfg.out_of_order_tolerance}
  IN [r EXCEPT !.past_secrets = Restrict(@, DOMAIN @ \ pruned),
               !.pruned_below = Max({@} \cup {g + 1 : g \in pruned})]

\* A forward step keeps the keys of all generations it skips, then prunes.
DualConsume(r, generation, cfg) ==
  PrunePastSecrets(
    IF generation >= r.ratchet_head
    THEN [r EXCEPT !.ratchet_head = RatchetForward(generation),
                   !.past_secrets =
                     (generation :> Consumed)
                     @@ [g \in r.ratchet_head .. (generation - 1) |-> Available(g)] @@ @]
    ELSE [r EXCEPT !.past_secrets[generation] = Consumed],
    cfg)

-----------------------------------------------------------------------------
(***************************************************************************)
(* The secret tree of an epoch (openmls/src/tree/secret_tree.rs).  Nodes   *)
(* hold secrets only as long as they are needed: asking for the ratchets   *)
(* of a leaf derives the secrets down to it and blanks what is above.      *)
(*                                                                         *)
(* Secrets are terms (KeySchedule).  A tree is a record of its own leaf,   *)
(* its size, the secrets of its nodes and the ratchets initialized so far, *)
(* both partial functions; dual_use says whether the build has virtual     *)
(* clients, which give the own leaf a ratchet that also decrypts.          *)
(***************************************************************************)

SecretTypeOf(content_type) ==
  IF content_type = "Application" THEN "ApplicationSecret" ELSE "HandshakeSecret"

DeriveChildSecrets(secret) ==
  [left |-> KdfExpandLabel(secret, "tree", "left"), right |-> KdfExpandLabel(secret, "tree", "right")]

NewSecretTree(encryption_secret, size, own_index, dual_use) ==
  [own_index |-> own_index, size |-> size, dual_use |-> dual_use,
   nodes |-> Root(size) :> encryption_secret, ratchets |-> <<>>]

\* Keeps the secret of the parent.
MutantDeriveDown(tree, node) ==
  LET children == DeriveChildSecrets(tree.nodes[node])
  IN [tree EXCEPT !.nodes = (Left(node) :> children.left) @@ (Right(node) :> children.right) @@ @]

\* The children of a node get their secrets and the node is blanked.
DeriveDown(tree, node) ==
  LET children == DeriveChildSecrets(tree.nodes[node])
  IN [tree EXCEPT !.nodes = (Left(node) :> children.left) @@ (Right(node) :> children.right)
                            @@ Restrict(@, DOMAIN @ \ {node})]

\* The nodes to derive down for a leaf: its direct path up to the first node
\* that has a secret, from the top.
NodesToDerive(tree, leaf) ==
  LET path == DirectPath(leaf, tree.size)
      filled == {i \in DOMAIN path : path[i] \in DOMAIN tree.nodes}
  IN IF LeafNode(leaf) \in DOMAIN tree.nodes THEN <<>>
     ELSE Reverse(SubSeq(path, 1, IF filled = {} THEN Len(path) ELSE Min(filled)))

RatchetKind(tree, leaf) ==
  IF leaf # tree.own_index THEN "DecryptionRatchet"
  ELSE IF tree.dual_use THEN "DualUse" ELSE "EncryptionRatchet"

NewRatchet(kind, secret) ==
  [kind |-> kind, secret |-> secret,
   state |-> CASE kind = "DecryptionRatchet" -> NewDecryptionRatchet
               [] kind = "DualUse" -> NewDualUseRatchet
               [] kind = "EncryptionRatchet" -> [ratchet_head |-> InitialRatchetSecret]]

IsInitialized(tree, leaf, type) == <<leaf, type>> \in DOMAIN tree.ratchets

\* The tree with both ratchets of a leaf, or nothing if there is no secret to
\* derive them from or no such leaf.
InitializeSenderRatchets(tree, leaf) ==
  LET nodes == NodesToDerive(tree, leaf)
      derived == FoldLeft(DeriveDown, tree, nodes)
      node_secret == derived.nodes[LeafNode(leaf)]
      kind == RatchetKind(tree, leaf)
  IN CASE leaf >= LeafCount(tree.size) -> {}
       [] IsInitialized(tree, leaf, "HandshakeSecret") /\ IsInitialized(tree, leaf, "ApplicationSecret") -> {tree}
       [] nodes # <<>> /\ nodes[1] \notin DOMAIN tree.nodes -> {}
       [] OTHER ->
            {[derived EXCEPT
                !.ratchets =
                  (<<leaf, "HandshakeSecret">> :> NewRatchet(kind, DeriveSecret(node_secret, "handshake")))
                  @@ (<<leaf, "ApplicationSecret">> :> NewRatchet(kind, DeriveSecret(node_secret, "application")))
                  @@ @,
                !.nodes = Restrict(@, DOMAIN @ \ {LeafNode(leaf)})]}

\* Ratchets are initialized when they are first asked for.
WithRatchets(tree, leaf, type) ==
  IF IsInitialized(tree, leaf, type) THEN {tree} ELSE InitializeSenderRatchets(tree, leaf)

RatchetKey(ratchet, generation) == <<"key", ratchet.secret, generation>>

\* What looking up the key of a generation gives, in the ratchet's own way.
PeekRatchet(r, generation, cfg) ==
  CASE r.kind = "EncryptionRatchet" -> "RatchetTypeError"
    [] r.kind = "DecryptionRatchet" -> PeekResult(r.state, generation, cfg)
    [] r.kind = "DualUse" -> DualPeekResult(r.state, generation, cfg)

Prepared(tree, r, generation, result) ==
  [tree |-> tree, result |-> result,
   key |-> IF result # "Ok" THEN Zero
           ELSE RatchetKey(r, IF r.kind = "DualUse" THEN DualPeekedSecret(r.state, generation)
                              ELSE PeekedSecret(r.state, generation))]

\* prepare_decryption: looks up the key of a generation without using it up.
PrepareDecryption(tree, leaf, type, generation, cfg) ==
  LET ready == {Prepared(t, t.ratchets[<<leaf, type>>], generation,
                         PeekRatchet(t.ratchets[<<leaf, type>>], generation, cfg)) :
                  t \in WithRatchets(tree, leaf, type)}
  IN IF ready = {} THEN [tree |-> tree, result |-> "IndexOutOfBounds", key |-> Zero]
     ELSE CHOOSE prepared \in ready : TRUE

\* apply_decryption_update: marks the generation as used.
ApplyDecryptionUpdate(tree, leaf, type, generation, cfg) ==
  [tree EXCEPT !.ratchets[<<leaf, type>>].state =
     IF tree.ratchets[<<leaf, type>>].kind = "DualUse"
     THEN DualConsume(@, generation, cfg) ELSE Consume(@, generation, cfg)]

\* The next key of the own leaf, with the tree that has moved past it.
SecretForEncryption(tree, type) ==
  {LET r == t.ratchets[<<t.own_index, type>>]
   IN [generation |-> r.state.ratchet_head,
       key |-> RatchetKey(r, r.state.ratchet_head),
       tree |-> [t EXCEPT !.ratchets[<<t.own_index, type>>].state =
                   IF r.kind = "DualUse" THEN DualSecretForEncryption(@)
                   ELSE [@ EXCEPT !.ratchet_head = RatchetForward(@)]]] :
     t \in {t \in WithRatchets(tree, tree.own_index, type) :
              CanRatchetForward(t.ratchets[<<t.own_index, type>>].state.ratchet_head)}}

DeleteOwnSecretForGeneration(tree, type, generation) ==
  IF IsInitialized(tree, tree.own_index, type) /\ tree.ratchets[<<tree.own_index, type>>].kind = "DualUse"
  THEN [tree EXCEPT !.ratchets[<<tree.own_index, type>>].state = DeleteSecretForGeneration(@, generation)]
  ELSE tree

-----------------------------------------------------------------------------
(* What a secret tree must hold.                                           *)

\* The secret of a node in the tree that is derived from the root.
DerivedSecret(encryption_secret, size, node) ==
  LET at[x \in 0..(size - 1)] ==
        IF x = Root(size) THEN encryption_secret
        ELSE LET children == DeriveChildSecrets(at[Parent(x)])
             IN IF x = Left(Parent(x)) THEN children.left ELSE children.right
  IN at[node]

\* A leaf has its ratchets, made from the right secret, or exactly one node on
\* its way to the root has its secret, which is the right one.
IsForwardSecure(tree, encryption_secret) ==
  \A leaf \in 0..(LeafCount(tree.size) - 1) :
    LET path == {LeafNode(leaf)} \cup Range(DirectPath(leaf, tree.size))
        held == path \cap DOMAIN tree.nodes
        secret == DerivedSecret(encryption_secret, tree.size, LeafNode(leaf))
    IN IF IsInitialized(tree, leaf, "HandshakeSecret") \/ IsInitialized(tree, leaf, "ApplicationSecret")
       THEN /\ held = {}
            /\ tree.ratchets[<<leaf, "HandshakeSecret">>].secret = DeriveSecret(secret, "handshake")
            /\ tree.ratchets[<<leaf, "ApplicationSecret">>].secret = DeriveSecret(secret, "application")
       ELSE /\ Cardinality(held) = 1
            /\ \A node \in held : tree.nodes[node] = DerivedSecret(encryption_secret, tree.size, node)
=============================================================================
