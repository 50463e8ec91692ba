------------------------------ MODULE LeafNodes ------------------------------
(***************************************************************************)
(* Leaf nodes: how the library builds them, which constraints of a group   *)
(* it holds them to, and what a receiver checks about them.  A leaf is     *)
(* told apart by the client that signed it; its keys and its signature are *)
(* modelled by the tree modules.                                           *)
(***************************************************************************)
EXTENDS Extensions, FiniteSets

(***************************************************************************)
(* LeafNodeParameters: what a caller may override when its leaf is built   *)
(* again.  Each field is an option.                                        *)
(***************************************************************************)
LeafParameters(credential, capabilities, extensions, policy) ==
    [credential |-> credential, capabilities |-> capabilities,
     extensions |-> extensions, policy |-> policy]

NoParameters == LeafParameters({}, {}, {}, {})

\* LeafNodeParameters::is_empty: the policy alone does not ask for a path.
IsEmpty(params) ==
    params.credential = {} /\ params.capabilities = {} /\ params.extensions = {}

Leaf(owner, credential, caps, source, exts, lifetime) ==
    [owner |-> owner, credential |-> credential, caps |-> caps, source |-> source,
     exts |-> exts, lifetime |-> lifetime]

(***************************************************************************)
(* LeafNodeConstraints: what a group demands of a leaf that is built for   *)
(* it.  `members' are the leaves of the tree.                              *)
(***************************************************************************)
NoConstraints ==
    [required |-> {}, contextTypes |-> {}, inUse |-> {}, supportedByAll |-> {}]

AddGroupContextExtensions(constraints, exts) ==
    [constraints EXCEPT !.required = @ \cup RequiredOf(exts),
                        !.contextTypes = @ \cup DOMAIN exts]

Constraints(exts, members) ==
    LET supported == {leaf.caps.credentials : leaf \in members}
        byAll == {c \in UNION supported : \A s \in supported : c \in s}
    IN  AddGroupContextExtensions(
            [NoConstraints EXCEPT !.inUse = {leaf.credential : leaf \in members},
                                  !.supportedByAll = byAll], exts)

MutantCheck(constraints, caps, credential) ==
    /\ \A required \in constraints.required : SupportsRequiredCapabilities(caps, required)
    /\ \A t \in constraints.contextTypes : IsDefaultExtension(t) \/ t \in caps.extensions
    /\ constraints.supportedByAll # {} => credential \in constraints.supportedByAll

Check(constraints, caps, credential) ==
    /\ \A required \in constraints.required : SupportsRequiredCapabilities(caps, required)
    /\ \A t \in constraints.contextTypes : IsDefaultExtension(t) \/ t \in caps.extensions
    /\ constraints.supportedByAll # {} => credential \in constraints.supportedByAll
    /\ \A c \in constraints.inUse : ContainsCredential(caps, c)

(***************************************************************************)
(* The checks on a leaf that need no context.                              *)
(***************************************************************************)
ValidateLocally(leaf) ==
    /\ \A t \in DOMAIN leaf.exts : IsValidInLeafNode(t)
    /\ ContainsExtensions(leaf.caps, leaf.exts)
    /\ ContainsCredential(leaf.caps, leaf.credential)

\* supports_extension and check_extension_support of one leaf.
SupportsExtension(leaf, t) == IsDefaultExtension(t) \/ t \in leaf.caps.extensions

LeafSupportsExtensions(leaf, types) == \A t \in types : SupportsExtension(leaf, t)

(***************************************************************************)
(* enforce_capabilities: the only way the library makes a leaf.  It widens *)
(* if the policy says so and then applies the checks of a receiver.        *)
(***************************************************************************)
EnforceCapabilities(leaf, ciphersuite, constraints, policy) ==
    LET widened == IF policy = "Widen"
                   THEN WidenFor(leaf.caps, ciphersuite, leaf.credential, leaf.exts)
                   ELSE leaf.caps
        caps == EnsureVersion(widened, Mls10)
        built == [leaf EXCEPT !.caps = caps]
    IN  IF /\ ValidateLocally(built)
           /\ ContainsCiphersuite(caps, ciphersuite)
           /\ Check(constraints, caps, leaf.credential)
        THEN {built} ELSE {}

\* LeafNodeTbs::new: every leaf built from scratch passes here.
LeafNodeTbs(owner, ciphersuite, credential, resolved, source, exts, lifetime, constraints) ==
    EnforceCapabilities(Leaf(owner, credential, resolved.caps, source, exts, lifetime),
                        ciphersuite, constraints, resolved.policy)

\* LeafNode::new: the leaf of a key package or of a group's creator.
NewLeafNode(owner, ciphersuite, credential, resolved, exts, lifetime, constraints) ==
    LeafNodeTbs(owner, ciphersuite, credential, resolved, "KeyPackage", exts, {lifetime},
                constraints)

\* new_with_parent_hash: the leaf of an update path.
NewWithParentHash(owner, ciphersuite, credential, resolved, exts, constraints) ==
    LeafNodeTbs(owner, ciphersuite, credential, resolved, "Commit", exts, {}, constraints)

\* LeafNode::update: an Update proposal's leaf, from the one in the tree.
UpdateLeafNode(leaf, ciphersuite, params, constraints) ==
    LET resolved == ResolveForExistingLeaf(params.capabilities, params.policy, leaf.caps)
    IN  EnforceCapabilities(
            Leaf(leaf.owner, Given(params.credential, leaf.credential), resolved.caps, "Update",
                 Given(params.extensions, leaf.exts), {}),
            ciphersuite, constraints, resolved.policy)

\* compute_path for a member: what is not given is inherited from its leaf.
PathLeafNode(leaf, ciphersuite, params, constraints) ==
    NewWithParentHash(leaf.owner, ciphersuite, Given(params.credential, leaf.credential),
                      ResolveForExistingLeaf(params.capabilities, params.policy, leaf.caps),
                      Given(params.extensions, leaf.exts), constraints)

\* compute_path for an external committer, who has no leaf to inherit from
\* and must come with a credential.
ExternalPathLeafNode(owner, ciphersuite, params, constraints) ==
    UNION {NewWithParentHash(owner, ciphersuite, credential,
                             ResolveCapabilities(params.capabilities, params.policy),
                             Given(params.extensions, NoExtensions), constraints) :
              credential \in params.credential}

-----------------------------------------------------------------------------
(***************************************************************************)
(* Key packages: the builder, the last-resort marker, the lifetime and the *)
(* validation of a received key package.  The keys of a key package are    *)
(* fresh and its signatures are those of its owner; a key package that     *)
(* fails those checks is outside this model.                               *)
(***************************************************************************)

(***************************************************************************)
(* Lifetimes, on a clock of natural numbers.                               *)
(***************************************************************************)
\* Lifetime::new: valid for t from now on, and a margin into the past.
NewLifetime(now, margin, t) == [notBefore |-> now - margin, notAfter |-> now + t]

ValidateAt(lifetime, now) == lifetime.notBefore <= now /\ now < lifetime.notAfter

\* LeafNodeLifetimePolicy: Verify, Skip or VerifyAt(time).
Verify == [kind |-> "Verify", at |-> 0]
Skip == [kind |-> "Skip", at |-> 0]
VerifyAt(time) == [kind |-> "VerifyAt", at |-> time]

ValidateWithPolicy(lifetime, policy, now) ==
    CASE policy.kind = "Verify" -> ValidateAt(lifetime, now)
      [] policy.kind = "Skip" -> TRUE
      [] policy.kind = "VerifyAt" -> ValidateAt(lifetime, policy.at)

\* life_time(): only the leaf of a key package has one.
LifetimeHolds(leaf, policy, now) ==
    \A lifetime \in leaf.lifetime : ValidateWithPolicy(lifetime, policy, now)

(***************************************************************************)
(* The last-resort marker: an empty component of the application data      *)
(* dictionary, or the older extension.                                     *)
(***************************************************************************)
LastResortComponent == 4

ComponentOf(exts) ==
    IF Contains(exts, AppDataDictionary)
    THEN Find(exts[AppDataDictionary], LastResortComponent) ELSE {}

HasLastResortMarker(exts) == ComponentOf(exts) = {""} \/ Contains(exts, LastResort)

HasMalformedLastResortComponent(exts) == \E data \in ComponentOf(exts) : data # ""

(***************************************************************************)
(* KeyPackageBuilder.  Its fields are options, except last_resort.         *)
(***************************************************************************)
KeyPackageBuilder(credential, capabilities, policy, leafExts, exts, lastResort, lifetime) ==
    [credential |-> credential, capabilities |-> capabilities, policy |-> policy,
     leafExts |-> leafExts, exts |-> exts, lastResort |-> lastResort, lifetime |-> lifetime]

\* Under Reject the capabilities must list the extension that carries the marker.
EnsureLastResortCapability(builder, t) ==
    LET resolved == ResolveCapabilities(builder.capabilities, builder.policy)
    IN  resolved.policy = "Reject" => t \in resolved.caps.extensions

\* The extensions of the key package once the marker is in, none on an error.
EnsureLastResort(builder) ==
    LET exts == Given(builder.exts, NoExtensions)
        dictionary == IF Contains(exts, AppDataDictionary) THEN exts[AppDataDictionary]
                      ELSE NoExtensions
        marked == (LastResortComponent :> "") @@ dictionary
    IN  IF ~builder.lastResort THEN {exts}
        ELSE IF ~EnsureLastResortCapability(builder, AppDataDictionary) THEN {}
        ELSE IF builder.exts = {} THEN Single("KeyPackage", AppDataDictionary, marked)
        ELSE AddOrReplace("KeyPackage", exts, AppDataDictionary, marked)

\* KeyPackage::new_from_keys: under Widen the leaf covers the key package's
\* extensions too; under Reject nobody checks them here.
NewFromKeys(owner, ciphersuite, builder, exts) ==
    LET resolved == ResolveCapabilities(builder.capabilities, builder.policy)
        caps == IF resolved.policy = "Widen"
                THEN WidenForKeyPackage(resolved.caps, exts) ELSE resolved.caps
        leaves == NewLeafNode(owner, ciphersuite, builder.credential,
                              [resolved EXCEPT !.caps = caps],
                              Given(builder.leafExts, NoExtensions), builder.lifetime,
                              NoConstraints)
    IN  {[owner |-> owner, ciphersuite |-> ciphersuite, version |-> Mls10, leaf |-> leaf,
          exts |-> exts] : leaf \in leaves}

\* KeyPackage::create refuses a suite the provider does not support.
Create(owner, ciphersuite, supported, builder, exts) ==
    IF ciphersuite \in supported THEN NewFromKeys(owner, ciphersuite, builder, exts) ELSE {}

\* build: the marker, then the key package, which is stored under its hash.
Build(owner, ciphersuite, supported, builder) ==
    UNION {Create(owner, ciphersuite, supported, builder, exts) :
              exts \in EnsureLastResort(builder)}

(***************************************************************************)
(* KeyPackageIn::validate_with_lifetime_policy.                            *)
(***************************************************************************)
ValidateKeyPackage(kp, supported, policy, now) ==
    /\ kp.ciphersuite \in supported
    /\ kp.leaf.source = "KeyPackage"
    /\ kp.version = Mls10
    /\ \A t \in DOMAIN kp.exts : IsValidInKeyPackage(t)
    /\ ContainsExtensions(kp.leaf.caps, kp.exts)
    /\ ~HasMalformedLastResortComponent(kp.exts)
    /\ LifetimeHolds(kp.leaf, policy, now)
=============================================================================
