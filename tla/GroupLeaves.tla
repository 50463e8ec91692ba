----------------------------- MODULE GroupLeaves -----------------------------
(***************************************************************************)
(* What a group requires of its leaves, over the life of the group.        *)
(* Clients publish key packages, members propose updates and commit, every *)
(* other member validates the commit against its own copy of the old       *)
(* group, and every joiner validates the whole new tree.  The members'     *)
(* copies are equal (module GroupHistory shows they are), so there is one  *)
(* `group'; what differs between clients is when they look at the clock    *)
(* and under which lifetime policy.                                        *)
(***************************************************************************)
EXTENDS LeafNodes

CONSTANTS
    Clients,          \* everyone who may be in the group
    Creator,          \* the client that creates it
    Suite,            \* the group's ciphersuite
    Supported,        \* the suites of the clients' crypto providers
    CreatorBuilders,  \* how the creator may configure its leaf
    Contexts,         \* the extension lists the creator may ask for
    Builders,         \* how the others may configure their key packages
    Parameters,       \* what a member may change when its leaf is rebuilt
    Externals,        \* the leaf parameters of an external committer
    Proposed,         \* the extensions a GroupContextExtensions proposal may carry
    Customs,          \* the custom proposal types a commit may carry
    Policies,         \* client -> kind of its lifetime policy
    MaxTime, MaxCommits

VARIABLES
    now,        \* the clock of all clients
    group,      \* ciphersuite, extensions and leaves, as before the commit in flight
    published,  \* key packages on offer
    updates,    \* leaves of the queued Update proposals
    flight,     \* the commit being delivered, if any, and the group it leads to
    waiting,    \* the members and joiners that have not handled it yet
    refused,    \* who refused what
    unchecked,  \* a commit changed what no single check of the library covers
    commits     \* number of commits so far

vars == <<now, group, published, updates, flight, waiting, refused, unchecked, commits>>

PolicyOf(client, sentAt) ==
    CASE Policies[client] = "Verify" -> Verify
      [] Policies[client] = "Skip" -> Skip
      [] Policies[client] = "VerifyAt" -> VerifyAt(sentAt)

LeafOf(g, client) == CHOOSE leaf \in g.leaves : leaf.owner = client

Members(g) == {leaf.owner : leaf \in g.leaves}

(***************************************************************************)
(* PublicGroup's checks of one leaf.                                       *)
(***************************************************************************)
LeafNodeConstraints(g) == Constraints(g.exts, g.leaves)

ValidateLeafNodeCapabilities(g, leaf) ==
    /\ ValidateLocally(leaf)
    /\ ContainsCiphersuite(leaf.caps, g.ciphersuite) /\ ContainsVersion(leaf.caps, Mls10)
    /\ \A required \in RequiredOf(g.exts) : SupportsRequiredCapabilities(leaf.caps, required)
    /\ \A member \in g.leaves : ContainsCredential(member.caps, leaf.credential)
    /\ \A member \in g.leaves : ContainsCredential(leaf.caps, member.credential)

ValidateLeafNode(g, leaf, policy) ==
    ValidateLeafNodeCapabilities(g, leaf) /\ LifetimeHolds(leaf, policy, now)

CheckExtensionSupport(g, types) == \A leaf \in g.leaves : LeafSupportsExtensions(leaf, types)

(***************************************************************************)
(* PublicGroup's checks of the proposals of a commit.                      *)
(***************************************************************************)
ProposalTypes(c) ==
    c.customs \cup {t \in {1, 2, 3, 6, 7} :
        \/ t = 1 /\ c.adds # {}
        \/ t = 2 /\ c.updates # {}
        \/ t = 3 /\ c.removes # {}
        \/ t = 6 /\ c.external
        \/ t = 7 /\ c.gce # {}}

\* Every remaining member supports the non-default types in the commit.
ValidateProposalTypeSupport(g, c) ==
    \A leaf \in {l \in g.leaves : l.owner \notin c.removes} :
        \A t \in ProposalTypes(c) : IsDefaultProposal(t) \/ t \in leaf.caps.proposals

ValidateKeyPackageForAdd(g, kp, policy) ==
    /\ kp.ciphersuite = g.ciphersuite /\ kp.version = Mls10
    /\ LeafSupportsExtensions(kp.leaf, DOMAIN g.exts)
    /\ ValidateLeafNode(g, kp.leaf, policy)

ValidateCapabilities(g, c) ==
    \A leaf \in {kp.leaf : kp \in c.adds} \cup c.updates : ValidateLeafNodeCapabilities(g, leaf)

MutantValidateGroupContextExtensions(g, c) ==
    \A exts \in c.gce :
        LET required == Given(RequiredOf(exts), Requirement({}, {}, {}))
        IN  \A t \in DOMAIN exts : IsDefaultExtension(t)
                                    \/ RequiresExtensionTypeSupport(required, t)

\* Only the required extension types are checked against the members; the
\* other extensions must be default ones or required.
ValidateGroupContextExtensions(g, c) ==
    \A exts \in c.gce :
        LET required == Given(RequiredOf(exts), Requirement({}, {}, {}))
        IN  /\ CheckExtensionSupport(g, required.extensions)
            /\ \A t \in DOMAIN exts : IsDefaultExtension(t)
                                      \/ RequiresExtensionTypeSupport(required, t)

\* validate_key_uniqueness, with one signature key for each client.
ValidateKeyUniqueness(g, c) == \A kp \in c.adds : kp.owner \notin Members(g) \ c.removes

\* ValSem242: the inline proposals an external commit may carry.
ValidateExternalCommit(c) ==
    c.external => c.adds = {} /\ c.updates = {} /\ c.gce = {}

(***************************************************************************)
(* Building a commit.  All checks are against the group before it.         *)
(***************************************************************************)
ValidateProposals(g, c, policy) ==
    /\ ValidateProposalTypeSupport(g, c)
    /\ ValidateKeyUniqueness(g, c)
    /\ \A kp \in c.adds : ValidateKeyPackageForAdd(g, kp, policy)
    /\ ValidateCapabilities(g, c)
    /\ ValidateGroupContextExtensions(g, c)
    /\ ValidateExternalCommit(c)

PathRequired(c) ==
    ProposalTypes(c) = {} \/ \E t \in ProposalTypes(c) : IsPathRequired(t)

MutantPathConstraints(g, c) == LeafNodeConstraints(g)

\* The path leaf must fit the old group and the extensions it may get.
PathConstraints(g, c) ==
    IF c.gce = {} THEN LeafNodeConstraints(g)
    ELSE AddGroupContextExtensions(LeafNodeConstraints(g), CHOOSE exts \in c.gce : TRUE)

\* The set of the one commit the builder returns, empty when it refuses.
BuildCommit(g, c, params, force, policy) ==
    IF ~ValidateProposals(g, c, policy) THEN {}
    ELSE IF c.external
    THEN {[c EXCEPT !.path = {leaf}] :
              leaf \in ExternalPathLeafNode(c.committer, g.ciphersuite, params,
                                            PathConstraints(g, c))}
    ELSE IF PathRequired(c) \/ force \/ ~IsEmpty(params)
    THEN {[c EXCEPT !.path = {leaf}] :
              leaf \in PathLeafNode(LeafOf(g, c.committer), g.ciphersuite, params,
                                    PathConstraints(g, c))}
    ELSE {c}

(***************************************************************************)
(* Applying it: removed and replaced leaves go, the new ones come.         *)
(***************************************************************************)
ApplyCommit(g, c) ==
    LET replaced == c.removes \cup {leaf.owner : leaf \in c.updates \cup c.path}
    IN  [g EXCEPT !.exts = Given(c.gce, @),
                  !.leaves = {leaf \in @ : leaf.owner \notin replaced} \cup c.updates \cup c.path
                             \cup {kp.leaf : kp \in c.adds}]

(***************************************************************************)
(* Staging a commit at a receiver: the key packages are validated as they  *)
(* are decoded, then the path leaf, then the proposals.                    *)
(***************************************************************************)
ValidateCommit(g, c, policy) ==
    /\ \A kp \in c.adds : ValidateKeyPackage(kp, Supported, policy, now)
    /\ c.external => c.path # {} /\ Cardinality(c.removes) <= 1
    /\ \A leaf \in c.path : /\ ValidateLeafNode(g, leaf, Verify)
                            /\ ContainsExtensions(leaf.caps, g.exts)
    /\ ValidateProposals(g, c, policy)

\* from_ratchet_tree: a joiner validates every leaf of the tree it is given.
FromRatchetTree(g, policy) == \A leaf \in g.leaves : ValidateLeafNode(g, leaf, policy)

\* A Welcome's recipient also checks its own key package against the context.
JoinFromWelcome(g, client, policy) ==
    FromRatchetTree(g, policy) /\ LeafSupportsExtensions(LeafOf(g, client), DOMAIN g.exts)

(***************************************************************************)
(* What the checks on single leaves cannot see: two leaves that change in  *)
(* one commit, new extensions next to a new or updated leaf, and required  *)
(* proposal or credential types that a member lacks.                       *)
(***************************************************************************)
Escapes(g, c) ==
    LET Same(a, b) == a.owner = b.owner /\ a.credential = b.credential /\ a.caps = b.caps
        changed == {leaf \in c.updates \cup c.path \cup {kp.leaf : kp \in c.adds} :
                        ~\E old \in g.leaves : Same(old, leaf)}
    IN  \/ Cardinality(changed) > 1
        \/ c.gce # {} /\ changed \ c.path # {}
        \/ \E exts \in c.gce : \E required \in RequiredOf(exts) : \E leaf \in g.leaves :
               ~SupportsRequiredCapabilities(leaf.caps, [required EXCEPT !.extensions = {}])

(***************************************************************************)
(* The steps.                                                              *)
(***************************************************************************)
Active == Members(group) \ {r.who : r \in refused}

Outside == Clients \ (Members(group) \cup {r.who : r \in refused})

\* PublicGroup's builder: the group of one member, whose leaf must fit the
\* extensions the group starts with.
NewGroup(builder, exts) ==
    {[ciphersuite |-> Suite, exts |-> exts, leaves |-> {leaf}] :
        leaf \in NewLeafNode(Creator, Suite, builder.credential,
                             ResolveCapabilities(builder.capabilities, builder.policy),
                             Given(builder.leafExts, NoExtensions), builder.lifetime,
                             Constraints(exts, {}))}

Init ==
    /\ now = 1
    /\ group \in UNION {NewGroup(b, exts) : b \in CreatorBuilders, exts \in Contexts}
    /\ published = {} /\ updates = {} /\ flight = {} /\ waiting = {} /\ refused = {}
    /\ unchecked = FALSE /\ commits = 0

\* A client outside the group builds and publishes a key package.
PublishKeyPackage(client) ==
    /\ flight = {} /\ client \in Outside /\ \A kp \in published : kp.owner # client
    /\ \E builder \in Builders : \E kp \in Build(client, Suite, Supported, builder) :
           published' = published \cup {kp}
    /\ UNCHANGED <<now, group, updates, flight, waiting, refused, unchecked, commits>>

\* propose_self_update: the leaf is checked against the group of this epoch
\* and queued at every member.
ProposeSelfUpdate(member) ==
    /\ flight = {} /\ member \in Active /\ \A leaf \in updates : leaf.owner # member
    /\ \E params \in Parameters :
          \E leaf \in UpdateLeafNode(LeafOf(group, member), group.ciphersuite, params,
                                     LeafNodeConstraints(group)) :
              updates' = updates \cup {leaf}
    /\ UNCHANGED <<now, group, published, flight, waiting, refused, unchecked, commits>>

\* The commit goes out: the other members and the joiners have to handle it.
Send(c) ==
    LET after == ApplyCommit(group, c)
    IN  /\ flight' = {[commit |-> c, after |-> after]}
        /\ waiting' = ((Members(after) \cap Active) \ {c.committer}) \cup {kp.owner : kp \in c.adds}
        /\ unchecked' = (unchecked \/ Escapes(group, c))
        /\ published' = published \ c.adds
        /\ updates' = {}
        /\ commits' = commits + 1
        /\ UNCHANGED <<now, group, refused>>

\* Every commit of a member also takes the queued updates of the others; an
\* update of its own gives way to a path.
BuildAndSend(member, adds, removes, gce, customs, params, force) ==
    LET c == [committer |-> member, external |-> FALSE, adds |-> adds, removes |-> removes,
              updates |-> {leaf \in updates : leaf.owner \notin removes \cup {member}},
              gce |-> gce, customs |-> customs, path |-> {}, at |-> now]
    IN  /\ flight = {} /\ member \in Active /\ commits < MaxCommits
        /\ \E built \in BuildCommit(group, c, params,
                                    force \/ \E leaf \in updates : leaf.owner = member,
                                    PolicyOf(member, now)) : Send(built)

\* The key packages a member takes from the others, once validated.
Validated(member) ==
    {kp \in published : ValidateKeyPackage(kp, Supported, PolicyOf(member, now), now)}

\* add_members with a path and add_members_without_update.
AddMembers(member) ==
    \E adds \in SUBSET Validated(member), force \in BOOLEAN :
        adds # {} /\ BuildAndSend(member, adds, {}, {}, {}, NoParameters, force)

SwapMembers(member) ==
    \E kp \in Validated(member), other \in Members(group) \ {member} :
        BuildAndSend(member, {kp}, {other}, {}, {}, NoParameters, TRUE)

RemoveMembers(member) ==
    \E other \in Members(group) \ {member} :
        BuildAndSend(member, {}, {other}, {}, {}, NoParameters, FALSE)

SelfUpdate(member) ==
    \E params \in Parameters : BuildAndSend(member, {}, {}, {}, {}, params, FALSE)

UpdateGroupContextExtensions(member) ==
    \E exts \in Proposed : BuildAndSend(member, {}, {}, {exts}, {}, NoParameters, FALSE)

\* commit_builder: any of these together, and custom proposals.
CommitWithBuilder(member) ==
    \E adds \in SUBSET Validated(member), gce \in {{}} \cup {{exts} : exts \in Proposed},
       customs \in {{}, Customs}, params \in Parameters :
        BuildAndSend(member, adds, {}, gce, customs, params, FALSE)

\* An external commit: the tree of the GroupInfo is validated first.
ExternalCommit(client) ==
    /\ flight = {} /\ client \in Outside /\ commits < MaxCommits
    /\ FromRatchetTree(group, PolicyOf(client, now))
    /\ \E params \in Externals :
          LET c == [committer |-> client, external |-> TRUE, adds |-> {}, updates |-> {},
                    removes |-> {}, gce |-> {}, customs |-> {}, path |-> {}, at |-> now]
          IN  \E built \in BuildCommit(group, c, params, TRUE, PolicyOf(client, now)) : Send(built)

\* The tree of the GroupInfo is refused: the client cannot join this group.
ExternalJoinRefused(client) ==
    /\ flight = {} /\ client \in Outside
    /\ ~FromRatchetTree(group, PolicyOf(client, now))
    /\ refused' = refused \cup {[who |-> client, joining |-> TRUE,
                                 expired |-> FromRatchetTree(group, Skip),
                                 policy |-> Policies[client], sender |-> Policies[client]]}
    /\ UNCHANGED <<now, group, published, updates, flight, waiting, unchecked, commits>>

\* The last of those waiting ends the epoch.
Done(client) ==
    /\ waiting' = waiting \ {client}
    /\ IF waiting = {client}
       THEN \E f \in flight : group' = f.after /\ flight' = {}
       ELSE UNCHANGED <<group, flight>>

Refuse(client, joining, expired, sender) ==
    refused' = refused \cup {[who |-> client, joining |-> joining, expired |-> expired,
                              policy |-> Policies[client], sender |-> Policies[sender]]}

\* process_message of another member's commit.
ProcessCommit(client) ==
    \E f \in flight :
        /\ client \in waiting /\ client \in Members(group)
        /\ IF ValidateCommit(group, f.commit, PolicyOf(client, f.commit.at))
           THEN UNCHANGED refused
           ELSE Refuse(client, FALSE, ValidateCommit(group, f.commit, Skip), f.commit.committer)
        /\ Done(client)
        /\ UNCHANGED <<now, published, updates, unchecked, commits>>

\* StagedWelcome from the Welcome of that commit.
JoinGroup(client) ==
    \E f \in flight :
        /\ client \in waiting /\ client \notin Members(group)
        /\ IF JoinFromWelcome(f.after, client, PolicyOf(client, f.commit.at))
           THEN UNCHANGED refused
           ELSE Refuse(client, TRUE, JoinFromWelcome(f.after, client, Skip), f.commit.committer)
        /\ Done(client)
        /\ UNCHANGED <<now, published, updates, unchecked, commits>>

\* A commit nobody else has to handle takes effect at once.
Alone ==
    /\ flight # {} /\ waiting = {}
    /\ \E f \in flight : group' = f.after
    /\ flight' = {}
    /\ UNCHANGED <<now, published, updates, waiting, refused, unchecked, commits>>

Tick ==
    /\ now < MaxTime /\ now' = now + 1
    /\ UNCHANGED <<group, published, updates, flight, waiting, refused, unchecked, commits>>

Next ==
    \/ \E client \in Clients :
          \/ PublishKeyPackage(client) \/ ProposeSelfUpdate(client)
          \/ AddMembers(client) \/ SwapMembers(client) \/ RemoveMembers(client)
          \/ SelfUpdate(client) \/ UpdateGroupContextExtensions(client)
          \/ CommitWithBuilder(client)
          \/ ExternalCommit(client) \/ ExternalJoinRefused(client)
          \/ ProcessCommit(client) \/ JoinGroup(client)
    \/ Alone
    \/ Tick

Spec == Init /\ [][Next]_vars

(***************************************************************************)
(* Properties.                                                             *)
(***************************************************************************)
\* What the commit builder accepts, every member accepts: a member refuses a
\* commit only because a key package in it has run out and either the member
\* verifies lifetimes against its own clock or the sender did not verify them
\* at all.  A member that skips the check never falls behind, nor does one
\* that verifies at the time of sending what the sender verified.
MembersAcceptCommits ==
    \A r \in refused : ~r.joining =>
        r.expired /\ (r.policy = "Verify" \/ (r.policy = "VerifyAt" /\ r.sender = "Skip"))

\* As long as no commit has changed two leaves at once, or the extensions
\* together with somebody's leaf, or required a proposal or credential type a
\* member lacks, a joiner refuses the tree it is given only because a leaf in
\* it has run out: the checks on single leaves keep the whole tree valid.
JoinersAcceptTrees ==
    ~unchecked => \A r \in refused : r.joining => r.expired

\* Under the same condition no commit, update or external join ever leaves a
\* member unable to commit with the leaf it has (the inherited capabilities are
\* rejected when the group's requirements have moved on without it).
MembersCanCommit ==
    ~unchecked => \A leaf \in group.leaves :
        PathLeafNode(leaf, group.ciphersuite, NoParameters, LeafNodeConstraints(group)) # {}

\* What the documentation of the required capabilities says: a proposal that
\* requires what a current member does not support is invalid, so no commit
\* with one is built.
RequiredCapabilitiesAreMet ==
    \A f \in flight : \A exts \in f.commit.gce : \A required \in RequiredOf(exts) :
        \A leaf \in group.leaves : SupportsRequiredCapabilities(leaf.caps, required)
=============================================================================
