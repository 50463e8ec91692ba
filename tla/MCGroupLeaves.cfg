SPECIFICATION Spec
CONSTANTS
    alice = alice
    bob = bob
    carol = carol
    Clients <- MCClients
    Creator = alice
    Suite = 1
    Supported = {1}
    CreatorBuilders <- MCCreatorBuilders
    Contexts <- MCContexts
    Builders <- MCBuilders
    Parameters <- MCParameters
    Externals <- MCExternals
    Proposed <- MCProposed
    Customs = {61441}
    Policies <- MCPolicies
    MaxTime = 2
    MaxCommits = 2
INVARIANTS
    MembersAcceptCommits
    JoinersAcceptTrees
    MembersCanCommit
CHECK_DEADLOCK FALSE
