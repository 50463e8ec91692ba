SPECIFICATION Spec
CONSTANTS
    Groups = {g1, g2}
    Bystander = g2
    Refs = {r1, r2}
    Leaves = {0, 10}
    StartEpochs = {9}
    MaxMerges = 1
    MaxOwnLeafNodes = 2
    MaxProposals = 2
    QueueOnce = TRUE
INVARIANTS
    
    StorageFollowsTheGroup
    TornGroupsAreSafe
CHECK_DEADLOCK FALSE
