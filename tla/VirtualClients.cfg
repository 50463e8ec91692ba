CONSTANTS
    Clients = {0, 1}
    Actors = {0}
    Refs = {r1}
    Retention = 2
    MaxPastEpochs = 0
    MaxEmulation = 2
    MaxCommits = 1
    MaxAllocations = 2
    GuardBits = 3
    MergePromptly = TRUE
    TornRegistration = FALSE
    MaximumForwardDistance = 2
    OutOfOrderTolerance = 2
    MaxGeneration = 4
SPECIFICATION Spec
INVARIANTS
    
    SiblingsCanFollow
    SiblingsDoNotShareNonces
    
    VcProvidersAgree
CHECK_DEADLOCK FALSE
