CONSTANTS
  LeafIndices = {0, 1, 2}
  Clients = {0, 1, 2}
  InitialMembers = {0, 1}
  Key <- MCKey
  Kinds <- MCKinds
  Joining = "fresh"
  MaxProposals = 1
  MaxCommits = 2
SPECIFICATION Spec
INVARIANTS
  LockStep
  AcceptedCommitsAreProcessable
  KeysFollowTheEpoch
  
PROPERTIES
  ImplementsHistory
CHECK_DEADLOCK FALSE
