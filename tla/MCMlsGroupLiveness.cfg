CONSTANTS
  LeafIndices = {0, 1, 2}
  Clients = {0, 1}
  InitialMembers = {0, 1}
  Key <- MCKey
  Kinds <- MCChurnKinds
  Joining = "fresh"
  MaxProposals = 1
  MaxCommits = 2
SPECIFICATION FairSpec
INVARIANTS
  KeysFollowTheEpoch
PROPERTIES
  MembersCatchUp
CHECK_DEADLOCK FALSE
