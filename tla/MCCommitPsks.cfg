CONSTANTS
  LeafIndices <- MCLeafIndices
  Tree <- MCTree
  Active = {0, 1}
  Committers = {0}
  Scenarios <- MCContextOnly
  MaxQueued = 3
SPECIFICATION Spec
INVARIANTS
  PsksOfTheCommit
CHECK_DEADLOCK FALSE
