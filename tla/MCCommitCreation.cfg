CONSTANTS
  LeafIndices <- MCLeafIndices
  Tree <- MCTree
  Active = {0, 1}
  Committers = {0}
  Scenarios <- MCScenarios
  MaxQueued = 3
SPECIFICATION Spec
INVARIANTS
  
  RemovalsAreNotLost
  
CHECK_DEADLOCK FALSE
