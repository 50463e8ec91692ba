SPECIFICATION Spec
CONSTANTS
  LeafIndices <- MCLeafIndices
  Owner <- MCOwner
  Servers <- MCServers
  Home <- MCHome
  KeyPool <- MCKeyPool
  Scenarios <- MCScenarios
INVARIANTS
  AuthenticatorsAgree
  
  
CHECK_DEADLOCK FALSE
