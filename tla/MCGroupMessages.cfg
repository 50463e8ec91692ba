SPECIFICATION MCSpec
CONSTANTS
  MaxGeneration = 8
  RatchetConfig <- MCRatchetConfig
  MaxPastEpochs = 1
  TailAad <- MCTailAad
  Clients <- MCClients
  Scenarios <- MCScenarios
  MaxDepth = 2
  Components <- MCComponents
  MaxExportEpoch = 1
  MaxExportFaults = 2
INVARIANTS
  
  SecretTreesAreForwardSecure
  
CHECK_DEADLOCK FALSE
