CONSTANTS
  MaxGeneration = 5
  Configurations <- MCConfigurations
  MaxFailures = 2
  Limits = {0, 1, 3, 9}
  MaxEpoch = 4
  MaxTime = 2
  Configured = 2
  HardCoded = 5
  MaxPskEpoch = 14
SPECIFICATION MCSpec
INVARIANTS
  GenerationsAreUsedOnce
  AcceptedKeysAreGone
  DelayedMessagesStayDecryptable
  OldestGoFirst
  
  RecentSecretsAreKept
PROPERTIES
  DeletionIsExact
CHECK_DEADLOCK FALSE
