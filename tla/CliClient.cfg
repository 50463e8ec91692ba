SPECIFICATION Spec
CONSTANTS
  Names = {"a", "b", "c"}
  GroupNames = {"g"}
  Creators = {"a"}
  Present = {"a", "b"}
  Senders = {"b"}
  Restarting = {"b"}
  Budget = 3
  MaxCommits = 2
  MessageEpoch = 1
  MaxFaults = 1
INVARIANTS
  KeyPackagesAreUsedOnce
  
CHECK_DEADLOCK FALSE
