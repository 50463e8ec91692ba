CONSTANTS
  MaxTreeSize = 7
  MaxCommits = 4
  FirstAdds = 3
  MaxAdds = 1
  MaxChanges = 1
SPECIFICATION Spec
INVARIANTS
  EveryoneFollows
  MembersAgree
  OnlyThoseBelowKnow
  TreesAreSound
CHECK_DEADLOCK FALSE
