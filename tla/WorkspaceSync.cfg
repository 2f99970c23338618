SPECIFICATION Spec
CONSTANTS
  Paths = 2
  Buffer = 1
  Nothing = Nothing
  MaxChanges = 2
  MaxPushes = 2
  MaxTroubles = 1
INVARIANTS
  ServedFollowsDisk
  BrowserFollows
PROPERTIES
  BrowserKeepsUp
CHECK_DEADLOCK FALSE
CONSTRAINT NotOvertaken
