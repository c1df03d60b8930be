SPECIFICATION Spec
CONSTANTS
  Services <- MceAndOhm
  Profiles <- TwoProfiles
  Levels <- SomeLevels
  Table <- ShortTable
  MaxChanges = 2
CHECK_DEADLOCK FALSE
INVARIANTS ContextFollows LevelFollows
