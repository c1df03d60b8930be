SPECIFICATION FairSpec
CONSTANTS
  r1 = r1
  r2 = r2
  c1 = c1
  c2 = c2
  Null = Null
  Requests <- OneRequest
  Cells <- OneCell
  Settings <- EverySetting
  Calls = TRUE
CHECK_DEADLOCK FALSE
INVARIANTS SourcesOwned StopsInTheEnd PipelineFollows
PROPERTIES SynchronizesUnlessResumed SoundEnds
