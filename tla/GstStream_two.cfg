SPECIFICATION Spec
CONSTANTS
  r1 = r1
  r2 = r2
  c1 = c1
  c2 = c2
  Null = Null
  Requests <- TwoRequests
  Cells <- TwoCells
  Settings <- StopSettings
  Calls = TRUE
CHECK_DEADLOCK FALSE
SYMMETRY Symmetry
INVARIANTS NoUseAfterFree StopsOwnStream
