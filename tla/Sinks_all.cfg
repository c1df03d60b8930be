SPECIFICATION Spec
CONSTANTS
  r1 = r1
  r2 = r2
  p1 = p1
  p2 = p2
  Requests <- TwoRequests
  Devices <- AllDevices
  MaxPlays = 2
  Samples <- TwoSamples
  Patterns <- TwoPatterns
  Effects <- TwoEffects
  Names <- OneName
  Slots <- ThreeSlots
CHECK_DEADLOCK FALSE
SYMMETRY Symmetry
INVARIANTS
  NothingOutlivesItsData CacheIsCurrent EffectsEnd SlotsAreAccounted TonesHaveRequests MuteIsReleased
