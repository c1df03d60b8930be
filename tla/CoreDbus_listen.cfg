SPECIFICATION Spec
CONSTANTS
  system = system
  session = session
  k1 = k1
  k2 = k2
  f1 = f1
  f2 = f2
  None = None
  Buses <- BothBuses
  Keys <- TwoKeys
  Callbacks <- TwoCbs
  MaxId = 3
  MaxCalls = 1
CHECK_DEADLOCK FALSE
SYMMETRY Symmetry
INVARIANTS RefsAreCounted FirstListenersHear
