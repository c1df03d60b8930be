SPECIFICATION Spec
CONSTANTS
  Streams <- SomeStreams
  Transforms <- TwoTransforms
  Roles <- OneRole
  Keys <- TwoKeys
  Values <- TwoValues
  Routes <- TwoRoutes
  FixedSets <- FullMedia
  EnvAddress = "none"
  Addresses <- TwoAddresses
  Mixes <- OneMix
  MaxChanges = 2
  MaxRestarts = 1
CHECK_DEADLOCK FALSE
INVARIANTS RolesReachPulse TransformsFollow
PROPERTIES Reconnects
