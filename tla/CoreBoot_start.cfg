SPECIFICATION BootSpec
CONSTANTS
  Required     <- MCRequired
  Optional     <- MCOptional
  Registers    <- MCRegisters
  FailsAfter   <- MCFailsAfter
  AllowAll     = FALSE
  Allowed      <- MCAllowed
  KeyMap       <- MCKeyMap
  Original     <- MCOriginal
  Fallback     <- MCFallback
  ProfileKeys  <- MCProfileKeys
  ProfileEntry <- MCProfileEntry
  Resources    <- MCResources
  SinkType     <- MCSinkType
  Plays        <- MCPlays
  SinkOrder    <- MCSinkOrder
  Events       <- MCEvents
  Clients      <- MCClients
  Contexts     <- MCContexts
INVARIANTS
  CallsReachOpenPlugins
  ClientKeysAreFiltered
  OfferIsExact
\* A start that failed and a daemon that ended stop.
CHECK_DEADLOCK FALSE
