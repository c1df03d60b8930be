SPECIFICATION Spec
CONSTANTS
  NoValue = none
  Star <- AnyString
  Names <- TwoNames
  Keys <- TwoKeys
  Values <- SomeValues
  Asked <- SomeAsked
  Boots <- EveryBoot
  Files <- SomeFiles
  MaxReloads = 2
INVARIANTS CacheIsFresh CallbacksReachLiveRules UsedRulesListen EvaluationIsExact
