SPECIFICATION Spec
CONSTANTS
  r1 = r1
  s1 = s1
  s2 = s2
  s3 = s3
  Requests <- OneRequest
  Sinks <- ThreeSinks
  Rank <- RankThree
  NoPrepare <- JustS2
  Unkeyed = {}
  CallSinks <- JustS3
  ResyncSinks <- JustS2
  MasterResyncs = TRUE
  MaxCopies = 2
CHECK_DEADLOCK FALSE
INVARIANTS SinksWillStop SinksReleased PlayerInv NeverResyncedWhilePreparing
PROPERTIES LateFailureIgnored TimeoutStaysArmed
