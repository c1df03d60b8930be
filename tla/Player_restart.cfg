SPECIFICATION FairSpec
CONSTANTS
  r1 = r1
  s1 = s1
  s2 = s2
  s3 = s3
  Requests <- OneRequest
  Sinks <- OneSink
  Rank <- RankOne
  NoPrepare = {}
  Unkeyed = {}
  CallSinks = {}
  ResyncSinks = {}
  MasterResyncs = FALSE
  MaxCopies = 1
CHECK_DEADLOCK FALSE
PROPERTIES StoppedStaysStopped
