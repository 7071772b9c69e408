CONSTANTS
  N = 3
  Requests <- MCGraph
  EventProcs = {}
  MaxPosts = 3
SPECIFICATION FairSpec
PROPERTIES
  EveryJobRuns
  RunOnReturns
