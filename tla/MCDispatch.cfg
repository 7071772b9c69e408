CHECK_DEADLOCK FALSE
CONSTANTS
  N = 3
  Requests <- MCAll
  EventProcs = {1, 2}
  MaxPosts = 5
SPECIFICATION Spec
INVARIANTS
  TypeOK
  RunOnJobAwaited
