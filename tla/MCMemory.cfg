CONSTANTS
  Procs = {p1, p2}
  InitSize = 3
  MaxSize = 4
  MaxUser = 3
SPECIFICATION FairSpec
CHECK_DEADLOCK FALSE
INVARIANTS
  TypeOK
  EveryUnitOnce
  FreeBitTrue
  NoCorruption
PROPERTIES
  ImplementsHeap
  CallsReturn
