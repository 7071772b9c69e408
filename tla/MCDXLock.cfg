CONSTANTS
  Procs = {p1, p2, p3}
  Locks = {l1, l2}
  Sems <- MCSems
  Nobody = Nobody
  NoLock = NoLock
SPECIFICATION FairSpec
INVARIANTS
  TypeOK
  KntExact
  OneToken
  SemaphoreNeeded
PROPERTIES
  ImplementsMutex
  LockReturns
