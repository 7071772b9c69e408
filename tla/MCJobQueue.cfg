CONSTANTS
  Procs = {1, 2}
  Gids = {0, 1, 2}
  Batches <- MCBatches
  MaxJobs = 4
SPECIFICATION JQSpec
INVARIANTS
  TypeOK
  EachRepetitionOnce
  OnItsProcessor
CHECK_DEADLOCK FALSE
