CONSTANTS
  Procs <- MCProcs
  Gids <- MCGids
  Batches <- MCBatches
  MaxJobs = 3
  Blocks = {b1, b2, b3}
  NoProc = NoProc
  Null = Null
SYMMETRY MCBlocksSymmetry
SPECIFICATION Spec
INVARIANTS
  TypeOK
  ListWellFormed
  CountExact
  BlocksOwnedOnce
  NoEmptyWithCount
PROPERTY ImplementsJobQueue
