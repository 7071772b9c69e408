CONSTANTS
  Procs <- MCTwo
  Tgs = {tg1, tg2}
  MaxGroups = 2
  MaxTasks = 2
  Repeats <- MCTwo
  RuntimeRepeats <- MCTwo
  Syncs <- MCBoth
  FreeThreshold = 1
SPECIFICATION FairSpec
INVARIANTS
  TypeOK
  NtodoExact
  GroupOutlivesItsTasks
  BlocksInOnePlace
  NoForeignError
PROPERTY ExecuteReturns
