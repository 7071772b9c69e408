CONSTANTS
  Procs <- MCTwo
  Tgs = {tg1, tg2}
  MaxGroups = 2
  MaxTasks = 3
  Repeats <- MCTwo
  RuntimeRepeats <- MCOne
  Syncs <- MCBoth
  FreeThreshold = 1
SPECIFICATION Spec
INVARIANT ErrorReported
