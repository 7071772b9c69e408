CONSTANTS
  N = 2
  Commands = {"run", "play", "step", "dir", "stop", "pause", "kill", "redo", "background", "cancel"}
  MaxCommands = 3
  MaxGraphs = 2
  MaxModules = 1
  Shapes = {"assign", "plain", "macro"}
SPECIFICATION FairSpec
CHECK_DEADLOCK FALSE
INVARIANTS
  TypeOK
  OneGraphAtATime
  NgraphsExact
PROPERTIES
  StopTold
  GraphsEnd
