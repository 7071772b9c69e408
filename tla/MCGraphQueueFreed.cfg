CONSTANTS
  N = 2
  Commands = {"run", "play"}
  MaxCommands = 2
  MaxGraphs = 2
  MaxModules = 1
  Shapes = {"macro"}
SPECIFICATION Spec
CHECK_DEADLOCK FALSE
INVARIANT NotDeletedBeforeReturning
