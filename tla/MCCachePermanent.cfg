CONSTANTS
  Procs = {p1, p2}
  Keys = {k1, k2}
  Elements = {a1, a2}
  Gvars = {v1, v2, v3}
  None = None
SPECIFICATION Spec
CHECK_DEADLOCK FALSE
PROPERTY PermanentStays
