SYMMETRY MCSymmetry
CONSTANTS
  Procs = {p1, p2}
  Keys = {k1, k2}
  Elements = {a1, a2, a3}
  Gvars = {v1, v2, v3}
  None = None
SPECIFICATION Spec
CHECK_DEADLOCK FALSE
INVARIANTS
  TypeOK
  RefsExact
  OneEntryPerKey
  ElementsInOnePlace
