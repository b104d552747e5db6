SPECIFICATION Spec
CONSTANTS
  Wrappers = {w1, w2}
  Args = {"switch", "boot"}
  Nobody = Nobody
  Foreign = Foreign
  MaxForeign = 0
CHECK_DEADLOCK FALSE
INVARIANTS
  NoOverlap
