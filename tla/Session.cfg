SPECIFICATION Spec
CONSTANTS
  Sessions = {s1, s2}
  Actions = {"build"}
  Retain = 1
  MaxSuffix = 2
  MaxRuns = 3
  MaxEvents = 1
  MaxInAll = 1
  Seconds = {t1}
SYMMETRY SomeSymmetry
CHECK_DEADLOCK FALSE
INVARIANTS
  TypeOK
  LogTellsThePane
  ExitChoiceHolds
