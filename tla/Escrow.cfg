SPECIFICATION Spec
CONSTANTS
  Runs = {r1, r2, r3}
  MaxSlots = 3
  Nobody = Nobody
SYMMETRY RunSymmetry
CHECK_DEADLOCK FALSE
INVARIANTS
  DoneMeansRecoverable
  UploadedWereEnrolled
  NothingLeftBehind
