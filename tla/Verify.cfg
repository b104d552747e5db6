SPECIFICATION Spec
CONSTANTS
  Block = 2
  Chunk = 3
  Disks <- MCDisks
  Contents <- MCContents
  Images <- MCImages
  None = None
  MaxVerifies = 1
  MaxChanges = 1
CHECK_DEADLOCK FALSE
INVARIANTS
  TypeOK
  PassIsEarned
  NoFalseAlarm
PROPERTIES
  VerifyEnds
