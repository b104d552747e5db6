SPECIFICATION Spec
CONSTANTS
  Stick = "stick"
  Critical <- MCCritical
  Data <- MCData
  Order <- MCOrder
  Needs <- MCNeeds
  MaxTries = 2
  MaxUnlocks = 2
CHECK_DEADLOCK FALSE
INVARIANTS
  TypeOK
  NoLockout
  SealedUntilAsked
  PoolsFollowMembers
  ReportIsFinal
PROPERTIES
  BootEnds
  UnlockEnds
