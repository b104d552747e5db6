SPECIFICATION Spec
CONSTANTS
  Stick = Stick
  Other = Other
  Names = {Stick, Other}
  SizeOf <- MCSizeOf
  Listings <- MCListings
  None = None
  MaxFlashes = 2
CHECK_DEADLOCK FALSE
INVARIANTS
  GrownIsGrown
