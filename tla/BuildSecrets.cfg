SPECIFICATION Spec
CONSTANTS
  Pids = {p1}
  Passphrases = {s1, s2}
  Names = {sda}
  Large = Large
  Huge = Huge
  Disks = {Large, Huge}
  Bytes <- MCBytes
  MinBytes = 3
  MinimalBytes = 3
  FixedBytes = 3
  None = None
  MaxBuilds = 2
CHECK_DEADLOCK FALSE
INVARIANTS
  SecretsAlwaysRemoved
