SPECIFICATION Spec
CONSTANTS
  AsecIds = {a, b}
  ObbIds = {}
  Images = {i, j}
  None = None
  LOOP_MAX = 2
  Filesystems = {"ext4"}
  Failing = {}
  OpenFiles = FALSE
  LostLookups = TRUE
  LazyClear = TRUE
  MaxActive = 3
INVARIANTS
  CleanedUp
