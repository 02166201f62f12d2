SPECIFICATION Spec
CONSTANTS
  AsecIds = {a, b}
  ObbIds = {}
  Images = {i, j}
  None = None
  LOOP_MAX = 2
  Filesystems = {"ext4"}
  Failing = {}
  OpenFiles = FALSE
  LostLookups = FALSE
  LazyClear = TRUE
  MaxActive = 3
INVARIANTS
  ActiveIsConsistent
