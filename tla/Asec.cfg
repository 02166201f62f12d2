SPECIFICATION Spec
CONSTANTS
  AsecIds = {a, b}
  ObbIds = {o}
  Images = {i, j}
  None = None
  LOOP_MAX = 2
  Filesystems = {"ext4"}
  Failing = {"image", "loop", "info", "dm", "format", "mount", "unmountVol"}
  OpenFiles = TRUE
  LostLookups = FALSE
  LazyClear = TRUE
  MaxActive = 3
INVARIANTS
  TypeOK
  NoLeak
  ListedIsMounted
  MountsOwnImage
  OneLoopPerImage
  FreshDevices
  CleanedUp
SYMMETRY Symmetry
CONSTRAINT Undisturbed
