SPECIFICATION FairSpec
CONSTANTS
  DiskMinors <- MCDiskMinors
  MaxKernelParts = 1
  HybridDisks = FALSE
  MinorSpan = 3
  MAX_PARTITIONS = 2
  MAX_MOUNT_PART = 2
  MountTries = 2
  ProvidesAsec = FALSE
  UnmountMayFail = TRUE
  Commands = {"mount", "unmount", "format", "share", "unshare"}
  KernelChanges = {"unplug", "swap", "mediachange"}
  MaxKernelSteps = 3
  MaxStack = 2
INVARIANTS
  TypeOK
  OneAtATime
  RemovalExcludesMount
PROPERTIES
  UeventsHandled
  CommandsReturn
CHECK_DEADLOCK FALSE
