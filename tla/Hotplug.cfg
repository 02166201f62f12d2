SPECIFICATION Spec
CONSTANTS
  DiskMinors <- MCDiskMinors
  MaxKernelParts = 3
  HybridDisks = FALSE
  MinorSpan = 3
  MAX_PARTITIONS = 3
  MAX_MOUNT_PART = 2
  MountTries = 2
  ProvidesAsec = TRUE
  UnmountMayFail = FALSE
  Commands = {"mount"}
  KernelChanges = {"unplug"}
  MaxKernelSteps = 6
  MaxStack = 2
INVARIANTS
  RemovedDiskUnmounted
CHECK_DEADLOCK FALSE
