SPECIFICATION Spec
CONSTANTS
  DiskMinors <- MCDiskMinors
  MaxKernelParts = 2
  HybridDisks = FALSE
  MinorSpan = 3
  MAX_PARTITIONS = 3
  MAX_MOUNT_PART = 2
  MountTries = 2
  ProvidesAsec = FALSE
  UnmountMayFail = FALSE
  Commands = {"format"}
  KernelChanges = {"unplug", "swap"}
  MaxKernelSteps = 3
  MaxStack = 2
INVARIANTS
  InsertedWhenComplete
CHECK_DEADLOCK FALSE
