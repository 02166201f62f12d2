SPECIFICATION Spec
CONSTANTS
  DiskMinors <- MCDiskMinors
  MaxKernelParts = 1
  HybridDisks = FALSE
  MinorSpan = 3
  MAX_PARTITIONS = 2
  MAX_MOUNT_PART = 1
  MountTries = 2
  ProvidesAsec = FALSE
  UnmountMayFail = FALSE
  Commands = {"mount"}
  KernelChanges = {"unplug", "swap", "coldboot"}
  MaxKernelSteps = 3
  MaxStack = 2
PROPERTIES
  MountedRemovalUnmounts
CHECK_DEADLOCK FALSE
