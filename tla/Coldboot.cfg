SPECIFICATION Spec
CONSTANTS
  DiskMinors <- MCDiskMinors
  MaxKernelParts = 2
  HybridDisks = FALSE
  MinorSpan = 3
  MAX_PARTITIONS = 3
  MAX_MOUNT_PART = 2
  MountTries = 2
  ProvidesAsec = TRUE
  UnmountMayFail = TRUE
  Commands = {"mount"}
  KernelChanges = {"unplug", "swap", "coldboot", "repartition", "mediachange"}
  MaxKernelSteps = 3
  MaxStack = 2
INVARIANTS
  MountedIsMounted
  NoDiskNoMedia
  ReadyWhenAllSeen
CHECK_DEADLOCK FALSE
