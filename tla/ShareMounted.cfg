SPECIFICATION Spec
CONSTANTS
  DiskMinors <- MCDiskMinors
  MaxKernelParts = 0
  HybridDisks = FALSE
  MinorSpan = 3
  MAX_PARTITIONS = 1
  MAX_MOUNT_PART = 1
  MountTries = 2
  ProvidesAsec = FALSE
  UnmountMayFail = FALSE
  Commands = {"mount", "share"}
  KernelChanges = {"mediachange"}
  MaxKernelSteps = 2
  MaxStack = 2
INVARIANTS
  SharedIsNotMounted
CHECK_DEADLOCK FALSE
