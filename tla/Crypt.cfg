SPECIFICATION Spec
CONSTANTS
  NumVolumes = 2
  Passwords = {p, q}
  NoPassword = NoPassword
  Devices = {"clear", "legacy"}
  KeyInFooter = TRUE
  WipeOnFail = {TRUE, FALSE}
  Faults = {"size", "unmount", "prep", "key", "get", "dm", "mount", "io", "reboot"}
  MaxKeys = 2
  MaxFailed = 2
INVARIANTS
  TypeOK
  KeyKept
  LastVolumeDone
  SavedKeyIsRight
  NotMountedWhileConverting
  VolumeHasKey
  AwakeWhileEncrypting
  RetryPossible
PROPERTIES
  KeepsPromise
SYMMETRY Symmetry
