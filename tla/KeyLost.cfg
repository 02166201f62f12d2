SPECIFICATION Spec
CONSTANTS
  NumVolumes = 1
  Passwords = {p, q}
  NoPassword = NoPassword
  Devices = {"legacy"}
  KeyInFooter = TRUE
  WipeOnFail = {TRUE}
  Faults = {"put"}
  MaxKeys = 1
  MaxFailed = 2
INVARIANTS
  KeyKept
CHECK_DEADLOCK FALSE
