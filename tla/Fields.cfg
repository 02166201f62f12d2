SPECIFICATION Spec
CONSTANTS
  NumVolumes = 0
  Passwords = {p, q}
  NoPassword = NoPassword
  Devices = {"legacy"}
  KeyInFooter = TRUE
  WipeOnFail = {TRUE}
  Faults = {}
  MaxKeys = 1
  MaxFailed = 2
PROPERTIES
  FieldsBeforeDecryption
