CONSTANTS
  FileSize = 6
  Tables <- SmallTables
  Keyring = {alice, bob}
  KeyIds = {alice, carol}
  NoKey = NoKey
  SignatureSizes = {1, 2, 3}
  KeySizes = {0, 2, 3}
  SizeMod = 5
SPECIFICATION Spec
PROPERTY ReadErrorEndsLoop
CHECK_DEADLOCK FALSE
