CONSTANTS
  BlockSize = 5
  LengthSize = 2
  LoMod = 10
  HiMod = 3
  Sizes = {0, 1, 2, 3, 4, 5, 6, 7, 8, 9, 10, 11, 14, 21}
  MaxTotal = 45
SPECIFICATION Spec
INVARIANTS
  TypeOK
  InStep
PROPERTY
  KeepsPromise
