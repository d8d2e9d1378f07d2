CONSTANTS
  ChunkSize = 3
  Sizes = {8, 9}
  IsolatedSizes = {10}
  Files <- SmallFiles
  Stale = Stale
SPECIFICATION Spec
INVARIANTS
  TypeOK
  RoomWithinBuffer
  DeliveredInOrder
  ProtectedNeverHashed
PROPERTY
  KeepsPromise
CHECK_DEADLOCK FALSE
