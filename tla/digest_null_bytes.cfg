CONSTANTS
  ChunkSize = 3
  Sizes = {6}
  IsolatedSizes = {}
  Files <- SmallFiles
  Stale = Stale
SPECIFICATION Spec
INVARIANT NullBytesEmulated
CHECK_DEADLOCK FALSE
