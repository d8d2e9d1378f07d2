CONSTANTS
  ChunkSize = 3
  Sizes = {6}
  IsolatedSizes = {}
  Files <- SmallFiles
  Stale = Stale
SPECIFICATION Spec
INVARIANT SectionsSkipped
CHECK_DEADLOCK FALSE
