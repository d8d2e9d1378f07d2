CONSTANTS
  Names <- ToolNames
  Invocations <- ToolInvocations
  Runtimes <- ToolRuntimes
  Unrunnable <- NoElf
  GuessedInfo <- GuessInfo
  Garbled <- GarbledInfos
  MaxRuns = 2
  Nothing = Nothing
SPECIFICATION Spec
INVARIANTS
  TypeOK
  PackageComplete
  UnusableRuntimeCaught
  DigestMatches
  SignatureVerifies
  ZsyncMatches
  UpdateInformationExact
PROPERTIES
  DeliveredKept
  KeepsPackagePromise
  WaitsAsPromised
  SignsAsPromised
  RunEnds
CHECK_DEADLOCK FALSE
