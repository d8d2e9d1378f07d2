CONSTANTS
  Names <- ToolNames
  Invocations <- ToolInvocations
  Runtimes <- ToolRuntimes
  Unrunnable <- NoElf
  GuessedInfo <- GuessInfo
  Garbled <- GarbledInfos
  MaxRuns = 1
  Nothing = Nothing
SPECIFICATION Spec
INVARIANT DigestWriteChecked
CHECK_DEADLOCK FALSE
