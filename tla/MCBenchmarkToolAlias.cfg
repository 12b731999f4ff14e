CONSTANTS
  Paths <- MCPathsWithDanglingLink
  WorkloadArgs = {"small", "large"}
  MaxArguments = 3

SPECIFICATION ToolSpec

INVARIANTS
  AliasesAreRejected

CHECK_DEADLOCK FALSE
