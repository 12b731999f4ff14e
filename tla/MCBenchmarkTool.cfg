CONSTANTS
  Paths <- MCPaths
  WorkloadArgs = {"small", "large"}
  MaxArguments = 3

SPECIFICATION ToolSpec

INVARIANTS
  DeliveredReportsAreWhole
  EarlierReportsSurvive

CHECK_DEADLOCK FALSE
