CONSTANTS
  Workloads <- MCWorkloads
  Calls <- MCCalls
  CaptureCount = 2
  SizeMax = 255
  MaxOperations = 2
  MaxFaults = 1

SPECIFICATION BenchmarkSpec

INVARIANTS
  TypeOK
  OnlyVerifiedPathsAreTimed
  PublishedTimingIsComplete
  ReportOkIsTruthful

CHECK_DEADLOCK FALSE
