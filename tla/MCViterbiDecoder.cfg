SPECIFICATION Spec
CONSTANTS
  SoftInputs <- MCSoftInputs
  SoftLimit = 2
  NegInf <- MCNegInf
  NeonSymbols = 2
  StreamingSymbols = 3
INVARIANTS
  TablesMatchReference
  MetricsAreSound
  DecodedIsBestPath
  SingleErrorCorrected
CHECK_DEADLOCK FALSE
