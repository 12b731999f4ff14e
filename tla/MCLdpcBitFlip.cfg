CONSTANTS
  ParityChecks <- kParityCheck
  BlockLength = 12
  MaxIterations = 8
  Inputs <- MCInputs

SPECIFICATION LdpcSpec

INVARIANT
  SingleErrorsAreRestored

CHECK_DEADLOCK FALSE
