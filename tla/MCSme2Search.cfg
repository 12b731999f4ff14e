CONSTANTS
  SizeMax = 31
  Frequencies <- MCFrequencies
  NaN = NaN
  Infinity = 9
  Configs <- MCConfigs
  Captures <- MCCaptures
  Recording <- MCRecording
  Lanes = 2

SPECIFICATION Spec

INVARIANTS
  CorrelationsBelongToHypotheses
  AdmittedWorkspaceIsFresh

PROPERTIES
  KernelAdvances
  ImplementsReference
