CONSTANTS
  SizeMax = 127
  Frequencies <- MCFrequencies
  NaN = NaN
  Infinity = 3
  Configs <- MCConfigs
  Captures <- MCCaptures
  Recording <- MCRecording
  Lanes = 4

SPECIFICATION Spec

INVARIANTS
  TilesAreInPlace

PROPERTIES
  TilingAdvances
  ImplementsReference
