CONSTANTS
  SizeMax = 7
  Frequencies <- MCFrequencies
  NaN = NaN
  Infinity = 3
  Configs <- MCConfigs
  Captures <- MCCaptures
  Recording <- MCRecording

SPECIFICATION Spec

INVARIANTS
  TypeOK
  TopTwoOfEvaluated
  WindowsInsideCapture
  SuccessVouches

PROPERTIES
  SearchAdvances
