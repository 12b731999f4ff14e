CONSTANTS
  SizeMax = 127
  Frequencies <- MCFrequencies
  NaN = NaN
  Infinity = 9
  Configs = {}
  Captures <- MCCaptures
  Recording <- MCRecording
  Energy <- MCEnergy
  Implementations = {"reference", "neon"}
  Unit = 20
  TextSize = 12
  Disks <- MCDisks
  Recordings = {"short", "long", "noise", Missing}
  Default = Default
  Null = Null
  Missing = Missing
  MaxArguments = 2

SPECIFICATION Spec

INVARIANTS
  ReplayHasOneSource
  LoadedSizesAreExact
  SearchedGridIsWhole
  SuccessMeansTruthIsThePeak

CHECK_DEADLOCK FALSE
