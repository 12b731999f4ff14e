CONSTANTS
  SizeMax = 31
  Frequencies <- MCFrequencies
  NaN = NaN
  Infinity = 20
  Configs = {}
  Captures <- MCCaptures
  Recording <- MCRecording
  Energy <- MCEnergy
  Implementations = {"reference", "neon"}
  ReplayConfigs <- MCReplayConfigs
  DemodOutcomes <- MCDemodOutcomes
  Unit = 20
  SyncBits = 4
  CodedBits = 2

SPECIFICATION Spec

INVARIANTS
  AcceptedFrameInsideCapture
  AcceptedPeakStandsOut
  FrameSyncAgrees
  BandIsJustified
  ScoreWithinEvidence

CHECK_DEADLOCK FALSE
