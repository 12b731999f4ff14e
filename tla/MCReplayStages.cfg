CONSTANTS
  SampleBytes = 2
  ChunkBytes = 4
  MaxBytes = 16
  Buffers <- MCBuffers
  SyncWords <- MCSyncWords
  FrameLengths = {0, 1, 2}
  Thresholds <- MCThresholds
  LowestInt <- MCLowestInt
  MessageBytes = 2
  Messages <- MCMessages
  Errors <- MCErrors

SPECIFICATION MCSpec

INVARIANTS
  AllSamplesOrNone
  FrameIsFirstBest
  IntactFrameIsVerified
  ErrorsAreDetected

CHECK_DEADLOCK FALSE
