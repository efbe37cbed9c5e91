SPECIFICATION Spec
CONSTANTS
  Day = 3
  Horizon = 14
  MaxChunkDays = 3
INVARIANT
  EveryBlobInAChunk
