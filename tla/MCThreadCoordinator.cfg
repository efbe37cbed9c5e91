SPECIFICATION FairSpec
CONSTANTS
  Workers = {w1, w2}
  NumRanges = 2
  NumBatches <- MCNumBatches
  MaxRetries = 1
  MaxWriteRetries = 2
  MaxQueueSize = 1
INVARIANTS
  TypeOK
  RangeConservation
  BatchesAccounted
  ProgressExact
  RealtimeAfterBackfill
  GracefulShutdown
PROPERTIES
  ImplementsProgress
  BackfillLeadsToRealtime
  SigTermLeadsToExit
