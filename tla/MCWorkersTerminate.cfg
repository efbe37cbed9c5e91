SPECIFICATION FairSpec
CONSTANTS
  Workers = {w1, w2}
  NumRanges = 2
  NumBatches <- MCOneBatchEach
  MaxRetries = 1
  MaxWriteRetries = 1
  MaxQueueSize = 1
PROPERTIES
  WorkersTerminate
