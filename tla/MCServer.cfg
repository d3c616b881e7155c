SPECIFICATION FairSpec
CONSTANTS
  g1 = g1
  s1 = s1
  Req <- Requests
  Streamed <- Streams
  QueueDepth = 1
  MaxBatch = 1
  MaxTokens = 2
INVARIANTS TypeOK OrphansCancelled DrainedAtReturn
PROPERTIES RefusedOnlyAtCapacity ServesAndStops
