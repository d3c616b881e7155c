SPECIFICATION PatientSpec
CONSTANTS
  r1 = r1
  r2 = r2
  r3 = r3
  NoKv = NoKv
  Req <- MCReq
  Prompt <- MCPrompt
  MaxNew <- MCMaxNew
  fnv1a <- MCFnv
  NumBlocks = 7
  BlockSize = 2
  MaxBatch = 2
  Donors = 1
  PrefixCaching = TRUE
  NCtxSeq = 11
  Word = 256
  QueueDepth = 2
  NBatch = 3
  PrefillChunk = 2
  MaxFailures = 0
INVARIANTS RefcountExact SlotsExact  KvFaithful HeadroomSuffices RoomIsMade GrowthCovered
PROPERTIES ImplementsService
