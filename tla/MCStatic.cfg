SPECIFICATION Spec
CONSTANTS
  r1 = r1
  r2 = r2
  r3 = r3
  r4 = r4
  Req <- MCReq
  Prompt <- MCPrompt
  MaxNew <- MCMaxNew
  NumBlocks = 4
  BlockSize = 2
  MaxBatch = 2
  NCtxSeq = 6
  Word = 256
  QueueDepth = 2
  NBatch = 3
  MaxFailures = 1
INVARIANTS TypeOK ToldOnce BlocksReserved SlotsHeld
PROPERTIES ImplementsService
