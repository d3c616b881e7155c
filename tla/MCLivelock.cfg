SPECIFICATION PatientFairSpec
CONSTANTS
  r1 = r1
  r2 = r2
  NoKv = NoKv
  Req <- MCReq
  Prompt <- MCPrompt
  MaxNew <- MCMaxNew
  fnv1a <- MCFnv
  NumBlocks = 7
  BlockSize = 1
  MaxBatch = 2
  Donors = 0
  PrefixCaching = FALSE
  NCtxSeq = 0
  Word = 256
  QueueDepth = 2
  NBatch = 4
  PrefillChunk = 1
  MaxFailures = 0
PROPERTIES Answered
