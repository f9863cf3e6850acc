SPECIFICATION FairSpec
CONSTANTS
  Blocks = {1, 2, 3, 4, 5, 6}
  Slots = {1, 2}
  Requests = {r1, r2, r3}
  NoRequest = NoRequest
  BlockSize = 2
  EnableCaching = TRUE
  MaxSeqLen = 5
  Prompts <- OnePrompt
  MaxGenLen = 0
  MaxNumSeqs = 3
  MaxNumBatchedTokens = 4
  MaxChunkSize = 2
  EnablePreemption = TRUE
  DecodeWindowSteps = 1
  Generated = {0}
  StopOnRepeat = FALSE
  ChunkedMinRows = 0
  Streaming = {r1, r2}
  MayAbort = {}
PROPERTIES
  EveryRequestFinishes
