SPECIFICATION Spec
CONSTANTS
  Blocks = {1, 2, 3, 4}
  Slots = {1}
  Requests = {r1, r2}
  NoRequest = NoRequest
  BlockSize = 2
  EnableCaching = TRUE
  MaxSeqLen = 6
  Prompts <- LongPrompts
  MaxGenLen = 0
  MaxNumSeqs = 2
  MaxNumBatchedTokens = 4
  MaxChunkSize = 2
  EnablePreemption = FALSE
  DecodeWindowSteps = 0
  Generated = {0}
  StopOnRepeat = FALSE
  ChunkedMinRows = 2
  Streaming = {r1, r2}
  MayAbort = {}
INVARIANTS
  AttendsOwnPrefix
