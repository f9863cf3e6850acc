SPECIFICATION OFairSpec
CONSTANTS
  r2 = r2
  Requests = {r1, r2, r3}
  NoRequest = NoRequest
  Blocks = {1, 2, 3}
  CpuBlocks = {1, 2, 3}
  Slots = {1, 2}
  BlockSize = 2
  EnableCaching = TRUE
  MaxSeqLen = 6
  Prompts <- MCPrompts
  PromptOf <- MCPromptOf
  MaxGenLen = 3
  MaxNumSeqs = 2
  MaxNumBatchedTokens = 8
  MaxChunkSize = 0
  EnablePreemption = FALSE
  DecodeWindowSteps = 0
  Generated = {0}
  StopOnRepeat = FALSE
  ChunkedMinRows = 0
  Streaming = {}
  MayAbort = {r1, r3}
INVARIANTS AttendsOwnPrefix TierHoldsItsKeys CopiesKeepTheirBlocks NothingLeaks
PROPERTY EveryRequestFinishes
