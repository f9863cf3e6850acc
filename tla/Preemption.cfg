SPECIFICATION Spec
CONSTANTS
  Blocks = {1, 2, 3, 4}
  Slots = {1, 2}
  Requests = {r1, r2, r3}
  NoRequest = NoRequest
  BlockSize = 2
  EnableCaching = TRUE
  MaxSeqLen = 6
  Prompts <- LongPrompts
  MaxGenLen = 3
  MaxNumSeqs = 3
  MaxNumBatchedTokens = 4
  MaxChunkSize = 2
  EnablePreemption = TRUE
  DecodeWindowSteps = 1
  Generated = {0}
  StopOnRepeat = FALSE
  ChunkedMinRows = 0
  Streaming = {r1}
  MayAbort = {r2}
INVARIANTS
  AttendsOwnPrefix
  PlacesPartition
  NoBlockLeak
  WritesArePrivate
  PlanIsRunnable
  GenerationBounded
