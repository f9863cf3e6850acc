SPECIFICATION SSpec
CONSTANTS
  Blocks = {1, 2, 3, 4}
  Slots = {1, 2}
  Requests = {r1, r2, r3}
  NoRequest = NoRequest
  BlockSize = 2
  EnableCaching = TRUE
  MaxSeqLen = 4
  Prompts <- ShortPrompts
  MaxGenLen = 0
  MaxNumSeqs = 3
  MaxNumBatchedTokens = 2
  MaxChunkSize = 2
  EnablePreemption = FALSE
  DecodeWindowSteps = 0
  Generated = {}
  StopOnRepeat = TRUE
  ChunkedMinRows = 0
  Streaming = {r1}
  MayAbort = {r2}
  Depths = {0, 1}
  StopToken = 0
  MayStop = {r1}
  MaxDraft = 2
INVARIANTS PendingIsInFlight GreedyContinuation RowsInWindow AttendsOwnPrefix StreamComplete NothingEvicted WithinTokenBudget CachedRowsAreWritten
