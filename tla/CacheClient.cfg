CONSTANTS
  Blocks = {b1, b2, b3, b4}
  Requests = {r1, r2}
  BlockSize = 2
  EnableCaching = TRUE
  Prompts <- MCPrompts
  Generated = {0}
  MaxSeqLen = 5
SPECIFICATION Spec
SYMMETRY Symmetry
INVARIANTS NoOrphanSuffix
PROPERTY ImplementsLedger
