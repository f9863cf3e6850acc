CONSTANTS
  Blocks = {b1, b2, b3}
  Requests = {r1, r2}
  h1 = h1
  h2 = h2
  h3 = h3
  Hashes = {h1, h2, h3}
  NoHash = NoHash
  Chains <- MCChains
SPECIFICATION Spec
SYMMETRY Symmetry
INVARIANTS
  RefCountsAreHolders
  CachedBlocksAreWritten
  ReadsOwnPrefix
