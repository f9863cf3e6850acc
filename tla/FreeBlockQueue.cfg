CONSTANTS
  Blocks = {b1, b2, b3, b4}
  Head_ = head
  Tail_ = tail
  NoBlock = NoBlock
SPECIFICATION Spec
INVARIANTS LinksAreMutual CountIsLength
PROPERTY ImplementsDeQueue
