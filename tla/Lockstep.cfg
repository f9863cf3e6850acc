SPECIFICATION FairSpec
CONSTANTS
  Replicas = {1, 2}
  Pipelined = FALSE
  MayShutdown = TRUE
  MayOrphan = TRUE
  MaxAdds = 2
  MaxWork = 2
  MaxPasses = 2
  MaxStalls = 1
CHECK_DEADLOCK FALSE
INVARIANT SameCollective
PROPERTIES GridEnds WorkIsServed
