SPECIFICATION PoolFairSpec
CONSTANTS
  n = n
  c1 = c1
  Chunk = {k1, k2, k3}
  Threads <- AllThreads
  Uses <- AllUses
  MaxOwners = 2
INVARIANTS LivesWhileUsed ChunksAreConserved
PROPERTIES WaitersAreCalled
CHECK_DEADLOCK FALSE
