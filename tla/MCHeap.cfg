\* Two tasks, a pool of one block, and a heap of nine free words.
SPECIFICATION FairSpec
CONSTANTS
  Tasks = {t1, t2}
  Pools <- MCPools
  Base = 1
  HeapEnd = 15
  Sizes = {4, 5}
  Aligns = {2, 8}
INVARIANTS
  TypeOK
  HeapInv
  OwnedOnce
  WalkMissesNothing
PROPERTIES
  ImplementsBlocks
  CallsReturn
