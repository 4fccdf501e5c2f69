\* Two processes with up to two buffers each, three blocks, two buffers, one of which may be pinned.
CONSTANTS
  Procs = {p1, p2}
  Locals = {x, y}
  Ptrs <- MCPtrs
  k1 = k1
  k2 = k2
  k3 = k3
  Blocks <- MCBlocks
  Nested <- MCNested
  Vals = {0, 1}
  None = None
  NBUF = 2
  MaxPins = 1
  MaxFaults = 1
SPECIFICATION Spec
INVARIANTS CacheConsistent QueueServed
PROPERTIES BlockStoreSpec
SYMMETRY Symmetry
CHECK_DEADLOCK FALSE
