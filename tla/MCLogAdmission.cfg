\* Three processes, a log of nine data slots: three calls are admitted to an
\* empty log, and one that comes after a block was logged waits for space.
CONSTANTS
  Procs = {p1, p2, p3}
  LogSize = 11
  MaxOpBlocks = 3
  OpBlocks = 2
SPECIFICATION Spec
INVARIANTS NoPanic CountersAgree SleeperHasWaker
PROPERTIES SleeperWoken GroupCommitSpec
