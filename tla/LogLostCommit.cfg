CONSTANTS
  Procs = {p1, p2}
  LogSize = 6
  MaxOpBlocks = 2
  OpBlocks = 1
  zero = zero
  x = x
  Home <- MCHome
  Data <- MCData
  Zero = zero
  DataWeight <- MCWeight
  BSize = 512
  LossyDisk = FALSE
SPECIFICATION Spec
INVARIANT CommittedSurvivesCrash
