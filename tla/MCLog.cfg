\* Two processes whose calls fit into the log together; every disk fault of the
\* model may occur, the fault-free behaviours are among them.
CONSTANTS
  Procs = {p1, p2}
  LogSize = 6
  MaxOpBlocks = 2
  OpBlocks = 1
  zero = zero
  x = x
  Home <- MCHome
  Data <- MCData
  Zero = zero
  DataWeight <- MCWeight
  BSize = 512
  LossyDisk = TRUE
SPECIFICATION Spec
INVARIANTS LogTypeOK Recoverable NoUncommittedHome DirtyIsLogged NoFalseAlarm LogExact
PROPERTY GroupCommitSpec
SYMMETRY Symmetry
