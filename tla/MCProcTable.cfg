\* Four slots: the parent of an exiting process need not be init.
CONSTANTS
  NPROC = 4
  MaxPid = 4
  KillPids = {0, 3}
SPECIFICATION Spec
INVARIANTS ParentCanReap WaiterHasReason TableConsistent
PROPERTIES WaitReturns KilledDies
CHECK_DEADLOCK FALSE
