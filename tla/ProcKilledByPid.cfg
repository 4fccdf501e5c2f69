CONSTANTS
  NPROC = 4
  MaxPid = 4
  KillPids = {0, 3}
SPECIFICATION Spec
PROPERTY KilledByPid
CHECK_DEADLOCK FALSE
