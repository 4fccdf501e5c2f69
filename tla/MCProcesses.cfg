\* Terminal: a ring of two characters, five processes, four keys and one failing call.
\* Scheduler: two processes on two processors.  Memory: just enough pages for
\* two executed programs.  Umalloc: memory for four calls of morecore.
CONSTANTS
  MAXARGS = 3
  TermProcs = 5
  NOFILE = 5
  NPIPE = 1
  INPUT_BUF = 2
  InputWrap = 4
  nbuf = 3
  CatBuf = 2
  Keys = {"x", "nl", "^D", "^H", "^U"}
  MaxKeys = 4
  MaxFaults = 1
  NPROC = 2
  NCPU = 2
  Wrap = 2
  Naps = {1}
  MemProcs = 3
  NPAGES = 16
  PGSIZE = 2
  NPTENTRIES = 4
  KTABLES = 1
  KERNBASE = 10
  ArgSizes = {1, 3}
  Requests = {1, 5, 9}
  HeaderSize = 4
  MoreUnits = 3
  TOP = 13
SPECIFICATION MCSpec
INVARIANTS ReaderAwake ShellSound SwitchingSafe NoLostWakeup MemorySound HeapSound
PROPERTIES LineInputSpec SleepsLongEnough ChildIsCopy
VIEW View
