\* Two processes, two files, blocks of two words.
CONSTANTS
  Procs = {p1, p2}
  None = None
  NINODES = 3
  NINODE = 3
  NFILE = 2
  NBLOCK = 9
  NDIRECT = 2
  BSIZE = 2
  MAXOPBLOCKS = 6
  Images <- MCImages
  WriteSizes = {3, 7}
  ReadSizes = {3}
  MaxCalls = 6
SPECIFICATION Spec
INVARIANTS Accounted FilesIntact ReservationKept
SYMMETRY Symmetry
CHECK_DEADLOCK FALSE
