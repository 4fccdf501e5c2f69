CONSTANTS
  Readers = {r1}
  Writers = {w1, w2}
  a = a
  b = b
  Byte <- MCByte
  PipeSize = 2
  Word = 4
  Messages <- MCMessages
  ReadSizes = {1, 2}
SPECIFICATION Spec
INVARIANTS SleepersHaveCause FreedUnused
PROPERTIES BytePipeSpec WriterWoken EofReachesReaders
CHECK_DEADLOCK FALSE
