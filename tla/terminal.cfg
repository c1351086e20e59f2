SPECIFICATION Spec
CONSTANTS
  w1 = w1
  w2 = w2
  Readers = {r1, r2}
  Writers = {w1, w2}
  Script <- MCScript
  BufSize = 2
  MaxReads = 1
  MaxHost = 2
  MaxKeys = 1
  MaxIntr = 1
  NULL = NULL
CHECK_DEADLOCK FALSE
INVARIANTS   LinesWhole
PROPERTIES ReceiveResumes TransmitDrains
