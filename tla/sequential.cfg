SPECIFICATION Spec
CONSTANTS
  ListElems = {1, 2, 3, 4}
  MinBuckets = 2
  BEST_ELEMS_PER_BUCKET = 1
  Keys = {0, 1, 2, 6}
  ELEM_BITS = 2
  PGSIZE = 16
  FirstBlock = 3
  ArenaSize = 5
  SizeMax = 64
  PageCnt = 4
  Sizes = {0, 2, 5, 15}
  MaxLive = 4
  BitCnt = 5
  ROW_CNT = 2
  COL_CNT = 3
  TAB = 2
  MaxRows = 4
  Threads = {t1, t2}
  F = 1024
  TIMER_FREQ = 4
  SLICE = 2
  MaxTicks = 8
  PAGE = 4
  PHYS_BASE = 12
  ADDRESSES = 32
  PhdrSize = 2
  W = 4
  IntMax = 127
  Bytes256 = 4
  ArrayLen = 6
  BufferLen = 4
  TypeSize <- MCTypeSize
  IntegerBuf = 64
  PerLine = 4
CHECK_DEADLOCK FALSE
INVARIANTS ContainersAgree BlocksExclusive ConsoleAgrees FairPriorities  LibraryExact
