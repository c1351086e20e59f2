SPECIFICATION Spec
CONSTANTS
  Threads = {main, a, b}
  idle_thread = idle
  initial_thread = main
  Locks = {}
  Semas = {s1}
  Devices = {d1}
  NULL = NULL
  PRI_MIN = 1
  PRI_MAX = 3
  PRI_DEFAULT = 1
  NewPriorities = {1, 3}
  TIME_SLICE = 1
  SleepTicks = {}
  MaxTicks = 0
  MaxSema = 2
SYMMETRY Symm
INVARIANTS ElemOnOneList
PROPERTIES HighestFirst WakesHighest
