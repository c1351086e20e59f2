SPECIFICATION Spec
CONSTANTS
  Threads = {main, a, b, c}
  idle_thread = idle
  initial_thread = main
  Locks = {l1}
  Semas = {}
  Devices = {}
  NULL = NULL
  PRI_MIN = 1
  PRI_MAX = 3
  PRI_DEFAULT = 1
  NewPriorities = {}
  TIME_SLICE = 1
  SleepTicks = {}
  MaxTicks = 0
  MaxSema = 1
SYMMETRY Symm
INVARIANTS TypeOK MutualExclusion NoLostWakeup
