SPECIFICATION FairSpec
CONSTANTS
  Threads = {main, a, b}
  idle_thread = idle
  initial_thread = main
  Locks = {}
  Semas = {}
  Devices = {}
  NULL = NULL
  PRI_MIN = 1
  PRI_MAX = 1
  PRI_DEFAULT = 1
  NewPriorities = {}
  TIME_SLICE = 2
  SleepTicks = {1, 2}
  MaxTicks = 3
  MaxSema = 1
PROPERTIES SleepsLongEnough SleepersWake RoundRobin
