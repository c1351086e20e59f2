SPECIFICATION Spec
CONSTANTS
  Threads = {t, u}
  main = t
  Sectors = {s}
  Kinds = {"ata", "mute", "absent", "atapi"}
  MaxSpurious = 1
  MaxOps = 2
  NULL = NULL
CHECK_DEADLOCK FALSE
INVARIANTS ReadsLastWrite CleanHandover NeverFails
PROPERTIES Answered
