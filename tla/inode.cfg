SPECIFICATION Spec
CONSTANTS
  DISK_SECTOR_SIZE = 2
  DIRECT_LEN = 2
  DiskSize = 16
  Formatted = 2
  Files = {f, g}
  NULL = NULL
  Offsets = {1, 2, 3, 7}
  Sizes = {2}
  Lengths = {0, 1, 9}
  MaxFiles = 2
  MaxGrow = 4
  MaxRemove = 4
  MinFree = 1
SYMMETRY Symm
CHECK_DEADLOCK FALSE
INVARIANTS SectorsExclusive CountsExact
PROPERTIES ImplementsStore
