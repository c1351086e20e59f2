SPECIFICATION Spec
CONSTANTS
  Names <- MCNames
  Sectors = {1, 2, 3}
  Paths <- MCPaths
  MakePaths <- MCMakePaths
  RemovePaths <- MCRemovePaths
  MaxProcs = 2
  MaxFd = 2
  MaxInodes = 3
  MaxCount = 2
  NULL = NULL
CHECK_DEADLOCK FALSE
INVARIANTS   Created
PROPERTIES LeafByLeaf
