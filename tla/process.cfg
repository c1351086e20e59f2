SPECIFICATION Spec
CONSTANTS
  Procs = {a, b, c}
  main = main
  NULL = NULL
  Statuses = {7}
SYMMETRY Symm
INVARIANTS  ExecAfterLoad NoLostExit ChildrenListed
 
