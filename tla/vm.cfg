SPECIFICATION Spec
CONSTANTS
  p = p
  q = q
  c = c
  d1 = d1
  d2 = d2
  g = g
  m1 = m1
  m2 = m2
  Procs = {p, q}
  CodePages = {c}
  DataPages = {d1, d2}
  StackPage = s
  GrowPages = {g}
  Region <- TwoPages
  Touches <- MCTouches
  Frames = {f1, f2, f3}
  Slots = {s1, s2}
  NULL = NULL
CONSTRAINT Followed
SYMMETRY Symm
CHECK_DEADLOCK FALSE
INVARIANTS   SlotsExclusive
