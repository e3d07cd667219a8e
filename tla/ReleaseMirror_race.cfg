CONSTANTS
  x1 = x1
  x2 = x2
  r1 = r1
  m1 = m1
  m2 = m2
  part = part
  commit = commit
  None = None
  Executor = {x1, x2}
  Resolver = {r1}
  Release = {m1, m2}
  Part = {part}
  Commit = commit
  There <- Partly
  Time = {1, 2}
SPECIFICATION Spec
CONSTRAINT Bounds
SYMMETRY Symmetry
CHECK_DEADLOCK FALSE
INVARIANTS
  MirroredWhole
  ExecutorsAgree
  AbandonedFairly
PROPERTIES
  DecidesOnce
