CONSTANTS
  c1 = c1
  c2 = c2
  s1 = s1
  s2 = s2
  None = None
  Earlier = Earlier
  Collector = {c1}
  Slot = {s1, s2}
  MaxConcurrency = 2
  MaxEpoch = 1
  Disturbed = {c1}
SPECIFICATION Spec
CHECK_DEADLOCK FALSE
PROPERTIES
  NoWritesAfterTransition
