CONSTANTS
  c1 = c1
  c2 = c2
  s1 = s1
  s2 = s2
  None = None
  Earlier = Earlier
  Collector = {c1, c2}
  Slot = {s1, s2}
  MaxConcurrency = 1
  MaxEpoch = 2
  Disturbed = {c1}
SPECIFICATION MCSpec
CHECK_DEADLOCK FALSE
INVARIANTS
  CompletedRunsWhole
  CompletedClaimsBacked
  OvertakenOnlyWhenLapsed
PROPERTIES
  EndedRunsDrain
  CollectorsEnd
