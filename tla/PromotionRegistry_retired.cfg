CONSTANTS
  o1 = o1
  o2 = o2
  p1 = p1
  p2 = p2
  e1 = e1
  None = None
  Operator = {o1, o2}
  Promotion = {p1}
  Environment = {e1}
  AllowedStages <- Production
  Wanted <- Command
  MaxTransitions = 4
  MaxGenerations = 1
SPECIFICATION Spec
CHECK_DEADLOCK FALSE
INVARIANTS
  RetirementDetached
