CONSTANTS
  o1 = o1
  o2 = o2
  p1 = p1
  p2 = p2
  e1 = e1
  None = None
  Operator = {o1, o2}
  Promotion = {p1, p2}
  Environment = {e1}
  AllowedStages <- Candidates
  Wanted <- Rivals
  MaxTransitions = 2
  MaxGenerations = 3
SYMMETRY Operators
SPECIFICATION Spec
CHECK_DEADLOCK FALSE
INVARIANTS
  AliasesMove
  RetiredAliasesOverlap
