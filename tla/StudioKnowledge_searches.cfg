CONSTANTS
  s1 = s1
  s2 = s2
  w1 = w1
  w2 = w2
  None = None
  Source = {s1, s2}
  Searcher = {w1, w2}
  MaxRevision = 2
SPECIFICATION Spec
SYMMETRY Symmetry
CHECK_DEADLOCK FALSE
INVARIANTS
  IndexesFaithful
  SucceededIndexed
  RowsHaveFiles
  TasksHaveSources
