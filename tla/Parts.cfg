CONSTANTS
  n1 = n1
  n2 = n2
  n3 = n3
  i1 = i1
  i2 = i2
  t1 = t1
  t2 = t2
  None = None
  Writer = {n1, n2}
  Reader = {n3}
  Id = {i1, i2}
  Content = {t1, t2}
  PolicyOf <- PolicyVersions
  Run = {n1, n2, n3}
  LoopKind <- LoopActions
  MaxSteps = 3
  RepeatLimit = 2
  SearchKind <- SearchActions
  BranchFactor = 2
  MaxDepth = 2
  DomainDepth = 3
  Score <- Scores
  PruneBelow = 0
  MinSimulations = 1
  MaxSimulations = 3
SPECIFICATION PartsSpec
CHECK_DEADLOCK FALSE
INVARIANTS
  TrajectoriesTruthful
  EffectsAccounted
  BranchesIsolated
  VisitsAddUp
  ValuesAddUp
  ActiveOwned
  ManifestsHold
  CompleteCovers
PROPERTIES
  TerminalForGood
  RunsEnd
