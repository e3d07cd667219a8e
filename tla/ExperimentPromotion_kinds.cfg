SPECIFICATION PromotionSpec
CONSTANTS
  Runner = {r1}
  Reader = {p}
  Stages = 2
  DependsOn <- MCDependsOn
  Reads <- MCReads
  Writes <- MCWrites
  Kind <- OtherKinds
  Required <- MCRequired
  Fits <- MCFits
  Measured <- MCMeasured
  Gated = {2}
  Content = {a, b}
  Good = {a}
  MaxCrashes = 1
  AllowRegression = TRUE
  Recomputations = 1
  MaxPromoterCrashes = 0
INVARIANT FilesOfOneContent
