SPECIFICATION AcquisitionSpec
CONSTANTS
  Fetcher = {f1, f2}
  Acquirer = {a1}
  Chunks = 2
  MaxDeaths = 1
  Cases <- MCCases
  Versions <- MCVersions
  LocalVersions <- MCLocalVersions
CHECK_DEADLOCK FALSE
INVARIANT
  NothingLeft
