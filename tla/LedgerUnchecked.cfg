SPECIFICATION LedgerSpec
CONSTANTS
  Tools = {"sweep"}
  Levels <- MCLevels
  Sweeps <- MCSweepsInOrder
  Settings <- MCSettings
  Results <- MCResults
  NoResult = NoResult
  Nobody = Nobody
INVARIANTS
  OkMeansCompared
CHECK_DEADLOCK FALSE
