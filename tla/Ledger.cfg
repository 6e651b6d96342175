SPECIFICATION LedgerSpec
CONSTANTS
  Tools = {"ablation", "sweep"}
  Levels <- MCLevels
  Sweeps <- MCSweeps
  Settings <- MCSettings
  Results <- MCResults
  NoResult = NoResult
  Nobody = Nobody
INVARIANTS
  CheckedInv
  OneSetting
  ExactWithBaseline
PROPERTIES
  OkRowsKept
  InvalidBaselineEnds
CHECK_DEADLOCK FALSE
