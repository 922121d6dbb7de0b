SPECIFICATION FairSpec
CONSTANTS
  Alerts = {a1, a2}
  Severities <- MCSeverities
  DedupWindow = 1
  DuplicateWindow = 2
  RegressionWindow = 2
  NoAlert = NoAlert
  MaxTime = 3
  MaxFaults = 0
  MaxRaises = 0
  MaxCrashes = 0
  MaxApprovals = 1
PROPERTY FailedFixIsDiagnosedAgain
CHECK_DEADLOCK FALSE
