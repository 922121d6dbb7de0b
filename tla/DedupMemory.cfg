SPECIFICATION FairSpec
CONSTANTS
  Alerts = {a1, a2}
  Severities <- MCSeverities
  DedupWindow = 1
  DuplicateWindow = 2
  RegressionWindow = 2
  NoAlert = NoAlert
  MaxTime = 1
  MaxFaults = 2
  MaxRaises = 1
  MaxCrashes = 1
  MaxApprovals = 0
INVARIANT ReplayIsEarned
PROPERTY AcceptedIsAnswered
CHECK_DEADLOCK FALSE
