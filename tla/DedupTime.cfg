SPECIFICATION Spec
CONSTANTS
  Alerts = {a1, a2}
  Severities <- MCSeverities
  DedupWindow = 1
  DuplicateWindow = 2
  RegressionWindow = 2
  NoAlert = NoAlert
  MaxTime = 3
  MaxFaults = 0
  MaxRaises = 1
  MaxCrashes = 1
  MaxApprovals = 1
INVARIANTS TypeOK BurstIsOneIncident SettledHeld
PROPERTIES RegressionStands SuppressionHasAHandler
SYMMETRY AlertSymmetry
CHECK_DEADLOCK FALSE
