SPECIFICATION Spec
CONSTANTS
  Actions <- MCActions
  N8N_WORKFLOWS <- MCWorkflows
  LOW_RISK_ACTIONS <- MCLow
  MEDIUM_RISK_ACTIONS <- MCMedium
  HIGH_RISK_ACTIONS <- MCHigh
  AutoActionAllowlist <- MCAllowlist
  Workers = {w1}
  Home = w1
  Requests = {r1}
  Proposals <- AskOnly
  Contexts <- ProductionOnly
  ControlStates <- DefaultControls
  LimitStates = {TRUE}
  MaxPlan = 2
  MaxCrashes = 0
  MaxFailures = 0
  MaxFeedback = 0
  MaxChanges = 0
INVARIANT WaitingIsDecidable
CHECK_DEADLOCK FALSE
