SPECIFICATION Spec
CONSTANTS
  Actions <- MCActions
  N8N_WORKFLOWS <- MCWorkflows
  LOW_RISK_ACTIONS <- MCLow
  MEDIUM_RISK_ACTIONS <- MCMedium
  HIGH_RISK_ACTIONS <- MCHigh
  AutoActionAllowlist <- MCAllowlist
  Workers = {w1}
  Home = w1
  Requests = {r1}
  Proposals <- AutoOnly
  Contexts <- ProductionOnly
  ControlStates <- ApproveToAct
  LimitStates = {TRUE}
  MaxPlan = 1
  MaxCrashes = 0
  MaxFailures = 0
  MaxFeedback = 0
  MaxChanges = 0
INVARIANT ApprovedIsCarriedOut
CHECK_DEADLOCK FALSE
