SPECIFICATION Spec
CONSTANTS
  Actions <- MCActions
  N8N_WORKFLOWS <- MCWorkflows
  LOW_RISK_ACTIONS <- MCLow
  MEDIUM_RISK_ACTIONS <- MCMedium
  HIGH_RISK_ACTIONS <- MCHigh
  AutoActionAllowlist <- MCAllowlist
  Workers = {w1, w2}
  Home = w1
  Requests = {r1, r2}
  Proposals <- ActingProposals
  Contexts <- AllContexts
  ControlStates <- DefaultControls
  LimitStates = {TRUE, FALSE}
  MaxPlan = 2
  MaxCrashes = 1
  MaxFailures = 1
  MaxFeedback = 1
  MaxChanges = 0
INVARIANTS PostsAreClaimed CriticalIsHandsOff RecoveredIsVerified
CHECK_DEADLOCK FALSE
