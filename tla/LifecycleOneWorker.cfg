SPECIFICATION FairSpec
CONSTANTS
  Actions <- MCActions
  N8N_WORKFLOWS <- MCWorkflows
  LOW_RISK_ACTIONS <- MCLow
  MEDIUM_RISK_ACTIONS <- MCMedium
  HIGH_RISK_ACTIONS <- MCHigh
  AutoActionAllowlist <- MCAllowlist
  Workers = {w1}
  Home = w1
  Requests = {r1, r2}
  Proposals <- AllProposals
  Contexts <- AllContexts
  ControlStates <- AllControls
  LimitStates = {TRUE, FALSE}
  MaxPlan = 2
  MaxCrashes = 1
  MaxFailures = 1
  MaxFeedback = 0
  MaxChanges = 1
INVARIANTS TypeOK PostsAreClaimed SingleUse ExecutionsAreRecorded
PROPERTIES RejectionIsFinal IncidentSettles ImplementsContract
CHECK_DEADLOCK FALSE
