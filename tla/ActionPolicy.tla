---------------------------- MODULE ActionPolicy ----------------------------
(***************************************************************************)
(* The deterministic policy gate of agents/action/policy.py and the        *)
(* autonomy controls that agents/action/agent.py lays over its decisions.  *)
(*                                                                         *)
(* A proposal is an action of the catalog with parameters of which only    *)
(* one thing matters: whether they pass the bounds check (valid).  A       *)
(* context is what the gate reads besides the proposal: the severity of    *)
(* the incident, the environment, the simulation flag and whether          *)
(* auto-remediation is enabled for the affected service.                   *)
(***************************************************************************)

CONSTANTS
  Actions,              \* action names a diagnosis may recommend
  N8N_WORKFLOWS,        \* names with a registered workflow
  LOW_RISK_ACTIONS,
  MEDIUM_RISK_ACTIONS,
  HIGH_RISK_ACTIONS,
  AutoActionAllowlist   \* the operator's auto_action_allowlist setting

\* The three risk classes of the source are disjoint sets of names.
ASSUME CatalogAssumption ==
  /\ LOW_RISK_ACTIONS \cap HIGH_RISK_ACTIONS = {}
  /\ LOW_RISK_ACTIONS \cap MEDIUM_RISK_ACTIONS = {}
  /\ MEDIUM_RISK_ACTIONS \cap HIGH_RISK_ACTIONS = {}

Decisions == {"denied", "recommend_only", "approval_required", "permitted_auto"}

Proposal == [action : Actions, valid : BOOLEAN]

Context == [critical : BOOLEAN,                        \* anomaly severity is critical
            env      : {"development", "production"},
            dry_run  : BOOLEAN,
            auto_on  : BOOLEAN,   \* auto_remediation_enabled and service targeted
            api_key  : BOOLEAN]   \* N8N_API_KEY configured

Autonomy == {"observe", "suggest", "approve_to_act", "autonomous"}

Controls == [paused : BOOLEAN, autonomy : Autonomy]

-----------------------------------------------------------------------------

(* An allowlisted reversible action runs without approval in a simulation  *)
(* outside production, or when auto-remediation covers the service and its *)
(* hourly limit is not reached (limitFree).                                *)
AutoAllowed(p, ctx, limitFree) ==
  /\ p.action \in AutoActionAllowlist \cap LOW_RISK_ACTIONS
  /\ \/ ctx.dry_run /\ ctx.env # "production"
     \/ ctx.auto_on /\ limitFree

(* Only a registered workflow or a human-only action, with parameters in   *)
(* bounds, on an incident that is not critical, gets past the denials.     *)
Permissible(p, critical) ==
  /\ ~critical
  /\ p.valid
  /\ p.action \in N8N_WORKFLOWS \cup HIGH_RISK_ACTIONS

(* What is not run automatically needs a person in production, on live     *)
(* infrastructure and whenever the action is medium risk.                  *)
NeedsApproval(p, ctx) ==
  \/ ctx.env = "production"
  \/ ~ctx.dry_run
  \/ p.action \in MEDIUM_RISK_ACTIONS

(* DeterministicActionPolicy.evaluate: the first rule that applies.        *)
Evaluate(p, critical, ctx, limitFree) ==
  IF ~Permissible(p, critical) THEN "denied"
  ELSE IF p.action \in HIGH_RISK_ACTIONS THEN "recommend_only"
  ELSE IF AutoAllowed(p, ctx, limitFree) THEN "permitted_auto"
  ELSE IF NeedsApproval(p, ctx) THEN "approval_required"
  ELSE "denied"

(* The operator's pause switch and the autonomy of the service, applied to *)
(* a decision that is not already a denial.                                *)
Constrain(decision, ctl) ==
  IF ctl.autonomy = "suggest" /\ decision \in {"approval_required", "permitted_auto"}
    THEN "recommend_only"
  ELSE IF ctl.autonomy = "approve_to_act" /\ decision = "permitted_auto"
    THEN "approval_required"
  ELSE IF ctl.paused /\ decision = "permitted_auto"
    THEN "recommend_only"
  ELSE decision

=============================================================================
