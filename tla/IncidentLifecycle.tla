-------------------------- MODULE IncidentLifecycle --------------------------
(***************************************************************************)
(* The life of one incident: the pipeline of orchestrator.py that diagnoses*)
(* it and acts on it, the approval and feedback endpoints of api.py, and   *)
(* the durable record of shared/incident_store.py that outlives them.      *)
(*                                                                         *)
(* Every worker process keeps a map of active incidents.  An entry of the  *)
(* map, the pipeline and each approval request hold references to in-memory*)
(* copies of the record; nothing keeps two copies equal, and a save writes *)
(* a whole copy over the durable record.  The pipeline and the requests    *)
(* interleave where the code awaits; between two awaits a worker's event   *)
(* loop runs one of them alone (LoopFree), while other workers go on.      *)
(*                                                                         *)
(* Incidents share no state here (every map and table is keyed by incident *)
(* id), so one is enough.                                                  *)
(***************************************************************************)
EXTENDS ActionPolicy, Naturals, Sequences, FiniteSets

CONSTANTS
  Workers,       \* API processes that share the incident store
  Home,          \* the worker whose pipeline received the alert
  Requests,      \* approval requests; each is granted at most once
  Proposals,     \* proposals a diagnosis may make
  Contexts,      \* contexts the incident may arise in
  ControlStates, \* settings of the operator's controls
  LimitStates,   \* values the hourly limit check may return
  MaxPlan,       \* bound: recommended actions per diagnosis
  MaxCrashes,    \* bound: worker crashes
  MaxFailures,   \* bound: exceptions that escape a handler
  MaxFeedback,   \* bound: feedback submissions
  MaxChanges     \* bound: changes of the controls

ASSUME LifecycleAssumption ==
  /\ Home \in Workers
  /\ Workers \cap Requests = {}
  /\ "pipeline" \notin Workers \cup Requests
  /\ "none" \notin Workers \cup Requests
  /\ Proposals \subseteq Proposal
  /\ Contexts \subseteq Context
  /\ ControlStates \subseteq Controls
  /\ LimitStates \subseteq BOOLEAN
  /\ MaxPlan \in Nat

VARIABLES
  ctx,       \* the context of the incident, fixed
  controls,  \* agent controls in the durable store
  plan,      \* diagnosis.recommended_actions
  store,     \* the durable record
  copies,    \* in-memory copies of the record
  active,    \* active_incidents of each worker: the copy it refers to
  pipe,      \* the pipeline's control state and local variables
  requests,  \* the approval requests' control state
  autoRuns,  \* history: webhooks posted automatically, per proposal
  postedBy,  \* history: webhooks posted by each approval request
  budget     \* crashes, failures, feedback and control changes so far

vars == <<ctx, controls, plan, store, copies, active, pipe, requests, autoRuns, postedBy, budget>>

Slots == 1..MaxPlan

Plans == UNION {[1..n -> Proposals] : n \in 0..MaxPlan}

\* The statuses the code assigns; the enumeration's aliases are never written.
Statuses == {"absent", "detected", "investigating", "recommendation_ready",
             "awaiting_approval", "executing", "verifying",
             "verified_recovered", "escalated"}

WorkflowStatuses == {"success", "error", "mocked", "dry_run", "simulated_success"}

ResultStatuses == WorkflowStatuses \cup
  {"none", "policy_denied", "recommend_only", "pending_approval", "rejected", "failed"}

Outcomes == {"verified_recovery", "not_recovered", "inconclusive"}

\* An incident record, as far as its lifecycle depends on it.
Record == [status       : Statuses,
           results      : [Slots -> ResultStatuses],
           verification : Outcomes \cup {"none"}]

NoRecord == [status       |-> "absent",
             results      |-> [s \in Slots |-> "none"],
             verification |-> "none"]

\* A copy is named by who made it: the pipeline, the request that claimed it,
\* or the worker that loaded it when it started.
CopyIds == {"pipeline"} \cup Requests \cup Workers

PipeStages == {"idle", "detected", "diagnosing", "ready", "acting", "workflow",
               "verifying", "saving", "brief", "closing", "done", "failed", "lost"}

RequestStages == {"idle", "claimed", "workflow", "verifying", "saving", "done", "failed", "lost"}

\* The pipeline's place in the code, the next action of the plan, the results
\* so far and the controls it read.
PipeState == [at : PipeStages, next : Nat \ {0}, results : [Slots -> ResultStatuses],
              ctl : Controls]

\* A request's place in the code, what it decided, where it runs and on what.
RequestState == [at : RequestStages, verdict : {"none", "approved", "rejected"},
                 worker : Workers, slot : Slots \cup {0}]

ACTIVE_STATUSES == Statuses \ {"absent", "verified_recovered"}

-----------------------------------------------------------------------------

(* Result slots of a record that wait for a person.                        *)
Pending(rec) == {s \in Slots : rec.results[s] = "pending_approval"}

(* Some action of the record was carried out (the code also lists          *)
(* "executed", a status nothing assigns).                                  *)
Executed(rec) == \E s \in Slots : rec.results[s] = "success"

(* The severity that the pipeline, the action agent and the policy gate    *)
(* each read from the incident to keep their hands off.                    *)
SeverityLost == FALSE   \* mutant: the severity does not reach the guards

IsCritical == ctx.critical

(* A webhook reaches the infrastructure only with a key and outside        *)
(* simulation; otherwise the trigger answers by itself.                    *)
Live == ctx.api_key /\ ~ctx.dry_run

(* The statuses trigger_workflow can return for a registered workflow.     *)
TriggerStatuses ==
  IF ~ctx.api_key THEN {"mocked"}
  ELSE IF ctx.dry_run THEN {"dry_run"}
  ELSE {"success", "error"} \cup
       (IF ctx.env = "development" THEN {"simulated_success"} ELSE {})

(* The verifier confirms recovery only if one of the results it is given   *)
(* is an action that succeeded.                                            *)
UnguardedOutcomes(results) == Outcomes   \* mutant: success is not asked for

VerifyOutcomes(results) == IF "success" \in results THEN Outcomes ELSE {"not_recovered"}

Settle(rec, outcome) ==
  [rec EXCEPT !.verification = outcome,
              !.status = IF outcome = "verified_recovery" THEN "verified_recovered"
                                                          ELSE "escalated"]

(* The stages of the pipeline between two of its statements with no await: *)
(* nothing else runs on Home's event loop.                                 *)
Busy == {"detected", "ready", "saving", "brief"}

LoopFree(w) ==
  /\ w = Home => pipe.at \notin Busy
  /\ \A r \in Requests : requests[r].worker = w => requests[r].at \notin {"claimed", "saving"}

(* The record a handler on worker w works with: the active map's copy if   *)
(* there is one, else a fresh read of the store.                           *)
SeenBy(w) == IF active[w] = "none" THEN store ELSE copies[active[w]]

-----------------------------------------------------------------------------

Init ==
  /\ ctx \in Contexts
  /\ controls \in ControlStates
  /\ plan = <<>>
  /\ store = NoRecord
  /\ copies = [c \in CopyIds |-> NoRecord]
  /\ active = [w \in Workers |-> "none"]
  /\ pipe = [at |-> "idle", next |-> 1, results |-> NoRecord.results,
             ctl |-> [paused |-> FALSE, autonomy |-> "autonomous"]]
  /\ requests = [r \in Requests |->
                   [at |-> "idle", verdict |-> "none", worker |-> Home, slot |-> 0]]
  /\ autoRuns = [s \in Slots |-> 0]
  /\ postedBy = [r \in Requests |-> 0]
  /\ budget = [crashes |-> 0, failures |-> 0, feedback |-> 0, changes |-> 0]

-----------------------------------------------------------------------------
(* The pipeline.                                                           *)

PipeGoes(from, to) == pipe.at = from /\ pipe' = [pipe EXCEPT !.at = to]

PipeSaves(rec) ==
  /\ copies' = [copies EXCEPT !["pipeline"] = rec]
  /\ store' = rec

(* A new alert passed deduplication: the incident is created, put into the *)
(* active map and saved.                                                   *)
Detect ==
  /\ PipeGoes("idle", "detected")
  /\ PipeSaves([NoRecord EXCEPT !.status = "detected"])
  /\ active' = [active EXCEPT ![Home] = "pipeline"]
  /\ UNCHANGED <<ctx, controls, plan, requests, autoRuns, postedBy, budget>>

Investigate ==
  /\ PipeGoes("detected", "diagnosing")
  /\ PipeSaves([copies["pipeline"] EXCEPT !.status = "investigating"])
  /\ UNCHANGED <<ctx, controls, plan, active, requests, autoRuns, postedBy, budget>>

(* The diagnosis arrives; critical incidents keep no recommendation.  The  *)
(* controls are read once, for the whole of the execution.                 *)
Diagnose ==
  /\ pipe.at = "diagnosing"
  /\ LoopFree(Home)
  /\ pipe' = [pipe EXCEPT !.at = "ready", !.ctl = controls]
  /\ plan' \in IF IsCritical THEN {<<>>} ELSE Plans
  /\ PipeSaves([copies["pipeline"] EXCEPT !.status = "recommendation_ready"])
  /\ UNCHANGED <<ctx, controls, active, requests, autoRuns, postedBy, budget>>

(* ActionAgent.execute: critical incidents are escalated and observed      *)
(* services are left alone; otherwise the actions are taken in order.      *)
StartExecution ==
  /\ \/ /\ IsCritical
        /\ PipeGoes("ready", "saving")
        /\ copies' = [copies EXCEPT !["pipeline"].status = "escalated"]
     \/ /\ ~IsCritical /\ pipe.ctl.autonomy = "observe"
        /\ PipeGoes("ready", "saving")
        /\ UNCHANGED copies
     \/ /\ ~IsCritical /\ pipe.ctl.autonomy # "observe"
        /\ PipeGoes("ready", "acting")
        /\ copies' = [copies EXCEPT !["pipeline"].status = "executing"]
  /\ UNCHANGED <<ctx, controls, plan, store, active, requests, autoRuns, postedBy, budget>>

(* What the gate and the controls say of the next action of the plan.      *)
NextDecision(limitFree) ==
  Constrain(Evaluate(plan[pipe.next], IsCritical, ctx, limitFree), pipe.ctl)

ResultIsDecision(decision) == decision   \* mutant: the decision is stored as the status

ResultOf(decision) ==
  IF decision = "denied" THEN "policy_denied"
  ELSE IF decision = "recommend_only" THEN "recommend_only"
  ELSE "pending_approval"

(* The next action is not to be run now: record why.                       *)
HoldBack ==
  /\ pipe.at = "acting"
  /\ pipe.next <= Len(plan)
  /\ \E limitFree \in LimitStates :
       LET decision == NextDecision(limitFree) IN
       /\ decision # "permitted_auto"
       /\ pipe' = [pipe EXCEPT !.results[pipe.next] = ResultOf(decision), !.next = @ + 1]
  /\ UNCHANGED <<ctx, controls, plan, store, copies, active, requests, autoRuns, postedBy, budget>>

(* The next action is permitted: its workflow is triggered and awaited.    *)
AutoTrigger ==
  /\ PipeGoes("acting", "workflow")
  /\ pipe.next <= Len(plan)
  /\ \E limitFree \in LimitStates : NextDecision(limitFree) = "permitted_auto"
  /\ autoRuns' = IF Live THEN [autoRuns EXCEPT ![pipe.next] = @ + 1] ELSE autoRuns
  /\ UNCHANGED <<ctx, controls, plan, store, copies, active, requests, postedBy, budget>>

AutoReturn ==
  /\ pipe.at = "workflow"
  /\ LoopFree(Home)
  /\ \E status \in TriggerStatuses :
       pipe' = [pipe EXCEPT !.at = "acting", !.results[pipe.next] = status, !.next = @ + 1]
  /\ UNCHANGED <<ctx, controls, plan, store, copies, active, requests, autoRuns, postedBy, budget>>

(* All actions are evaluated and the summary call has answered: only now   *)
(* do the results reach the record, and with them its status.              *)
StatusAfter(rec) ==
  IF Pending(rec) # {} THEN "awaiting_approval"
  ELSE IF plan # <<>> /\ \A s \in 1..Len(plan) : rec.results[s] = "recommend_only"
    THEN "recommendation_ready"
  ELSE IF Executed(rec) THEN "verifying"
  ELSE "escalated"

Summarise ==
  /\ pipe.at = "acting"
  /\ pipe.next > Len(plan)
  /\ LoopFree(Home)
  /\ LET rec == [copies["pipeline"] EXCEPT !.results = pipe.results]
         status == StatusAfter(rec)
     IN /\ copies' = [copies EXCEPT !["pipeline"] = [rec EXCEPT !.status = status]]
        /\ PipeGoes("acting", IF status = "verifying" THEN "verifying" ELSE "saving")
  /\ UNCHANGED <<ctx, controls, plan, store, active, requests, autoRuns, postedBy, budget>>

AutoVerify ==
  /\ PipeGoes("verifying", "saving")
  /\ LoopFree(Home)
  /\ \E outcome \in VerifyOutcomes({copies["pipeline"].results[s] : s \in Slots}) :
       copies' = [copies EXCEPT !["pipeline"] = Settle(@, outcome)]
  /\ UNCHANGED <<ctx, controls, plan, store, active, requests, autoRuns, postedBy, budget>>

(* The record is saved after the execution and, with the brief, again.     *)
SaveOutcome ==
  /\ PipeGoes("saving", "brief")
  /\ PipeSaves(copies["pipeline"])
  /\ UNCHANGED <<ctx, controls, plan, active, requests, autoRuns, postedBy, budget>>

SaveBrief ==
  /\ PipeGoes("brief", "closing")
  /\ PipeSaves(copies["pipeline"])
  /\ UNCHANGED <<ctx, controls, plan, active, requests, autoRuns, postedBy, budget>>

(* The episode is closed; a recovered incident leaves the active map, any  *)
(* other is put there again, whatever the entry has become meanwhile.      *)
Close ==
  /\ PipeGoes("closing", "done")
  /\ LoopFree(Home)
  /\ active' = [active EXCEPT ![Home] =
                  IF copies["pipeline"].status = "verified_recovered" THEN "none" ELSE "pipeline"]
  /\ UNCHANGED <<ctx, controls, plan, store, copies, requests, autoRuns, postedBy, budget>>

(* The calls that can raise: the diagnosis, the summary, a save.  Nothing  *)
(* catches the exception inside the pipeline, so the record stays.         *)
PipeFails ==
  /\ budget.failures < MaxFailures
  /\ pipe.at \in {"diagnosing", "acting", "saving", "brief"}
  /\ pipe.at = "acting" => pipe.next > Len(plan)
  /\ pipe' = [pipe EXCEPT !.at = "failed"]
  /\ budget' = [budget EXCEPT !.failures = @ + 1]
  /\ UNCHANGED <<ctx, controls, plan, store, copies, active, requests, autoRuns, postedBy>>

-----------------------------------------------------------------------------
(* The approval endpoint.                                                  *)

(* _apply_approval: the record is claimable for the pending slots seen.    *)
Claimable(rec, slots) == rec.status = "awaiting_approval" /\ Pending(rec) = slots

\* Mutant: the approval does not consume the proposal.
ClaimWithoutConsuming(s, approved) ==
  IF approved THEN store ELSE [store EXCEPT !.status = "escalated", !.results[s] = "rejected"]

ClaimedRecord(s, approved) ==
  IF approved THEN [store EXCEPT !.status = "executing"]
              ELSE [store EXCEPT !.status = "escalated", !.results[s] = "rejected"]

(* A rejection ends the request, an approval goes on to the execution.     *)
StageWithoutReturn(approved) == "claimed"   \* mutant: the rejection falls through

StageAfterClaim(approved) == IF approved THEN "claimed" ELSE "done"

(* The handler checks the copy its worker sees, then claims the proposal   *)
(* in the store in one transaction; a refused request changes nothing and  *)
(* can be repeated.  The claimed record replaces the entry of the map.     *)
Claim(r, w, approved) ==
  /\ requests[r].at = "idle"
  /\ LoopFree(w)
  /\ \E s \in Slots :
       /\ Claimable(SeenBy(w), {s})
       /\ Claimable(store, {s})
       /\ LET rec == ClaimedRecord(s, approved) IN
            /\ store' = rec
            /\ copies' = [copies EXCEPT ![r] = rec]
       /\ requests' = [requests EXCEPT ![r] =
                         [at      |-> StageAfterClaim(approved),
                          verdict |-> IF approved THEN "approved" ELSE "rejected",
                          worker  |-> w,
                          slot    |-> s]]
  /\ active' = [active EXCEPT ![w] = r]
  /\ UNCHANGED <<ctx, controls, plan, pipe, autoRuns, postedBy, budget>>

RequestGoes(r, from, to) ==
  requests[r].at = from /\ requests' = [requests EXCEPT ![r].at = to]

(* The gate is asked again, without the severity and the controls: only    *)
(* "approval required" lets the workflow be triggered.                     *)
Recheck(r, limitFree) ==
  Evaluate(plan[requests[r].slot], FALSE, ctx, limitFree) = "approval_required"

TriggerApproved(r) ==
  /\ RequestGoes(r, "claimed", "workflow")
  /\ \E limitFree \in LimitStates : Recheck(r, limitFree)
  /\ postedBy' = IF Live THEN [postedBy EXCEPT ![r] = @ + 1] ELSE postedBy
  /\ UNCHANGED <<ctx, controls, plan, store, copies, active, pipe, autoRuns, budget>>

(* The gate denies, or a restart changed the environment the proposal was  *)
(* bound to: the proposal is closed as denied, saved at once.              *)
DenyApproved(r) ==
  /\ RequestGoes(r, "claimed", "done")
  /\ budget.crashes > 0 \/ \E limitFree \in LimitStates : ~Recheck(r, limitFree)
  /\ LET rec == [copies[r] EXCEPT !.status = "escalated",
                                  !.results[requests[r].slot] = "policy_denied"]
     IN copies' = [copies EXCEPT ![r] = rec] /\ store' = rec
  /\ active' = [active EXCEPT ![requests[r].worker] = r]
  /\ UNCHANGED <<ctx, controls, plan, pipe, autoRuns, postedBy, budget>>

ApprovedReturn(r) ==
  /\ RequestGoes(r, "workflow", "verifying")
  /\ \E status \in TriggerStatuses :
       copies' = [copies EXCEPT ![r] =
                    [@ EXCEPT !.status = "verifying",
                              !.results[requests[r].slot] =
                                 IF status = "success" THEN "success" ELSE "failed"]]
  /\ UNCHANGED <<ctx, controls, plan, store, active, pipe, autoRuns, postedBy, budget>>

(* The verifier is given the result of this action alone.  A recovered     *)
(* incident leaves the active map; then the record is saved, with no await *)
(* between.                                                                *)
ApprovedVerify(r) ==
  /\ RequestGoes(r, "verifying", "saving")
  /\ \E outcome \in VerifyOutcomes({copies[r].results[requests[r].slot]}) :
       /\ copies' = [copies EXCEPT ![r] = Settle(@, outcome)]
       /\ active' = [active EXCEPT ![requests[r].worker] =
                       IF outcome = "verified_recovery" THEN "none" ELSE r]
  /\ UNCHANGED <<ctx, controls, plan, store, pipe, autoRuns, postedBy, budget>>

\* Mutant: only a recovered incident is saved after an approval.
SaveOnlyRecovered(r) ==
  /\ RequestGoes(r, "saving", "done")
  /\ store' = IF copies[r].status = "verified_recovered" THEN copies[r] ELSE store
  /\ UNCHANGED <<ctx, controls, plan, copies, active, pipe, autoRuns, postedBy, budget>>

SaveApproved(r) ==
  /\ RequestGoes(r, "saving", "done")
  /\ store' = copies[r]
  /\ UNCHANGED <<ctx, controls, plan, copies, active, pipe, autoRuns, postedBy, budget>>

(* The store is unreachable when the outcome is to be saved.               *)
RequestFails(r) ==
  /\ budget.failures < MaxFailures
  /\ RequestGoes(r, "saving", "failed")
  /\ budget' = [budget EXCEPT !.failures = @ + 1]
  /\ UNCHANGED <<ctx, controls, plan, store, copies, active, pipe, autoRuns, postedBy>>

-----------------------------------------------------------------------------
(* The rest of the world.                                                  *)

(* submit_incident_feedback: the record the worker sees is annotated and   *)
(* saved as a whole.                                                       *)
Feedback(w) ==
  /\ budget.feedback < MaxFeedback
  /\ LoopFree(w)
  /\ SeenBy(w).status # "absent"
  /\ store' = SeenBy(w)
  /\ budget' = [budget EXCEPT !.feedback = @ + 1]
  /\ UNCHANGED <<ctx, controls, plan, copies, active, pipe, requests, autoRuns, postedBy>>

UpdateControls ==
  /\ budget.changes < MaxChanges
  /\ controls' \in ControlStates \ {controls}
  /\ budget' = [budget EXCEPT !.changes = @ + 1]
  /\ UNCHANGED <<ctx, plan, store, copies, active, pipe, requests, autoRuns, postedBy>>

(* A worker dies and starts again: its tasks and copies are gone, and its  *)
(* active map is filled from the store.                                    *)
LostWith(w) == {r \in Requests : requests[r].worker = w /\ requests[r].at \notin {"idle", "done"}}

CrashRestart(w) ==
  /\ budget.crashes < MaxCrashes
  /\ LET restored == store.status \in ACTIVE_STATUSES
         gone == {w} \cup {r \in Requests : requests[r].worker = w}
                     \cup (IF w = Home THEN {"pipeline"} ELSE {})
     IN /\ active' = [active EXCEPT ![w] = IF restored THEN w ELSE "none"]
        /\ copies' = [c \in CopyIds |->
                         IF c \notin gone THEN copies[c]
                         ELSE IF c = w /\ restored THEN store ELSE NoRecord]
  /\ requests' = [r \in Requests |->
                    IF r \in LostWith(w) THEN [requests[r] EXCEPT !.at = "lost"] ELSE requests[r]]
  /\ pipe' = IF w = Home /\ pipe.at \notin {"idle", "done", "failed"}
             THEN [pipe EXCEPT !.at = "lost"] ELSE pipe
  /\ budget' = [budget EXCEPT !.crashes = @ + 1]
  /\ UNCHANGED <<ctx, controls, plan, store, autoRuns, postedBy>>

-----------------------------------------------------------------------------

PipeNext ==
  \/ Detect \/ Investigate \/ Diagnose \/ StartExecution
  \/ HoldBack \/ AutoTrigger \/ AutoReturn \/ Summarise
  \/ AutoVerify \/ SaveOutcome \/ SaveBrief \/ Close

RequestNext(r) ==
  \/ TriggerApproved(r) \/ DenyApproved(r) \/ SaveApproved(r)
  \/ /\ LoopFree(requests[r].worker)
     /\ ApprovedReturn(r) \/ ApprovedVerify(r)

Next ==
  \/ PipeNext
  \/ PipeFails
  \/ \E r \in Requests : RequestNext(r) \/ RequestFails(r)
  \/ \E r \in Requests, w \in Workers, approved \in BOOLEAN : Claim(r, w, approved)
  \/ \E w \in Workers : Feedback(w) \/ CrashRestart(w)
  \/ UpdateControls

Spec == Init /\ [][Next]_vars

(* Every await ends (each has a timeout) and the event loop resumes the    *)
(* task; people, crashes and failures are under no obligation.             *)
Fairness == WF_vars(PipeNext) /\ \A r \in Requests : WF_vars(RequestNext(r))

FairSpec == Spec /\ Fairness

-----------------------------------------------------------------------------
(* Properties.                                                             *)

(* Every variable has its type: a copy or the durable record is a record   *)
(* with one result per recommended action, an entry of an active map       *)
(* refers to a copy, and the counters stay within their bounds.            *)
TypeOK ==
  /\ ctx \in Contexts
  /\ controls \in ControlStates
  /\ plan \in Plans
  /\ store \in Record
  /\ copies \in [CopyIds -> Record]
  /\ active \in [Workers -> CopyIds \cup {"none"}]
  /\ pipe \in PipeState
  /\ requests \in [Requests -> RequestState]
  /\ autoRuns \in [Slots -> Nat]
  /\ postedBy \in [Requests -> Nat]
  /\ budget \in [crashes : Nat, failures : Nat, feedback : Nat, changes : Nat]

(* An approval request posts the webhook of a proposal at most once, only  *)
(* after it won the claim with an approval, and never for a proposal that  *)
(* was also run automatically (agents/action/agent.py: a proposal either   *)
(* runs or waits).  This holds for any number of workers, stale copies and *)
(* crashes.                                                                *)
PostsAreClaimed ==
  \A r \in Requests : postedBy[r] > 0 =>
    /\ postedBy[r] = 1
    /\ requests[r].verdict = "approved"
    /\ requests[r].slot \in Slots /\ autoRuns[requests[r].slot] = 0

(* A proposal is carried out at most once (claim_pending_approval: "so     *)
(* concurrent retries cannot replay it").                                  *)
SingleUse ==
  /\ \A s \in Slots : autoRuns[s] <= 1
  /\ \A q, r \in Requests :
       postedBy[q] > 0 /\ postedBy[r] > 0 /\ requests[q].slot = requests[r].slot => q = r

(* A critical incident is root-cause-only: nothing is ever run for it and  *)
(* no copy of its record ever asks for an approval, so no interleaving of  *)
(* claims (whose recheck ignores the severity) can make it act.            *)
CriticalIsHandsOff ==
  ctx.critical =>
    /\ \A s \in Slots : autoRuns[s] = 0
    /\ \A r \in Requests : postedBy[r] = 0
    /\ \A c \in CopyIds : copies[c].status # "awaiting_approval"

(* A webhook was posted for the proposal, by the pipeline or a request.    *)
CarriedOut(s) ==
  \/ autoRuns[s] > 0
  \/ \E r \in Requests : requests[r].slot = s /\ postedBy[r] > 0

(* A record says "verified recovered" only if an action really reached the *)
(* infrastructure, succeeded and was followed by a confirmed verification: *)
(* a simulated or mocked action never resolves an incident.                *)
TrulyRecovered(rec) ==
  rec.status = "verified_recovered" =>
    /\ Live
    /\ Executed(rec)
    /\ rec.verification = "verified_recovery"
    /\ \E s \in Slots : CarriedOut(s)

RecoveredIsVerified ==
  TrulyRecovered(store) /\ \A c \in CopyIds : TrulyRecovered(copies[c])

(* The pipeline and every request came to their end undisturbed.           *)
AtRest ==
  /\ pipe.at \in {"closing", "done"}
  /\ \A r \in Requests : requests[r].at \in {"idle", "done"}

(* When everything came to rest, the durable record shows a result for     *)
(* every webhook that was posted: no execution is forgotten.               *)
ExecutionsAreRecorded ==
  AtRest => \A s \in Slots :
    CarriedOut(s) => store.results[s] \in {"success", "error", "simulated_success", "failed"}

(* A rejection is final: the durable record keeps it and nobody carries    *)
(* the proposal out any more.                                              *)
RejectionIsFinal ==
  [][\A s \in Slots : store.results[s] = "rejected" =>
       /\ store'.results[s] = "rejected"
       /\ \A r \in Requests : requests'[r].slot = s => postedBy'[r] = postedBy[r]]_vars

(* An incident that waits for an approval can be decided: the endpoint     *)
(* insists on exactly one pending proposal (docstring of                   *)
(* approve_tier2_action: "Approve or reject a pending action").            *)
WaitingIsDecidable ==
  store.status = "awaiting_approval" => Cardinality(Pending(store)) = 1

(* The approved action is carried out (docstring of approve_tier2_action:  *)
(* "Executes the exact approved action") when nothing changed meanwhile.   *)
ApprovedIsCarriedOut ==
  budget.crashes = 0 =>
    \A r \in Requests : requests[r].verdict = "approved" =>
      copies[r].results[requests[r].slot] # "policy_denied"

(* An incident in the hands of the program does not stay there: it is      *)
(* handed over, recovered or escalated, unless an exception or a crash     *)
(* takes down the task that carries it.                                    *)
InProgress == store.status \in {"detected", "investigating", "executing", "verifying"}

Abandoned ==
  \/ pipe.at \in {"failed", "lost"}
  \/ \E r \in Requests : requests[r].at \in {"failed", "lost"}

IncidentSettles == InProgress ~> (~InProgress \/ Abandoned)

(* The promise to the operators, as an abstract specification.             *)
Contract == INSTANCE ApprovalContract WITH
  status  <- store.status,
  verdict <- [s \in Slots |->
                IF \E r \in Requests : requests[r].slot = s
                THEN requests[CHOOSE r \in Requests : requests[r].slot = s].verdict
                ELSE "none"],
  posted  <- [s \in Slots |->
                Cardinality({r \in Requests : requests[r].slot = s /\ postedBy[r] > 0})]

ImplementsContract == Contract!ContractSpec

=============================================================================
