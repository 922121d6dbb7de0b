---------------------------- MODULE EpisodicDedup ----------------------------
(***************************************************************************)
(* The head and the tail of AgentOrchestrator._process_anomaly: which of   *)
(* the alerts with one key become incidents, which are suppressed because  *)
(* an earlier one is still handled, which replay an earlier diagnosis, and *)
(* what is afterwards believed about fixes that did or did not hold.       *)
(*                                                                         *)
(* Five memories decide, and each is written at another moment: the dedup  *)
(* table of the process, the episodes in Postgres, the in-process episodes *)
(* that replace them after the first failed call, the durable incidents,   *)
(* and the in-memory incident of an approval under way.                    *)
(*                                                                         *)
(* One worker process, restarted after crashes.  Alerts of different keys  *)
(* meet only in RegressionDetector.settle, so one key is enough; the       *)
(* severity is not part of the key but is part of an episode's fingerprint.*)
(* Whatever happens between two awaits is one action.                      *)
(***************************************************************************)
EXTENDS Naturals, FiniteSets

CONSTANTS
  Alerts,           \* alerts delivered, all with the same alert key
  Severities,       \* severities they may have
  DedupWindow,      \* AlertDeduplicator.window_seconds
  DuplicateWindow,  \* EpisodicMemory.window
  RegressionWindow, \* RegressionDetector.window
  NoAlert,          \* stands for "no prior episode"
  MaxTime,          \* bound: the clock
  MaxFaults,        \* bound: failing calls of the memory backend
  MaxRaises,        \* bound: exceptions of a diagnosis or a regression update
  MaxCrashes,       \* bound: crashes of the process
  MaxApprovals      \* bound: approvals granted

ASSUME DedupAssumption ==
  /\ NoAlert \notin Alerts
  /\ {DedupWindow, DuplicateWindow, RegressionWindow, MaxTime} \subseteq Nat
  /\ {MaxFaults, MaxRaises, MaxCrashes, MaxApprovals} \subseteq Nat

VARIABLES
  clock,     \* the time every timestamp is taken from
  severity,  \* the severity of each alert, fixed
  seen,      \* seen_alerts: the first_seen of the key's entry, if there is one
  degraded,  \* EpisodicMemory.degraded
  database,  \* the episode of each alert in Postgres
  fallback,  \* the episode of each alert in the in-process backend
  task,      \* the pipeline of each alert: its place and its local variables
  incident,  \* the durable incident of each alert
  approval,  \* the approval request for each incident
  missed,    \* history: alerts whose regression update was cut short
  faults,    \* failing calls so far
  crashes    \* crashes so far

vars == <<clock, severity, seen, degraded, database, fallback, task, incident,
          approval, missed, faults, crashes>>

Times == 0..MaxTime

EpisodeStatuses == {"absent", "open", "resolved", "escalated", "failed"}
EpisodeOutcomes == {"unset", "none", "recovered", "not_recovered"}

Episode == [status : EpisodeStatuses, outcome : EpisodeOutcomes, created : Times]

NoEpisode == [status |-> "absent", outcome |-> "unset", created |-> 0]

\* The statuses before the pipeline has a result count as one, "open", those
\* that leave it to people without a pending action as "escalated".
IncidentStatuses == {"absent", "open", "awaiting_approval", "executing",
                     "verified_recovered", "escalated"}

Incident == [status : IncidentStatuses, created : Times, resolved_at : Times,
             regressed : {"unknown", "yes", "no"}]

NoIncident == [status |-> "absent", created |-> 0, resolved_at |-> 0, regressed |-> "unknown"]

\* Each stage is a place where the pipeline awaits, or an end.
MemoryStages == {"looking", "suppress_log", "opening", "open_log", "replay_log",
                 "close_log", "closing"}
Ended == {"suppressed", "done", "failed", "lost"}
Stages == {"new", "handling"} \cup MemoryStages \cup Ended

\* How the pipeline ended: the status of the incident, and whether an action
\* of the plan was executed.
Result == [status : {"verified_recovered", "escalated", "awaiting_approval"}, executed : BOOLEAN]

NoResult == [status |-> "escalated", executed |-> FALSE]

\* backend: where the call under way was sent when it began.
Task == [at : Stages, backend : {"postgres", "memory"}, arrived : Times, opened : Times,
         prior : Alerts \cup {NoAlert}, replay : BOOLEAN, result : Result]

ApprovalStages == {"none", "executing", "recovered", "failed", "not_run", "rejected", "lost"}

-----------------------------------------------------------------------------

(* The severity is read again wherever the pipeline must keep its hands off.*)
IsCritical(a) == severity[a] = "critical"

(* AlertDeduplicator.should_fire: the window tumbles, it starts with the   *)
(* first alert and suppressed ones do not prolong it.                      *)
FiresAlways(now) == TRUE   \* mutant: the entry is not consulted

ShouldFire(now) == \A first \in seen : now - first >= DedupWindow

(* latest_for_fingerprint: the newest episode in the window with the same  *)
(* fingerprint; among equally new ones the backend picks any.              *)
Candidates(episodes, a) ==
  {e \in Alerts : /\ episodes[e].status # "absent"
                  /\ severity[e] = severity[a]
                  /\ episodes[e].created + DuplicateWindow >= task[a].arrived}

Latest(episodes, a) ==
  LET found == Candidates(episodes, a) IN
  IF found = {} THEN {NoAlert}
  ELSE {e \in found : \A f \in found : episodes[f].created <= episodes[e].created}

SuppressedByAny(episode) ==   \* mutant: an ended handling suppresses as well
  episode.status \in {"open", "escalated", "resolved"}

Suppresses(episode) ==
  /\ episode.status \in {"open", "escalated"}
  /\ episode.outcome \in {"unset", "none"}

ReplayableEnded(episode) == episode.status \in {"resolved", "failed"}   \* mutant

Replayable(episode) == episode.status = "resolved" /\ episode.outcome = "recovered"

(* What _close_episode writes for a result of the pipeline.                *)
ClosedInconclusive(a, result) ==   \* mutant: the verifier's third outcome is passed on
  [status |-> "failed", outcome |-> "inconclusive", created |-> task[a].opened]

ClosedEpisode(a, result) ==
  LET handedOver == IsCritical(a) \/ ~result.executed
      recovered == result.status = "verified_recovered"
  IN [status  |-> IF handedOver THEN "escalated" ELSE IF recovered THEN "resolved" ELSE "failed",
      outcome |-> IF handedOver THEN "none" ELSE IF recovered THEN "recovered" ELSE "not_recovered",
      created |-> task[a].opened]

(* The results a pipeline may have: a critical incident is left alone; a   *)
(* pending approval keeps what was executed from being verified.           *)
Results(a) ==
  IF IsCritical(a) THEN {NoResult}
  ELSE {r \in Result : r.status = "verified_recovered" => r.executed}

(* RegressionDetector.on_new_incident: the recovered incidents that an     *)
(* incident created now shows not to have held.                            *)
RefiredOutsideOnly(incidents, now) ==   \* mutant: the end of the window is left out
  {p \in Alerts : /\ incidents[p].status = "verified_recovered"
                  /\ incidents[p].regressed # "yes"
                  /\ now - incidents[p].resolved_at < RegressionWindow}

Refired(incidents, now) ==
  {p \in Alerts : /\ incidents[p].status = "verified_recovered"
                  /\ incidents[p].regressed # "yes"
                  /\ now - incidents[p].resolved_at <= RegressionWindow}

MarkRegressed(incidents, priors) ==
  [p \in Alerts |-> IF p \in priors THEN [incidents[p] EXCEPT !.regressed = "yes"] ELSE incidents[p]]

(* RegressionDetector.settle.                                              *)
SettledAgain(incidents, now) ==   \* mutant: a regression is settled too
  [p \in Alerts |->
     IF incidents[p].status = "verified_recovered" /\ now - incidents[p].resolved_at >= RegressionWindow
     THEN [incidents[p] EXCEPT !.regressed = "no"] ELSE incidents[p]]

Settled(incidents, now) ==
  [p \in Alerts |->
     IF /\ incidents[p].status = "verified_recovered"
        /\ incidents[p].regressed = "unknown"
        /\ now - incidents[p].resolved_at >= RegressionWindow
     THEN [incidents[p] EXCEPT !.regressed = "no"] ELSE incidents[p]]

(* A save that fails ends the settling before it has come to all of them.  *)
SettledPart(incidents, now, some) ==
  [p \in Alerts |-> IF p \in some THEN Settled(incidents, now)[p] ELSE incidents[p]]

-----------------------------------------------------------------------------

Init ==
  /\ clock = 0
  /\ severity \in [Alerts -> Severities]
  /\ seen = {}
  /\ degraded = FALSE
  /\ database = [a \in Alerts |-> NoEpisode]
  /\ fallback = [a \in Alerts |-> NoEpisode]
  /\ task = [a \in Alerts |-> [at |-> "new", backend |-> "postgres", arrived |-> 0, opened |-> 0,
                               prior |-> NoAlert, replay |-> FALSE, result |-> NoResult]]
  /\ incident = [a \in Alerts |-> NoIncident]
  /\ approval = [a \in Alerts |-> "none"]
  /\ missed = {}
  /\ faults = 0
  /\ crashes = 0

-----------------------------------------------------------------------------
(* EpisodicMemory._call.                                                   *)

(* A call goes to Postgres unless the process had degraded when it began.  *)
(* Postgres may fail it, before or after it took effect; either way the    *)
(* process degrades and the call is repeated on the in-process backend.    *)
CallResultsOnce(a) ==   \* mutant: a degraded process does not serve the call
  IF task[a].backend = "memory" THEN {}
  ELSE {"answered"} \cup (IF faults < MaxFaults THEN {"refused", "unanswered"} ELSE {})

CallResults(a) ==
  IF task[a].backend = "memory" THEN {"fallback"}
  ELSE {"answered"} \cup (IF faults < MaxFaults THEN {"refused", "unanswered"} ELSE {})

CallEnds(a, result) ==
  /\ result \in CallResults(a)
  /\ LET faulty == result \in {"refused", "unanswered"} IN
     /\ degraded' = (degraded \/ faulty)
     /\ faults' = IF faulty THEN faults + 1 ELSE faults

Backend(isDegraded) == IF isDegraded THEN "memory" ELSE "postgres"

(* A call to the in-process backend returns without giving up the event    *)
(* loop: until it has, nothing but its own pipeline moves.                 *)
Synchronous(a) == task[a].at \in MemoryStages /\ task[a].backend = "memory"

LoopFreeFor(a) == \A b \in Alerts \ {a} : ~Synchronous(b)

LoopFree == \A b \in Alerts : ~Synchronous(b)

Raised == Cardinality(missed) + Cardinality({a \in Alerts : task[a].at = "failed"})

(* The pipeline goes on to its next await, with a call begun now.          *)
GoesTo(a, stage) ==
  LET backend == IF stage \in MemoryStages THEN Backend(degraded') ELSE "postgres" IN
  task' = [task EXCEPT ![a] = [@ EXCEPT !.at = stage, !.backend = backend]]

(* The episode reaches the backends that took the call.                    *)
WriteEpisode(a, result, episode) ==
  /\ database' = IF result \in {"answered", "unanswered"} THEN [database EXCEPT ![a] = episode] ELSE database
  /\ fallback' = IF result = "answered" THEN fallback ELSE [fallback EXCEPT ![a] = episode]

-----------------------------------------------------------------------------
(* The pipeline.                                                           *)

(* An alert passes the deduplicator, which notes it at once, and the       *)
(* memory is asked for an earlier episode.  Alerts it stops change nothing.*)
Accept(a) ==
  /\ task[a].at = "new"
  /\ LoopFreeFor(a)
  /\ ShouldFire(clock)
  /\ seen' = {clock}
  /\ task' = [task EXCEPT ![a] = [@ EXCEPT !.at = "looking", !.arrived = clock,
                                           !.backend = Backend(degraded)]]
  /\ UNCHANGED <<clock, severity, degraded, database, fallback, incident, approval, missed, faults, crashes>>

(* The answer decides: suppress, or open an episode of its own and replay  *)
(* the earlier diagnosis or make a fresh one.                              *)
Decided(a, stage, prior, replay, opened) ==
  task' = [task EXCEPT ![a] = [@ EXCEPT !.at = stage, !.backend = Backend(degraded'),
                                        !.prior = prior, !.replay = replay, !.opened = opened]]

Decide(a) ==
  /\ task[a].at = "looking"
  /\ LoopFreeFor(a)
  /\ \E result \in CallResults(a) \ {"unanswered"} :
     /\ CallEnds(a, result)
     /\ LET episodes == IF result = "answered" THEN database ELSE fallback IN
        \E prior \in Latest(episodes, a) :
          \/ /\ prior # NoAlert /\ Suppresses(episodes[prior])
             /\ Decided(a, "suppress_log", prior, FALSE, task[a].opened)
          \/ /\ prior # NoAlert => ~Suppresses(episodes[prior])
             /\ Decided(a, "opening", prior, prior # NoAlert /\ Replayable(episodes[prior]), clock)
  /\ UNCHANGED <<clock, severity, seen, database, fallback, incident, approval, missed, crashes>>

(* The lines of the timeline matter here only for the calls they cost.     *)
AfterLog == [suppress_log |-> "suppressed", replay_log |-> "handling", close_log |-> "closing"]

Log(a) ==
  /\ task[a].at \in DOMAIN AfterLog
  /\ LoopFreeFor(a)
  /\ \E result \in CallResults(a) : CallEnds(a, result)
  /\ GoesTo(a, AfterLog[task[a].at])
  /\ UNCHANGED <<clock, severity, seen, database, fallback, incident, approval, missed, crashes>>

OpenEpisode(a) ==
  /\ task[a].at = "opening"
  /\ LoopFreeFor(a)
  /\ \E result \in CallResults(a) :
     /\ CallEnds(a, result)
     /\ WriteEpisode(a, result, [NoEpisode EXCEPT !.status = "open", !.created = task[a].opened])
  /\ GoesTo(a, "open_log")
  /\ UNCHANGED <<clock, severity, seen, incident, approval, missed, crashes>>

(* The incident is created and saved.                                      *)
Created(a) == [incident EXCEPT ![a] = [NoIncident EXCEPT !.status = "open", !.created = clock]]

(* Then earlier fixes are judged by it, each with a save of its own.       *)
UpdateRegressions(a) ==
  incident' = Settled(MarkRegressed(Created(a), Refired(Created(a), clock)), clock)

UpdateCutShort(a) ==
  LET refired == Refired(Created(a), clock) IN
  \/ \E some \in SUBSET refired : incident' = MarkRegressed(Created(a), some)
  \/ \E some \in SUBSET Alerts :
       incident' = SettledPart(MarkRegressed(Created(a), refired), clock, some)

(* An exception of the detector is swallowed, whatever it had done so far. *)
CreateIncident(a) ==
  /\ task[a].at = "open_log"
  /\ LoopFreeFor(a)
  /\ \E result \in CallResults(a) : CallEnds(a, result)
  /\ \/ UpdateRegressions(a) /\ UNCHANGED missed
     \/ /\ Raised < MaxRaises
        /\ UpdateCutShort(a)
        /\ missed' = missed \cup {a}
  /\ GoesTo(a, IF task[a].replay THEN "replay_log" ELSE "handling")
  /\ UNCHANGED <<clock, severity, seen, database, fallback, approval, crashes>>

(* A save writes the whole in-memory record.  The pipeline and an approval *)
(* got theirs before the incident recovered, so theirs knows no regression.*)
SaveIncident(a, status, resolved_at) ==
  incident' = [incident EXCEPT ![a] = [@ EXCEPT !.status = status, !.resolved_at = resolved_at,
                                               !.regressed = "unknown"]]

(* The diagnosis, replayed or made, is acted on; its result is saved.  The *)
(* action agent has verified a recovery just before.                       *)
Handle(a) ==
  /\ task[a].at = "handling"
  /\ LoopFreeFor(a)
  /\ \E result \in Results(a) :
     /\ SaveIncident(a, result.status, IF result.status = "verified_recovered" THEN clock ELSE 0)
     /\ task' = [task EXCEPT ![a] = [@ EXCEPT !.at = "close_log", !.result = result,
                                              !.backend = Backend(degraded)]]
  /\ UNCHANGED <<clock, severity, seen, degraded, database, fallback, approval, missed, faults, crashes>>

CloseEpisode(a) ==
  /\ task[a].at = "closing"
  /\ LoopFreeFor(a)
  /\ \E result \in CallResults(a) :
     /\ CallEnds(a, result)
     /\ WriteEpisode(a, result, ClosedEpisode(a, task[a].result))
  /\ GoesTo(a, "done")
  /\ UNCHANGED <<clock, severity, seen, incident, approval, missed, crashes>>

(* The store cannot save the new incident, or the diagnosis, the action or *)
(* the saving of its result raises: the episode stays as it is.            *)
PipelineRaises(a) ==
  /\ task[a].at \in {"open_log", "handling"}
  /\ LoopFreeFor(a)
  /\ Raised < MaxRaises
  /\ task' = [task EXCEPT ![a].at = "failed"]
  /\ UNCHANGED <<clock, severity, seen, degraded, database, fallback, incident, approval,
                 missed, faults, crashes>>

-----------------------------------------------------------------------------
(* The approval of a pending action, long after the episode was closed or  *)
(* just before: no step of it reaches the episode.                         *)

ApprovalGoes(a, from, to) ==
  /\ LoopFree
  /\ approval[a] = from
  /\ approval' = [approval EXCEPT ![a] = to]
  /\ UNCHANGED <<clock, severity, seen, degraded, database, fallback, task, missed, faults, crashes>>

Approved == {a \in Alerts : approval[a] # "none"}

Approve(a) ==
  /\ incident[a].status = "awaiting_approval"
  /\ Cardinality(Approved) < MaxApprovals
  /\ \/ /\ ApprovalGoes(a, "none", "executing")
        /\ SaveIncident(a, "executing", 0)
     \/ /\ ApprovalGoes(a, "none", "rejected")
        /\ SaveIncident(a, "escalated", 0)

(* The action ran but did not bring recovery, or was not run at all.       *)
ApprovedActionFails(a) ==
  /\ \E to \in {"failed", "not_run"} : ApprovalGoes(a, "executing", to)
  /\ SaveIncident(a, "escalated", 0)

(* Recovery is verified, timed and saved without an await between.         *)
ApprovedActionRecovers(a) ==
  /\ ApprovalGoes(a, "executing", "recovered")
  /\ SaveIncident(a, "verified_recovered", clock)

-----------------------------------------------------------------------------

Tick ==
  /\ clock < MaxTime
  /\ clock' = clock + 1
  /\ UNCHANGED <<severity, seen, degraded, database, fallback, task, incident, approval,
                 missed, faults, crashes>>

(* An incident of another key settles the fixes of this one.               *)
SettleElsewhere ==
  /\ LoopFree
  /\ \E some \in SUBSET Alerts : incident' = SettledPart(incident, clock, some)
  /\ UNCHANGED <<clock, severity, seen, degraded, database, fallback, task, approval,
                 missed, faults, crashes>>

(* The process dies and starts again with empty memories.                  *)
Restart ==
  /\ crashes < MaxCrashes
  /\ crashes' = crashes + 1
  /\ seen' = {}
  /\ degraded' = FALSE
  /\ fallback' = [a \in Alerts |-> NoEpisode]
  /\ task' = [a \in Alerts |->
                IF task[a].at \in Ended \cup {"new"} THEN task[a] ELSE [task[a] EXCEPT !.at = "lost"]]
  /\ approval' = [a \in Alerts |->
                    IF approval[a] = "executing" THEN "lost" ELSE approval[a]]
  /\ UNCHANGED <<clock, severity, database, faults>>

CrashRestart ==
  /\ Restart
  /\ UNCHANGED <<incident, missed>>

(* It dies between the saves of CreateIncident: the incident is there, and *)
(* the earlier fixes were not all judged by it.                            *)
CrashWhileCreating(a) ==
  /\ task[a].at = "open_log"
  /\ LoopFreeFor(a)
  /\ Restart
  /\ UpdateCutShort(a)
  /\ missed' = missed \cup {a}

-----------------------------------------------------------------------------

PipelineNext(a) ==
  \/ Decide(a)
  \/ Log(a)
  \/ OpenEpisode(a)
  \/ CreateIncident(a)
  \/ Handle(a)
  \/ CloseEpisode(a)
  \/ PipelineRaises(a)

ApprovalNext(a) ==
  \/ Approve(a)
  \/ ApprovedActionFails(a)
  \/ ApprovedActionRecovers(a)

Next ==
  \/ \E a \in Alerts : Accept(a)
  \/ \E a \in Alerts : PipelineNext(a)
  \/ \E a \in Alerts : ApprovalNext(a)
  \/ Tick
  \/ SettleElsewhere
  \/ CrashRestart
  \/ \E a \in Alerts : CrashWhileCreating(a)

Spec == Init /\ [][Next]_vars

(* Every await of the pipeline returns or times out.  Nobody owes an alert,*)
(* an approval, a crash, or the passing of time to anybody.                *)
FairSpec == Spec /\ \A a \in Alerts : WF_vars(PipelineNext(a))

-----------------------------------------------------------------------------
(* Properties.                                                             *)

TypeOK ==
  /\ clock \in Times
  /\ severity \in [Alerts -> Severities]
  /\ seen \subseteq Times
  /\ degraded \in BOOLEAN
  /\ database \in [Alerts -> Episode]
  /\ fallback \in [Alerts -> Episode]
  /\ task \in [Alerts -> Task]
  /\ incident \in [Alerts -> Incident]
  /\ approval \in [Alerts -> ApprovalStages]
  /\ missed \subseteq Alerts
  /\ faults \in 0..MaxFaults
  /\ crashes \in 0..MaxCrashes

(* A diagnosis is replayed only for an alert of the same fingerprint whose *)
(* earlier episode ended with an executed action and a verified recovery,  *)
(* whichever backend told it and whatever failed meanwhile; a critical     *)
(* alert never is (orchestrator.py 178-182, README.md:45).                 *)
ReplayIsEarned ==
  \A a \in Alerts : task[a].replay =>
    LET p == task[a].prior IN
    /\ p # NoAlert
    /\ ~IsCritical(a) /\ severity[p] = severity[a]
    /\ task[p].at = "done"
    /\ task[p].result = [status |-> "verified_recovered", executed |-> TRUE]
    /\ incident[p].status = "verified_recovered"

(* While the memory answers, an alert is suppressed only on account of an  *)
(* earlier one that is still in the pipeline or was handed to people.  The *)
(* exceptions are the orphans the code leaves: an episode stays open when  *)
(* its pipeline raised or crashed, and is never told of an approval.       *)
InPipeline(p) == task[p].at \notin Ended \cup {"new"}

HandedOver(p) == incident[p].status \in {"awaiting_approval", "executing", "escalated"}

Orphaned(p) == task[p].at \in {"failed", "lost"} \/ approval[p] # "none"

SuppressionHasAHandler ==
  [][\A a \in Alerts :
       LET p == task'[a].prior IN
       task[a].at = "looking" /\ task'[a].at = "suppress_log" /\ faults' = 0
         => InPipeline(p) \/ HandedOver(p) \/ Orphaned(p)]_vars

(* Alerts of one key do not open two incidents within the dedup window of  *)
(* one process life: the entry is written before the first await, so a     *)
(* burst cannot pass while the memory is still being asked.                *)
BurstIsOneIncident ==
  crashes = 0 =>
    \A a, b \in Alerts : a # b /\ {incident[a].status, incident[b].status} \cap {"absent"} = {} =>
      task[a].arrived + DedupWindow <= task[b].arrived \/ task[b].arrived + DedupWindow <= task[a].arrived

(* regression.py:6: regressed is False only if the window elapsed with no  *)
(* re-fire.  The exceptions are later incidents whose update was cut short:*)
(* it raised, or the process died between the save of the incident and the *)
(* saves of the fixes it shows not to have held.  Nothing repeats it.      *)
RefiredIncident(p) ==
  {a \in Alerts \ {p} : /\ incident[a].status # "absent"
                        /\ incident[a].created > incident[p].resolved_at
                        /\ incident[a].created <= incident[p].resolved_at + RegressionWindow}

SettledHeld ==
  \A p \in Alerts : incident[p].regressed = "no" =>
    /\ clock >= incident[p].resolved_at + RegressionWindow
    /\ RefiredIncident(p) \subseteq missed

(* A fix once known not to have held is never called stable, nor unknown   *)
(* again by a save of the pipeline or of an approval, which write the      *)
(* whole incident (test_settle_never_overrides_a_regression).              *)
RegressionStands ==
  [][\A a \in Alerts : incident[a].regressed = "yes" => incident'[a].regressed = "yes"]_vars

(* README.md:45: a failed prior fix always gets a fresh diagnosis, so no   *)
(* alert is suppressed or replayed on account of one.                      *)
FixFailed(p) ==
  \/ approval[p] = "failed"
  \/ task[p].result = [status |-> "escalated", executed |-> TRUE] /\ task[p].at = "done"

FailedFixIsDiagnosedAgain ==
  [][\A a \in Alerts :
       LET p == task'[a].prior IN
       task[a].at = "looking" /\ task'[a].at # "looking" /\ p # NoAlert /\ FixFailed(p)
         => task'[a].at # "suppress_log" /\ ~task'[a].replay]_vars

(* episodic_memory.py:7: memory problems never block incident handling.    *)
(* Every alert that was accepted is handled or suppressed, through any     *)
(* failures of the backend, unless its pipeline raises or crashes.         *)
AcceptedIsAnswered ==
  \A a \in Alerts : task[a].at = "looking" ~> task[a].at \in Ended

=============================================================================
