------------------------- MODULE EpisodicDedupProofs -------------------------
(***************************************************************************)
(* Theorems of alert deduplication and episodic memory for every number of *)
(* alerts, every severity, every length of the windows and every bound.    *)
(* What the memories say about alerts, results and times is MemoryInv;     *)
(* BurstInv adds what the table of a process that never crashed knows,     *)
(* HeldInv what a recovery is judged by, HandlerInv what Postgres knows    *)
(* while none of its calls failed.  OneAtATime says who has the event loop.*)
(***************************************************************************)
EXTENDS EpisodicDedup, NaturalsInduction, WellFoundedInduction, TLAPS

(* A call changes only the degradation and the count of failures.          *)
LEMMA CallTypes ==
  ASSUME TypeOK, NEW a \in Alerts, NEW result, CallEnds(a, result)
  PROVE  /\ degraded' \in BOOLEAN
         /\ faults' \in 0..MaxFaults
         /\ result \in {"answered", "refused", "unanswered", "fallback"}
<1> USE DedupAssumption
<1>1. result \in {"answered", "refused", "unanswered", "fallback"}
  BY DEF CallEnds, CallResults
<1>2. degraded' \in BOOLEAN
  BY DEF CallEnds, TypeOK
<1>3. CASE result \in {"refused", "unanswered"}
  <2>1. faults < MaxFaults /\ faults' = faults + 1
    BY <1>3 DEF CallEnds, CallResults
  <2> QED
    BY <1>1, <1>2, <2>1 DEF TypeOK
<1>4. CASE result \notin {"refused", "unanswered"}
  BY <1>1, <1>2, <1>4 DEF CallEnds, TypeOK
<1> QED
  BY <1>3, <1>4

(* Where the pipeline goes, its task stays a task.                         *)
LEMMA GoesTypes ==
  ASSUME TypeOK, NEW a \in Alerts, NEW stage \in Stages, GoesTo(a, stage)
  PROVE  task' \in [Alerts -> Task]
<1>1. PICK backend \in {"postgres", "memory"} :
        task' = [task EXCEPT ![a] = [@ EXCEPT !.at = stage, !.backend = backend]]
  BY DEF GoesTo, Backend
<1>2. task[a] \in Task
  BY DEF TypeOK
<1>3. [task[a] EXCEPT !.at = stage, !.backend = backend] \in Task
  BY <1>2 DEF Task
<1> QED
  BY <1>1, <1>3 DEF TypeOK

(* Writing an episode leaves both backends with episodes.                *)
LEMMA WriteTypes ==
  ASSUME TypeOK, NEW a \in Alerts, NEW result, NEW episode \in Episode,
         WriteEpisode(a, result, episode)
  PROVE  database' \in [Alerts -> Episode] /\ fallback' \in [Alerts -> Episode]
BY DEF TypeOK, WriteEpisode

(* Saving leaves incidents incidents.                                      *)
LEMMA SaveTypes ==
  ASSUME TypeOK, NEW a \in Alerts, NEW status \in IncidentStatuses, NEW t \in Times,
         SaveIncident(a, status, t)
  PROVE  incident' \in [Alerts -> Incident]
BY DEF TypeOK, SaveIncident, Incident

(* Judging fixes leaves incidents incidents.                             *)
LEMMA RegressionTypes ==
  ASSUME NEW incidents \in [Alerts -> Incident], NEW priors, NEW now
  PROVE  /\ MarkRegressed(incidents, priors) \in [Alerts -> Incident]
         /\ Settled(incidents, now) \in [Alerts -> Incident]
         /\ \A part : SettledPart(incidents, now, part) \in [Alerts -> Incident]
<1>1. Settled(incidents, now) \in [Alerts -> Incident]
  BY DEF Settled, Incident
<1> QED
  BY <1>1 DEF MarkRegressed, SettledPart, Incident

(* The types hold initially.                                             *)
LEMMA TypeInit == Init => TypeOK
<1> USE DedupAssumption
<1>1. 0 \in Times
  BY DEF Times
<1>2. NoEpisode \in Episode /\ NoIncident \in Incident /\ NoResult \in Result
  BY <1>1 DEF NoEpisode, Episode, EpisodeStatuses, EpisodeOutcomes, NoIncident, Incident,
              IncidentStatuses, NoResult, Result
<1>3. [at |-> "new", backend |-> "postgres", arrived |-> 0, opened |-> 0,
       prior |-> NoAlert, replay |-> FALSE, result |-> NoResult] \in Task
  BY <1>1, <1>2 DEF Task, Stages
<1>4. "none" \in ApprovalStages
  BY DEF ApprovalStages
<1>5. 0 \in 0..MaxFaults /\ 0 \in 0..MaxCrashes
  OBVIOUS
<1> SUFFICES ASSUME Init PROVE TypeOK
  OBVIOUS
<1>6. database \in [Alerts -> Episode] /\ fallback \in [Alerts -> Episode]
  BY <1>2 DEF Init
<1>7. task \in [Alerts -> Task]
  BY <1>3 DEF Init
<1>8. incident \in [Alerts -> Incident]
  BY <1>2 DEF Init
<1>9. approval \in [Alerts -> ApprovalStages]
  BY <1>4 DEF Init
<1> QED
  BY <1>1, <1>5, <1>6, <1>7, <1>8, <1>9 DEF Init, TypeOK

\* What a step does that creates the incident of an alert, if it goes on
\* with its pipeline (CreateIncident) and if the process dies within it.
Creates(a) ==
  \/ UpdateRegressions(a) /\ missed' = missed
  \/ UpdateCutShort(a) /\ missed' = missed \cup {a}

LEMMA CreationSteps ==
  ASSUME NEW a \in Alerts, CreateIncident(a) \/ CrashWhileCreating(a)
  PROVE  task[a].at = "open_log" /\ LoopFreeFor(a) /\ Creates(a) /\ UNCHANGED <<clock, severity, database>>
BY DEF CreateIncident, CrashWhileCreating, Restart, Creates

(* The incidents before others are judged.                                 *)
LEMMA CreatedTypes ==
  ASSUME TypeOK, NEW a \in Alerts
  PROVE  /\ Created(a) \in [Alerts -> Incident]
         /\ Created(a)[a].status = "open" /\ Created(a)[a].regressed = "unknown"
         /\ Created(a)[a].created = clock /\ Created(a)[a].resolved_at = 0
         /\ \A b \in Alerts \ {a} : Created(a)[b] = incident[b]
<1>1. 0 \in Times /\ clock \in Times
  BY DedupAssumption DEF TypeOK, Times
<1>2. [NoIncident EXCEPT !.status = "open", !.created = clock] \in Incident
  BY <1>1 DEF NoIncident, Incident, IncidentStatuses
<1> QED
  BY <1>2 DEF TypeOK, Created, NoIncident

(* Creating an incident keeps the types.                                   *)
LEMMA CreationTypes ==
  ASSUME TypeOK, NEW a \in Alerts, Creates(a)
  PROVE  incident' \in [Alerts -> Incident] /\ missed' \subseteq Alerts
<1> DEFINE created == Created(a)
<1>1. created \in [Alerts -> Incident]
  BY CreatedTypes
<1>2. /\ \/ incident' = Settled(MarkRegressed(created, Refired(created, clock)), clock)
         \/ \E some \in SUBSET Refired(created, clock) : incident' = MarkRegressed(created, some)
         \/ \E some \in SUBSET Alerts :
              incident' = SettledPart(MarkRegressed(created, Refired(created, clock)), clock, some)
      /\ missed' \in {missed, missed \cup {a}}
  BY DEF Creates, UpdateRegressions, UpdateCutShort
<1> HIDE DEF created
<1>3. \A priors : MarkRegressed(created, priors) \in [Alerts -> Incident]
  BY <1>1, RegressionTypes
<1>4. /\ Settled(MarkRegressed(created, Refired(created, clock)), clock) \in [Alerts -> Incident]
      /\ \A part : SettledPart(MarkRegressed(created, Refired(created, clock)), clock, part)
                     \in [Alerts -> Incident]
  BY <1>3, RegressionTypes
<1> QED
  BY <1>2, <1>3, <1>4 DEF TypeOK

(* What the backend may answer is an alert or nothing.                     *)
LEMMA LatestTypes ==
  ASSUME NEW episodes, NEW a
  PROVE  Latest(episodes, a) \subseteq Alerts \cup {NoAlert}
BY DEF Latest, Candidates

(* The types are kept by the steps of a pipeline.                        *)
LEMMA PipelineTypes ==
  ASSUME TypeOK, NEW a \in Alerts, Accept(a) \/ PipelineNext(a)
  PROVE  TypeOK'
<1> USE DedupAssumption
<1>0. task[a] \in Task /\ clock \in Times
  BY DEF TypeOK
<1>1. CASE Accept(a)
  <2>1. Backend(degraded) \in {"postgres", "memory"}
    BY DEF Backend
  <2>2. [task[a] EXCEPT !.at = "looking", !.arrived = clock, !.backend = Backend(degraded)] \in Task
    BY <1>0, <2>1 DEF Task, Stages, MemoryStages
  <2>3. task' \in [Alerts -> Task]
    BY <1>1, <2>2 DEF Accept, TypeOK
  <2> QED
    BY <1>1, <2>3 DEF Accept, TypeOK
<1>2. CASE Decide(a)
  <2>1. PICK result \in CallResults(a) : CallEnds(a, result)
    BY <1>2 DEF Decide
  <2>2. PICK stage \in {"suppress_log", "opening"}, prior \in Alerts \cup {NoAlert},
             replay \in BOOLEAN, opened \in Times : Decided(a, stage, prior, replay, opened)
    <3>1. task[a].opened \in Times /\ clock \in Times
      BY <1>0 DEF Task
    <3> QED
      BY <1>2, <3>1, LatestTypes DEF Decide
  <2>3. task' \in [Alerts -> Task]
    <3>1. Backend(degraded') \in {"postgres", "memory"}
      BY DEF Backend
    <3>2. [task[a] EXCEPT !.at = stage, !.backend = Backend(degraded'), !.prior = prior,
                          !.replay = replay, !.opened = opened] \in Task
      BY <1>0, <3>1 DEF Task, Stages, MemoryStages
    <3> QED
      BY <2>2, <3>2 DEF TypeOK, Decided
  <2> QED
    BY <1>2, <2>1, <2>3, CallTypes DEF Decide, TypeOK
<1>3. CASE Log(a)
  <2>1. PICK result \in CallResults(a) : CallEnds(a, result)
    BY <1>3 DEF Log
  <2>2. AfterLog[task[a].at] \in Stages
    BY <1>3 DEF Log, AfterLog, Stages, MemoryStages, Ended
  <2> QED
    BY <1>3, <2>1, <2>2, CallTypes, GoesTypes DEF Log, TypeOK
<1>4. CASE OpenEpisode(a)
  <2> DEFINE episode == [NoEpisode EXCEPT !.status = "open", !.created = task[a].opened]
  <2>1. PICK result \in CallResults(a) : CallEnds(a, result) /\ WriteEpisode(a, result, episode)
    BY <1>4 DEF OpenEpisode
  <2>2. episode \in Episode
    BY DEF TypeOK, Task, NoEpisode, Episode, EpisodeStatuses, EpisodeOutcomes
  <2>3. "open_log" \in Stages
    BY DEF Stages, MemoryStages
  <2> HIDE DEF episode
  <2> QED
    BY <1>4, <2>1, <2>2, <2>3, CallTypes, GoesTypes, WriteTypes DEF OpenEpisode, TypeOK
<1>5. CASE CreateIncident(a)
  <2>2. PICK result \in CallResults(a) : CallEnds(a, result)
    BY <1>5 DEF CreateIncident
  <2>3. incident' \in [Alerts -> Incident] /\ missed' \subseteq Alerts
    BY <1>5, CreationSteps, CreationTypes
  <2>4. (IF task[a].replay THEN "replay_log" ELSE "handling") \in Stages
    BY DEF Stages, MemoryStages
  <2> QED
    BY <1>5, <2>2, <2>3, <2>4, CallTypes, GoesTypes DEF CreateIncident, TypeOK
<1>6. CASE Handle(a)
  <2>1. PICK result \in Result :
          /\ SaveIncident(a, result.status, IF result.status = "verified_recovered" THEN clock ELSE 0)
          /\ task' = [task EXCEPT ![a] = [@ EXCEPT !.at = "close_log", !.result = result,
                                                   !.backend = Backend(degraded)]]
    BY <1>6 DEF Handle, Results, NoResult, Result
  <2>2. result.status \in IncidentStatuses
    BY DEF Result, IncidentStatuses
  <2>3. (IF result.status = "verified_recovered" THEN clock ELSE 0) \in Times
    BY DEF TypeOK, Times
  <2>4. incident' \in [Alerts -> Incident]
    BY <2>1, <2>2, <2>3, SaveTypes
  <2>5. task' \in [Alerts -> Task]
    <3>1. Backend(degraded) \in {"postgres", "memory"}
      BY DEF Backend
    <3>2. [task[a] EXCEPT !.at = "close_log", !.result = result, !.backend = Backend(degraded)] \in Task
      BY <1>0, <3>1 DEF Task, Stages, MemoryStages
    <3> QED
      BY <2>1, <3>2 DEF TypeOK
  <2> QED
    BY <1>6, <2>4, <2>5 DEF Handle, TypeOK
<1>7. CASE CloseEpisode(a)
  <2> DEFINE episode == ClosedEpisode(a, task[a].result)
  <2>1. PICK result \in CallResults(a) : CallEnds(a, result) /\ WriteEpisode(a, result, episode)
    BY <1>7 DEF CloseEpisode
  <2>2. episode \in Episode
    BY DEF TypeOK, Task, ClosedEpisode, Episode, EpisodeStatuses, EpisodeOutcomes
  <2>3. "done" \in Stages
    BY DEF Stages, Ended
  <2> HIDE DEF episode
  <2> QED
    BY <1>7, <2>1, <2>2, <2>3, CallTypes, GoesTypes, WriteTypes DEF CloseEpisode, TypeOK
<1>8. CASE PipelineRaises(a)
  <2>1. [task[a] EXCEPT !.at = "failed"] \in Task
    BY <1>0 DEF Task, Stages, Ended
  <2>2. task' \in [Alerts -> Task]
    BY <1>8, <2>1 DEF PipelineRaises, TypeOK
  <2> QED
    BY <1>8, <2>2 DEF PipelineRaises, TypeOK
<1> QED
  BY <1>1, <1>2, <1>3, <1>4, <1>5, <1>6, <1>7, <1>8 DEF PipelineNext

(* The types are kept by the steps of an approval.                       *)
LEMMA ApprovalTypes ==
  ASSUME TypeOK, NEW a \in Alerts, ApprovalNext(a)
  PROVE  TypeOK'
<1> USE DedupAssumption
<1>0. {0, clock} \subseteq Times
  BY DEF TypeOK, Times
<1>1. CASE Approve(a)
  <2>1. incident' \in [Alerts -> Incident]
    BY <1>0, <1>1, SaveTypes DEF Approve, IncidentStatuses
  <2>2. approval' \in [Alerts -> ApprovalStages]
    BY <1>1 DEF Approve, ApprovalGoes, TypeOK, ApprovalStages
  <2> QED
    BY <1>1, <2>1, <2>2 DEF Approve, ApprovalGoes, TypeOK
<1>2. CASE ApprovedActionFails(a)
  <2>1. incident' \in [Alerts -> Incident]
    BY <1>0, <1>2, SaveTypes DEF ApprovedActionFails, IncidentStatuses
  <2>2. approval' \in [Alerts -> ApprovalStages]
    BY <1>2 DEF ApprovedActionFails, ApprovalGoes, TypeOK, ApprovalStages
  <2> QED
    BY <1>2, <2>1, <2>2 DEF ApprovedActionFails, ApprovalGoes, TypeOK
<1>3. CASE ApprovedActionRecovers(a)
  <2>1. incident' \in [Alerts -> Incident]
    BY <1>0, <1>3, SaveTypes DEF ApprovedActionRecovers, IncidentStatuses
  <2>2. approval' \in [Alerts -> ApprovalStages]
    BY <1>3 DEF ApprovedActionRecovers, ApprovalGoes, TypeOK, ApprovalStages
  <2> QED
    BY <1>3, <2>1, <2>2 DEF ApprovedActionRecovers, ApprovalGoes, TypeOK
<1> QED
  BY <1>1, <1>2, <1>3 DEF ApprovalNext

(* The types are kept by every step.                                     *)
LEMMA TypeNext == TypeOK /\ [Next]_vars => TypeOK'
<1> SUFFICES ASSUME TypeOK, [Next]_vars PROVE TypeOK'
  OBVIOUS
<1> USE DedupAssumption
<1>1. CASE \E a \in Alerts : Accept(a) \/ PipelineNext(a)
  BY <1>1, PipelineTypes
<1>2. CASE \E a \in Alerts : ApprovalNext(a)
  BY <1>2, ApprovalTypes
<1>3. CASE Tick
  BY <1>3 DEF Tick, TypeOK, Times
<1>4. CASE SettleElsewhere
  <2>1. PICK some : incident' = SettledPart(incident, clock, some)
    BY <1>4 DEF SettleElsewhere
  <2>2. incident' \in [Alerts -> Incident]
    BY <2>1, RegressionTypes DEF TypeOK
  <2> QED
    BY <1>4, <2>2 DEF SettleElsewhere, TypeOK
<1>5. CASE Restart /\ (UNCHANGED <<incident, missed>> \/ \E a \in Alerts : Creates(a))
  <2>1. fallback' \in [Alerts -> Episode]
    BY <1>5 DEF Restart, TypeOK, NoEpisode, Episode, EpisodeStatuses, EpisodeOutcomes, Times
  <2>2. task' \in [Alerts -> Task]
    <3>1. \A a \in Alerts : task[a] \in Task
      BY DEF TypeOK
    <3>2. \A a \in Alerts : [task[a] EXCEPT !.at = "lost"] \in Task
      BY <3>1 DEF Task, Stages, Ended
    <3> QED
      BY <1>5, <3>1, <3>2 DEF Restart
  <2>3. approval' \in [Alerts -> ApprovalStages]
    BY <1>5 DEF Restart, TypeOK, ApprovalStages
  <2>4. crashes' \in 0..MaxCrashes
    BY <1>5 DEF Restart, TypeOK
  <2>5. incident' \in [Alerts -> Incident] /\ missed' \subseteq Alerts
    BY <1>5, CreationTypes DEF TypeOK
  <2> QED
    BY <1>5, <2>1, <2>2, <2>3, <2>4, <2>5 DEF Restart, TypeOK
<1>6. CASE UNCHANGED vars
  BY <1>6 DEF vars, TypeOK
<1>7. CASE CrashRestart
  BY <1>5, <1>7 DEF CrashRestart
<1>8. CASE \E a \in Alerts : CrashWhileCreating(a)
  BY <1>5, <1>8, CreationSteps DEF CrashWhileCreating
<1> QED
  BY <1>1, <1>2, <1>3, <1>4, <1>6, <1>7, <1>8 DEF Next

(* Every variable keeps its type: in particular no episode is ever written *)
(* with the outcome "inconclusive" that the schema provides for.           *)
THEOREM DedupTypeCorrect == Spec => []TypeOK
<1>1. Init => TypeOK
  BY TypeInit
<1>2. TypeOK /\ [Next]_vars => TypeOK'
  BY TypeNext
<1> QED
  BY <1>1, <1>2, PTL DEF Spec

-----------------------------------------------------------------------------
(* What the memories know of recoveries.  The episode is only one of the   *)
(* places a recovery is recorded in; ReplayIsEarned needs them to agree.   *)

RecoveredResult == [status |-> "verified_recovered", executed |-> TRUE]

\* The stages from the saving of a result on.
Concluded == {"close_log", "closing", "done"}

(* An incident has an outcome only once its pipeline had a result.         *)
OutcomeHasResult ==
  \A a \in Alerts : incident[a].status \notin {"absent", "open"} => task[a].at \in Concluded \cup {"lost"}

(* An approval under way holds the incident.                               *)
ApprovalHolds ==
  \A a \in Alerts : approval[a] = "executing" => incident[a].status = "executing"

(* A recovery is recorded, with its action and below critical.             *)
RecoveryIsSaved ==
  \A a \in Alerts : task[a].result.status = "verified_recovered" =>
    /\ task[a].result = RecoveredResult
    /\ ~IsCritical(a)
    /\ task[a].at \in Concluded => incident[a].status = "verified_recovered"

(* Each backend tells of a recovery only after its pipeline ended with one.*)
EndedRecovered(e) == task[e].at = "done" /\ task[e].result = RecoveredResult

EpisodesAreTrue ==
  \A e \in Alerts : Replayable(database[e]) \/ Replayable(fallback[e]) => EndedRecovered(e)

ReplaysAreTrue ==
  \A a \in Alerts : task[a].replay =>
    /\ task[a].prior \in Alerts
    /\ severity[task[a].prior] = severity[a]
    /\ EndedRecovered(task[a].prior)

(* Only a recovered incident is judged.                                    *)
JudgedIsRecovered ==
  \A a \in Alerts : incident[a].regressed # "unknown" => incident[a].status = "verified_recovered"

MemoryInv ==
  /\ OutcomeHasResult
  /\ ApprovalHolds
  /\ RecoveryIsSaved
  /\ EpisodesAreTrue
  /\ ReplaysAreTrue
  /\ JudgedIsRecovered

(* The memories agree initially: they are empty.                         *)
LEMMA MemoryInit == Init => MemoryInv
BY DEF Init, MemoryInv, OutcomeHasResult, ApprovalHolds, RecoveryIsSaved, EpisodesAreTrue,
       ReplaysAreTrue, JudgedIsRecovered, NoIncident, NoEpisode, NoResult, Replayable

(* What a step to the next await leaves of a task.                         *)
LEMMA GoesValues ==
  ASSUME TypeOK, NEW a \in Alerts, NEW stage, GoesTo(a, stage)
  PROVE  \A b \in Alerts :
           /\ task'[b].at = IF b = a THEN stage ELSE task[b].at
           /\ task'[b].result = task[b].result
           /\ task'[b].prior = task[b].prior
           /\ task'[b].replay = task[b].replay
<1>1. \A b \in Alerts : task[b] \in Task
  BY DEF TypeOK
<1>2. PICK backend : task' = [task EXCEPT ![a] = [@ EXCEPT !.at = stage, !.backend = backend]]
  BY DEF GoesTo
<1> QED
  BY <1>1, <1>2 DEF TypeOK, Task

(* A step that takes a pipeline from a place before its result to another  *)
(* place before it, and touches no other memory.                           *)
LEMMA EarlySteps ==
  ASSUME TypeOK, MemoryInv, NEW a \in Alerts,
         Accept(a) \/ Decide(a) \/ PipelineRaises(a)
         \/ (Log(a) /\ task[a].at # "close_log")
  PROVE  /\ UNCHANGED <<severity, database, fallback, incident, approval>>
         /\ task[a].at \notin Concluded \cup {"lost"}
         /\ task'[a].at \notin Concluded \cup {"lost"}
         /\ \A b \in Alerts : task'[b].result = task[b].result
         /\ \A b \in Alerts \ {a} : task'[b] = task[b]
         /\ ~Decide(a) => \A b \in Alerts : task'[b].prior = task[b].prior /\ task'[b].replay = task[b].replay
<1>0. \A b \in Alerts : task[b] \in Task
  BY DEF TypeOK
<1>1. CASE Accept(a)
  BY <1>0, <1>1 DEF Accept, TypeOK, Task, Concluded
<1>2. CASE Decide(a)
  <2>1. PICK stage \in {"suppress_log", "opening"}, prior \in Alerts \cup {NoAlert},
             replay \in BOOLEAN, opened \in Times : Decided(a, stage, prior, replay, opened)
    <3>1. task[a].opened \in Times /\ clock \in Times
      BY <1>0 DEF TypeOK, Task
    <3> QED
      BY <1>2, <3>1, LatestTypes DEF Decide
  <2>2. /\ task'[a].at = stage /\ task'[a].result = task[a].result
        /\ \A b \in Alerts \ {a} : task'[b] = task[b]
    BY <1>0, <2>1 DEF Decided, TypeOK, Task
  <2>3. task[a].at = "looking" /\ UNCHANGED <<severity, database, fallback, incident, approval>>
    BY <1>2 DEF Decide
  <2> QED
    BY <1>2, <2>1, <2>2, <2>3 DEF Concluded
<1>3. CASE PipelineRaises(a)
  BY <1>0, <1>3 DEF PipelineRaises, TypeOK, Task, Concluded
<1>4. CASE Log(a) /\ task[a].at # "close_log"
  <2>1. AfterLog[task[a].at] \in {"suppressed", "handling"} /\ task[a].at \in {"suppress_log", "replay_log"}
    BY <1>4 DEF Log, AfterLog
  <2>2. \A b \in Alerts \ {a} : task'[b] = task[b]
    BY <1>4 DEF Log, GoesTo, TypeOK
  <2> QED
    BY <1>4, <2>1, <2>2, GoesValues DEF Log, Concluded
<1> QED
  BY <1>1, <1>2, <1>3, <1>4

(* Such a step keeps all but what it decides about a replay.               *)
LEMMA EarlyKeeps ==
  ASSUME TypeOK, MemoryInv, NEW a \in Alerts,
         UNCHANGED <<severity, database, fallback, incident, approval>>,
         task[a].at \notin Concluded \cup {"lost"},
         task'[a].at \notin Concluded \cup {"lost"},
         \A b \in Alerts : task'[b].result = task[b].result,
         \A b \in Alerts \ {a} : task'[b] = task[b]
  PROVE  /\ OutcomeHasResult' /\ ApprovalHolds' /\ RecoveryIsSaved'
         /\ EpisodesAreTrue' /\ JudgedIsRecovered'
         /\ \A e \in Alerts : EndedRecovered(e) => EndedRecovered(e)'
<1>1. \A e \in Alerts : EndedRecovered(e) => EndedRecovered(e)'
  BY DEF EndedRecovered, Concluded
<1>2. EpisodesAreTrue'
  BY <1>1 DEF MemoryInv, EpisodesAreTrue, Replayable
<1>3. OutcomeHasResult'
  BY DEF MemoryInv, OutcomeHasResult
<1>4. RecoveryIsSaved'
  BY DEF MemoryInv, RecoveryIsSaved, IsCritical
<1> QED
  BY <1>1, <1>2, <1>3, <1>4 DEF MemoryInv, ApprovalHolds, JudgedIsRecovered

(* A replay is decided on an episode that tells of a recovery.             *)
LEMMA DecideReplays ==
  ASSUME TypeOK, MemoryInv, NEW a \in Alerts, Decide(a), task'[a].replay
  PROVE  /\ task'[a].prior \in Alerts
         /\ severity[task'[a].prior] = severity[a]
         /\ EndedRecovered(task'[a].prior)
<1>1. task[a] \in Task
  BY DEF TypeOK
<1>2. PICK episodes \in {database, fallback} :
        \E prior \in Latest(episodes, a) :
          \/ Decided(a, "suppress_log", prior, FALSE, task[a].opened)
          \/ Decided(a, "opening", prior, prior # NoAlert /\ Replayable(episodes[prior]), clock)
  BY DEF Decide
<1>3. PICK prior \in Latest(episodes, a) :
          \/ Decided(a, "suppress_log", prior, FALSE, task[a].opened)
          \/ Decided(a, "opening", prior, prior # NoAlert /\ Replayable(episodes[prior]), clock)
  BY <1>2
<1>4. CASE Decided(a, "suppress_log", prior, FALSE, task[a].opened)
  <2>1. task'[a].replay = FALSE
    BY <1>1, <1>4 DEF Decided, TypeOK, Task
  <2> QED
    BY <2>1
<1>5. CASE Decided(a, "opening", prior, prior # NoAlert /\ Replayable(episodes[prior]), clock)
  <2>1. task'[a].prior = prior /\ (task'[a].replay = (prior # NoAlert /\ Replayable(episodes[prior])))
    BY <1>1, <1>5 DEF Decided, TypeOK, Task
  <2>2. prior # NoAlert /\ Replayable(episodes[prior])
    BY <2>1
  <2>3. prior \in Candidates(episodes, a)
    BY <2>2 DEF Latest
  <2>4. prior \in Alerts /\ severity[prior] = severity[a]
    BY <2>3 DEF Candidates
  <2> QED
    BY <2>1, <2>2, <2>4 DEF MemoryInv, EpisodesAreTrue
<1> QED
  BY <1>3, <1>4, <1>5

(* Marking and settling touch only recovered incidents, and only judge.    *)
LEMMA RegressionJudges ==
  ASSUME NEW incidents \in [Alerts -> Incident], NEW now, NEW priors \in SUBSET Refired(incidents, now)
  PROVE  \A b \in Alerts :
           /\ MarkRegressed(incidents, priors)[b].status = incidents[b].status
           /\ MarkRegressed(incidents, priors)[b].regressed # incidents[b].regressed
                => incidents[b].status = "verified_recovered" /\ incidents[b].regressed # "yes"
           /\ Settled(incidents, now)[b].status = incidents[b].status
           /\ Settled(incidents, now)[b].regressed # incidents[b].regressed
                => incidents[b].status = "verified_recovered" /\ incidents[b].regressed = "unknown"
<1> TAKE b \in Alerts
<1>1. incidents[b] \in Incident
  OBVIOUS
<1>2. b \in priors => incidents[b].status = "verified_recovered" /\ incidents[b].regressed # "yes"
  BY DEF Refired
<1>3. /\ MarkRegressed(incidents, priors)[b].status = incidents[b].status
      /\ MarkRegressed(incidents, priors)[b].regressed # incidents[b].regressed => b \in priors
  BY <1>1 DEF MarkRegressed, Incident
<1>4. /\ Settled(incidents, now)[b].status = incidents[b].status
      /\ Settled(incidents, now)[b].regressed # incidents[b].regressed
           => incidents[b].status = "verified_recovered" /\ incidents[b].regressed = "unknown"
  BY <1>1 DEF Settled, Incident
<1> QED
  BY <1>2, <1>3, <1>4

(* Settling judges recovered incidents nothing was known of.               *)
LEMMA SettleValues ==
  ASSUME TypeOK, SettleElsewhere
  PROVE  \A b \in Alerts :
           /\ incident'[b].status = incident[b].status
           /\ incident'[b].regressed # incident[b].regressed
                => incident[b].status = "verified_recovered" /\ incident[b].regressed = "unknown"
<1>1. PICK some : incident' = SettledPart(incident, clock, some)
  BY DEF SettleElsewhere
<1>2. \A b \in Alerts : incident'[b] = Settled(incident, clock)[b] \/ incident'[b] = incident[b]
  BY <1>1 DEF SettledPart
<1>3. incident \in [Alerts -> Incident] /\ {} \in SUBSET Refired(incident, clock)
  BY DEF TypeOK
<1> QED
  BY <1>2, <1>3, RegressionJudges

(* The incidents after a new one is created and earlier ones are judged.   *)
LEMMA CreateValues ==
  ASSUME TypeOK, NEW a \in Alerts, Creates(a)
  PROVE  /\ incident'[a].status = "open" /\ incident'[a].regressed = "unknown"
         /\ \A b \in Alerts \ {a} :
              /\ incident'[b].status = incident[b].status
              /\ incident'[b].regressed # incident[b].regressed
                   => incident[b].status = "verified_recovered" /\ incident[b].regressed # "yes"
<1> DEFINE created == Created(a)
           refired == Refired(created, clock)
<1>1. created \in [Alerts -> Incident]
  BY CreatedTypes
<1>2. /\ created[a].status = "open" /\ created[a].regressed = "unknown"
      /\ \A b \in Alerts \ {a} : created[b] = incident[b]
  BY CreatedTypes
<1>3. \E some \in SUBSET refired :
        \/ incident' = Settled(MarkRegressed(created, some), clock)
        \/ incident' = MarkRegressed(created, some)
        \/ \E part : incident' = SettledPart(MarkRegressed(created, some), clock, part)
  BY DEF Creates, UpdateRegressions, UpdateCutShort
<1> HIDE DEF created
<1>4. PICK some \in SUBSET refired :
        \/ incident' = Settled(MarkRegressed(created, some), clock)
        \/ incident' = MarkRegressed(created, some)
        \/ \E part : incident' = SettledPart(MarkRegressed(created, some), clock, part)
  BY <1>3
<1> DEFINE marked == MarkRegressed(created, some)
<1>5. marked \in [Alerts -> Incident]
  BY <1>1, RegressionTypes
<1>6. \A b \in Alerts :
        /\ marked[b].status = created[b].status
        /\ marked[b].regressed # created[b].regressed
             => created[b].status = "verified_recovered" /\ created[b].regressed # "yes"
  BY <1>1, RegressionJudges
<1> HIDE DEF marked
<1>7. \A b \in Alerts :
        /\ Settled(marked, clock)[b].status = marked[b].status
        /\ Settled(marked, clock)[b].regressed # marked[b].regressed
             => marked[b].status = "verified_recovered" /\ marked[b].regressed = "unknown"
  BY <1>5, RegressionJudges
<1>8. \A b \in Alerts : incident'[b] = Settled(marked, clock)[b] \/ incident'[b] = marked[b]
  <2>1. \/ incident' = Settled(marked, clock)
        \/ incident' = marked
        \/ \E part : incident' = SettledPart(marked, clock, part)
    BY <1>4 DEF marked
  <2> QED
    BY <2>1 DEF SettledPart
<1>9. \A b \in Alerts :
        /\ incident'[b].status = created[b].status
        /\ incident'[b].regressed # created[b].regressed
             => created[b].status = "verified_recovered" /\ created[b].regressed # "yes"
  BY <1>6, <1>7, <1>8
<1> QED
  BY <1>2, <1>9

(* A save gives one incident a status and forgets its judgement.           *)
LEMMA SaveValues ==
  ASSUME TypeOK, NEW a \in Alerts, NEW status, NEW t, SaveIncident(a, status, t)
  PROVE  /\ incident'[a].status = status /\ incident'[a].regressed = "unknown"
         /\ \A b \in Alerts \ {a} : incident'[b] = incident[b]
<1>1. incident[a] \in Incident
  BY DEF TypeOK
<1> QED
  BY <1>1 DEF SaveIncident, TypeOK, Incident

(* A written episode tells of a recovery only if the written one does.     *)
LEMMA WriteValues ==
  ASSUME TypeOK, NEW a \in Alerts, NEW result, NEW episode, WriteEpisode(a, result, episode)
  PROVE  \A e \in Alerts :
           Replayable(database'[e]) \/ Replayable(fallback'[e]) =>
             \/ Replayable(database[e]) \/ Replayable(fallback[e])
             \/ e = a /\ Replayable(episode)
<1> TAKE e \in Alerts
<1>1. database'[e] = database[e] \/ (e = a /\ database'[e] = episode)
  BY DEF WriteEpisode, TypeOK
<1>2. fallback'[e] = fallback[e] \/ (e = a /\ fallback'[e] = episode)
  BY DEF WriteEpisode, TypeOK
<1> QED
  BY <1>1, <1>2

(* A step within the places before a result, or within those after it,     *)
(* that leaves the incidents and reveals no new recovery.                  *)
LEMMA Moves ==
  ASSUME TypeOK, MemoryInv, NEW a \in Alerts, NEW stage, GoesTo(a, stage),
         UNCHANGED <<severity, incident, approval>>,
         task[a].at # "done",
         task[a].at \in Concluded \cup {"lost"} <=> stage \in Concluded \cup {"lost"},
         stage \in Concluded => task[a].at \in Concluded,
         \A e \in Alerts : Replayable(database'[e]) \/ Replayable(fallback'[e]) =>
           Replayable(database[e]) \/ Replayable(fallback[e])
  PROVE  MemoryInv'
<1>1. \A e \in Alerts : EndedRecovered(e) => EndedRecovered(e)'
  BY GoesValues DEF EndedRecovered
<1>2. EpisodesAreTrue' /\ ReplaysAreTrue'
  BY <1>1, GoesValues DEF MemoryInv, EpisodesAreTrue, ReplaysAreTrue
<1>3. OutcomeHasResult'
  BY GoesValues DEF MemoryInv, OutcomeHasResult
<1>4. RecoveryIsSaved'
  BY GoesValues DEF MemoryInv, RecoveryIsSaved, IsCritical
<1> QED
  BY <1>2, <1>3, <1>4 DEF MemoryInv, ApprovalHolds, JudgedIsRecovered

(* Every step keeps what the memories know of recoveries.                  *)
LEMMA PipelineMemory ==
  ASSUME TypeOK, MemoryInv, NEW a \in Alerts, Accept(a) \/ PipelineNext(a)
  PROVE  MemoryInv'
<1>0. \A b \in Alerts : task[b] \in Task
  BY DEF TypeOK
<1>1. CASE Accept(a) \/ Decide(a) \/ PipelineRaises(a) \/ (Log(a) /\ task[a].at # "close_log")
  <2>1. /\ OutcomeHasResult' /\ ApprovalHolds' /\ RecoveryIsSaved' /\ EpisodesAreTrue' /\ JudgedIsRecovered'
        /\ \A e \in Alerts : EndedRecovered(e) => EndedRecovered(e)'
    BY <1>1, EarlySteps, EarlyKeeps
  <2>2. ReplaysAreTrue'
    <3>1. severity' = severity
      BY <1>1, EarlySteps
    <3>2. SUFFICES ASSUME NEW b \in Alerts, task'[b].replay
                   PROVE  /\ task'[b].prior \in Alerts
                          /\ severity[task'[b].prior] = severity[b]
                          /\ EndedRecovered(task'[b].prior)
      BY <2>1, <3>1 DEF ReplaysAreTrue, EndedRecovered
    <3>3. CASE Decide(a) /\ b = a
      BY <3>2, <3>3, DecideReplays
    <3>4. CASE ~(Decide(a) /\ b = a)
      <4>1. task'[b].prior = task[b].prior /\ task'[b].replay = task[b].replay
        BY <1>1, <3>4, EarlySteps
      <4> QED
        BY <3>2, <4>1 DEF MemoryInv, ReplaysAreTrue
    <3> QED
      BY <3>3, <3>4
  <2> QED
    BY <2>1, <2>2 DEF MemoryInv
<1>2. CASE Log(a) /\ task[a].at = "close_log"
  <2>1. GoesTo(a, "closing") /\ UNCHANGED <<severity, database, fallback, incident, approval>>
    BY <1>2 DEF Log, AfterLog
  <2>2. task[a].at # "done" /\ task[a].at \in Concluded /\ "closing" \in Concluded
    BY <1>2 DEF Concluded
  <2>3. \A e \in Alerts : Replayable(database'[e]) \/ Replayable(fallback'[e]) =>
          Replayable(database[e]) \/ Replayable(fallback[e])
    BY <2>1
  <2> QED
    BY <2>1, <2>2, <2>3, Moves
<1>3. CASE OpenEpisode(a)
  <2>1. PICK result :
          WriteEpisode(a, result, [NoEpisode EXCEPT !.status = "open", !.created = task[a].opened])
    BY <1>3 DEF OpenEpisode
  <2>2. ~Replayable([NoEpisode EXCEPT !.status = "open", !.created = task[a].opened])
    BY DEF Replayable, NoEpisode
  <2>3. \A e \in Alerts : Replayable(database'[e]) \/ Replayable(fallback'[e]) =>
          Replayable(database[e]) \/ Replayable(fallback[e])
    BY <2>1, <2>2, WriteValues
  <2>4. GoesTo(a, "open_log") /\ UNCHANGED <<severity, incident, approval>>
    BY <1>3 DEF OpenEpisode
  <2>5. /\ task[a].at # "done" /\ task[a].at \notin Concluded \cup {"lost"}
        /\ "open_log" \notin Concluded \cup {"lost"}
    BY <1>3 DEF OpenEpisode, Concluded
  <2> QED
    BY <2>3, <2>4, <2>5, Moves
<1>4. CASE CreateIncident(a)
  <2> DEFINE stage == IF task[a].replay THEN "replay_log" ELSE "handling"
  <2>1. GoesTo(a, stage) /\ task[a].at = "open_log" /\ UNCHANGED <<severity, database, fallback, approval>>
    BY <1>4 DEF CreateIncident
  <2>0. Creates(a)
    BY <1>4, CreationSteps
  <2>2. stage \notin Concluded \cup {"lost"}
    BY DEF Concluded
  <2> HIDE DEF stage
  <2>3. incident[a].status \in {"absent", "open"}
    BY <2>1 DEF MemoryInv, OutcomeHasResult, Concluded
  <2>4. \A e \in Alerts : EndedRecovered(e) => EndedRecovered(e)'
    BY <2>1, GoesValues DEF EndedRecovered
  <2>5. EpisodesAreTrue' /\ ReplaysAreTrue'
    BY <2>1, <2>4, GoesValues DEF MemoryInv, EpisodesAreTrue, ReplaysAreTrue
  <2>6. OutcomeHasResult'
    BY <2>0, <2>1, <2>3, CreateValues, GoesValues DEF MemoryInv, OutcomeHasResult
  <2>7. ApprovalHolds'
    BY <2>0, <2>1, <2>3, CreateValues DEF MemoryInv, ApprovalHolds
  <2>8. RecoveryIsSaved'
    BY <2>0, <2>1, <2>2, CreateValues, GoesValues DEF MemoryInv, RecoveryIsSaved, IsCritical
  <2>9. JudgedIsRecovered'
    BY <2>0, CreateValues DEF MemoryInv, JudgedIsRecovered
  <2> QED
    BY <2>5, <2>6, <2>7, <2>8, <2>9 DEF MemoryInv
<1>5. CASE Handle(a)
  <2>1. PICK result \in Results(a), t \in Times :
          /\ SaveIncident(a, result.status, t)
          /\ task' = [task EXCEPT ![a] = [@ EXCEPT !.at = "close_log", !.result = result,
                                                   !.backend = Backend(degraded)]]
    <3>1. clock \in Times /\ 0 \in Times
      BY DedupAssumption DEF TypeOK, Times
    <3> QED
      BY <1>5, <3>1 DEF Handle
  <2>2. task[a].at = "handling" /\ UNCHANGED <<severity, database, fallback, approval>>
    BY <1>5 DEF Handle
  <2>3. /\ task'[a].at = "close_log" /\ task'[a].result = result
        /\ task'[a].prior = task[a].prior /\ task'[a].replay = task[a].replay
        /\ \A b \in Alerts \ {a} : task'[b] = task[b]
    BY <1>0, <2>1 DEF TypeOK, Task
  <2>4. incident[a].status \in {"absent", "open"}
    BY <2>2 DEF MemoryInv, OutcomeHasResult, Concluded
  <2>5. \A e \in Alerts : EndedRecovered(e) => EndedRecovered(e)'
    BY <2>2, <2>3 DEF EndedRecovered
  <2>6. EpisodesAreTrue' /\ ReplaysAreTrue'
    BY <2>2, <2>3, <2>5 DEF MemoryInv, EpisodesAreTrue, ReplaysAreTrue
  <2>7. OutcomeHasResult'
    BY <2>1, <2>3, SaveValues DEF MemoryInv, OutcomeHasResult, Concluded
  <2>8. ApprovalHolds'
    BY <2>1, <2>2, <2>4, SaveValues DEF MemoryInv, ApprovalHolds
  <2>9. RecoveryIsSaved'
    <3>1. result.status = "verified_recovered" => result = RecoveredResult /\ ~IsCritical(a)
      BY DEF Results, Result, NoResult, RecoveredResult
    <3> QED
      BY <2>1, <2>2, <2>3, <3>1, SaveValues DEF MemoryInv, RecoveryIsSaved, IsCritical
  <2>10. JudgedIsRecovered'
    BY <2>1, SaveValues DEF MemoryInv, JudgedIsRecovered
  <2> QED
    BY <2>6, <2>7, <2>8, <2>9, <2>10 DEF MemoryInv
<1>6. CASE CloseEpisode(a)
  <2> DEFINE episode == ClosedEpisode(a, task[a].result)
  <2>1. PICK result : WriteEpisode(a, result, episode)
    BY <1>6 DEF CloseEpisode
  <2>2. task[a].at = "closing" /\ GoesTo(a, "done") /\ UNCHANGED <<severity, incident, approval>>
    BY <1>6 DEF CloseEpisode
  <2>3. Replayable(episode) => task[a].result = RecoveredResult
    <3>1. Replayable(episode) => task[a].result.status = "verified_recovered"
      BY DEF ClosedEpisode, Replayable
    <3> QED
      BY <3>1 DEF MemoryInv, RecoveryIsSaved
  <2> HIDE DEF episode
  <2>4. \A e \in Alerts : EndedRecovered(e) => EndedRecovered(e)'
    BY <2>2, GoesValues DEF EndedRecovered
  <2>5. Replayable(episode) => EndedRecovered(a)'
    BY <2>2, <2>3, GoesValues DEF EndedRecovered
  <2>6. EpisodesAreTrue'
    BY <2>1, <2>4, <2>5, WriteValues DEF MemoryInv, EpisodesAreTrue
  <2>7. ReplaysAreTrue'
    BY <2>2, <2>4, GoesValues DEF MemoryInv, ReplaysAreTrue
  <2>8. OutcomeHasResult'
    BY <2>2, GoesValues DEF MemoryInv, OutcomeHasResult, Concluded
  <2>9. RecoveryIsSaved'
    BY <2>2, GoesValues DEF MemoryInv, RecoveryIsSaved, IsCritical, Concluded
  <2> QED
    BY <2>2, <2>6, <2>7, <2>8, <2>9 DEF MemoryInv, ApprovalHolds, JudgedIsRecovered
<1> QED
  BY <1>1, <1>2, <1>3, <1>4, <1>5, <1>6 DEF PipelineNext

(* The steps of an approval change one incident, whose pipeline had a      *)
(* result other than a recovery.                                           *)
LEMMA ApprovalMemory ==
  ASSUME TypeOK, MemoryInv, NEW a \in Alerts, ApprovalNext(a)
  PROVE  MemoryInv'
<1>1. /\ UNCHANGED <<severity, database, fallback, task>>
      /\ \A b \in Alerts \ {a} : approval'[b] = approval[b]
  BY DEF ApprovalNext, Approve, ApprovedActionFails, ApprovedActionRecovers, ApprovalGoes, TypeOK
<1>2. incident[a].status \in {"awaiting_approval", "executing"}
  BY DEF ApprovalNext, Approve, ApprovedActionFails, ApprovedActionRecovers, ApprovalGoes,
         MemoryInv, ApprovalHolds
<1>3. PICK status, t :
        /\ status \in IncidentStatuses \ {"absent", "open"}
        /\ SaveIncident(a, status, t)
        /\ approval'[a] = "executing" => status = "executing"
  <2>1. CASE Approve(a)
    BY <2>1 DEF Approve, ApprovalGoes, TypeOK, IncidentStatuses
  <2>2. CASE ApprovedActionFails(a)
    BY <2>2 DEF ApprovedActionFails, ApprovalGoes, TypeOK, IncidentStatuses
  <2>3. CASE ApprovedActionRecovers(a)
    BY <2>3 DEF ApprovedActionRecovers, ApprovalGoes, TypeOK, IncidentStatuses
  <2> QED
    BY <2>1, <2>2, <2>3 DEF ApprovalNext
<1>4. EpisodesAreTrue' /\ ReplaysAreTrue'
  BY <1>1 DEF MemoryInv, EpisodesAreTrue, ReplaysAreTrue, EndedRecovered
<1>5. OutcomeHasResult'
  BY <1>1, <1>2, <1>3, SaveValues DEF MemoryInv, OutcomeHasResult
<1>6. ApprovalHolds'
  BY <1>1, <1>3, SaveValues DEF MemoryInv, ApprovalHolds
<1>7. RecoveryIsSaved'
  <2>1. task[a].at \in Concluded => task[a].result.status # "verified_recovered"
    BY <1>2 DEF MemoryInv, RecoveryIsSaved
  <2> QED
    BY <1>1, <1>3, <2>1, SaveValues DEF MemoryInv, RecoveryIsSaved, IsCritical
<1>8. JudgedIsRecovered'
  BY <1>3, SaveValues DEF MemoryInv, JudgedIsRecovered
<1> QED
  BY <1>4, <1>5, <1>6, <1>7, <1>8 DEF MemoryInv

(* The memories still agree after every step.                            *)
LEMMA MemoryNext == TypeOK /\ MemoryInv /\ [Next]_vars => MemoryInv'
<1> SUFFICES ASSUME TypeOK, MemoryInv, [Next]_vars PROVE MemoryInv'
  OBVIOUS
<1>1. CASE \E a \in Alerts : Accept(a) \/ PipelineNext(a)
  BY <1>1, PipelineMemory
<1>2. CASE \E a \in Alerts : ApprovalNext(a)
  BY <1>2, ApprovalMemory
<1>3. CASE UNCHANGED <<severity, database, fallback, task, incident, approval>>
  BY <1>3 DEF MemoryInv, OutcomeHasResult, ApprovalHolds, RecoveryIsSaved, EpisodesAreTrue,
              ReplaysAreTrue, JudgedIsRecovered, EndedRecovered, IsCritical
<1>4. CASE SettleElsewhere
  <2>1. \A b \in Alerts :
          /\ incident'[b].status = incident[b].status
          /\ incident'[b].regressed # incident[b].regressed => incident[b].status = "verified_recovered"
    BY <1>4, SettleValues
  <2> QED
    BY <1>4, <2>1 DEF SettleElsewhere, MemoryInv, OutcomeHasResult, ApprovalHolds, RecoveryIsSaved,
                      EpisodesAreTrue, ReplaysAreTrue, JudgedIsRecovered, EndedRecovered, IsCritical
<1>5. ASSUME Restart,
             \/ UNCHANGED incident
             \/ \E a \in Alerts : task[a].at = "open_log" /\ Creates(a)
      PROVE  MemoryInv'
  <2>1. \A b \in Alerts :
          /\ task'[b].at = IF task[b].at \in Ended \cup {"new"} THEN task[b].at ELSE "lost"
          /\ task'[b].result = task[b].result
          /\ task'[b].prior = task[b].prior
          /\ task'[b].replay = task[b].replay
    BY <1>5 DEF Restart, TypeOK, Task
  <2>2. /\ UNCHANGED <<severity, database>>
        /\ \A b \in Alerts : ~Replayable(fallback'[b])
        /\ \A b \in Alerts : approval'[b] # "executing"
    BY <1>5 DEF Restart, Replayable, NoEpisode, TypeOK
  <2>3. \A e \in Alerts : EndedRecovered(e) => EndedRecovered(e)'
    BY <2>1 DEF EndedRecovered, Ended
  <2>4. EpisodesAreTrue' /\ ReplaysAreTrue'
    BY <2>1, <2>2, <2>3 DEF MemoryInv, EpisodesAreTrue, ReplaysAreTrue
  <2>5. \A b \in Alerts :
          /\ \/ incident'[b].status = incident[b].status
             \/ /\ task[b].at = "open_log"
                /\ incident'[b].status = "open"
          /\ incident'[b].regressed # "unknown" => incident'[b].status = "verified_recovered"
    <3>1. CASE UNCHANGED incident
      BY <3>1 DEF MemoryInv, JudgedIsRecovered
    <3>2. ASSUME NEW a \in Alerts, task[a].at = "open_log", Creates(a)
          PROVE  \A b \in Alerts :
                   /\ \/ incident'[b].status = incident[b].status
                      \/ /\ task[b].at = "open_log"
                         /\ incident'[b].status = "open"
                   /\ incident'[b].regressed # "unknown" => incident'[b].status = "verified_recovered"
      BY <3>2, CreateValues DEF MemoryInv, JudgedIsRecovered
    <3> QED
      BY <1>5, <3>1, <3>2
  <2>6. OutcomeHasResult'
    BY <2>1, <2>5 DEF MemoryInv, OutcomeHasResult, Concluded, Ended
  <2>7. RecoveryIsSaved'
    BY <2>1, <2>2, <2>5 DEF MemoryInv, RecoveryIsSaved, Concluded, Ended, IsCritical
  <2> QED
    BY <2>2, <2>4, <2>5, <2>6, <2>7 DEF MemoryInv, ApprovalHolds, JudgedIsRecovered
<1>6. CASE CrashRestart
  BY <1>5, <1>6 DEF CrashRestart
<1>7. CASE \E a \in Alerts : CrashWhileCreating(a)
  BY <1>5, <1>7, CreationSteps DEF CrashWhileCreating
<1> QED
  BY <1>1, <1>2, <1>3, <1>4, <1>6, <1>7 DEF Next, Tick, vars

(* A diagnosis is replayed only where it was earned, whatever fails and    *)
(* however the pipelines, approvals and restarts interleave.               *)
THEOREM ReplayIsEarnedAlways == Spec => []ReplayIsEarned
<1>1. MemoryInv => ReplayIsEarned
  <2> SUFFICES ASSUME MemoryInv, NEW a \in Alerts, task[a].replay
               PROVE  LET p == task[a].prior IN
                      /\ p # NoAlert
                      /\ ~IsCritical(a) /\ severity[p] = severity[a]
                      /\ task[p].at = "done"
                      /\ task[p].result = [status |-> "verified_recovered", executed |-> TRUE]
                      /\ incident[p].status = "verified_recovered"
    BY DEF ReplayIsEarned
  <2> DEFINE p == task[a].prior
  <2>1. p \in Alerts /\ severity[p] = severity[a] /\ task[p].at = "done" /\ task[p].result = RecoveredResult
    BY DEF MemoryInv, ReplaysAreTrue, EndedRecovered
  <2>2. ~IsCritical(p) /\ incident[p].status = "verified_recovered"
    BY <2>1 DEF MemoryInv, RecoveryIsSaved, RecoveredResult, Concluded
  <2> QED
    BY <2>1, <2>2, DedupAssumption DEF RecoveredResult, IsCritical
<1>2. Init => TypeOK /\ MemoryInv
  BY TypeInit, MemoryInit
<1>3. TypeOK /\ MemoryInv /\ [Next]_vars => (TypeOK /\ MemoryInv)'
  BY TypeNext, MemoryNext
<1> QED
  BY <1>1, <1>2, <1>3, PTL DEF Spec

(* A regression, once recorded, stands: no settling and no save of another *)
(* copy of the incident takes it back.                                     *)
THEOREM RegressionStandsAlways == Spec => RegressionStands
<1>1. TypeOK /\ MemoryInv /\ [Next]_vars =>
        \A a \in Alerts : incident[a].regressed = "yes" => incident'[a].regressed = "yes"
  <2> SUFFICES ASSUME TypeOK, MemoryInv, [Next]_vars, NEW b \in Alerts, incident[b].regressed = "yes"
               PROVE  incident'[b].regressed = "yes"
    OBVIOUS
  <2>0. incident[b].status = "verified_recovered"
    BY DEF MemoryInv, JudgedIsRecovered
  <2>1. CASE UNCHANGED incident
    BY <2>1
  <2>2. ASSUME NEW a \in Alerts, CreateIncident(a) \/ CrashWhileCreating(a)
        PROVE  incident'[b].regressed = "yes"
    <3>1. task[a].at = "open_log" /\ Creates(a)
      BY <2>2, CreationSteps
    <3>2. a # b
      BY <2>0, <3>1 DEF MemoryInv, OutcomeHasResult, Concluded
    <3> QED
      BY <3>1, <3>2, CreateValues
  <2>3. ASSUME NEW a \in Alerts, Handle(a) PROVE incident'[b].regressed = "yes"
    <3>1. task[a].at = "handling" /\ \E status, t : SaveIncident(a, status, t)
      BY <2>3 DEF Handle
    <3>2. a # b
      BY <2>0, <3>1 DEF MemoryInv, OutcomeHasResult, Concluded
    <3> QED
      BY <3>1, <3>2, SaveValues
  <2>4. ASSUME NEW a \in Alerts, ApprovalNext(a) PROVE incident'[b].regressed = "yes"
    <3>1. \E status, t : SaveIncident(a, status, t)
      BY <2>4 DEF ApprovalNext, Approve, ApprovedActionFails, ApprovedActionRecovers
    <3>2. incident[a].status \in {"awaiting_approval", "executing"}
      BY <2>4 DEF ApprovalNext, Approve, ApprovedActionFails, ApprovedActionRecovers,
                  ApprovalGoes, MemoryInv, ApprovalHolds
    <3>3. a # b
      BY <2>0, <3>2
    <3> QED
      BY <3>1, <3>3, SaveValues
  <2>5. CASE SettleElsewhere
    BY <2>5, SettleValues
  <2>6. ASSUME NEW a \in Alerts, Accept(a) \/ PipelineNext(a) PROVE incident'[b].regressed = "yes"
    <3>1. UNCHANGED incident \/ CreateIncident(a) \/ Handle(a)
      BY <2>6 DEF PipelineNext, Accept, Decide, Log, OpenEpisode, CloseEpisode, PipelineRaises
    <3> QED
      BY <2>1, <2>2, <2>3, <3>1
  <2> QED
    BY <2>1, <2>2, <2>4, <2>5, <2>6 DEF Next, vars, Tick, CrashRestart
<1>2. Init => TypeOK /\ MemoryInv
  BY TypeInit, MemoryInit
<1>3. TypeOK /\ MemoryInv /\ [Next]_vars => (TypeOK /\ MemoryInv)'
  BY TypeNext, MemoryNext
<1>4. TypeOK /\ MemoryInv /\ [Next]_vars =>
        [\A a \in Alerts : incident[a].regressed = "yes" => incident'[a].regressed = "yes"]_vars
  BY <1>1
<1> QED
  BY <1>2, <1>3, <1>4, PTL DEF Spec, RegressionStands

-----------------------------------------------------------------------------
(* A burst of alerts is one incident.                                      *)

\* The table's entry is no older than any accepted alert, whatever became of
\* the alert since, and alerts were accepted a window apart.
Accepted(a) == task[a].at # "new"

Apart(s, t) == s + DedupWindow <= t \/ t + DedupWindow <= s

BurstInv ==
  crashes = 0 =>
    /\ \A a \in Alerts : incident[a].status # "absent" => Accepted(a)
    /\ \A a \in Alerts : Accepted(a) => \E first \in seen : task[a].arrived <= first
    /\ \A a, b \in Alerts : a # b /\ Accepted(a) /\ Accepted(b) => Apart(task[a].arrived, task[b].arrived)

(* A step of a pipeline after its first moves only its own task, which     *)
(* keeps the time its alert arrived at.                                    *)
LEMMA TaskSteps ==
  ASSUME TypeOK, NEW a \in Alerts, PipelineNext(a)
  PROVE  /\ Accepted(a) /\ task'[a].at # "new"
         /\ task'[a].arrived = task[a].arrived
         /\ \A b \in Alerts \ {a} : task'[b] = task[b]
<1>1. task \in [Alerts -> Task] /\ task[a] \in Task
  BY DEF TypeOK
<1>2. CASE Decide(a)
  <2>1. PICK stage \in {"suppress_log", "opening"}, prior \in Alerts \cup {NoAlert},
             replay \in BOOLEAN, opened \in Times : Decided(a, stage, prior, replay, opened)
    <3>1. task[a].opened \in Times /\ clock \in Times
      BY <1>1 DEF TypeOK, Task
    <3> QED
      BY <1>2, <3>1, LatestTypes DEF Decide
  <2> QED
    BY <1>1, <1>2, <2>1 DEF Decide, Decided, Task, Accepted
<1>3. CASE Log(a) \/ OpenEpisode(a) \/ CreateIncident(a) \/ CloseEpisode(a)
  <2>1. PICK stage \in Stages \ {"new"} : GoesTo(a, stage)
    BY <1>3 DEF Log, OpenEpisode, CreateIncident, CloseEpisode, AfterLog, Stages, MemoryStages, Ended
  <2>2. PICK backend : task' = [task EXCEPT ![a] = [@ EXCEPT !.at = stage, !.backend = backend]]
    BY <2>1 DEF GoesTo
  <2> QED
    BY <1>1, <1>3, <2>2 DEF Log, OpenEpisode, CreateIncident, CloseEpisode, AfterLog, Task, Accepted
<1>4. CASE Handle(a)
  <2>1. PICK result, backend :
          task' = [task EXCEPT ![a] = [@ EXCEPT !.at = "close_log", !.result = result,
                                                !.backend = backend]]
    BY <1>4 DEF Handle
  <2> QED
    BY <1>1, <1>4, <2>1 DEF Handle, Task, Accepted
<1>5. CASE PipelineRaises(a)
  BY <1>1, <1>5 DEF PipelineRaises, Task, Accepted
<1> QED
  BY <1>2, <1>3, <1>4, <1>5 DEF PipelineNext

(* Only a pipeline that was accepted makes an incident.                    *)
LEMMA IncidentSteps ==
  ASSUME TypeOK, MemoryInv, [Next]_vars
  PROVE  \A b \in Alerts : incident'[b].status # "absent" => incident[b].status # "absent" \/ Accepted(b)
<1>1. CASE UNCHANGED incident
  BY <1>1
<1>2. ASSUME NEW a \in Alerts, CreateIncident(a) \/ CrashWhileCreating(a)
      PROVE  \A b \in Alerts : incident'[b].status # "absent" => incident[b].status # "absent" \/ Accepted(b)
  BY <1>2, CreationSteps, CreateValues DEF Accepted
<1>3. ASSUME NEW a \in Alerts, Handle(a)
      PROVE  \A b \in Alerts : incident'[b].status # "absent" => incident[b].status # "absent" \/ Accepted(b)
  <2>1. task[a].at = "handling" /\ \E status, t : SaveIncident(a, status, t)
    BY <1>3 DEF Handle
  <2> QED
    BY <2>1, SaveValues DEF Accepted
<1>4. ASSUME NEW a \in Alerts, ApprovalNext(a)
      PROVE  \A b \in Alerts : incident'[b].status # "absent" => incident[b].status # "absent" \/ Accepted(b)
  <2>1. \E status, t : SaveIncident(a, status, t)
    BY <1>4 DEF ApprovalNext, Approve, ApprovedActionFails, ApprovedActionRecovers
  <2>2. incident[a].status # "absent"
    BY <1>4 DEF ApprovalNext, Approve, ApprovedActionFails, ApprovedActionRecovers,
                ApprovalGoes, MemoryInv, ApprovalHolds
  <2> QED
    BY <2>1, <2>2, SaveValues
<1>5. CASE SettleElsewhere
  BY <1>5, SettleValues
<1>6. ASSUME NEW a \in Alerts, Accept(a) \/ PipelineNext(a)
      PROVE  UNCHANGED incident \/ CreateIncident(a) \/ Handle(a)
  BY <1>6 DEF PipelineNext, Accept, Decide, Log, OpenEpisode, CloseEpisode, PipelineRaises
<1> QED
  BY <1>1, <1>2, <1>3, <1>4, <1>5, <1>6 DEF Next, vars, Tick, CrashRestart

(* Every step keeps the accepted alerts apart.                             *)
LEMMA BurstStep == TypeOK /\ MemoryInv /\ BurstInv /\ [Next]_vars => BurstInv'
<1> SUFFICES ASSUME TypeOK, MemoryInv, BurstInv, [Next]_vars, crashes' = 0 PROVE BurstInv'
  BY DEF BurstInv
<1>0. task \in [Alerts -> Task] /\ clock \in Nat /\ seen \subseteq Nat /\ DedupWindow \in Nat
      /\ \A a \in Alerts : task[a] \in Task /\ task[a].arrived \in Nat
  BY DedupAssumption DEF TypeOK, Times, Task
<1>1. crashes = 0 /\ ~CrashRestart /\ \A a \in Alerts : ~CrashWhileCreating(a)
  <2>1. ~CrashRestart /\ \A a \in Alerts : ~CrashWhileCreating(a)
    BY DEF CrashRestart, CrashWhileCreating, Restart, TypeOK
  <2> QED
    BY <2>1 DEF Next, vars, PipelineNext, ApprovalNext, Accept, Decide, Log, OpenEpisode, CreateIncident,
       Handle, CloseEpisode, PipelineRaises, Approve, ApprovedActionFails, ApprovedActionRecovers,
       ApprovalGoes, Tick, SettleElsewhere
<1>2. /\ \A a \in Alerts : incident[a].status # "absent" => Accepted(a)
      /\ \A a \in Alerts : Accepted(a) => \E first \in seen : task[a].arrived <= first
      /\ \A a, b \in Alerts : a # b /\ Accepted(a) /\ Accepted(b) => Apart(task[a].arrived, task[b].arrived)
  BY <1>1 DEF BurstInv
<1>3. \A b \in Alerts : incident'[b].status # "absent" => Accepted(b)
  BY <1>2, IncidentSteps
<1>4. ASSUME NEW a \in Alerts, Accept(a) PROVE BurstInv'
  <2>1. /\ ~Accepted(a) /\ Accepted(a)'
        /\ task'[a].arrived = clock
        /\ \A b \in Alerts \ {a} : task'[b] = task[b]
        /\ seen' = {clock}
    BY <1>0, <1>4 DEF Accept, Task, Accepted
  <2>2. \A first \in seen : first + DedupWindow <= clock
    BY <1>0, <1>4 DEF Accept, ShouldFire
  <2>3. \A b \in Alerts : Accepted(b) => task[b].arrived + DedupWindow <= clock
    BY <1>0, <1>2, <2>2
  <2>4. \A b \in Alerts : Accepted(b)' => task'[b].arrived <= clock
    BY <1>0, <2>1, <2>3 DEF Accepted
  <2>5. \A b, c \in Alerts : b # c /\ Accepted(b)' /\ Accepted(c)' => Apart(task'[b].arrived, task'[c].arrived)
    BY <1>2, <2>1, <2>3 DEF Accepted, Apart
  <2> QED
    BY <1>3, <2>1, <2>4, <2>5 DEF BurstInv, Accepted
<1>5. ASSUME NEW a \in Alerts, PipelineNext(a) PROVE BurstInv'
  <2>1. seen' = seen
    BY <1>5 DEF PipelineNext, Decide, Log, OpenEpisode, CreateIncident, Handle, CloseEpisode, PipelineRaises
  <2>2. \A b \in Alerts : (Accepted(b)' <=> Accepted(b)) /\ task'[b].arrived = task[b].arrived
    BY <1>5, TaskSteps DEF Accepted
  <2> QED
    BY <1>2, <1>3, <2>1, <2>2 DEF BurstInv
<1>6. CASE UNCHANGED <<seen, task>>
  BY <1>2, <1>3, <1>6 DEF BurstInv, Accepted
<1> QED
  BY <1>1, <1>4, <1>5, <1>6 DEF Next, vars, ApprovalNext, Approve, ApprovedActionFails, ApprovedActionRecovers,
     ApprovalGoes, Tick, SettleElsewhere

(* MemoryInv holds always.                                                 *)
LEMMA MemoryInvHolds == Spec => []MemoryInv
<1>1. TypeOK /\ MemoryInv /\ [Next]_vars => MemoryInv'
  BY MemoryNext
<1> QED
  BY <1>1, MemoryInit, DedupTypeCorrect, PTL DEF Spec

(* However the pipelines, approvals and calls of the memory interleave and *)
(* however the backend fails: alerts of one key do not open two incidents  *)
(* within the dedup window, until the process restarts.                    *)
THEOREM BurstIsOneIncidentAlways == Spec => []BurstIsOneIncident
<1>1. Init => BurstInv
  BY DEF Init, BurstInv, Accepted, NoIncident
<1>2. TypeOK /\ MemoryInv /\ BurstInv /\ [Next]_vars => BurstInv'
  BY BurstStep
<1>3. BurstInv => BurstIsOneIncident
  BY DEF BurstInv, BurstIsOneIncident, Apart
<1> QED
  BY <1>1, <1>2, <1>3, DedupTypeCorrect, MemoryInvHolds, PTL DEF Spec

-----------------------------------------------------------------------------
(* A fix is called stable only if it was.                                  *)

\* Nothing is dated in the future; whatever re-fired inside the window of a
\* recovery that is not known to have regressed had its update cut short.
DatesArePast ==
  \A p \in Alerts : /\ incident[p].created <= clock /\ incident[p].resolved_at <= clock
                    /\ incident[p].status = "absent" => incident[p].created = 0

UnmarkedIsUnfired ==
  \A p \in Alerts : incident[p].status = "verified_recovered" /\ incident[p].regressed # "yes" =>
    RefiredIncident(p) \subseteq missed

StableIsOver ==
  \A p \in Alerts : incident[p].regressed = "no" => clock >= incident[p].resolved_at + RegressionWindow

HeldInv == DatesArePast /\ UnmarkedIsUnfired /\ StableIsOver

(* Marking keeps status and dates; a mark is a regression.                 *)
LEMMA MarkingKeeps ==
  ASSUME NEW incidents \in [Alerts -> Incident], NEW priors, NEW b \in Alerts
  PROVE  /\ MarkRegressed(incidents, priors)[b].status = incidents[b].status
         /\ MarkRegressed(incidents, priors)[b].created = incidents[b].created
         /\ MarkRegressed(incidents, priors)[b].resolved_at = incidents[b].resolved_at
         /\ MarkRegressed(incidents, priors)[b].regressed =
              IF b \in priors THEN "yes" ELSE incidents[b].regressed
<1>1. incidents[b] \in Incident
  OBVIOUS
<1> QED
  BY <1>1 DEF MarkRegressed, Incident

(* Settling keeps status and dates; what it settles is a recovery nothing  *)
(* was known of, whose window is over.                                     *)
LEMMA SettlingKeeps ==
  ASSUME NEW incidents \in [Alerts -> Incident], NEW now, NEW b \in Alerts
  PROVE  /\ Settled(incidents, now)[b].status = incidents[b].status
         /\ Settled(incidents, now)[b].created = incidents[b].created
         /\ Settled(incidents, now)[b].resolved_at = incidents[b].resolved_at
         /\ \/ Settled(incidents, now)[b].regressed = incidents[b].regressed
            \/ /\ incidents[b].regressed = "unknown"
               /\ Settled(incidents, now)[b].regressed = "no"
               /\ now - incidents[b].resolved_at >= RegressionWindow
<1>1. incidents[b] \in Incident
  OBVIOUS
<1> QED
  BY <1>1 DEF Settled, Incident

(* What a new incident does to the others: it marks every recovery whose   *)
(* window it falls into, or its update was cut short and it is missed.     *)
LEMMA CreateJudges ==
  ASSUME TypeOK, NEW a \in Alerts, Creates(a)
  PROVE  /\ incident'[a].status = "open" /\ incident'[a].created = clock
         /\ incident'[a].resolved_at = 0 /\ incident'[a].regressed = "unknown"
         /\ missed' \in {missed, missed \cup {a}}
         /\ \A b \in Alerts \ {a} :
              /\ incident'[b].status = incident[b].status
              /\ incident'[b].created = incident[b].created
              /\ incident'[b].resolved_at = incident[b].resolved_at
              /\ \/ incident'[b].regressed \in {incident[b].regressed, "yes"}
                 \/ /\ incident[b].regressed = "unknown" /\ incident'[b].regressed = "no"
                    /\ clock - incident[b].resolved_at >= RegressionWindow
              /\ \/ a \in missed'
                 \/ /\ incident[b].status = "verified_recovered"
                    /\ clock - incident[b].resolved_at <= RegressionWindow
                    => incident'[b].regressed = "yes"
<1> DEFINE created == Created(a)
           refired == Refired(created, clock)
<1>1. created \in [Alerts -> Incident]
  BY CreatedTypes
<1>2. /\ created[a].status = "open" /\ created[a].regressed = "unknown"
      /\ created[a].created = clock /\ created[a].resolved_at = 0
      /\ \A b \in Alerts \ {a} : created[b] = incident[b]
  BY CreatedTypes
<1>3. /\ missed' \in {missed, missed \cup {a}}
      /\ \E some \in SUBSET refired :
           /\ \/ incident' = Settled(MarkRegressed(created, some), clock)
              \/ incident' = MarkRegressed(created, some)
              \/ \E part : incident' = SettledPart(MarkRegressed(created, some), clock, part)
           /\ some = refired \/ a \in missed'
  BY DEF Creates, UpdateRegressions, UpdateCutShort
<1> HIDE DEF created
<1>4. PICK some \in SUBSET refired :
           /\ \/ incident' = Settled(MarkRegressed(created, some), clock)
              \/ incident' = MarkRegressed(created, some)
              \/ \E part : incident' = SettledPart(MarkRegressed(created, some), clock, part)
           /\ some = refired \/ a \in missed'
  BY <1>3
<1> DEFINE marked == MarkRegressed(created, some)
<1>5. marked \in [Alerts -> Incident]
  BY <1>1, RegressionTypes
<1>6. \A b \in Alerts :
        /\ marked[b].status = created[b].status
        /\ marked[b].created = created[b].created
        /\ marked[b].resolved_at = created[b].resolved_at
        /\ marked[b].regressed = IF b \in some THEN "yes" ELSE created[b].regressed
  BY <1>1, MarkingKeeps
<1> HIDE DEF marked
<1>7. \A b \in Alerts :
        /\ Settled(marked, clock)[b].status = marked[b].status
        /\ Settled(marked, clock)[b].created = marked[b].created
        /\ Settled(marked, clock)[b].resolved_at = marked[b].resolved_at
        /\ \/ Settled(marked, clock)[b].regressed = marked[b].regressed
           \/ /\ marked[b].regressed = "unknown"
              /\ Settled(marked, clock)[b].regressed = "no"
              /\ clock - marked[b].resolved_at >= RegressionWindow
  BY <1>5, SettlingKeeps
<1>8. \A b \in Alerts : incident'[b] = Settled(marked, clock)[b] \/ incident'[b] = marked[b]
  <2>1. \/ incident' = Settled(marked, clock)
        \/ incident' = marked
        \/ \E part : incident' = SettledPart(marked, clock, part)
    BY <1>4 DEF marked
  <2> QED
    BY <2>1 DEF SettledPart
<1>9. a \notin some
  BY <1>2, <1>4 DEF Refired
<1>10. \A b \in Alerts : /\ incident'[b].status = created[b].status
                         /\ incident'[b].created = created[b].created
                         /\ incident'[b].resolved_at = created[b].resolved_at
  BY <1>6, <1>7, <1>8
<1>11. \A b \in Alerts : \/ incident'[b].regressed = IF b \in some THEN "yes" ELSE created[b].regressed
                         \/ /\ b \notin some /\ created[b].regressed = "unknown"
                            /\ incident'[b].regressed = "no"
                            /\ clock - created[b].resolved_at >= RegressionWindow
  BY <1>6, <1>7, <1>8
<1>12. incident'[a].regressed = "unknown"
  BY CreateValues
<1>13. \A b \in Alerts \ {a} :
         \/ a \in missed'
         \/ /\ incident[b].status = "verified_recovered"
            /\ clock - incident[b].resolved_at <= RegressionWindow
            => incident'[b].regressed = "yes"
  <2> SUFFICES ASSUME NEW b \in Alerts \ {a}, a \notin missed',
                      incident[b].status = "verified_recovered",
                      clock - incident[b].resolved_at <= RegressionWindow
               PROVE  incident'[b].regressed = "yes"
    OBVIOUS
  <2>1. b \in refired \/ incident[b].regressed = "yes"
    BY <1>2 DEF Refired
  <2>2. b \in some \/ incident[b].regressed = "yes"
    BY <1>4, <2>1
  <2> QED
    BY <1>2, <1>11, <2>2
<1>14. \A b \in Alerts \ {a} :
         \/ incident'[b].regressed \in {incident[b].regressed, "yes"}
         \/ /\ incident[b].regressed = "unknown" /\ incident'[b].regressed = "no"
            /\ clock - incident[b].resolved_at >= RegressionWindow
  BY <1>2, <1>11
<1> QED
  BY <1>2, <1>3, <1>10, <1>12, <1>13, <1>14

(* A save of an incident that had not recovered, dated now or not at all.  *)
LEMMA SaveKeepsHeld ==
  ASSUME TypeOK, HeldInv, NEW a \in Alerts, NEW status, NEW t \in {0, clock},
         SaveIncident(a, status, t), status \notin {"absent"},
         status = "verified_recovered" => t = clock,
         UNCHANGED <<clock, missed>>
  PROVE  HeldInv'
<1>0. /\ incident \in [Alerts -> Incident] /\ clock \in Nat
      /\ \A b \in Alerts : incident[b].created \in Nat /\ incident[b].resolved_at \in Nat
  BY DedupAssumption DEF TypeOK, Times, Incident
<1>1. /\ incident'[a].status = status /\ incident'[a].created = incident[a].created
      /\ incident'[a].resolved_at = t /\ incident'[a].regressed = "unknown"
      /\ \A b \in Alerts \ {a} : incident'[b] = incident[b]
  <2>1. incident[a] \in Incident
    BY <1>0
  <2> QED
    BY <1>0, <2>1 DEF SaveIncident, Incident
<1>2. DatesArePast'
  BY <1>0, <1>1 DEF HeldInv, DatesArePast
<1>3. UnmarkedIsUnfired'
  <2>1. ASSUME NEW p \in Alerts \ {a} PROVE RefiredIncident(p)' \subseteq RefiredIncident(p)
    <3> SUFFICES ASSUME NEW b \in Alerts \ {p}, incident'[b].status # "absent",
                        incident'[b].created > incident[p].resolved_at,
                        incident'[b].created <= incident[p].resolved_at + RegressionWindow
                 PROVE  b \in RefiredIncident(p)
      BY <1>1 DEF RefiredIncident
    <3>1. incident'[b].created = incident[b].created
      BY <1>1
    <3>2. incident[b].status # "absent"
      BY <1>0, <3>1 DEF HeldInv, DatesArePast
    <3> QED
      BY <3>1, <3>2 DEF RefiredIncident
  <2>2. status = "verified_recovered" => RefiredIncident(a)' = {}
    BY <1>0, <1>1 DEF RefiredIncident, HeldInv, DatesArePast
  <2> QED
    BY <1>1, <2>1, <2>2 DEF HeldInv, UnmarkedIsUnfired
<1>4. StableIsOver'
  BY <1>1 DEF HeldInv, StableIsOver
<1> QED
  BY <1>2, <1>3, <1>4 DEF HeldInv

(* Every step keeps HeldInv.                                               *)
LEMMA HeldStep == TypeOK /\ MemoryInv /\ HeldInv /\ [Next]_vars => HeldInv'
<1> SUFFICES ASSUME TypeOK, MemoryInv, HeldInv, [Next]_vars PROVE HeldInv'
  OBVIOUS
<1>0. /\ clock \in Nat /\ RegressionWindow \in Nat
      /\ \A b \in Alerts : incident[b].created \in Nat /\ incident[b].resolved_at \in Nat
  BY DedupAssumption DEF TypeOK, Times, Incident
<1>1. CASE incident' = incident /\ missed' = missed /\ clock' \in {clock, clock + 1}
  <2>1. \A p \in Alerts : RefiredIncident(p)' = RefiredIncident(p)
    BY <1>1 DEF RefiredIncident
  <2>2. UnmarkedIsUnfired'
    BY <1>1, <2>1 DEF HeldInv, UnmarkedIsUnfired
  <2>3. DatesArePast'
    BY <1>0, <1>1 DEF HeldInv, DatesArePast
  <2>4. StableIsOver'
    BY <1>0, <1>1 DEF HeldInv, StableIsOver
  <2> QED
    BY <2>2, <2>3, <2>4 DEF HeldInv
<1>2. ASSUME NEW a \in Alerts, CreateIncident(a) \/ CrashWhileCreating(a) PROVE HeldInv'
  <2>1. clock' = clock /\ Creates(a)
    BY <1>2, CreationSteps
  <2>2. DatesArePast'
    BY <1>0, <2>1, CreateJudges DEF HeldInv, DatesArePast
  <2>3. StableIsOver'
    BY <1>0, <2>1, CreateJudges DEF HeldInv, StableIsOver
  <2>4. ASSUME NEW p \in Alerts, incident'[p].status = "verified_recovered", incident'[p].regressed # "yes",
               NEW b \in RefiredIncident(p)'
        PROVE  b \in missed'
    <3>1. p # a
      BY <2>1, <2>4, CreateJudges
    <3>2. /\ incident[p].status = "verified_recovered" /\ incident[p].regressed # "yes"
          /\ incident'[p].resolved_at = incident[p].resolved_at
          /\ missed \subseteq missed'
      BY <2>1, <2>4, <3>1, CreateJudges
    <3>3. b \in Alerts /\ b # p /\ incident'[b].status # "absent"
          /\ incident'[b].created > incident[p].resolved_at
          /\ incident'[b].created <= incident[p].resolved_at + RegressionWindow
      BY <2>4, <3>2 DEF RefiredIncident
    <3>4. CASE b = a
      <4>1. clock - incident[p].resolved_at <= RegressionWindow
        BY <1>0, <2>1, <3>3, <3>4, CreateJudges
      <4> QED
        BY <2>1, <2>4, <3>1, <3>2, <3>4, <4>1, CreateJudges
    <3>5. CASE b # a
      <4>1. b \in RefiredIncident(p)
        BY <2>1, <3>3, <3>5, CreateJudges DEF RefiredIncident
      <4> QED
        BY <3>2, <4>1 DEF HeldInv, UnmarkedIsUnfired
    <3> QED
      BY <3>4, <3>5
  <2>5. UnmarkedIsUnfired'
    BY <2>4 DEF UnmarkedIsUnfired
  <2> QED
    BY <2>2, <2>3, <2>5 DEF HeldInv
<1>3. ASSUME NEW a \in Alerts, Handle(a) \/ ApprovalNext(a) PROVE HeldInv'
  <2>1. PICK status, t :
          /\ SaveIncident(a, status, t)
          /\ t \in {0, clock} /\ status # "absent" /\ (status = "verified_recovered" => t = clock)
    <3>1. CASE Handle(a)
      BY <3>1 DEF Handle, Results, Result, NoResult
    <3>2. CASE ApprovalNext(a)
      BY <3>2 DEF ApprovalNext, Approve, ApprovedActionFails, ApprovedActionRecovers
    <3> QED
      BY <1>3, <3>1, <3>2
  <2>2. UNCHANGED <<clock, missed>>
    BY <1>3 DEF Handle, ApprovalNext, Approve, ApprovedActionFails, ApprovedActionRecovers, ApprovalGoes
  <2> QED
    BY <2>1, <2>2, SaveKeepsHeld
<1>4. CASE SettleElsewhere
  <2>1. PICK some : incident' = SettledPart(incident, clock, some)
    BY <1>4 DEF SettleElsewhere
  <2>2. \A b \in Alerts : incident'[b] = Settled(incident, clock)[b] \/ incident'[b] = incident[b]
    BY <2>1 DEF SettledPart
  <2>3. incident \in [Alerts -> Incident]
    BY DEF TypeOK
  <2>4. \A b \in Alerts :
          /\ incident'[b].status = incident[b].status
          /\ incident'[b].created = incident[b].created
          /\ incident'[b].resolved_at = incident[b].resolved_at
          /\ \/ incident'[b].regressed = incident[b].regressed
             \/ /\ incident[b].regressed = "unknown" /\ incident'[b].regressed = "no"
                /\ clock - incident[b].resolved_at >= RegressionWindow
    BY <2>2, <2>3, SettlingKeeps
  <2>5. UNCHANGED <<clock, missed>>
    BY <1>4 DEF SettleElsewhere
  <2>6. \A p \in Alerts : RefiredIncident(p)' = RefiredIncident(p)
    BY <2>4 DEF RefiredIncident
  <2>7. UnmarkedIsUnfired'
    BY <2>4, <2>5, <2>6 DEF HeldInv, UnmarkedIsUnfired
  <2>8. DatesArePast'
    BY <2>4, <2>5 DEF HeldInv, DatesArePast
  <2>9. StableIsOver'
    BY <1>0, <2>4, <2>5 DEF HeldInv, StableIsOver
  <2> QED
    BY <2>7, <2>8, <2>9 DEF HeldInv
<1>5. ASSUME NEW a \in Alerts, Accept(a) \/ PipelineNext(a)
      PROVE  (incident' = incident /\ missed' = missed /\ clock' = clock) \/ CreateIncident(a) \/ Handle(a)
  BY <1>5 DEF PipelineNext, Accept, Decide, Log, OpenEpisode, CloseEpisode, PipelineRaises
<1>6. CrashRestart => UNCHANGED <<incident, missed, clock>>
  BY DEF CrashRestart, Restart
<1> QED
  BY <1>1, <1>2, <1>3, <1>4, <1>5, <1>6 DEF Next, vars, Tick

(* However incidents, recoveries, approvals, crashes and failing updates   *)
(* interleave: a fix is called stable only when its window is over, and    *)
(* whatever re-fired in the window is an incident whose regression update  *)
(* raised or fell to a crash.                                              *)
THEOREM SettledHeldAlways == Spec => []SettledHeld
<1>1. Init => HeldInv
  BY DEF Init, HeldInv, DatesArePast, UnmarkedIsUnfired, StableIsOver, NoIncident
<1>2. TypeOK /\ MemoryInv /\ HeldInv /\ [Next]_vars => HeldInv'
  BY HeldStep
<1>3. MemoryInv /\ HeldInv => SettledHeld
  BY DEF MemoryInv, JudgedIsRecovered, HeldInv, UnmarkedIsUnfired, StableIsOver, SettledHeld
<1> QED
  BY <1>1, <1>2, <1>3, DedupTypeCorrect, MemoryInvHolds, PTL DEF Spec

-----------------------------------------------------------------------------
(* While the memory answers, a suppressed alert has somebody to handle it. *)

\* Until somebody decides an approval, the incident has the status the
\* pipeline gave it.
ResultIsSaved ==
  \A p \in Alerts : task[p].at \in Concluded /\ approval[p] = "none" =>
    incident[p].status = task[p].result.status

\* No call failed: every call goes to Postgres, which has an open episode
\* only while its pipeline is under way or died, and an escalated one only
\* for a pipeline that ended without a recovery.
NothingDegraded ==
  faults = 0 => ~degraded /\ \A a \in Alerts : task[a].backend = "postgres"

EpisodesAreTimely ==
  faults = 0 => \A p \in Alerts :
    /\ database[p].status = "open" =>
         task[p].at \in {"open_log", "replay_log", "handling", "close_log", "closing", "failed", "lost"}
    /\ database[p].status = "escalated" =>
         task[p].at = "done" /\ task[p].result.status # "verified_recovered"

HandlerInv == ResultIsSaved /\ NothingDegraded /\ EpisodesAreTimely

(* Where no call failed, a call is answered by Postgres.                   *)
LEMMA CallIsAnswered ==
  ASSUME TypeOK, HandlerInv, NEW a \in Alerts, NEW result, CallEnds(a, result), faults' = 0
  PROVE  result = "answered" /\ faults = 0 /\ ~degraded'
<1>1. faults \in Nat
  BY DedupAssumption DEF TypeOK
<1>2. result \notin {"refused", "unanswered"} /\ faults = 0
  BY <1>1 DEF CallEnds
<1>3. task[a].backend = "postgres" /\ ~degraded
  BY <1>2 DEF HandlerInv, NothingDegraded
<1> QED
  BY <1>2, <1>3 DEF CallEnds, CallResults

(* A pipeline's next await, as far as its episode goes.                    *)
LEMMA GoesOn ==
  ASSUME TypeOK, NEW a \in Alerts, NEW stage, GoesTo(a, stage)
  PROVE  /\ task'[a].at = stage /\ task'[a].result = task[a].result
         /\ ~degraded' => task'[a].backend = "postgres"
         /\ \A b \in Alerts \ {a} : task'[b] = task[b]
<1>1. task[a] \in Task
  BY DEF TypeOK
<1>2. PICK backend : /\ task' = [task EXCEPT ![a] = [@ EXCEPT !.at = stage, !.backend = backend]]
                     /\ ~degraded' => backend = "postgres"
  BY DEF GoesTo, Backend
<1> QED
  BY <1>1, <1>2 DEF TypeOK, Task

(* A pipeline keeps the invariant: it opens its episode before it handles  *)
(* the incident and closes it with the result it saved.                    *)
LEMMA PipelineHandler ==
  ASSUME TypeOK, MemoryInv, HandlerInv, NEW a \in Alerts, Accept(a) \/ PipelineNext(a)
  PROVE  HandlerInv'
<1>0. /\ \A b \in Alerts : task[b] \in Task
      /\ task \in [Alerts -> Task]
      /\ database \in [Alerts -> Episode] /\ faults \in Nat
  BY DedupAssumption DEF TypeOK
<1>1. approval' = approval /\ faults' \in Nat /\ (faults' = 0 => faults = 0)
  <2>1. approval' = approval
    BY DEF PipelineNext, Accept, Decide, Log, OpenEpisode, CreateIncident, Handle, CloseEpisode, PipelineRaises
  <2>2. faults' \in {faults, faults + 1}
    BY DEF PipelineNext, Accept, Decide, Log, OpenEpisode, CreateIncident, Handle, CloseEpisode, PipelineRaises,
           CallEnds
  <2> QED
    BY <1>0, <2>1, <2>2
<1>2. \A b \in Alerts \ {a} : task'[b] = task[b]
  BY <1>0, TaskSteps DEF Accept
<1>3. \A b \in Alerts \ {a} : database'[b] = database[b]
  BY <1>0 DEF PipelineNext, Accept, Decide, Log, OpenEpisode, CreateIncident, Handle, CloseEpisode, PipelineRaises,
         WriteEpisode
<1>4. \A b \in Alerts \ {a} : incident'[b].status = incident[b].status
  <2>1. CASE CreateIncident(a)
    BY <2>1, CreationSteps, CreateJudges
  <2>2. CASE Handle(a)
    BY <2>2, SaveValues DEF Handle
  <2>3. CASE incident' = incident
    BY <2>3
  <2> QED
    BY <2>1, <2>2, <2>3 DEF PipelineNext, Accept, Decide, Log, OpenEpisode, CloseEpisode, PipelineRaises
<1>5. SUFFICES
        /\ task'[a].at \in Concluded /\ approval[a] = "none" => incident'[a].status = task'[a].result.status
        /\ faults' = 0 =>
             /\ ~degraded' /\ task'[a].backend = "postgres"
             /\ database'[a].status = "open" =>
                  task'[a].at \in {"open_log", "replay_log", "handling", "close_log", "closing", "failed", "lost"}
             /\ database'[a].status = "escalated" =>
                  task'[a].at = "done" /\ task'[a].result.status # "verified_recovered"
  BY <1>1, <1>2, <1>3, <1>4 DEF HandlerInv, ResultIsSaved, NothingDegraded, EpisodesAreTimely
<1>6. /\ task[a].at \in Concluded /\ approval[a] = "none" => incident[a].status = task[a].result.status
      /\ faults = 0 =>
           /\ ~degraded /\ task[a].backend = "postgres"
           /\ database[a].status = "open" =>
                task[a].at \in {"open_log", "replay_log", "handling", "close_log", "closing", "failed", "lost"}
           /\ database[a].status = "escalated" =>
                task[a].at = "done" /\ task[a].result.status # "verified_recovered"
  BY DEF HandlerInv, ResultIsSaved, NothingDegraded, EpisodesAreTimely
<1>7. CASE Accept(a)
  BY <1>0, <1>6, <1>7 DEF Accept, Task, Concluded, Backend
<1>8. CASE Decide(a)
  <2>1. PICK result : CallEnds(a, result)
    BY <1>8 DEF Decide
  <2>2. PICK stage \in {"suppress_log", "opening"}, prior \in Alerts \cup {NoAlert},
             replay \in BOOLEAN, opened \in Times : Decided(a, stage, prior, replay, opened)
    <3>1. task[a].opened \in Times /\ clock \in Times
      BY <1>0 DEF TypeOK, Task
    <3> QED
      BY <1>8, <3>1, LatestTypes DEF Decide
  <2>3. /\ task'[a].at = stage /\ task'[a].result = task[a].result
        /\ ~degraded' => task'[a].backend = "postgres"
    BY <1>0, <2>2 DEF Decided, Task, Backend
  <2>4. database' = database /\ task[a].at = "looking"
    BY <1>8 DEF Decide
  <2> QED
    BY <1>1, <1>6, <2>1, <2>3, <2>4, CallIsAnswered DEF Concluded
<1>9. CASE Log(a)
  <2>1. PICK result : CallEnds(a, result)
    BY <1>9 DEF Log
  <2>2. /\ GoesTo(a, AfterLog[task[a].at])
        /\ <<task[a].at, AfterLog[task[a].at]>> \in
             {<<"suppress_log", "suppressed">>, <<"replay_log", "handling">>, <<"close_log", "closing">>}
        /\ database' = database /\ incident' = incident
    BY <1>9 DEF Log, AfterLog
  <2>3. \/ task[a].at = "suppress_log" /\ task'[a].at = "suppressed"
        \/ task[a].at = "replay_log" /\ task'[a].at = "handling"
        \/ task[a].at = "close_log" /\ task'[a].at = "closing"
    BY <2>2, GoesOn
  <2>4. task'[a].result = task[a].result /\ (~degraded' => task'[a].backend = "postgres")
    BY <2>2, GoesOn
  <2> QED
    BY <1>1, <1>6, <2>1, <2>2, <2>3, <2>4, CallIsAnswered DEF Concluded
<1>10. CASE OpenEpisode(a)
  <2>1. PICK result :
          /\ CallEnds(a, result)
          /\ WriteEpisode(a, result, [NoEpisode EXCEPT !.status = "open", !.created = task[a].opened])
    BY <1>10 DEF OpenEpisode
  <2>2. task'[a].at = "open_log" /\ (~degraded' => task'[a].backend = "postgres")
    BY <1>10, GoesOn DEF OpenEpisode
  <2>3. faults' = 0 => database'[a].status = "open"
    BY <1>0, <2>1, CallIsAnswered DEF WriteEpisode, NoEpisode
  <2> QED
    BY <1>1, <2>1, <2>2, <2>3, CallIsAnswered DEF Concluded
<1>11. CASE CreateIncident(a)
  <2>1. PICK result : CallEnds(a, result)
    BY <1>11 DEF CreateIncident
  <2>2. PICK stage \in {"replay_log", "handling"} : GoesTo(a, stage)
    BY <1>11 DEF CreateIncident
  <2>3. task'[a].at = stage /\ (~degraded' => task'[a].backend = "postgres")
    BY <2>2, GoesOn
  <2>4. database' = database /\ task[a].at = "open_log"
    BY <1>11 DEF CreateIncident
  <2> QED
    BY <1>1, <1>6, <2>1, <2>3, <2>4, CallIsAnswered DEF Concluded
<1>12. CASE Handle(a)
  <2>1. PICK result \in Results(a) :
          /\ \E t : SaveIncident(a, result.status, t)
          /\ task' = [task EXCEPT ![a] = [@ EXCEPT !.at = "close_log", !.result = result,
                                                   !.backend = Backend(degraded)]]
    BY <1>12 DEF Handle
  <2>2. /\ task'[a].at = "close_log" /\ task'[a].result = result
        /\ ~degraded => task'[a].backend = "postgres"
    BY <1>0, <2>1 DEF Task, Backend
  <2>3. incident'[a].status = result.status
    BY <2>1, SaveValues
  <2>4. UNCHANGED <<database, degraded, faults>> /\ task[a].at = "handling"
    BY <1>12 DEF Handle
  <2> QED
    BY <1>6, <2>2, <2>3, <2>4
<1>13. CASE CloseEpisode(a)
  <2>1. PICK result :
          CallEnds(a, result) /\ WriteEpisode(a, result, ClosedEpisode(a, task[a].result))
    BY <1>13 DEF CloseEpisode
  <2>2. /\ task'[a].at = "done" /\ task'[a].result = task[a].result
        /\ ~degraded' => task'[a].backend = "postgres"
    BY <1>13, GoesOn DEF CloseEpisode
  <2>3. faults' = 0 => database'[a] = ClosedEpisode(a, task[a].result)
    BY <1>0, <2>1, CallIsAnswered DEF WriteEpisode
  <2>4. /\ ClosedEpisode(a, task[a].result).status # "open"
        /\ ClosedEpisode(a, task[a].result).status = "escalated" =>
             IsCritical(a) \/ ~task[a].result.executed
    BY DEF ClosedEpisode
  <2>5. IsCritical(a) \/ ~task[a].result.executed => task[a].result.status # "verified_recovered"
    BY DEF MemoryInv, RecoveryIsSaved, RecoveredResult
  <2>6. incident' = incident /\ task[a].at = "closing"
    BY <1>13 DEF CloseEpisode
  <2> QED
    BY <1>1, <1>6, <2>1, <2>2, <2>3, <2>4, <2>5, <2>6, CallIsAnswered DEF Concluded
<1>14. CASE PipelineRaises(a)
  <2>1. task' = [task EXCEPT ![a].at = "failed"]
        /\ UNCHANGED <<database, incident, degraded, faults>> /\ task[a].at \in {"open_log", "handling"}
    BY <1>14 DEF PipelineRaises
  <2>2. task'[a].at = "failed" /\ task'[a].backend = task[a].backend
    BY <1>0, <2>1 DEF Task
  <2> QED
    BY <1>6, <2>1, <2>2 DEF Concluded
<1> QED
  BY <1>7, <1>8, <1>9, <1>10, <1>11, <1>12, <1>13, <1>14 DEF PipelineNext

(* Every step keeps HandlerInv.                                            *)
LEMMA HandlerStep == TypeOK /\ MemoryInv /\ HandlerInv /\ [Next]_vars => HandlerInv'
<1> SUFFICES ASSUME TypeOK, MemoryInv, HandlerInv, [Next]_vars PROVE HandlerInv'
  OBVIOUS
<1>0. \A b \in Alerts : task[b] \in Task /\ approval \in [Alerts -> ApprovalStages]
  BY DEF TypeOK
<1>1. ASSUME UNCHANGED <<task, database, degraded, faults>>,
             \A b \in Alerts : approval'[b] = "none" =>
               approval[b] = "none" /\ incident'[b].status = incident[b].status
      PROVE  HandlerInv'
  BY <1>1 DEF HandlerInv, ResultIsSaved, NothingDegraded, EpisodesAreTimely
<1>2. CASE UNCHANGED vars \/ Tick
  BY <1>1, <1>2 DEF vars, Tick
<1>3. CASE SettleElsewhere
  BY <1>1, <1>3, SettleValues DEF SettleElsewhere
<1>4. ASSUME NEW a \in Alerts, ApprovalNext(a) PROVE HandlerInv'
  <2>1. /\ \E status, t : SaveIncident(a, status, t)
        /\ \E to \in ApprovalStages \ {"none"} : approval' = [approval EXCEPT ![a] = to]
        /\ UNCHANGED <<task, database, degraded, faults>>
    BY <1>4 DEF ApprovalNext, Approve, ApprovedActionFails, ApprovedActionRecovers, ApprovalGoes, ApprovalStages
  <2>2. \A b \in Alerts \ {a} : incident'[b] = incident[b] /\ approval'[b] = approval[b]
    BY <1>0, <2>1, SaveValues
  <2>3. approval'[a] # "none"
    BY <1>0, <2>1
  <2> QED
    BY <1>1, <2>1, <2>2, <2>3
<1>5. ASSUME Restart,
             \/ UNCHANGED incident
             \/ \E a \in Alerts : task[a].at = "open_log" /\ Creates(a)
      PROVE  HandlerInv'
  <2>1. \A b \in Alerts :
          /\ task'[b].at = IF task[b].at \in Ended \cup {"new"} THEN task[b].at ELSE "lost"
          /\ task'[b].result = task[b].result
          /\ task'[b].backend = task[b].backend
    BY <1>0, <1>5 DEF Restart, Task
  <2>2. /\ UNCHANGED <<database, faults>> /\ degraded' = FALSE
        /\ \A b \in Alerts : approval'[b] = "none" => approval[b] = "none"
    BY <1>5 DEF Restart
  <2>3. \A b \in Alerts : incident'[b].status = incident[b].status \/ task[b].at = "open_log"
    BY <1>5, CreateValues
  <2>4. ResultIsSaved'
    BY <2>1, <2>2, <2>3 DEF HandlerInv, ResultIsSaved, Concluded, Ended
  <2>5. NothingDegraded'
    BY <2>1, <2>2 DEF HandlerInv, NothingDegraded
  <2>6. EpisodesAreTimely'
    BY <2>1, <2>2 DEF HandlerInv, EpisodesAreTimely, Ended
  <2> QED
    BY <2>4, <2>5, <2>6 DEF HandlerInv
<1>6. CASE CrashRestart
  BY <1>5, <1>6 DEF CrashRestart
<1>7. CASE \E a \in Alerts : CrashWhileCreating(a)
  BY <1>5, <1>7, CreationSteps DEF CrashWhileCreating
<1> QED
  BY <1>2, <1>3, <1>4, <1>6, <1>7, PipelineHandler DEF Next

(* However the alerts and approvals interleave and the process restarts:   *)
(* while no call of the memory failed, an alert is suppressed only on      *)
(* account of an earlier one that is in the pipeline, was handed to people,*)
(* or left an orphaned episode behind.                                     *)
THEOREM SuppressionHasAHandlerAlways == Spec => SuppressionHasAHandler
<1> DEFINE Handled(a) ==
      LET p == task'[a].prior IN
      task[a].at = "looking" /\ task'[a].at = "suppress_log" /\ faults' = 0
         => InPipeline(p) \/ HandedOver(p) \/ Orphaned(p)
<1>1. TypeOK /\ HandlerInv /\ [Next]_vars => \A a \in Alerts : Handled(a)
  <2> SUFFICES ASSUME TypeOK, HandlerInv, [Next]_vars, NEW a \in Alerts,
                      task[a].at = "looking", task'[a].at = "suppress_log", faults' = 0
               PROVE  InPipeline(task'[a].prior) \/ HandedOver(task'[a].prior) \/ Orphaned(task'[a].prior)
    OBVIOUS
  <2>0. \A b \in Alerts : task[b] \in Task /\ task \in [Alerts -> Task]
    BY DEF TypeOK
  <2>1. Decide(a)
    <3>1. ASSUME NEW b \in Alerts, PipelineNext(b) PROVE b = a
      BY <3>1, TaskSteps
    <3>2. ASSUME NEW b \in Alerts PROVE ~Accept(b)
      BY <2>0 DEF Accept, Task
    <3>3. task'[a] # task[a]
      OBVIOUS
    <3>4. ASSUME NEW b \in Alerts PROVE ~ApprovalNext(b)
      BY <3>3 DEF ApprovalNext, Approve, ApprovedActionFails, ApprovedActionRecovers, ApprovalGoes
    <3>5. ~Tick /\ ~SettleElsewhere /\ ~UNCHANGED vars
      BY <3>3 DEF Tick, SettleElsewhere, vars
    <3>6. ~Restart
      BY <2>0 DEF Restart, Ended, Task
    <3>7. PICK b \in Alerts : PipelineNext(b)
      BY <3>2, <3>4, <3>5, <3>6 DEF Next, CrashRestart, CrashWhileCreating
    <3>8. PipelineNext(a)
      BY <3>1, <3>7
    <3>9. /\ ~(OpenEpisode(a) \/ CreateIncident(a) \/ Handle(a) \/ CloseEpisode(a) \/ PipelineRaises(a))
          /\ ~Log(a)
      BY DEF Log, AfterLog, OpenEpisode, CreateIncident, Handle, CloseEpisode, PipelineRaises
    <3> QED
      BY <3>8, <3>9 DEF PipelineNext
  <2>2. PICK prior \in Latest(database, a) :
          \/ Suppresses(database[prior]) /\ prior # NoAlert
             /\ Decided(a, "suppress_log", prior, FALSE, task[a].opened)
          \/ Decided(a, "opening", prior, prior # NoAlert /\ Replayable(database[prior]), clock)
    BY <2>1, CallIsAnswered DEF Decide
  <2>3. Suppresses(database[prior]) /\ prior # NoAlert /\ task'[a].prior = prior /\ faults = 0
    <3>1. faults = 0
      BY <2>1, CallIsAnswered DEF Decide
    <3>2. ASSUME NEW stage, NEW p, NEW replay, NEW opened, Decided(a, stage, p, replay, opened)
          PROVE  task'[a].at = stage /\ task'[a].prior = p
      BY <2>0, <3>2 DEF Decided, Task
    <3> QED
      BY <2>2, <3>1, <3>2
  <2>4. prior \in Alerts
    BY <2>2, <2>3 DEF Latest, Candidates
  <2>5. task[prior] \in Task
    BY <2>0, <2>4
  <2>6. CASE database[prior].status = "open"
    BY <2>3, <2>4, <2>6 DEF HandlerInv, EpisodesAreTimely, InPipeline, Orphaned, Ended
  <2>7. CASE database[prior].status = "escalated"
    <3>1. task[prior].at = "done" /\ task[prior].result.status \in {"escalated", "awaiting_approval"}
      BY <2>3, <2>4, <2>5, <2>7 DEF HandlerInv, EpisodesAreTimely, Task, Result
    <3>2. approval[prior] = "none" => HandedOver(prior)
      BY <2>4, <3>1 DEF HandlerInv, ResultIsSaved, Concluded, HandedOver
    <3> QED
      BY <2>3, <3>2 DEF Orphaned
  <2> QED
    BY <2>3, <2>6, <2>7 DEF Suppresses
<1>2. Init => HandlerInv
  BY DEF Init, HandlerInv, ResultIsSaved, NothingDegraded, EpisodesAreTimely, NoEpisode, Concluded
<1>3. TypeOK /\ MemoryInv /\ HandlerInv /\ [Next]_vars => HandlerInv'
  BY HandlerStep
<1>4. TypeOK /\ HandlerInv /\ [Next]_vars => [\A a \in Alerts : Handled(a)]_vars
  BY <1>1
<1> QED
  BY <1>2, <1>3, <1>4, DedupTypeCorrect, MemoryInvHolds, PTL DEF Spec, SuppressionHasAHandler

-----------------------------------------------------------------------------
(* What answering an alert takes besides fair scheduling.                  *)

\* The steps a pipeline has before it at most, by its place.
StepsLeft ==
  [new |-> 8, looking |-> 7, opening |-> 6, open_log |-> 5, replay_log |-> 4, handling |-> 3,
   close_log |-> 2, closing |-> 1, suppress_log |-> 1,
   suppressed |-> 0, done |-> 0, failed |-> 0, lost |-> 0]

\* No step of the program gives a pipeline more to do, and a step of one
\* leaves it less.
PipelinesAdvance ==
  \A a \in Alerts :
    /\ StepsLeft[task'[a].at] <= StepsLeft[task[a].at]
    /\ PipelineNext(a) => StepsLeft[task'[a].at] < StepsLeft[task[a].at]

(* The steps left are a number.                                            *)
LEMMA StepsLeftType == \A stage \in Stages : StepsLeft[stage] \in 0..8
BY DEF StepsLeft, Stages, MemoryStages, Ended

(* Where a step takes a pipeline, it has less to do, also where the memory *)
(* fails the call and the in-process backend repeats it.                   *)
LEMMA PipelineStepCounts ==
  ASSUME TypeOK, NEW a \in Alerts, Accept(a) \/ PipelineNext(a)
  PROVE  StepsLeft[task'[a].at] < StepsLeft[task[a].at]
<1>0. task \in [Alerts -> Task] /\ task[a] \in Task
  BY DEF TypeOK
<1>1. CASE Accept(a)
  <2>1. task[a].at = "new" /\ task'[a].at = "looking"
    BY <1>0, <1>1 DEF Accept, Task
  <2> QED
    BY <2>1 DEF StepsLeft
<1>2. CASE Decide(a)
  <2>1. PICK stage \in {"suppress_log", "opening"}, prior \in Alerts \cup {NoAlert},
             replay \in BOOLEAN, opened \in Times : Decided(a, stage, prior, replay, opened)
    <3>1. task[a].opened \in Times /\ clock \in Times
      BY <1>0 DEF TypeOK, Task
    <3> QED
      BY <1>2, <3>1, LatestTypes DEF Decide
  <2>2. task[a].at = "looking" /\ task'[a].at = stage
    BY <1>0, <1>2, <2>1 DEF Decide, Decided, Task
  <2> QED
    BY <2>2 DEF StepsLeft
<1>3. CASE Log(a)
  <2>1. task[a].at \in DOMAIN AfterLog /\ task'[a].at = AfterLog[task[a].at]
    BY <1>3, GoesValues DEF Log
  <2> QED
    BY <2>1 DEF AfterLog, StepsLeft
<1>4. CASE OpenEpisode(a) \/ CreateIncident(a) \/ CloseEpisode(a)
  <2>1. \/ task[a].at = "opening" /\ task'[a].at = "open_log"
        \/ task[a].at = "open_log" /\ task'[a].at \in {"replay_log", "handling"}
        \/ task[a].at = "closing" /\ task'[a].at = "done"
    BY <1>4, GoesValues DEF OpenEpisode, CreateIncident, CloseEpisode
  <2> QED
    BY <2>1 DEF StepsLeft
<1>5. CASE Handle(a)
  <2>1. PICK result, backend :
          task' = [task EXCEPT ![a] = [@ EXCEPT !.at = "close_log", !.result = result,
                                                !.backend = backend]]
    BY <1>5 DEF Handle
  <2>2. task[a].at = "handling" /\ task'[a].at = "close_log"
    BY <1>0, <1>5, <2>1 DEF Handle, Task
  <2> QED
    BY <2>2 DEF StepsLeft
<1>6. CASE PipelineRaises(a)
  <2>1. task[a].at \in {"open_log", "handling"} /\ task'[a].at = "failed"
    BY <1>0, <1>6 DEF PipelineRaises, Task
  <2> QED
    BY <2>1 DEF StepsLeft
<1> QED
  BY <1>1, <1>2, <1>3, <1>4, <1>5, <1>6 DEF PipelineNext

(* Acceptance moves only the task of the alert, as the later steps do.     *)
LEMMA OnlyOwnTask ==
  ASSUME TypeOK, NEW a \in Alerts, Accept(a) \/ PipelineNext(a)
  PROVE  LoopFreeFor(a) /\ \A b \in Alerts \ {a} : task'[b] = task[b]
<1>1. CASE Accept(a)
  BY <1>1 DEF Accept, TypeOK
<1>2. CASE PipelineNext(a)
  <2>1. LoopFreeFor(a)
    BY <1>2 DEF PipelineNext, Decide, Log, OpenEpisode, CreateIncident, Handle, CloseEpisode, PipelineRaises
  <2>2. \A b \in Alerts \ {a} : task'[b] = task[b]
    BY <1>2, TaskSteps, Zenon
  <2> QED
    BY <2>1, <2>2
<1> QED
  BY <1>1, <1>2

(* What the rest of the world does to a pipeline: a crash ends it.         *)
LEMMA WorldEndsTasks ==
  ASSUME TypeOK, [Next]_vars, \A a \in Alerts : ~Accept(a) /\ ~PipelineNext(a)
  PROVE  \/ task' = task
         \/ \A a \in Alerts : task'[a].at \in Ended \cup {"new"}
                              /\ (task'[a] = task[a] \/ task'[a].at = "lost")
<1>1. CASE Restart
  <2>1. task \in [Alerts -> Task]
    BY DEF TypeOK
  <2> QED
    BY <1>1, <2>1 DEF Restart, Task, Ended
<1>2. CASE task' = task
  BY <1>2
<1> QED
  BY <1>1, <1>2 DEF Next, vars, ApprovalNext, Approve, ApprovedActionFails, ApprovedActionRecovers,
     ApprovalGoes, Tick, SettleElsewhere, CrashRestart, CrashWhileCreating

(* Every pipeline only ever goes forward, through any failures of the      *)
(* memory and any interleaving with other alerts, approvals and crashes:   *)
(* each of its steps takes one from a count that nothing gives back, so    *)
(* none is repeated for ever (episodic_memory.py:7).                       *)
THEOREM PipelinesOnlyAdvance == Spec => [][PipelinesAdvance]_vars
<1>1. TypeOK /\ [Next]_vars => [PipelinesAdvance]_vars
  <2> SUFFICES ASSUME TypeOK, [Next]_vars PROVE PipelinesAdvance
    OBVIOUS
  <2>0. \A a \in Alerts : StepsLeft[task[a].at] \in 0..8
    BY StepsLeftType DEF TypeOK, Task
  <2>1. \A a \in Alerts : PipelineNext(a) => StepsLeft[task'[a].at] < StepsLeft[task[a].at]
    BY PipelineStepCounts
  <2>2. \A a \in Alerts : StepsLeft[task'[a].at] <= StepsLeft[task[a].at]
    <3>1. ASSUME NEW b \in Alerts, Accept(b) \/ PipelineNext(b)
          PROVE  \A a \in Alerts : StepsLeft[task'[a].at] <= StepsLeft[task[a].at]
      <4>1. \A a \in Alerts \ {b} : task'[a] = task[a]
        BY <3>1, OnlyOwnTask
      <4>2. StepsLeft[task'[b].at] < StepsLeft[task[b].at]
        BY <3>1, PipelineStepCounts
      <4>3. task' \in [Alerts -> Task]
        BY TypeNext DEF TypeOK
      <4>4. StepsLeft[task'[b].at] \in 0..8
        BY <4>3, StepsLeftType DEF Task
      <4> QED
        BY <2>0, <4>1, <4>2, <4>4
    <3>2. CASE \A a \in Alerts : ~Accept(a) /\ ~PipelineNext(a)
      <4>1. \A a \in Alerts : task'[a].at = task[a].at \/ task'[a].at = "lost"
        BY <3>2, WorldEndsTasks
      <4>2. StepsLeft["lost"] = 0
        BY DEF StepsLeft
      <4> QED
        BY <2>0, <4>1, <4>2
    <3> QED
      BY <3>1, <3>2
  <2> QED
    BY <2>1, <2>2 DEF PipelinesAdvance
<1> QED
  BY <1>1, DedupTypeCorrect, PTL DEF Spec

(* A memory with an episode in the window has a newest one.                *)
LEMMA LatestExists ==
  ASSUME TypeOK, NEW a \in Alerts, NEW episodes \in [Alerts -> Episode]
  PROVE  Latest(episodes, a) # {}
<1> DEFINE found == Candidates(episodes, a)
           ages == {n \in Nat : \E e \in found : MaxTime - episodes[e].created = n}
           R == {ss \in Nat \X Nat : ss[1] < ss[2]}
<1>1. CASE found = {}
  BY <1>1 DEF Latest
<1>2. CASE found # {}
  <2>1. \A e \in found : e \in Alerts /\ episodes[e].created \in Nat /\ MaxTime - episodes[e].created \in Nat
    BY DedupAssumption DEF Candidates, Episode, Times
  <2>2. ages # {} /\ ages \subseteq Nat
    BY <1>2, <2>1
  <2>3. IsWellFoundedOn(R, Nat)
    BY NatLessThanWellFounded DEF OpToRel
  <2>4. PICK n \in ages : \A m \in ages : ~(<<m, n>> \in R)
    <3> HIDE DEF R, ages
    <3> QED
      BY <2>2, <2>3, WFMin
  <2>5. \A m \in ages : ~(m < n)
    BY <2>2, <2>4
  <2>6. PICK e \in found : MaxTime - episodes[e].created = n
    BY <2>4
  <2>7. \A f \in found : episodes[f].created <= episodes[e].created
    <3> SUFFICES ASSUME NEW f \in found PROVE episodes[f].created <= episodes[e].created
      OBVIOUS
    <3>1. MaxTime - episodes[f].created \in ages
      BY <2>1
    <3>2. ~(MaxTime - episodes[f].created < MaxTime - episodes[e].created)
      BY <2>5, <2>6, <3>1
    <3> HIDE DEF found
    <3> QED
      BY <2>1, <3>2, DedupAssumption
  <2> QED
    BY <1>2, <2>6, <2>7 DEF Latest
<1> QED
  BY <1>1, <1>2

\* At most one pipeline holds the event loop.
OneAtATime == \A a, b \in Alerts : Synchronous(a) /\ Synchronous(b) => a = b

\* Nothing keeps the pipeline from its next step: the event loop is free for
\* it, its call has an answer, and the answer a newest episode or none.
CanGoOn(a) ==
  /\ LoopFreeFor(a)
  /\ \E result \in CallResults(a) \ {"unanswered"} :
       Latest(IF result = "answered" THEN database ELSE fallback, a) # {}

(* Who begins a call to the in-process backend had the loop to itself.     *)
LEMMA OneAtATimeStep == TypeOK /\ OneAtATime /\ [Next]_vars => OneAtATime'
<1> SUFFICES ASSUME TypeOK, OneAtATime, [Next]_vars PROVE OneAtATime'
  OBVIOUS
<1>1. ASSUME NEW a \in Alerts, Accept(a) \/ PipelineNext(a) PROVE OneAtATime'
  <2>1. \A b \in Alerts \ {a} : ~Synchronous(b) /\ task'[b] = task[b]
    BY <1>1, OnlyOwnTask DEF LoopFreeFor
  <2>2. \A b \in Alerts \ {a} : ~Synchronous(b)'
    BY <2>1 DEF Synchronous
  <2> QED
    BY <2>2 DEF OneAtATime
<1>2. CASE \A a \in Alerts : ~Accept(a) /\ ~PipelineNext(a)
  <2>1. CASE task' = task
    BY <2>1 DEF OneAtATime, Synchronous
  <2>2. CASE \A a \in Alerts : task'[a].at \in Ended \cup {"new"}
    BY <2>2 DEF OneAtATime, Synchronous, Ended, MemoryStages
  <2> QED
    BY <1>2, <2>1, <2>2, WorldEndsTasks
<1> QED
  BY <1>1, <1>2

(* The memory never blocks the handling of alerts: whichever backends      *)
(* failed and whichever calls are under way, as long as an accepted alert  *)
(* is not answered some pipeline can take its next step.  With             *)
(* PipelinesOnlyAdvance this is what AcceptedIsAnswered rests on besides   *)
(* fair scheduling.                                                        *)
THEOREM MemoryNeverBlocks ==
  Spec => [](\A a \in Alerts : InPipeline(a) => \E b \in Alerts : InPipeline(b) /\ CanGoOn(b))
<1>1. TypeOK /\ OneAtATime =>
        \A a \in Alerts : InPipeline(a) => \E b \in Alerts : InPipeline(b) /\ CanGoOn(b)
  <2> SUFFICES ASSUME TypeOK, OneAtATime, NEW a \in Alerts, InPipeline(a)
               PROVE  \E b \in Alerts : InPipeline(b) /\ CanGoOn(b)
    OBVIOUS
  <2>1. \A b \in Alerts : LoopFreeFor(b) => CanGoOn(b)
    <3>1. \A b \in Alerts : Latest(database, b) # {} /\ Latest(fallback, b) # {}
      BY LatestExists DEF TypeOK
    <3>2. \A b \in Alerts : \E result \in CallResults(b) : result \in {"answered", "fallback"}
      BY DEF CallResults
    <3> QED
      BY <3>1, <3>2 DEF CanGoOn
  <2>2. CASE LoopFreeFor(a)
    BY <2>1, <2>2
  <2>3. CASE ~LoopFreeFor(a)
    <3>1. PICK b \in Alerts : Synchronous(b)
      BY <2>3 DEF LoopFreeFor
    <3>2. LoopFreeFor(b)
      BY <3>1 DEF OneAtATime, LoopFreeFor
    <3>3. InPipeline(b)
      BY <3>1 DEF Synchronous, InPipeline, MemoryStages, Ended
    <3> QED
      BY <2>1, <3>2, <3>3
  <2> QED
    BY <2>2, <2>3
<1>2. Init => OneAtATime
  BY DEF Init, OneAtATime, Synchronous, MemoryStages
<1> QED
  BY <1>1, <1>2, OneAtATimeStep, DedupTypeCorrect, PTL DEF Spec

=============================================================================
