# Formal models of the autonomous anomaly response agent

TLA+ modules, model checking configurations and machine-checked proofs for the
incident response service of this repository: a Python/asyncio program that
turns alerts into incidents, has them diagnosed by LLM agents, decides with a
deterministic policy which remediation may run, waits for people where it must,
verifies the recovery and keeps a durable record of all of it.

## 1. Inventory

| Component | Source | State | Operations |
|---|---|---|---|
| Orchestrator pipeline | `orchestrator.py` | `active_incidents` (per process), resolved list, the local variables of each running `_process_anomaly` | dedupe, open the incident, diagnose, execute, save, close the episode, keep or drop the active entry |
| Action agent | `agents/action/agent.py` | none of its own; mutates the incident record it is given | `execute`, `_evaluate_and_execute_action`, `execute_approved_action` |
| Policy gate | `agents/action/policy.py` | `_auto_history` (per process) | `evaluate`, `record_auto_execution` |
| Workflow trigger | `agents/action/workflows.py` | the outside world | `trigger_workflow` |
| Recovery verifier | `agents/verification/verifier.py` | none | `verify` |
| Incident store | `shared/incident_store.py` | the durable record, the audit trail, the agent controls | `save` (whole record), `get`, `claim_pending_approval` (row lock), `list_active`, `update_agent_controls` |
| Endpoints | `api.py` | the orchestrator, ingestion and readiness globals | approve/reject, feedback, controls, connectors, readiness |
| Alert deduplication | `data_pipeline/flink_jobs/anomaly_features.py` | `seen_alerts` (per process) | `should_fire` |
| Episodic memory | `shared/episodic_memory.py` | episodes in Postgres, or in memory once degraded | `find_duplicate`, `open_episode`, `log`, `close` |
| Regression detector | `agents/feedback/regression.py` | `regressed` of recovered records | `on_new_incident`, `settle` |
| Live ingestion | `data_pipeline/connectors/ingestion.py` | a task per vendor, queue, stream detector, cooldowns, escalation tasks | `poll_once`, `_poll_vendor`, `_consume`, `observe`, `handle_record`, `_escalate`, `start`, `stop` |
| Connector configuration | `data_pipeline/connectors/connector_store.py`, `api.py` | the store's memory, its file, the shared settings, the running ingestion service | `set_selection`, `set_credentials`, `set_ingestion`, `apply`, activate and deactivate |
| Telemetry adapters | `data_pipeline/connectors/adapters/` | none worth naming | `query_signal`, `fetch_signals`, the composite's fan-out |
| Alert intake, monitoring agent | `api.py`, `agents/monitoring/agent.py`, `shared/utils.py` | the tokens spent on an event, what was begun per alert key | the Alertmanager webhook; `run_batch`, `process_event`, `analyze_event`, `LLMCostTracker.track` |
| Diagnosis graph, hypothesis grounding | `agents/diagnosis/graph.py`, `evidence.py`, `hypotheses.py` | the state of one diagnosis | collect, look up runbooks, dispatch, report, synthesise; `ground_hypotheses`, `cap_overall_confidence` |
| Diagnosis checkpointing | `agents/diagnosis/checkpointing.py` | the saver, its pool, the lock | `get`, `_open_postgres`, `close` |
| Retrieval and knowledge base | `knowledge_base/` | the documents table, the guard's scores | `ingest_document`, `score_documents`, `search`, rank fusion and reranking |
| Specialist evaluation | `evals/run_specialist_quality.py` | two result files and what the running process holds | the two phases, their saves and their reuse of results |
| Rest of the evaluation, dashboard, corpus tools, PagerDuty, LLM access | `evals/`, `dashboard/`, `knowledge_base/synthetic/`, `shared/` | | I/O, scoring, offline tools |

How they interact. An alert (webhook, live ingestion or heartbeat) becomes a
call of `process_anomaly` in one worker. The pipeline creates a record, puts a
reference to it into that worker's `active_incidents` and saves it at several
points; between the saves it mutates its in-memory copy. People call the approval
and feedback endpoints, on any worker: each handler takes the record from the
worker's active map or, failing that, from the store. `claim_pending_approval`
reads, changes and writes the durable record in one transaction and returns a
**new** copy, which replaces the map's entry. Every other write is `save(copy)`,
which overwrites the whole record. Within a worker everything that is not
separated by an `await` is atomic (one event loop); several workers share only
the store.

Around that core: the connector page rebuilds the ingestion service, whose
escalations and the webhook both end in `process_event` or `process_anomaly`; a diagnosis asks
the adapters and the knowledge base and is checkpointed; the ingestion and
scoring commands write the same table a search reads.

What is hard. Several in-memory copies of one durable record, each saved as a
whole; handlers that hold a copy across an `await` of up to minutes (LLM,
workflow, stabilization window, Postgres); claims by other workers in between;
crashes that drop tasks but not records; exceptions that leave the pipeline half
way; a gate that is asked twice, with different arguments. Before and after an
incident's life: five memories of one alert key, each written at another moment
(the dedup table, the episodes in Postgres, the in-process episodes after a
failed call, the durable incidents, the incident of an approval under way).

What makes each part correct:

- *Policy gate*: fails closed; controls can only restrict; production automation is opt-in.
- *Lifecycle*: a proposal is carried out at most once, and by a request only
  after that request's approval won the claim; a rejection is final; nothing is
  run for a critical incident; "recovered" stands for a real, successful,
  verified action; executions end up in the durable record; the incident does
  not stay in the program's hands; what waits can be decided; what is approved
  is carried out.
- *Deduplication and memory*: a burst opens one incident; an alert is suppressed
  only while somebody handles the event; a diagnosis is replayed only where it
  recovered; memory problems block nothing; a fix is called stable only if it
  held, and a regression stands; a failed fix is diagnosed again.
- *Ingestion*: a baseline takes one true value for a time and goes forward, it
  passes over nothing by a whole step of the query, outages of other vendors only
  delay the newest observation, every escalation is carried out.
- *Connectors*: no ingestion service runs that nothing can stop; what runs, what
  is saved and what is in the settings agree.
- *Intake*: a redelivered payload repeats nothing and an accepted one leaves
  nothing out; the monitoring agent's calls cost an event at most its budget and
  one call.
- *Recovery*: it is declared only of what real vendors returned within the
  window, none of which speaks against it.
- *Automatic remediation*: the hourly limit bounds what is executed, also with
  incidents processed at the same time and after restarts.
- *Diagnosis*: what could not be observed is named; confidence needs evidence; the
  connections of the checkpointer are not lost.
- *Knowledge base*: a guard score belongs to the text it stands beside; a content
  a search selects by its score is below the threshold itself, whatever happens
  between the legs and the fetch; fusion respects its legs.
- *Evaluation*: a kill loses no saved result and a rerun reuses only current ones.

## 2. Modules

| Module | Content |
|---|---|
| `ActionPolicy` | the gate (`Evaluate`, `AutoAllowed`, `Permissible`, `NeedsApproval`) and the controls (`Constrain`) as operators |
| `IncidentLifecycle` | one incident: the pipeline, the approval requests, feedback, control changes, crashes; its properties |
| `ApprovalContract` | the abstract specification the lifecycle implements |
| `IncidentLifecycleProofs` | the theorems about the lifecycle |
| `MCIncidentLifecycle` | constants for TLC |
| `EpisodicDedup` | the alerts of one key: dedup table, episodes, replay and suppression, regressions; its properties |
| `EpisodicDedupProofs` | the theorems about it |
| `MCEpisodicDedup` | constants for TLC |
| `ConnectorConfig` | the connector page: memory, file, settings and the service that is stopped and rebuilt; concurrent handlers, restarts of the process |
| `LiveIngestion` | pollers, queue, stream detector, cooldowns, escalations, stop |
| `TelemetryAdapters` | what each vendor's adapter makes of a reply, and the composite's fan-out, as operators |
| `AnomalyIntake` | the monitoring agent's loop over a batch and the Alertmanager webhook with redelivery |
| `RecoveryVerification` | a verification over the series of the two required signals |
| `AutoRemediation` | the hourly history with concurrent incidents and restarts |
| `RemediationProofs` | theorems about the gate's operators and the hourly limit |
| `DiagnosisGraph` | one diagnosis, from the collection of evidence to the result |
| `HypothesisGrounding` | citations and confidence caps as operators |
| `DiagnosisCheckpoint` | the checkpointer's pool under concurrent diagnoses |
| `KnowledgeBase` | ingest tasks, `score_guard` and a search on one table |
| `RankFusion` | reciprocal rank fusion with the reranker's weight |
| `SpecialistEvaluation` | both phases of the specialist evaluation, killed and rerun |
| `ObservationProofs` | the theorems about `AnomalyIntake`, `RecoveryVerification` and `LiveIngestion` |
| `DiagnosisProofs` | the theorems about `DiagnosisGraph`, `DiagnosisCheckpoint` and `SpecialistEvaluation` |
| `KnowledgeBaseProofs` | the theorems about `KnowledgeBase` and `RankFusion` |
| `ConnectorConfigProofs` | the theorems about `ConnectorConfig` |
| `ComponentsProofs` | what the components promise, of all of them in one behaviour |
| `MCConnectorConfig`, `MCLiveIngestion`, `MCAnomalyIntake`, `MCDiagnosisGraph`, `MCKnowledgeBase`, `MCSpecialistEvaluation` | constants for TLC |
| `MCComponents` | the parts that share no state, in one run |

`IncidentLifecycle` extends `ActionPolicy`, so the decisions in its runs are those
of the gate, not choices. `EpisodicDedup` is the other projection of the same
pipeline: it keeps several alerts and the clock, and takes what one incident's
handling may result in (`Results`) instead of its steps. `LiveIngestion`,
`RecoveryVerification` and `DiagnosisGraph` extend `TelemetryAdapters`, so a vendor
fails in them in the ways its adapter lets it fail; `DiagnosisGraph` extends
`HypothesisGrounding`.

### State and code: `IncidentLifecycle`

| Variable | Code |
|---|---|
| `store` | the row of the incident in the incident store |
| `copies` | the `IncidentRecord` objects in memory: the pipeline's, one per claimed request, one per worker that restored it at start |
| `active` | `active_incidents[incident_id]` of each worker: which object it refers to |
| `pipe` | where `_process_anomaly` / `ActionAgent.execute` is, the loop index, the local `results` list, the `controls` argument |
| `requests` | where each call of `approve_tier2_action` is, its decision, worker and proposal |
| `plan` | `diagnosis.recommended_actions` |
| `ctx`, `controls` | severity, settings; the durable controls |
| `autoRuns`, `postedBy` | history: webhooks that really left the process |
| `budget` | counters of the bounded events |

A record is reduced to its status, one result status per action and the
verification outcome. The result list of the code is the function over the slots
`1..MaxPlan`; a slot without a result is `"none"`. One incident is enough: every
map, row and handler is keyed by the incident id, and what incidents share (the
hourly limit) is a free answer here (`LimitStates`).

### Actions and code: `IncidentLifecycle`

The pipeline is `Detect`, `Investigate`, `Diagnose`, `StartExecution`, then per
action `HoldBack` or `AutoTrigger`/`AutoReturn`, then `Summarise`, `AutoVerify`,
`SaveOutcome`, `SaveBrief`, `Close`. A request is `Claim` (all of the handler up
to its first await, for a rejection all of it), then `TriggerApproved` or
`DenyApproved`, `ApprovedReturn`, `ApprovedVerify`, `SaveApproved`. A refused
request changes nothing and is not an action. `PipeFails`/`RequestFails` are the
exceptions nothing catches, `CrashRestart` kills a worker and fills its new active
map from the store, `Feedback` and `UpdateControls` are the other two endpoints
that write.

Granularity. An action ends at an await or where another worker could look at
the store. Where two consecutive actions have no await between them (`Busy`
stages of the pipeline, stages `claimed` and `saving` of a request) `LoopFree`
keeps the other tasks of that worker's loop from being resumed, while other
workers and crashes do interleave. Elsewhere the model allows at least the
interleavings of the code: stages that return at once in some settings (a mocked
workflow, a verification without a success) are modelled as if they had awaited.

Abstractions worth knowing:

- Parameters are valid or not; the proposal hash is the slot. Two proposals with
  equal action and parameters in one plan (equal hashes) are not distinguished
  from two different ones.
- The approval-time `ValueError`s (environment, service or mode changed since the
  proposal) need a restart with other settings; `DenyApproved` is allowed for that
  reason after any crash.
- Simulation is a property of the incident, since the proposal's mode is replayed
  at approval.
- `human_feedback`, timestamps, costs, audit entries and the brief's content are
  left out.

### State and code: `EpisodicDedup`

| Variable | Code |
|---|---|
| `clock` | what `time.time()` and `datetime.now` return, in units of a window |
| `severity` | the severity of each alert; services and type are equal, so is the alert key |
| `seen` | `AlertDeduplicator.seen_alerts[key]["first_seen"]` |
| `degraded` | `EpisodicMemory.degraded` |
| `database`, `fallback` | the episode of each alert in Postgres and in `InMemoryEpisodeBackend` |
| `task` | where `_process_anomaly` is for each alert, `prior`, `replay`, the backend its pending call went to, its result |
| `incident` | status, `created_at`, `resolved_at` and `regressed` of the durable record |
| `approval` | where the approval of an incident's action is |
| `missed`, `faults`, `crashes` | history: alerts whose regression update was cut short; counters of bounded events |

`Accept` is `should_fire` and the start of `find_duplicate`; `Decide` is its
answer, the choice between suppression, replay and a fresh diagnosis, and the
start of the next call; `Log`, `OpenEpisode`, `CloseEpisode` are the answers of
the other memory calls; `CreateIncident` is everything up to the next await: the
save of the incident, then the regression update, whose saves are one transaction
each, with its swallowed exception. The process may die between any two of these
saves (`CrashWhileCreating`): then, as after an exception, only some of the
earlier fixes were judged by the new incident (`UpdateCutShort`). `Handle` stands
for diagnosis, execution and verification (whose steps `IncidentLifecycle` has)
and ends with the save; `PipelineRaises` is an exception nothing catches. Approvals
are granted or rejected by `Approve` and end in `ApprovedActionFails` or
`ApprovedActionRecovers`. `SettleElsewhere` is an incident of another key.

- A call to Postgres may be answered, fail without effect, or fail after its
  effect; both failures degrade the process and repeat the call on the in-process
  backend. That backend never gives up the event loop: while a pipeline's call is
  with it, nothing else moves (`Synchronous`, `LoopFreeFor`).
- A call takes effect when it returns. A read that was answered earlier is thereby
  taken as of its return, so `SuppressionHasAHandler` and `ReplayIsEarned` speak of
  the moment the memory's answer is acted on.
- Alerts of one key are enough: table, fingerprint and regressions are all keyed by
  it, except for settling. One process: each worker has a dedup table and a
  degradation of its own, and with several the first memory of an event would be
  the episodes alone.
- Ties: the clock is discrete, so alerts, recoveries and window ends may coincide.
  Episodes with equal times are told apart by nothing, so either may be the latest.
- Left out: the content of a decision (a stored one is taken to validate), the
  lines of the timeline except for the calls they cost, the cap of 1000 recovered
  incidents the detector reads, and the save of the feedback endpoint (`api.py:888`;
  it is in `IncidentLifecycle`), so `RegressionStands` is about the saves of
  pipelines, approvals and settling.

### The components around the core

Each of these modules keeps the state of one component and has one action per
handler or per stretch between two awaits; its comments name the functions.

| Module | Variables and code |
|---|---|
| `ConnectorConfig` | `memory` is `ConnectorConfigStore.state`, `disk` its file, `settings` the shared settings object, `services` every ingestion service the process has built and `ingestion` the global that refers to one; `requests` are handlers of activate and deactivate at their one await, the stop of the old service |
| `LiveIngestion` | `poller` the task per vendor with the time it `asked` at, `queue`, `detector` the stream detector's series, `cooling` the cooldowns, `escalations` the tasks before and inside the semaphore; `clock` and `published`, the times of the observations at each source, are the outside |
| `AnomalyIntake` | `loop` the monitoring agent's loop over one event with its tokens, `webhook` a payload under way, `seen` the dedup table, `begun` history per alert key |
| `RecoveryVerification` | `signals` what the two required signals were in each interval (good, bad, undefined or absent), `verification` when the action was taken, which vendors the adapter has and which answered, how it ended |
| `AutoRemediation` | `autoHistory` is `_auto_history` of one service, `executing` the pipelines at the await of a workflow, `autoRuns` what was really triggered and when |
| `DiagnosisGraph` | the graph's state: `timeline`, `gaps`, `dispatched`, `reports`, `result`; `at` is the node |
| `DiagnosisCheckpoint` | `saverPool`, `heldPool` the two fields of the provider, `locked` its lock, `connected` the pools that are open |
| `KnowledgeBase` | `documents` the table, `guardScores` the scores of the pipeline's guard, `tasks` the concurrent `ingest_document` calls, `scoring` the `score_guard` command, `query` a search |
| `RankFusion` | the legs of a search and the references made of them |
| `SpecialistEvaluation` | `reportsFile` and `comparisons` the two files, `evaluation` what the running process holds |

Granularity. In the asyncio programs an action ends at an await; a poller whose
fetch began while records were queued lets the consumer run first, as the loop
does. The commands of the knowledge base and the evaluation interleave at their
database statements and awaited calls; `score_guard` ends with a statement that
fails, in the middle of a batch (`FailScoreGuard`). A file is replaced by a
rename, so it is old or new. A kill of the evaluation may come between any two actions.

Abstractions worth knowing:

- `ConnectorConfig`: a value is blank or one of two texts; a submitted one may
  also be null or malformed, which only a number field can tell. `test_connection` puts
  back what it changes before it awaits again, and the page's view only reads.
- `TelemetryAdapters`: a record is the time of the observation it rests on and the
  time it is stamped with. Prometheus evaluates a range query at the points of a
  grid, `step` apart from the beginning of the window (`prometheus_adapter.py:74`),
  and stamps each value with its point: the value is the newest observation of
  the five minutes before it. The grid moves with every poll, so one observation
  comes back under later stamps, and what lies between two points does not come
  back at all. Datadog's adapter makes one record per series, Splunk's one value
  over the window. A query that the egress guard refuses (`refused`) raises
  something the callers do not expect, for every vendor.
- `LiveIngestion`: one metric per service; whether a value is out of line is a
  choice once the baseline is long enough; pauses and cooldowns take any time. A
  source has an observation as soon as it makes it; the pauses between polls are
  not related to the window. `Step <= Staleness` is what the code has as long as
  the window is not longer than two and a half hours (`window // 30` and five
  minutes); it is at least four polls long (`ingestion.py:152`), so that is a
  poll interval of 37 minutes. NaN in a baseline, which makes every comparison
  of the stream detector false until it has left the deque (`ingestion.py:71`),
  is not modelled: the baseline is made of times, not of values.
- `AnomalyIntake`: the tools' own computations are an answer or an exception; a
  text is the set of keywords in it. What a pipeline does with an anomaly is
  `EpisodicDedup`'s subject: here it is suppressed, begun or raises.
- `RecoveryVerification`: the adapter is that of any vendor or a composite of
  several, and any of them may fail. An undefined value is the NaN that
  Prometheus's default query of the error rate has for a service nobody calls; it
  counts as a value and is above no threshold (`verifier.py:198`). The other vendors
  have no value then. Vendors agree on what was the case. The optional
  `transaction_failure_rate` is left out, which can only prevent a recovery. So is
  an exception of `get_telemetry_adapter` itself, which is outside the handler
  (`verifier.py:108`): it raises for an unknown connector only, and with one the
  orchestrator is not even constructed (`orchestrator.py:84`).
- `DiagnosisGraph`: an LLM answer is any answer of the shape the parser
  accepts, or none; runbooks are quoted and change nothing, so their absence is
  no gap, in the code and here. That the adapter itself cannot be made, so that no
  service is examined at all, is not modelled.
- `KnowledgeBase`: a text stands for itself and a score is the text that was
  scored. `--limit` is one of `Limits`; `--rescore` and `--kinds`, which choose other
  rows, are left out.
- `SpecialistEvaluation`: a prompt is its case and the reports in it. The code's hash leaves out
  the system prompt and the model: a change of those reuses old results.

Documented limits. These follow from the code as it is and no property is
violated by them, because the property is stated with the limit in it:

- the hourly limit is passed by as many pipelines as await a workflow at the
  same time, and again after each restart (`HourlyLimit`); it is the limit of one
  process, and every worker has a history of its own;
- an action that ran before the summary of the LLM raised is in no record and is
  never verified; like an incident whose task a crash took, it stays where it was
  (`agent.py:133`, `orchestrator.py:77`; the excuses of `IncidentSettles`);
- a pause of the agent after the controls were read does not hold back the actions
  of that plan, nor an approval of one (`orchestrator.py:272`);
- an alert of the same key within the dedup window is dropped also if it is more
  severe, or a retry after the first one's pipeline failed; two workers have two
  tables (`orchestrator.py:157`);
- after a failed call of the memory the episodes in Postgres are forgotten until
  the next start, so repetitions of an event they know are not recognised
  (`episodic_memory.py:247`);
- alerts that the table or the memory suppressed never reach the regression
  detector, which judges fixes by incidents alone (`regression.py:76`);
- nothing repeats a regression update that was cut short by an exception or by
  the end of the process (`orchestrator.py:97`), so a fix that did not hold may be
  called stable (the excuse of `SettledHeld`);
- an open episode whose pipeline raised or died suppresses repetitions until its
  window ends (`orchestrator.py:184`; the excuse of `SuppressionHasAHandler`);
- the cooldown of a service starts before its escalation, so one whose pipeline
  raised is not tried again until the cooldown ends;
- `2 ** failures` overflows a float after about a thousand failures in a row and
  ends the poller (`OverflowAt`; the excuse of `NewestExamined`);
- `E1` and `E01` cite one item and count as two citations (`hypotheses.py:53`);
- Datadog's adapter makes a zero of a series without values, and Prometheus's NaN
  of a service nobody calls is above no threshold: both look like a recovery
  (`RecoveryWasObserved` excepts them);
- values from before the action count as well, as long as they are in the look-back;
- one observation may be in a baseline several times, under later and later
  stamps, and observations between the points of the grid never are;
- a row rewritten between a leg of a search and the fetch by id is served as it is
  by then, with a text no leg has seen (`search.py:96`; `ServedIsVetted` says
  nothing of it), and rows without a score pass the legs;
- a document ingested again with fewer chunks leaves the old trailing rows;
- a pool whose setup raises stays open (`setupFailed`);
- a report run empties its file first, and a save during the review keeps only
  the reports reviewed so far.

## 3. What the runs check

| Run | Constants | Expectation |
|---|---|---|
| `one_worker` | 1 worker, 2 requests, 5 proposals, 5 contexts, 5 control states, plans of up to 2 actions, 1 crash, 1 exception, 1 change of the controls, no feedback | pass: `TypeOK`, `PostsAreClaimed`, `SingleUse`, `ExecutionsAreRecorded`, `RejectionIsFinal`, `IncidentSettles`, `ImplementsContract` |
| `shared_store` | 2 workers, 2 requests, 3 proposals, 5 contexts, plans of up to 2, 1 crash, 1 exception, 1 feedback | pass: `PostsAreClaimed`, `CriticalIsHandsOff`, `RecoveredIsVerified` |
| `feedback_replay` | 1 worker, 2 requests, 1 feedback | `SingleUse` violated |
| `workers_replay` | 2 workers, 2 requests | `SingleUse` violated |
| `two_pending` | 1 worker, plans of up to 2 | `WaitingIsDecidable` violated |
| `approve_to_act` | autonomy `approve_to_act`, auto-remediation on | `ApprovedIsCarriedOut` violated |
| `dedup_time` | 2 alerts of 2 severities, dedup window 1, duplicate and regression window 2, clock up to 3, 1 exception, 1 crash, 1 approval | pass: `TypeOK`, `BurstIsOneIncident`, `SettledHeld`, `RegressionStands`, `SuppressionHasAHandler` |
| `dedup_memory` | the same windows, clock up to 1, 2 failing memory calls, 1 exception, 1 crash | pass: `ReplayIsEarned`, `AcceptedIsAnswered` |
| `failed_fix` | as `dedup_time` without the exception and the crash | `FailedFixIsDiagnosedAgain` violated |
| `components` | fourteen parts, see below | pass: `ComponentsTypeOK` and the 22 properties below it |
| `forgotten_selection` | 1 handler, 1 write, no restart of the service | `PersistedStateInForce` violated |
| `mixed_scores` | 2 ingest tasks, 2 documents | `ScoreIsOfContent` violated |

`TypeOK` of the lifecycle and of the deduplication is checked in one run each;
their other passing runs have the same module and leave it out.

`components` explores the parts that share no state, each on its own: the start
chooses a part, and the behaviour is one of that part's specification while the
variables of the others do not move. It has 168,183 distinct states and takes
three to four minutes. The telemetry loop and the webhook are parts of the
intake. The knowledge base is explored three times: with concurrent tasks
("ingesting"), with one task and `score_guard` ("scoring") and with one task and a
search ("serving"). Live ingestion is explored twice: in "ingestion" anything may
fail and nothing of Datadog is queued, in "overload" Datadog's made-up zeros fill
the queue while no fetch fails, nothing is escalated and nobody stops it. In
both, time stands still while a fetch from Datadog is under way, so the times of
its own fetches are those at which they begin; Prometheus's may take any time.
The theorems of section 4 know none of these restrictions.

- `PostsAreClaimed`: an approval request posts at most once, only after its own
  claim approved, and never a proposal the pipeline ran itself. Holds whatever
  is saved over what.
- `SingleUse`: no proposal is carried out twice. Checked with one worker and no
  feedback; the two replay runs show what goes wrong with either, and section 4
  that only steps of these two kinds can break it.
- `RejectionIsFinal`, `ExecutionsAreRecorded`: same conditions, same reason (a
  stale save).
- `CriticalIsHandsOff`: the recheck at approval ignores the severity, so this
  rests on no copy of a critical record ever waiting.
- `RecoveredIsVerified`: every copy that says recovered comes with a live
  webhook, a success and a confirmed verification.
- `IncidentSettles` (liveness): the durable status does not stay at detected,
  investigating, executing or verifying, unless an exception or a crash took the
  task down. The excuse is needed: `_process_anomaly` has no exception handling
  and a restart starts no task for what it restores, so such an incident stays
  where it was.
- `ImplementsContract`: the durable status, the verdicts and the posts of
  approved proposals refine `ApprovalContract`: a proposal gets one verdict, is
  carried out at most once after an approval, and recovery follows only
  something carried out. (Checked in `one_worker`; a stale save breaks it
  otherwise.)

- `BurstIsOneIncident`: within one process life two incidents of one key are at
  least a dedup window apart, however slow the memory answers in between.
- `SuppressionHasAHandler`: the episode that suppresses an alert belongs to an
  incident still in the pipeline or with people. Its exceptions are what the code
  leaves behind: an episode stays open until its window ends when its pipeline
  raised or died, and no approval, granted or rejected, ever updates it.
- `ReplayIsEarned`: the replayed diagnosis led to an executed action and a verified
  recovery for the same, non-critical fingerprint, whichever backend said so.
- `SettledHeld`: a fix called stable was not followed by another incident of the
  key within the window, unless that incident's regression update was cut short,
  by an exception or by the end of the process between two of its saves. Alerts
  that are stopped by the table or suppressed as duplicates open no incident, so
  the detector, and this property, do not count them.
- `RegressionStands`: whole-record saves by the pipeline, approvals and settling
  never take a recorded regression back.
- `AcceptedIsAnswered` (liveness): memory failures block nothing; every accepted
  alert's pipeline ends.

In `components`:

- `LeakNeedsOverlap`: a service runs on that nothing refers to only after two
  handlers awaited a stop at the same time. The excuse is the hazard itself:
  nothing in `_restart_ingestion` keeps two handlers apart.
- `RunningAsConfigured`: between requests the running service watches what the
  settings say, unless restarts overlapped or an activation was refused after it
  had been saved.
- `SettingsMatchFile`: from the first save on the settings are the environment
  overlaid with the file, also after a form that was refused half way.
- `AcceptedActivationRuns`: an accepted activation ends with a running service
  for the selected connectors, although the check and the builder are written
  apart.
- `BaselineGoesForward`: a baseline made of Prometheus's range queries takes one
  value for a time: its stamps increase, its observations never go back, and each
  value is what the source says of that time. That an observation enters once is
  not so, and not claimed.
- `PassedByLessThanAStep`: nothing is passed over by a whole step: once a baseline
  is a step past an observation, it has a record of less than a step after it, or
  the observation has left the window. It holds because a full queue drops the
  newest records of a fetch and not the oldest, and because the detector passes
  over a record only for a later one.
- `NewestExamined` (liveness): outages only delay the newest observation.
- `EscalationsEnd` (liveness): every escalation ends, also those a stop leaves
  waiting for the semaphore.
- `OvershootIsOneCall`: the monitoring agent's calls cost an event at most the
  budget and one call. What its diagnosis costs is not counted there.
- `RedeliveryRepeatsNothing`, `AcceptedLeavesNoneOut`: a payload that is
  delivered again begins nothing twice within a window; one that was accepted
  has begun for each firing alert of a known service.
- `RecoveryWasObserved`: recovery of a live service needs an executed action, a
  value for each required signal from a real vendor that answered, and none of
  those vendors saw a signal beyond its threshold: Prometheus at no time of the
  window, Datadog not at last, Splunk not all the time. The values that are no
  observation, Prometheus's NaN and Datadog's zero, are let through as the code
  lets them.
- `HourlyLimit`: how many automatic actions an hour can have.
- `ScoresNeedCrossing`: a score stands beside a text it is not of only after
  scorings overlapped or a row was rewritten under `score_guard`.
- `ServedIsVetted`: a content that a leg selected by the score stored beside it is
  itself below the threshold: the score was its own, through every ingestion,
  failed scoring and rewrite before the leg, and the content fetched by id in the
  end is the one the leg saw or one of another number. Rows without a score and
  contents no leg has seen are not spoken of.
- `OnlyFailedLeftUnscored`: `score_guard` leaves only failed rows behind, unless
  a batch, or what its `--limit` leaves of one, is full of them. With two rows in a
  batch a failed one is left behind while the others are reached.
- `FusionRespectsLegs`: a row no leg ranks below a cited one is cited above it.
- `GapsAreNamed`: a result has evidence for each examined service and metric or
  names what is missing.
- `ConfidenceIsGrounded`: above 40% somebody cited something real, above 70%
  twice and nothing against it.
- `PoolsLostBySetupOnly`: open pools are the held one, the one being opened and
  one per failed setup.
- `ComparisonsAreCurrent`: a finished synthesis run leaves exactly what it
  planned, for the prompts it planned; a complete file has only valid
  assessments.
- `SavedResultsSurvive`: a saved response and a valid assessment of it stay
  through every save and kill until a run plans otherwise.

Every property of the passing runs is checked against a mutated definition (a
dropped return, a claim that consumes nothing, a missing save, a missing guard)
and must then fail; the mutants stand next to the definitions they mutate.

### Findings

1. **Feedback replays an approval** (`feedback_replay`). The pipeline's last step
   puts its own copy back into the active map even if an approval replaced it
   during the awaits of `_close_episode`; feedback saves that copy, which still
   waits; the consumed approval can be given again.
2. **A second worker replays an approval** (`workers_replay`). The pipeline's
   second save overwrites a claim that another worker made after the first.
3. **Two pending proposals block an incident** (`two_pending`): approve and
   reject both answer 409.
4. **`approve_to_act` never acts** (`approve_to_act`) on an action the gate would
   permit automatically: the recheck only accepts "approval required".
5. **A failed fix is not diagnosed again** (`failed_fix`) when it ran after an
   approval: the episode was closed as escalated without an outcome before the
   approval and suppresses the next alert of the event.
6. **The saved selection is forgotten** (`forgotten_selection`): nothing calls
   `ConnectorConfigStore.load`, so after a restart the environment's selection is
   in force and the next save writes over the file.
7. **Scores of two documents mix** (`mixed_scores`): the guard's scores are kept
   by chunk index in state that the concurrent tasks of a pipeline share.

### Bounds

Two actions per plan are the least for mixed results (executed and pending, two
pending). Two requests are the least for a replay; a third would only repeat the
second. Two workers are the least for another event loop; a third has no state
the second does not have. One crash, failure, feedback and change are enough for
each to hit any point of the run, since each is enabled in every state its code
allows. The catalog has one action of each kind the gate tells apart (allowlisted
low risk, medium, high, unknown, invalid parameters). `CHECK_DEADLOCK` is off
because an incident ends: when the pipeline and the requests are done nothing
else has to happen.

In the deduplication runs two alerts are the least for a repetition; the choice of
the latest of several earlier episodes needs a third and is covered by the proofs
only. The clock of `dedup_time` passes the end of every window by at least one
tick, so before, at and after each window's end all occur. Two failing calls reach
a second degradation after the restart cleared the first. Time and memory failures
are split over two runs to keep each small; the theorems cover them together.

The constants of `components` (`Components.cfg`): connectors: 2 handlers, 2
writes, 3 activations or deactivations, two vendors with forms that fill, blank
and are refused after their first field; a third handler would wait as the
second does. Ingestion: two vendors, two services, a series of each vendor, a
clock of 3 ticks with an observation at any of them. Window, step and staleness
are 2 ticks: a query has two points, those of successive polls lie between each
other, and an observation between two points is not returned. Nothing changes
for the ends of the grid if the window is a multiple of the step, as here. The
queue holds 2 records, so it fills; one escalation at a time; overflow after 2
failures. With 3 ticks no observation leaves a window of 2 while the clock runs,
so that excuse of `NewestExamined` and of `PassedByLessThanAStep` never lets the
run pass; for longer times the second has its proof. Monitoring: 2 events, a
budget of 5 with calls of 0, 2 and 3 tokens, so equality and overshoot occur;
confidences below, at and above the threshold of 75. Webhook: two payloads whose
alerts share keys, are resolved, have blank or no services; 3 deliveries.
Verification: 3 intervals, stabilisation and look-back of 1, so values from
before the action count; Prometheus, Datadog and the simulator alone and three
composites, one with Splunk; intervals that are good, have one bad signal, are
undefined or lack a signal. Automatic actions: 2 pipelines, a limit of 1, an hour
of 1 tick, 3 ticks, 6 runs, 1 restart. Knowledge base: two documents, one with a
shorter and untrusted second version, two flagged texts, 2 tasks, 2 ingests, legs of
1, batches of 2 and limits of 2 and 5, so that a batch is smaller than the limit
and, after it, the limit smaller than a batch. Fusion: 3 candidates, legs of 3, 2 references, scores
0 to 2. Diagnosis: three services of which 2 are examined, vendors alone and in
pairs, confidences of 95 and of no legal value, hypotheses that cite real,
simulated and uncollected items and one item under two spellings; critical and
not. Checkpointer: 2 diagnoses, 3 pools, so a pool fails and another is opened.
Evaluation: 3 cases, one specialist and one variant (the one whose prompt
depends on the number of cases), a save every 2 results, 2 report runs, 3
synthesis runs, so a rerun follows a rerun.

### Fairness

`WF_vars(PipeNext)` and weak fairness of every request's steps: each await of
the pipeline and of the approval path has a timeout (LLM client, 30 s workflow
client, fixed stabilization sleep, store connection timeout), and asyncio
resumes a task whose await ended. In `EpisodicDedup`, weak fairness of each
alert's pipeline steps for the same reason (a Postgres connection has a timeout
of 5 s, `episodic_memory.py:103`; a query on a connection that stays open
without answering is assumed to fail in the end). In `LiveIngestion`, weak
fairness of the tasks the event loop runs (`asyncio.sleep` ends, a fetch has the
HTTP client's timeout, the consumer is woken, `process_event` returns) and
strong fairness of a source's answer: one that is asked again and again answers
at some time, and at some time while the queue is empty. Nothing is assumed of
the clock, of what the sources observe, of cooldowns or a stop. No fairness for claims, feedback, control
changes, crashes, failures or the clock: people and faults owe nothing.

## 4. What is proved

Every safety property, action property and type invariant that a passing run
checks is also a theorem for every value of the constants that satisfies the
modules' named assumptions: any number of workers, requests, actions, alerts,
vendors, services, documents, cases; four of them under a condition named below.
Only the four liveness properties are left to the runs. Each theorem is `Spec => []P` or `Spec => P` for the P beside it.

The assumptions are what the code justifies: sets that are configured are finite
where they are counted, limits and intervals are positive where the settings
validate them or the code writes them as such, forms and payloads are sequences.

### The incident and the gate (`CatalogAssumption`, `LifecycleAssumption`)

| Theorem | Property |
|---|---|
| `TypeCorrect` | `TypeOK` |
| `PostsAreClaimedAlways` | `PostsAreClaimed` |
| `CriticalIsHandsOffAlways` | `CriticalIsHandsOff` |
| `RecoveredIsVerifiedAlways` | `RecoveredIsVerified` |
| `SingleUseUndisturbed`, `RejectionIsFinalUndisturbed` | `SingleUse`, `RejectionIsFinal`, while `ClaimsUndisturbed` |
| `ExecutionsAreRecordedUndisturbed`, `ImplementsContractUndisturbed` | `ExecutionsAreRecorded`, `ImplementsContract` (the refinement of `ApprovalContract`), while `RecordUndisturbed` |
| `SingleUseAlone`, `RejectionIsFinalAlone`, `ExecutionsAreRecordedAlone`, `ImplementsContractAlone` | the same four, with `Workers = {Home}` and `MaxFeedback = 0` |
| `TasksOnlyAdvance` | the pipeline and the requests take a bounded number of steps |
| `ProgressIsCarried` | an incident in progress is with a task that failed or was lost, or some task can take its next step, while `RecordUndisturbed` |
| `ControlsOnlyConstrain` | the controls never extend the reach of a decision |
| `GateFailsClosed` | what is permitted or proposed is a registered, valid, non-high-risk action of a non-critical incident |
| `ProductionAutoIsOptIn` | when the gate permits an automatic run in production |
| `RecheckAgrees` | how the approval-time recheck can differ from the first decision |
| `AutoTypeCorrect`, `HourlyLimitAlwaysHolds` | `AutoTypeOK`, `HourlyLimit` (`AutoAssumption`) |

`ClaimsUndisturbed` and `RecordUndisturbed` are conditions on single steps, and
name exactly what the two replay runs do: a claim by another worker falls between
the two saves of the outcome (`pipe.at = "brief"`), or feedback writes a record
other than the durable one over it, after a claim or at all. The theorems are
`Spec /\ [][condition]_vars => ...`, for any number of workers, requests,
crashes, failures and feedback: as long as no stale record is put back, nothing
else undoes these promises. With one worker and no feedback every step meets
both conditions (`AloneIsUndisturbed`), so there the promises hold without them.

The inductive invariants:

- `ClaimInv` (for `PostsAreClaimed`): a proposal that waits in *any* copy was not
  run and the pipeline is past its plan; the pipeline runs its plan in order; a
  request that left `idle` owns a proposal that was not run. Stale saves move
  records about but never create a waiting slot, which is why it survives them.
- `CriticalInv`: for a critical incident the pipeline never reaches the stages
  that act, no copy waits, so every request stays `idle`.
- `EvidenceInv` (for `RecoveredIsVerified`): every success in any copy, in the
  pipeline's results and in a request's pending post stands for a posted webhook.
- `OneClaimInv` (for the theorems under a condition): at most one request ever
  claims; afterwards neither the store nor the claimed copy waits and the
  pipeline has made its last save; a rejection in the store has an ended request.
- `EarlyCopies` (beside it, for several workers): whose copies can be stale.
  Only the home worker's map refers to the pipeline's copy; a copy that waits for
  an approval, the pipeline's or one a restarted worker loaded, is no older than
  the first save of the outcome. So until then no other worker can claim.
- `LedgerInv` (for `ExecutionsAreRecorded` and the refinement): the durable status
  follows from the pipeline's stage; the result of a run is in the pipeline's
  list, then in its copy, then in the store and in every copy a request may still
  save; the same for what a request posts. `ExecutionsAreRecorded` alone only
  speaks of the end, when all of this has happened.
- The refinement has one lemma per kind of step. The mapping counts posts and
  reads verdicts over all requests; `OneOwner` (from `OneClaimInv`) makes each count a
  single request's, so a step of the pipeline, a request or the world is a step
  of the contract or a stutter.
- `Carried` (for `ProgressIsCarried`): the status in the store names the stage of
  the task that holds the incident ("executing" is saved by a claim alone), or that
  task failed or was lost; and where an event loop is not free, the task that has
  it is at a statement without an await. `TasksOnlyAdvance` counts what is left:
  from action to action two steps, whatever the gate decides.
- `AutoInv` (for `HourlyLimit`): what former processes triggered within the hour
  is bounded by their number; what this one triggered since any moment of the
  last hour is no more than its history since then and the workflows still
  awaited; so a gate that counts the history lets at most the limit and the other
  pipelines through. The history and the true runs are related by counting from
  each moment on, since a workflow is triggered and recorded at two times.

### The alerts of one key (`DedupAssumption`)

| Theorem | Property |
|---|---|
| `DedupTypeCorrect` | `TypeOK` |
| `ReplayIsEarnedAlways` | `ReplayIsEarned` |
| `RegressionStandsAlways` | `RegressionStands` |
| `BurstIsOneIncidentAlways` | `BurstIsOneIncident` |
| `SettledHeldAlways` | `SettledHeld` |
| `SuppressionHasAHandlerAlways` | `SuppressionHasAHandler` |
| `PipelinesOnlyAdvance` | every alert's pipeline takes a bounded number of steps |
| `MemoryNeverBlocks` | while an accepted alert is not answered, some pipeline can take its next step |

- `MemoryInv` (for the first two): an episode of either backend tells of a recovery
  only when its pipeline ended with one; a recovered result is in the durable
  record from its save on; only recovered incidents are judged, and no pipeline or
  approval still to save holds one of those. The property alone is not inductive:
  it speaks of tasks that replay, not of the episodes they will read.
- `BurstInv`: until a crash the table's entry is no older than any accepted alert,
  and accepted alerts arrived a window apart. It speaks of alerts, not incidents,
  because the memory may answer in any order after the table let them through.
- `HeldInv` (for `SettledHeld`): no date lies in the future, a recovery that is not
  marked as regressed has re-fired only where the update was cut short, and one called
  stable has its window behind it, so a new incident is always too late for it.
- `HandlerInv` (for `SuppressionHasAHandler`): while no call failed everything went
  to Postgres, an open episode there has a pipeline under way or one that died,
  and an escalated one a pipeline that ended without a recovery.
- `OneAtATime` (for `MemoryNeverBlocks`): a call to the in-process backend begins
  only when the event loop is free, so at most one pipeline has it. Its call always
  has an answer, and the answer a newest episode or none (`LatestExists`).

### The components around the core

| Theorems | Properties | Assumptions |
|---|---|---|
| `ConnectorTypeCorrect`, `LeakOnlyByOverlap`, `SettingsAreTheFile`, `RunsAlwaysAsConfigured`, `AcceptedActivationAlwaysRuns` | `ConnectorTypeOK`, `LeakNeedsOverlap`, `SettingsMatchFile`, `RunningAsConfigured`, `AcceptedActivationRuns` | `ConnectorAssumption` |
| `IngestionTypeCorrect`, `BaselineAlwaysGoesForward`, `AlwaysPassedByLessThanAStep`, all from `IngestionInvariant` | `IngestionTypeOK`, `BaselineGoesForward`, `PassedByLessThanAStep` | `IngestionAssumption` |
| `IntakeTypeCorrect`, `OvershootIsAlwaysOneCall`, `RedeliveryAlwaysRepeatsNothing`, `AcceptedAlwaysLeavesNoneOut` | `IntakeTypeOK`, `OvershootIsOneCall`, `RedeliveryRepeatsNothing`, `AcceptedLeavesNoneOut` | `IntakeAssumption` |
| `VerificationTypeCorrect`, `RecoveryIsAlwaysObserved` | `VerificationTypeOK`, `RecoveryWasObserved` | `VerificationAssumption` |
| `DiagnosisTypeCorrect`, `GapsAreAlwaysNamed`, `ConfidenceIsAlwaysGrounded` | `DiagnosisTypeOK`, `GapsAreNamed`, `ConfidenceIsGrounded` | `DiagnosisAssumption` |
| `CheckpointTypeCorrect`, `PoolsAreLostBySetupOnly` | `CheckpointTypeOK`, `PoolsLostBySetupOnly` | `CheckpointAssumption` |
| `KnowledgeTypeCorrect`, `ScoresOnlyCross`, `ServedIsAlwaysVetted`, `OnlyFailedAreLeftUnscored` | `KnowledgeTypeOK`, `ScoresNeedCrossing`, `ServedIsVetted`, `OnlyFailedLeftUnscored` | `KnowledgeAssumption`, `FlaggedAssumption` |
| `FusionTypeCorrect`, `FusionAlwaysRespectsLegs` | `FusionTypeOK`, `FusionRespectsLegs` | `FusionAssumption` |
| `EvaluationTypeCorrect`, `ComparisonsAreAlwaysCurrent`, `SavedResultsAlwaysSurvive` | `EvaluationTypeOK`, `ComparisonsAreCurrent`, `SavedResultsSurvive` | `EvaluationAssumption` |

Their inductive invariants:

- `OneRestartAtATime` (for `LeakNeedsOverlap`): without overlap at most one
  handler waits, while it does everything is stopped, and `ingestion` still
  refers to the old service, so that whoever comes next has to wait too.
- `UnsetIsEnvironment` (for `SettingsMatchFile`): a field the store has no value
  for is still as the environment set it, and stores never lose a value. Without
  it the overlay of a later save would not be known to be the environment's.
- `IngestionInForce` (for `RunningAsConfigured`): what the store knows of the
  ingestion is what the settings say, and what it does not know is as the
  environment set it; so is the service that is built from them.
- `WaitingIsReady` (for `AcceptedActivationRuns`): while a handler with an accepted
  activation waits for a stop and nobody has written since, memory and settings are
  those of a configuration without problems, so the builder finds none either.
- `TimesPast`, `PollsCounted`, `QueueOrdered`, `DetectorOrdered` (for
  `BaselineGoesForward` and `PassedByLessThanAStep`): no time lies in the future; a
  record is true of the time it is stamped with (`TrueOf`); one in the queue has
  before it a record for every observation of the window that it is a step past
  (`Preceded`), which needs that a fetch is put into the queue from its oldest
  record on; a baseline increases, is true, remembers its newest stamp and has
  such a record itself (`Close`). `GridIsDense` gives the point of the grid next to
  an observation, `LatestIsTrue` the value there, where `Step <= Staleness` is
  needed, and an induction over queues of any length carries the rest
  (`FoldInduction`, `ConsumeKeeps`).
- `WithinBudget` (for `OvershootIsOneCall`): until a call raised, the budget is not
  used up, so only the last call can pass it.
- `WebhookInv` (for the two properties of a payload): a key is in the table as long
  as its window lasts, and what the loop has passed has begun.
- `RecoveryWasObserved` follows step by step, from `VerdictIsObserved`: what a
  verdict of recovery says about the records (`RecordsAreMerged` takes those of a
  composite apart by vendor, `RangeOfWindow` gives the record of each interval) and
  so about the signals.
- `CollectionInvariant` (for `GapsAreNamed`): what has been asked about is
  covered by evidence or a gap, and both only grow; a result repeats the gaps.
- `ClaimInvariant` (for `ConfidenceIsGrounded`): before the end there is no
  result; at the end the caps follow from `Grounded` by counting citations.
- `PoolInvariant` (for `PoolsLostBySetupOnly`): who opens a pool holds the lock
  while none is held, saver and pool agree, and the pools neither held nor being
  opened are no more than the failed setups. The property alone does not say
  which pools those are. `CheckpointInvariant` (for the type) bounds the pools a
  diagnosis uses by those created.
- `NothingCrossed` (for `ScoresNeedCrossing`): the scores of the guard and of a
  task are those of the document it ingests, and `score_guard` holds today's texts.
- `SeenVetted` (for `ServedIsVetted`): while nothing crossed, a row a leg has seen
  was safe, and beside its text there was no score or that of the text itself. The
  latter is `CrossingInvariant` at the time of the leg, and `crossed` is never taken
  back (`CrossedStays`), so it still holds of what was seen when the rows have
  changed.
- `OnlyFailedLeftUnscored` is a step property: a batch shorter than asked for is
  all there is (`SmallBatchIsAll`, by counting ids), so an empty one ends the
  command only when every unscored row has failed.
- `InsertedInOrder` (for the type of `scoring.remaining`): the ids tell the present
  rows apart, so a SELECT returns no more rows than its LIMIT (`FirstRowsBound`) and
  what is left of `--limit` never becomes negative.
- `FusionRespectsLegs`: a row that no leg ranks below another has no smaller share
  of any list and so no smaller sum, by induction over the lists; with equal sums
  it is named first; and sorting by a strict total order puts it above, because
  the places of a sorted list are an injection into as many numbers
  (`FS_Injection`).
- `EvaluationInvariant` (for both properties of the evaluation): the process holds
  all its file has for its plan, has assessed what is valid, and once everything
  is generated the file has exactly the planned results. `EvaluationTypes` adds,
  for the type, that a plan is of the cases and no result is older than the first
  run.

`ComponentsProofs` joins them: the composition that `components` runs is, for each
component, a behaviour of the component's own specification
(`EachComponentBehaves`, from the variables they do not share), so the types of all
(`ComponentsTypeCorrect`) and what each promises
(`ComponentsKeepTheirPromises`: the 20 safety and action properties of that run)
hold in it for every value of the constants. Live ingestion takes part without its
fairness, which the composition states only of the behaviours that ingestion runs
in and none of these properties needs.

Recursive definitions that are proved about (the fold over a queue, the sums of
the rank fusion) are recursive functions; what they compute for every argument is
shown by induction on sets of numbers: the set of those the claim holds for
contains 0 and successors (`CountInduction`, from the well-foundedness of `<`).

Only model-checked: the four liveness properties `IncidentSettles`,
`AcceptedIsAnswered`, `NewestExamined` and `EscalationsEnd`, since fairness and
ENABLED are outside what the proof system does. Of the first two the part without
fairness is proved: the steps are bounded (`TasksOnlyAdvance`,
`PipelinesOnlyAdvance`) and somebody can take the next one (`ProgressIsCarried`,
`MemoryNeverBlocks`; that `Movable` and `CanGoOn` imply ENABLED is left to the
reader, who finds the guards of the actions in them). The
properties that the runs refute stay with the runs, too.

## 5. Not modelled

- Authentication and the read-only endpoints of `api.py`: they change no state
  the other components read.
- The content of LLM answers (any plan may come out of a diagnosis), the
  vendors' queries and the parsing of single fields, embeddings and chunking:
  data the properties do not tell apart.
- LLM access and data protection (PII and egress filters): text in, text out, no
  state between calls.
- The audit trail: appended to by the handlers that are modelled, read by nobody
  but the dashboard.
- Several workers with a dedup table each; the ParadeDB keyword fallback, whose
  flag is kept per instance.
- NaN in the baseline of a stream detector, which then flags nothing of the series
  until it has left the deque (`ingestion.py:71`).
- Resuming a half-finished diagnosis from a checkpoint: the provider's saver is
  handed to the graph, but nothing in `src/` restarts a diagnosis with an old thread.
- `acquire_distributed_lock`, Redis and Pub/Sub helpers: the lock has no caller.
- The synthetic corpus tools, the rest of the evaluation harness and PagerDuty:
  offline scripts and one-way calls that keep no state between runs.
- The dashboard: a client of the endpoints.

`PROJECT.json` lists every component with its status.

## 6. Plan

1. Several workers with a dedup table each in `EpisodicDedup`.
2. The ParadeDB fallback of a search that fails half way.
3. Values in the baselines of live ingestion: NaN, and when a value is out of line.
4. Sources that publish late, after a query has passed the time of the observation.
5. The save of the feedback endpoint in `EpisodicDedup`.
