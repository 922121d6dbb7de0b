----------------------------- MODULE MCComponents -----------------------------
(***************************************************************************)
(* The components that share no state with each other, in one run: at the  *)
(* start a part is chosen and the behaviour is one of its specification,   *)
(* while the variables of the others stay as they are at the start.  The   *)
(* telemetry loop and the webhook are parts of the intake.                 *)
(*                                                                         *)
(* Two components are explored in several parts, each with some of what    *)
(* they can do at the same time.  Of the knowledge base, "ingesting" has   *)
(* the concurrent tasks of an ingest command, "scoring" one task and       *)
(* score_guard, "serving" one task and a search.  In the live ingestion    *)
(* there is nothing from Datadog to queue and anything may fail in         *)
(* "ingestion"; in "overload" Datadog's made-up zeros fill the queue while *)
(* nothing fails, nothing is escalated and nobody stops it.  In both, time *)
(* stands still while a fetch from Datadog is under way.                   *)
(***************************************************************************)
EXTENDS MCConnectorConfig, MCLiveIngestion, MCAnomalyIntake, RecoveryVerification,
        AutoRemediation, MCKnowledgeBase, RankFusion, MCDiagnosisGraph, DiagnosisCheckpoint,
        MCSpecialistEvaluation

\* Vendors alone, and composite adapters.
MCVerifierAdapters ==
  {{"prometheus"}, {"datadog"}, {"simulator"},
   {"prometheus", "datadog"}, {"prometheus", "splunk"}, {"simulator", "datadog"}}

Reading(error_rate, latency_p99) == [error_rate |-> error_rate, latency_p99 |-> latency_p99]

\* A service that is well, that is slow, that nobody calls, and one of which
\* a signal is not observed.
MCReadings ==
  {Reading("good", "good"), Reading("good", "bad"), Reading("undefined", "undefined"),
   Reading("absent", "good")}

VARIABLE part   \* the part that runs

Parts == {"connector", "ingestion", "overload", "monitoring", "webhook", "verification", "auto",
          "ingesting", "scoring", "serving", "fusion", "diagnosis", "checkpoint", "evaluation"}

OneTask == CHOOSE k \in Tasks : TRUE

componentsVars ==
  <<part, connectorVars, ingestionVars, intakeVars, verificationVars,
    autoVars, knowledgeVars, fusionVars, diagnosisVars, checkpointVars, evaluationVars>>

(* Only the diagnosis itself is started in each of the ways it may start.  *)
ComponentsInit ==
  /\ part \in Parts
  /\ ConnectorInit
  /\ IngestionInit
  /\ IntakeInit
  /\ VerificationInit
  /\ AutoInit
  /\ KnowledgeInit
  /\ FusionInit
  /\ DiagnosisInit
  /\ CheckpointInit
  /\ EvaluationInit
  /\ part # "diagnosis" => ~critical /\ vendors = {"prometheus"}

-----------------------------------------------------------------------------
ConnectorPart ==
  /\ part = "connector"
  /\ ConnectorNext
  /\ UNCHANGED <<part, ingestionVars, intakeVars, verificationVars, autoVars, knowledgeVars,
                  fusionVars, diagnosisVars, checkpointVars, evaluationVars>>

DatadogObservesNothing == \A s \in Series : s[1] = "datadog" => published[s] = {}

DatadogTakesNoTime == poller["datadog"].at = "fetching" => poller["datadog"].asked = clock

NothingOfDatadogIsQueued == \A k \in DOMAIN queue : queue[k].series[1] # "datadog"

AllGoesWell ==
  /\ consuming
  /\ escalations = [waiting |-> 0, running |-> 0]
  /\ \A v \in Polled : poller[v].errors = 0 /\ poller[v].failures = 0

IngestionPart ==
  /\ part = "ingestion"
  /\ IngestionNext
  /\ DatadogObservesNothing' /\ DatadogTakesNoTime' /\ NothingOfDatadogIsQueued'
  /\ UNCHANGED <<part, connectorVars, intakeVars, verificationVars, autoVars, knowledgeVars,
                  fusionVars, diagnosisVars, checkpointVars, evaluationVars>>

OverloadPart ==
  /\ part = "overload"
  /\ IngestionNext
  /\ DatadogObservesNothing' /\ DatadogTakesNoTime' /\ AllGoesWell'
  /\ UNCHANGED <<part, connectorVars, intakeVars, verificationVars, autoVars, knowledgeVars,
                  fusionVars, diagnosisVars, checkpointVars, evaluationVars>>

MonitoringPart ==
  /\ part = "monitoring"
  /\ MonitoringNext
  /\ UNCHANGED <<part, connectorVars, ingestionVars, verificationVars, autoVars, knowledgeVars,
                  fusionVars, diagnosisVars, checkpointVars, evaluationVars>>

WebhookPart ==
  /\ part = "webhook"
  /\ WebhookNext
  /\ UNCHANGED <<part, connectorVars, ingestionVars, verificationVars, autoVars, knowledgeVars,
                  fusionVars, diagnosisVars, checkpointVars, evaluationVars>>

VerificationPart ==
  /\ part = "verification"
  /\ VerificationNext
  /\ UNCHANGED <<part, connectorVars, ingestionVars, intakeVars, autoVars, knowledgeVars,
                  fusionVars, diagnosisVars, checkpointVars, evaluationVars>>

AutoPart ==
  /\ part = "auto"
  /\ AutoNext
  /\ UNCHANGED <<part, connectorVars, ingestionVars, intakeVars, verificationVars, knowledgeVars,
                  fusionVars, diagnosisVars, checkpointVars, evaluationVars>>

IngestingPart ==
  /\ part = "ingesting"
  /\ \E k \in Tasks : TaskNext(k)
  /\ UNCHANGED <<part, connectorVars, ingestionVars, intakeVars, verificationVars, autoVars,
                  fusionVars, diagnosisVars, checkpointVars, evaluationVars>>

ScoringPart ==
  /\ part = "scoring"
  /\ \/ \E k \in Tasks : k = OneTask /\ TaskNext(k)
     \/ ScoreGuardNext
  /\ UNCHANGED <<part, connectorVars, ingestionVars, intakeVars, verificationVars, autoVars,
                  fusionVars, diagnosisVars, checkpointVars, evaluationVars>>

ServingPart ==
  /\ part = "serving"
  /\ \/ \E k \in Tasks : k = OneTask /\ TaskNext(k)
     \/ SearchNext
  /\ UNCHANGED <<part, connectorVars, ingestionVars, intakeVars, verificationVars, autoVars,
                  fusionVars, diagnosisVars, checkpointVars, evaluationVars>>

FusionPart ==
  /\ part = "fusion"
  /\ FusionNext
  /\ UNCHANGED <<part, connectorVars, ingestionVars, intakeVars, verificationVars, autoVars,
                  knowledgeVars, diagnosisVars, checkpointVars, evaluationVars>>

DiagnosisPart ==
  /\ part = "diagnosis"
  /\ DiagnosisNext
  /\ UNCHANGED <<part, connectorVars, ingestionVars, intakeVars, verificationVars, autoVars,
                  knowledgeVars, fusionVars, checkpointVars, evaluationVars>>

CheckpointPart ==
  /\ part = "checkpoint"
  /\ CheckpointNext
  /\ UNCHANGED <<part, connectorVars, ingestionVars, intakeVars, verificationVars, autoVars,
                  knowledgeVars, fusionVars, diagnosisVars, evaluationVars>>

EvaluationPart ==
  /\ part = "evaluation"
  /\ EvaluationNext
  /\ UNCHANGED <<part, connectorVars, ingestionVars, intakeVars, verificationVars, autoVars,
                  knowledgeVars, fusionVars, diagnosisVars, checkpointVars>>

ComponentsNext ==
  \/ ConnectorPart
  \/ IngestionPart
  \/ OverloadPart
  \/ MonitoringPart
  \/ WebhookPart
  \/ VerificationPart
  \/ AutoPart
  \/ IngestingPart
  \/ ScoringPart
  \/ ServingPart
  \/ FusionPart
  \/ DiagnosisPart
  \/ CheckpointPart
  \/ EvaluationPart

(* IngestionFairness, of the behaviours in which ingestion runs.           *)
Running(A) == part \in {"ingestion", "overload"} /\ A

ComponentsFairness ==
  /\ \A v \in Polled :
       /\ WF_ingestionVars(Running(Poll(v)))
       /\ WF_ingestionVars(Running(\E reply \in Replies : EndFetch(v, reply)))
       /\ \A i \in DOMAIN Watched :
            SF_ingestionVars(Running(poller[v].next = i /\ queue = <<>> /\ EndFetch(v, "points")))
  /\ WF_ingestionVars(Running(\E suspicious \in SUBSET WatchedServices : Consume(suspicious)))
  /\ WF_ingestionVars(Running(BeginEscalation))
  /\ WF_ingestionVars(Running(EndEscalation))

ComponentsSpec == ComponentsInit /\ [][ComponentsNext]_componentsVars /\ ComponentsFairness

-----------------------------------------------------------------------------

(* Every component's variables stay within the values its code can give    *)
(* them: indexes and counters in range, records of the shape the next      *)
(* reader expects.                                                         *)
ComponentsTypeOK ==
  /\ ConnectorTypeOK
  /\ IngestionTypeOK
  /\ IntakeTypeOK
  /\ VerificationTypeOK
  /\ AutoTypeOK
  /\ KnowledgeTypeOK
  /\ FusionTypeOK
  /\ DiagnosisTypeOK
  /\ CheckpointTypeOK
  /\ EvaluationTypeOK

=============================================================================
