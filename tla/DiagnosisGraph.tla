---------------------------- MODULE DiagnosisGraph ----------------------------
(***************************************************************************)
(* One diagnosis (agents/diagnosis/graph.py): evidence is collected        *)
(* service by service, a runbook is looked up, a supervisor dispatches     *)
(* experts that investigate concurrently, and their reports are put        *)
(* together into a result whose claims are then cut back to the evidence.  *)
(* The state of a diagnosis is its own; the failures are those of the      *)
(* sources (survived and named as gaps) and of the model (fatal).          *)
(***************************************************************************)
EXTENDS Integers, FiniteSets, Sequences, TelemetryAdapters, HypothesisGrounding

CONSTANTS
  Affected,        \* the services of the anomaly, in order
  MaxServices,     \* how many of them are examined
  Metrics,         \* the metrics asked for
  AdapterSets,     \* the sets of vendors that may be active
  Experts,         \* the experts that can be dispatched
  DefaultExpert,   \* the one dispatched when no other is
  RawHypotheses,   \* hypotheses the model may state: support, contra, band
  RawConfidences   \* confidences it may state; over 100 is no confidence

ASSUME DiagnosisAssumption ==
  /\ Affected \in Seq({Affected[i] : i \in DOMAIN Affected})
  /\ MaxServices \in Nat
  /\ DefaultExpert \in Experts
  /\ \A adapters \in AdapterSets : adapters # {}
  /\ RawConfidences \subseteq Nat
  /\ \A h \in RawHypotheses : h.band \in Bands /\ IsFiniteSet(h.support) /\ IsFiniteSet(h.contra)

VARIABLES
  at,          \* the node, or the step of a node, the diagnosis is in
  critical,    \* whether the anomaly is critical
  vendors,     \* the vendors of the adapter
  examined,    \* how many services have been asked about
  timeline,    \* evidence_timeline: the items collected
  gaps,        \* missing_sources
  dispatched,  \* the experts under way or done
  reports,     \* sub_agent_reports: the experts that have reported
  result       \* the DiagnosisResult, NoResult before it exists

diagnosisVars == <<at, critical, vendors, examined, timeline, gaps, dispatched, reports, result>>

-----------------------------------------------------------------------------

Whole == "*"

Item(source, service, metric) == [source |-> source, service |-> service, metric |-> metric]
Deployment == Item("github", "repository", "deployment")

Gap(service, metric) == <<service, metric>>
AdapterGap == Gap("telemetry_adapter", Whole)
DeploymentGap == Gap("github", "deployments")
ModelGap == Gap("model", "structured_output")

NoResult == [missing |-> {}, confidence |-> -1, hypotheses |-> << >>, acts |-> FALSE]

DiagnosisInit ==
  /\ at = "collect"
  /\ critical \in BOOLEAN
  /\ vendors \in AdapterSets
  /\ examined = 0
  /\ timeline = {} /\ gaps = {}
  /\ dispatched = {} /\ reports = {}
  /\ result = NoResult

-----------------------------------------------------------------------------
(* gather_context.                                                         *)

Examinable == 1 .. Capped(Len(Affected), MaxServices)

(* The vendors asked about one service: what each answers (simulated       *)
(* values are never missing), and the metrics in the records that come     *)
(* through.                                                                *)
VendorAnswers ==
  {a \in [vendors -> [reply : Replies, metrics : SUBSET Metrics]] :
    \A v \in vendors : v = "simulator" => a[v] = [reply |-> "points", metrics |-> Metrics]}

Collected(service, answers) ==
  UNION {{Item(v, service, m) : m \in answers[v].metrics} :
         v \in {w \in vendors : FetchOutcome(w, answers[w].reply) = "records"}}

UnansweredMetrics(service, items) == {Gap(service, m) : m \in Metrics \ {e.metric : e \in items}}

(* collect_evidence, one service: a failure of whatever kind is a gap of   *)
(* the whole service, a metric without records one of that metric.         *)
CollectService ==
  /\ at = "collect"
  /\ examined + 1 \in Examinable
  /\ examined' = examined + 1
  /\ \E answers \in VendorAnswers :
       LET service == Affected[examined + 1]
           outcome == FanOut([v \in vendors |-> FetchOutcome(v, answers[v].reply)])
           items == IF outcome = "records" THEN Collected(service, answers) ELSE {}
       IN  /\ timeline' = timeline \cup items
           /\ gaps' = gaps \cup (IF outcome = "records" THEN UnansweredMetrics(service, items)
                                 ELSE {Gap(service, Whole)})
  /\ UNCHANGED <<at, critical, vendors, dispatched, reports, result>>

(* collect_deploy_evidence: a source that is not configured is no gap; an  *)
(* exception it does not expect reaches the handler around the collection, *)
(* which keeps the evidence there is.                                      *)
CollectDeployments ==
  /\ at = "collect"
  /\ examined + 1 \notin Examinable
  /\ at' = "summarise"
  /\ \/ UNCHANGED <<timeline, gaps>>
     \/ timeline' = timeline \cup {Deployment} /\ UNCHANGED gaps
     \/ gaps' = gaps \cup {DeploymentGap} /\ UNCHANGED timeline
     \/ gaps' = gaps \cup {AdapterGap} /\ UNCHANGED timeline
  /\ UNCHANGED <<critical, vendors, examined, dispatched, reports, result>>

Summarise ==
  /\ at = "summarise"
  /\ at' = "runbooks"
  /\ UNCHANGED <<critical, vendors, examined, timeline, gaps, dispatched, reports, result>>

-----------------------------------------------------------------------------
(* rag_runbook_lookup: an unhealthy, empty or failing knowledge base is    *)
(* no runbooks, and no gap.  The runbooks are only quoted: the diagnosis   *)
(* goes on in the same way with and without them.                          *)
LookUpRunbooks ==
  /\ at = "runbooks"
  /\ at' = "triage"
  /\ UNCHANGED <<critical, vendors, examined, timeline, gaps, dispatched, reports, result>>

(* supervisor_node: keys it does not know are dropped; an answer that is   *)
(* no list, or none it knows, is the default expert.                       *)
Dispatch ==
  /\ at = "triage"
  /\ at' = "experts"
  /\ \E known \in SUBSET Experts :
       dispatched' = IF known = {} THEN {DefaultExpert} ELSE known
  /\ UNCHANGED <<critical, vendors, examined, timeline, gaps, reports, result>>

(* ExpertAgent.investigate: a failing retrieval is no references.  The     *)
(* node goes on when all have reported.                                    *)
Report(expert) ==
  /\ at = "experts"
  /\ expert \in dispatched \ reports
  /\ reports' = reports \cup {expert}
  /\ at' = IF reports' = dispatched THEN "synthesise" ELSE at
  /\ UNCHANGED <<critical, vendors, examined, timeline, gaps, dispatched, result>>

-----------------------------------------------------------------------------
(* synthesise_rca and the rest of diagnose.                                *)

Diagnosed(missing, confidence, hypotheses, acts) ==
  [missing |-> missing, confidence |-> confidence, hypotheses |-> hypotheses, acts |-> acts]

(* What the result names as missing: what the model says only if nothing   *)
(* was missing when the evidence was collected.                            *)
ModelMissingFirst(stated) ==   \* mutant: the model has the first word
  IF stated # {} THEN stated ELSE gaps

MissingSources(stated) == IF gaps # {} THEN gaps ELSE stated

\* The sequences of at most two hypotheses the model may state.
Stated == {<< >>} \cup {<<h>> : h \in RawHypotheses} \cup {<<g, h>> : g, h \in RawHypotheses}

Synthesise ==
  /\ at = "synthesise"
  /\ \/ \E stated \in Stated, confidence \in RawConfidences, acts \in BOOLEAN,
           missing \in {{}, {ModelGap}} :
          LET hypotheses == [i \in DOMAIN stated |-> Grounded(stated[i], timeline)]
          IN  IF OverallConfidence(confidence, hypotheses, timeline) > 100
              THEN at' = "failed" /\ UNCHANGED result
              ELSE /\ at' = "done"
                   /\ result' = Diagnosed(MissingSources(missing),
                                          OverallConfidence(confidence, hypotheses, timeline),
                                          hypotheses, acts /\ ~ critical)
     \/ \* an answer that cannot be parsed
        /\ at' = "done"
        /\ result' = Diagnosed(MissingSources({ModelGap}), 0, << >>, FALSE)
  /\ UNCHANGED <<critical, vendors, examined, timeline, gaps, dispatched, reports>>

(* A call of the model that fails, an expert's too, fails the diagnosis.   *)
ModelFails ==
  /\ at \in {"summarise", "triage", "experts", "synthesise"}
  /\ at' = "failed"
  /\ UNCHANGED <<critical, vendors, examined, timeline, gaps, dispatched, reports, result>>

DiagnosisNext ==
  \/ CollectService \/ CollectDeployments \/ Summarise
  \/ LookUpRunbooks \/ Dispatch
  \/ \E expert \in Experts : Report(expert)
  \/ Synthesise
  \/ ModelFails

DiagnosisSpec == DiagnosisInit /\ [][DiagnosisNext]_diagnosisVars

-----------------------------------------------------------------------------

Items ==
  {Item(v, s, m) : v \in UNION AdapterSets, s \in {Affected[i] : i \in DOMAIN Affected}, m \in Metrics}
    \cup {Deployment}

DiagnosisTypeOK ==
  /\ at \in {"collect", "summarise", "runbooks", "triage", "experts", "synthesise", "done", "failed"}
  /\ critical \in BOOLEAN
  /\ vendors \in AdapterSets
  /\ examined \in 0 .. Len(Affected)
  /\ timeline \subseteq Items
  /\ reports \subseteq dispatched /\ dispatched \subseteq Experts
  /\ result = NoResult \/ result.confidence \in 0 .. 100

(* A source that could not be asked, or had nothing, is never passed over  *)
(* in silence: whatever the model says in its answer, the result has an    *)
(* item of evidence for each examined service and metric or names the      *)
(* metric, the service or the whole adapter as missing.                    *)
GapsAreNamed ==
  at = "done" =>
    \A i \in Examinable, m \in Metrics :
      \/ \E e \in timeline : e.service = Affected[i] /\ e.metric = m
      \/ {Gap(Affected[i], m), Gap(Affected[i], Whole), AdapterGap} \cap result.missing # {}

(* No claim without evidence: a diagnosis more than 40% sure has a         *)
(* hypothesis supported by something observed that is no simulation, one   *)
(* more than 70% sure has a hypothesis with two such citations and nothing *)
(* against it, whatever the model cited and said of its confidence.        *)
Backing(h) == {c \in h.support : c.item \in timeline /\ c.item.source # "simulator"}

ConfidenceIsGrounded ==
  /\ result.confidence > 40 =>
       \E i \in DOMAIN result.hypotheses : Backing(result.hypotheses[i]) # {}
  /\ result.confidence > 70 =>
       \E i \in DOMAIN result.hypotheses :
         /\ Cardinality(Backing(result.hypotheses[i])) >= 2
         /\ result.hypotheses[i].contra = {}

=============================================================================
