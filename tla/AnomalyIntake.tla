---------------------------- MODULE AnomalyIntake ----------------------------
(***************************************************************************)
(* How anomalies get into the pipeline.  The monitoring agent reasons with *)
(* tool calls about one telemetry event of a batch after the other, within *)
(* a token budget; the Alertmanager webhook takes the alerts of a payload  *)
(* one after the other, and is called again when it failed.                *)
(*                                                                         *)
(* Confidences are percentages.  A text is the set of the keywords in it.  *)
(* What the pipeline does with an anomaly is EpisodicDedup's subject: here *)
(* an alert is suppressed, becomes an incident, or its pipeline raises.    *)
(***************************************************************************)
EXTENDS Naturals, Sequences, FiniteSets

CONSTANTS
  Threshold,     \* anomaly_confidence_threshold
  Budget,        \* LLMCostTracker.max_tokens
  Costs,         \* tokens a call may take; 0 when the reply reports no usage
  Confidences,   \* the confidences an answer may claim
  BatchSize,     \* telemetry events of the batch
  Payloads,      \* the webhook payloads
  MaxDeliveries  \* bound: calls of the webhook

MaxIterations == 5

ServiceLabels == <<"service", "service_name", "app", "job", "deployment", "pod", "instance">>

AnomalyTypes == {"latency_spike", "error_rate", "resource_saturation", "fraud_signal", "security",
                 "data_quality", "volume_anomaly"}

SeverityMap ==
  [critical |-> "critical", page |-> "critical", high |-> "high", error |-> "high",
   warning |-> "medium", medium |-> "medium", info |-> "low", low |-> "low"]

Alert == [firing : BOOLEAN, labels : SUBSET ({ServiceLabels[i] : i \in DOMAIN ServiceLabels} \X STRING),
          severity : STRING, words : SUBSET STRING]

ASSUME IntakeAssumption ==
  /\ {Threshold, Budget, BatchSize, MaxDeliveries} \subseteq Nat
  /\ Threshold > 50
  /\ Budget > 0 /\ Costs # {}
  /\ Costs \subseteq Nat /\ Confidences \subseteq Nat
  /\ \A payload \in Payloads : payload \in Seq(Alert)

VARIABLES
  batch,     \* telemetry events of the batch that are not done
  loop,      \* _run_react_loop for the event being processed
  webhook,   \* the webhook's handler
  seen,      \* keys in AlertDeduplicator's table
  begun,     \* history: pipelines begun for each key, in its present window and at all
  deliveries \* calls of the webhook so far

intakeVars == <<batch, loop, webhook, seen, begun, deliveries>>

Nothing == [severity |-> "none", type |-> "none", confidence |-> 0, parsed |-> FALSE]

-----------------------------------------------------------------------------
(* The monitoring agent.                                                   *)

\* json: an object.  prose: anything json.loads refuses.  null: an object with
\* a null where a number is expected, which is no ValueError.
Answers == [form : {"json", "prose", "null"}, severity : {"high", "urgent"},
            type : {"error_rate", "none"}, confidence : Confidences]

Fallback == [severity |-> "medium", type |-> "latency_spike", confidence |-> 50, parsed |-> FALSE]

(* _parse_response: an unknown type is replaced, an unknown severity or a  *)
(* confidence out of range makes a fallback of the whole.                  *)
ParseResponse(answer) ==
  IF /\ answer.form = "json"
     /\ answer.severity \in {SeverityMap[word] : word \in DOMAIN SeverityMap}
     /\ answer.confidence <= 100
  THEN [severity |-> answer.severity, confidence |-> answer.confidence, parsed |-> TRUE,
        type |-> IF answer.type \in AnomalyTypes THEN answer.type ELSE "latency_spike"]
  ELSE Fallback

ExceededLater(tokens) == tokens > Budget   \* mutant: equality is within the budget

BudgetExceeded(tokens) == tokens >= Budget

NewLoop == [at |-> "thinking", iteration |-> 0, tokens |-> 0, anomaly |-> Nothing]

(* ainvoke returns and the call is tracked: a call that reached the budget *)
(* raises, after it was paid for.  Otherwise tools are asked for or the    *)
(* answer is given, and an answer with a null raises as well.              *)
Tracked(cost) == loop.tokens + cost

CallModel(cost, next) ==
  /\ loop.at = "thinking"
  /\ loop' = IF cost > 0 /\ BudgetExceeded(Tracked(cost))
             THEN [loop EXCEPT !.tokens = Tracked(cost), !.at = "raised"]
             ELSE [next EXCEPT !.tokens = Tracked(cost)]
  /\ UNCHANGED <<batch, webhook, seen, begun, deliveries>>

AskForTools(cost) == CallModel(cost, [loop EXCEPT !.at = "tools"])

(* process_event: an anomaly needs the configured confidence.              *)
Answer(cost, answer) ==
  LET found == ParseResponse(answer) IN
  CallModel(cost, IF answer.form = "null" THEN [loop EXCEPT !.at = "raised"]
                  ELSE [loop EXCEPT !.at = "done",
                                    !.anomaly = IF found.confidence >= Threshold THEN found ELSE Nothing])

(* The tools of one reply were run: an unknown one is answered with an     *)
(* error message, one that raises ends the processing of the event.        *)
EndTools(raises) ==
  LET iteration == loop.iteration + 1 IN
  /\ loop.at = "tools"
  /\ loop' = [loop EXCEPT !.iteration = iteration,
                          !.at = IF raises THEN "raised"
                                 ELSE IF iteration = MaxIterations THEN "done" ELSE "thinking"]
  /\ UNCHANGED <<batch, webhook, seen, begun, deliveries>>

(* run_batch and run_streaming: an event whose processing raised is        *)
(* skipped; the anomaly of one that did not goes through the pipeline,     *)
(* whatever becomes of it, before the next event begins.                   *)
NextEvent ==
  /\ batch > 1
  /\ loop.at \in {"done", "raised"}
  /\ batch' = batch - 1
  /\ loop' = NewLoop
  /\ UNCHANGED <<webhook, seen, begun, deliveries>>

-----------------------------------------------------------------------------
(* The Alertmanager webhook.                                               *)

\* Each keyword set with its type, in the order they are tried.
TypeKeywords ==
  << <<{"latency", "slow", "duration", "p99", "p95"}, "latency_spike">>,
     <<{"error", "5xx", "failure", "failed"}, "error_rate">>,
     <<{"cpu", "memory", "disk", "saturation", "oom", "lag"}, "resource_saturation">>,
     <<{"fraud"}, "fraud_signal">>,
     <<{"security", "auth", "intrusion"}, "security">>,
     <<{"quality", "schema", "stale"}, "data_quality">>,
     <<{"volume", "traffic", "rate"}, "volume_anomaly">> >>

Classify(words) ==
  LET matching == {i \in DOMAIN TypeKeywords : TypeKeywords[i][1] \cap words # {}} IN
  IF matching = {} THEN "error_rate"
  ELSE TypeKeywords[CHOOSE i \in matching : \A j \in matching : i <= j][2]

(* _resolve_service: the first label in the list that has a value.         *)
Valued(alert) ==
  {i \in DOMAIN ServiceLabels : \E label \in alert.labels : label[1] = ServiceLabels[i] /\ label[2] # ""}

ResolveService(alert) ==
  LET first == CHOOSE i \in Valued(alert) : \A j \in Valued(alert) : i <= j
  IN (CHOOSE label \in alert.labels : label[1] = ServiceLabels[first])[2]

SeverityOf(alert) ==
  IF alert.severity \in DOMAIN SeverityMap THEN SeverityMap[alert.severity] ELSE "medium"

Scoped(alert) == alert.firing /\ Valued(alert) # {}

(* parse_alertmanager_payload, as far as the pipeline's key sees it:       *)
(* make_alert_key leaves the severity out.                                 *)
Key(alert) == [service |-> ResolveService(alert), type |-> Classify(alert.words)]

ParseUpToResolved(payload) ==   \* mutant: parsing ends at the first alert that is skipped
  LET upTo == {n \in 0..Len(payload) : \A i \in 1..n : Scoped(payload[i])}
      last == CHOOSE n \in upTo : \A m \in upTo : m <= n
  IN [i \in 1..last |-> Key(payload[i])]

Parse(payload) ==
  LET upTo[n \in 0..Len(payload)] ==
        IF n = 0 THEN <<>>
        ELSE IF Scoped(payload[n]) THEN Append(upTo[n - 1], Key(payload[n]))
        ELSE upTo[n - 1]
  IN upTo[Len(payload)]

NoWebhook == [at |-> "none", payload |-> <<>>, next |-> 1, started |-> 0, suppressed |-> 0]

(* A call begins; after a failed one Alertmanager sends the same again.    *)
Deliver(payload) ==
  /\ deliveries < MaxDeliveries
  /\ webhook.at \in {"none", "accepted", "failed"}
  /\ webhook.at = "failed" => payload = webhook.payload
  /\ deliveries' = deliveries + 1
  /\ webhook' = [NoWebhook EXCEPT !.at = "handling", !.payload = payload]
  /\ UNCHANGED <<batch, loop, seen, begun>>

(* process_anomaly for the next alert: the key is marked as seen before    *)
(* the pipeline begins, so it stays marked if that raises, which ends the  *)
(* whole call with the alerts that are left.                               *)
HandleAlertMarkingLast(outcome) ==   \* mutant: the key is marked when the pipeline has succeeded
  LET key == Parse(webhook.payload)[webhook.next] IN
  /\ webhook.at = "handling"
  /\ webhook.next <= Len(Parse(webhook.payload))
  /\ key \in seen => outcome = "suppressed"
  /\ seen' = IF outcome = "raises" THEN seen ELSE seen \cup {key}
  /\ begun' = IF key \in seen THEN begun
              ELSE [begun EXCEPT ![key] = [lately |-> @.lately + 1, ever |-> TRUE]]
  /\ webhook' = [webhook EXCEPT !.next = @ + 1,
                                !.at = IF outcome = "raises" THEN "failed" ELSE @,
                                !.started = @ + (IF outcome = "incident" THEN 1 ELSE 0),
                                !.suppressed = @ + (IF outcome = "suppressed" THEN 1 ELSE 0)]
  /\ UNCHANGED <<batch, loop, deliveries>>

HandleAlert(outcome) ==
  LET key == Parse(webhook.payload)[webhook.next] IN
  /\ webhook.at = "handling"
  /\ webhook.next <= Len(Parse(webhook.payload))
  /\ key \in seen => outcome = "suppressed"
  /\ seen' = seen \cup {key}
  /\ begun' = IF key \in seen THEN begun
              ELSE [begun EXCEPT ![key] = [lately |-> @.lately + 1, ever |-> TRUE]]
  /\ webhook' = [webhook EXCEPT !.next = @ + 1,
                                !.at = IF outcome = "raises" THEN "failed" ELSE @,
                                !.started = @ + (IF outcome = "incident" THEN 1 ELSE 0),
                                !.suppressed = @ + (IF outcome = "suppressed" THEN 1 ELSE 0)]
  /\ UNCHANGED <<batch, loop, deliveries>>

(* The reply, with the numbers of alerts and investigations.               *)
Accept ==
  /\ webhook.at = "handling"
  /\ webhook.next > Len(Parse(webhook.payload))
  /\ webhook' = [webhook EXCEPT !.at = "accepted"]
  /\ UNCHANGED <<batch, loop, seen, begun, deliveries>>

(* The dedup window of a key is over.                                      *)
EndWindow(key) ==
  /\ key \in seen
  /\ seen' = seen \ {key}
  /\ begun' = [begun EXCEPT ![key].lately = 0]
  /\ UNCHANGED <<batch, loop, webhook, deliveries>>

-----------------------------------------------------------------------------

Keys == UNION {{Key(payload[i]) : i \in {j \in DOMAIN payload : Scoped(payload[j])}} : payload \in Payloads}

IntakeInit ==
  /\ batch = BatchSize
  /\ loop = NewLoop
  /\ webhook = NoWebhook
  /\ seen = {}
  /\ begun = [key \in Keys |-> [lately |-> 0, ever |-> FALSE]]
  /\ deliveries = 0

MonitoringNext ==
  \/ \E cost \in Costs : AskForTools(cost)
  \/ \E cost \in Costs, answer \in Answers : Answer(cost, answer)
  \/ \E raises \in BOOLEAN : EndTools(raises)
  \/ NextEvent

WebhookNext ==
  \/ \E payload \in Payloads : Deliver(payload)
  \/ \E outcome \in {"incident", "suppressed", "raises"} : HandleAlert(outcome)
  \/ Accept
  \/ \E key \in Keys : EndWindow(key)

IntakeNext == MonitoringNext \/ WebhookNext

IntakeSpec == IntakeInit /\ [][IntakeNext]_intakeVars

-----------------------------------------------------------------------------

Anomaly == [severity : {"none"} \cup {SeverityMap[word] : word \in DOMAIN SeverityMap},
            type : {"none"} \cup AnomalyTypes, confidence : 0..100, parsed : BOOLEAN]

IntakeTypeOK ==
  /\ batch \in 0..BatchSize
  /\ loop \in [at : {"thinking", "tools", "done", "raised"}, iteration : 0..MaxIterations,
               tokens : Nat, anomaly : Anomaly]
  /\ webhook \in [at : {"none", "handling", "accepted", "failed"}, payload : Payloads \cup {<<>>},
                  next : 1..(Len(webhook.payload) + 1), started : Nat, suppressed : Nat]
  /\ seen \subseteq Keys
  /\ begun \in [Keys -> [lately : Nat, ever : BOOLEAN]]
  /\ deliveries \in 0..MaxDeliveries

(* The budget is found exceeded after the call that did it was paid for:   *)
(* still the calls of the monitoring loop never cost an event more than    *)
(* the budget and one call.  (A reply without usage is not counted, and    *)
(* neither is the diagnosis.)  LLMCostTracker.track, utils.py:292.         *)
OvershootIsOneCall == \E cost \in Costs : loop.tokens < Budget + cost

(* A redelivered payload investigates nothing twice: within its window the *)
(* pipeline begins once for a key, even if it raised and the webhook, which*)
(* it failed, is called again.  alertmanager_webhook, api.py:466.          *)
RedeliveryRepeatsNothing == \A key \in Keys : begun[key].lately <= 1

(* A payload that was accepted leaves no firing alert of a known service   *)
(* out: the pipeline has begun for its key, in this call or in an earlier  *)
(* one.  It need not have succeeded: an alert whose pipeline raised is     *)
(* suppressed when the payload comes again.                                *)
AcceptedLeavesNoneOut ==
  webhook.at = "accepted" =>
    \A i \in DOMAIN webhook.payload : Scoped(webhook.payload[i]) => begun[Key(webhook.payload[i])].ever

=============================================================================
