--------------------------- MODULE ObservationProofs ---------------------------
(***************************************************************************)
(* What the program makes of what it observes: theorems of the ways into   *)
(* the pipeline for every set of payloads, every token budget and cost of  *)
(* a call, of the verification of a recovery for every set of vendors and  *)
(* every window, and of live ingestion for all vendors, services, windows, *)
(* steps and capacities.                                                   *)
(***************************************************************************)
EXTENDS AnomalyIntake, RecoveryVerification, LiveIngestion,
        FiniteSetTheorems, FunctionTheorems, NaturalsInduction, WellFoundedInduction, TLAPS

(* Induction over the natural numbers, for a set of them: the library      *)
(* states it for a predicate.                                              *)
LEMMA SetInduction ==
  ASSUME NEW S, 0 \in S, \A n \in Nat : n \in S => n + 1 \in S
  PROVE  Nat \subseteq S
<1> DEFINE T == Nat \ S
           R == {ss \in Nat \X Nat : ss[1] < ss[2]}
<1>1. IsWellFoundedOn(R, Nat)
  BY NatLessThanWellFounded DEF OpToRel
<1> SUFFICES ASSUME T # {} PROVE FALSE
  OBVIOUS
<1>2. PICK x \in T : \A y \in T : ~(<<y, x>> \in R)
  <2> HIDE DEF R, T
  <2>1. T \subseteq Nat
    BY DEF T
  <2> QED
    BY <1>1, <2>1, WFMin
<1>3. x \in Nat /\ x # 0
  OBVIOUS
<1>4. x - 1 \in Nat /\ x - 1 < x
  BY <1>3
<1>5. x - 1 \notin T
  BY <1>2, <1>3, <1>4
<1>6. (x - 1) + 1 \in S
  BY <1>4, <1>5
<1> QED
  BY <1>3, <1>6

-----------------------------------------------------------------------------
(* What a payload is parsed to.                                            *)

\* f is the loop of parse_alertmanager_payload over the first m alerts.
IsParse(f, payload, m) ==
  f = [n \in 0..m |-> IF n = 0 THEN <<>>
                      ELSE IF Scoped(payload[n]) THEN Append(f[n - 1], Key(payload[n]))
                      ELSE f[n - 1]]

(* The loop can be run over every number of alerts.                        *)
LEMMA ParseExists ==
  ASSUME NEW payload, NEW m \in Nat
  PROVE  \E f : IsParse(f, payload, m)
<1> DEFINE S == {k \in Nat : \E f : IsParse(f, payload, k)}
<1>1. 0 \in S
  <2> DEFINE f == [n \in 0..0 |-> <<>>]
  <2>1. \A n \in 0..0 : n = 0
    OBVIOUS
  <2>2. f = [n \in 0..0 |-> IF n = 0 THEN <<>>
                      ELSE IF Scoped(payload[n]) THEN Append(f[n - 1], Key(payload[n]))
                      ELSE f[n - 1]]
    BY <2>1
  <2>3. IsParse(f, payload, 0)
    BY <2>2 DEF IsParse
  <2> QED
    BY <2>3
<1>2. ASSUME NEW k \in Nat, k \in S PROVE k + 1 \in S
  <2>1. PICK f : IsParse(f, payload, k)
    BY <1>2
  <2> DEFINE next(h, n) == IF n = 0 THEN <<>>
                           ELSE IF Scoped(payload[n]) THEN Append(h[n - 1], Key(payload[n]))
                           ELSE h[n - 1]
             g == [n \in 0..(k + 1) |-> next(f, n)]
  <2>2. f = [n \in 0..k |-> next(f, n)]
    BY <2>1 DEF IsParse
  <2>3. ASSUME NEW n \in 0..k PROVE g[n] = f[n]
    <3> HIDE DEF next
    <3> QED
      BY <2>2
  <2>4. ASSUME NEW n \in 0..(k + 1) PROVE next(f, n) = next(g, n)
    <3>1. CASE n = 0
      BY <3>1
    <3>2. CASE n # 0
      <4>1. n - 1 \in 0..k
        BY <3>2
      <4>2. g[n - 1] = f[n - 1]
        BY <2>3, <4>1
      <4> QED
        BY <4>2
    <3> QED
      BY <3>1, <3>2
  <2>5. g = [n \in 0..(k + 1) |-> next(g, n)]
    BY <2>4
  <2>6. IsParse(g, payload, k + 1)
    BY <2>5 DEF IsParse
  <2> QED
    BY <2>6
<1> HIDE DEF S
<1>3. Nat \subseteq S
  BY <1>1, <1>2, SetInduction
<1> QED
  BY <1>3 DEF S

\* The alerts of a payload that are investigated.
ScopedKeys(payload) == {Key(payload[i]) : i \in {j \in DOMAIN payload : Scoped(payload[j])}}

(* Every alert that fires for a known service is parsed, and nothing else: *)
(* the order of the alerts and those that are passed over do not matter.   *)
LEMMA ParseIsComplete ==
  ASSUME NEW A, NEW payload \in Seq(A)
  PROVE  /\ Parse(payload) \in Seq(ScopedKeys(payload))
         /\ Len(Parse(payload)) <= Len(payload)
         /\ \A i \in DOMAIN payload : Scoped(payload[i]) =>
              \E k \in 1..Len(Parse(payload)) : Parse(payload)[k] = Key(payload[i])
<1> DEFINE f == CHOOSE h : IsParse(h, payload, Len(payload))
           K == ScopedKeys(payload)
<1>0. Len(payload) \in Nat /\ DOMAIN payload = 1..Len(payload)
  OBVIOUS
<1>1. IsParse(f, payload, Len(payload))
  BY <1>0, ParseExists
<1>2. Parse(payload) = f[Len(payload)]
  BY DEF Parse, IsParse
<1> HIDE DEF f, K
<1> DEFINE Done(n) == /\ f[n] \in Seq(K)
                      /\ Len(f[n]) <= n
                      /\ \A i \in 1..n : Scoped(payload[i]) =>
                           \E k \in 1..Len(f[n]) : f[n][k] = Key(payload[i])
           S == {n \in Nat : n <= Len(payload) => Done(n)}
<1>3. 0 \in S
  <2>1. f[0] = <<>>
    BY <1>0, <1>1 DEF IsParse
  <2>2. <<>> \in Seq(K) /\ Len(<<>>) = 0
    OBVIOUS
  <2>3. Done(0)
    BY <2>1, <2>2
  <2> QED
    BY <2>3
<1>4. ASSUME NEW n \in Nat, n \in S PROVE n + 1 \in S
  <2> SUFFICES ASSUME n + 1 <= Len(payload) PROVE Done(n + 1)
    <3> HIDE DEF Done
    <3> QED
      OBVIOUS
  <2>1. Done(n)
    BY <1>0, <1>4
  <2>2. n + 1 \in 0..Len(payload) /\ n + 1 # 0 /\ (n + 1) - 1 = n /\ n + 1 \in DOMAIN payload
    BY <1>0
  <2>3. f[n + 1] = IF Scoped(payload[n + 1]) THEN Append(f[n], Key(payload[n + 1])) ELSE f[n]
    BY <1>1, <2>2 DEF IsParse
  <2>4. CASE Scoped(payload[n + 1])
    <3> DEFINE key == Key(payload[n + 1])
    <3>1. key \in K
      BY <2>2, <2>4 DEF K, ScopedKeys
    <3>2. f[n + 1] = Append(f[n], key)
      BY <2>3, <2>4
    <3> HIDE DEF key
    <3>3. /\ f[n + 1] \in Seq(K) /\ Len(f[n + 1]) = Len(f[n]) + 1
          /\ f[n + 1][Len(f[n]) + 1] = key
          /\ \A k \in 1..Len(f[n]) : f[n + 1][k] = f[n][k]
      BY <2>1, <3>1, <3>2
    <3>4. ASSUME NEW i \in 1..(n + 1), Scoped(payload[i])
          PROVE  \E k \in 1..Len(f[n + 1]) : f[n + 1][k] = Key(payload[i])
      <4>1. CASE i = n + 1
        <5>1. Len(f[n]) + 1 \in 1..Len(f[n + 1])
          BY <2>1, <3>3
        <5> QED
          BY <3>3, <4>1, <5>1 DEF key
      <4>2. CASE i # n + 1
        <5>1. i \in 1..n
          BY <4>2
        <5>2. PICK k \in 1..Len(f[n]) : f[n][k] = Key(payload[i])
          BY <2>1, <3>4, <5>1
        <5>3. k \in 1..Len(f[n + 1])
          BY <2>1, <3>3
        <5> QED
          BY <3>3, <5>2, <5>3
      <4> QED
        BY <4>1, <4>2
    <3>5. Len(f[n + 1]) <= n + 1
      BY <2>1, <3>3
    <3> QED
      BY <3>3, <3>4, <3>5
  <2>5. CASE ~Scoped(payload[n + 1])
    <3>1. f[n + 1] = f[n]
      BY <2>3, <2>5
    <3>2. \A i \in 1..(n + 1) : Scoped(payload[i]) => i \in 1..n
      BY <2>5
    <3> QED
      BY <2>1, <3>1, <3>2
  <2> QED
    BY <2>4, <2>5
<1> HIDE DEF S
<1>5. Nat \subseteq S
  BY <1>3, <1>4, SetInduction
<1>6. Done(Len(payload))
  BY <1>0, <1>5 DEF S
<1> QED
  BY <1>0, <1>2, <1>6 DEF K

-----------------------------------------------------------------------------
(* Type correctness.                                                       *)

\* A loop that goes on has not used up its iterations.
LoopGoesOn == loop.at \in {"thinking", "tools"} => loop.iteration < MaxIterations

(* What an answer is parsed to is an anomaly, or none.                     *)
LEMMA ParseResponseTypes ==
  ASSUME NEW answer \in Answers
  PROVE  ParseResponse(answer) \in Anomaly /\ Nothing \in Anomaly
<1>1. answer.confidence \in Nat
  BY IntakeAssumption DEF Answers
<1>2. Fallback \in Anomaly /\ Nothing \in Anomaly
  <2>1. "warning" \in DOMAIN SeverityMap /\ SeverityMap["warning"] = "medium"
    BY DEF SeverityMap
  <2>2. "medium" \in {SeverityMap[word] : word \in DOMAIN SeverityMap}
    BY <2>1
  <2> QED
    BY <2>2 DEF Fallback, Nothing, Anomaly, AnomalyTypes
<1>3. CASE ParseResponse(answer) = Fallback
  BY <1>2, <1>3
<1>4. CASE ParseResponse(answer) # Fallback
  <2>1. /\ answer.severity \in {SeverityMap[word] : word \in DOMAIN SeverityMap}
        /\ answer.confidence <= 100
    BY <1>4 DEF ParseResponse
  <2>2. (IF answer.type \in AnomalyTypes THEN answer.type ELSE "latency_spike") \in AnomalyTypes
    BY DEF AnomalyTypes
  <2>3. answer.confidence \in 0..100
    BY <1>1, <2>1
  <2> DEFINE type == IF answer.type \in AnomalyTypes THEN answer.type ELSE "latency_spike"
  <2>4. ParseResponse(answer) = [severity |-> answer.severity, confidence |-> answer.confidence,
                                 parsed |-> TRUE, type |-> type]
    BY <1>4 DEF ParseResponse
  <2> HIDE DEF type
  <2>5. type \in AnomalyTypes
    BY <2>2 DEF type
  <2> QED
    BY <1>2, <2>1, <2>3, <2>4, <2>5 DEF Anomaly
<1> QED
  BY <1>3, <1>4

Loops == [at : {"thinking", "tools", "done", "raised"}, iteration : 0..MaxIterations,
          tokens : Nat, anomaly : Anomaly]

Webhooks(payload) ==
  [at : {"none", "handling", "accepted", "failed"}, payload : Payloads \cup {<<>>},
   next : 1..(Len(payload) + 1), started : Nat, suppressed : Nat]

IntakeTypes == IntakeTypeOK /\ LoopGoesOn

(* What is parsed of the payload the webhook handles.                      *)
LEMMA ParsedKeys ==
  ASSUME NEW payload \in Payloads \cup {<<>>}
  PROVE  /\ Parse(payload) \in Seq(Keys)
         /\ Len(payload) \in Nat /\ Len(Parse(payload)) <= Len(payload)
         /\ \A i \in DOMAIN payload : Scoped(payload[i]) =>
              \E k \in 1..Len(Parse(payload)) : Parse(payload)[k] = Key(payload[i])
<1>0. <<>> \in Seq(Alert)
  OBVIOUS
<1>1. payload \in Seq(Alert)
  BY <1>0, IntakeAssumption
<1>2. ScopedKeys(payload) \subseteq Keys
  <2>1. CASE payload \in Payloads
    BY <2>1 DEF ScopedKeys, Keys
  <2>2. CASE payload = <<>>
    BY <2>2 DEF ScopedKeys
  <2> QED
    BY <2>1, <2>2
<1>3. Parse(payload) \in Seq(ScopedKeys(payload))
  BY <1>1, ParseIsComplete
<1>4. Parse(payload) \in Seq(Keys)
  BY <1>2, <1>3
<1> QED
  BY <1>1, <1>4, ParseIsComplete

(* The steps of the monitoring agent.                                      *)
LEMMA MonitoringTypes ==
  ASSUME IntakeTypes, MonitoringNext
  PROVE  /\ batch' \in 0..BatchSize /\ loop' \in Loops /\ LoopGoesOn'
         /\ UNCHANGED <<webhook, seen, begun, deliveries>>
<1>0. batch \in 0..BatchSize /\ loop \in Loops /\ LoopGoesOn /\ BatchSize \in Nat
  BY IntakeAssumption DEF IntakeTypes, IntakeTypeOK, Loops
<1>1. ASSUME NEW cost \in Costs, NEW next, CallModel(cost, next),
             next \in Loops, next.iteration = loop.iteration
      PROVE  loop' \in Loops /\ LoopGoesOn' /\ UNCHANGED <<batch, webhook, seen, begun, deliveries>>
  <2>1. Tracked(cost) \in Nat
    BY <1>0, IntakeAssumption DEF Tracked, Loops
  <2>2. loop' = [loop EXCEPT !.tokens = Tracked(cost), !.at = "raised"]
        \/ loop' = [next EXCEPT !.tokens = Tracked(cost)]
    BY <1>1 DEF CallModel
  <2> QED
    BY <1>0, <1>1, <2>1, <2>2 DEF CallModel, Loops, LoopGoesOn
<1>2. CASE \E cost \in Costs : AskForTools(cost)
  <2>1. [loop EXCEPT !.at = "tools"] \in Loops /\ [loop EXCEPT !.at = "tools"].iteration = loop.iteration
    BY <1>0 DEF Loops
  <2> QED
    BY <1>0, <1>1, <1>2, <2>1 DEF AskForTools
<1>3. CASE \E cost \in Costs, answer \in Answers : Answer(cost, answer)
  <2>1. PICK cost \in Costs, answer \in Answers : Answer(cost, answer)
    BY <1>3
  <2>2. PICK found \in Anomaly :
          CallModel(cost, IF answer.form = "null" THEN [loop EXCEPT !.at = "raised"]
                          ELSE [loop EXCEPT !.at = "done", !.anomaly = found])
    BY <2>1, ParseResponseTypes DEF Answer
  <2> DEFINE next == IF answer.form = "null" THEN [loop EXCEPT !.at = "raised"]
                     ELSE [loop EXCEPT !.at = "done", !.anomaly = found]
  <2>3. next \in Loops /\ next.iteration = loop.iteration
    BY <1>0 DEF Loops
  <2>4. CallModel(cost, next)
    BY <2>2
  <2> HIDE DEF next
  <2> QED
    BY <1>0, <1>1, <2>3, <2>4
<1>4. CASE \E raises \in BOOLEAN : EndTools(raises)
  <2>1. PICK raises \in BOOLEAN : EndTools(raises)
    BY <1>4
  <2>2. PICK at \in {"thinking", "done", "raised"} :
          /\ loop' = [loop EXCEPT !.iteration = loop.iteration + 1, !.at = at]
          /\ at = "thinking" => loop.iteration + 1 # MaxIterations
    BY <2>1 DEF EndTools
  <2>3. loop.iteration \in 0..MaxIterations /\ loop.iteration < MaxIterations
    BY <1>0, <2>1 DEF EndTools, Loops, LoopGoesOn
  <2>4. loop.iteration + 1 \in 0..MaxIterations
    BY <2>3 DEF MaxIterations
  <2>5. loop' \in Loops /\ loop'.at = at /\ loop'.iteration = loop.iteration + 1
    BY <1>0, <2>2, <2>4 DEF Loops
  <2>6. LoopGoesOn'
    BY <2>2, <2>3, <2>5 DEF LoopGoesOn, MaxIterations
  <2> QED
    BY <1>0, <2>1, <2>5, <2>6 DEF EndTools
<1>5. CASE NextEvent
  <2>1. Nothing \in Anomaly
    BY DEF Nothing, Anomaly
  <2> QED
    BY <1>0, <1>5, <2>1 DEF NextEvent, NewLoop, Loops, LoopGoesOn, MaxIterations
<1> QED
  BY <1>2, <1>3, <1>4, <1>5 DEF MonitoringNext

(* The steps of the webhook.                                               *)
LEMMA WebhookTypes ==
  ASSUME IntakeTypes, WebhookNext
  PROVE  /\ webhook' \in Webhooks(webhook'.payload) /\ seen' \subseteq Keys
         /\ begun' \in [Keys -> [lately : Nat, ever : BOOLEAN]]
         /\ deliveries' \in 0..MaxDeliveries
         /\ UNCHANGED <<batch, loop>>
<1>0. /\ webhook \in Webhooks(webhook.payload) /\ seen \subseteq Keys
      /\ begun \in [Keys -> [lately : Nat, ever : BOOLEAN]]
      /\ deliveries \in 0..MaxDeliveries /\ MaxDeliveries \in Nat
  BY IntakeAssumption DEF IntakeTypes, IntakeTypeOK, Webhooks
<1>1. webhook.payload \in Payloads \cup {<<>>}
  BY <1>0 DEF Webhooks
<1>2. CASE \E payload \in Payloads : Deliver(payload)
  <2>1. PICK payload \in Payloads : Deliver(payload)
    BY <1>2
  <2>2. webhook' = [at |-> "handling", payload |-> payload, next |-> 1, started |-> 0, suppressed |-> 0]
    BY <2>1 DEF Deliver, NoWebhook
  <2>3. Len(payload) \in Nat
    BY ParsedKeys
  <2>4. 1 \in 1..(Len(payload) + 1)
    BY <2>3
  <2> QED
    BY <1>0, <2>1, <2>2, <2>4 DEF Deliver, Webhooks
<1>3. CASE \E outcome \in {"incident", "suppressed", "raises"} : HandleAlert(outcome)
  <2>1. PICK outcome \in {"incident", "suppressed", "raises"} : HandleAlert(outcome)
    BY <1>3
  <2> DEFINE key == Parse(webhook.payload)[webhook.next]
  <2>2. /\ Len(webhook.payload) \in Nat /\ Len(Parse(webhook.payload)) <= Len(webhook.payload)
        /\ Parse(webhook.payload) \in Seq(Keys)
    BY <1>1, ParsedKeys
  <2>3. webhook.next \in Nat \ {0} /\ webhook.next <= Len(Parse(webhook.payload))
    BY <1>0, <2>1, <2>2 DEF HandleAlert, Webhooks
  <2>4. key \in Keys
    BY <2>2, <2>3
  <2>5. /\ seen' = seen \cup {key} /\ UNCHANGED <<batch, loop, deliveries>>
        /\ begun' = IF key \in seen THEN begun
                    ELSE [begun EXCEPT ![key] = [lately |-> @.lately + 1, ever |-> TRUE]]
        /\ webhook' = [webhook EXCEPT !.next = @ + 1,
                                !.at = IF outcome = "raises" THEN "failed" ELSE @,
                                !.started = @ + (IF outcome = "incident" THEN 1 ELSE 0),
                                !.suppressed = @ + (IF outcome = "suppressed" THEN 1 ELSE 0)]
    BY <2>1 DEF HandleAlert
  <2> HIDE DEF key
  <2>6. begun' \in [Keys -> [lately : Nat, ever : BOOLEAN]]
    BY <1>0, <2>4, <2>5
  <2>7. webhook.next + 1 \in 1..(Len(webhook.payload) + 1)
    BY <2>2, <2>3
  <2>8. webhook' \in Webhooks(webhook.payload) /\ webhook'.payload = webhook.payload
    <3>1. PICK at \in {"failed", webhook.at}, more \in {0, 1}, less \in {0, 1} :
            webhook' = [webhook EXCEPT !.next = @ + 1, !.at = at, !.started = @ + more,
                                       !.suppressed = @ + less]
      BY <2>5
    <3>2. webhook.started + more \in Nat /\ webhook.suppressed + less \in Nat
      BY <1>0 DEF Webhooks
    <3> QED
      BY <1>0, <2>7, <3>1, <3>2 DEF Webhooks
  <2> QED
    BY <1>0, <2>4, <2>5, <2>6, <2>8
<1>4. CASE Accept
  <2>1. webhook' \in Webhooks(webhook.payload) /\ webhook'.payload = webhook.payload
    BY <1>0, <1>4 DEF Accept, Webhooks
  <2> QED
    BY <1>0, <1>4, <2>1 DEF Accept
<1>5. CASE \E key \in Keys : EndWindow(key)
  BY <1>0, <1>5 DEF EndWindow
<1> QED
  BY <1>2, <1>3, <1>4, <1>5 DEF WebhookNext

(* Initially the types hold.                                               *)
LEMMA IntakeTypeInit == IntakeInit => IntakeTypes
<1> SUFFICES ASSUME IntakeInit PROVE IntakeTypes
  OBVIOUS
<1>1. Nothing \in Anomaly
  BY DEF Nothing, Anomaly
<1>2. loop \in Loops /\ LoopGoesOn
  BY <1>1 DEF IntakeInit, NewLoop, Loops, LoopGoesOn, MaxIterations
<1>3. webhook \in Webhooks(webhook.payload)
  <2>1. 1 \in 1..(Len(<<>>) + 1)
    OBVIOUS
  <2> QED
    BY <2>1 DEF IntakeInit, NoWebhook, Webhooks
<1> QED
  BY <1>2, <1>3, IntakeAssumption DEF IntakeInit, IntakeTypes, IntakeTypeOK, Loops, Webhooks

(* Every step keeps them.                                                  *)
LEMMA IntakeTypeNext == IntakeTypes /\ [IntakeNext]_intakeVars => IntakeTypes'
<1>1. ASSUME IntakeTypes, MonitoringNext PROVE IntakeTypes'
  BY <1>1, MonitoringTypes DEF IntakeTypes, IntakeTypeOK, Loops
<1>2. ASSUME IntakeTypes, WebhookNext PROVE IntakeTypes'
  BY <1>2, WebhookTypes DEF IntakeTypes, IntakeTypeOK, Webhooks, LoopGoesOn
<1>3. ASSUME IntakeTypes, UNCHANGED intakeVars PROVE IntakeTypes'
  BY <1>3 DEF IntakeTypes, IntakeTypeOK, LoopGoesOn, intakeVars
<1> QED
  BY <1>1, <1>2, <1>3 DEF IntakeNext

(* Type correctness of the intake, for every payload that is a sequence of *)
(* alerts; in particular the model's loop stays within its iterations and  *)
(* the webhook within its payload.                                         *)
THEOREM IntakeTypeCorrect == IntakeSpec => []IntakeTypeOK
<1>1. IntakeTypes => IntakeTypeOK
  BY DEF IntakeTypes
<1> QED
  BY <1>1, IntakeTypeInit, IntakeTypeNext, PTL DEF IntakeSpec

-----------------------------------------------------------------------------
(* The token budget.                                                       *)

\* Until a call reached the budget and raised, it is not used up.
WithinBudget ==
  /\ loop.at # "raised" => loop.tokens < Budget
  /\ OvershootIsOneCall

(* A call that is paid for: only the last one goes beyond the budget.      *)
LEMMA CallIsPaid ==
  ASSUME IntakeTypes, WithinBudget, NEW cost \in Costs, NEW next,
         CallModel(cost, next), next \in Loops
  PROVE  WithinBudget'
<1>1. loop \in Loops /\ Budget \in Nat /\ cost \in Nat /\ Costs \subseteq Nat
  BY IntakeAssumption DEF IntakeTypes, IntakeTypeOK, Loops
<1>2. loop.tokens \in Nat /\ loop.tokens < Budget
  BY <1>1 DEF CallModel, WithinBudget, Loops
<1>3. loop'.tokens = loop.tokens + cost
  BY <1>1 DEF CallModel, Tracked, Loops
<1>4. loop'.at # "raised" => loop'.tokens < Budget
  <2>1. CASE cost = 0
    BY <1>2, <1>3, <2>1
  <2>2. CASE cost # 0 /\ ~BudgetExceeded(Tracked(cost))
    BY <1>1, <1>2, <1>3, <2>2 DEF BudgetExceeded, Tracked
  <2>3. CASE cost # 0 /\ BudgetExceeded(Tracked(cost))
    <3>1. loop' = [loop EXCEPT !.tokens = Tracked(cost), !.at = "raised"]
      BY <1>1, <2>3 DEF CallModel
    <3> QED
      BY <1>1, <3>1 DEF Loops
  <2> QED
    BY <2>1, <2>2, <2>3
<1>5. loop'.tokens < Budget + cost
  BY <1>1, <1>2, <1>3
<1> QED
  BY <1>4, <1>5 DEF WithinBudget, OvershootIsOneCall

(* A reply without usage is not counted, and exceeding the budget is found *)
(* out after the call was paid for: still no event costs more than the     *)
(* budget and one call (LLMCostTracker.track, utils.py:292).               *)
THEOREM OvershootIsAlwaysOneCall == IntakeSpec => []OvershootIsOneCall
<1>1. IntakeInit => WithinBudget
  <2>1. PICK cost \in Costs : TRUE
    BY IntakeAssumption
  <2>2. cost \in Nat /\ Budget \in Nat /\ Budget > 0
    BY IntakeAssumption
  <2>3. 0 < Budget + cost
    BY <2>2
  <2> QED
    BY <2>2, <2>3 DEF IntakeInit, NewLoop, WithinBudget, OvershootIsOneCall
<1>2. IntakeTypes /\ WithinBudget /\ [IntakeNext]_intakeVars => WithinBudget'
  <2> SUFFICES ASSUME IntakeTypes, WithinBudget, [IntakeNext]_intakeVars PROVE WithinBudget'
    OBVIOUS
  <2>0. loop \in Loops
    BY DEF IntakeTypes, IntakeTypeOK, Loops
  <2>1. CASE \E cost \in Costs : AskForTools(cost)
    <3>1. [loop EXCEPT !.at = "tools"] \in Loops
      BY <2>0 DEF Loops
    <3> QED
      BY <2>1, <3>1, CallIsPaid DEF AskForTools
  <2>2. CASE \E cost \in Costs, answer \in Answers : Answer(cost, answer)
    <3>1. PICK cost \in Costs, answer \in Answers : Answer(cost, answer)
      BY <2>2
    <3>2. PICK found \in Anomaly :
            CallModel(cost, IF answer.form = "null" THEN [loop EXCEPT !.at = "raised"]
                            ELSE [loop EXCEPT !.at = "done", !.anomaly = found])
      BY <3>1, ParseResponseTypes DEF Answer
    <3>3. (IF answer.form = "null" THEN [loop EXCEPT !.at = "raised"]
           ELSE [loop EXCEPT !.at = "done", !.anomaly = found]) \in Loops
      BY <2>0 DEF Loops
    <3> QED
      BY <3>2, <3>3, CallIsPaid
  <2>3. CASE \E raises \in BOOLEAN : EndTools(raises)
    BY <2>0, <2>3 DEF EndTools, Loops, WithinBudget, OvershootIsOneCall
  <2>4. CASE NextEvent
    <3>1. loop'.tokens = 0 /\ Budget \in Nat /\ Budget > 0 /\ Costs \subseteq Nat
      BY <2>4, IntakeAssumption DEF NextEvent, NewLoop
    <3>2. PICK cost \in Costs : TRUE
      BY IntakeAssumption
    <3>3. loop'.tokens < Budget + cost
      BY <3>1
    <3> QED
      BY <3>1, <3>3 DEF WithinBudget, OvershootIsOneCall
  <2>5. CASE UNCHANGED loop
    BY <2>5 DEF WithinBudget, OvershootIsOneCall
  <2> QED
    BY <2>1, <2>2, <2>3, <2>4, <2>5, WebhookTypes DEF IntakeNext, MonitoringNext, intakeVars
<1>3. WithinBudget => OvershootIsOneCall
  BY DEF WithinBudget
<1> QED
  BY <1>1, <1>2, <1>3, IntakeTypeInit, IntakeTypeNext, PTL DEF IntakeSpec

-----------------------------------------------------------------------------
(* The webhook.                                                            *)

\* A key is in the table as long as its window lasts, and each alert that was
\* handled, in this call, has had a pipeline for its key.
WebhookInv ==
  /\ \A key \in Keys : key \notin seen => begun[key].lately = 0
  /\ \A key \in seen : begun[key].lately <= 1 /\ begun[key].ever
  /\ webhook.at \in {"handling", "accepted"} =>
       \A k \in 1..Len(Parse(webhook.payload)) :
         k < webhook.next => begun[Parse(webhook.payload)[k]].ever
  /\ webhook.at = "accepted" => webhook.next > Len(Parse(webhook.payload))

(* Every step keeps this.                                                  *)
LEMMA WebhookStep == IntakeTypes /\ WebhookInv /\ [IntakeNext]_intakeVars => WebhookInv'
<1> SUFFICES ASSUME IntakeTypes, WebhookInv, [IntakeNext]_intakeVars PROVE WebhookInv'
  OBVIOUS
<1>0. /\ webhook \in Webhooks(webhook.payload) /\ seen \subseteq Keys
      /\ begun \in [Keys -> [lately : Nat, ever : BOOLEAN]]
  BY DEF IntakeTypes, IntakeTypeOK, Webhooks
<1>1. /\ webhook.payload \in Payloads \cup {<<>>} /\ webhook.next \in Nat \ {0}
      /\ Parse(webhook.payload) \in Seq(Keys)
  <2>1. webhook.payload \in Payloads \cup {<<>>}
    BY <1>0 DEF Webhooks
  <2>2. Len(webhook.payload) \in Nat /\ Parse(webhook.payload) \in Seq(Keys)
    BY <2>1, ParsedKeys
  <2> QED
    BY <1>0, <2>1, <2>2 DEF Webhooks
<1>2. CASE UNCHANGED <<webhook, seen, begun>>
  BY <1>2 DEF WebhookInv
<1>3. CASE \E payload \in Payloads : Deliver(payload)
  <2>1. PICK payload \in Payloads : Deliver(payload)
    BY <1>3
  <2>2. webhook'.at = "handling" /\ webhook'.next = 1 /\ UNCHANGED <<seen, begun>>
    BY <2>1 DEF Deliver, NoWebhook
  <2>3. \A k \in 1..Len(Parse(webhook'.payload)) : ~(k < 1)
    OBVIOUS
  <2> QED
    BY <2>2, <2>3 DEF WebhookInv
<1>4. CASE \E outcome \in {"incident", "suppressed", "raises"} : HandleAlert(outcome)
  <2>1. PICK outcome \in {"incident", "suppressed", "raises"} : HandleAlert(outcome)
    BY <1>4
  <2> DEFINE parsed == Parse(webhook.payload)
             key == parsed[webhook.next]
  <2>2. /\ webhook.at = "handling" /\ webhook.next <= Len(parsed)
        /\ seen' = seen \cup {key}
        /\ begun' = IF key \in seen THEN begun
                    ELSE [begun EXCEPT ![key] = [lately |-> @.lately + 1, ever |-> TRUE]]
        /\ webhook' = [webhook EXCEPT !.next = @ + 1,
                                !.at = IF outcome = "raises" THEN "failed" ELSE @,
                                !.started = @ + (IF outcome = "incident" THEN 1 ELSE 0),
                                !.suppressed = @ + (IF outcome = "suppressed" THEN 1 ELSE 0)]
    BY <2>1 DEF HandleAlert
  <2>3. key \in Keys
    BY <1>1, <2>2
  <2>4. \A k \in 1..Len(parsed) : parsed[k] \in Keys
    BY <1>1
  <2>5. /\ webhook'.payload = webhook.payload /\ webhook'.next = webhook.next + 1
        /\ webhook'.at \in {"handling", "failed"}
    BY <1>0, <2>2 DEF Webhooks
  <2> HIDE DEF key
  <2>6. /\ begun'[key].ever /\ begun'[key].lately <= 1
        /\ \A q \in Keys \ {key} : begun'[q] = begun[q]
    BY <1>0, <2>2, <2>3 DEF WebhookInv
  <2>7. \A q \in Keys : begun[q].ever => begun'[q].ever
    BY <2>6
  <2>8. ASSUME NEW k \in 1..Len(parsed), k < webhook.next + 1 PROVE begun'[parsed[k]].ever
    <3>1. CASE k < webhook.next
      BY <2>2, <2>4, <2>7, <3>1 DEF WebhookInv
    <3>2. CASE k = webhook.next
      BY <2>6, <3>2 DEF key
    <3> QED
      BY <1>1, <2>8, <3>1, <3>2
  <2>9. Parse(webhook'.payload) = parsed
    BY <2>5
  <2> HIDE DEF parsed
  <2> QED
    BY <1>0, <2>2, <2>3, <2>5, <2>6, <2>8, <2>9 DEF WebhookInv
<1>5. CASE Accept
  <2>1. /\ webhook'.payload = webhook.payload /\ webhook'.next = webhook.next
        /\ webhook.at = "handling" /\ webhook.next > Len(Parse(webhook.payload))
        /\ UNCHANGED <<seen, begun>>
    BY <1>0, <1>5 DEF Accept, Webhooks
  <2> QED
    BY <2>1 DEF WebhookInv
<1>6. CASE \E key \in Keys : EndWindow(key)
  <2>1. PICK key \in Keys : EndWindow(key)
    BY <1>6
  <2>2. /\ seen' = seen \ {key} /\ UNCHANGED webhook
        /\ begun'[key].lately = 0
        /\ \A q \in Keys \ {key} : begun'[q] = begun[q]
        /\ \A q \in Keys : begun'[q].ever = begun[q].ever
    BY <1>0, <2>1 DEF EndWindow
  <2>3. \A k \in 1..Len(Parse(webhook.payload)) : Parse(webhook.payload)[k] \in Keys
    BY <1>1
  <2> QED
    BY <1>0, <2>2, <2>3 DEF WebhookInv
<1> QED
  BY <1>2, <1>3, <1>4, <1>5, <1>6, MonitoringTypes DEF IntakeNext, WebhookNext, intakeVars

(* The invariant of the webhook holds always.                              *)
LEMMA WebhookInvHolds == IntakeSpec => [](IntakeTypes /\ WebhookInv)
<1>1. IntakeInit => WebhookInv
  BY DEF IntakeInit, NoWebhook, WebhookInv
<1> QED
  BY <1>1, WebhookStep, IntakeTypeInit, IntakeTypeNext, PTL DEF IntakeSpec

(* However often a payload is sent again, and whichever of its pipelines   *)
(* raised: within its window the pipeline begins once for a key            *)
(* (alertmanager_webhook, api.py:466).                                     *)
THEOREM RedeliveryAlwaysRepeatsNothing == IntakeSpec => []RedeliveryRepeatsNothing
<1>1. IntakeTypes /\ WebhookInv => RedeliveryRepeatsNothing
  BY DEF WebhookInv, RedeliveryRepeatsNothing
<1> QED
  BY <1>1, WebhookInvHolds, PTL

(* A payload that was accepted leaves no firing alert of a known service   *)
(* out: the pipeline has begun for its key, in this call or in an earlier  *)
(* one (parse_alertmanager_payload, alertmanager_webhook).                 *)
THEOREM AcceptedAlwaysLeavesNoneOut == IntakeSpec => []AcceptedLeavesNoneOut
<1>1. IntakeTypes /\ WebhookInv => AcceptedLeavesNoneOut
  <2> SUFFICES ASSUME IntakeTypes, WebhookInv, webhook.at = "accepted",
                      NEW i \in DOMAIN webhook.payload, Scoped(webhook.payload[i])
               PROVE  begun[Key(webhook.payload[i])].ever
    BY DEF AcceptedLeavesNoneOut
  <2>1. webhook \in Webhooks(webhook.payload)
    BY DEF IntakeTypes, IntakeTypeOK, Webhooks
  <2>2. webhook.payload \in Payloads \cup {<<>>} /\ webhook.next \in Int
    <3>1. webhook.payload \in Payloads \cup {<<>>}
      BY <2>1 DEF Webhooks
    <3> QED
      BY <2>1, <3>1, ParsedKeys DEF Webhooks
  <2>3. PICK k \in 1..Len(Parse(webhook.payload)) : Parse(webhook.payload)[k] = Key(webhook.payload[i])
    BY <2>2, ParsedKeys
  <2>4. Len(Parse(webhook.payload)) \in Nat
    BY <2>2, ParsedKeys
  <2>5. k < webhook.next
    BY <2>2, <2>4 DEF WebhookInv
  <2> QED
    BY <2>3, <2>5 DEF WebhookInv
<1> QED
  BY <1>1, WebhookInvHolds, PTL

-----------------------------------------------------------------------------
(* What the adapters return.                                               *)

(* Observations within a bound have a newest one.                          *)
LEMMA NewestIsLast ==
  ASSUME NEW n \in Nat, NEW observed \in SUBSET (1..n), observed # {}
  PROVE  Newest(observed) \in observed /\ \A j \in observed : j <= Newest(observed)
<1> DEFINE R == {ss \in Nat \X Nat : ss[1] < ss[2]}
           T == {k \in Nat : \A j \in observed : j <= k}
<1>1. IsWellFoundedOn(R, Nat)
  BY NatLessThanWellFounded DEF OpToRel
<1>2. n \in T
  OBVIOUS
<1>3. PICK m \in T : \A y \in T : ~(<<y, m>> \in R)
  <2> HIDE DEF R, T
  <2>1. T \subseteq Nat
    BY DEF T
  <2> QED
    BY <1>1, <1>2, <2>1, WFMin
<1>4. m \in observed
  <2> SUFFICES ASSUME m \notin observed PROVE FALSE
    OBVIOUS
  <2>1. m \in Nat /\ \A j \in observed : j \in Nat /\ j # m /\ j # 0 /\ j <= m
    OBVIOUS
  <2>2. m - 1 \in Nat /\ m - 1 < m
    <3>1. PICK j \in observed : TRUE
      OBVIOUS
    <3>2. j \in Nat /\ j # 0 /\ j <= m
      BY <2>1
    <3> QED
      BY <2>1, <3>2
  <2>3. \A j \in observed : j <= m - 1
    BY <2>1
  <2>4. m - 1 \in T
    BY <2>2, <2>3
  <2> QED
    BY <1>3, <2>2, <2>4
<1>5. \E i \in observed : \A j \in observed : j <= i
  BY <1>4
<1> QED
  BY <1>5 DEF Newest

-----------------------------------------------------------------------------
(* The verification of a recovery.                                         *)

Verifications ==
  [at : {"before", "stabilizing", "done"}, acted : 0..MaxIntervals,
   vendors : VerifierAdapters \cup {{}}, dry_run : BOOLEAN, executed : BOOLEAN,
   answered : SUBSET verification.vendors, outcome : Outcome]

(* A verdict is one of the outcomes.                                       *)
LEMMA VerdictIsOutcome ==
  ASSUME VerificationTypeOK, NEW replies, EndVerification(replies)
  PROVE  /\ signals' = signals
         /\ \E outcome \in Outcome :
              verification' = [verification EXCEPT !.at = "done", !.answered = Answered(replies), !.outcome = outcome]
<1>1. \A v, records : Verify(v, records) \subseteq Outcome
  BY DEF Verify, Outcome
<1>2. "inconclusive" \in Outcome
  BY DEF Outcome
<1>3. PICK outcome \in
          IF FanOut([v \in verification.vendors |-> FetchOutcome(v, replies[v])]) = "records"
             \/ ~verification.executed
          THEN Verify(verification, Records(Answered(replies), replies))
          ELSE {"inconclusive"} :
       verification' = [verification EXCEPT !.at = "done", !.answered = Answered(replies), !.outcome = outcome]
  BY DEF EndVerification
<1>4. outcome \in Outcome
  BY <1>1, <1>2, <1>3
<1> QED
  BY <1>3, <1>4 DEF EndVerification

(* Type correctness of the verification.                                   *)
LEMMA VerificationTypeNext ==
  VerificationTypeOK /\ [VerificationNext]_verificationVars => VerificationTypeOK'
<1> SUFFICES ASSUME VerificationTypeOK, [VerificationNext]_verificationVars PROVE VerificationTypeOK'
  OBVIOUS
<1>0. /\ signals \in Seq([REQUIRED_SIGNALS -> Health]) /\ Len(signals) <= MaxIntervals
      /\ verification \in Verifications /\ MaxIntervals \in Nat
      /\ Readings \subseteq [REQUIRED_SIGNALS -> Health]
  BY VerificationAssumption DEF VerificationTypeOK, Verifications
<1>1. ASSUME NEW reading \in Readings, Interval(reading)
      PROVE  VerificationTypeOK'
  <2> DEFINE S == [REQUIRED_SIGNALS -> Health]
  <2>1. reading \in S /\ signals \in Seq(S)
    BY <1>0
  <2> HIDE DEF S
  <2>2. signals' \in Seq(S) /\ Len(signals') = Len(signals) + 1
    BY <1>1, <2>1 DEF Interval
  <2>3. Len(signals') <= MaxIntervals /\ verification' = verification
    BY <1>0, <1>1, <2>1, <2>2 DEF Interval, Now
  <2> QED
    BY <1>0, <2>2, <2>3 DEF VerificationTypeOK, Verifications, S
<1>2. ASSUME NEW vendors \in VerifierAdapters, NEW dry_run \in BOOLEAN, NEW executed \in BOOLEAN,
             BeginVerification(vendors, dry_run, executed)
      PROVE  VerificationTypeOK'
  <2>1. Len(signals) \in Nat
    BY <1>0
  <2>2. Now \in 0..MaxIntervals
    BY <1>0, <2>1 DEF Now
  <2>3. verification' \in Verifications' /\ signals' = signals
    BY <1>2, <2>2 DEF BeginVerification, Verifications, Outcome
  <2> QED
    BY <1>0, <2>3 DEF VerificationTypeOK, Verifications
<1>3. ASSUME NEW replies, EndVerification(replies) PROVE VerificationTypeOK'
  <2>1. PICK outcome \in Outcome :
          verification' = [verification EXCEPT !.at = "done", !.answered = Answered(replies), !.outcome = outcome]
    BY <1>3, VerdictIsOutcome
  <2>2. Answered(replies) \subseteq verification.vendors
    BY DEF Answered
  <2>3. verification'.vendors = verification.vendors
    BY <1>0, <2>1 DEF Verifications
  <2>4. verification' \in Verifications' /\ signals' = signals
    BY <1>0, <1>3, <2>1, <2>2, <2>3 DEF EndVerification, Verifications
  <2> QED
    BY <1>0, <2>4 DEF VerificationTypeOK, Verifications
<1>4. CASE UNCHANGED verificationVars
  BY <1>4 DEF verificationVars, VerificationTypeOK
<1> QED
  BY <1>1, <1>2, <1>3, <1>4 DEF VerificationNext

(* Types of the verification, for every adapter and window.                *)
THEOREM VerificationTypeCorrect == VerificationSpec => []VerificationTypeOK
<1>1. VerificationInit => VerificationTypeOK
  BY VerificationAssumption DEF VerificationInit, VerificationTypeOK, NotActed, Outcome
<1> QED
  BY <1>1, VerificationTypeNext, PTL DEF VerificationSpec

\* The record of the merged list made of one of a vendor.
Merged(vendor, metric, r) ==
  [vendor |-> vendor, metric |-> metric, observation |-> r.observation, stamp |-> r.stamp]

(* The merged list has the records of each vendor and no others.           *)
LEMMA RecordsAreMerged ==
  ASSUME NEW vendors, NEW replies
  PROVE  /\ \A vendor \in vendors, metric \in REQUIRED_SIGNALS :
              \A r \in RecordsOf(vendor, replies[vendor], metric) :
                Merged(vendor, metric, r) \in Records(vendors, replies)
         /\ \A q \in Records(vendors, replies) :
              \E vendor \in vendors, metric \in REQUIRED_SIGNALS :
                \E r \in RecordsOf(vendor, replies[vendor], metric) : q = Merged(vendor, metric, r)
<1> DEFINE Of(vendor, metric) == {Merged(vendor, metric, r) : r \in RecordsOf(vendor, replies[vendor], metric)}
           all == {Of(vendor, metric) : vendor \in vendors, metric \in REQUIRED_SIGNALS}
<1>1. Records(vendors, replies) = UNION all
  BY DEF Records, Merged
<1>2. ASSUME NEW vendor \in vendors, NEW metric \in REQUIRED_SIGNALS,
             NEW r \in RecordsOf(vendor, replies[vendor], metric)
      PROVE  Merged(vendor, metric, r) \in Records(vendors, replies)
  <2>1. Of(vendor, metric) \in all
    OBVIOUS
  <2>2. Merged(vendor, metric, r) \in Of(vendor, metric)
    OBVIOUS
  <2> HIDE DEF Of, all
  <2> QED
    BY <1>1, <2>1, <2>2
<1>3. ASSUME NEW q \in Records(vendors, replies)
      PROVE  \E vendor \in vendors, metric \in REQUIRED_SIGNALS :
               \E r \in RecordsOf(vendor, replies[vendor], metric) : q = Merged(vendor, metric, r)
  <2>1. PICK some \in all : q \in some
    <3> HIDE DEF all
    <3> QED
      BY <1>1, <1>3
  <2>2. \E vendor \in vendors, metric \in REQUIRED_SIGNALS : some = Of(vendor, metric)
    <3> HIDE DEF Of
    <3> QED
      OBVIOUS
  <2> QED
    BY <2>1, <2>2
<1> QED
  BY <1>2, <1>3

(* Prometheus returns what it has seen in each interval of the window.     *)
LEMMA RangeOfWindow ==
  ASSUME NEW now \in Nat, NEW lookback \in Nat, NEW visible, visible \subseteq 1..now,
         \A i \in visible : i + lookback >= now
  PROVE  /\ \A i \in visible : Record(i, i) \in RangeRecords(visible, Grid(now, lookback, 1), 1)
         /\ RangeRecords(visible, Grid(now, lookback, 1), 1) # {} => visible # {}
<1>1. ASSUME NEW i \in visible
      PROVE  Record(i, i) \in RangeRecords(visible, Grid(now, lookback, 1), 1)
  <2>1. i \in Nat /\ 1 <= i /\ i <= now /\ i + lookback >= now
    OBVIOUS
  <2>2. i \in Grid(now, lookback, 1)
    <3>1. i + lookback - now \in 0..lookback
      BY <2>1
    <3>2. i + lookback = now + (i + lookback - now) * 1
      BY <2>1
    <3> QED
      BY <2>1, <3>1, <3>2 DEF Grid
  <2>3. {o \in visible : o <= i /\ i < o + 1} = {i}
    <3>1. \A o \in visible : o <= i /\ i < o + 1 <=> o = i
      BY <2>1
    <3> QED
      BY <3>1
  <2>4. Newest({i}) = i
    BY <2>1 DEF Newest
  <2>5. Latest(visible, i, 1) = i
    BY <2>3, <2>4 DEF Latest
  <2>6. i \in {g \in Grid(now, lookback, 1) : Latest(visible, g, 1) # 0}
    BY <2>1, <2>2, <2>5
  <2> QED
    BY <2>5, <2>6 DEF RangeRecords
<1>2. RangeRecords({}, Grid(now, lookback, 1), 1) = {}
  BY DEF RangeRecords, Latest, Newest
<1> QED
  BY <1>1, <1>2

\* What makes a verification's outcome a recovery that was observed.
ObservedRecovery(v, answered) ==
  /\ v.executed
  /\ \A metric \in REQUIRED_SIGNALS :
       LET real == answered \ {"simulator"} IN
       /\ \A vendor \in real : NothingBad(vendor, metric)
       /\ "datadog" \in real \/ \E vendor \in real : SeenBy(vendor, metric) # {}

(* The verdict on records of a live service is a recovery only if the      *)
(* vendors that answered have observed one (RecoveryVerifier.verify).      *)
LEMMA VerdictIsObserved ==
  ASSUME VerificationTypeOK, ~verification.dry_run, NEW replies,
         "verified_recovery" \in Verify(verification, Records(Answered(replies), replies))
  PROVE  ObservedRecovery(verification, Answered(replies))
<1> DEFINE answered == Answered(replies)
           all == Records(answered, replies)
           fresh == FreshRecords(Authoritative(verification, all))
<1>0. Len(signals) \in Nat /\ Now \in Nat /\ Lookback \in Nat
  BY VerificationAssumption DEF VerificationTypeOK, Now
<1>1. /\ verification.executed
      /\ {r.metric : r \in fresh} = REQUIRED_SIGNALS
      /\ \A r \in fresh : ~MustExceed(r)
  BY DEF Verify
<1>2. fresh = {r \in all : r.vendor # "simulator" /\ r.stamp + 2 * Lookback >= Now}
  BY DEF FreshRecords, Authoritative
<1>3. answered \subseteq {"prometheus", "datadog", "splunk", "simulator"}
  BY VerificationAssumption DEF VerificationTypeOK, Answered
<1> HIDE DEF fresh, all, answered
<1>4. ASSUME NEW vendor \in answered, vendor # "simulator", NEW metric \in REQUIRED_SIGNALS,
             NEW r \in RecordsOf(vendor, replies[vendor], metric), r.stamp + 2 * Lookback >= Now
      PROVE  ~MustExceed(Merged(vendor, metric, r))
  <2>1. Merged(vendor, metric, r) \in all
    BY <1>4, RecordsAreMerged DEF all
  <2>2. Merged(vendor, metric, r) \in fresh
    BY <1>2, <1>4, <2>1 DEF Merged
  <2> QED
    BY <1>1, <2>2
<1>5. \A vendor, metric :
        /\ SeenBy(vendor, metric) \subseteq 1..Now
        /\ \A i \in SeenBy(vendor, metric) :
             i + Lookback >= Now /\ HasValue(vendor, signals[i][metric])
  BY DEF SeenBy
<1>6. ASSUME NEW metric \in REQUIRED_SIGNALS, "prometheus" \in answered
      PROVE  NothingBad("prometheus", metric)
  <2> DEFINE visible == SeenBy("prometheus", metric)
  <2>1. ASSUME NEW i \in visible PROVE signals[i][metric] # "bad"
    <3>1. Record(i, i) \in RecordsOf("prometheus", replies["prometheus"], metric)
      BY <1>0, <1>5, RangeOfWindow DEF RecordsOf
    <3>2. i \in Nat /\ i # 0 /\ i + 2 * Lookback >= Now
      BY <1>0, <1>5
    <3>3. Record(i, i).observation = i /\ Record(i, i).stamp = i
      BY DEF Record
    <3>4. ~MustExceed(Merged("prometheus", metric, Record(i, i)))
      BY <1>4, <1>6, <3>1, <3>2, <3>3
    <3> QED
      BY <3>2, <3>3, <3>4 DEF MustExceed, MayExceed, Merged
  <2> QED
    BY <2>1 DEF NothingBad
<1>7. ASSUME NEW metric \in REQUIRED_SIGNALS, "datadog" \in answered
      PROVE  NothingBad("datadog", metric)
  <2> DEFINE visible == SeenBy("datadog", metric)
             newest == Newest(visible)
             last == IF replies["datadog"] = "gap" THEN Now ELSE newest
  <2> SUFFICES ASSUME visible # {} PROVE signals[newest][metric] = "good"
    BY DEF NothingBad
  <2>1. newest \in visible
    BY <1>0, <1>5, NewestIsLast
  <2>2. newest \in 1..Now /\ newest + Lookback >= Now /\ HasValue("datadog", signals[newest][metric])
    BY <1>5, <2>1
  <2>3. RecordsOf("datadog", replies["datadog"], metric) = Fetched("datadog", visible, last, Now)
    BY DEF RecordsOf
  <2> HIDE DEF visible
  <2>4. last # 0 /\ last + 2 * Lookback >= Now
    BY <1>0, <2>2
  <2>5. Record(newest, last) \in RecordsOf("datadog", replies["datadog"], metric)
    BY <2>3, <2>4 DEF Fetched
  <2>6. Record(newest, last).observation = newest /\ Record(newest, last).stamp = last
    BY DEF Record
  <2>7. ~MustExceed(Merged("datadog", metric, Record(newest, last)))
    BY <1>4, <1>7, <2>4, <2>5, <2>6
  <2>8. signals[newest][metric] # "bad"
    BY <2>2, <2>6, <2>7 DEF MustExceed, MayExceed, Merged
  <2> QED
    BY <2>2, <2>8 DEF HasValue
<1>8. ASSUME NEW metric \in REQUIRED_SIGNALS, "splunk" \in answered
      PROVE  NothingBad("splunk", metric)
  <2> DEFINE visible == SeenBy("splunk", metric)
             r == Record(Newest(visible), Now)
  <2> SUFFICES ASSUME visible # {} PROVE \E i \in visible : signals[i][metric] = "good"
    BY DEF NothingBad
  <2>1. r \in RecordsOf("splunk", replies["splunk"], metric)
    BY DEF RecordsOf, Fetched
  <2>2. r.stamp = Now /\ Now + 2 * Lookback >= Now
    BY <1>0 DEF Record
  <2>3. ~MustExceed(Merged("splunk", metric, r))
    BY <1>4, <1>8, <2>1, <2>2
  <2>4. PICK i \in visible : signals[i][metric] # "bad"
    BY <2>3 DEF MustExceed, Merged
  <2> QED
    BY <1>5, <2>4 DEF HasValue
<1>9. ASSUME NEW metric \in REQUIRED_SIGNALS
      PROVE  \/ "datadog" \in answered
             \/ \E vendor \in answered \ {"simulator"} : SeenBy(vendor, metric) # {}
  <2>1. PICK q \in fresh : q.metric = metric
    BY <1>1
  <2>2. PICK vendor \in answered : \E m \in REQUIRED_SIGNALS :
          \E r \in RecordsOf(vendor, replies[vendor], m) : q = Merged(vendor, m, r)
    BY <1>2, <2>1, RecordsAreMerged DEF all
  <2>3. RecordsOf(vendor, replies[vendor], metric) # {} /\ vendor # "simulator"
    BY <1>2, <2>1, <2>2 DEF Merged
  <2>4. CASE vendor = "prometheus"
    BY <1>0, <1>5, <2>3, <2>4, RangeOfWindow DEF RecordsOf
  <2>5. CASE vendor = "splunk"
    BY <2>3, <2>5 DEF RecordsOf, Fetched
  <2> QED
    BY <1>3, <2>3, <2>4, <2>5
<1> QED
  BY <1>1, <1>3, <1>6, <1>7, <1>8, <1>9 DEF ObservedRecovery, answered

(* Whatever was observed, whichever vendors are active, whenever the       *)
(* action was taken and however the queries end: recovery of a live        *)
(* service is only declared if no vendor that answered has seen a signal   *)
(* beyond its threshold, and only of signals the vendors have a value of   *)
(* (verifier.py:67, datadog_adapter.py:158, prometheus_adapter.py:143).    *)
THEOREM RecoveryIsAlwaysObserved == VerificationSpec => []RecoveryWasObserved
<1> DEFINE Inv == /\ verification.outcome = "verified_recovery" => verification.at = "done"
                  /\ RecoveryWasObserved
<1>1. VerificationInit => Inv
  BY DEF VerificationInit, NotActed, RecoveryWasObserved
<1>2. VerificationTypeOK /\ Inv /\ [VerificationNext]_verificationVars => Inv'
  <2> SUFFICES ASSUME VerificationTypeOK, Inv, [VerificationNext]_verificationVars PROVE Inv'
    OBVIOUS
  <2>0. verification \in Verifications
    BY DEF VerificationTypeOK, Verifications
  <2>1. ASSUME NEW reading \in Readings, Interval(reading) PROVE Inv'
    BY <2>1 DEF Interval, RecoveryWasObserved
  <2>2. ASSUME NEW vendors \in VerifierAdapters, NEW dry_run \in BOOLEAN, NEW executed \in BOOLEAN,
               BeginVerification(vendors, dry_run, executed)
        PROVE  Inv'
    BY <2>2 DEF BeginVerification, RecoveryWasObserved
  <2>3. ASSUME NEW replies, EndVerification(replies) PROVE Inv'
    <3>1. PICK outcome \in
              IF FanOut([v \in verification.vendors |-> FetchOutcome(v, replies[v])]) = "records"
                 \/ ~verification.executed
              THEN Verify(verification, Records(Answered(replies), replies))
              ELSE {"inconclusive"} :
            verification' = [verification EXCEPT !.at = "done", !.answered = Answered(replies), !.outcome = outcome]
      BY <2>3 DEF EndVerification
    <3>2. /\ verification'.at = "done" /\ verification'.outcome = outcome
          /\ verification'.executed = verification.executed
          /\ verification'.answered = Answered(replies)
          /\ verification'.dry_run = verification.dry_run
          /\ signals' = signals
      BY <2>0, <2>3, <3>1 DEF EndVerification, Verifications
    <3>3. outcome = "verified_recovery" =>
            outcome \in Verify(verification, Records(Answered(replies), replies))
      BY <3>1
    <3>4. outcome = "verified_recovery" /\ ~verification.dry_run =>
            ObservedRecovery(verification, Answered(replies))
      BY <3>3, VerdictIsObserved
    <3>5. \A vendor, metric : /\ SeenBy(vendor, metric)' = SeenBy(vendor, metric)
                              /\ NothingBad(vendor, metric)' = NothingBad(vendor, metric)
      BY <3>2 DEF SeenBy, NothingBad, Now
    <3> QED
      BY <3>2, <3>4, <3>5 DEF RecoveryWasObserved, ObservedRecovery
  <2>4. CASE UNCHANGED verificationVars
    <3>1. signals' = signals /\ verification' = verification
      BY <2>4 DEF verificationVars
    <3>2. \A vendor, metric : /\ SeenBy(vendor, metric)' = SeenBy(vendor, metric)
                              /\ NothingBad(vendor, metric)' = NothingBad(vendor, metric)
      BY <3>1 DEF SeenBy, NothingBad, Now
    <3> QED
      BY <3>1, <3>2 DEF RecoveryWasObserved
  <2> QED
    BY <2>1, <2>2, <2>3, <2>4 DEF VerificationNext
<1> QED
  BY <1>1, <1>2, VerificationTypeCorrect, PTL DEF VerificationSpec

-----------------------------------------------------------------------------
(* Live ingestion: what is folded over the queue.                          *)

\* f is what FoldLeft iterates over the records of q in any set.
IsIteration(f, det, q, m) ==
  f = [s \in SUBSET (1..m) |->
         IF s = {} THEN det ELSE Observe(f[s \ {Max(s)}], q[Max(s)])]

(* The last record of those up to m + 1.                                   *)
LEMMA MaxIsLast ==
  ASSUME NEW m \in Nat, NEW s, s \subseteq 1..(m + 1), m + 1 \in s
  PROVE  Max(s) = m + 1
<1>1. \A y \in s : y \in Nat /\ m + 1 >= y
  OBVIOUS
<1>2. \E x \in s : \A y \in s : x >= y
  BY <1>1
<1> DEFINE x == Max(s)
<1>3. x \in s /\ \A y \in s : x >= y
  BY <1>2 DEF Max
<1> HIDE DEF x
<1>4. x \in Nat /\ m + 1 >= x /\ x >= m + 1
  BY <1>1, <1>3
<1>5. x = m + 1
  BY <1>4
<1> QED
  BY <1>5 DEF x

(* The iteration exists for every number of records.                       *)
LEMMA IterationExists ==
  ASSUME NEW det, NEW q, NEW m \in Nat
  PROVE  \E f : IsIteration(f, det, q, m)
<1> DEFINE S == {k \in Nat : \E f : IsIteration(f, det, q, k)}
           next(f, s) == IF s = {} THEN det ELSE Observe(f[s \ {Max(s)}], q[Max(s)])
<1>1. 0 \in S
  <2> DEFINE f == [s \in SUBSET (1..0) |-> det]
  <2>1. \A s \in SUBSET (1..0) : s = {}
    OBVIOUS
  <2>2. f = [s \in SUBSET (1..0) |-> IF s = {} THEN det ELSE Observe(f[s \ {Max(s)}], q[Max(s)])]
    BY <2>1
  <2>3. IsIteration(f, det, q, 0)
    BY <2>2 DEF IsIteration
  <2> QED
    BY <2>3
<1>2. ASSUME NEW k \in Nat, k \in S PROVE k + 1 \in S
  <2>1. PICK f : IsIteration(f, det, q, k)
    BY <1>2
  <2> DEFINE g == [s \in SUBSET (1..(k + 1)) |->
                     IF k + 1 \in s THEN Observe(f[s \ {k + 1}], q[k + 1]) ELSE f[s]]
  <2>2. \A s \in SUBSET (1..k) : f[s] = next(f, s)
    BY <2>1 DEF IsIteration
  <2>3. ASSUME NEW s \in SUBSET (1..(k + 1)) PROVE g[s] = next(g, s)
    <3>1. CASE k + 1 \in s
      <4>1. Max(s) = k + 1
        BY <3>1, MaxIsLast
      <4>2. s \ {k + 1} \in SUBSET (1..(k + 1)) /\ k + 1 \notin s \ {k + 1}
        OBVIOUS
      <4>3. g[s \ {k + 1}] = f[s \ {k + 1}]
        BY <4>2
      <4>4. g[s] = Observe(f[s \ {k + 1}], q[k + 1])
        BY <3>1
      <4> HIDE DEF g
      <4> QED
        BY <3>1, <4>1, <4>3, <4>4
    <3>2. CASE k + 1 \notin s
      <4>1. s \in SUBSET (1..k)
        BY <3>2
      <4>2. \A x : s \ {x} \in SUBSET (1..(k + 1)) /\ k + 1 \notin s \ {x}
        BY <3>2
      <4>3. \A x : g[s \ {x}] = f[s \ {x}]
        BY <4>2
      <4>4. g[s] = f[s]
        BY <3>2
      <4> HIDE DEF g
      <4> QED
        BY <2>2, <4>1, <4>3, <4>4
    <3> QED
      BY <3>1, <3>2
  <2>4. g = [s \in SUBSET (1..(k + 1)) |-> next(g, s)]
    BY <2>3
  <2>5. IsIteration(g, det, q, k + 1)
    BY <2>4 DEF IsIteration
  <2> QED
    BY <2>5
<1>3. Nat \subseteq S
  <2> HIDE DEF S
  <2> QED
    BY <1>1, <1>2, SetInduction
<1> QED
  BY <1>3

(* Induction over the records of a queue: what holds of the detector       *)
(* before, and after a record if it held before it, holds after all.       *)
LEMMA FoldInduction ==
  ASSUME NEW det, NEW q, NEW m \in Nat, DOMAIN q = 1..m, NEW T, <<0, det>> \in T,
         ASSUME NEW k \in 0..(m - 1), NEW d, <<k, d>> \in T
         PROVE  <<k + 1, Observe(d, q[k + 1])>> \in T
  PROVE  <<m, FoldLeft(Observe, det, q)>> \in T
<1> DEFINE g == CHOOSE f : IsIteration(f, det, q, m)
           S == {k \in Nat : k <= m => <<k, g[1..k]>> \in T}
<1>1. FoldLeft(Observe, det, q) = g[1..m]
  BY DEF FoldLeft, MapThenFoldSet, IsIteration
<1>2. IsIteration(g, det, q, m)
  BY IterationExists
<1> HIDE DEF g
<1>3. \A s \in SUBSET (1..m) : g[s] = IF s = {} THEN det ELSE Observe(g[s \ {Max(s)}], q[Max(s)])
  BY <1>2 DEF IsIteration
<1>4. 0 \in S
  <2>1. 1..0 = {} /\ {} \in SUBSET (1..m)
    OBVIOUS
  <2>2. g[1..0] = det
    BY <1>3, <2>1
  <2> QED
    BY <2>2
<1>5. ASSUME NEW k \in Nat, k \in S PROVE k + 1 \in S
  <2> SUFFICES ASSUME k + 1 <= m PROVE <<k + 1, g[1..(k + 1)]>> \in T
    OBVIOUS
  <2>1. <<k, g[1..k]>> \in T /\ k \in 0..(m - 1)
    BY <1>5
  <2>2. /\ 1..(k + 1) \in SUBSET (1..m) /\ 1..(k + 1) # {} /\ k + 1 \in 1..(k + 1)
        /\ (1..(k + 1)) \ {k + 1} = 1..k
    <3>1. \A i \in 1..(k + 1) : i \in 1..m
      OBVIOUS
    <3>2. k + 1 \in 1..(k + 1)
      OBVIOUS
    <3>3. \A i : i \in 1..k <=> i \in 1..(k + 1) /\ i # k + 1
      OBVIOUS
    <3> QED
      BY <3>1, <3>2, <3>3, Zenon
  <2>3. Max(1..(k + 1)) = k + 1
    BY <2>2, MaxIsLast
  <2>4. g[1..(k + 1)] = Observe(g[1..k], q[k + 1])
    BY <1>3, <2>2, <2>3
  <2>5. <<k + 1, Observe(g[1..k], q[k + 1])>> \in T
    BY <2>1
  <2> QED
    BY <2>4, <2>5
<1>6. Nat \subseteq S
  <2> HIDE DEF S
  <2> QED
    BY <1>4, <1>5, SetInduction
<1> QED
  BY <1>1, <1>6

-----------------------------------------------------------------------------
(* What a fetch puts into the queue.                                       *)

FetchedRecords == [observation : Nat, stamp : Nat]
QueuedRecords == [series : Series, observation : Nat, stamp : Nat]

(* Records with different stamps are sorted by them, and each is there.    *)
LEMMA SortedRecords ==
  ASSUME NEW s \in Series, NEW R \in SUBSET FetchedRecords, IsFiniteSet(R),
         \A p, q \in R : p.stamp = q.stamp => p = q
  PROVE  LET sorted == InOrder(s, R) IN
         /\ sorted \in Seq(QueuedRecords)
         /\ \A k \in 1..Len(sorted) : \E r \in R : sorted[k] = Queued(s, r)
         /\ \A r \in R : \E k \in 1..Len(sorted) : sorted[k] = Queued(s, r)
         /\ \A i, j \in 1..Len(sorted) : i < j => sorted[i].stamp < sorted[j].stamp
<1> DEFINE n == Cardinality(R)
           Older(r) == {q \in R : q.stamp < r.stamp}
           Rank(r) == Cardinality(Older(r))
           At(k) == CHOOSE r \in R : Rank(r) = k - 1
           sorted == InOrder(s, R)
<1>1. n \in Nat
  BY FS_CardinalityType
<1>2. ASSUME NEW r \in R PROVE IsFiniteSet(Older(r)) /\ Rank(r) \in Nat /\ Rank(r) < n
  <2>1. Older(r) \in SUBSET R /\ Older(r) # R
    <3>1. r.stamp \in Nat
      BY DEF FetchedRecords
    <3>2. r \notin Older(r)
      BY <3>1
    <3> QED
      BY <3>2
  <2> HIDE DEF Older
  <2>2. /\ IsFiniteSet(Older(r)) /\ Cardinality(Older(r)) <= Cardinality(R)
        /\ Cardinality(Older(r)) # Cardinality(R)
    BY <2>1, FS_Subset
  <2>3. Cardinality(Older(r)) \in Nat
    BY <2>2, FS_CardinalityType
  <2> QED
    BY <1>1, <2>2, <2>3
<1>3. ASSUME NEW p \in R, NEW q \in R, p.stamp < q.stamp PROVE Rank(p) < Rank(q)
  <2>0. p.stamp \in Nat /\ q.stamp \in Nat /\ \A r \in R : r.stamp \in Nat
    BY DEF FetchedRecords
  <2>1. Older(p) \in SUBSET Older(q) /\ p \in Older(q) /\ p \notin Older(p)
    <3>1. \A r \in R : r.stamp < p.stamp => r.stamp < q.stamp
      BY <1>3, <2>0
    <3> QED
      BY <1>3, <2>0, <3>1
  <2>2. IsFiniteSet(Older(q)) /\ Rank(p) \in Nat /\ Rank(q) \in Nat
    BY <1>2
  <2> HIDE DEF Older
  <2>3. Cardinality(Older(p)) <= Cardinality(Older(q)) /\ Cardinality(Older(q)) # Cardinality(Older(p))
    BY <2>1, <2>2, FS_Subset
  <2> QED
    BY <2>2, <2>3
<1> HIDE DEF Older, Rank, n
<1>4. ASSUME NEW p \in R, NEW q \in R, Rank(p) = Rank(q) PROVE p = q
  <2>1. p.stamp \in Nat /\ q.stamp \in Nat /\ Rank(p) \in Nat
    BY <1>2 DEF FetchedRecords
  <2>2. ~(p.stamp < q.stamp) /\ ~(q.stamp < p.stamp)
    BY <1>3, <1>4, <2>1
  <2> QED
    BY <2>1, <2>2
<1>5. ASSUME NEW k \in 1..n PROVE \E r \in R : Rank(r) = k - 1
  <2> DEFINE f == [r \in R |-> Rank(r)]
             image == {Rank(r) : r \in R}
  <2>1. f \in [R -> image] /\ \A t \in image : \E r \in R : f[r] = t
    OBVIOUS
  <2>2. \A p, q \in R : f[p] = f[q] => p = q
    BY <1>4
  <2>3. DOMAIN f = R
    OBVIOUS
  <2>4. image \in SUBSET (0..(n - 1))
    <3>1. \A r \in R : Rank(r) \in Nat /\ Rank(r) < n
      BY <1>2
    <3>2. \A r \in R : Rank(r) \in 0..(n - 1)
      BY <1>1, <3>1
    <3> QED
      BY <3>2
  <2> HIDE DEF f, image
  <2>5. f \in Bijection(R, image)
    BY <2>1, <2>2, <2>3 DEF Bijection, Injection, Surjection, IsInjective
  <2>6. Cardinality(image) = n
    BY <2>5, FS_Bijection DEF ExistsBijection, n
  <2>7. IsFiniteSet(0..(n - 1)) /\ Cardinality(0..(n - 1)) = n
    <3>1. 0 \in Int /\ n - 1 \in Int
      BY <1>1
    <3>2. IsFiniteSet(0..(n - 1)) /\ Cardinality(0..(n - 1)) = IF 0 > n - 1 THEN 0 ELSE (n - 1) - 0 + 1
      BY <3>1, FS_Interval
    <3> QED
      BY <1>1, <3>2
  <2>8. image = 0..(n - 1)
    BY <2>4, <2>6, <2>7, FS_Subset
  <2>9. k - 1 \in 0..(n - 1)
    BY <1>1
  <2> QED
    BY <2>8, <2>9 DEF image
<1>6. ASSUME NEW k \in 1..n PROVE At(k) \in R /\ Rank(At(k)) = k - 1
  BY <1>5
<1>7. sorted = [k \in 1..n |-> Queued(s, At(k))]
  BY DEF InOrder, Rank, Older, n
<1> HIDE DEF At, sorted
<1>8. ASSUME NEW r \in FetchedRecords
      PROVE  Queued(s, r) \in QueuedRecords /\ Queued(s, r).stamp = r.stamp
  BY DEF Queued, QueuedRecords, FetchedRecords
<1>9. sorted \in Seq(QueuedRecords) /\ Len(sorted) = n
  <2>1. \A k \in 1..n : Queued(s, At(k)) \in QueuedRecords
    BY <1>6, <1>8
  <2> QED
    BY <1>1, <1>7, <2>1
<1>10. ASSUME NEW r \in R PROVE \E k \in 1..n : sorted[k] = Queued(s, r)
  <2> DEFINE k == Rank(r) + 1
  <2>1. k \in 1..n /\ Rank(r) = k - 1
    <3>1. Rank(r) \in Nat /\ Rank(r) < n
      BY <1>2
    <3> QED
      BY <1>1, <3>1
  <2>2. At(k) = r
    BY <1>4, <1>6, <2>1
  <2> HIDE DEF k
  <2> QED
    BY <1>7, <2>1, <2>2
<1>11. ASSUME NEW i \in 1..n, NEW j \in 1..n, i < j PROVE sorted[i].stamp < sorted[j].stamp
  <2>1. /\ At(i) \in R /\ At(j) \in R
        /\ Rank(At(i)) = i - 1 /\ Rank(At(j)) = j - 1
        /\ sorted[i].stamp = At(i).stamp /\ sorted[j].stamp = At(j).stamp
    BY <1>6, <1>7, <1>8
  <2>2. At(i).stamp \in Nat /\ At(j).stamp \in Nat
    BY <2>1 DEF FetchedRecords
  <2>3. Rank(At(i)) < Rank(At(j)) /\ Rank(At(i)) \in Nat /\ Rank(At(j)) \in Nat
    BY <1>1, <1>2, <1>11, <2>1
  <2>4. At(i).stamp # At(j).stamp
    BY <2>1, <2>3
  <2>5. ~(At(j).stamp < At(i).stamp)
    <3> SUFFICES ASSUME At(j).stamp < At(i).stamp PROVE FALSE
      OBVIOUS
    <3>1. Rank(At(j)) < Rank(At(i))
      BY <1>3, <2>1
    <3> QED
      BY <2>3, <3>1
  <2> QED
    BY <2>1, <2>2, <2>4, <2>5
<1>12. \A k \in 1..n : \E r \in R : sorted[k] = Queued(s, r)
  BY <1>6, <1>7
<1> QED
  BY <1>9, <1>10, <1>11, <1>12 DEF sorted

\* A record of a range query: the newest observation there was at its time.
TrueOf(s, r) ==
  /\ r.stamp \in 1..clock /\ r.observation \in published[s] /\ r.observation <= r.stamp
  /\ \A o \in published[s] : o <= r.stamp => o <= r.observation

\* Nothing lies ahead of its time, neither an observation nor a fetch.
TimesPast ==
  /\ \A s \in Series : published[s] \subseteq 1..clock
  /\ \A v \in Polled : poller[v].asked <= clock

(* A query at a point of the grid finds an observation it is not stale for.*)
LEMMA LatestIsTrue ==
  ASSUME NEW n \in Nat, NEW observed \in SUBSET (1..n), NEW t \in Nat, NEW staleness \in Nat
  PROVE  /\ Latest(observed, t, staleness) \in Nat
         /\ Latest(observed, t, staleness) # 0 =>
              /\ Latest(observed, t, staleness) \in observed
              /\ Latest(observed, t, staleness) <= t
              /\ \A o \in observed : o <= t => o <= Latest(observed, t, staleness)
         /\ (\E o \in observed : o <= t /\ t < o + staleness) => Latest(observed, t, staleness) # 0
<1> DEFINE S == {o \in observed : o <= t /\ t < o + staleness}
           newest == Newest(S)
<1>1. Latest(observed, t, staleness) = newest
  BY DEF Latest
<1>2. S \in SUBSET (1..n) /\ \A o \in S : o \in observed /\ o <= t /\ t < o + staleness /\ o \in Nat /\ o # 0
  <2>1. \A o \in observed : o \in 1..n /\ o \in Nat /\ o # 0
    OBVIOUS
  <2> QED
    BY <2>1
<1>3. ASSUME NEW o \in observed, o <= t, o \notin S, NEW p \in S PROVE o <= p
  <2>1. o \in Nat /\ p \in Nat /\ t < p + staleness /\ ~(t < o + staleness)
    BY <1>2, <1>3
  <2> QED
    BY <2>1
<1> HIDE DEF S
<1>4. CASE S = {}
  <2>1. newest = 0
    BY <1>4 DEF Newest
  <2>2. ~(\E o \in observed : o <= t /\ t < o + staleness)
    BY <1>4 DEF S
  <2> QED
    BY <1>1, <2>1, <2>2
<1>5. CASE S # {}
  <2>1. newest \in S /\ \A o \in S : o <= newest
    BY <1>2, <1>5, NewestIsLast
  <2>2. \A o \in observed : o <= t => o <= newest
    BY <1>3, <2>1
  <2> QED
    BY <1>1, <1>2, <2>1, <2>2
<1> QED
  BY <1>4, <1>5

(* The grid of a query has a point within a step after an observation, if  *)
(* the observation is in the window and the grid goes on for a step.       *)
LEMMA GridIsDense ==
  ASSUME NEW asked \in Nat, NEW window \in Nat, NEW step \in Nat \ {0}, NEW o \in Nat,
         asked <= o + window, NEW t \in Grid(asked, window, step), t >= o + step
  PROVE  \E g \in Grid(asked, window, step) : g >= o /\ g < o + step
<1> DEFINE S == {k \in Nat : asked + k * step >= o + window}
           R == {ss \in Nat \X Nat : ss[1] < ss[2]}
<1>1. PICK k \in 0..window : t + window = asked + k * step
  BY DEF Grid
<1>2. t \in 0..asked
  BY DEF Grid
<1>3. k \in S
  BY <1>1, <1>2
<1>4. IsWellFoundedOn(R, Nat)
  BY NatLessThanWellFounded DEF OpToRel
<1>5. PICK m \in S : \A y \in S : ~(<<y, m>> \in R)
  <2>1. S \subseteq Nat
    OBVIOUS
  <2> HIDE DEF R, S
  <2> QED
    BY <1>3, <1>4, <2>1, WFMin
<1>6. m \in Nat /\ asked + m * step >= o + window /\ m * step \in Nat
  OBVIOUS
<1>7. \A y \in S : ~(y < m)
  BY <1>5, <1>6
<1>8. m <= k
  BY <1>3, <1>6, <1>7
<1> DEFINE g == asked + m * step - window
<1>9. g >= o /\ g \in Int /\ g + window = asked + m * step
  BY <1>6
<1>10. g < o + step
  <2>1. CASE m = 0
    <3>1. m * step = 0
      BY <2>1
    <3> QED
      BY <1>9, <3>1
  <2>2. CASE m # 0
    <3>1. m - 1 \in Nat /\ m - 1 < m
      BY <1>6, <2>2
    <3>2. m - 1 \notin S
      BY <1>7, <3>1
    <3>3. (m - 1) * step = m * step - step
      BY <1>6
    <3>4. ~(asked + (m * step - step) >= o + window)
      BY <3>1, <3>2, <3>3
    <3> QED
      BY <1>6, <3>4
  <2> QED
    BY <2>1, <2>2
<1>11. g \in 0..asked /\ m \in 0..window
  <2> HIDE DEF g
  <2> QED
    BY <1>1, <1>2, <1>6, <1>8, <1>9, <1>10
<1>12. g \in Grid(asked, window, step)
  BY <1>9, <1>11 DEF Grid
<1> QED
  BY <1>9, <1>10, <1>12

(* What a fetch brings can be sorted.                                      *)
LEMMA BroughtCanBeSorted ==
  ASSUME NEW s \in Series, published \in [Series -> SUBSET Nat], clock \in Nat, published[s] \subseteq 1..clock,
         NEW asked \in Nat, NEW reply
  PROVE  /\ Brought(s, asked, reply) \in SUBSET FetchedRecords
         /\ IsFiniteSet(Brought(s, asked, reply))
         /\ \A p, q \in Brought(s, asked, reply) : p.stamp = q.stamp => p = q
<1> DEFINE R == Brought(s, asked, reply)
           Sortable(T) == /\ T \in SUBSET FetchedRecords
                          /\ IsFiniteSet(T)
                          /\ \A p, q \in T : p.stamp = q.stamp => p = q
<1>0. Staleness \in Nat /\ s[1] \in {"prometheus", "datadog", "splunk"}
  BY IngestionAssumption DEF Series
<1>1. Sortable({})
  BY FS_EmptySet
<1>2. ASSUME NEW o \in Nat, NEW t \in Nat PROVE Sortable({Record(o, t)})
  <2>1. Record(o, t) \in FetchedRecords
    BY DEF Record, FetchedRecords
  <2> QED
    BY <2>1, FS_Singleton
<1>3. \A t : Newest(Within(s, t)) \in Nat
  <2> TAKE t
  <2>1. PICK S \in SUBSET (1..clock) : S = Within(s, t)
    BY DEF Within
  <2>2. CASE S = {}
    <3>1. Newest(S) = 0
      BY <2>2 DEF Newest
    <3> QED
      BY <2>1, <3>1
  <2>3. CASE S # {}
    <3>1. Newest(S) \in S
      BY <2>3, NewestIsLast
    <3>2. \A o \in S : o \in Nat
      BY <2>1
    <3>3. Newest(S) \in Nat
      BY <3>1, <3>2
    <3> QED
      BY <2>1, <3>3
  <2> QED
    BY <2>2, <2>3
<1>4. CASE FetchOutcome(s[1], reply) # "records" \/ s \notin Publishing
  <2>1. R = {}
    BY <1>4 DEF Brought
  <2> QED
    BY <1>1, <2>1
<1>5. CASE FetchOutcome(s[1], reply) = "records" /\ s \in Publishing /\ s[1] = "prometheus"
  <2> DEFINE grid == Grid(asked, Window, Step)
             at(t) == Latest(published[s], t, Staleness)
             times == {g \in grid : at(g) # 0}
             f == [t \in times |-> Record(at(t), t)]
             T == {Record(at(t), t) : t \in times}
  <2>1. R = T
    BY <1>5 DEF Brought, RangeRecords
  <2>2. times \in SUBSET (0..asked)
    BY DEF Grid
  <2> HIDE DEF grid
  <2>3. \A t \in times : at(t) \in Nat /\ t \in Nat
    <3> SUFFICES ASSUME NEW t \in times PROVE at(t) \in Nat /\ t \in Nat
      OBVIOUS
    <3>1. t \in Nat
      BY <2>2
    <3> QED
      BY <1>0, <3>1, LatestIsTrue
  <2> HIDE DEF at
  <2>4. f \in [times -> T] /\ \A r \in T : \E t \in times : f[t] = r
    OBVIOUS
  <2>5. IsFiniteSet(times)
    <3>1. IsFiniteSet(0..asked)
      BY FS_Interval
    <3> HIDE DEF times
    <3> QED
      BY <2>2, <3>1, FS_Subset
  <2>6. DOMAIN f = times
    OBVIOUS
  <2>7. IsFiniteSet(T)
    <3> HIDE DEF f, T, times
    <3> QED
      BY <2>4, <2>5, <2>6, FS_Surjection DEF Surjection
  <2>8. T \in SUBSET FetchedRecords
    BY <2>3 DEF Record, FetchedRecords
  <2>9. \A p, q \in T : p.stamp = q.stamp => p = q
    BY DEF Record
  <2> HIDE DEF T
  <2> QED
    BY <2>1, <2>7, <2>8, <2>9
<1>6. CASE FetchOutcome(s[1], reply) = "records" /\ s \in Publishing /\ s[1] # "prometheus"
  <2>1. \/ R = {}
        \/ \E o, t \in Nat : R = {Record(o, t)}
    <3>1. CASE s[1] = "datadog"
      <4> DEFINE newest == Newest(Within(s, asked))
                 last == IF reply = "gap" THEN asked ELSE newest
      <4>1. R = IF last = 0 THEN {} ELSE {Record(newest, last)}
        BY <1>6, <3>1 DEF Brought, Fetched
      <4>2. newest \in Nat /\ last \in Nat
        BY <1>3
      <4> HIDE DEF newest, last, R
      <4> QED
        BY <4>1, <4>2
    <3>2. CASE s[1] = "splunk"
      <4> DEFINE newest == Newest(Within(s, clock))
      <4>1. R = IF Within(s, clock) = {} THEN {} ELSE {Record(newest, clock)}
        BY <1>6, <3>2 DEF Brought, Fetched
      <4>2. newest \in Nat
        BY <1>3
      <4> HIDE DEF newest, R
      <4> QED
        BY <4>1, <4>2
    <3> QED
      BY <1>0, <1>6, <3>1, <3>2
  <2> HIDE DEF R, Sortable
  <2>2. Sortable(R)
    BY <1>1, <1>2, <2>1
  <2> QED
    BY <2>2 DEF Sortable, R
<1> QED
  BY <1>4, <1>5, <1>6

(* What a range query brings is true, and close to what is in its window.  *)
LEMMA BroughtIsTrue ==
  ASSUME NEW s \in Series, s[1] = "prometheus", clock \in Nat, published[s] \subseteq 1..clock,
         NEW asked \in Nat, asked <= clock, NEW reply
  PROVE  /\ \A r \in Brought(s, asked, reply) : TrueOf(s, r)
         /\ \A r \in Brought(s, asked, reply), o \in published[s] :
              r.stamp >= o + Step /\ clock <= o + Window =>
                \E q \in Brought(s, asked, reply) : q.stamp \in o..(o + Step - 1)
<1> DEFINE R == Brought(s, asked, reply)
           grid == Grid(asked, Window, Step)
           at(t) == Latest(published[s], t, Staleness)
<1>0. Window \in Nat /\ Step \in Nat \ {0} /\ Staleness \in Nat /\ Step <= Staleness
  BY IngestionAssumption
<1> SUFFICES ASSUME R # {} PROVE /\ \A r \in R : TrueOf(s, r)
                                 /\ \A r \in R, o \in published[s] :
                                      r.stamp >= o + Step /\ clock <= o + Window =>
                                        \E q \in R : q.stamp \in o..(o + Step - 1)
  OBVIOUS
<1>1. R = {Record(at(t), t) : t \in {g \in grid : at(g) # 0}}
  BY DEF Brought, RangeRecords
<1>2. \A t \in grid : t \in Nat /\ t <= asked
  BY DEF Grid
<1>3. ASSUME NEW t \in grid
      PROVE  /\ at(t) \in Nat
             /\ at(t) # 0 => /\ at(t) \in published[s] /\ at(t) <= t
                             /\ \A o \in published[s] : o <= t => o <= at(t)
             /\ (\E o \in published[s] : o <= t /\ t < o + Staleness) => at(t) # 0
  <2>1. t \in Nat /\ published[s] \in SUBSET (1..clock)
    BY <1>2
  <2> QED
    BY <1>0, <2>1, LatestIsTrue
<1> HIDE DEF R, at
<1>4. \A o, t : Record(o, t).observation = o /\ Record(o, t).stamp = t
  BY DEF Record
<1>5. ASSUME NEW r \in R PROVE TrueOf(s, r) /\ r.stamp \in grid
  <2>1. PICK t \in grid : at(t) # 0 /\ r = Record(at(t), t)
    BY <1>1
  <2>2. r.observation = at(t) /\ r.stamp = t
    BY <1>4, <2>1
  <2>3. at(t) \in published[s] /\ at(t) <= t /\ \A o \in published[s] : o <= t => o <= at(t)
    BY <1>3, <2>1
  <2>4. t \in 1..clock
    <3>1. at(t) \in 1..clock /\ t \in Nat /\ t <= asked
      BY <1>2, <2>3
    <3> QED
      BY <2>3, <3>1
  <2> QED
    BY <2>1, <2>2, <2>3, <2>4 DEF TrueOf
<1>6. ASSUME NEW r \in R, NEW o \in published[s], r.stamp >= o + Step, clock <= o + Window
      PROVE  \E q \in R : q.stamp \in o..(o + Step - 1)
  <2>1. o \in Nat /\ r.stamp \in grid
    BY <1>5
  <2>2. asked <= o + Window
    BY <1>0, <1>6, <2>1
  <2>3. PICK g \in grid : g >= o /\ g < o + Step
    BY <1>0, <1>6, <2>1, <2>2, GridIsDense
  <2>4. g \in Nat /\ g < o + Staleness
    BY <1>0, <1>2, <2>1, <2>3
  <2>5. at(g) # 0
    BY <1>3, <2>3, <2>4
  <2>6. Record(at(g), g) \in R
    BY <1>1, <2>5
  <2>7. g \in o..(o + Step - 1)
    BY <1>0, <2>1, <2>3, <2>4
  <2> QED
    BY <1>4, <2>6, <2>7
<1> QED
  BY <1>5, <1>6

-----------------------------------------------------------------------------
(* The invariant of live ingestion.                                        *)

\* Before a record of the queue there is one that comes close to each
\* observation of its window it is a step past.
Preceded(q, k) ==
  \A o \in published[q[k].series] :
    q[k].stamp >= o + Step /\ clock <= o + Window =>
      \E j \in 1..(k - 1) : q[j].series = q[k].series /\ q[j].stamp \in o..(o + Step - 1)

QueueOrdered(q) ==
  \A k \in 1..Len(q) : q[k].series[1] = "prometheus" => TrueOf(q[k].series, q[k]) /\ Preceded(q, k)

\* The baseline of a series goes forward, is true, remembers the newest stamp
\* and comes close to each observation of the window it is a step past.
Increasing(values) == \A i, j \in 1..Len(values) : i < j => values[i].stamp < values[j].stamp

Close(state, s) ==
  \A o \in published[s] :
    state.last >= o + Step /\ clock <= o + Window =>
      \E i \in 1..Len(state.values) : state.values[i].stamp \in o..(o + Step - 1)

Ordered(state, s) ==
  /\ state.last = IF state.values = <<>> THEN 0 ELSE state.values[Len(state.values)].stamp
  /\ \A i \in 1..Len(state.values) : TrueOf(s, state.values[i])
  /\ Increasing(state.values)
  /\ Close(state, s)

DetectorOrdered(det) == \A s \in Series : s[1] = "prometheus" => Ordered(det[s], s)

States == [last : Nat, values : Seq(FetchedRecords)]
Detectors == [Series -> States]

\* A poller that goes on has failed less often in a row than ends it, and in
\* this poll no more often than it has asked.
PollsCounted ==
  \A v \in Polled :
    /\ poller[v].at = "pausing" => poller[v].next = 1 /\ poller[v].errors = 0
    /\ poller[v].at \in {"pausing", "fetching"} =>
         poller[v].errors < poller[v].next /\ poller[v].failures < OverflowAt

IngestionInv == TimesPast /\ PollsCounted /\ QueueOrdered(queue) /\ DetectorOrdered(detector)

(* What is put behind records of the queue leaves these as they are.       *)
LEMMA Appended ==
  ASSUME NEW first \in Seq(QueuedRecords), NEW then \in Seq(QueuedRecords)
  PROVE  /\ first \o then \in Seq(QueuedRecords)
         /\ Len(first \o then) = Len(first) + Len(then)
         /\ \A k \in 1..Len(first) : (first \o then)[k] = first[k]
         /\ \A k \in 1..Len(then) : (first \o then)[Len(first) + k] = then[k]
<1>1. first \o then \in Seq(QueuedRecords) /\ Len(first \o then) = Len(first) + Len(then)
  OBVIOUS
<1>2. \A k \in 1..Len(first) : (first \o then)[k] = first[k]
  OBVIOUS
<1>3. \A k \in 1..Len(then) : (first \o then)[Len(first) + k] = then[k]
  OBVIOUS
<1> QED
  BY <1>1, <1>2, <1>3

(* What a fetch adds to the queue keeps it typed, bounded and in order.    *)
LEMMA EnqueuedKeeps ==
  ASSUME queue \in Seq(QueuedRecords), Len(queue) <= QueueCapacity, QueueOrdered(queue),
         published \in [Series -> SUBSET Nat], clock \in Nat, NEW s \in Series, published[s] \subseteq 1..clock,
         NEW asked \in Nat, asked <= clock, NEW reply
  PROVE  /\ Enqueued(s, Brought(s, asked, reply)) \in Seq(QueuedRecords)
         /\ Len(Enqueued(s, Brought(s, asked, reply))) <= QueueCapacity
         /\ QueueOrdered(Enqueued(s, Brought(s, asked, reply)))
<1> DEFINE R == Brought(s, asked, reply)
           sorted == InOrder(s, R)
           room == QueueCapacity - Len(queue)
           m == IF Len(sorted) < room THEN Len(sorted) ELSE room
           added == SubSeq(sorted, 1, m)
           L == Len(queue)
           q == queue \o added
<1>0. Step \in Nat \ {0}
  BY IngestionAssumption
<1>1. /\ R \in SUBSET FetchedRecords /\ IsFiniteSet(R)
      /\ \A p, r \in R : p.stamp = r.stamp => p = r
  BY BroughtCanBeSorted
<1>2. s[1] = "prometheus" =>
        /\ \A r \in R : TrueOf(s, r)
        /\ \A r \in R, o \in published[s] :
             r.stamp >= o + Step /\ clock <= o + Window => \E p \in R : p.stamp \in o..(o + Step - 1)
  BY BroughtIsTrue
<1>3. Enqueued(s, R) = q
  BY DEF Enqueued
<1> HIDE DEF R
<1>4. /\ sorted \in Seq(QueuedRecords)
      /\ \A k \in 1..Len(sorted) : \E r \in R : sorted[k] = Queued(s, r)
      /\ \A r \in R : \E k \in 1..Len(sorted) : sorted[k] = Queued(s, r)
      /\ \A i, j \in 1..Len(sorted) : i < j => sorted[i].stamp < sorted[j].stamp
  BY <1>1, SortedRecords
<1> HIDE DEF sorted
<1>5. L \in Nat /\ Len(sorted) \in Nat /\ QueueCapacity \in Nat /\ L <= QueueCapacity
  BY <1>4, IngestionAssumption
<1>6. m \in 0..Len(sorted) /\ L + m <= QueueCapacity
  BY <1>5
<1> HIDE DEF m
<1>7. /\ added \in Seq(QueuedRecords) /\ Len(added) = m
      /\ \A k \in 1..m : added[k] = sorted[k]
  BY <1>4, <1>5, <1>6
<1> HIDE DEF added
<1>8. /\ q \in Seq(QueuedRecords) /\ Len(q) = L + m
      /\ \A k \in 1..L : q[k] = queue[k]
      /\ \A k \in 1..m : q[L + k] = sorted[k]
  <2>1. /\ queue \o added \in Seq(QueuedRecords)
        /\ Len(queue \o added) = Len(queue) + Len(added)
        /\ \A k \in 1..Len(queue) : (queue \o added)[k] = queue[k]
        /\ \A k \in 1..Len(added) : (queue \o added)[Len(queue) + k] = added[k]
    BY <1>7, Appended
  <2> QED
    BY <1>7, <2>1 DEF q, L
<1> HIDE DEF q, L
<1>9. \A r : Queued(s, r).series = s /\ Queued(s, r).stamp = r.stamp /\ Queued(s, r).observation = r.observation
  BY DEF Queued
<1>10. ASSUME NEW k \in 1..L, queue[k].series[1] = "prometheus"
       PROVE  TrueOf(q[k].series, q[k]) /\ Preceded(q, k)
  <2>1. q[k] = queue[k] /\ \A j \in 1..(k - 1) : q[j] = queue[j]
    BY <1>5, <1>8
  <2>2. TrueOf(queue[k].series, queue[k]) /\ Preceded(queue, k)
    BY <1>10 DEF QueueOrdered, L
  <2> QED
    BY <2>1, <2>2 DEF Preceded
<1>11. ASSUME NEW i \in 1..m, s[1] = "prometheus"
       PROVE  TrueOf(q[L + i].series, q[L + i]) /\ Preceded(q, L + i)
  <2>1. i \in 1..Len(sorted) /\ q[L + i] = sorted[i]
    BY <1>5, <1>6, <1>8
  <2>2. PICK r \in R : sorted[i] = Queued(s, r)
    BY <1>4, <2>1
  <2>3. q[L + i].series = s /\ q[L + i].stamp = r.stamp /\ q[L + i].observation = r.observation
    BY <1>9, <2>1, <2>2
  <2>4. TrueOf(q[L + i].series, q[L + i])
    BY <1>2, <1>11, <2>3 DEF TrueOf
  <2>5. ASSUME NEW o \in published[s], r.stamp >= o + Step, clock <= o + Window
        PROVE  \E j \in 1..((L + i) - 1) : q[j].series = s /\ q[j].stamp \in o..(o + Step - 1)
    <3>1. PICK p \in R : p.stamp \in o..(o + Step - 1)
      BY <1>2, <1>11, <2>5
    <3>2. PICK j \in 1..Len(sorted) : sorted[j] = Queued(s, p)
      BY <1>4
    <3>3. sorted[j].stamp = p.stamp /\ sorted[i].stamp = r.stamp /\ sorted[j].series = s
      BY <1>9, <2>2, <3>2
    <3>4. p.stamp \in Nat /\ r.stamp \in Nat /\ o \in Nat
      BY <1>1 DEF FetchedRecords
    <3>5. p.stamp < r.stamp
      BY <1>0, <2>5, <3>1, <3>4
    <3>6. j < i
      <4> SUFFICES ASSUME i <= j PROVE FALSE
        BY <2>1, <3>2
      <4>1. i = j \/ i < j
        BY <2>1
      <4>2. i = j => r.stamp = p.stamp
        BY <3>3
      <4>3. i < j => r.stamp < p.stamp
        BY <1>4, <2>1, <3>3
      <4> QED
        BY <3>4, <3>5, <4>1, <4>2, <4>3
    <3>7. j \in 1..m /\ L + j \in 1..((L + i) - 1)
      BY <1>5, <1>6, <3>6
    <3> QED
      BY <1>8, <3>1, <3>3, <3>7
  <2>6. Preceded(q, L + i)
    <3> SUFFICES ASSUME NEW o \in published[q[L + i].series], q[L + i].stamp >= o + Step, clock <= o + Window
                 PROVE  \E j \in 1..((L + i) - 1) : q[j].series = q[L + i].series /\ q[j].stamp \in o..(o + Step - 1)
      BY DEF Preceded
    <3>1. o \in published[s] /\ r.stamp >= o + Step
      BY <2>3
    <3>2. \E j \in 1..((L + i) - 1) : q[j].series = s /\ q[j].stamp \in o..(o + Step - 1)
      BY <2>5, <3>1
    <3> QED
      BY <2>3, <3>2
  <2> QED
    BY <2>4, <2>6
<1>12. QueueOrdered(q)
  <2> SUFFICES ASSUME NEW k \in 1..(L + m), q[k].series[1] = "prometheus"
               PROVE  TrueOf(q[k].series, q[k]) /\ Preceded(q, k)
    BY <1>8 DEF QueueOrdered
  <2>1. CASE k \in 1..L
    BY <1>8, <1>10, <2>1
  <2>2. CASE k \notin 1..L
    <3>1. PICK i \in 1..m : k = L + i
      <4>1. k - L \in 1..m /\ k = L + (k - L)
        BY <1>5, <1>6, <2>2
      <4> QED
        BY <4>1
    <3>2. s[1] = "prometheus"
      <4>1. i \in 1..Len(sorted) /\ q[k] = sorted[i]
        BY <1>5, <1>6, <1>8, <3>1
      <4> QED
        BY <1>4, <1>9, <4>1
    <3> QED
      BY <1>11, <3>1, <3>2
  <2> QED
    BY <2>1, <2>2
<1> QED
  BY <1>3, <1>6, <1>8, <1>12 DEF R

\* What a series keeps of a record that is newer than its newest one.
Kept(values, r) == [last |-> r.stamp, values |-> Append(values, Record(r.observation, r.stamp))]

(* Its baseline is one record longer.                                      *)
LEMMA KeptState ==
  ASSUME NEW vs \in Seq(FetchedRecords), NEW r \in QueuedRecords
  PROVE  /\ Kept(vs, r) \in States /\ Len(vs) \in Nat
         /\ Len(Kept(vs, r).values) = Len(vs) + 1
         /\ \A i \in 1..Len(vs) : Kept(vs, r).values[i] = vs[i] /\ vs[i] \in FetchedRecords
         /\ Kept(vs, r).values[Len(vs) + 1].observation = r.observation
         /\ Kept(vs, r).values[Len(vs) + 1].stamp = r.stamp
         /\ Kept(vs, r).last = r.stamp /\ Kept(vs, r).values # <<>>
<1> DEFINE x == Record(r.observation, r.stamp)
<1>0. x \in FetchedRecords /\ x.observation = r.observation /\ x.stamp = r.stamp /\ r.stamp \in Nat
  BY DEF Record, FetchedRecords, QueuedRecords
<1> HIDE DEF x
<1>1. Append(vs, x) \in Seq(FetchedRecords) /\ Len(vs) \in Nat /\ Len(Append(vs, x)) = Len(vs) + 1
  BY <1>0
<1>2. \A i \in 1..Len(vs) : Append(vs, x)[i] = vs[i] /\ vs[i] \in FetchedRecords
  BY <1>0
<1>3. Append(vs, x)[Len(vs) + 1] = x
  BY <1>0
<1>4. Append(vs, x) # <<>>
  BY <1>0
<1>5. Kept(vs, r).values = Append(vs, x) /\ Kept(vs, r).last = r.stamp
  BY DEF Kept, x
<1>6. Kept(vs, r) \in States
  BY <1>0, <1>1 DEF Kept, States, x
<1> QED
  BY <1>0, <1>1, <1>2, <1>3, <1>4, <1>5, <1>6

(* The stamps of a baseline go up to the newest.                           *)
LEMMA LastIsNewest ==
  ASSUME NEW s \in Series, NEW state \in States, clock \in Nat, Ordered(state, s), NEW i \in 1..Len(state.values)
  PROVE  state.values[i].stamp \in Nat \ {0} /\ state.values[i].stamp <= state.last
<1> DEFINE vs == state.values
           n == Len(vs)
<1>1. vs \in Seq(FetchedRecords) /\ n \in Nat
  BY DEF States
<1>2. \A j \in 1..n : vs[j].stamp \in 1..clock
  BY DEF Ordered, TrueOf
<1>3. vs # <<>> /\ n \in 1..n
  BY <1>1
<1>4. state.last = vs[n].stamp
  BY <1>3 DEF Ordered
<1>5. \A j, k \in 1..n : j < k => vs[j].stamp < vs[k].stamp
  BY DEF Ordered, Increasing
<1> HIDE DEF vs, n
<1>6. vs[i].stamp \in Nat \ {0} /\ vs[n].stamp \in Nat /\ i \in 1..n
  BY <1>2, <1>3 DEF vs, n
<1>7. CASE i = n
  BY <1>4, <1>6, <1>7 DEF vs
<1>8. CASE i # n
  <2>1. i < n
    BY <1>1, <1>6, <1>8
  <2>2. vs[i].stamp < vs[n].stamp
    BY <1>3, <1>5, <1>6, <2>1
  <2> QED
    BY <1>4, <1>6, <2>2 DEF vs
<1> QED
  BY <1>7, <1>8

(* A series of Prometheus keeps its order with it: of an observation the   *)
(* new record is a step past there was a close one before.                 *)
LEMMA KeptIsOrdered ==
  ASSUME NEW s \in Series, published[s] \subseteq 1..clock, clock \in Nat, NEW old \in States,
         Ordered(old, s), NEW r \in QueuedRecords, TrueOf(s, r), old.last # 0 => old.last < r.stamp,
         \A o \in published[s] : r.stamp >= o + Step /\ clock <= o + Window =>
           \E t \in o..(o + Step - 1) : t <= old.last
  PROVE  Ordered(Kept(old.values, r), s)
<1> DEFINE vs == old.values
           last == old.last
           n == Len(vs)
           kept == Kept(vs, r)
<1>0. Step \in Nat \ {0} /\ Window \in Nat
  BY IngestionAssumption
<1>1. last \in Nat /\ vs \in Seq(FetchedRecords) /\ r.stamp \in Nat
  BY DEF States, QueuedRecords
<1>2. /\ n \in Nat /\ Len(kept.values) = n + 1
      /\ \A i \in 1..n : kept.values[i] = vs[i]
      /\ kept.values[n + 1].observation = r.observation
      /\ kept.values[n + 1].stamp = r.stamp
      /\ kept.last = r.stamp /\ kept.values # <<>>
  BY <1>1, KeptState
<1>3. /\ last = IF vs = <<>> THEN 0 ELSE vs[n].stamp
      /\ \A i \in 1..n : TrueOf(s, vs[i])
      /\ \A i, j \in 1..n : i < j => vs[i].stamp < vs[j].stamp
      /\ Close(old, s)
  BY DEF Ordered, Increasing
<1>4. \A i \in 1..n : vs[i].stamp \in Nat \ {0} /\ vs[i].stamp <= last
  BY LastIsNewest
<1>5. last # 0 => n \in 1..n /\ last = vs[n].stamp
  BY <1>1, <1>3
<1> HIDE DEF vs, last, n, kept
<1>6. ASSUME NEW i \in 1..n PROVE vs[i].stamp < r.stamp
  BY <1>1, <1>4 DEF last
<1>7. kept.last = IF kept.values = <<>> THEN 0 ELSE kept.values[Len(kept.values)].stamp
  BY <1>2
<1>8. ASSUME NEW i \in 1..(n + 1) PROVE TrueOf(s, kept.values[i])
  <2>1. CASE i = n + 1
    BY <1>2, <2>1 DEF TrueOf
  <2>2. CASE i # n + 1
    <3>1. i \in 1..n
      BY <1>2, <2>2
    <3> QED
      BY <1>2, <1>3, <3>1
  <2> QED
    BY <2>1, <2>2
<1>9. ASSUME NEW i \in 1..(n + 1), NEW j \in 1..(n + 1), i < j
      PROVE  kept.values[i].stamp < kept.values[j].stamp
  <2>1. i \in 1..n
    BY <1>2, <1>9
  <2>2. kept.values[i] = vs[i]
    BY <1>2, <2>1
  <2>3. CASE j = n + 1
    BY <1>2, <1>6, <2>1, <2>2, <2>3
  <2>4. CASE j # n + 1
    <3>1. j \in 1..n
      BY <1>2, <2>4
    <3>2. kept.values[j] = vs[j] /\ vs[i].stamp < vs[j].stamp
      BY <1>2, <1>3, <1>9, <2>1, <3>1
    <3> QED
      BY <2>2, <3>2
  <2> QED
    BY <2>3, <2>4
<1>10. ASSUME NEW o \in published[s], r.stamp >= o + Step, clock <= o + Window
       PROVE  \E i \in 1..(n + 1) : kept.values[i].stamp \in o..(o + Step - 1)
  <2>0. o \in Nat
    OBVIOUS
  <2>1. PICK i \in 1..n : vs[i].stamp \in o..(o + Step - 1)
    <3>1. CASE last >= o + Step
      <4>1. \A i : old.values[i] = vs[i] /\ Len(old.values) = n /\ old.last = last
        BY DEF vs, n, last
      <4> QED
        BY <1>3, <1>10, <3>1, <4>1 DEF Close
    <3>2. CASE ~(last >= o + Step)
      <4>1. PICK t \in o..(o + Step - 1) : t <= last
        BY <1>10 DEF last
      <4>2. o \in Nat \ {0} /\ t \in Nat /\ t # 0 /\ o <= t
        BY <1>0, <4>1
      <4>3. last # 0 /\ last \in o..(o + Step - 1)
        BY <1>0, <1>1, <3>2, <4>1, <4>2
      <4> QED
        BY <1>5, <4>3
    <3> QED
      BY <3>1, <3>2
  <2>2. i \in 1..(n + 1) /\ kept.values[i] = vs[i]
    BY <1>2
  <2> QED
    BY <2>1, <2>2
<1>11. Ordered(kept, s)
  BY <1>2, <1>7, <1>8, <1>9, <1>10 DEF Ordered, Increasing, Close
<1> QED
  BY <1>11 DEF kept, vs

(* The detector examines the next record of the queue.                     *)
LEMMA ObserveKeeps ==
  ASSUME clock \in Nat, \A s \in Series : published[s] \subseteq 1..clock,
         queue \in Seq(QueuedRecords), QueueOrdered(queue),
         NEW det \in Detectors, DetectorOrdered(det), NEW k \in 0..(Len(queue) - 1),
         \A j \in 1..k : queue[j].stamp <= det[queue[j].series].last
  PROVE  /\ Observe(det, queue[k + 1]) \in Detectors
         /\ DetectorOrdered(Observe(det, queue[k + 1]))
         /\ \A j \in 1..(k + 1) : queue[j].stamp <= Observe(det, queue[k + 1])[queue[j].series].last
<1>0. /\ k + 1 \in 1..Len(queue) /\ Len(queue) \in Nat
      /\ \A j \in 1..k : j \in 1..Len(queue)
      /\ \A j \in 1..(k + 1) : j \in 1..k \/ j = k + 1
      /\ \A j \in 1..((k + 1) - 1) : j \in 1..k
      /\ \A j \in 1..Len(queue) : queue[j] \in QueuedRecords
  OBVIOUS
<1>1. PICK r \in QueuedRecords : r = queue[k + 1]
  BY <1>0
<1>2. PICK s \in Series : s = r.series
  BY DEF QueuedRecords
<1>3. PICK old \in States : old = det[s]
  BY DEF Detectors
<1>4. r.stamp \in Nat /\ old.last \in Nat /\ old.values \in Seq(FetchedRecords)
  BY DEF QueuedRecords, States
<1>5. ASSUME NEW j \in 1..k
      PROVE  /\ queue[j].series \in Series /\ queue[j].stamp \in Nat
             /\ queue[j].stamp <= det[queue[j].series].last
  <2>1. j \in 1..Len(queue) /\ queue[j] \in QueuedRecords
    BY <1>0
  <2> QED
    BY <2>1 DEF QueuedRecords
<1>6. CASE old.last # 0 /\ r.stamp <= old.last
  <2>1. Observe(det, queue[k + 1]) = det
    BY <1>1, <1>2, <1>3, <1>6 DEF Observe
  <2>2. queue[k + 1].stamp <= det[queue[k + 1].series].last
    BY <1>1, <1>2, <1>3, <1>6
  <2>3. \A j \in 1..(k + 1) : queue[j].stamp <= det[queue[j].series].last
    BY <1>0, <1>5, <2>2
  <2> QED
    BY <2>1, <2>3
<1>7. CASE ~(old.last # 0 /\ r.stamp <= old.last)
  <2>1. PICK kept : kept = Kept(old.values, r)
    OBVIOUS
  <2>2. PICK new : new = [det EXCEPT ![s] = kept]
    OBVIOUS
  <2>3. Observe(det, queue[k + 1]) = new
    BY <1>1, <1>2, <1>3, <1>7, <2>1, <2>2 DEF Observe, Kept
  <2>4. kept \in States /\ kept.last = r.stamp
    BY <1>4, <2>1, KeptState
  <2>5. new \in Detectors /\ new[s] = kept /\ \A x \in Series : x # s => new[x] = det[x]
    BY <2>2, <2>4 DEF Detectors
  <2>6. old.last <= r.stamp /\ (old.last # 0 => old.last < r.stamp)
    BY <1>4, <1>7
  <2>7. s[1] = "prometheus" => Ordered(kept, s)
    <3> SUFFICES ASSUME s[1] = "prometheus" PROVE Ordered(kept, s)
      OBVIOUS
    <3>1. Ordered(old, s)
      BY <1>3 DEF DetectorOrdered
    <3>2. TrueOf(s, r) /\ Preceded(queue, k + 1)
      BY <1>0, <1>1, <1>2 DEF QueueOrdered
    <3>3. ASSUME NEW o \in published[s], r.stamp >= o + Step, clock <= o + Window
          PROVE  \E t \in o..(o + Step - 1) : t <= old.last
      <4>1. PICK j \in 1..((k + 1) - 1) : queue[j].series = s /\ queue[j].stamp \in o..(o + Step - 1)
        BY <1>1, <1>2, <3>2, <3>3 DEF Preceded
      <4>2. j \in 1..k
        BY <1>0
      <4>3. queue[j].stamp <= old.last
        BY <1>3, <1>5, <4>1, <4>2
      <4> QED
        BY <4>1, <4>3
    <3> QED
      BY <2>1, <2>6, <3>1, <3>2, <3>3, KeptIsOrdered
  <2>8. DetectorOrdered(new)
    BY <2>5, <2>7 DEF DetectorOrdered
  <2>9. ASSUME NEW j \in 1..(k + 1)
        PROVE  queue[j].stamp <= new[queue[j].series].last
    <3>1. CASE j = k + 1
      BY <1>1, <1>2, <1>4, <2>4, <2>5, <3>1
    <3>2. CASE j \in 1..k
      <4>1. /\ queue[j].series \in Series /\ queue[j].stamp \in Nat
            /\ queue[j].stamp <= det[queue[j].series].last
        BY <1>5, <3>2
      <4>2. CASE queue[j].series # s
        BY <2>5, <4>1, <4>2
      <4>3. CASE queue[j].series = s
        <5>1. queue[j].stamp <= old.last /\ new[queue[j].series].last = r.stamp
          BY <1>3, <2>4, <2>5, <4>1, <4>3
        <5> QED
          BY <1>4, <2>6, <4>1, <5>1
      <4> QED
        BY <4>2, <4>3
    <3> QED
      BY <1>0, <3>1, <3>2
  <2> QED
    BY <2>3, <2>5, <2>8, <2>9
<1> QED
  BY <1>6, <1>7

(* The detector after a whole queue.                                       *)
LEMMA ConsumeKeeps ==
  ASSUME clock \in Nat, \A s \in Series : published[s] \subseteq 1..clock,
         queue \in Seq(QueuedRecords), QueueOrdered(queue),
         detector \in Detectors, DetectorOrdered(detector)
  PROVE  /\ FoldLeft(Observe, detector, queue) \in Detectors
         /\ DetectorOrdered(FoldLeft(Observe, detector, queue))
<1> DEFINE m == Len(queue)
           Seen(k, det) == \A j \in 1..k : queue[j].stamp <= det[queue[j].series].last
           T == {kd \in (0..m) \X Detectors : DetectorOrdered(kd[2]) /\ Seen(kd[1], kd[2])}
<1>1. m \in Nat /\ DOMAIN queue = 1..m
  OBVIOUS
<1>2. <<0, detector>> \in T
  <2>1. 1..0 = {}
    OBVIOUS
  <2> QED
    BY <1>1, <2>1
<1>3. ASSUME NEW k \in 0..(m - 1), NEW d, <<k, d>> \in T
      PROVE  <<k + 1, Observe(d, queue[k + 1])>> \in T
  <2>1. d \in Detectors /\ DetectorOrdered(d) /\ Seen(k, d)
    BY <1>3
  <2>2. /\ Observe(d, queue[k + 1]) \in Detectors
        /\ DetectorOrdered(Observe(d, queue[k + 1]))
        /\ Seen(k + 1, Observe(d, queue[k + 1]))
    BY <2>1, ObserveKeeps
  <2>3. k + 1 \in 0..m
    BY <1>1
  <2> HIDE DEF Seen
  <2> QED
    BY <2>2, <2>3
<1>4. <<m, FoldLeft(Observe, detector, queue)>> \in T
  <2> HIDE DEF T, m
  <2> QED
    BY <1>1, <1>2, <1>3, FoldInduction
<1> QED
  BY <1>4

(* What becomes of a poller when a fetch ends.                             *)
LEMMA AfterFetchKeeps ==
  ASSUME NEW task \in Poller, NEW outcome, NEW queued, clock \in Nat, task.asked <= clock,
         task.at = "fetching", task.errors < task.next, task.failures < OverflowAt
  PROVE  /\ AfterFetch(task, outcome, queued) \in Poller
         /\ AfterFetch(task, outcome, queued).asked <= clock
         /\ AfterFetch(task, outcome, queued).at = "pausing" =>
              /\ AfterFetch(task, outcome, queued).next = 1
              /\ AfterFetch(task, outcome, queued).errors = 0
         /\ AfterFetch(task, outcome, queued).at \in {"pausing", "fetching"} =>
              /\ AfterFetch(task, outcome, queued).errors < AfterFetch(task, outcome, queued).next
              /\ AfterFetch(task, outcome, queued).failures < OverflowAt
<1> DEFINE after == AfterFetch(task, outcome, queued)
           errors == task.errors + (IF outcome = "source_error" THEN 1 ELSE 0)
           next == task.next + 1
<1>0. /\ DOMAIN Watched = 1..Len(Watched) /\ Len(Watched) \in Nat /\ 1 \in DOMAIN Watched
      /\ OverflowAt \in Nat \ {0}
  BY IngestionAssumption
<1>1. /\ task.next \in 1..Len(Watched) /\ task.errors \in 0..Len(Watched)
      /\ task.failures \in 0..OverflowAt /\ task.at \in {"pausing", "fetching", "dead", "cancelled"}
  BY <1>0 DEF Poller
<1>2. ASSUME after = Failed(task) PROVE /\ after \in Poller /\ after.next = 1 /\ after.errors = 0
                                        /\ after.asked = 0
                                        /\ after.at = "pausing" => after.failures < OverflowAt
                                        /\ after.at # "fetching"
  <2> DEFINE failures == task.failures + 1
             where == IF failures >= OverflowAt THEN "dead" ELSE "pausing"
  <2>1. failures \in 0..OverflowAt /\ where \in {"pausing", "dead"}
        /\ (where = "pausing" => failures < OverflowAt)
    BY <1>0, <1>1
  <2>2. after = [at |-> where, next |-> 1, asked |-> 0, errors |-> 0,
                 failures |-> failures, waits |-> FALSE]
    BY <1>2 DEF Failed
  <2>3. 0 \in 0..Len(Watched)
    BY <1>0
  <2> HIDE DEF failures, where, after
  <2> QED
    BY <1>0, <2>1, <2>2, <2>3 DEF Poller
<1>3. ASSUME after = Succeeded(task) PROVE /\ after \in Poller /\ after.next = 1 /\ after.errors = 0
                                           /\ after.failures = 0 /\ after.at = "pausing" /\ after.asked = 0
  <2>1. 0 \in 0..Len(Watched) /\ 0 \in 0..OverflowAt
    BY <1>0
  <2> HIDE DEF after
  <2> QED
    BY <1>0, <1>3, <2>1 DEF Succeeded, Poller
<1>4. ASSUME task.next < Len(Watched),
             after = [task EXCEPT !.next = next, !.asked = clock, !.errors = errors, !.waits = queued # <<>>]
      PROVE  /\ after \in Poller /\ after.at = task.at /\ after.failures = task.failures
             /\ after.errors < after.next /\ after.next # 1 /\ after.asked = clock
  <2>1. next \in 1..Len(Watched) /\ next # 1
    BY <1>0, <1>1, <1>4
  <2>2. errors \in 0..Len(Watched) /\ errors < next
    BY <1>0, <1>1, <1>4
  <2> HIDE DEF after, errors, next
  <2>3. (queued # <<>>) \in BOOLEAN
    OBVIOUS
  <2> QED
    BY <1>0, <1>4, <2>1, <2>2, <2>3 DEF Poller
<1>5. \/ after = Failed(task)
      \/ after = Succeeded(task)
      \/ /\ task.next < Len(Watched)
         /\ after = [task EXCEPT !.next = next, !.asked = clock, !.errors = errors, !.waits = queued # <<>>]
  <2> HIDE DEF errors
  <2>1. CASE outcome = "unexpected"
    BY <2>1 DEF AfterFetch
  <2>2. CASE outcome # "unexpected" /\ task.next < Len(Watched)
    BY <2>2 DEF AfterFetch, errors
  <2>3. CASE outcome # "unexpected" /\ ~(task.next < Len(Watched))
    BY <2>3 DEF AfterFetch
  <2> QED
    BY <2>1, <2>2, <2>3
<1> HIDE DEF after, errors, next
<1>6. /\ after \in Poller /\ after.asked <= clock
      /\ after.at = "pausing" => after.next = 1 /\ after.errors = 0
      /\ after.at \in {"pausing", "fetching"} => after.errors < after.next /\ after.failures < OverflowAt
  <2>1. CASE after = Failed(task)
    BY <1>2, <2>1
  <2>2. CASE after = Succeeded(task)
    BY <1>0, <1>3, <2>2
  <2>3. CASE /\ task.next < Len(Watched)
             /\ after = [task EXCEPT !.next = next, !.asked = clock, !.errors = errors, !.waits = queued # <<>>]
    BY <1>4, <2>3
  <2> QED
    BY <1>5, <2>1, <2>2, <2>3
<1> QED
  BY <1>6 DEF after

\* The types of the state, named for the steps.
Typed ==
  /\ clock \in Nat
  /\ published \in [Series -> SUBSET Nat]
  /\ poller \in [Polled -> Poller]
  /\ queue \in Seq(QueuedRecords) /\ Len(queue) <= QueueCapacity
  /\ consuming \in BOOLEAN
  /\ detector \in Detectors
  /\ cooling \in [WatchedServices -> BOOLEAN]
  /\ escalations \in [waiting : Nat, running : 0..MaxConcurrent]

LEMMA TypedIsTypeOK == Typed <=> IngestionTypeOK
  BY DEF Typed, IngestionTypeOK, QueuedRecords, Detectors, States, FetchedRecords

(* Time that passes leaves the order as it is: what is observed then is    *)
(* later than all that is queued or in a baseline.                         *)
LEMMA OrderStaysInTime ==
  ASSUME Typed, TimesPast, QueueOrdered(queue), DetectorOrdered(detector), clock' = clock + 1,
         \A s \in Series : /\ published[s] \subseteq published'[s]
                           /\ published'[s] \subseteq published[s] \cup {clock'},
         queue' = queue, detector' = detector
  PROVE  QueueOrdered(queue)' /\ DetectorOrdered(detector)'
<1> DEFINE TrueThen(s, r) ==
             /\ r.stamp \in 1..clock' /\ r.observation \in published'[s] /\ r.observation <= r.stamp
             /\ \A o \in published'[s] : o <= r.stamp => o <= r.observation
<1>0. /\ clock \in Nat /\ Step \in Nat \ {0} /\ Window \in Nat
      /\ \A s \in Series : published[s] \subseteq 1..clock
  BY IngestionAssumption DEF Typed, TimesPast
<1>1. ASSUME NEW s \in Series, NEW r, TrueOf(s, r) PROVE TrueThen(s, r)
  <2>1. /\ r.stamp \in 1..clock /\ r.observation \in published[s] /\ r.observation <= r.stamp
        /\ \A o \in published[s] : o <= r.stamp => o <= r.observation
    BY <1>1 DEF TrueOf
  <2>2. r.stamp \in 1..clock' /\ ~(clock' <= r.stamp)
    BY <1>0, <2>1
  <2>3. \A o \in published'[s] : o \in published[s] \/ o = clock'
    OBVIOUS
  <2>4. r.observation \in published'[s]
    BY <2>1
  <2> QED
    BY <2>1, <2>2, <2>3, <2>4
<1>2. ASSUME NEW s \in Series, NEW o \in published'[s], NEW t \in Nat, t <= clock, t >= o + Step,
             clock' <= o + Window
      PROVE  o \in published[s] /\ clock <= o + Window
  <2>1. o \in published[s] \/ o = clock'
    BY <1>2
  <2>2. o # clock'
    BY <1>0, <1>2
  <2>3. o \in published[s] /\ o \in Nat
    BY <1>0, <2>1, <2>2
  <2> QED
    BY <1>0, <1>2, <2>3
<1>3. QueueOrdered(queue)'
  <2> SUFFICES ASSUME NEW k \in 1..Len(queue), queue[k].series[1] = "prometheus"
               PROVE  /\ TrueThen(queue[k].series, queue[k])
                      /\ \A o \in published'[queue[k].series] :
                           queue[k].stamp >= o + Step /\ clock' <= o + Window =>
                             \E j \in 1..(k - 1) : /\ queue[j].series = queue[k].series
                                                   /\ queue[j].stamp \in o..(o + Step - 1)
    BY DEF QueueOrdered, TrueOf, Preceded
  <2>1. TrueOf(queue[k].series, queue[k]) /\ Preceded(queue, k)
    BY DEF QueueOrdered
  <2>2. queue[k].series \in Series /\ queue[k].stamp \in Nat /\ queue[k].stamp <= clock
    <3>1. queue[k] \in QueuedRecords
      BY DEF Typed
    <3> QED
      BY <1>0, <2>1, <3>1 DEF QueuedRecords, TrueOf
  <2>3. TrueThen(queue[k].series, queue[k])
    BY <1>1, <2>1, <2>2
  <2>4. ASSUME NEW o \in published'[queue[k].series], queue[k].stamp >= o + Step, clock' <= o + Window
        PROVE  \E j \in 1..(k - 1) : queue[j].series = queue[k].series /\ queue[j].stamp \in o..(o + Step - 1)
    <3>1. o \in published[queue[k].series] /\ clock <= o + Window
      BY <1>2, <2>2, <2>4
    <3> QED
      BY <2>1, <2>4, <3>1 DEF Preceded
  <2> HIDE DEF TrueThen
  <2> QED
    BY <2>3, <2>4
<1>4. DetectorOrdered(detector)'
  <2> SUFFICES ASSUME NEW s \in Series, s[1] = "prometheus"
               PROVE  /\ detector[s].last = IF detector[s].values = <<>> THEN 0
                                            ELSE detector[s].values[Len(detector[s].values)].stamp
                      /\ \A i \in 1..Len(detector[s].values) : TrueThen(s, detector[s].values[i])
                      /\ Increasing(detector[s].values)
                      /\ \A o \in published'[s] :
                           detector[s].last >= o + Step /\ clock' <= o + Window =>
                             \E i \in 1..Len(detector[s].values) :
                               detector[s].values[i].stamp \in o..(o + Step - 1)
    BY DEF DetectorOrdered, Ordered, Close, TrueOf
  <2>1. Ordered(detector[s], s)
    BY DEF DetectorOrdered
  <2>2. detector[s].last \in Nat /\ detector[s].last <= clock
    <3> DEFINE vs == detector[s].values
    <3>1. detector[s].last \in Nat /\ vs \in Seq(FetchedRecords)
      BY DEF Typed, Detectors, States
    <3>2. CASE vs = <<>>
      BY <1>0, <2>1, <3>2 DEF Ordered
    <3>3. CASE vs # <<>>
      <4>1. Len(vs) \in 1..Len(vs)
        BY <3>1, <3>3
      <4>2. detector[s].last = vs[Len(vs)].stamp /\ TrueOf(s, vs[Len(vs)])
        BY <2>1, <3>3, <4>1 DEF Ordered
      <4> QED
        BY <1>0, <3>1, <4>2 DEF TrueOf
    <3> QED
      BY <3>1, <3>2, <3>3
  <2>3. \A i \in 1..Len(detector[s].values) : TrueThen(s, detector[s].values[i])
    <3>1. \A i \in 1..Len(detector[s].values) : TrueOf(s, detector[s].values[i])
      BY <2>1 DEF Ordered
    <3> HIDE DEF TrueThen
    <3> QED
      BY <1>1, <3>1
  <2>4. ASSUME NEW o \in published'[s], detector[s].last >= o + Step, clock' <= o + Window
        PROVE  \E i \in 1..Len(detector[s].values) : detector[s].values[i].stamp \in o..(o + Step - 1)
    <3>1. o \in published[s] /\ clock <= o + Window
      BY <1>2, <2>2, <2>4
    <3> QED
      BY <2>1, <2>4, <3>1 DEF Ordered, Close
  <2> HIDE DEF TrueThen
  <2> QED
    BY <2>1, <2>3, <2>4 DEF Ordered
<1> QED
  BY <1>3, <1>4

(* Every step of live ingestion keeps types and invariant.                 *)
LEMMA IngestionInvNext ==
  ASSUME Typed, IngestionInv, [IngestionNext]_ingestionVars
  PROVE  Typed' /\ IngestionInv'
<1>0. /\ {Window, QueueCapacity, MaxConcurrent, OverflowAt} \subseteq Nat \ {0}
  BY IngestionAssumption
<1>1. ASSUME NEW observing \in SUBSET Publishing, TimePasses(observing) PROVE Typed' /\ IngestionInv'
  <2>1. /\ clock \in Nat /\ clock' = clock + 1
        /\ published' = [s \in Series |-> published[s] \cup (IF s \in observing THEN {clock'} ELSE {})]
        /\ UNCHANGED <<poller, queue, consuming, detector, cooling, escalations>>
    BY <1>1 DEF TimePasses, Typed
  <2>2. clock' \in Nat /\ clock' \in 1..clock'
    BY <2>1
  <2>3. ASSUME NEW s \in Series
        PROVE  /\ published[s] \subseteq published'[s]
               /\ published'[s] \subseteq published[s] \cup {clock'}
               /\ published[s] \subseteq 1..clock
    BY <2>1 DEF IngestionInv, TimesPast
  <2>4. TimesPast'
    <3>1. \A s \in Series : published'[s] \subseteq 1..clock'
      <4> SUFFICES ASSUME NEW s \in Series, NEW o \in published'[s] PROVE o \in 1..clock'
        OBVIOUS
      <4>1. o \in 1..clock \/ o = clock'
        BY <2>3
      <4> QED
        BY <2>1, <2>2, <4>1
    <3>2. ASSUME NEW v \in Polled PROVE poller'[v].asked <= clock'
      <4>1. poller'[v] = poller[v] /\ poller[v].asked \in Nat /\ poller[v].asked <= clock
        BY <2>1 DEF Typed, Poller, IngestionInv, TimesPast
      <4> QED
        BY <2>1, <4>1
    <3> QED
      BY <3>1, <3>2 DEF TimesPast
  <2>5. published' \in [Series -> SUBSET Nat]
    <3>1. \A s \in Series : published[s] \cup (IF s \in observing THEN {clock'} ELSE {}) \in SUBSET Nat
      BY <2>2 DEF Typed
    <3> QED
      BY <2>1, <3>1
  <2>6. Typed'
    BY <2>1, <2>2, <2>5 DEF Typed
  <2>7. QueueOrdered(queue)' /\ DetectorOrdered(detector)'
    BY <2>1, <2>3, OrderStaysInTime DEF IngestionInv
  <2> QED
    BY <2>1, <2>4, <2>6, <2>7 DEF IngestionInv, PollsCounted
<1>2. ASSUME NEW v \in Polled, NEW reply \in Replies, EndFetch(v, reply) PROVE Typed' /\ IngestionInv'
  <2> DEFINE s == <<v, Watched[poller[v].next]>>
             after == AfterFetch(poller[v], FetchOutcome(v, reply), queue')
             asked == poller[v].asked
  <2>1. /\ poller[v].at = "fetching" /\ queue' = Enqueued(s, Brought(s, asked, reply))
        /\ poller' = [poller EXCEPT ![v] = after]
        /\ UNCHANGED <<clock, published, consuming, detector, cooling, escalations>>
    BY <1>2 DEF EndFetch
  <2>2. /\ poller \in [Polled -> Poller] /\ poller[v] \in Poller /\ poller[v].next \in DOMAIN Watched
        /\ asked \in Nat /\ asked <= clock /\ clock \in Nat
    BY DEF Typed, Poller, IngestionInv, TimesPast
  <2>3. s \in Series
    BY <2>2 DEF Series, WatchedServices
  <2>4. poller[v].errors < poller[v].next /\ poller[v].failures < OverflowAt
    BY <2>1 DEF IngestionInv, PollsCounted
  <2>5. /\ after \in Poller /\ after.asked <= clock
        /\ after.at = "pausing" => after.next = 1 /\ after.errors = 0
        /\ after.at \in {"pausing", "fetching"} => after.errors < after.next /\ after.failures < OverflowAt
    BY <2>1, <2>2, <2>4, AfterFetchKeeps
  <2> HIDE DEF s, after
  <2>6. queue' \in Seq(QueuedRecords) /\ Len(queue') <= QueueCapacity /\ QueueOrdered(queue')
    <3>1. published[s] \subseteq 1..clock
      BY <2>3 DEF IngestionInv, TimesPast
    <3> HIDE DEF asked
    <3> QED
      BY <2>1, <2>2, <2>3, <3>1, EnqueuedKeeps DEF Typed, IngestionInv
  <2>7. poller' \in [Polled -> Poller] /\ PollsCounted' /\ TimesPast'
    <3>1. poller'[v] = after /\ \A u \in Polled : u # v => poller'[u] = poller[u]
      BY <2>1, <2>2
    <3> QED
      BY <2>1, <2>2, <2>5, <3>1 DEF PollsCounted, TimesPast, IngestionInv
  <2>8. QueueOrdered(queue)' /\ DetectorOrdered(detector)'
    BY <2>1, <2>6 DEF IngestionInv, QueueOrdered, Preceded, TrueOf, DetectorOrdered, Ordered, Close
  <2>9. Typed'
    BY <2>1, <2>6, <2>7 DEF Typed
  <2> QED
    BY <2>7, <2>8, <2>9 DEF IngestionInv
<1>3. ASSUME NEW v \in Polled, Poll(v) PROVE Typed' /\ IngestionInv'
  <2>1. /\ poller[v].at = "pausing" /\ poller \in [Polled -> Poller]
        /\ poller' = [poller EXCEPT ![v].at = "fetching", ![v].asked = clock, ![v].waits = queue # <<>>]
        /\ UNCHANGED <<clock, published, queue, consuming, detector, cooling, escalations>>
    BY <1>3 DEF Poll, Typed
  <2>2. (queue # <<>>) \in BOOLEAN
    OBVIOUS
  <2>3. poller'[v] = [poller[v] EXCEPT !.at = "fetching", !.asked = clock, !.waits = queue # <<>>]
        /\ \A u \in Polled : u # v => poller'[u] = poller[u]
    BY <2>1
  <2>4. poller'[v] \in Poller /\ poller'[v].at = "fetching" /\ poller'[v].next = poller[v].next
        /\ poller'[v].errors = poller[v].errors /\ poller'[v].failures = poller[v].failures
        /\ poller'[v].asked = clock
    <3>0. clock \in Nat
      BY DEF Typed
    <3>1. PICK task \in Poller : task = poller[v]
      BY <2>1
    <3>2. PICK waits \in BOOLEAN : waits = (queue # <<>>)
      BY <2>2
    <3>3. poller'[v] = [task EXCEPT !.at = "fetching", !.asked = clock, !.waits = waits]
      BY <2>3, <3>1, <3>2
    <3> QED
      BY <3>0, <3>1, <3>3 DEF Poller
  <2>5. poller' \in [Polled -> Poller]
    BY <2>1, <2>3, <2>4
  <2>6. PollsCounted'
    BY <2>1, <2>3, <2>4 DEF PollsCounted, IngestionInv
  <2>7. TimesPast' /\ QueueOrdered(queue)' /\ DetectorOrdered(detector)'
    <3>0. clock \in Nat /\ \A u \in Polled : poller[u].asked <= clock
      BY DEF Typed, IngestionInv, TimesPast
    <3>1. ASSUME NEW u \in Polled PROVE poller'[u].asked <= clock
      <4>1. CASE u = v
        BY <2>4, <3>0, <4>1
      <4>2. CASE u # v
        BY <2>3, <3>0, <4>2
      <4> QED
        BY <4>1, <4>2
    <3>2. TimesPast'
      BY <2>1, <3>1 DEF IngestionInv, TimesPast
    <3> QED
      BY <2>1, <3>2 DEF IngestionInv, QueueOrdered, Preceded, TrueOf, DetectorOrdered, Ordered, Close
  <2>8. Typed'
    BY <2>1, <2>5 DEF Typed
  <2> QED
    BY <2>6, <2>7, <2>8 DEF IngestionInv
<1>4. ASSUME NEW suspicious \in SUBSET WatchedServices, Consume(suspicious) PROVE Typed' /\ IngestionInv'
  <2> DEFINE escalated == {w \in suspicious : ~cooling[w]}
             cooled == [w \in WatchedServices |-> cooling[w] \/ w \in escalated]
  <2>1. /\ queue' = <<>> /\ detector' = FoldLeft(Observe, detector, queue)
        /\ cooling' = cooled
        /\ escalations' = [escalations EXCEPT !.waiting = @ + Cardinality(escalated)]
        /\ poller' = [u \in Polled |-> [poller[u] EXCEPT !.waits = FALSE]]
        /\ UNCHANGED <<clock, published, consuming>>
    BY <1>4 DEF Consume
  <2>2. detector' \in Detectors /\ DetectorOrdered(detector')
    <3> HIDE DEF cooled, escalated
    <3> QED
      BY <2>1, ConsumeKeeps DEF Typed, IngestionInv, TimesPast
  <2>3. DetectorOrdered(detector)'
    BY <2>1, <2>2 DEF DetectorOrdered, Ordered, Close, TrueOf
  <2>4. queue' \in Seq(QueuedRecords) /\ Len(queue') <= QueueCapacity /\ QueueOrdered(queue)'
    <3>1. queue' = <<>>
      BY <2>1
    <3>2. <<>> \in Seq(QueuedRecords) /\ Len(<<>>) = 0 /\ 1..0 = {}
      OBVIOUS
    <3> QED
      BY <1>0, <3>1, <3>2 DEF QueueOrdered
  <2>5. escalated \subseteq WatchedServices /\ IsFiniteSet(WatchedServices)
    <3>1. Watched \in [1..Len(Watched) -> WatchedServices] /\ Len(Watched) \in Nat
          /\ DOMAIN Watched = 1..Len(Watched)
      BY IngestionAssumption DEF WatchedServices
    <3>2. \A w \in WatchedServices : \E i \in 1..Len(Watched) : Watched[i] = w
      BY <3>1 DEF WatchedServices
    <3>3. Watched \in Surjection(1..Len(Watched), WatchedServices)
      BY <3>1, <3>2 DEF Surjection
    <3>4. IsFiniteSet(1..Len(Watched))
      BY <3>1, FS_Interval
    <3> QED
      BY <3>3, <3>4, FS_Surjection
  <2>6. Cardinality(escalated) \in Nat
    <3> HIDE DEF escalated
    <3> QED
      BY <2>5, FS_Subset, FS_CardinalityType
  <2>7. escalations' \in [waiting : Nat, running : 0..MaxConcurrent]
    <3> HIDE DEF escalated
    <3> QED
      BY <2>1, <2>6 DEF Typed
  <2>8. cooling' \in [WatchedServices -> BOOLEAN]
    <3>1. \A w : (cooling[w] \/ w \in escalated) \in BOOLEAN
      BY Zenon
    <3> QED
      BY <2>1, <3>1, Zenon
  <2>9. poller' \in [Polled -> Poller] /\ PollsCounted' /\ TimesPast'
    <3>1. \A u \in Polled : /\ poller'[u] = [poller[u] EXCEPT !.waits = FALSE] /\ poller[u] \in Poller
      BY <2>1 DEF Typed
    <3>2. ASSUME NEW u \in Polled
          PROVE  /\ poller'[u] \in Poller /\ poller'[u].at = poller[u].at
                 /\ poller'[u].next = poller[u].next /\ poller'[u].errors = poller[u].errors
                 /\ poller'[u].failures = poller[u].failures
                 /\ poller'[u].asked = poller[u].asked
      <4>1. PICK task \in Poller : task = poller[u]
        BY <3>1
      <4>2. poller'[u] = [task EXCEPT !.waits = FALSE]
        BY <3>1, <4>1
      <4> QED
        BY <4>1, <4>2 DEF Poller
    <3>3. poller' \in [Polled -> Poller]
      <4>1. poller' = [u \in Polled |-> poller'[u]]
        BY <2>1
      <4> QED
        BY <3>2, <4>1
    <3> QED
      BY <2>1, <3>2, <3>3 DEF PollsCounted, TimesPast, IngestionInv
  <2>10. Typed'
    BY <2>1, <2>2, <2>4, <2>7, <2>8, <2>9 DEF Typed
  <2> QED
    BY <2>3, <2>4, <2>9, <2>10 DEF IngestionInv
<1>5. ASSUME NEW w \in WatchedServices, EndCooldown(w) PROVE Typed' /\ IngestionInv'
  <2>1. /\ cooling' = [cooling EXCEPT ![w] = FALSE]
        /\ UNCHANGED <<clock, published, poller, queue, consuming, detector, escalations>>
    BY <1>5 DEF EndCooldown
  <2>2. cooling' \in [WatchedServices -> BOOLEAN]
    BY <2>1 DEF Typed
  <2>3. Typed'
    BY <2>1, <2>2 DEF Typed
  <2> QED
    BY <2>1, <2>3 DEF IngestionInv, TimesPast, PollsCounted, QueueOrdered, Preceded, TrueOf, DetectorOrdered,
                      Ordered, Close
<1>6. CASE BeginEscalation \/ EndEscalation
  <2>1. UNCHANGED <<clock, published, poller, queue, consuming, detector, cooling>>
    BY <1>6 DEF BeginEscalation, EndEscalation
  <2>2. escalations' \in [waiting : Nat, running : 0..MaxConcurrent]
    <3>1. escalations \in [waiting : Nat, running : 0..MaxConcurrent] /\ MaxConcurrent \in Nat
      BY <1>0 DEF Typed
    <3>2. CASE BeginEscalation
      BY <3>1, <3>2 DEF BeginEscalation
    <3>3. CASE EndEscalation
      BY <3>1, <3>3 DEF EndEscalation
    <3> QED
      BY <1>6, <3>2, <3>3
  <2>3. Typed'
    BY <2>1, <2>2 DEF Typed
  <2> QED
    BY <2>1, <2>3 DEF IngestionInv, TimesPast, PollsCounted, QueueOrdered, Preceded, TrueOf, DetectorOrdered,
                      Ordered, Close
<1>7. CASE Stop
  <2> DEFINE ended(u) == IF poller[u].at = "dead" THEN "dead" ELSE "cancelled"
  <2>1. /\ consuming' = FALSE
        /\ poller' = [u \in Polled |-> [poller[u] EXCEPT !.at = ended(u)]]
        /\ UNCHANGED <<clock, published, queue, detector, cooling, escalations>>
    BY <1>7 DEF Stop
  <2>2. \A u \in Polled : ended(u) \in {"dead", "cancelled"} /\ poller[u] \in Poller
    BY DEF Typed
  <2> HIDE DEF ended
  <2>3. \A u \in Polled : /\ poller'[u] \in Poller /\ poller'[u].at \in {"dead", "cancelled"}
                          /\ poller'[u].asked = poller[u].asked
    BY <2>1, <2>2 DEF Poller
  <2>4. poller' \in [Polled -> Poller]
    <3>1. poller' = [u \in Polled |-> poller'[u]]
      BY <2>1
    <3> QED
      BY <2>3, <3>1
  <2>5. PollsCounted' /\ TimesPast'
    BY <2>1, <2>3 DEF PollsCounted, TimesPast, IngestionInv
  <2>6. Typed'
    BY <2>1, <2>4 DEF Typed
  <2> QED
    BY <2>1, <2>5, <2>6 DEF IngestionInv, QueueOrdered, Preceded, TrueOf, DetectorOrdered, Ordered, Close
<1>8. CASE UNCHANGED ingestionVars
  BY <1>8 DEF ingestionVars, Typed, IngestionInv, TimesPast, PollsCounted, QueueOrdered, Preceded, TrueOf,
              DetectorOrdered, Ordered, Close
<1> QED
  BY <1>1, <1>2, <1>3, <1>4, <1>5, <1>6, <1>7, <1>8 DEF IngestionNext

(* Live ingestion starts in its invariant.                                 *)
LEMMA IngestionInvInit == IngestionInit => Typed /\ IngestionInv
<1> SUFFICES ASSUME IngestionInit PROVE Typed /\ IngestionInv
  OBVIOUS
<1>0. /\ DOMAIN Watched = 1..Len(Watched) /\ Len(Watched) \in Nat /\ 1 \in DOMAIN Watched
      /\ OverflowAt \in Nat \ {0} /\ QueueCapacity \in Nat /\ MaxConcurrent \in Nat
  BY IngestionAssumption
<1>1. clock = 0 /\ published \in [Series -> SUBSET Nat] /\ queue = <<>> /\ consuming \in BOOLEAN
      /\ cooling \in [WatchedServices -> BOOLEAN]
  BY DEF IngestionInit
<1>2. escalations \in [waiting : Nat, running : 0..MaxConcurrent]
  BY <1>0 DEF IngestionInit
<1>3. detector \in Detectors /\ \A s \in Series : detector[s] = NoSeries
  <2>1. NoSeries \in States
    BY DEF NoSeries, States
  <2> QED
    BY <2>1 DEF IngestionInit, Detectors
<1>4. poller \in [Polled -> Poller] /\ PollsCounted /\ TimesPast
  <2>1. [at |-> "fetching", next |-> 1, asked |-> 0, errors |-> 0, failures |-> 0, waits |-> FALSE] \in Poller
    BY <1>0 DEF Poller
  <2> QED
    BY <1>0, <2>1 DEF IngestionInit, PollsCounted, TimesPast
<1>5. <<>> \in Seq(QueuedRecords) /\ Len(<<>>) = 0 /\ 1..0 = {}
  OBVIOUS
<1>6. Typed
  BY <1>0, <1>1, <1>2, <1>3, <1>4, <1>5 DEF Typed
<1>7. QueueOrdered(queue)
  BY <1>1, <1>5 DEF QueueOrdered
<1>8. DetectorOrdered(detector)
  <2>1. \A s \in Series : published[s] = {}
    BY DEF IngestionInit
  <2> QED
    BY <1>3, <1>5, <2>1 DEF DetectorOrdered, Ordered, Increasing, Close, NoSeries
<1> QED
  BY <1>4, <1>6, <1>7, <1>8 DEF IngestionInv

(* Types and invariant of live ingestion.                                  *)
THEOREM IngestionInvariant == IngestionSpec => [](Typed /\ IngestionInv)
<1>1. (Typed /\ IngestionInv) /\ [IngestionNext]_ingestionVars => (Typed /\ IngestionInv)'
  BY IngestionInvNext
<1> QED
  BY <1>1, IngestionInvInit, PTL DEF IngestionSpec

(* The types of live ingestion.                                            *)
THEOREM IngestionTypeCorrect == IngestionSpec => []IngestionTypeOK
<1>1. Typed => IngestionTypeOK
  BY TypedIsTypeOK
<1> QED
  BY <1>1, IngestionInvariant, PTL

(* Each record of a baseline has the newest observation of its time.       *)
LEMMA TrueIsNewest ==
  ASSUME NEW s \in Series, NEW r, clock \in Nat, published[s] \subseteq 1..clock, TrueOf(s, r)
  PROVE  r.observation = Newest({o \in published[s] : o <= r.stamp})
<1> DEFINE S == {o \in published[s] : o <= r.stamp}
<1>1. S \in SUBSET (1..clock) /\ r.observation \in S /\ \A o \in S : o <= r.observation
  BY DEF TrueOf
<1> HIDE DEF S
<1>2. Newest(S) \in S /\ \A o \in S : o <= Newest(S)
  BY <1>1, NewestIsLast
<1>3. Newest(S) \in Nat /\ r.observation \in Nat
  <2>1. \A o \in S : o \in Nat
    BY <1>1
  <2> QED
    BY <1>1, <1>2, <2>1
<1>4. Newest(S) <= r.observation /\ r.observation <= Newest(S)
  BY <1>1, <1>2
<1> QED
  BY <1>3, <1>4 DEF S

(* The invariant has each baseline go forward.                             *)
LEMMA InvariantGoesForward == Typed /\ IngestionInv => BaselineGoesForward
<1> SUFFICES ASSUME Typed, IngestionInv, NEW s \in Series, s[1] = "prometheus",
                    NEW i \in DOMAIN detector[s].values
             PROVE  LET r == detector[s].values[i] IN
                    /\ r.observation = Newest({o \in published[s] : o <= r.stamp})
                    /\ \A j \in 1..(i - 1) : /\ detector[s].values[j].stamp < r.stamp
                                           /\ detector[s].values[j].observation <= r.observation
  BY DEF BaselineGoesForward
<1> DEFINE vs == detector[s].values
<1>1. vs \in Seq(FetchedRecords)
  BY DEF Typed, Detectors, States
<1>2. /\ \A k \in 1..Len(vs) : TrueOf(s, vs[k])
      /\ \A k, l \in 1..Len(vs) : k < l => vs[k].stamp < vs[l].stamp
  BY DEF IngestionInv, DetectorOrdered, Ordered, Increasing
<1>3. clock \in Nat /\ published[s] \subseteq 1..clock
  BY DEF Typed, IngestionInv, TimesPast
<1> HIDE DEF vs
<1>4. i \in 1..Len(vs) /\ Len(vs) \in Nat
  BY <1>1 DEF vs
<1>5. TrueOf(s, vs[i]) /\ vs[i].observation = Newest({o \in published[s] : o <= vs[i].stamp})
  BY <1>2, <1>3, <1>4, TrueIsNewest
<1>6. ASSUME NEW j \in 1..(i - 1)
      PROVE  vs[j].stamp < vs[i].stamp /\ vs[j].observation <= vs[i].observation
  <2>1. j \in 1..Len(vs) /\ j < i
    BY <1>4
  <2>2. vs[j].stamp < vs[i].stamp /\ TrueOf(s, vs[j])
    BY <1>2, <1>4, <2>1
  <2>3. /\ vs[j].observation \in published[s] /\ vs[j].observation <= vs[j].stamp
        /\ vs[j].observation \in Nat /\ vs[j].stamp \in Nat /\ vs[i].stamp \in Nat
    BY <1>3, <1>5, <2>2 DEF TrueOf
  <2>4. vs[j].observation <= vs[i].stamp
    BY <2>2, <2>3
  <2> QED
    BY <1>5, <2>2, <2>3, <2>4 DEF TrueOf
<1> QED
  BY <1>5, <1>6 DEF vs

(* Grids that move and a full queue notwithstanding, a baseline goes       *)
(* forward and tells of each of its times what the source says of it.      *)
THEOREM BaselineAlwaysGoesForward == IngestionSpec => []BaselineGoesForward
BY InvariantGoesForward, IngestionInvariant, PTL

(* The invariant has each baseline come close to what it has passed.       *)
LEMMA InvariantComesClose == Typed /\ IngestionInv => PassedByLessThanAStep
<1> SUFFICES ASSUME Typed, IngestionInv, NEW s \in Series, s[1] = "prometheus"
             PROVE  \A o \in published[s] :
                      detector[s].last >= o + Step /\ clock <= o + Window =>
                        \E i \in DOMAIN detector[s].values : detector[s].values[i].stamp \in o..(o + Step - 1)
  BY DEF PassedByLessThanAStep
<1>1. DOMAIN detector[s].values = 1..Len(detector[s].values)
  BY DEF Typed, Detectors, States
<1>2. Close(detector[s], s)
  BY DEF IngestionInv, DetectorOrdered, Ordered
<1> QED
  BY <1>1, <1>2 DEF Close

(* While an observation is in the window, a baseline a step past it has a  *)
(* record of less than a step after it, for every window, step and grid.   *)
THEOREM AlwaysPassedByLessThanAStep == IngestionSpec => []PassedByLessThanAStep
BY InvariantComesClose, IngestionInvariant, PTL

=============================================================================
