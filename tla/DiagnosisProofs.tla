---------------------------- MODULE DiagnosisProofs ----------------------------
(***************************************************************************)
(* Theorems of a diagnosis for any number of services, metrics, vendors    *)
(* and experts, and for any hypotheses the model may state; and of the     *)
(* checkpointer the diagnoses of a process share, for any number of them   *)
(* and of pools; and of the evaluation of the experts' part in it, for any *)
(* cases, specialists, required roles and variants, any interval between   *)
(* saves, and any number of runs killed at any point.                      *)
(***************************************************************************)
EXTENDS DiagnosisGraph, DiagnosisCheckpoint, SpecialistEvaluation, FiniteSetTheorems,
        NaturalsInduction, WellFoundedInduction, TLAPS

-----------------------------------------------------------------------------
(* No source is passed over in silence.                                    *)

Ceiling == Capped(Len(Affected), MaxServices)

(* What is known of the i-th service's metric m.                           *)
Covered(i, m) ==
  \/ \E e \in timeline : e.service = Affected[i] /\ e.metric = m
  \/ {Gap(Affected[i], m), Gap(Affected[i], Whole), AdapterGap} \cap gaps # {}

(* The services asked about so far are covered; after the collection all   *)
(* are, and the result repeats the gaps there are.                         *)
CollectionInvariant ==
  /\ examined \in 0 .. Ceiling
  /\ \A i \in 1 .. examined, m \in Metrics : Covered(i, m)
  /\ at # "collect" => examined = Ceiling
  /\ at = "done" => gaps \subseteq result.missing

(* As many services as there are, or the maximum.                          *)
LEMMA CeilingType == Ceiling \in Nat
BY DiagnosisAssumption DEF Ceiling, Capped

(* Evidence and gaps are only added, so what is covered stays covered.     *)
LEMMA CoveredStays ==
  ASSUME timeline \subseteq timeline', gaps \subseteq gaps', NEW i, NEW m, Covered(i, m)
  PROVE  Covered(i, m)'
BY DEF Covered

(* Asking about a service covers each of its metrics.                      *)
LEMMA ServiceIsCovered ==
  ASSUME CollectionInvariant, CollectService, NEW m \in Metrics, NEW i, i = examined + 1
  PROVE  Covered(i, m)'
<1> DEFINE service == Affected[i]
<1>1. PICK answers \in VendorAnswers :
        LET outcome == FanOut([v \in vendors |-> FetchOutcome(v, answers[v].reply)])
            items == IF outcome = "records" THEN Collected(service, answers) ELSE {}
        IN  /\ timeline' = timeline \cup items
            /\ gaps' = gaps \cup (IF outcome = "records" THEN UnansweredMetrics(service, items)
                                  ELSE {Gap(service, Whole)})
  BY DEF CollectService
<1> DEFINE outcome == FanOut([v \in vendors |-> FetchOutcome(v, answers[v].reply)])
<1>2. CASE outcome = "records"
  <2> DEFINE items == Collected(service, answers)
  <2>1. timeline' = timeline \cup items /\ gaps' = gaps \cup UnansweredMetrics(service, items)
    BY <1>1, <1>2
  <2>2. \A e \in items : e.service = service
    BY DEF Collected, Item
  <2> HIDE DEF items, service
  <2>3. CASE \E e \in items : e.metric = m
    BY <2>1, <2>2, <2>3 DEF Covered, service
  <2>4. CASE ~ \E e \in items : e.metric = m
    <3>1. Gap(service, m) \in UnansweredMetrics(service, items)
      BY <2>4 DEF UnansweredMetrics
    <3> QED
      BY <2>1, <3>1 DEF Covered, service
  <2> QED
    BY <2>3, <2>4
<1>3. CASE outcome # "records"
  <2>1. Gap(service, Whole) \in gaps'
    BY <1>1, <1>3
  <2> QED
    BY <2>1 DEF Covered
<1> QED
  BY <1>2, <1>3

(* The invariant holds initially.                                          *)
LEMMA CollectionInit == DiagnosisInit => CollectionInvariant
BY CeilingType DEF DiagnosisInit, CollectionInvariant

(* Every step keeps it.                                                    *)
LEMMA CollectionNext ==
  CollectionInvariant /\ [DiagnosisNext]_diagnosisVars => CollectionInvariant'
<1> SUFFICES ASSUME CollectionInvariant, [DiagnosisNext]_diagnosisVars PROVE CollectionInvariant'
  OBVIOUS
<1>0. Ceiling \in Nat /\ Examinable = 1 .. Ceiling
  BY CeilingType DEF Examinable, Ceiling
<1>1. CASE CollectService
  <2>1. /\ at = "collect" /\ at' = "collect"
        /\ examined + 1 \in 1 .. Ceiling /\ examined' = examined + 1
        /\ timeline \subseteq timeline' /\ gaps \subseteq gaps'
    BY <1>0, <1>1 DEF CollectService
  <2>2. examined' \in 0 .. Ceiling
    BY <1>0, <2>1
  <2>3. ASSUME NEW i \in 1 .. examined', NEW m \in Metrics
        PROVE  Covered(i, m)'
    <3>1. CASE i = examined + 1
      BY <1>1, <2>1, <3>1, ServiceIsCovered
    <3>2. CASE i # examined + 1
      <4>1. examined \in Nat /\ i \in 1 .. examined
        BY <1>0, <2>1, <2>3, <3>2 DEF CollectionInvariant
      <4> QED
        BY <2>1, <4>1, CoveredStays DEF CollectionInvariant
    <3> QED
      BY <3>1, <3>2
  <2> QED
    BY <2>1, <2>2, <2>3 DEF CollectionInvariant
<1>2. CASE CollectDeployments
  <2>1. /\ timeline \subseteq timeline' /\ gaps \subseteq gaps'
        /\ at' = "summarise" /\ examined' = examined
    BY <1>2 DEF CollectDeployments
  <2>2. examined = Ceiling
    BY <1>0, <1>2 DEF CollectDeployments, CollectionInvariant
  <2>3. \A i \in 1 .. examined, m \in Metrics : Covered(i, m)'
    BY <2>1, CoveredStays DEF CollectionInvariant
  <2> QED
    BY <1>0, <2>1, <2>2, <2>3 DEF CollectionInvariant
<1>3. CASE Summarise \/ LookUpRunbooks \/ Dispatch \/ ModelFails
  BY <1>3 DEF Summarise, LookUpRunbooks, Dispatch, ModelFails, CollectionInvariant, Covered
<1>4. CASE \E expert \in Experts : Report(expert)
  BY <1>4 DEF Report, CollectionInvariant, Covered
<1>5. CASE Synthesise
  <2>1. at # "collect" /\ at' \in {"done", "failed"} /\ UNCHANGED <<examined, timeline, gaps>>
    BY <1>5 DEF Synthesise
  <2>2. \A stated : gaps \subseteq MissingSources(stated)
    BY DEF MissingSources
  <2>3. CASE \E stated \in Stated, confidence \in RawConfidences, acts \in BOOLEAN,
               missing \in {{}, {ModelGap}} :
               LET hypotheses == [i \in DOMAIN stated |-> Grounded(stated[i], timeline)]
               IN  IF OverallConfidence(confidence, hypotheses, timeline) > 100
                   THEN at' = "failed" /\ UNCHANGED result
                   ELSE /\ at' = "done"
                        /\ result' = Diagnosed(MissingSources(missing),
                                               OverallConfidence(confidence, hypotheses, timeline),
                                               hypotheses, acts /\ ~ critical)
    <3>1. at' = "failed" \/ \E missing : result'.missing = MissingSources(missing)
      BY <2>3 DEF Diagnosed
    <3> QED
      BY <2>1, <2>2, <3>1 DEF CollectionInvariant, Covered
  <2>4. CASE result' = Diagnosed(MissingSources({ModelGap}), 0, << >>, FALSE)
    <3>1. result'.missing = MissingSources({ModelGap})
      BY <2>4 DEF Diagnosed
    <3> QED
      BY <2>1, <2>2, <3>1 DEF CollectionInvariant, Covered
  <2> QED
    BY <1>5, <2>3, <2>4 DEF Synthesise
<1>6. CASE UNCHANGED diagnosisVars
  BY <1>6 DEF diagnosisVars, CollectionInvariant, Covered
<1> QED
  BY <1>1, <1>2, <1>3, <1>4, <1>5, <1>6 DEF DiagnosisNext

(* Whatever fails and whatever the model says, the result of a diagnosis   *)
(* has evidence for each examined service and metric or names it missing   *)
(* (collect_evidence and synthesise_rca, graph.py).                        *)
THEOREM GapsAreAlwaysNamed == DiagnosisSpec => []GapsAreNamed
<1>1. DiagnosisInit => CollectionInvariant
  BY CollectionInit
<1>2. CollectionInvariant /\ [DiagnosisNext]_diagnosisVars => CollectionInvariant'
  BY CollectionNext
<1>3. CollectionInvariant => GapsAreNamed
  <2> SUFFICES ASSUME CollectionInvariant, at = "done", NEW i \in Examinable, NEW m \in Metrics
               PROVE  \/ \E e \in timeline : e.service = Affected[i] /\ e.metric = m
                      \/ {Gap(Affected[i], m), Gap(Affected[i], Whole), AdapterGap}
                           \cap result.missing # {}
    BY DEF GapsAreNamed
  <2>1. Covered(i, m) /\ gaps \subseteq result.missing
    BY DEF CollectionInvariant, Examinable, Ceiling
  <2> QED
    BY <2>1 DEF Covered
<1> QED
  BY <1>1, <1>2, <1>3, PTL DEF DiagnosisSpec

-----------------------------------------------------------------------------
(* No claim without evidence.                                              *)

(* What the bands of a hypothesis whose citations were resolved stand for. *)
LEMMA BandIsEarned ==
  ASSUME NEW h \in RawHypotheses
  PROVE  LET g == Grounded(h, timeline) IN
         /\ g.band \in Bands
         /\ g.band \notin {Uncalibrated, Low} => Backing(g) # {}
         /\ g.band = High => Cardinality(Backing(g)) >= 2 /\ g.contra = {}
<1> DEFINE g == Grounded(h, timeline)
           real == ResolvedReal(h.support, timeline)
           contra == Resolved(h.contra, timeline)
           top == IF real = {} THEN Low
                  ELSE IF Cardinality(real) = 1 \/ contra # {} THEN Medium ELSE High
<1>1. h.band \in Bands /\ IsFiniteSet(h.support)
  BY DiagnosisAssumption
<1>2. g.contra = contra /\ g.band = Capped(h.band, top) /\ g.support = Resolved(h.support, timeline)
  BY DEF Grounded
<1>3. Backing(g) = real
  BY <1>2 DEF Backing, ResolvedReal, Resolved, IsReal
<1>4. IsFiniteSet(real) /\ (Cardinality(real) = 0 <=> real = {})
  <2>1. real \subseteq h.support
    BY DEF ResolvedReal, Resolved
  <2>2. IsFiniteSet(real)
    BY <1>1, <2>1, FS_Subset
  <2> QED
    BY <2>2, FS_EmptySet
<1>5. Cardinality(real) \in Nat
  BY <1>4, FS_CardinalityType
<1> HIDE DEF g, real, contra
<1>6. /\ g.band \in Bands
      /\ g.band \notin {Uncalibrated, Low} => real # {}
      /\ g.band = High => real # {} /\ Cardinality(real) # 1 /\ contra = {}
  BY <1>1, <1>2 DEF Capped, Bands, Uncalibrated, Low, Medium, High
<1>7. real # {} /\ Cardinality(real) # 1 => Cardinality(real) >= 2
  BY <1>4, <1>5
<1> QED
  BY <1>2, <1>3, <1>6, <1>7 DEF g

(* Of one or two hypotheses one comes first.                               *)
LEMMA FirstIsOne ==
  ASSUME NEW grounded, DOMAIN grounded = {1} \/ DOMAIN grounded = {1, 2},
         \A i \in DOMAIN grounded : Lead(grounded[i]) \in Int
  PROVE  First(grounded) \in DOMAIN grounded
<1> DEFINE Best(i) == /\ \A j \in DOMAIN grounded : Lead(grounded[j]) <= Lead(grounded[i])
                      /\ \A j \in 1 .. (i - 1) : Lead(grounded[j]) < Lead(grounded[i])
<1>1. CASE DOMAIN grounded = {1}
  <2>1. Best(1)
    BY <1>1
  <2> QED
    BY <1>1, <2>1 DEF First
<1>2. CASE DOMAIN grounded = {1, 2}
  <2>1. CASE Lead(grounded[2]) <= Lead(grounded[1])
    <3>1. Best(1)
      BY <1>2, <2>1
    <3> QED
      BY <1>2, <3>1 DEF First
  <2>2. CASE ~(Lead(grounded[2]) <= Lead(grounded[1]))
    <3>1. Best(2)
      BY <1>2, <2>2
    <3> QED
      BY <1>2, <3>1 DEF First
  <2> QED
    BY <2>1, <2>2
<1> QED
  BY <1>1, <1>2

(* The hypotheses of a result, their citations resolved.                   *)
AllGrounded(stated) == [i \in DOMAIN stated |-> Grounded(stated[i], timeline)]

(* The confidence of a result is earned by one of its hypotheses.          *)
LEMMA ConfidenceIsEarned ==
  ASSUME NEW stated \in Stated, NEW confidence \in Nat
  PROVE  LET g == AllGrounded(stated)
             overall == OverallConfidence(confidence, g, timeline)
         IN  /\ overall > 40 => \E i \in DOMAIN g : Backing(g[i]) # {}
             /\ overall > 70 => \E i \in DOMAIN g : Cardinality(Backing(g[i])) >= 2 /\ g[i].contra = {}
<1> DEFINE g == AllGrounded(stated)
           overall == OverallConfidence(confidence, g, timeline)
           first == First(g)
<1>1. CASE stated = << >>
  <2>1. g = << >>
    BY <1>1 DEF AllGrounded
  <2>2. overall = Capped(confidence, LowConfidenceCap)
    BY <2>1 DEF OverallConfidence
  <2>3. ~(overall > 40) /\ ~(overall > 70)
    BY <2>2 DEF Capped, LowConfidenceCap
  <2> QED
    BY <2>3
<1>2. CASE stated # << >>
  <2>1. DOMAIN stated = {1} \/ DOMAIN stated = {1, 2}
    BY <1>2 DEF Stated
  <2>2. \A i \in DOMAIN stated : stated[i] \in RawHypotheses
    BY <1>2 DEF Stated
  <2>3. DOMAIN g = DOMAIN stated /\ \A i \in DOMAIN g : g[i] = Grounded(stated[i], timeline)
    BY DEF AllGrounded
  <2>4. \A i \in DOMAIN g : Lead(g[i]) \in Int
    <3>1. ASSUME NEW i \in DOMAIN g PROVE Lead(g[i]) \in Int
      <4> DEFINE h == stated[i]
                 support == Resolved(h.support, timeline)
                 contra == Resolved(h.contra, timeline)
      <4>1. IsFiniteSet(h.support) /\ IsFiniteSet(h.contra)
        BY <2>2, <2>3, DiagnosisAssumption
      <4>2. support \subseteq h.support /\ contra \subseteq h.contra
        BY DEF Resolved
      <4>3. IsFiniteSet(support) /\ IsFiniteSet(contra)
        BY <4>1, <4>2, FS_Subset
      <4>4. Cardinality(support) \in Nat /\ Cardinality(contra) \in Nat
        BY <4>3, FS_CardinalityType
      <4>5. g[i].support = support /\ g[i].contra = contra
        BY <2>3 DEF Grounded
      <4> HIDE DEF support, contra, g
      <4> QED
        BY <4>4, <4>5 DEF Lead
    <3> QED
      BY <3>1
  <2>5. first \in DOMAIN g
    <3> HIDE DEF g
    <3> QED
      BY <2>1, <2>3, <2>4, FirstIsOne
  <2>6. /\ g[first].band \in Bands
        /\ g[first].band \notin {Uncalibrated, Low} => Backing(g[first]) # {}
        /\ g[first].band = High => Cardinality(Backing(g[first])) >= 2 /\ g[first].contra = {}
    <3> HIDE DEF g, first
    <3>1. g[first] = Grounded(stated[first], timeline) /\ stated[first] \in RawHypotheses
      BY <2>2, <2>3, <2>5
    <3> QED
      BY <3>1, BandIsEarned
  <2>7. CASE g[first].band \in {Uncalibrated, Low}
    <3>1. overall = Capped(confidence, LowConfidenceCap)
      BY <2>7 DEF OverallConfidence
    <3>2. ~(overall > 40) /\ ~(overall > 70)
      BY <3>1 DEF Capped, LowConfidenceCap
    <3> QED
      BY <3>2
  <2>8. CASE g[first].band = Medium
    <3>1. \/ overall = Capped(confidence, LowConfidenceCap)
          \/ overall = Capped(confidence, MediumConfidenceCap)
      BY <2>8 DEF OverallConfidence
    <3>2. ~(overall > 70)
      BY <3>1 DEF Capped, LowConfidenceCap, MediumConfidenceCap
    <3>3. Backing(g[first]) # {}
      BY <2>6, <2>8 DEF Uncalibrated, Low, Medium
    <3> HIDE DEF g, first, overall
    <3>4. /\ overall > 40 => \E i \in DOMAIN g : Backing(g[i]) # {}
          /\ overall > 70 => \E i \in DOMAIN g : Cardinality(Backing(g[i])) >= 2 /\ g[i].contra = {}
      BY <2>5, <3>2, <3>3
    <3> QED
      BY <3>4 DEF g, overall
  <2>9. CASE g[first].band = High
    <3>1. /\ Backing(g[first]) # {}
          /\ Cardinality(Backing(g[first])) >= 2 /\ g[first].contra = {}
      BY <2>6, <2>9 DEF Uncalibrated, Low, High
    <3> HIDE DEF g, first, overall
    <3>4. /\ overall > 40 => \E i \in DOMAIN g : Backing(g[i]) # {}
          /\ overall > 70 => \E i \in DOMAIN g : Cardinality(Backing(g[i])) >= 2 /\ g[i].contra = {}
      BY <2>5, <3>1
    <3> QED
      BY <3>4 DEF g, overall
  <2> HIDE DEF g, first, overall
  <2>10. g[first].band \in {Uncalibrated, Low} \/ g[first].band = Medium \/ g[first].band = High
    BY <2>6 DEF Bands, Uncalibrated, Low, Medium, High
  <2> QED
    BY <2>7, <2>8, <2>9, <2>10 DEF g, first, overall
<1> QED
  BY <1>1, <1>2

(* Until a diagnosis is done it has no result, which claims nothing.       *)
ClaimInvariant ==
  /\ at # "done" => result = NoResult
  /\ ConfidenceIsGrounded

(* No result is no claim.                                                  *)
LEMMA NoResultIsGrounded == ~(NoResult.confidence > 40) /\ ~(NoResult.confidence > 70)
BY DEF NoResult

(* A result that is put together claims only what was collected.           *)
LEMMA SynthesisIsGrounded ==
  ASSUME ClaimInvariant, Synthesise
  PROVE  ClaimInvariant'
<1>1. at = "synthesise" /\ timeline' = timeline
  BY DEF Synthesise
<1>2. CASE at' = "failed" /\ UNCHANGED result
  BY <1>1, <1>2, NoResultIsGrounded DEF ClaimInvariant, ConfidenceIsGrounded
<1>3. CASE at' = "done" /\ result'.confidence = 0
  BY <1>3 DEF ClaimInvariant, ConfidenceIsGrounded
<1>4. ASSUME NEW stated \in Stated, NEW confidence \in RawConfidences, at' = "done",
             result'.hypotheses = AllGrounded(stated),
             result'.confidence = OverallConfidence(confidence, AllGrounded(stated), timeline)
      PROVE  ClaimInvariant'
  <2> DEFINE g == AllGrounded(stated)
  <2>1. confidence \in Nat
    BY DiagnosisAssumption
  <2>2. /\ result'.confidence > 40 => \E i \in DOMAIN g : Backing(g[i]) # {}
        /\ result'.confidence > 70 =>
             \E i \in DOMAIN g : Cardinality(Backing(g[i])) >= 2 /\ g[i].contra = {}
    BY <1>4, <2>1, ConfidenceIsEarned
  <2>3. ASSUME NEW h PROVE Backing(h)' = Backing(h')
    BY <1>1 DEF Backing
  <2> QED
    BY <1>1, <1>4, <2>2 DEF ClaimInvariant, ConfidenceIsGrounded, Backing
<1>5. \/ at' = "failed" /\ UNCHANGED result
      \/ at' = "done" /\ result'.confidence = 0
      \/ \E stated \in Stated, confidence \in RawConfidences :
           /\ at' = "done"
           /\ result'.hypotheses = AllGrounded(stated)
           /\ result'.confidence = OverallConfidence(confidence, AllGrounded(stated), timeline)
  BY DEF Synthesise, Diagnosed, AllGrounded
<1> QED
  BY <1>2, <1>3, <1>4, <1>5

(* Every step keeps the claims within the evidence.                        *)
LEMMA ClaimNext == ClaimInvariant /\ [DiagnosisNext]_diagnosisVars => ClaimInvariant'
<1> SUFFICES ASSUME ClaimInvariant, [DiagnosisNext]_diagnosisVars PROVE ClaimInvariant'
  OBVIOUS
<1>1. ASSUME at # "done", UNCHANGED result PROVE ClaimInvariant'
  BY <1>1, NoResultIsGrounded DEF ClaimInvariant, ConfidenceIsGrounded
<1>2. CASE CollectService \/ CollectDeployments
  BY <1>1, <1>2 DEF CollectService, CollectDeployments
<1>3. CASE Summarise \/ LookUpRunbooks \/ Dispatch \/ ModelFails
  BY <1>1, <1>3 DEF Summarise, LookUpRunbooks, Dispatch, ModelFails
<1>4. CASE \E expert \in Experts : Report(expert)
  BY <1>1, <1>4 DEF Report
<1>5. CASE Synthesise
  BY <1>5, SynthesisIsGrounded
<1>6. CASE UNCHANGED diagnosisVars
  BY <1>6 DEF diagnosisVars, ClaimInvariant, ConfidenceIsGrounded, Backing
<1> QED
  BY <1>2, <1>3, <1>4, <1>5, <1>6 DEF DiagnosisNext

(* Whatever the model cites and however sure it says it is, a result more  *)
(* than 40% sure has a hypothesis with real evidence behind it, and one    *)
(* more than 70% sure a hypothesis with two such citations and nothing     *)
(* against it (hypotheses.py).                                             *)
THEOREM ConfidenceIsAlwaysGrounded == DiagnosisSpec => []ConfidenceIsGrounded
<1>1. DiagnosisInit => ClaimInvariant
  BY NoResultIsGrounded DEF DiagnosisInit, ClaimInvariant, ConfidenceIsGrounded
<1>2. ClaimInvariant /\ [DiagnosisNext]_diagnosisVars => ClaimInvariant'
  BY ClaimNext
<1>3. ClaimInvariant => ConfidenceIsGrounded
  BY DEF ClaimInvariant
<1> QED
  BY <1>1, <1>2, <1>3, PTL DEF DiagnosisSpec

-----------------------------------------------------------------------------
(* The types of a diagnosis.                                               *)

(* The services are a list.                                                *)
LEMMA AffectedFacts == Len(Affected) \in Nat /\ DOMAIN Affected = 1 .. Len(Affected)
BY DiagnosisAssumption

(* Whatever the vendors answer, items of evidence are of the services.     *)
LEMMA CollectedTypes ==
  ASSUME vendors \in AdapterSets, NEW i \in DOMAIN Affected, NEW answers \in VendorAnswers
  PROVE  Collected(Affected[i], answers) \subseteq Items
<1> SUFFICES ASSUME NEW v \in vendors, NEW m \in answers[v].metrics
             PROVE  Item(v, Affected[i], m) \in Items
  BY DEF Collected
<1>1. m \in Metrics
  <2>1. answers \in [vendors -> [reply : Replies, metrics : SUBSET Metrics]]
    BY DEF VendorAnswers
  <2> QED
    BY <2>1
<1> QED
  BY <1>1 DEF Items

(* A confidence that is cut back is a number.                              *)
LEMMA OverallTypes ==
  ASSUME NEW confidence \in RawConfidences, NEW grounded, NEW evidence
  PROVE  OverallConfidence(confidence, grounded, evidence) \in Nat
<1>1. confidence \in Nat
  BY DiagnosisAssumption
<1>2. \A c \in Nat : Capped(confidence, c) \in Nat
  BY <1>1 DEF Capped
<1>3. OverallConfidence(confidence, grounded, evidence) \in
        {Capped(confidence, LowConfidenceCap), Capped(confidence, MediumConfidenceCap), confidence}
  BY DEF OverallConfidence
<1>4. LowConfidenceCap \in Nat /\ MediumConfidenceCap \in Nat
  BY DEF LowConfidenceCap, MediumConfidenceCap
<1> QED
  BY <1>1, <1>2, <1>3, <1>4

(* Nobody has reported before the experts are dispatched.                  *)
DiagnosisTypes ==
  /\ DiagnosisTypeOK
  /\ at \in {"collect", "summarise", "runbooks", "triage"} => reports = {}

(* Every step keeps the types.                                             *)
LEMMA DiagnosisTypesNext ==
  DiagnosisTypes /\ [DiagnosisNext]_diagnosisVars => DiagnosisTypes'
<1> SUFFICES ASSUME DiagnosisTypes, [DiagnosisNext]_diagnosisVars PROVE DiagnosisTypes'
  OBVIOUS
<1>1. CASE CollectService
  <2>1. PICK answers \in VendorAnswers :
          timeline' = timeline \cup Collected(Affected[examined + 1], answers) \/ timeline' = timeline
    BY <1>1 DEF CollectService
  <2>2. examined + 1 \in 1 .. Len(Affected) /\ examined' = examined + 1
        /\ UNCHANGED <<at, critical, vendors, dispatched, reports, result>>
    BY <1>1, AffectedFacts, DiagnosisAssumption DEF CollectService, Examinable, Capped
  <2>3. Collected(Affected[examined + 1], answers) \subseteq Items
    BY <2>2, AffectedFacts, CollectedTypes DEF DiagnosisTypes, DiagnosisTypeOK
  <2>4. timeline' \subseteq Items
    BY <2>1, <2>3 DEF DiagnosisTypes, DiagnosisTypeOK
  <2>5. examined' \in 0 .. Len(Affected)
    BY <2>2, AffectedFacts
  <2> QED
    BY <2>2, <2>4, <2>5 DEF DiagnosisTypes, DiagnosisTypeOK
<1>2. CASE CollectDeployments
  <2>1. Deployment \in Items
    BY DEF Items
  <2> QED
    BY <1>2, <2>1 DEF CollectDeployments, DiagnosisTypes, DiagnosisTypeOK
<1>3. CASE Summarise \/ LookUpRunbooks
  <2>1. /\ at \in {"summarise", "runbooks"} /\ at' \in {"runbooks", "triage"}
        /\ UNCHANGED <<critical, vendors, examined, timeline, gaps, dispatched, reports, result>>
    BY <1>3 DEF Summarise, LookUpRunbooks
  <2> QED
    BY <2>1 DEF DiagnosisTypes, DiagnosisTypeOK
<1>4. CASE Dispatch
  <2>1. at' = "experts" /\ UNCHANGED <<critical, vendors, examined, timeline, gaps, reports, result>>
        /\ at = "triage" /\ dispatched' \subseteq Experts
    BY <1>4, DiagnosisAssumption DEF Dispatch
  <2>2. reports = {}
    BY <2>1 DEF DiagnosisTypes
  <2> QED
    BY <2>1, <2>2 DEF DiagnosisTypes, DiagnosisTypeOK
<1>5. CASE \E expert \in Experts : Report(expert)
  BY <1>5 DEF Report, DiagnosisTypes, DiagnosisTypeOK
<1>6. CASE Synthesise
  <2>1. at' \in {"done", "failed"}
        /\ UNCHANGED <<critical, vendors, examined, timeline, gaps, dispatched, reports>>
    BY <1>6 DEF Synthesise
  <2>2. result' = NoResult \/ result'.confidence \in 0 .. 100
    <3>1. \/ UNCHANGED result
          \/ result'.confidence = 0
          \/ \E stated \in Stated, confidence \in RawConfidences :
               /\ ~(OverallConfidence(confidence, AllGrounded(stated), timeline) > 100)
               /\ result'.confidence = OverallConfidence(confidence, AllGrounded(stated), timeline)
      BY <1>6 DEF Synthesise, Diagnosed, AllGrounded
    <3>2. CASE UNCHANGED result
      BY <3>2 DEF DiagnosisTypes, DiagnosisTypeOK, NoResult
    <3>3. CASE result'.confidence = 0
      BY <3>3
    <3>4. ASSUME NEW confidence \in RawConfidences, NEW hypotheses,
                 ~(OverallConfidence(confidence, hypotheses, timeline) > 100),
                 result'.confidence = OverallConfidence(confidence, hypotheses, timeline)
          PROVE  result'.confidence \in 0 .. 100
      <4>1. OverallConfidence(confidence, hypotheses, timeline) \in Nat
        BY OverallTypes
      <4> QED
        BY <3>4, <4>1
    <3> QED
      BY <3>1, <3>2, <3>3, <3>4
  <2> QED
    BY <2>1, <2>2 DEF DiagnosisTypes, DiagnosisTypeOK, NoResult
<1>7. CASE ModelFails
  BY <1>7 DEF ModelFails, DiagnosisTypes, DiagnosisTypeOK
<1>8. CASE UNCHANGED diagnosisVars
  BY <1>8 DEF diagnosisVars, DiagnosisTypes, DiagnosisTypeOK
<1> QED
  BY <1>1, <1>2, <1>3, <1>4, <1>5, <1>6, <1>7, <1>8 DEF DiagnosisNext

(* Type correctness of a diagnosis: evidence is of its services, reports   *)
(* are of experts that were dispatched, a confidence is a percentage.      *)
THEOREM DiagnosisTypeCorrect == DiagnosisSpec => []DiagnosisTypeOK
<1>1. DiagnosisInit => DiagnosisTypeOK
  BY AffectedFacts DEF DiagnosisInit, DiagnosisTypeOK
<1>2. DiagnosisInit => DiagnosisTypes
  BY <1>1 DEF DiagnosisInit, DiagnosisTypes
<1>3. DiagnosisTypes => DiagnosisTypeOK
  BY DEF DiagnosisTypes
<1> QED
  BY <1>2, <1>3, DiagnosisTypesNext, PTL DEF DiagnosisSpec

-----------------------------------------------------------------------------
(* The checkpointer.                                                       *)

Busy(d) == step[d] \in {"opening", "settingUp"}

(* The open pools nobody would close: neither held nor being opened.       *)
Lost == {p \in connected : p # heldPool /\ (locked = NoDiagnosis \/ p # created)}

(* Whoever holds the lock is the one that opens a pool, while none is held;*)
(* every lost pool is a failed setup.                                      *)
PoolInvariant ==
  /\ step \in [Diagnoses -> {"out", "waiting", "opening", "settingUp"}]
  /\ locked \in Diagnoses \cup {NoDiagnosis}
  /\ \A d \in Diagnoses : Busy(d) <=> locked = d
  /\ created \in Nat /\ setupFailed \in Nat
  /\ connected \subseteq 1 .. created
  /\ saverPool = heldPool
  /\ heldPool \in 0 .. created
  /\ locked # NoDiagnosis => heldPool = 0
  /\ Cardinality(Lost) <= setupFailed

(* There are finitely many open pools.                                     *)
LEMMA FinitePools ==
  ASSUME PoolInvariant
  PROVE  IsFiniteSet(connected) /\ IsFiniteSet(Lost)
<1>1. IsFiniteSet(1 .. created)
  BY FS_Interval DEF PoolInvariant
<1>2. connected \subseteq 1 .. created /\ Lost \subseteq connected
  BY DEF PoolInvariant, Lost
<1>3. IsFiniteSet(connected)
  BY <1>1, <1>2, FS_Subset
<1> QED
  BY <1>2, <1>3, FS_Subset

(* The invariant holds initially.                                          *)
LEMMA PoolInit == CheckpointInit => PoolInvariant
<1> SUFFICES ASSUME CheckpointInit PROVE PoolInvariant
  OBVIOUS
<1>1. Lost = {} /\ Cardinality({}) = 0
  BY FS_EmptySet DEF CheckpointInit, Lost
<1> QED
  BY <1>1, CheckpointAssumption DEF CheckpointInit, PoolInvariant, Busy

(* A diagnosis asks for the saver.                                         *)
LEMMA AskKeeps ==
  ASSUME PoolInvariant, NEW d \in Diagnoses, AskForSaver(d)
  PROVE  PoolInvariant'
<1>1. /\ step[d] = "out" /\ (step' = step \/ step' = [step EXCEPT ![d] = "waiting"])
      /\ UNCHANGED <<locked, saverPool, heldPool, created, connected, setupFailed>>
  BY DEF AskForSaver
<1>2. \A e \in Diagnoses : Busy(e)' <=> Busy(e)
  BY <1>1 DEF PoolInvariant, Busy
<1>3. Lost' = Lost
  BY <1>1 DEF Lost
<1> QED
  BY <1>1, <1>2, <1>3 DEF PoolInvariant

(* It has the lock, and finds a saver or begins to open a pool.            *)
LEMMA EnterKeeps ==
  ASSUME PoolInvariant, NEW d \in Diagnoses, EnterLock(d)
  PROVE  PoolInvariant'
<1>1. CASE saverPool # 0
  <2>1. /\ step[d] = "waiting" /\ step' = [step EXCEPT ![d] = "out"]
        /\ UNCHANGED <<locked, saverPool, heldPool, created, connected, setupFailed>>
    BY <1>1 DEF EnterLock
  <2>2. \A e \in Diagnoses : Busy(e)' <=> Busy(e)
    BY <2>1 DEF PoolInvariant, Busy
  <2>3. Lost' = Lost
    BY <2>1 DEF Lost
  <2> QED
    BY <2>1, <2>2, <2>3 DEF PoolInvariant
<1>2. CASE saverPool = 0
  <2>1. /\ locked = NoDiagnosis /\ locked' = d /\ step' = [step EXCEPT ![d] = "opening"]
        /\ created' = created + 1 /\ connected' = connected \cup {created + 1}
        /\ UNCHANGED <<saverPool, heldPool, setupFailed>>
    BY <1>2 DEF EnterLock
  <2>2. /\ heldPool = 0 /\ created \in Nat /\ connected \subseteq 1 .. created
        /\ \A e \in Diagnoses : ~Busy(e)
    BY <1>2, <2>1, CheckpointAssumption DEF PoolInvariant
  <2>3. \A e \in Diagnoses : Busy(e)' <=> locked' = e
    BY <2>1, <2>2 DEF PoolInvariant, Busy
  <2>4. Lost' = Lost
    <3>1. \A p \in connected : p # 0 /\ p # created + 1
      BY <2>2
    <3> QED
      BY <2>1, <2>2, <3>1, CheckpointAssumption DEF Lost
  <2>5. connected' \subseteq 1 .. created' /\ created' \in Nat /\ heldPool' \in 0 .. created'
    BY <2>1, <2>2
  <2> QED
    BY <2>1, <2>2, <2>3, <2>4, <2>5 DEF PoolInvariant
<1> QED
  BY <1>1, <1>2

(* The pool is open, or has been closed again.                             *)
LEMMA OpenedKeeps ==
  ASSUME PoolInvariant, NEW d \in Diagnoses, Opened(d)
  PROVE  PoolInvariant'
<1>1. /\ step[d] = "opening" /\ locked = d /\ locked # NoDiagnosis
      /\ UNCHANGED <<saverPool, heldPool, created, setupFailed>>
  BY CheckpointAssumption DEF Opened, PoolInvariant, Busy
<1>2. CASE step' = [step EXCEPT ![d] = "settingUp"] /\ UNCHANGED <<locked, connected>>
  <2>1. \A e \in Diagnoses : Busy(e)' <=> Busy(e)
    BY <1>1, <1>2 DEF PoolInvariant, Busy
  <2>2. Lost' = Lost
    BY <1>1, <1>2 DEF Lost
  <2> QED
    BY <1>1, <1>2, <2>1, <2>2 DEF PoolInvariant
<1>3. CASE /\ step' = [step EXCEPT ![d] = "out"] /\ locked' = NoDiagnosis
           /\ connected' = connected \ {created}
  <2>1. \A e \in Diagnoses : Busy(e)' <=> locked' = e
    BY <1>1, <1>3, CheckpointAssumption DEF PoolInvariant, Busy
  <2>2. Lost' = Lost
    BY <1>1, <1>3 DEF Lost
  <2> QED
    BY <1>1, <1>3, <2>1, <2>2 DEF PoolInvariant
<1> QED
  BY <1>2, <1>3 DEF Opened

(* Setting up succeeds, or costs the pool.                                 *)
LEMMA SetUpKeeps ==
  ASSUME PoolInvariant, NEW d \in Diagnoses, SetUp(d)
  PROVE  PoolInvariant'
<1>1. /\ locked = d /\ locked # NoDiagnosis /\ heldPool = 0
      /\ step' = [step EXCEPT ![d] = "out"] /\ locked' = NoDiagnosis
      /\ UNCHANGED <<created, connected>>
      /\ created \in Nat /\ setupFailed \in Nat /\ connected \subseteq 1 .. created
  BY CheckpointAssumption DEF SetUp, PoolInvariant, Busy
<1>2. \A e \in Diagnoses : Busy(e)' <=> locked' = e
  BY <1>1, CheckpointAssumption DEF PoolInvariant, Busy
<1>3. \A p \in connected : p # 0
  BY <1>1
<1>4. CASE heldPool' = created /\ saverPool' = created /\ setupFailed' = setupFailed
  <2>1. Lost' = Lost
    BY <1>1, <1>3, <1>4 DEF Lost
  <2> QED
    BY <1>1, <1>2, <1>4, <2>1 DEF PoolInvariant
<1>5. CASE setupFailed' = setupFailed + 1 /\ UNCHANGED <<heldPool, saverPool>>
  <2>1. Lost' \subseteq Lost \cup {created}
    BY <1>1, <1>5 DEF Lost
  <2>2. IsFiniteSet(Lost) /\ Cardinality(Lost) \in Nat
    BY FinitePools, FS_CardinalityType
  <2>3. /\ IsFiniteSet(Lost \cup {created})
        /\ Cardinality(Lost \cup {created}) \in {Cardinality(Lost), Cardinality(Lost) + 1}
    BY <2>2, FS_AddElement
  <2>4. Cardinality(Lost') <= Cardinality(Lost \cup {created}) /\ Cardinality(Lost') \in Nat
    BY <2>1, <2>3, FS_Subset, FS_CardinalityType
  <2>5. Cardinality(Lost') <= setupFailed'
    BY <1>1, <1>5, <2>2, <2>3, <2>4 DEF PoolInvariant
  <2> QED
    BY <1>1, <1>2, <1>5, <2>5 DEF PoolInvariant
<1> QED
  BY <1>4, <1>5 DEF SetUp

(* The provider is closed.                                                 *)
LEMMA CloseKeeps ==
  ASSUME PoolInvariant, CloseProvider
  PROVE  PoolInvariant'
<1>1. /\ heldPool # 0 /\ heldPool' = 0 /\ saverPool' = 0 /\ connected' = connected \ {heldPool}
      /\ UNCHANGED <<step, locked, created, setupFailed>>
      /\ locked = NoDiagnosis /\ created \in Nat /\ connected \subseteq 1 .. created
  BY DEF CloseProvider, PoolInvariant
<1>2. \A p \in connected : p # 0
  BY <1>1
<1>3. Lost' = Lost
  BY <1>1, <1>2 DEF Lost
<1> QED
  BY <1>1, <1>3 DEF PoolInvariant, Busy

(* Every step keeps the invariant.                                         *)
LEMMA PoolNext == PoolInvariant /\ [CheckpointNext]_checkpointVars => PoolInvariant'
<1> SUFFICES ASSUME PoolInvariant, [CheckpointNext]_checkpointVars PROVE PoolInvariant'
  OBVIOUS
<1>1. CASE UNCHANGED checkpointVars
  BY <1>1 DEF checkpointVars, PoolInvariant, Busy, Lost
<1> QED
  BY <1>1, AskKeeps, EnterKeeps, OpenedKeeps, SetUpKeeps, CloseKeeps DEF CheckpointNext

(* One more pool makes a finite set of pools at most one larger.           *)
LEMMA OneMorePool ==
  ASSUME NEW S, IsFiniteSet(S), NEW p
  PROVE  /\ IsFiniteSet(S \cup {p}) /\ Cardinality(S \cup {p}) \in Nat
         /\ Cardinality(S \cup {p}) <= Cardinality(S) + 1
<1>1. IsFiniteSet(S \cup {p}) /\ Cardinality(S) \in Nat /\ Cardinality(S \cup {p}) \in Nat
  BY FS_AddElement, FS_CardinalityType
<1>2. CASE p \in S
  <2>1. Cardinality(S \cup {p}) = Cardinality(S)
    <3>1. S \cup {p} = S
      BY <1>2
    <3> QED
      BY <3>1, Zenon
  <2> QED
    BY <1>1, <2>1
<1>3. CASE p \notin S
  <2>1. Cardinality(S \cup {p}) = Cardinality(S) + 1
    BY <1>3, FS_AddElement
  <2> QED
    BY <1>1, <2>1
<1> QED
  BY <1>2, <1>3

(* The invariant counts the open pools.                                    *)
LEMMA PoolsAreCounted == PoolInvariant => PoolsLostBySetupOnly
<1> SUFFICES ASSUME PoolInvariant PROVE PoolsLostBySetupOnly
  OBVIOUS
<1> DEFINE busy == {d \in Diagnoses : step[d] \in {"opening", "settingUp"}}
<1>1. /\ IsFiniteSet(Lost) /\ Cardinality(Lost) \in Nat /\ setupFailed \in Nat
      /\ Cardinality(Lost) <= setupFailed
  BY FinitePools, FS_CardinalityType DEF PoolInvariant
<1>3. CASE locked # NoDiagnosis
  <2>1. busy = {locked}
    BY <1>3 DEF PoolInvariant, Busy
  <2>2. Cardinality(busy) = 1 /\ heldPool = 0
    BY <1>3, <2>1, FS_Singleton DEF PoolInvariant
  <2>3. connected \subseteq Lost \cup {created}
    <3>1. \A p \in connected : p # 0
      BY DEF PoolInvariant
    <3> QED
      BY <2>2, <3>1 DEF Lost
  <2>4. /\ IsFiniteSet(Lost \cup {created}) /\ Cardinality(Lost \cup {created}) \in Nat
        /\ Cardinality(Lost \cup {created}) <= Cardinality(Lost) + 1
    BY <1>1, OneMorePool
  <2>5. Cardinality(connected) <= Cardinality(Lost \cup {created}) /\ Cardinality(connected) \in Nat
    BY <2>3, <2>4, FS_Subset, FinitePools, FS_CardinalityType
  <2> HIDE DEF busy
  <2>6. Cardinality(connected) <= 0 + Cardinality(busy) + setupFailed
    BY <1>1, <2>2, <2>4, <2>5
  <2> QED
    BY <2>2, <2>6 DEF PoolsLostBySetupOnly, busy
<1>4. CASE locked = NoDiagnosis
  <2>1. busy = {}
    BY <1>4, CheckpointAssumption DEF PoolInvariant, Busy
  <2>2. Cardinality(busy) = 0
    BY <2>1, FS_EmptySet
  <2>3. connected \subseteq Lost \cup {heldPool}
    BY <1>4 DEF Lost
  <2>4. Cardinality(connected) \in Nat
    BY FinitePools, FS_CardinalityType
  <2>5. CASE heldPool # 0
    <3>1. /\ IsFiniteSet(Lost \cup {heldPool}) /\ Cardinality(Lost \cup {heldPool}) \in Nat
          /\ Cardinality(Lost \cup {heldPool}) <= Cardinality(Lost) + 1
      BY <1>1, OneMorePool
    <3>2. Cardinality(connected) <= Cardinality(Lost \cup {heldPool})
      BY <2>3, <3>1, FS_Subset
    <3> HIDE DEF busy
    <3>3. Cardinality(connected) <= 1 + Cardinality(busy) + setupFailed
      BY <1>1, <2>2, <2>4, <3>1, <3>2
    <3> QED
      BY <2>5, <3>3 DEF PoolsLostBySetupOnly, busy
  <2>6. CASE heldPool = 0
    <3>1. connected \subseteq Lost
      BY <1>4, <2>6 DEF Lost, PoolInvariant
    <3>2. Cardinality(connected) <= Cardinality(Lost)
      BY <1>1, <3>1, FS_Subset
    <3> HIDE DEF busy
    <3>3. Cardinality(connected) <= 0 + Cardinality(busy) + setupFailed
      BY <1>1, <2>2, <2>4, <3>2
    <3> QED
      BY <2>6, <3>3 DEF PoolsLostBySetupOnly, busy
  <2> QED
    BY <2>5, <2>6
<1> QED
  BY <1>3, <1>4

(* However many diagnoses ask at once and whoever closes the provider in   *)
(* between, an open pool that nobody would close is one whose setup failed *)
(* (CheckpointerProvider, checkpointing.py).                               *)
THEOREM PoolsAreLostBySetupOnly == CheckpointSpec => []PoolsLostBySetupOnly
<1>1. CheckpointInit => PoolInvariant
  BY PoolInit
<1>2. PoolInvariant /\ [CheckpointNext]_checkpointVars => PoolInvariant'
  BY PoolNext
<1>3. PoolInvariant => PoolsLostBySetupOnly
  BY PoolsAreCounted
<1> QED
  BY <1>1, <1>2, <1>3, PTL DEF CheckpointSpec

(* Every failed setup, and the pool being opened, is a pool that was       *)
(* created; the diagnoses were given pools that were created.              *)
CheckpointInvariant ==
  /\ PoolInvariant
  /\ created <= MaxPools
  /\ setupFailed + (IF locked = NoDiagnosis THEN 0 ELSE 1) <= created
  /\ using \in [Diagnoses -> 0 .. created]

(* A saver is given to a diagnosis.                                        *)
LEMMA GivenPool ==
  ASSUME NEW f \in [Diagnoses -> 0 .. created], NEW d \in Diagnoses, NEW p \in 0 .. created
  PROVE  [f EXCEPT ![d] = p] \in [Diagnoses -> 0 .. created]
OBVIOUS

(* Every step keeps that.                                                  *)
LEMMA CheckpointStep ==
  CheckpointInvariant /\ [CheckpointNext]_checkpointVars => CheckpointInvariant'
<1> SUFFICES ASSUME CheckpointInvariant, [CheckpointNext]_checkpointVars PROVE CheckpointInvariant'
  OBVIOUS
<1>0. /\ PoolInvariant /\ PoolInvariant'
      /\ created \in Nat /\ setupFailed \in Nat /\ saverPool = heldPool /\ heldPool \in 0 .. created
      /\ using \in [Diagnoses -> 0 .. created] /\ created <= MaxPools
      /\ setupFailed + (IF locked = NoDiagnosis THEN 0 ELSE 1) <= created
      /\ \A d \in Diagnoses : d # NoDiagnosis /\ (Busy(d) <=> locked = d)
  BY PoolNext, CheckpointAssumption DEF CheckpointInvariant, PoolInvariant
<1>1. ASSUME NEW d \in Diagnoses, AskForSaver(d)
      PROVE  CheckpointInvariant'
  BY <1>0, <1>1, GivenPool DEF AskForSaver, CheckpointInvariant
<1>2. ASSUME NEW d \in Diagnoses, EnterLock(d)
      PROVE  CheckpointInvariant'
  <2>1. CASE saverPool # 0
    BY <1>0, <1>2, <2>1, GivenPool DEF EnterLock, CheckpointInvariant
  <2>2. CASE saverPool = 0
    <3>1. /\ locked = NoDiagnosis /\ locked' = d /\ created < MaxPools /\ created' = created + 1
          /\ UNCHANGED <<setupFailed, using>>
      BY <1>2, <2>2 DEF EnterLock
    <3>2. created' <= MaxPools
      BY <1>0, <3>1, CheckpointAssumption
    <3>3. setupFailed' + (IF locked' = NoDiagnosis THEN 0 ELSE 1) <= created'
      BY <1>0, <3>1
    <3>4. using' \in [Diagnoses -> 0 .. created']
      <4>1. 0 .. created \subseteq 0 .. created'
        BY <1>0, <3>1
      <4> QED
        BY <1>0, <3>1, <4>1
    <3> QED
      BY <1>0, <3>2, <3>3, <3>4 DEF CheckpointInvariant
  <2> QED
    BY <2>1, <2>2
<1>3. ASSUME NEW d \in Diagnoses, Opened(d)
      PROVE  CheckpointInvariant'
  <2>1. UNCHANGED <<using, created, setupFailed>> /\ (locked' = locked \/ locked' = NoDiagnosis)
    BY <1>3 DEF Opened
  <2>2. setupFailed' + (IF locked' = NoDiagnosis THEN 0 ELSE 1) <= created'
    BY <1>0, <2>1
  <2> QED
    BY <1>0, <2>1, <2>2 DEF CheckpointInvariant
<1>4. ASSUME NEW d \in Diagnoses, SetUp(d)
      PROVE  CheckpointInvariant'
  <2>1. /\ locked # NoDiagnosis /\ locked' = NoDiagnosis /\ UNCHANGED created
        /\ setupFailed' = setupFailed \/ setupFailed' = setupFailed + 1
        /\ using' = using \/ using' = [using EXCEPT ![d] = created]
    BY <1>0, <1>4 DEF SetUp, Busy
  <2>2. setupFailed' + (IF locked' = NoDiagnosis THEN 0 ELSE 1) <= created'
    BY <1>0, <2>1
  <2>3. created \in 0 .. created
    BY <1>0
  <2>4. using' \in [Diagnoses -> 0 .. created']
    BY <1>0, <2>1, <2>3, GivenPool
  <2> QED
    BY <1>0, <2>1, <2>2, <2>4 DEF CheckpointInvariant
<1>5. CASE CloseProvider
  BY <1>0, <1>5 DEF CloseProvider, CheckpointInvariant
<1>6. CASE UNCHANGED checkpointVars
  BY <1>0, <1>6 DEF checkpointVars, CheckpointInvariant
<1> QED
  BY <1>1, <1>2, <1>3, <1>4, <1>5, <1>6 DEF CheckpointNext

(* Type correctness of the checkpointer: there are never more failed       *)
(* setups than pools, and no diagnosis uses a pool that was not created.   *)
THEOREM CheckpointTypeCorrect == CheckpointSpec => []CheckpointTypeOK
<1>1. CheckpointInit => CheckpointInvariant
  BY PoolInit, CheckpointAssumption DEF CheckpointInit, CheckpointInvariant
<1>2. CheckpointInvariant => CheckpointTypeOK
  <2> SUFFICES ASSUME CheckpointInvariant PROVE CheckpointTypeOK
    OBVIOUS
  <2>1. /\ created \in Nat /\ setupFailed \in Nat /\ created <= MaxPools /\ MaxPools \in Nat
        /\ setupFailed <= created
    BY CheckpointAssumption DEF CheckpointInvariant, PoolInvariant
  <2>2. created \in 0 .. MaxPools /\ setupFailed \in 0 .. MaxPools
    BY <2>1
  <2> QED
    BY <2>2 DEF CheckpointInvariant, PoolInvariant, CheckpointTypeOK
<1> QED
  BY <1>1, <1>2, CheckpointStep, PTL DEF CheckpointSpec

-----------------------------------------------------------------------------
(* THE EVALUATION OF THE SPECIALISTS                                       *)

(* Results are records of a prompt, a response and a grade.                *)
WellFormed(results) ==
  results = [k \in DOMAIN results |->
               [prompt |-> results[k].prompt, response |-> results[k].response,
                grade |-> results[k].grade]]

(* Each result was made for the prompt the plan has for it.                *)
Prompted(results, plan) ==
  /\ DOMAIN results \subseteq DOMAIN plan
  /\ \A k \in DOMAIN results : results[k].prompt = plan[k]

(* What the old results hold for the plan's prompts the new ones hold too. *)
Preserves(old, new, plan) ==
  \A k \in DOMAIN old :
    k \in DOMAIN plan /\ old[k].prompt = plan[k] =>
      /\ k \in DOMAIN new
      /\ new[k].response = old[k].response
      /\ old[k].grade = "valid" => new[k].grade = "valid"

(* The running process holds all its file has for its plan, has assessed   *)
(* whatever is valid, and once it has generated everything so has the file.*)
EvaluationInvariant ==
  /\ evaluation = [phase |-> evaluation.phase, done |-> evaluation.done, plan |-> evaluation.plan,
                   results |-> evaluation.results, assessed |-> evaluation.assessed]
  /\ WellFormed(evaluation.results) /\ WellFormed(comparisons.results)
  /\ evaluation.phase \in {"generating", "assessing", "finished"} =>
       Prompted(evaluation.results, evaluation.plan)
  /\ evaluation.phase \in {"assessing", "finished"} =>
       /\ DOMAIN evaluation.results = DOMAIN evaluation.plan
       /\ DOMAIN comparisons.results = DOMAIN evaluation.plan
       /\ Prompted(comparisons.results, evaluation.plan)
  /\ evaluation.phase \in {"generating", "assessing"} =>
       Preserves(comparisons.results, evaluation.results, evaluation.plan)
  /\ evaluation.phase = "assessing" => ValidOnes(evaluation.results) \subseteq evaluation.assessed
  /\ comparisons.status = "complete" =>
       ValidOnes(comparisons.results) = DOMAIN comparisons.results

(* One step of SavedResultsSurvive.                                        *)
Survive ==
  \A k \in DOMAIN comparisons.results :
    LET saved == comparisons.results[k] IN
    \/ UNCHANGED comparisons
    \/ NotPlanned(k)
    \/ /\ k \in DOMAIN comparisons'.results
       /\ comparisons'.results[k].response = saved.response
       /\ saved.grade = "valid" => comparisons'.results[k].grade = "valid"

-----------------------------------------------------------------------------
(* The operators the steps are made of.                                    *)

(* A result is added to others.                                            *)
LEMMA AddResult ==
  ASSUME NEW results, WellFormed(results), NEW k, k \notin DOMAIN results,
         NEW prompt, NEW response, NEW more,
         more = [j \in DOMAIN results \cup {k} |->
                   IF j = k THEN [prompt |-> prompt, response |-> response, grade |-> "none"]
                   ELSE results[j]]
  PROVE  /\ WellFormed(more)
         /\ DOMAIN more = DOMAIN results \cup {k}
         /\ \A j \in DOMAIN results : more[j] = results[j]
         /\ more[k].prompt = prompt
BY DEF WellFormed

(* A result is graded, and otherwise stays as it is.                       *)
LEMMA GradeResult ==
  ASSUME NEW results, WellFormed(results), NEW k \in DOMAIN results, NEW grade, NEW graded,
         graded = [results EXCEPT ![k].grade = grade]
  PROVE  /\ WellFormed(graded)
         /\ DOMAIN graded = DOMAIN results
         /\ \A j \in DOMAIN results :
              /\ graded[j].prompt = results[j].prompt
              /\ graded[j].response = results[j].response
              /\ graded[j].grade = IF j = k THEN grade ELSE results[j].grade
<1> DEFINE old == results[k]
           new == [prompt |-> old.prompt, response |-> old.response, grade |-> grade]
<1>1. old = [prompt |-> old.prompt, response |-> old.response, grade |-> old.grade]
  BY DEF WellFormed
<1>2. [old EXCEPT !.grade = grade] = new
  BY <1>1
<1>3. graded = [results EXCEPT ![k] = new]
  BY <1>2
<1>4. /\ new.prompt = old.prompt /\ new.response = old.response /\ new.grade = grade
      /\ new = [prompt |-> new.prompt, response |-> new.response, grade |-> new.grade]
  OBVIOUS
<1>5. DOMAIN graded = DOMAIN results /\ graded[k] = new
  BY <1>3 DEF WellFormed
<1>6. \A j \in DOMAIN results : j # k => graded[j] = results[j]
  BY <1>3 DEF WellFormed
<1> HIDE DEF new
<1>7. WellFormed(graded)
  <2>1. graded = [j \in DOMAIN graded |-> graded[j]]
    BY <1>3, <1>5 DEF WellFormed
  <2>2. \A j \in DOMAIN graded :
          graded[j] = [prompt |-> graded[j].prompt, response |-> graded[j].response,
                       grade |-> graded[j].grade]
    BY <1>4, <1>5, <1>6 DEF WellFormed
  <2> QED
    BY <2>1, <2>2 DEF WellFormed
<1> QED
  BY <1>4, <1>5, <1>6, <1>7

(* What is used again is what the file holds for the plan's prompts.       *)
LEMMA ReuseKeeps ==
  ASSUME WellFormed(comparisons.results), NEW plan, NEW results,
         results = [k \in Reusable(plan) |-> comparisons.results[k]]
  PROVE  /\ WellFormed(results)
         /\ DOMAIN results = Reusable(plan)
         /\ Prompted(results, plan)
         /\ Preserves(comparisons.results, results, plan)
<1>1. DOMAIN results = Reusable(plan) /\ \A k \in Reusable(plan) : results[k] = comparisons.results[k]
  OBVIOUS
<1>2. \A k \in Reusable(plan) :
        k \in DOMAIN comparisons.results /\ k \in DOMAIN plan
          /\ comparisons.results[k].prompt = plan[k]
  BY DEF Reusable
<1>3. \A k \in DOMAIN comparisons.results :
        k \in DOMAIN plan /\ comparisons.results[k].prompt = plan[k] => k \in Reusable(plan)
  BY DEF Reusable
<1>4. WellFormed(results)
  BY <1>1, <1>2 DEF WellFormed
<1>5. Prompted(results, plan)
  BY <1>1, <1>2 DEF Prompted
<1>6. Preserves(comparisons.results, results, plan)
  BY <1>1, <1>3 DEF Preserves
<1> QED
  BY <1>1, <1>4, <1>5, <1>6

(* A file that says complete is complete.                                  *)
LEMMA StatusIsTrue ==
  ASSUME NEW results, FinalStatus(results) = "complete"
  PROVE  ValidOnes(results) = DOMAIN results
BY DEF FinalStatus

(* A save of results that preserve the file loses nothing.                 *)
LEMMA SaveSurvives ==
  ASSUME NEW plan, evaluation'.plan = plan,
         Preserves(comparisons.results, comparisons'.results, plan)
  PROVE  Survive
BY DEF Survive, NotPlanned, Preserves

(* Everything is generated: the file gets all results of the plan.         *)
LEMMA GeneratedKeeps ==
  ASSUME NEW plan, NEW results, WellFormed(results), Prompted(results, plan),
         DOMAIN results = DOMAIN plan, Preserves(comparisons.results, results, plan),
         Generated(plan, results)
  PROVE  EvaluationInvariant' /\ Survive
<1> DEFINE valid == ValidOnes(results)
<1>1. Preserves(results, results, plan)
  BY DEF Preserves
<1>2. CASE valid = DOMAIN results
  <2>1. /\ evaluation' = [phase |-> "finished", done |-> {}, plan |-> plan,
                          results |-> results, assessed |-> valid]
        /\ comparisons' = [status |-> FinalStatus(results), results |-> results]
    BY <1>2 DEF Generated
  <2>2. /\ evaluation'.phase = "finished" /\ evaluation'.plan = plan /\ evaluation'.results = results
        /\ comparisons'.results = results /\ comparisons'.status = FinalStatus(results)
        /\ evaluation' = [phase |-> evaluation'.phase, done |-> evaluation'.done,
                          plan |-> evaluation'.plan, results |-> evaluation'.results,
                          assessed |-> evaluation'.assessed]
    BY <2>1
  <2>3. Survive
    BY <2>2, SaveSurvives
  <2> QED
    BY <1>2, <2>2, <2>3 DEF EvaluationInvariant, ValidOnes
<1>3. CASE valid # DOMAIN results
  <2>1. /\ evaluation' = [phase |-> "assessing", done |-> {}, plan |-> plan,
                          results |-> results, assessed |-> valid]
        /\ comparisons' = [status |-> "awaiting_assessment", results |-> results]
    BY <1>3 DEF Generated
  <2>2. /\ evaluation'.phase = "assessing" /\ evaluation'.plan = plan /\ evaluation'.results = results
        /\ evaluation'.assessed = ValidOnes(results)
        /\ comparisons'.results = results /\ comparisons'.status = "awaiting_assessment"
        /\ evaluation' = [phase |-> evaluation'.phase, done |-> evaluation'.done,
                          plan |-> evaluation'.plan, results |-> evaluation'.results,
                          assessed |-> evaluation'.assessed]
    BY <2>1
  <2>3. Survive
    BY <2>2, SaveSurvives
  <2> QED
    BY <1>1, <2>2, <2>3 DEF EvaluationInvariant, ValidOnes
<1> QED
  BY <1>2, <1>3

-----------------------------------------------------------------------------
(* The steps.                                                              *)

(* A run is planned, from what the file has for its prompts.               *)
LEMMA StartKeeps ==
  ASSUME EvaluationInvariant, NEW limit, StartSynthesis(limit)
  PROVE  EvaluationInvariant' /\ Survive
<1> DEFINE m == IF limit < reportsFile.cases THEN limit ELSE reportsFile.cases
           plan == Plan(m)
           results == [k \in Reusable(plan) |-> comparisons.results[k]]
<1>1. IF Reusable(plan) = DOMAIN plan
      THEN Generated(plan, results)
      ELSE /\ evaluation' = [phase |-> "generating", done |-> {}, plan |-> plan,
                             results |-> results, assessed |-> {}]
           /\ UNCHANGED comparisons
  BY DEF StartSynthesis
<1> HIDE DEF plan
<1>2. /\ WellFormed(results) /\ DOMAIN results = Reusable(plan)
      /\ Prompted(results, plan) /\ Preserves(comparisons.results, results, plan)
  BY ReuseKeeps DEF EvaluationInvariant
<1> HIDE DEF results
<1>3. CASE Reusable(plan) = DOMAIN plan
  BY <1>1, <1>2, <1>3, GeneratedKeeps
<1>4. CASE Reusable(plan) # DOMAIN plan
  <2>1. /\ evaluation' = [phase |-> "generating", done |-> {}, plan |-> plan,
                          results |-> results, assessed |-> {}]
        /\ UNCHANGED comparisons
    BY <1>1, <1>4
  <2>2. /\ evaluation'.phase = "generating" /\ evaluation'.plan = plan /\ evaluation'.results = results
        /\ evaluation' = [phase |-> evaluation'.phase, done |-> evaluation'.done,
                          plan |-> evaluation'.plan, results |-> evaluation'.results,
                          assessed |-> evaluation'.assessed]
    BY <2>1
  <2> QED
    BY <1>2, <2>1, <2>2 DEF EvaluationInvariant, Survive, ValidOnes
<1> QED
  BY <1>3, <1>4

(* A diagnosis is made.                                                    *)
LEMMA SynthesizeKeeps ==
  ASSUME EvaluationInvariant, NEW k, Synthesize(k)
  PROVE  EvaluationInvariant' /\ Survive
<1> DEFINE made == [prompt |-> evaluation.plan[k], response |-> syntheses, grade |-> "none"]
           results == [j \in DOMAIN evaluation.results \cup {k} |->
                         IF j = k THEN made ELSE evaluation.results[j]]
           plan == evaluation.plan
<1>1. /\ evaluation.phase = "generating" /\ k \in DOMAIN plan /\ k \notin DOMAIN evaluation.results
      /\ IF DOMAIN results = DOMAIN plan
         THEN Generated(plan, results)
         ELSE /\ evaluation' = [evaluation EXCEPT !.results = results]
              /\ comparisons' = IF AtSave(Cardinality(DOMAIN results))
                                THEN [status |-> "generating", results |-> results]
                                ELSE comparisons
  BY DEF Synthesize
<1>2. /\ WellFormed(evaluation.results) /\ Prompted(evaluation.results, plan)
      /\ Preserves(comparisons.results, evaluation.results, plan)
  BY <1>1 DEF EvaluationInvariant
<1>3. /\ WellFormed(results)
      /\ DOMAIN results = DOMAIN evaluation.results \cup {k}
      /\ \A j \in DOMAIN evaluation.results : results[j] = evaluation.results[j]
      /\ results[k].prompt = plan[k]
  BY <1>1, <1>2, AddResult
<1> HIDE DEF results
<1>4. Prompted(results, plan)
  BY <1>1, <1>2, <1>3 DEF Prompted
<1>5. Preserves(comparisons.results, results, plan)
  BY <1>2, <1>3 DEF Preserves
<1>6. CASE DOMAIN results = DOMAIN plan
  <2> HIDE DEF plan
  <2> QED
    BY <1>1, <1>3, <1>4, <1>5, <1>6, GeneratedKeeps
<1>7. CASE DOMAIN results # DOMAIN plan
  <2>1. /\ evaluation'.phase = "generating" /\ evaluation'.plan = plan /\ evaluation'.results = results
        /\ evaluation' = [phase |-> evaluation'.phase, done |-> evaluation'.done,
                          plan |-> evaluation'.plan, results |-> evaluation'.results,
                          assessed |-> evaluation'.assessed]
    <3>1. evaluation' = [evaluation EXCEPT !.results = results]
      BY <1>1, <1>7
    <3>2. evaluation = [phase |-> evaluation.phase, done |-> evaluation.done, plan |-> evaluation.plan,
                        results |-> evaluation.results, assessed |-> evaluation.assessed]
      BY DEF EvaluationInvariant
    <3> QED
      BY <1>1, <3>1, <3>2
  <2>2. CASE comparisons' = comparisons
    BY <1>3, <1>4, <1>5, <2>1, <2>2 DEF EvaluationInvariant, Survive
  <2>3. CASE comparisons' = [status |-> "generating", results |-> results]
    <3>1. comparisons'.status = "generating" /\ comparisons'.results = results
      BY <2>3
    <3>2. Preserves(results, results, plan)
      BY DEF Preserves
    <3>3. Survive
      BY <1>5, <2>1, <3>1, SaveSurvives
    <3> QED
      BY <1>3, <1>4, <2>1, <3>1, <3>2, <3>3 DEF EvaluationInvariant
  <2> QED
    BY <1>1, <1>7, <2>2, <2>3
<1> QED
  BY <1>6, <1>7

(* A diagnosis is assessed.                                                *)
LEMMA AssessKeeps ==
  ASSUME EvaluationInvariant, NEW k, NEW grade, Assess(k, grade)
  PROVE  EvaluationInvariant' /\ Survive
<1> DEFINE results == [evaluation.results EXCEPT ![k].grade = grade]
           assessed == evaluation.assessed \cup {k}
           plan == evaluation.plan
<1>1. /\ evaluation.phase = "assessing"
      /\ k \in DOMAIN evaluation.results /\ k \notin evaluation.assessed
      /\ IF assessed = DOMAIN results
         THEN /\ evaluation' = [evaluation EXCEPT !.phase = "finished", !.results = results,
                                                  !.assessed = assessed]
              /\ comparisons' = [status |-> FinalStatus(results), results |-> results]
         ELSE /\ evaluation' = [evaluation EXCEPT !.results = results, !.assessed = assessed]
              /\ comparisons' = IF AtSave(Cardinality(assessed))
                                THEN [status |-> "in_progress", results |-> results]
                                ELSE comparisons
  BY DEF Assess
<1>2. /\ WellFormed(evaluation.results) /\ Prompted(evaluation.results, plan)
      /\ DOMAIN evaluation.results = DOMAIN plan
      /\ DOMAIN comparisons.results = DOMAIN plan /\ Prompted(comparisons.results, plan)
      /\ WellFormed(comparisons.results)
      /\ Preserves(comparisons.results, evaluation.results, plan)
      /\ ValidOnes(evaluation.results) \subseteq evaluation.assessed
  BY <1>1 DEF EvaluationInvariant
<1>3. /\ WellFormed(results)
      /\ DOMAIN results = DOMAIN evaluation.results
      /\ \A j \in DOMAIN evaluation.results :
           /\ results[j].prompt = evaluation.results[j].prompt
           /\ results[j].response = evaluation.results[j].response
           /\ results[j].grade = IF j = k THEN grade ELSE evaluation.results[j].grade
  BY <1>1, <1>2, GradeResult
<1> HIDE DEF results
<1>4. Prompted(results, plan)
  BY <1>2, <1>3 DEF Prompted
<1>5. Preserves(comparisons.results, results, plan)
  <2>1. evaluation.results[k].grade # "valid"
    BY <1>1, <1>2 DEF ValidOnes
  <2> QED
    BY <1>2, <1>3, <2>1 DEF Preserves
<1>6. ValidOnes(results) \subseteq assessed
  BY <1>2, <1>3 DEF ValidOnes
<1>7. evaluation = [phase |-> evaluation.phase, done |-> evaluation.done, plan |-> evaluation.plan,
                    results |-> evaluation.results, assessed |-> evaluation.assessed]
  BY DEF EvaluationInvariant
<1>8. CASE assessed = DOMAIN results
  <2>1. /\ evaluation'.phase = "finished" /\ evaluation'.plan = plan /\ evaluation'.results = results
        /\ evaluation' = [phase |-> evaluation'.phase, done |-> evaluation'.done,
                          plan |-> evaluation'.plan, results |-> evaluation'.results,
                          assessed |-> evaluation'.assessed]
    BY <1>1, <1>7, <1>8
  <2>2. comparisons'.status = FinalStatus(results) /\ comparisons'.results = results
    BY <1>1, <1>8
  <2>3. Survive
    BY <1>5, <2>1, <2>2, SaveSurvives
  <2>4. comparisons'.status = "complete" => ValidOnes(results) = DOMAIN results
    BY <2>2, StatusIsTrue
  <2> QED
    BY <1>2, <1>3, <1>4, <2>1, <2>2, <2>3, <2>4 DEF EvaluationInvariant, ValidOnes
<1>9. CASE assessed # DOMAIN results
  <2>1. /\ evaluation'.phase = "assessing" /\ evaluation'.plan = plan /\ evaluation'.results = results
        /\ evaluation'.assessed = assessed
        /\ evaluation' = [phase |-> evaluation'.phase, done |-> evaluation'.done,
                          plan |-> evaluation'.plan, results |-> evaluation'.results,
                          assessed |-> evaluation'.assessed]
    BY <1>1, <1>7, <1>9
  <2>2. (ValidOnes(evaluation.results) \subseteq evaluation.assessed)'
    BY <1>6, <2>1 DEF ValidOnes
  <2>3. CASE comparisons' = comparisons
    BY <1>2, <1>3, <1>4, <1>5, <2>1, <2>2, <2>3 DEF EvaluationInvariant, Survive, ValidOnes
  <2>4. CASE comparisons' = [status |-> "in_progress", results |-> results]
    <3>1. comparisons'.status = "in_progress" /\ comparisons'.results = results
      BY <2>4
    <3>2. Preserves(results, results, plan)
      BY DEF Preserves
    <3>3. Survive
      BY <1>5, <2>1, <3>1, SaveSurvives
    <3> QED
      BY <1>2, <1>3, <1>4, <2>1, <2>2, <3>1, <3>2, <3>3 DEF EvaluationInvariant
  <2> QED
    BY <1>1, <1>9, <2>3, <2>4
<1> QED
  BY <1>8, <1>9

(* The steps of the phase "reports" and the end of a process leave the     *)
(* comparisons alone and no synthesis is running after them.               *)
LEMMA OthersKeep ==
  ASSUME EvaluationInvariant, UNCHANGED comparisons,
         evaluation' = [phase |-> evaluation'.phase, done |-> evaluation'.done,
                        plan |-> evaluation'.plan, results |-> evaluation'.results,
                        assessed |-> evaluation'.assessed],
         WellFormed(evaluation'.results),
         evaluation'.phase \notin {"generating", "assessing", "finished"}
  PROVE  EvaluationInvariant' /\ Survive
BY DEF EvaluationInvariant, Survive, ValidOnes

(* A process that is not running holds no results.                         *)
LEMMA IdleFacts ==
  /\ IdleProcess.phase = "idle" /\ IdleProcess.results = <<>> /\ WellFormed(<<>>)
  /\ IdleProcess = [phase |-> IdleProcess.phase, done |-> IdleProcess.done, plan |-> IdleProcess.plan,
                    results |-> IdleProcess.results, assessed |-> IdleProcess.assessed]
BY DEF IdleProcess, NoResults, WellFormed

(* The reports are made and reviewed.                                      *)
LEMMA ReportsKeep ==
  ASSUME EvaluationInvariant, NEW job, Investigate(job) \/ Review(job)
  PROVE  EvaluationInvariant' /\ Survive
<1> DEFINE done == evaluation.done \cup {job}
<1>1. /\ UNCHANGED comparisons
      /\ evaluation.phase \in {"reporting", "reviewing"}
      /\ \/ evaluation' = [evaluation EXCEPT !.phase = "reviewing", !.done = {}]
         \/ evaluation' = [evaluation EXCEPT !.done = done]
         \/ evaluation' = IdleProcess
  BY DEF Investigate, Review
<1>2. /\ evaluation = [phase |-> evaluation.phase, done |-> evaluation.done, plan |-> evaluation.plan,
                       results |-> evaluation.results, assessed |-> evaluation.assessed]
      /\ WellFormed(evaluation.results)
  BY DEF EvaluationInvariant
<1>3. /\ evaluation'.phase \in {"reporting", "reviewing", "idle"}
      /\ evaluation'.results = evaluation.results \/ evaluation'.results = <<>>
      /\ evaluation' = [phase |-> evaluation'.phase, done |-> evaluation'.done,
                        plan |-> evaluation'.plan, results |-> evaluation'.results,
                        assessed |-> evaluation'.assessed]
  <2>1. CASE evaluation' = IdleProcess
    BY <2>1, IdleFacts
  <2>2. CASE evaluation' = [evaluation EXCEPT !.phase = "reviewing", !.done = {}]
    BY <1>2, <2>2
  <2>3. CASE evaluation' = [evaluation EXCEPT !.done = done]
    BY <1>1, <1>2, <2>3
  <2> QED
    BY <1>1, <2>1, <2>2, <2>3
<1> QED
  BY <1>1, <1>2, <1>3, IdleFacts, OthersKeep

(* The invariant holds initially.                                          *)
LEMMA EvaluationInvariantInit == EvaluationInit => EvaluationInvariant
BY IdleFacts DEF EvaluationInit, EvaluationInvariant, NoResults

(* Every step keeps it, and loses nothing that was saved.                  *)
LEMMA EvaluationInvariantNext ==
  EvaluationInvariant /\ [EvaluationNext]_evaluationVars => EvaluationInvariant' /\ Survive
<1> SUFFICES ASSUME EvaluationInvariant, [EvaluationNext]_evaluationVars
             PROVE  EvaluationInvariant' /\ Survive
  OBVIOUS
<1>1. CASE \E limit \in DOMAIN Cases : StartReports(limit)
  <2>1. UNCHANGED comparisons /\ evaluation' = [IdleProcess EXCEPT !.phase = "reporting"]
    BY <1>1 DEF StartReports
  <2>2. /\ evaluation'.phase = "reporting" /\ evaluation'.results = <<>>
        /\ evaluation' = [phase |-> evaluation'.phase, done |-> evaluation'.done,
                          plan |-> evaluation'.plan, results |-> evaluation'.results,
                          assessed |-> evaluation'.assessed]
    BY <2>1 DEF IdleProcess, NoResults
  <2> QED
    BY <2>1, <2>2, IdleFacts, OthersKeep
<1>2. CASE \E job \in Range(Cases) \X Roles : Investigate(job) \/ Review(job)
  BY <1>2, ReportsKeep
<1>3. CASE \E limit \in DOMAIN Cases : StartSynthesis(limit)
  BY <1>3, StartKeeps
<1>4. CASE \E k \in Comparisons : Synthesize(k)
  BY <1>4, SynthesizeKeeps
<1>5. CASE \E k \in Comparisons, grade \in Grades : Assess(k, grade)
  BY <1>5, AssessKeeps
<1>6. CASE EndProcess
  BY <1>6, IdleFacts, OthersKeep DEF EndProcess
<1>7. CASE UNCHANGED evaluationVars
  BY <1>7 DEF evaluationVars, EvaluationInvariant, Survive, ValidOnes
<1> QED
  BY <1>1, <1>2, <1>3, <1>4, <1>5, <1>6, <1>7 DEF EvaluationNext

(* However often runs are killed and repeated with other limits and other  *)
(* reports, a run that ends leaves exactly the comparisons it planned,     *)
(* made for the prompts it planned, and a file that says complete has only *)
(* valid assessments (run_synthesis, run_specialist_quality.py).           *)
THEOREM ComparisonsAreAlwaysCurrent == EvaluationSpec => []ComparisonsAreCurrent
<1>1. EvaluationInit => EvaluationInvariant
  BY EvaluationInvariantInit
<1>2. EvaluationInvariant /\ [EvaluationNext]_evaluationVars => EvaluationInvariant'
  BY EvaluationInvariantNext
<1>3. EvaluationInvariant => ComparisonsAreCurrent
  BY DEF EvaluationInvariant, ComparisonsAreCurrent, Prompted
<1> QED
  BY <1>1, <1>2, <1>3, PTL DEF EvaluationSpec

(* A saved response, and a valid assessment of it, stays in the file       *)
(* through every save and every kill while its prompt is planned           *)
(* (run_synthesis, run_specialist_quality.py).                            *)
THEOREM SavedResultsAlwaysSurvive == EvaluationSpec => SavedResultsSurvive
<1>1. EvaluationInit => EvaluationInvariant
  BY EvaluationInvariantInit
<1>2. EvaluationInvariant /\ [EvaluationNext]_evaluationVars =>
        EvaluationInvariant' /\ [Survive]_evaluationVars
  BY EvaluationInvariantNext
<1>3. EvaluationSpec => [][Survive]_evaluationVars
  BY <1>1, <1>2, PTL DEF EvaluationSpec
<1> QED
  BY <1>3 DEF SavedResultsSurvive, Survive

-----------------------------------------------------------------------------
(* TYPES                                                                   *)

(* A plan has comparisons of the cases, each with a prompt of its own.     *)
Planned(plan) == \A k \in DOMAIN plan : k \in Comparisons /\ plan[k] \in PromptsOf(k)

(* The type is kept because the reports file stays a record, plans are of  *)
(* the cases, and no response is older than the first synthesis run.       *)
EvaluationTypes ==
  /\ EvaluationTypeOK
  /\ reportsFile = [cases |-> reportsFile.cases, run |-> reportsFile.run,
                    reports |-> reportsFile.reports]
  /\ Planned(evaluation.plan)
  /\ evaluation.phase \in {"generating", "assessing", "finished"} => syntheses > 0

(* Among some numbers there is a smallest one.                             *)
LEMMA SmallestNumber ==
  ASSUME NEW S, S \subseteq Nat, S # {}
  PROVE  \E n \in S : \A o \in S : n <= o
<1> DEFINE R == {ss \in Nat \X Nat : ss[1] < ss[2]}
<1>1. IsWellFoundedOn(R, Nat)
  BY NatLessThanWellFounded DEF OpToRel
<1>2. PICK n \in S : \A o \in S : ~(<<o, n>> \in R)
  <2> HIDE DEF R
  <2> QED
    BY <1>1, WFMin
<1>3. \A o \in S : ~(o < n)
  BY <1>2
<1> QED
  BY <1>3

(* The first of the roles is one of the specialists.                       *)
LEMMA FirstRoleIsARole ==
  ASSUME NEW roles, roles \subseteq Roles
  PROVE  FirstRole(roles) \in Roles
<1> DEFINE among == Places(IF roles = {} THEN Roles ELSE roles)
           n == CHOOSE n \in among : \A o \in among : n <= o
<1>1. DOMAIN Specialists = 1..Len(Specialists) /\ Len(Specialists) \in Nat \ {0}
  BY EvaluationAssumption
<1>2. among \subseteq DOMAIN Specialists
  BY DEF Places
<1>3. among # {}
  <2>1. 1 \in DOMAIN Specialists
    BY <1>1
  <2>2. (IF roles = {} THEN Roles ELSE roles) # {}
    BY <2>1 DEF Roles, Range
  <2> QED
    BY <2>2 DEF Places, Roles, Range
<1>4. \E o \in among : \A p \in among : o <= p
  <2>1. among \subseteq Nat
    BY <1>1, <1>2
  <2> HIDE DEF among
  <2> QED
    BY <1>3, <2>1, SmallestNumber
<1>5. n \in among
  BY <1>4
<1>6. FirstRole(roles) = Specialists[n]
  BY DEF FirstRole
<1> HIDE DEF n
<1> QED
  BY <1>2, <1>5, <1>6 DEF Roles, Range

(* What goes into the prompts are reports of the specialists on the cases. *)
LEMMA ReportsOfCases ==
  ASSUME NEW m \in Nat, m <= Len(Cases), NEW i \in 1..m, NEW variant
  PROVE  /\ Cases[i] \in Range(Cases)
         /\ Reports(i, m, variant) \in [included : SUBSET (Range(Cases) \X Roles),
                                        stale : SUBSET (Range(Cases) \X Roles)]
<1>1. DOMAIN Cases = 1..Len(Cases) /\ Len(Cases) \in Nat
  BY EvaluationAssumption
<1>2. \A j \in 1..m : Cases[j] \in Range(Cases)
  BY <1>1 DEF Range
<1>3. RequiredRoles[Cases[i]] \subseteq Roles
  BY <1>2, EvaluationAssumption
<1>4. Relevant(i) \subseteq Range(Cases) \X Roles
  BY <1>2, <1>3 DEF Relevant
<1>5. Irrelevant(i) \subseteq Range(Cases) \X Roles
  <2> DEFINE others == Places(Roles \ RequiredRoles[Cases[i]])
             turn == (i - 1) % Cardinality(others)
             chosen == {n \in others : Cardinality({o \in others : o < n}) = turn}
  <2>1. \A n \in chosen : Specialists[n] \in Roles
    BY DEF Places, Roles, Range
  <2>2. Irrelevant(i) = {<<Cases[i], Specialists[n]>> : n \in chosen}
    BY DEF Irrelevant
  <2> HIDE DEF chosen
  <2> QED
    BY <1>2, <2>1, <2>2
<1>6. Stale(i, m) \subseteq Range(Cases) \X Roles
  <2>1. i % m \in 0..(m - 1)
    OBVIOUS
  <2>2. (i % m) + 1 \in 1..m
    BY <2>1
  <2> QED
    BY <1>2, <1>3, <2>2, FirstRoleIsARole DEF Stale
<1>7. /\ Reports(i, m, variant).included \subseteq Range(Cases) \X Roles
      /\ Reports(i, m, variant).stale \subseteq Range(Cases) \X Roles
  BY <1>4, <1>5, <1>6 DEF Reports
<1>8. Reports(i, m, variant) = [included |-> Reports(i, m, variant).included,
                                stale |-> Reports(i, m, variant).stale]
  BY DEF Reports
<1> QED
  BY <1>2, <1>7, <1>8

(* A run plans comparisons of the cases.                                   *)
LEMMA PlansAreOfCases ==
  ASSUME EvaluationTypes, NEW m \in Nat, m <= reportsFile.cases
  PROVE  Planned(Plan(m))
<1>1. m <= Len(Cases) /\ reportsFile.run \in 0..MaxReportRuns
  <2>1. reportsFile.cases \in 0..Len(Cases) /\ reportsFile.run \in 0..MaxReportRuns
    BY DEF EvaluationTypes, EvaluationTypeOK
  <2>2. Len(Cases) \in Nat
    BY EvaluationAssumption
  <2> QED
    BY <2>1, <2>2
<1>2. 0 \in 0..MaxReportRuns
  BY EvaluationAssumption
<1> SUFFICES ASSUME NEW k \in DOMAIN Plan(m)
             PROVE  k \in Comparisons /\ Plan(m)[k] \in PromptsOf(k)
  BY DEF Planned
<1> DEFINE i == CHOOSE i \in 1..m : Cases[i] = k[1]
<1>3. /\ k \in {Cases[j] : j \in 1..m} \X Variants
      /\ Plan(m)[k] = Prompt(i, m, k[2])
  BY DEF Plan
<1>4. i \in 1..m /\ Cases[i] = k[1]
  <2>1. \E j \in 1..m : Cases[j] = k[1]
    BY <1>3
  <2> QED
    BY <2>1
<1> HIDE DEF i
<1>5. /\ Cases[i] \in Range(Cases)
      /\ Reports(i, m, k[2]) \in [included : SUBSET (Range(Cases) \X Roles),
                                  stale : SUBSET (Range(Cases) \X Roles)]
  BY <1>1, <1>4, ReportsOfCases
<1>6. k \in Comparisons
  BY <1>3, <1>4, <1>5 DEF Comparisons
<1>7. Prompt(i, m, k[2]) \in PromptsOf(k)
  BY <1>1, <1>2, <1>4, <1>5 DEF Prompt, PromptsOf
<1> QED
  BY <1>3, <1>6, <1>7

(* Results of comparisons, of the first n synthesis runs.                  *)
ResultsUpTo(n, results) ==
  /\ DOMAIN results \subseteq Comparisons
  /\ \A k \in DOMAIN results :
       /\ results[k].prompt \in PromptsOf(k)
       /\ results[k].response \in 1..n
       /\ results[k].grade \in Grades \cup {"none"}

(* They are what the file and the process hold.                            *)
LEMMA ResultsHeld ==
  ASSUME EvaluationTypes
  PROVE  /\ ResultsUpTo(syntheses, comparisons.results)
         /\ ResultsUpTo(syntheses, evaluation.results)
         /\ syntheses \in Nat /\ MaxSyntheses \in Nat
BY EvaluationAssumption DEF EvaluationTypes, EvaluationTypeOK, IsResults, ResultsUpTo

(* Results stay of their comparisons when synthesis runs are started.      *)
LEMMA ResultsStay ==
  ASSUME NEW n \in Nat, NEW o \in Nat, n <= o, NEW results, ResultsUpTo(n, results)
  PROVE  ResultsUpTo(o, results)
<1>1. 1..n \subseteq 1..o
  OBVIOUS
<1> QED
  BY <1>1 DEF ResultsUpTo

(* Everything is generated: the types of what is saved then.               *)
LEMMA GeneratedTypes ==
  ASSUME EvaluationTypes, NEW plan, NEW results, Planned(plan),
         ResultsUpTo(syntheses', results), DOMAIN results = DOMAIN plan,
         Generated(plan, results), UNCHANGED reportsFile, syntheses' \in 1..MaxSyntheses
  PROVE  EvaluationTypes'
<1> DEFINE valid == ValidOnes(results)
<1>1. /\ valid \subseteq DOMAIN results
      /\ FinalStatus(results) \in {"complete", "complete_with_assessment_warnings"}
  BY DEF ValidOnes, FinalStatus
<1>2. /\ evaluation'.phase \in {"finished", "assessing"} /\ evaluation'.done = {}
      /\ evaluation'.plan = plan /\ evaluation'.results = results
      /\ evaluation'.assessed = valid
      /\ comparisons'.results = results
      /\ comparisons'.status \in {"awaiting_assessment", FinalStatus(results)}
  BY DEF Generated
<1> HIDE DEF valid
<1>3. EvaluationTypeOK'
  <2>1. IsResults(comparisons.results)' /\ IsResults(evaluation.results)'
    BY <1>2 DEF IsResults, ResultsUpTo
  <2>2. syntheses' \in 0..MaxSyntheses
    BY ResultsHeld
  <2> QED
    BY <1>1, <1>2, <2>1, <2>2 DEF EvaluationTypes, EvaluationTypeOK, Jobs
<1>4. syntheses' > 0
  BY ResultsHeld
<1> QED
  BY <1>2, <1>3, <1>4 DEF EvaluationTypes, Planned

(* A run is planned.                                                       *)
LEMMA StartTypes ==
  ASSUME EvaluationTypes, EvaluationInvariant, NEW limit \in DOMAIN Cases, StartSynthesis(limit)
  PROVE  EvaluationTypes'
<1> DEFINE m == IF limit < reportsFile.cases THEN limit ELSE reportsFile.cases
           plan == Plan(m)
           results == [k \in Reusable(plan) |-> comparisons.results[k]]
<1>1. /\ IF Reusable(plan) = DOMAIN plan
         THEN Generated(plan, results)
         ELSE /\ evaluation' = [phase |-> "generating", done |-> {}, plan |-> plan,
                                results |-> results, assessed |-> {}]
              /\ UNCHANGED comparisons
      /\ syntheses < MaxSyntheses /\ syntheses' = syntheses + 1
      /\ UNCHANGED reportsFile
  BY DEF StartSynthesis
<1>2. m \in Nat /\ m <= reportsFile.cases
  <2>1. limit \in Nat
    BY EvaluationAssumption
  <2>2. reportsFile.cases \in Nat
    BY EvaluationAssumption DEF EvaluationTypes, EvaluationTypeOK
  <2> QED
    BY <2>1, <2>2
<1> HIDE DEF m
<1>3. Planned(plan)
  BY <1>2, PlansAreOfCases
<1> HIDE DEF plan
<1>4. syntheses' \in 1..MaxSyntheses /\ syntheses' \in Nat /\ syntheses <= syntheses'
  BY <1>1, ResultsHeld
<1>5. ResultsUpTo(syntheses', results) /\ DOMAIN results = Reusable(plan)
      /\ DOMAIN results \subseteq DOMAIN plan
  <2>1. ResultsUpTo(syntheses', comparisons.results)
    BY <1>4, ResultsHeld, ResultsStay
  <2> QED
    BY <2>1 DEF ResultsUpTo, Reusable
<1> HIDE DEF results
<1>6. CASE Reusable(plan) = DOMAIN plan
  BY <1>1, <1>3, <1>4, <1>5, <1>6, GeneratedTypes
<1>7. CASE Reusable(plan) # DOMAIN plan
  <2>1. /\ evaluation' = [phase |-> "generating", done |-> {}, plan |-> plan,
                          results |-> results, assessed |-> {}]
        /\ UNCHANGED <<comparisons, reportsFile>>
    BY <1>1, <1>7
  <2>2. /\ evaluation'.phase = "generating" /\ evaluation'.done = {}
        /\ evaluation'.plan = plan /\ evaluation'.results = results
        /\ evaluation'.assessed = {}
    BY <2>1
  <2>3. IsResults(comparisons.results)' /\ IsResults(evaluation.results)'
    <3>1. ResultsUpTo(syntheses', comparisons.results)
      BY <1>4, ResultsHeld, ResultsStay
    <3> QED
      BY <1>5, <2>1, <2>2, <3>1 DEF IsResults, ResultsUpTo
  <2>4. syntheses' \in 0..MaxSyntheses /\ syntheses' > 0
    BY <1>4, ResultsHeld
  <2>5. EvaluationTypeOK'
    BY <1>5, <2>1, <2>2, <2>3, <2>4 DEF EvaluationTypes, EvaluationTypeOK, Jobs
  <2> QED
    BY <1>3, <2>1, <2>2, <2>4, <2>5 DEF EvaluationTypes, Planned
<1> QED
  BY <1>6, <1>7

(* A diagnosis is made.                                                    *)
LEMMA SynthesizeTypes ==
  ASSUME EvaluationTypes, EvaluationInvariant, NEW k, Synthesize(k)
  PROVE  EvaluationTypes'
<1> DEFINE made == [prompt |-> evaluation.plan[k], response |-> syntheses, grade |-> "none"]
           results == [j \in DOMAIN evaluation.results \cup {k} |->
                         IF j = k THEN made ELSE evaluation.results[j]]
           plan == evaluation.plan
<1>1. /\ evaluation.phase = "generating" /\ k \in DOMAIN plan /\ k \notin DOMAIN evaluation.results
      /\ IF DOMAIN results = DOMAIN plan
         THEN Generated(plan, results)
         ELSE /\ evaluation' = [evaluation EXCEPT !.results = results]
              /\ comparisons' = IF AtSave(Cardinality(DOMAIN results))
                                THEN [status |-> "generating", results |-> results]
                                ELSE comparisons
      /\ UNCHANGED <<reportsFile, syntheses>>
  BY DEF Synthesize
<1>2. /\ Planned(plan) /\ syntheses \in 1..MaxSyntheses
      /\ DOMAIN evaluation.results \subseteq DOMAIN plan
      /\ evaluation.assessed \subseteq DOMAIN evaluation.results
  BY <1>1, EvaluationAssumption DEF EvaluationTypes, EvaluationTypeOK
<1>3. /\ DOMAIN results = DOMAIN evaluation.results \cup {k}
      /\ results[k] = made
      /\ \A j \in DOMAIN evaluation.results : results[j] = evaluation.results[j]
  BY <1>1
<1> HIDE DEF results
<1>4. ResultsUpTo(syntheses, results)
  <2>1. k \in Comparisons /\ plan[k] \in PromptsOf(k)
    BY <1>1, <1>2 DEF Planned
  <2>2. /\ made.prompt = plan[k] /\ made.response \in 1..syntheses
        /\ made.grade \in Grades \cup {"none"}
    BY <1>2
  <2> HIDE DEF made
  <2> QED
    BY <1>3, <2>1, <2>2, ResultsHeld DEF ResultsUpTo
<1>5. CASE DOMAIN results = DOMAIN plan
  <2>1. syntheses' \in 1..MaxSyntheses /\ ResultsUpTo(syntheses', results)
    BY <1>1, <1>2, <1>4
  <2> HIDE DEF plan
  <2> QED
    BY <1>1, <1>2, <1>5, <2>1, GeneratedTypes
<1>6. CASE DOMAIN results # DOMAIN plan
  <2>1. /\ evaluation' = [evaluation EXCEPT !.results = results]
        /\ comparisons' \in {[status |-> "generating", results |-> results], comparisons}
    BY <1>1, <1>6
  <2>2. /\ evaluation'.phase = "generating" /\ evaluation'.done = evaluation.done
        /\ evaluation'.plan = plan /\ evaluation'.results = results
        /\ evaluation'.assessed = evaluation.assessed
    BY <1>1, <2>1 DEF EvaluationInvariant
  <2>3. IsResults(evaluation.results)'
    BY <1>1, <1>4, <2>2 DEF IsResults, ResultsUpTo
  <2>4. /\ IsResults(comparisons.results)'
        /\ comparisons'.status \in {"generating", comparisons.status}
    <3>1. CASE comparisons' = comparisons
      BY <1>1, <3>1, ResultsHeld DEF IsResults, ResultsUpTo
    <3>2. CASE comparisons' = [status |-> "generating", results |-> results]
      <4>1. comparisons'.results = results /\ comparisons'.status = "generating"
        BY <3>2
      <4> QED
        BY <1>1, <1>4, <4>1 DEF IsResults, ResultsUpTo
    <3> QED
      BY <2>1, <3>1, <3>2
  <2>5. EvaluationTypeOK'
    BY <1>1, <1>2, <1>3, <2>2, <2>3, <2>4 DEF EvaluationTypes, EvaluationTypeOK, Jobs
  <2> QED
    BY <1>1, <1>2, <2>2, <2>5 DEF EvaluationTypes, Planned
<1> QED
  BY <1>5, <1>6

(* A diagnosis is assessed.                                                *)
LEMMA AssessTypes ==
  ASSUME EvaluationTypes, EvaluationInvariant, NEW k, NEW grade \in Grades, Assess(k, grade)
  PROVE  EvaluationTypes'
<1> DEFINE results == [evaluation.results EXCEPT ![k].grade = grade]
           assessed == evaluation.assessed \cup {k}
<1>1. /\ evaluation.phase = "assessing"
      /\ k \in DOMAIN evaluation.results
      /\ IF assessed = DOMAIN results
         THEN /\ evaluation' = [evaluation EXCEPT !.phase = "finished", !.results = results,
                                                  !.assessed = assessed]
              /\ comparisons' = [status |-> FinalStatus(results), results |-> results]
         ELSE /\ evaluation' = [evaluation EXCEPT !.results = results, !.assessed = assessed]
              /\ comparisons' = IF AtSave(Cardinality(assessed))
                                THEN [status |-> "in_progress", results |-> results]
                                ELSE comparisons
      /\ UNCHANGED <<reportsFile, syntheses>>
  BY DEF Assess
<1>2. /\ WellFormed(evaluation.results)
      /\ Planned(evaluation.plan) /\ syntheses > 0
      /\ DOMAIN evaluation.results \subseteq DOMAIN evaluation.plan
      /\ evaluation.assessed \subseteq DOMAIN evaluation.results
  BY <1>1 DEF EvaluationInvariant, EvaluationTypes, EvaluationTypeOK
<1>3. /\ DOMAIN results = DOMAIN evaluation.results
      /\ \A j \in DOMAIN evaluation.results :
           /\ results[j].prompt = evaluation.results[j].prompt
           /\ results[j].response = evaluation.results[j].response
           /\ results[j].grade = IF j = k THEN grade ELSE evaluation.results[j].grade
  BY <1>1, <1>2, GradeResult
<1> HIDE DEF results
<1>4. ResultsUpTo(syntheses, results)
  BY <1>3, ResultsHeld DEF ResultsUpTo
<1>5. FinalStatus(results) \in {"complete", "complete_with_assessment_warnings"}
  BY DEF FinalStatus
<1>6. /\ evaluation'.phase \in {"assessing", "finished"} /\ evaluation'.done = evaluation.done
      /\ evaluation'.plan = evaluation.plan /\ evaluation'.results = results
      /\ evaluation'.assessed = assessed
  BY <1>1 DEF EvaluationInvariant
<1>7. IsResults(evaluation.results)'
  BY <1>1, <1>4, <1>6 DEF IsResults, ResultsUpTo
<1>8. /\ IsResults(comparisons.results)'
      /\ comparisons'.status \in {"in_progress", FinalStatus(results), comparisons.status}
  <2>1. CASE comparisons' = comparisons
    BY <1>1, <2>1, ResultsHeld DEF IsResults, ResultsUpTo
  <2>2. CASE \E status \in {"in_progress", FinalStatus(results)} :
               comparisons' = [status |-> status, results |-> results]
    <3>1. /\ comparisons'.results = results
          /\ comparisons'.status \in {"in_progress", FinalStatus(results)}
      BY <2>2
    <3> QED
      BY <1>1, <1>4, <3>1 DEF IsResults, ResultsUpTo
  <2> QED
    BY <1>1, <2>1, <2>2
<1>9. EvaluationTypeOK'
  BY <1>1, <1>2, <1>3, <1>5, <1>6, <1>7, <1>8 DEF EvaluationTypes, EvaluationTypeOK, Jobs
<1> QED
  BY <1>1, <1>2, <1>6, <1>9 DEF EvaluationTypes, Planned

(* What the steps of the phase "reports" and the end of a process leave of *)
(* a synthesis is nothing, or what it was.                                 *)
LEMMA OthersTypes ==
  ASSUME EvaluationTypes, UNCHANGED <<comparisons, syntheses>>,
         reportsFile' = [cases |-> reportsFile'.cases, run |-> reportsFile'.run,
                         reports |-> reportsFile'.reports],
         reportsFile'.cases \in 0..Len(Cases), reportsFile'.run \in 0..MaxReportRuns,
         reportsFile'.reports \subseteq Jobs', evaluation'.done \subseteq Jobs',
         evaluation'.phase \in {"idle", "reporting", "reviewing"},
         \/ /\ evaluation'.plan = <<>> /\ evaluation'.results = <<>>
            /\ evaluation'.assessed = {}
         \/ /\ evaluation'.plan = evaluation.plan /\ evaluation'.results = evaluation.results
            /\ evaluation'.assessed = evaluation.assessed
  PROVE  EvaluationTypes'
<1>1. DOMAIN <<>> = {}
  OBVIOUS
<1>2. IsResults(comparisons.results)'
  BY ResultsHeld DEF IsResults, ResultsUpTo
<1>3. IsResults(evaluation.results)'
  BY <1>1, ResultsHeld DEF IsResults, ResultsUpTo
<1>4. /\ (DOMAIN evaluation.results \subseteq DOMAIN evaluation.plan)'
      /\ (evaluation.assessed \subseteq DOMAIN evaluation.results)'
      /\ Planned(evaluation.plan)'
  BY <1>1 DEF EvaluationTypes, EvaluationTypeOK, Planned
<1>5. EvaluationTypeOK'
  BY <1>2, <1>3, <1>4 DEF EvaluationTypes, EvaluationTypeOK
<1> QED
  BY <1>4, <1>5 DEF EvaluationTypes

(* Fields of a process that is not running.                                *)
LEMMA IdleFields ==
  /\ IdleProcess.done = {} /\ IdleProcess.plan = <<>> /\ IdleProcess.assessed = {}
  /\ IdleProcess.phase = "idle" /\ IdleProcess.results = <<>>
BY DEF IdleProcess, NoResults

(* The reports are made and reviewed.                                      *)
LEMMA ReportsTypes ==
  ASSUME EvaluationTypes, EvaluationInvariant, NEW job, Investigate(job) \/ Review(job)
  PROVE  EvaluationTypes'
<1> DEFINE done == evaluation.done \cup {job}
<1>1. /\ UNCHANGED <<comparisons, syntheses>>
      /\ evaluation.phase \in {"reporting", "reviewing"}
      /\ job \in Jobs
      /\ \/ evaluation' = [evaluation EXCEPT !.phase = "reviewing", !.done = {}]
         \/ evaluation' = [evaluation EXCEPT !.done = done]
         \/ evaluation' = IdleProcess
      /\ reportsFile' \in {[reportsFile EXCEPT !.reports = done], reportsFile}
  BY DEF Investigate, Review
<1>2. done \subseteq Jobs /\ reportsFile.reports \subseteq Jobs
  BY <1>1 DEF EvaluationTypes, EvaluationTypeOK
<1> HIDE DEF done
<1>3. /\ reportsFile' = [cases |-> reportsFile'.cases, run |-> reportsFile'.run,
                         reports |-> reportsFile'.reports]
      /\ reportsFile'.cases = reportsFile.cases /\ reportsFile'.run = reportsFile.run
      /\ reportsFile'.reports \in {done, reportsFile.reports}
  BY <1>1 DEF EvaluationTypes
<1>4. Jobs' = Jobs
  BY <1>3 DEF Jobs
<1>5. /\ evaluation'.phase \in {"idle", "reporting", "reviewing"}
      /\ evaluation'.done \in {{}, done}
      /\ \/ /\ evaluation'.plan = <<>> /\ evaluation'.results = <<>>
            /\ evaluation'.assessed = {}
         \/ /\ evaluation'.plan = evaluation.plan /\ evaluation'.results = evaluation.results
            /\ evaluation'.assessed = evaluation.assessed
  <2>1. CASE evaluation' = IdleProcess
    BY <2>1, IdleFields
  <2>2. CASE evaluation' = [evaluation EXCEPT !.phase = "reviewing", !.done = {}]
    BY <2>2 DEF EvaluationInvariant
  <2>3. CASE evaluation' = [evaluation EXCEPT !.done = done]
    BY <1>1, <2>3 DEF EvaluationInvariant
  <2> QED
    BY <1>1, <2>1, <2>2, <2>3
<1>6. reportsFile.cases \in 0..Len(Cases) /\ reportsFile.run \in 0..MaxReportRuns
  BY DEF EvaluationTypes, EvaluationTypeOK
<1>7. reportsFile'.reports \subseteq Jobs' /\ evaluation'.done \subseteq Jobs'
  BY <1>2, <1>3, <1>4, <1>5
<1> QED
  BY <1>1, <1>3, <1>5, <1>6, <1>7, OthersTypes

(* The file of an earlier run is replaced.                                 *)
LEMMA StartReportsTypes ==
  ASSUME EvaluationTypes, NEW limit \in DOMAIN Cases, StartReports(limit)
  PROVE  EvaluationTypes'
<1>1. /\ UNCHANGED <<comparisons, syntheses>>
      /\ reportsFile.run < MaxReportRuns
      /\ reportsFile' = [cases |-> limit, run |-> reportsFile.run + 1, reports |-> {}]
      /\ evaluation' = [IdleProcess EXCEPT !.phase = "reporting"]
  BY DEF StartReports
<1>2. limit \in 0..Len(Cases)
  BY EvaluationAssumption
<1>3. reportsFile.run + 1 \in 0..MaxReportRuns
  <2>1. reportsFile.run \in 0..MaxReportRuns
    BY DEF EvaluationTypes, EvaluationTypeOK
  <2> QED
    BY <1>1, <2>1, EvaluationAssumption
<1>4. /\ reportsFile'.cases = limit /\ reportsFile'.run = reportsFile.run + 1
      /\ reportsFile'.reports = {}
  BY <1>1
<1>5. /\ evaluation'.phase = "reporting" /\ evaluation'.done = {} /\ evaluation'.plan = <<>>
      /\ evaluation'.results = <<>> /\ evaluation'.assessed = {}
  BY <1>1 DEF IdleProcess, NoResults
<1> QED
  BY <1>1, <1>2, <1>3, <1>4, <1>5, OthersTypes

(* The files and the process keep their types through every kill and every *)
(* rerun, whatever the limits of the runs are.                             *)
THEOREM EvaluationTypeCorrect == EvaluationSpec => []EvaluationTypeOK
<1>1. EvaluationInit => EvaluationTypes
  <2> SUFFICES ASSUME EvaluationInit PROVE EvaluationTypes
    OBVIOUS
  <2>1. /\ reportsFile = [cases |-> 0, run |-> 0, reports |-> {}]
        /\ comparisons.status = "none" /\ comparisons.results = <<>>
        /\ evaluation = IdleProcess /\ syntheses = 0
    BY DEF EvaluationInit, NoResults
  <2>2. DOMAIN <<>> = {} /\ Len(Cases) \in Nat
    BY EvaluationAssumption
  <2>3. IsResults(comparisons.results) /\ IsResults(evaluation.results)
    BY <2>1, <2>2, IdleFields DEF IsResults
  <2>4. EvaluationTypeOK
    BY <2>1, <2>2, <2>3, IdleFields, EvaluationAssumption DEF EvaluationTypeOK
  <2> QED
    BY <2>1, <2>2, <2>4, IdleFields DEF EvaluationTypes, Planned
<1>2. EvaluationTypes /\ EvaluationInvariant /\ [EvaluationNext]_evaluationVars => EvaluationTypes'
  <2> SUFFICES ASSUME EvaluationTypes, EvaluationInvariant, [EvaluationNext]_evaluationVars
               PROVE  EvaluationTypes'
    OBVIOUS
  <2>1. CASE \E limit \in DOMAIN Cases : StartReports(limit)
    BY <2>1, StartReportsTypes
  <2>2. CASE \E job \in Range(Cases) \X Roles : Investigate(job) \/ Review(job)
    BY <2>2, ReportsTypes
  <2>3. CASE \E limit \in DOMAIN Cases : StartSynthesis(limit)
    BY <2>3, StartTypes
  <2>4. CASE \E k \in Comparisons : Synthesize(k)
    BY <2>4, SynthesizeTypes
  <2>5. CASE \E k \in Comparisons, grade \in Grades : Assess(k, grade)
    BY <2>5, AssessTypes
  <2>6. CASE EndProcess
    <3>1. evaluation' = IdleProcess /\ UNCHANGED <<reportsFile, comparisons, syntheses>>
      BY <2>6 DEF EndProcess
    <3>2. /\ reportsFile = [cases |-> reportsFile.cases, run |-> reportsFile.run,
                            reports |-> reportsFile.reports]
          /\ reportsFile.cases \in 0..Len(Cases) /\ reportsFile.run \in 0..MaxReportRuns
          /\ reportsFile.reports \subseteq Jobs
      BY DEF EvaluationTypes, EvaluationTypeOK
    <3>3. Jobs' = Jobs
      BY <3>1 DEF Jobs
    <3> QED
      BY <3>1, <3>2, <3>3, IdleFields, OthersTypes
  <2>7. CASE UNCHANGED evaluationVars
    BY <2>7 DEF evaluationVars, EvaluationTypes, EvaluationTypeOK, Planned, IsResults, Jobs
  <2> QED
    BY <2>1, <2>2, <2>3, <2>4, <2>5, <2>6, <2>7 DEF EvaluationNext
<1>3. EvaluationInit => EvaluationInvariant
  BY EvaluationInvariantInit
<1>4. EvaluationInvariant /\ [EvaluationNext]_evaluationVars => EvaluationInvariant'
  BY EvaluationInvariantNext
<1>5. EvaluationTypes => EvaluationTypeOK
  BY DEF EvaluationTypes
<1> QED
  BY <1>1, <1>2, <1>3, <1>4, <1>5, PTL DEF EvaluationSpec

=============================================================================
