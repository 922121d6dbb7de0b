--------------------------- MODULE ComponentsProofs ---------------------------
(***************************************************************************)
(* Theorems of the components in one behaviour: as they share no variable, *)
(* the composition is for each of them a behaviour of its own              *)
(* specification, and keeps what that promises, for all values of all      *)
(* their constants.                                                        *)
(***************************************************************************)
EXTENDS MCComponents, ConnectorConfigProofs, ObservationProofs, RemediationProofs,
        KnowledgeBaseProofs, DiagnosisProofs

(* Without its fairness, which only escalations need.                      *)
IngestionSafety == IngestionInit /\ [][IngestionNext]_ingestionVars

(* Live ingestion keeps its types and its invariant however unfair its     *)
(* tasks are scheduled.                                                    *)
LEMMA IngestionSafetyInvariant == IngestionSafety => [](Typed /\ IngestionInv)
<1>1. (Typed /\ IngestionInv) /\ [IngestionNext]_ingestionVars => (Typed /\ IngestionInv)'
  BY IngestionInvNext
<1> QED
  BY <1>1, IngestionInvInit, PTL DEF IngestionSafety

-----------------------------------------------------------------------------
(* The steps a component may take in the composition, and those it takes.  *)

Steps ==
  /\ [ConnectorNext]_connectorVars
  /\ [IngestionNext]_ingestionVars
  /\ [IntakeNext]_intakeVars
  /\ [VerificationNext]_verificationVars
  /\ [AutoNext]_autoVars
  /\ [KnowledgeNext]_knowledgeVars
  /\ [FusionNext]_fusionVars
  /\ [DiagnosisNext]_diagnosisVars
  /\ [CheckpointNext]_checkpointVars
  /\ [EvaluationNext]_evaluationVars

(* A step of the composition is one of the component whose part runs, and  *)
(* leaves every other component as it is.                                  *)
LEMMA PartsStep == [ComponentsNext]_componentsVars => Steps
<1> SUFFICES ASSUME [ComponentsNext]_componentsVars PROVE Steps
  OBVIOUS
<1>1. CASE ConnectorPart
  BY <1>1 DEF ConnectorPart, Steps
<1>2. CASE IngestionPart
  BY <1>2 DEF IngestionPart, Steps
<1>3. CASE OverloadPart
  BY <1>3 DEF OverloadPart, Steps
<1>4. CASE MonitoringPart
  BY <1>4 DEF MonitoringPart, Steps, IntakeNext
<1>5. CASE WebhookPart
  BY <1>5 DEF WebhookPart, Steps, IntakeNext
<1>6. CASE VerificationPart
  BY <1>6 DEF VerificationPart, Steps
<1>7. CASE AutoPart
  BY <1>7 DEF AutoPart, Steps
<1>8. CASE IngestingPart
  BY <1>8 DEF IngestingPart, Steps, KnowledgeNext
<1>9. CASE ScoringPart
  BY <1>9 DEF ScoringPart, Steps, KnowledgeNext
<1>10. CASE ServingPart
  BY <1>10 DEF ServingPart, Steps, KnowledgeNext
<1>11. CASE FusionPart
  BY <1>11 DEF FusionPart, Steps
<1>12. CASE DiagnosisPart
  BY <1>12 DEF DiagnosisPart, Steps
<1>13. CASE CheckpointPart
  BY <1>13 DEF CheckpointPart, Steps
<1>14. CASE EvaluationPart
  BY <1>14 DEF EvaluationPart, Steps
<1>15. CASE UNCHANGED componentsVars
  BY <1>15 DEF componentsVars, Steps
<1> QED
  BY <1>1, <1>2, <1>3, <1>4, <1>5, <1>6, <1>7, <1>8, <1>9, <1>10,
     <1>11, <1>12, <1>13, <1>14, <1>15
     DEF ComponentsNext

(* The composition is, for each of the components, a behaviour of the      *)
(* component's specification: whatever is chosen to run, no part reaches   *)
(* into another.                                                           *)
THEOREM EachComponentBehaves ==
  ComponentsSpec =>
    /\ ConnectorSpec
    /\ IngestionSafety
    /\ IntakeSpec
    /\ VerificationSpec
    /\ AutoSpec
    /\ KnowledgeSpec
    /\ FusionSpec
    /\ DiagnosisSpec
    /\ CheckpointSpec
    /\ EvaluationSpec
<1>1. ComponentsInit =>
        /\ ConnectorInit /\ IngestionInit /\ IntakeInit /\ VerificationInit /\ AutoInit
        /\ KnowledgeInit /\ FusionInit /\ DiagnosisInit /\ CheckpointInit /\ EvaluationInit
  BY DEF ComponentsInit
<1>2. [ComponentsNext]_componentsVars =>
        /\ [ConnectorNext]_connectorVars /\ [IngestionNext]_ingestionVars /\ [IntakeNext]_intakeVars
        /\ [VerificationNext]_verificationVars /\ [AutoNext]_autoVars /\ [KnowledgeNext]_knowledgeVars
        /\ [FusionNext]_fusionVars /\ [DiagnosisNext]_diagnosisVars
        /\ [CheckpointNext]_checkpointVars /\ [EvaluationNext]_evaluationVars
  BY PartsStep DEF Steps
<1> QED
  BY <1>1, <1>2, PTL
     DEF ComponentsSpec, ConnectorSpec, IngestionSafety, IntakeSpec, VerificationSpec, AutoSpec,
         KnowledgeSpec, FusionSpec, DiagnosisSpec, CheckpointSpec, EvaluationSpec

-----------------------------------------------------------------------------
(* Every component's variables keep their types.                           *)
THEOREM ComponentsTypeCorrect == ComponentsSpec => []ComponentsTypeOK
<1>1. Typed => IngestionTypeOK
  BY TypedIsTypeOK
<1>2. ComponentsSpec => []IngestionTypeOK
  BY <1>1, EachComponentBehaves, IngestionSafetyInvariant, PTL
<1>3. ComponentsSpec => []ConnectorTypeOK /\ []IntakeTypeOK /\ []VerificationTypeOK /\ []AutoTypeOK
  BY EachComponentBehaves, ConnectorTypeCorrect, IntakeTypeCorrect, VerificationTypeCorrect,
     AutoTypeCorrect
<1>4. ComponentsSpec => []KnowledgeTypeOK /\ []FusionTypeOK /\ []DiagnosisTypeOK
                        /\ []CheckpointTypeOK /\ []EvaluationTypeOK
  BY EachComponentBehaves, KnowledgeTypeCorrect, FusionTypeCorrect, DiagnosisTypeCorrect,
     CheckpointTypeCorrect, EvaluationTypeCorrect
<1>5. ConnectorTypeOK /\ IngestionTypeOK /\ IntakeTypeOK /\ VerificationTypeOK /\ AutoTypeOK
      /\ KnowledgeTypeOK /\ FusionTypeOK /\ DiagnosisTypeOK /\ CheckpointTypeOK /\ EvaluationTypeOK
      => ComponentsTypeOK
  BY DEF ComponentsTypeOK
<1> QED
  BY <1>2, <1>3, <1>4, <1>5, PTL

(* What each component promises of itself holds in the composition: the    *)
(* safety properties of the run of all of them, for every value of the     *)
(* constants.                                                              *)
THEOREM ComponentsKeepTheirPromises ==
  ComponentsSpec =>
    /\ []LeakNeedsOverlap
    /\ []SettingsMatchFile
    /\ []RunningAsConfigured
    /\ AcceptedActivationRuns
    /\ []BaselineGoesForward
    /\ []PassedByLessThanAStep
    /\ []OvershootIsOneCall
    /\ []RedeliveryRepeatsNothing
    /\ []AcceptedLeavesNoneOut
    /\ []RecoveryWasObserved
    /\ []HourlyLimit
    /\ []ScoresNeedCrossing
    /\ []ServedIsVetted
    /\ OnlyFailedLeftUnscored
    /\ []FusionRespectsLegs
    /\ []GapsAreNamed
    /\ []ConfidenceIsGrounded
    /\ []PoolsLostBySetupOnly
    /\ []ComparisonsAreCurrent
    /\ SavedResultsSurvive
<1>1. ComponentsSpec =>
        []LeakNeedsOverlap /\ []SettingsMatchFile /\ []RunningAsConfigured /\ AcceptedActivationRuns
  BY EachComponentBehaves, LeakOnlyByOverlap, SettingsAreTheFile, RunsAlwaysAsConfigured,
     AcceptedActivationAlwaysRuns
<1>2. ComponentsSpec => []BaselineGoesForward /\ []PassedByLessThanAStep
  <2>1. IngestionSafety => []BaselineGoesForward
    BY IngestionSafetyInvariant, InvariantGoesForward, PTL
  <2>2. IngestionSafety => []PassedByLessThanAStep
    BY IngestionSafetyInvariant, InvariantComesClose, PTL
  <2> QED
    BY <2>1, <2>2, EachComponentBehaves
<1>3. ComponentsSpec =>
        /\ []OvershootIsOneCall /\ []RedeliveryRepeatsNothing /\ []AcceptedLeavesNoneOut
        /\ []RecoveryWasObserved /\ []HourlyLimit
  BY EachComponentBehaves, OvershootIsAlwaysOneCall, RedeliveryAlwaysRepeatsNothing,
     AcceptedAlwaysLeavesNoneOut, RecoveryIsAlwaysObserved, HourlyLimitAlwaysHolds
<1>4. ComponentsSpec =>
        []ScoresNeedCrossing /\ []ServedIsVetted /\ OnlyFailedLeftUnscored /\ []FusionRespectsLegs
  BY EachComponentBehaves, ScoresOnlyCross, ServedIsAlwaysVetted, OnlyFailedAreLeftUnscored,
     FusionAlwaysRespectsLegs
<1>5. ComponentsSpec =>
        /\ []GapsAreNamed /\ []ConfidenceIsGrounded /\ []PoolsLostBySetupOnly
        /\ []ComparisonsAreCurrent /\ SavedResultsSurvive
  BY EachComponentBehaves, GapsAreAlwaysNamed, ConfidenceIsAlwaysGrounded, PoolsAreLostBySetupOnly,
     ComparisonsAreAlwaysCurrent, SavedResultsAlwaysSurvive
<1> QED
  BY <1>1, <1>2, <1>3, <1>4, <1>5

=============================================================================
