------------------------ MODULE IncidentLifecycleProofs ------------------------
(***************************************************************************)
(* Theorems of the incident lifecycle for every set of workers, requests,  *)
(* proposals and contexts and every bound: the types, what the approval    *)
(* requests and the pipeline may run (ClaimInv), that a critical incident  *)
(* is left alone (CriticalInv), and that a recovery has evidence           *)
(* (EvidenceInv). What holds only as long as nothing undoes a claim, which *)
(* is always the case for one worker without feedback, rests on            *)
(* OneClaimInv; that every execution is in the record when all is at rest, *)
(* and that the lifecycle implements the contract with the operators, on   *)
(* LedgerInv; that an incident in progress is in the hands of a task that  *)
(* can move, on Carried.                                                   *)
(***************************************************************************)
EXTENDS IncidentLifecycle, SequenceTheorems, FiniteSetTheorems, TLAPS

(* Plans are sequences of at most MaxPlan proposals.                       *)
LEMMA PlanLength ==
  ASSUME NEW p \in Plans
  PROVE  /\ Len(p) \in 0..MaxPlan
         /\ \A i \in 1..Len(p) : p[i] \in Proposals
<1>1. PICK n \in 0..MaxPlan : p \in [1..n -> Proposals]
  BY DEF Plans
<1>2. n \in Nat
  BY LifecycleAssumption
<1>3. p \in Seq(Proposals) /\ Len(p) = n
  BY <1>1, <1>2, SeqDef, LenProperties
<1> QED
  BY <1>1, <1>3

(* <<>> is a plan: a diagnosis may recommend nothing.                      *)
LEMMA EmptyPlan == <<>> \in Plans
<1>1. <<>> \in [1..0 -> Proposals]
  OBVIOUS
<1> QED
  BY <1>1, LifecycleAssumption DEF Plans

(* The initial state of every variable has its type.                       *)
LEMMA TypeInit == Init => TypeOK
<1> SUFFICES ASSUME Init PROVE TypeOK
  OBVIOUS
<1> USE LifecycleAssumption
<1>1. NoRecord \in Record
  BY DEF NoRecord, Record, Statuses, ResultStatuses
<1>2. store \in Record /\ copies \in [CopyIds -> Record]
  BY <1>1 DEF Init
<1>3. pipe \in PipeState
  BY DEF Init, PipeState, PipeStages, NoRecord, ResultStatuses, Controls, Autonomy
<1>4. plan \in Plans
  BY EmptyPlan DEF Init
<1>5. requests \in [Requests -> RequestState]
  BY DEF Init, RequestState, RequestStages
<1> QED
  BY <1>2, <1>3, <1>4, <1>5 DEF Init, TypeOK

(* The operators that make records make records.                           *)
LEMMA RecordTypes ==
  ASSUME NEW rec \in Record
  PROVE  /\ \A status \in Statuses : [rec EXCEPT !.status = status] \in Record
         /\ \A s \in Slots \cup {0}, result \in ResultStatuses, status \in Statuses :
              [rec EXCEPT !.status = status, !.results[s] = result] \in Record
         /\ \A outcome \in Outcomes : Settle(rec, outcome) \in Record
<1>1. \A status \in Statuses : [rec EXCEPT !.status = status] \in Record
  BY DEF Record
<1>2. \A s \in Slots \cup {0}, result \in ResultStatuses, status \in Statuses :
              [rec EXCEPT !.status = status, !.results[s] = result] \in Record
  BY DEF Record
<1>3. \A outcome \in Outcomes : Settle(rec, outcome) \in Record
  BY DEF Record, Settle, Statuses
<1> QED
  BY <1>1, <1>2, <1>3

(* Recording the result of the next action keeps the pipeline's type.      *)
LEMMA ResultTypes ==
  ASSUME NEW p \in PipeState, NEW result \in ResultStatuses
  PROVE  /\ [p EXCEPT !.results[p.next] = result, !.next = @ + 1] \in PipeState
         /\ [p EXCEPT !.at = "acting", !.results[p.next] = result, !.next = @ + 1] \in PipeState
<1>1. [p.results EXCEPT ![p.next] = result] \in [Slots -> ResultStatuses]
  BY DEF PipeState
<1>2. p.next + 1 \in Nat \ {0}
  BY DEF PipeState
<1>3. [p EXCEPT !.results[p.next] = result, !.next = @ + 1] \in PipeState
  BY <1>1, <1>2 DEF PipeState
<1>4. [p EXCEPT !.at = "acting", !.results[p.next] = result, !.next = @ + 1] \in PipeState
  BY <1>1, <1>2 DEF PipeState, PipeStages
<1> QED
  BY <1>3, <1>4

(* The steps of the pipeline keep every variable in its type.              *)
LEMMA PipelineTypes ==
  ASSUME TypeOK, PipeNext \/ PipeFails
  PROVE  TypeOK'
<1> USE LifecycleAssumption
<1>1. CASE Detect
  <2>1. [NoRecord EXCEPT !.status = "detected"] \in Record
    BY DEF NoRecord, Record, Statuses, ResultStatuses
  <2> QED
    BY <1>1, <2>1 DEF TypeOK, Detect, PipeGoes, PipeSaves, PipeState, PipeStages, CopyIds
<1>2. CASE Investigate
  BY <1>2 DEF TypeOK, Investigate, PipeGoes, PipeSaves, PipeState, PipeStages, CopyIds, Record, Statuses
<1>3. CASE Diagnose
  <2>1. pipe' \in PipeState
    BY <1>3 DEF TypeOK, Diagnose, PipeState, PipeStages
  <2>2. plan' \in Plans
    BY <1>3, EmptyPlan DEF Diagnose
  <2>3. store' \in Record /\ copies' \in [CopyIds -> Record]
    BY <1>3 DEF TypeOK, Diagnose, PipeSaves, CopyIds, Record, Statuses
  <2> QED
    BY <1>3, <2>1, <2>2, <2>3 DEF TypeOK, Diagnose
<1>4. CASE StartExecution
  <2>1. pipe' \in PipeState
    BY <1>4 DEF TypeOK, StartExecution, PipeGoes, PipeState, PipeStages
  <2>2. copies' \in [CopyIds -> Record]
    <3>1. \A status \in Statuses :
            [copies EXCEPT !["pipeline"].status = status] \in [CopyIds -> Record]
      BY RecordTypes DEF TypeOK, CopyIds
    <3> QED
      BY <1>4, <3>1 DEF TypeOK, StartExecution, Statuses
  <2> QED
    BY <1>4, <2>1, <2>2 DEF TypeOK, StartExecution
<1>5. CASE HoldBack
  <2>1. PICK result \in ResultStatuses :
          pipe' = [pipe EXCEPT !.results[pipe.next] = result, !.next = @ + 1]
    BY <1>5 DEF HoldBack, ResultOf, ResultStatuses
  <2>2. pipe' \in PipeState
    BY <2>1, ResultTypes DEF TypeOK
  <2> QED
    BY <1>5, <2>2 DEF TypeOK, HoldBack
<1>6. CASE AutoTrigger
  <2>1. pipe' \in PipeState
    BY <1>6 DEF TypeOK, AutoTrigger, PipeGoes, PipeState, PipeStages
  <2>2. autoRuns' = autoRuns \/ autoRuns' = [autoRuns EXCEPT ![pipe.next] = @ + 1]
    BY <1>6 DEF AutoTrigger
  <2>3. autoRuns' \in [Slots -> Nat]
    BY <2>2 DEF TypeOK
  <2> QED
    BY <1>6, <2>1, <2>3 DEF TypeOK, AutoTrigger
<1>7. CASE AutoReturn
  <2>1. PICK result \in ResultStatuses :
          pipe' = [pipe EXCEPT !.at = "acting", !.results[pipe.next] = result, !.next = @ + 1]
    BY <1>7 DEF AutoReturn, TriggerStatuses, ResultStatuses, WorkflowStatuses
  <2>2. pipe' \in PipeState
    BY <2>1, ResultTypes DEF TypeOK, PipeStages
  <2> QED
    BY <1>7, <2>2 DEF TypeOK, AutoReturn
<1>8. CASE Summarise
  <2>1. PICK status \in Statuses :
          copies' = [copies EXCEPT !["pipeline"] =
                       [[copies["pipeline"] EXCEPT !.results = pipe.results] EXCEPT !.status = status]]
    BY <1>8 DEF Summarise, StatusAfter, Statuses
  <2>2. pipe.results \in [Slots -> ResultStatuses]
    BY DEF TypeOK, PipeState
  <2>3. copies' \in [CopyIds -> Record]
    BY <2>1, <2>2 DEF TypeOK, CopyIds, Record
  <2>4. pipe' \in PipeState
    BY <1>8 DEF TypeOK, Summarise, PipeGoes, PipeState, PipeStages
  <2> QED
    BY <1>8, <2>3, <2>4 DEF TypeOK, Summarise
<1>9. CASE AutoVerify
  <2>1. PICK outcome \in Outcomes :
          copies' = [copies EXCEPT !["pipeline"] = Settle(copies["pipeline"], outcome)]
    BY <1>9 DEF AutoVerify, VerifyOutcomes, Outcomes
  <2>2. copies' \in [CopyIds -> Record]
    BY <2>1, RecordTypes DEF TypeOK, CopyIds
  <2>3. pipe' \in PipeState
    BY <1>9 DEF TypeOK, AutoVerify, PipeGoes, PipeState, PipeStages
  <2> QED
    BY <1>9, <2>2, <2>3 DEF TypeOK, AutoVerify
<1>10. CASE SaveOutcome
  BY <1>10 DEF TypeOK, SaveOutcome, PipeGoes, PipeSaves, PipeState, PipeStages, CopyIds
<1>11. CASE SaveBrief
  BY <1>11 DEF TypeOK, SaveBrief, PipeGoes, PipeSaves, PipeState, PipeStages, CopyIds
<1>12. CASE Close
  BY <1>12 DEF TypeOK, Close, PipeGoes, PipeState, PipeStages, CopyIds
<1>13. CASE PipeFails
  <2>1. pipe' \in PipeState
    BY <1>13 DEF TypeOK, PipeFails, PipeState, PipeStages
  <2>2. budget' \in [crashes : Nat, failures : Nat, feedback : Nat, changes : Nat]
    <3>1. budget' = [budget EXCEPT !.failures = @ + 1]
      BY <1>13 DEF PipeFails
    <3> QED
      BY <3>1 DEF TypeOK
  <2> QED
    BY <1>13, <2>1, <2>2 DEF TypeOK, PipeFails
<1> QED
  BY <1>1, <1>2, <1>3, <1>4, <1>5, <1>6, <1>7, <1>8, <1>9, <1>10, <1>11, <1>12, <1>13
  DEF PipeNext

(* The steps of an approval request after its claim keep the types.        *)
LEMMA RequestTypes ==
  ASSUME TypeOK, NEW r \in Requests,
         RequestNext(r) \/ RequestFails(r) \/ \E w \in Workers, approved \in BOOLEAN : Claim(r, w, approved)
  PROVE  TypeOK'
<1> USE LifecycleAssumption
<1>1. CASE \E w \in Workers, approved \in BOOLEAN : Claim(r, w, approved)
  <2>1. PICK w \in Workers, approved \in BOOLEAN : Claim(r, w, approved)
    BY <1>1
  <2>2. \A s \in Slots : ClaimedRecord(s, approved) \in Record
    BY RecordTypes DEF ClaimedRecord, TypeOK, Statuses, ResultStatuses
  <2>3. store' \in Record /\ copies' \in [CopyIds -> Record]
    BY <2>1, <2>2 DEF Claim, TypeOK, CopyIds
  <2> QED
    BY <2>1, <2>3 DEF Claim, TypeOK, StageAfterClaim, RequestState, RequestStages, CopyIds
<1>2. CASE TriggerApproved(r)
  BY <1>2 DEF TypeOK, TriggerApproved, RequestGoes, RequestState, RequestStages
<1>3. CASE DenyApproved(r)
  <2>1. copies[r] \in Record
    BY DEF TypeOK, CopyIds
  <2>2. store' \in Record /\ copies' \in [CopyIds -> Record]
    BY <1>3, <2>1 DEF DenyApproved, TypeOK, CopyIds, Record, Statuses, ResultStatuses
  <2> QED
    BY <1>3, <2>2 DEF TypeOK, DenyApproved, RequestGoes, RequestState, RequestStages, CopyIds
<1>4. CASE ApprovedReturn(r)
  <2>1. copies' \in [CopyIds -> Record]
    <3>1. PICK status \in TriggerStatuses :
            copies' = [copies EXCEPT ![r] =
                         [@ EXCEPT !.status = "verifying",
                                   !.results[requests[r].slot] =
                                      IF status = "success" THEN "success" ELSE "failed"]]
      BY <1>4 DEF ApprovedReturn
    <3>2. (IF status = "success" THEN "success" ELSE "failed") \in ResultStatuses
      BY DEF ResultStatuses, WorkflowStatuses
    <3> QED
      BY <3>1, <3>2, RecordTypes DEF TypeOK, CopyIds, Statuses, RequestState
  <2> QED
    BY <1>4, <2>1 DEF TypeOK, ApprovedReturn, RequestGoes, RequestState, RequestStages
<1>5. CASE ApprovedVerify(r)
  <2>1. PICK outcome \in Outcomes :
          /\ copies' = [copies EXCEPT ![r] = Settle(copies[r], outcome)]
          /\ active' = [active EXCEPT ![requests[r].worker] =
                          IF outcome = "verified_recovery" THEN "none" ELSE r]
    BY <1>5 DEF ApprovedVerify, VerifyOutcomes, Outcomes
  <2>2. copies' \in [CopyIds -> Record] /\ active' \in [Workers -> CopyIds \cup {"none"}]
    BY <2>1, RecordTypes DEF TypeOK, CopyIds
  <2>3. requests' \in [Requests -> RequestState]
    <3>1. requests' = [requests EXCEPT ![r].at = "saving"]
      BY <1>5 DEF ApprovedVerify, RequestGoes
    <3> QED
      BY <3>1 DEF TypeOK, RequestState, RequestStages
  <2> QED
    BY <1>5, <2>2, <2>3 DEF TypeOK, ApprovedVerify
<1>6. CASE SaveApproved(r)
  BY <1>6 DEF TypeOK, SaveApproved, RequestGoes, RequestState, RequestStages, CopyIds
<1>7. CASE RequestFails(r)
  BY <1>7 DEF TypeOK, RequestFails, RequestGoes, RequestState, RequestStages
<1> QED
  BY <1>1, <1>2, <1>3, <1>4, <1>5, <1>6, <1>7 DEF RequestNext

(* Claims, failures, feedback, control changes and restarts keep the       *)
(* types.                                                                  *)
LEMMA WorldTypes ==
  ASSUME TypeOK, UpdateControls \/ \E w \in Workers : Feedback(w) \/ CrashRestart(w)
  PROVE  TypeOK'
<1> USE LifecycleAssumption
<1>1. CASE UpdateControls
  BY <1>1 DEF TypeOK, UpdateControls
<1>2. ASSUME NEW w \in Workers, Feedback(w) PROVE TypeOK'
  BY <1>2 DEF TypeOK, Feedback, SeenBy, CopyIds
<1>3. ASSUME NEW w \in Workers, CrashRestart(w) PROVE TypeOK'
  <2>1. NoRecord \in Record
    BY DEF NoRecord, Record, Statuses, ResultStatuses
  <2>2. copies' \in [CopyIds -> Record]
    BY <1>3, <2>1 DEF CrashRestart, TypeOK, CopyIds
  <2>3. active' \in [Workers -> CopyIds \cup {"none"}]
    BY <1>3 DEF CrashRestart, TypeOK, CopyIds
  <2>4. requests' \in [Requests -> RequestState]
    BY <1>3 DEF CrashRestart, TypeOK, RequestState, RequestStages
  <2>5. pipe' \in PipeState
    BY <1>3 DEF CrashRestart, TypeOK, PipeState, PipeStages
  <2> QED
    BY <1>3, <2>2, <2>3, <2>4, <2>5 DEF CrashRestart, TypeOK
<1> QED
  BY <1>1, <1>2, <1>3

(* Every step keeps the types.                                             *)
LEMMA TypeStep == TypeOK /\ [Next]_vars => TypeOK'
<1> SUFFICES ASSUME TypeOK, [Next]_vars PROVE TypeOK'
  OBVIOUS
<1>1. CASE UNCHANGED vars
  BY <1>1 DEF TypeOK, vars
<1>2. CASE Next
  BY <1>2, PipelineTypes, RequestTypes, WorldTypes DEF Next
<1> QED
  BY <1>1, <1>2

(* TypeOK holds for any workers, requests, catalog, contexts and bounds.   *)
THEOREM TypeCorrect == Spec => []TypeOK
  BY TypeInit, TypeStep, PTL DEF Spec

-----------------------------------------------------------------------------
(* A proposal either waits or runs.                                        *)

\* The plan was gone through: its results are in the record, or nowhere.
PlanDone == pipe.at \in {"verifying", "saving", "brief", "closing", "done", "failed", "lost"}

\* Nothing that waits for a person in a record was run automatically, and
\* the pipeline will not run anything any more.
WaitsUnrun(rec) ==
  \A s \in Slots : rec.results[s] = "pending_approval" => PlanDone /\ autoRuns[s] = 0

RecordsWaitUnrun == WaitsUnrun(store) /\ \A c \in CopyIds : WaitsUnrun(copies[c])

\* The pipeline goes through the plan once, from the first action on.
ResultsInOrder ==
  \A s \in Slots : pipe.results[s] = "pending_approval" => autoRuns[s] = 0 /\ s < pipe.next

RunsInOrder ==
  \A s \in Slots : autoRuns[s] > 0 =>
    /\ autoRuns[s] = 1
    /\ \/ s < pipe.next
       \/ s = pipe.next /\ pipe.at \in {"workflow", "lost"}

\* A request that left its first stage owns a proposal that was not run, and
\* posts it once, after the claim approved it.
RequestInOrder(r) ==
  /\ requests[r].at # "idle" =>
       requests[r].slot \in Slots /\ PlanDone /\ autoRuns[requests[r].slot] = 0
  /\ requests[r].at \in {"claimed", "workflow", "verifying", "saving"} =>
       requests[r].verdict = "approved"
  /\ requests[r].at \in {"idle", "claimed"} => postedBy[r] = 0
  /\ postedBy[r] \in {0, 1}
  /\ postedBy[r] = 1 => requests[r].verdict = "approved"

ClaimInv ==
  /\ RecordsWaitUnrun
  /\ ResultsInOrder
  /\ RunsInOrder
  /\ \A r \in Requests : RequestInOrder(r)

(* Nothing was run and nothing was claimed when the program starts.        *)
LEMMA ClaimInvInit == Init => ClaimInv
<1> SUFFICES ASSUME Init PROVE ClaimInv
  OBVIOUS
<1> USE DEF Init
<1>1. RecordsWaitUnrun
  BY DEF RecordsWaitUnrun, WaitsUnrun, NoRecord
<1>2. ResultsInOrder /\ RunsInOrder
  BY DEF ResultsInOrder, RunsInOrder, NoRecord
<1>3. \A r \in Requests : RequestInOrder(r)
  BY DEF RequestInOrder
<1> QED
  BY <1>1, <1>2, <1>3 DEF ClaimInv

(* Where the plan, its results and what was run stay as they are, the      *)
(* pipeline's part of the invariant does, whatever stage it moves to.      *)
LEMMA PipelineMoves ==
  ASSUME TypeOK, ClaimInv, TypeOK',
         pipe'.next = pipe.next, pipe'.results = pipe.results, autoRuns' = autoRuns,
         pipe.at = "workflow" => pipe'.at \in {"workflow", "lost"},
         pipe.at = "lost" => pipe'.at = "lost",
         PlanDone => PlanDone',
         UNCHANGED <<requests, postedBy>>,
         \A s \in Slots : store'.results[s] = "pending_approval" =>
            store.results[s] = "pending_approval" \/ \E c \in CopyIds : copies[c].results[s] = "pending_approval",
         \A c \in CopyIds : \A s \in Slots :
            copies'[c].results[s] = "pending_approval" => copies[c].results[s] = "pending_approval"
  PROVE  ClaimInv'
<1>1. RecordsWaitUnrun'
  BY DEF ClaimInv, RecordsWaitUnrun, WaitsUnrun
<1>2. ResultsInOrder' /\ RunsInOrder'
  BY DEF ClaimInv, ResultsInOrder, RunsInOrder
<1>3. \A r \in Requests : RequestInOrder(r)'
  BY DEF ClaimInv, RequestInOrder
<1> QED
  BY <1>1, <1>2, <1>3 DEF ClaimInv

(* The pipeline runs a proposal only while its result is still open, and a *)
(* proposal that waits in a record was not run.                            *)
LEMMA PipelineKeepsClaimInv ==
  ASSUME TypeOK, ClaimInv, TypeOK', PipeNext \/ PipeFails
  PROVE  ClaimInv'
<1>0. pipe \in PipeState /\ pipe' \in PipeState /\ copies \in [CopyIds -> Record] /\ "pipeline" \in CopyIds
  BY DEF TypeOK, CopyIds
<1>1. CASE Detect
  <2>1. pipe' = [pipe EXCEPT !.at = "detected"]
    BY <1>1 DEF Detect, PipeGoes
  <2>2. \A s \in Slots : store'.results[s] = "none"
    BY <1>1 DEF Detect, PipeSaves, NoRecord
  <2>3. \A c \in CopyIds : \A s \in Slots :
            copies'[c].results[s] = "pending_approval" => copies[c].results[s] = "pending_approval"
    BY <1>0, <1>1 DEF Detect, PipeSaves, NoRecord
  <2> QED
    BY <1>0, <1>1, <2>1, <2>2, <2>3, PipelineMoves DEF Detect, PipeGoes, PlanDone, PipeState
<1>2. CASE Investigate
  <2>1. pipe' = [pipe EXCEPT !.at = "diagnosing"] /\ pipe.at = "detected"
    BY <1>2 DEF Investigate, PipeGoes
  <2>2. store' = [copies["pipeline"] EXCEPT !.status = "investigating"]
        /\ copies' = [copies EXCEPT !["pipeline"] = store']
    BY <1>2 DEF Investigate, PipeSaves
  <2> QED
    BY <1>0, <1>2, <2>1, <2>2, PipelineMoves DEF Investigate, PlanDone, PipeState, Record
<1>3. CASE Diagnose
  <2>1. pipe' = [pipe EXCEPT !.at = "ready", !.ctl = controls] /\ pipe.at = "diagnosing"
    BY <1>3 DEF Diagnose
  <2>2. store' = [copies["pipeline"] EXCEPT !.status = "recommendation_ready"]
        /\ copies' = [copies EXCEPT !["pipeline"] = store']
    BY <1>3 DEF Diagnose, PipeSaves
  <2> QED
    BY <1>0, <1>3, <2>1, <2>2, PipelineMoves DEF Diagnose, PlanDone, PipeState, Record
<1>4. CASE StartExecution
  <2>1. PICK at \in {"saving", "acting"} : pipe' = [pipe EXCEPT !.at = at] /\ pipe.at = "ready"
    BY <1>4 DEF StartExecution, PipeGoes
  <2>2. \/ copies' = copies
        \/ \E status \in Statuses : copies' = [copies EXCEPT !["pipeline"].status = status]
    BY <1>4 DEF StartExecution, Statuses
  <2>3. \A c \in CopyIds : copies'[c].results = copies[c].results
    BY <1>0, <2>2 DEF Record
  <2> QED
    BY <1>0, <1>4, <2>1, <2>3, PipelineMoves DEF StartExecution, PlanDone, PipeState
<1>5. CASE HoldBack
  <2>1. PICK result \in ResultStatuses :
          pipe' = [pipe EXCEPT !.results[pipe.next] = result, !.next = @ + 1]
    BY <1>5 DEF HoldBack, ResultOf, ResultStatuses
  <2>2. pipe.at = "acting" /\ pipe'.at = "acting" /\ pipe'.next = pipe.next + 1
        /\ \A s \in Slots : s # pipe.next => pipe'.results[s] = pipe.results[s]
    BY <1>0, <1>5, <2>1 DEF HoldBack, PipeState
  <2>3. ResultsInOrder' /\ RunsInOrder'
    BY <1>0, <1>5, <2>2 DEF HoldBack, ClaimInv, ResultsInOrder, RunsInOrder, PipeState, TypeOK, Slots
  <2>4. RecordsWaitUnrun'
    BY <1>5, <2>2 DEF HoldBack, ClaimInv, RecordsWaitUnrun, WaitsUnrun, PlanDone
  <2>5. \A r \in Requests : RequestInOrder(r)'
    BY <1>5, <2>2 DEF HoldBack, ClaimInv, RequestInOrder, PlanDone
  <2> QED
    BY <2>3, <2>4, <2>5 DEF ClaimInv
<1>6. CASE AutoTrigger
  <2>1. pipe' = [pipe EXCEPT !.at = "workflow"] /\ pipe.at = "acting"
    BY <1>6 DEF AutoTrigger, PipeGoes
  <2>2. pipe'.at = "workflow" /\ pipe'.next = pipe.next /\ pipe'.results = pipe.results
    BY <1>0, <2>1 DEF PipeState
  <2>3. \A s \in Slots : \/ autoRuns'[s] = autoRuns[s]
                         \/ s = pipe.next /\ autoRuns'[s] = autoRuns[s] + 1
    <3>1. autoRuns' = autoRuns \/ autoRuns' = [autoRuns EXCEPT ![pipe.next] = @ + 1]
      BY <1>6 DEF AutoTrigger
    <3>2. autoRuns \in [Slots -> Nat]
      BY DEF TypeOK
    <3> QED
      BY <3>1, <3>2
  <2>4. ResultsInOrder' /\ RunsInOrder'
    BY <1>0, <2>1, <2>2, <2>3 DEF ClaimInv, ResultsInOrder, RunsInOrder, PipeState, TypeOK, Slots
  <2>5. RecordsWaitUnrun'
    BY <1>6, <2>1 DEF AutoTrigger, ClaimInv, RecordsWaitUnrun, WaitsUnrun, PlanDone
  <2>6. \A r \in Requests : RequestInOrder(r)'
    BY <1>6, <2>1 DEF AutoTrigger, ClaimInv, RequestInOrder, PlanDone
  <2> QED
    BY <2>4, <2>5, <2>6 DEF ClaimInv
<1>7. CASE AutoReturn
  <2>1. PICK result \in WorkflowStatuses :
          pipe' = [pipe EXCEPT !.at = "acting", !.results[pipe.next] = result, !.next = @ + 1]
    BY <1>7 DEF AutoReturn, TriggerStatuses, WorkflowStatuses
  <2>2. pipe.at = "workflow" /\ pipe'.at = "acting" /\ pipe'.next = pipe.next + 1
        /\ \A s \in Slots : pipe'.results[s] = pipe.results[s] \/ pipe'.results[s] = result
    BY <1>0, <1>7, <2>1 DEF AutoReturn, PipeState
  <2>3. ResultsInOrder' /\ RunsInOrder'
    <3>1. autoRuns' = autoRuns /\ result # "pending_approval" /\ pipe.next \in Nat
      BY <1>0, <1>7 DEF AutoReturn, WorkflowStatuses, PipeState
    <3>2. ResultsInOrder'
      BY <2>2, <3>1 DEF ClaimInv, ResultsInOrder, Slots
    <3>3. RunsInOrder'
      <4>1. \A s \in Slots : s \in Int
        BY DEF Slots
      <4>2. \A s \in Slots : autoRuns[s] > 0 => autoRuns[s] = 1 /\ (s < pipe.next \/ s = pipe.next)
        BY DEF ClaimInv, RunsInOrder
      <4> QED
        BY <2>2, <3>1, <4>1, <4>2 DEF RunsInOrder
    <3> QED
      BY <3>2, <3>3
  <2>4. RecordsWaitUnrun'
    BY <1>7, <2>2 DEF AutoReturn, ClaimInv, RecordsWaitUnrun, WaitsUnrun, PlanDone
  <2>5. \A r \in Requests : RequestInOrder(r)'
    BY <1>7, <2>2 DEF AutoReturn, ClaimInv, RequestInOrder, PlanDone
  <2> QED
    BY <2>3, <2>4, <2>5 DEF ClaimInv
<1>8. CASE Summarise
  <2>1. PICK at \in {"verifying", "saving"} : pipe' = [pipe EXCEPT !.at = at] /\ pipe.at = "acting"
    BY <1>8 DEF Summarise, PipeGoes
  <2>2. pipe'.next = pipe.next /\ pipe'.results = pipe.results /\ pipe'.at \in {"verifying", "saving"}
    BY <1>0, <2>1 DEF PipeState
  <2>3. \A c \in CopyIds : copies'[c].results = IF c = "pipeline" THEN pipe.results ELSE copies[c].results
    BY <1>0, <1>8 DEF Summarise, Record
  <2>4. RecordsWaitUnrun'
    BY <1>8, <2>2, <2>3 DEF Summarise, ClaimInv, RecordsWaitUnrun, ResultsInOrder, WaitsUnrun, PlanDone
  <2>5. ResultsInOrder' /\ RunsInOrder'
    BY <1>8, <2>1, <2>2 DEF Summarise, ClaimInv, ResultsInOrder, RunsInOrder
  <2>6. \A r \in Requests : RequestInOrder(r)'
    BY <1>8, <2>2 DEF Summarise, ClaimInv, RequestInOrder, PlanDone
  <2> QED
    BY <2>4, <2>5, <2>6 DEF ClaimInv
<1>9. CASE AutoVerify
  <2>1. pipe' = [pipe EXCEPT !.at = "saving"] /\ pipe.at = "verifying"
    BY <1>9 DEF AutoVerify, PipeGoes
  <2>2. PICK outcome \in Outcomes :
          copies' = [copies EXCEPT !["pipeline"] = Settle(copies["pipeline"], outcome)]
    BY <1>9 DEF AutoVerify, VerifyOutcomes, Outcomes
  <2>3. \A c \in CopyIds : copies'[c].results = copies[c].results
    BY <1>0, <2>2 DEF Settle, Record
  <2> QED
    BY <1>0, <1>9, <2>1, <2>3, PipelineMoves DEF AutoVerify, PlanDone, PipeState
<1>10. CASE SaveOutcome \/ SaveBrief
  <2>1. PICK at \in {"brief", "closing"} : pipe' = [pipe EXCEPT !.at = at] /\ pipe.at \in {"saving", "brief"}
    BY <1>10 DEF SaveOutcome, SaveBrief, PipeGoes
  <2>2. store' = copies["pipeline"] /\ copies' = copies
    BY <1>0, <1>10 DEF SaveOutcome, SaveBrief, PipeSaves
  <2> QED
    BY <1>0, <1>10, <2>1, <2>2, PipelineMoves DEF SaveOutcome, SaveBrief, PlanDone, PipeState
<1>11. CASE Close \/ PipeFails
  <2>1. PICK at \in {"done", "failed"} :
          pipe' = [pipe EXCEPT !.at = at] /\ pipe.at \notin {"workflow", "lost"}
    BY <1>11 DEF Close, PipeFails, PipeGoes
  <2> QED
    BY <1>0, <1>11, <2>1, PipelineMoves DEF Close, PipeFails, PlanDone, PipeState
<1> QED
  BY <1>1, <1>2, <1>3, <1>4, <1>5, <1>6, <1>7, <1>8, <1>9, <1>10, <1>11 DEF PipeNext

(* Where the pipeline and what it ran stay as they are, only the requests  *)
(* and the records have to be looked at.                                   *)
LEMMA RequestMoves ==
  ASSUME ClaimInv, UNCHANGED <<pipe, autoRuns>>,
         WaitsUnrun(store'), \A c \in CopyIds : WaitsUnrun(copies'[c]),
         \A r \in Requests : RequestInOrder(r)'
  PROVE  ClaimInv'
<1>1. RecordsWaitUnrun'
  BY DEF RecordsWaitUnrun, WaitsUnrun, PlanDone
<1>2. ResultsInOrder' /\ RunsInOrder'
  BY DEF ClaimInv, ResultsInOrder, RunsInOrder
<1> QED
  BY <1>1, <1>2 DEF ClaimInv

(* A request posts only from the stage its approval led to, and leaves     *)
(* that stage with the post.                                               *)
LEMMA RequestKeepsClaimInv ==
  ASSUME TypeOK, ClaimInv, NEW r \in Requests,
         RequestNext(r) \/ RequestFails(r) \/ \E w \in Workers, approved \in BOOLEAN : Claim(r, w, approved)
  PROVE  ClaimInv'
<1>0. /\ requests \in [Requests -> RequestState] /\ copies \in [CopyIds -> Record] /\ store \in Record
      /\ postedBy \in [Requests -> Nat] /\ r \in CopyIds
  BY DEF TypeOK, CopyIds
<1>1. CASE \E w \in Workers, approved \in BOOLEAN : Claim(r, w, approved)
  <2>1. PICK w \in Workers, approved \in BOOLEAN : Claim(r, w, approved)
    BY <1>1
  <2>2. PICK s \in Slots :
          /\ Claimable(store, {s})
          /\ store' = ClaimedRecord(s, approved)
          /\ copies' = [copies EXCEPT ![r] = ClaimedRecord(s, approved)]
          /\ requests' = [requests EXCEPT ![r] =
                            [at      |-> StageAfterClaim(approved),
                             verdict |-> IF approved THEN "approved" ELSE "rejected",
                             worker  |-> w,
                             slot    |-> s]]
    BY <2>1 DEF Claim
  <2>3. PlanDone /\ autoRuns[s] = 0
    BY <2>2 DEF ClaimInv, RecordsWaitUnrun, WaitsUnrun, Claimable, Pending
  <2>4. WaitsUnrun(ClaimedRecord(s, approved))
    BY <1>0, <2>2 DEF ClaimInv, RecordsWaitUnrun, WaitsUnrun, ClaimedRecord, Record
  <2>5. requests[r].at = "idle" /\ UNCHANGED <<pipe, autoRuns, postedBy>>
    BY <2>1 DEF Claim
  <2>6. RequestInOrder(r)'
    BY <1>0, <2>2, <2>3, <2>5 DEF ClaimInv, RequestInOrder, StageAfterClaim, PlanDone
  <2>7. \A q \in Requests : q # r => RequestInOrder(q)'
    BY <1>0, <2>2, <2>5 DEF ClaimInv, RequestInOrder, PlanDone
  <2> QED
    BY <1>0, <2>2, <2>4, <2>5, <2>6, <2>7, RequestMoves DEF ClaimInv, RecordsWaitUnrun
<1>2. CASE TriggerApproved(r)
  <2>1. requests[r].at = "claimed" /\ requests' = [requests EXCEPT ![r].at = "workflow"]
        /\ UNCHANGED <<pipe, autoRuns, store, copies>>
        /\ postedBy' \in {postedBy, [postedBy EXCEPT ![r] = postedBy[r] + 1]}
    BY <1>2 DEF TriggerApproved, RequestGoes
  <2>2. \A q \in Requests : RequestInOrder(q)'
    BY <1>0, <2>1 DEF ClaimInv, RequestInOrder, PlanDone, RequestState
  <2> QED
    BY <2>1, <2>2, RequestMoves DEF ClaimInv, RecordsWaitUnrun
<1>3. CASE DenyApproved(r)
  <2>1. requests[r].at = "claimed" /\ requests' = [requests EXCEPT ![r].at = "done"]
        /\ UNCHANGED <<pipe, autoRuns, postedBy>>
    BY <1>3 DEF DenyApproved, RequestGoes
  <2>2. /\ store' = [copies[r] EXCEPT !.status = "escalated", !.results[requests[r].slot] = "policy_denied"]
        /\ copies' = [copies EXCEPT ![r] = store']
    BY <1>3 DEF DenyApproved
  <2>3. WaitsUnrun(store')
    BY <1>0, <2>2 DEF ClaimInv, RecordsWaitUnrun, WaitsUnrun, Record
  <2>4. \A q \in Requests : RequestInOrder(q)'
    BY <1>0, <2>1 DEF ClaimInv, RequestInOrder, PlanDone, RequestState
  <2> QED
    BY <1>0, <2>1, <2>2, <2>3, <2>4, RequestMoves DEF ClaimInv, RecordsWaitUnrun
<1>4. CASE ApprovedReturn(r)
  <2>1. requests[r].at = "workflow" /\ requests' = [requests EXCEPT ![r].at = "verifying"]
        /\ UNCHANGED <<pipe, autoRuns, postedBy, store>>
    BY <1>4 DEF ApprovedReturn, RequestGoes
  <2>2. PICK status \in {"success", "failed"} :
          copies' = [copies EXCEPT ![r] =
                       [@ EXCEPT !.status = "verifying", !.results[requests[r].slot] = status]]
    BY <1>4 DEF ApprovedReturn
  <2>3. WaitsUnrun(copies'[r])
    BY <1>0, <2>2 DEF ClaimInv, RecordsWaitUnrun, WaitsUnrun, Record
  <2>4. \A q \in Requests : RequestInOrder(q)'
    BY <1>0, <2>1 DEF ClaimInv, RequestInOrder, PlanDone, RequestState
  <2> QED
    BY <1>0, <2>1, <2>2, <2>3, <2>4, RequestMoves DEF ClaimInv, RecordsWaitUnrun
<1>5. CASE ApprovedVerify(r)
  <2>1. requests[r].at = "verifying" /\ requests' = [requests EXCEPT ![r].at = "saving"]
        /\ UNCHANGED <<pipe, autoRuns, postedBy, store>>
    BY <1>5 DEF ApprovedVerify, RequestGoes
  <2>2. PICK outcome \in Outcomes : copies' = [copies EXCEPT ![r] = Settle(copies[r], outcome)]
    BY <1>5 DEF ApprovedVerify, VerifyOutcomes, Outcomes
  <2>3. WaitsUnrun(copies'[r])
    BY <1>0, <2>2 DEF ClaimInv, RecordsWaitUnrun, WaitsUnrun, Record, Settle
  <2>4. \A q \in Requests : RequestInOrder(q)'
    BY <1>0, <2>1 DEF ClaimInv, RequestInOrder, PlanDone, RequestState
  <2> QED
    BY <1>0, <2>1, <2>2, <2>3, <2>4, RequestMoves DEF ClaimInv, RecordsWaitUnrun
<1>6. CASE SaveApproved(r) \/ RequestFails(r)
  <2>1. /\ requests[r].at = "saving"
        /\ \E at \in {"done", "failed"} : requests' = [requests EXCEPT ![r].at = at]
        /\ UNCHANGED <<pipe, autoRuns, postedBy, copies>>
        /\ store' \in {store, copies[r]}
    BY <1>6 DEF SaveApproved, RequestFails, RequestGoes
  <2>2. \A q \in Requests : RequestInOrder(q)'
    BY <1>0, <2>1 DEF ClaimInv, RequestInOrder, PlanDone, RequestState
  <2> QED
    BY <1>0, <2>1, <2>2, RequestMoves DEF ClaimInv, RecordsWaitUnrun
<1> QED
  BY <1>1, <1>2, <1>3, <1>4, <1>5, <1>6 DEF RequestNext

(* A claim binds an idle request to a proposal that waits, hence was not   *)
(* run; feedback and restarts only move records about.                     *)
LEMMA WorldKeepsClaimInv ==
  ASSUME TypeOK, ClaimInv, TypeOK',
         UpdateControls \/ \E w \in Workers : Feedback(w) \/ CrashRestart(w)
  PROVE  ClaimInv'
<1>1. CASE UpdateControls
  BY <1>1, RequestMoves DEF UpdateControls, ClaimInv, RecordsWaitUnrun, RequestInOrder, PlanDone
<1>2. ASSUME NEW w \in Workers, Feedback(w) PROVE ClaimInv'
  <2>1. WaitsUnrun(store')
    BY <1>2 DEF Feedback, SeenBy, ClaimInv, RecordsWaitUnrun, TypeOK
  <2> QED
    BY <1>2, <2>1, RequestMoves DEF Feedback, ClaimInv, RecordsWaitUnrun, RequestInOrder, PlanDone
<1>3. ASSUME NEW w \in Workers, CrashRestart(w) PROVE ClaimInv'
  <2>1. pipe' = pipe \/ pipe' = [pipe EXCEPT !.at = "lost"]
    BY <1>3 DEF CrashRestart
  <2>2. pipe'.next = pipe.next /\ pipe'.results = pipe.results /\ pipe'.at \in {pipe.at, "lost"}
    BY <2>1 DEF TypeOK, PipeState
  <2>3. UNCHANGED <<store, autoRuns, postedBy>>
    BY <1>3 DEF CrashRestart
  <2>4. \A c \in CopyIds : copies'[c] \in {copies[c], store, NoRecord}
    BY <1>3 DEF CrashRestart
  <2>5. \A s \in Slots : NoRecord.results[s] = "none"
    BY DEF NoRecord
  <2>6. RecordsWaitUnrun'
    BY <2>2, <2>3, <2>4, <2>5 DEF ClaimInv, RecordsWaitUnrun, WaitsUnrun, PlanDone
  <2>7. ResultsInOrder' /\ RunsInOrder'
    BY <2>2, <2>3 DEF ClaimInv, ResultsInOrder, RunsInOrder
  <2>8. \A r \in Requests : \/ requests'[r] = requests[r]
                            \/ /\ requests'[r] = [requests[r] EXCEPT !.at = "lost"]
                               /\ requests[r].at \notin {"idle", "done"}
    BY <1>3 DEF CrashRestart, LostWith
  <2>9. \A r \in Requests : /\ requests'[r].slot = requests[r].slot
                            /\ requests'[r].verdict = requests[r].verdict
                            /\ \/ requests'[r].at = requests[r].at
                               \/ requests'[r].at = "lost" /\ requests[r].at # "idle"
    BY <2>8 DEF TypeOK, RequestState
  <2>10. \A r \in Requests : RequestInOrder(r)'
    BY <2>2, <2>3, <2>9 DEF ClaimInv, RequestInOrder, PlanDone
  <2> QED
    BY <2>6, <2>7, <2>10 DEF ClaimInv
<1> QED
  BY <1>1, <1>2, <1>3

(* Every step keeps ClaimInv.                                              *)
LEMMA ClaimInvStep == TypeOK /\ ClaimInv /\ [Next]_vars => ClaimInv'
<1> SUFFICES ASSUME TypeOK, ClaimInv, [Next]_vars PROVE ClaimInv'
  OBVIOUS
<1>1. TypeOK'
  BY TypeStep
<1>2. CASE UNCHANGED vars
  BY <1>2 DEF vars, ClaimInv, RecordsWaitUnrun, WaitsUnrun, ResultsInOrder, RunsInOrder,
              RequestInOrder, PlanDone
<1>3. CASE Next
  BY <1>1, <1>3, PipelineKeepsClaimInv, RequestKeepsClaimInv, WorldKeepsClaimInv DEF Next
<1> QED
  BY <1>2, <1>3

(* ClaimInv holds always.                                                  *)
LEMMA ClaimInvHolds == Spec => []ClaimInv
<1>1. Init => ClaimInv
  BY ClaimInvInit
<1>2. TypeOK /\ ClaimInv /\ [Next]_vars => ClaimInv'
  BY ClaimInvStep
<1> QED
  BY <1>1, <1>2, TypeCorrect, PTL DEF Spec

(* However many workers share the store, whatever copies are stale and     *)
(* whenever a worker dies: an approval request posts a webhook at most     *)
(* once, only after its claim approved it, and never for a proposal that   *)
(* the pipeline ran by itself.                                             *)
THEOREM PostsAreClaimedAlways == Spec => []PostsAreClaimed
<1>1. TypeOK /\ ClaimInv => PostsAreClaimed
  <2> SUFFICES ASSUME TypeOK, ClaimInv, NEW r \in Requests, postedBy[r] > 0
               PROVE  /\ postedBy[r] = 1
                      /\ requests[r].verdict = "approved"
                      /\ requests[r].slot \in Slots /\ autoRuns[requests[r].slot] = 0
    BY DEF PostsAreClaimed
  <2>1. postedBy[r] = 1 /\ requests[r].at # "idle"
    BY DEF ClaimInv, RequestInOrder
  <2> QED
    BY <2>1 DEF ClaimInv, RequestInOrder
<1> QED
  BY <1>1, TypeCorrect, ClaimInvHolds, PTL

-----------------------------------------------------------------------------
(* Nothing is ever done for a critical incident.                           *)

CriticalInv ==
  ctx.critical =>
    /\ pipe.at \notin {"acting", "workflow", "verifying"}
    /\ store.status # "awaiting_approval"
    /\ \A c \in CopyIds : copies[c].status # "awaiting_approval"
    /\ \A s \in Slots : autoRuns[s] = 0
    /\ \A r \in Requests : requests[r].at = "idle" /\ postedBy[r] = 0

(* A critical incident starts without a plan and without requests.         *)
LEMMA CriticalInvInit == Init => CriticalInv
  BY DEF Init, CriticalInv, NoRecord

(* Every step keeps a critical incident without a plan: no record of it    *)
(* ever waits, so no request can claim it.                                 *)
LEMMA CriticalInvStep == TypeOK /\ CriticalInv /\ [Next]_vars => CriticalInv'
<1> SUFFICES ASSUME TypeOK, CriticalInv, [Next]_vars, ctx'.critical PROVE CriticalInv'
  BY DEF CriticalInv
<1>1. ctx' = ctx
  BY DEF Next, PipeNext, RequestNext, vars, Detect, Investigate, Diagnose, StartExecution, HoldBack,
         AutoTrigger, AutoReturn, Summarise, AutoVerify, SaveOutcome, SaveBrief, Close, PipeFails,
         Claim, TriggerApproved, DenyApproved, ApprovedReturn, ApprovedVerify, SaveApproved,
         RequestFails, Feedback, UpdateControls, CrashRestart
<1>2. /\ pipe.at \notin {"acting", "workflow", "verifying"}
      /\ store.status # "awaiting_approval"
      /\ \A c \in CopyIds : copies[c].status # "awaiting_approval"
      /\ \A s \in Slots : autoRuns[s] = 0
      /\ \A r \in Requests : requests[r].at = "idle" /\ postedBy[r] = 0
  BY <1>1 DEF CriticalInv
<1>3. pipe \in PipeState /\ copies \in [CopyIds -> Record] /\ "pipeline" \in CopyIds
  BY DEF TypeOK, CopyIds
<1>4. CASE UNCHANGED vars
  BY <1>2, <1>4 DEF vars, CriticalInv
<1>5. CASE PipeNext \/ PipeFails
  <2>1. UNCHANGED <<autoRuns, postedBy, requests>> /\ ~HoldBack /\ ~AutoTrigger /\ ~AutoReturn
        /\ ~Summarise /\ ~AutoVerify
    BY <1>2, <1>5 DEF PipeNext, Detect, Investigate, Diagnose, StartExecution, HoldBack, AutoTrigger,
                      AutoReturn, Summarise, AutoVerify, SaveOutcome, SaveBrief, Close, PipeFails, PipeGoes
  <2>2. pipe'.at \notin {"acting", "workflow", "verifying"}
    <3>1. PICK at \in PipeStages \ {"acting", "workflow", "verifying"} :
            \/ pipe' = [pipe EXCEPT !.at = at]
            \/ pipe' = [pipe EXCEPT !.at = at, !.ctl = controls]
      BY <1>1, <1>5, <2>1 DEF PipeNext, Detect, Investigate, Diagnose, StartExecution, SaveOutcome,
                        SaveBrief, Close, PipeFails, PipeGoes, IsCritical, PipeStages
    <3> QED
      BY <1>3, <3>1 DEF PipeState
  <2>3. /\ store' \in {store, copies'["pipeline"]}
        /\ \/ copies' = copies
           \/ \E status \in Statuses \ {"awaiting_approval"} :
                copies' = [copies EXCEPT !["pipeline"] = [NoRecord EXCEPT !.status = status]]
           \/ \E status \in Statuses \ {"awaiting_approval"} :
                copies' = [copies EXCEPT !["pipeline"] = [copies["pipeline"] EXCEPT !.status = status]]
    <3>1. CASE Detect
      BY <1>3, <3>1 DEF Detect, PipeSaves, Statuses
    <3>2. CASE Investigate
      BY <1>3, <3>2 DEF Investigate, PipeSaves, Statuses
    <3>3. CASE Diagnose
      BY <1>3, <3>3 DEF Diagnose, PipeSaves, Statuses
    <3>4. CASE StartExecution
      BY <3>4 DEF StartExecution, Statuses
    <3>5. CASE SaveOutcome \/ SaveBrief
      BY <1>3, <3>5 DEF SaveOutcome, SaveBrief, PipeSaves
    <3>6. CASE Close \/ PipeFails
      BY <3>6 DEF Close, PipeFails
    <3> QED
      BY <1>5, <2>1, <3>1, <3>2, <3>3, <3>4, <3>5, <3>6 DEF PipeNext
  <2>4. \A c \in CopyIds : copies'[c].status # "awaiting_approval"
    <3>1. \A rec \in {NoRecord, copies["pipeline"]} : \A status \in Statuses :
            [rec EXCEPT !.status = status].status = status
      BY <1>3 DEF Record, NoRecord
    <3>2. CASE copies' = copies
      BY <1>2, <3>2
    <3>3. ASSUME NEW rec \in {NoRecord, copies["pipeline"]}, NEW status \in Statuses \ {"awaiting_approval"},
                 copies' = [copies EXCEPT !["pipeline"] = [rec EXCEPT !.status = status]]
          PROVE  \A c \in CopyIds : copies'[c].status # "awaiting_approval"
      <4>1. copies'["pipeline"].status # "awaiting_approval"
        BY <1>3, <3>1, <3>3
      <4> QED
        BY <1>2, <1>3, <3>3, <4>1
    <3> QED
      BY <2>3, <3>2, <3>3
  <2> QED
    BY <1>2, <1>3, <2>1, <2>2, <2>3, <2>4 DEF CriticalInv
<1>6. ASSUME NEW r \in Requests,
             RequestNext(r) \/ RequestFails(r) \/ \E w \in Workers, approved \in BOOLEAN : Claim(r, w, approved)
      PROVE  FALSE
  BY <1>2, <1>6 DEF RequestNext, RequestFails, Claim, Claimable, TriggerApproved, DenyApproved,
                    ApprovedReturn, ApprovedVerify, SaveApproved, RequestGoes
<1>7. CASE UpdateControls
  BY <1>2, <1>7 DEF UpdateControls, CriticalInv
<1>8. ASSUME NEW w \in Workers, Feedback(w) PROVE CriticalInv'
  <2>1. store'.status # "awaiting_approval"
    BY <1>2, <1>8 DEF Feedback, SeenBy, TypeOK
  <2> QED
    BY <1>2, <1>8, <2>1 DEF Feedback, CriticalInv
<1>9. ASSUME NEW w \in Workers, CrashRestart(w) PROVE CriticalInv'
  <2>1. \A c \in CopyIds : copies'[c].status # "awaiting_approval"
    BY <1>2, <1>9 DEF CrashRestart, NoRecord
  <2>2. pipe'.at \notin {"acting", "workflow", "verifying"}
    BY <1>2, <1>3, <1>9 DEF CrashRestart, PipeState
  <2>3. \A r \in Requests : requests'[r].at = "idle"
    BY <1>2, <1>9 DEF CrashRestart, LostWith
  <2> QED
    BY <1>2, <1>9, <2>1, <2>2, <2>3 DEF CrashRestart, CriticalInv
<1> QED
  BY <1>4, <1>5, <1>6, <1>7, <1>8, <1>9 DEF Next

(* A critical incident is root-cause-only, for any catalog, controls and   *)
(* number of workers: nothing is run for it, and no copy of its record     *)
(* asks for an approval.                                                   *)
THEOREM CriticalIsHandsOffAlways == Spec => []CriticalIsHandsOff
<1>1. Init => CriticalInv
  BY CriticalInvInit
<1>2. TypeOK /\ CriticalInv /\ [Next]_vars => CriticalInv'
  BY CriticalInvStep
<1>3. CriticalInv => CriticalIsHandsOff
  BY DEF CriticalInv, CriticalIsHandsOff
<1> QED
  BY <1>1, <1>2, <1>3, TypeCorrect, PTL DEF Spec

-----------------------------------------------------------------------------
(* Recovery is claimed only of what was carried out.                       *)

\* A success in a record, and a recovery, stand for a webhook that was posted.
Evident(rec) ==
  /\ TrulyRecovered(rec)
  /\ \A s \in Slots : rec.results[s] = "success" => Live /\ CarriedOut(s)

EvidentRecords == {rec \in Record : Evident(rec)}

RecordsEvident == store \in EvidentRecords /\ copies \in [CopyIds -> EvidentRecords]

PipeEvident ==
  /\ \A s \in Slots : pipe.results[s] = "success" => Live /\ CarriedOut(s)
  /\ pipe.at = "workflow" /\ Live /\ pipe.next \in Slots => CarriedOut(pipe.next)

EvidenceInv ==
  /\ RecordsEvident
  /\ PipeEvident
  /\ \A r \in Requests : requests[r].at = "workflow" /\ Live => postedBy[r] > 0

(* No record says recovered when the program starts.                       *)
LEMMA EvidenceInvInit == Init => EvidenceInv
<1> SUFFICES ASSUME Init PROVE EvidenceInv
  OBVIOUS
<1> USE DEF Init
<1>1. NoRecord \in EvidentRecords
  BY DEF EvidentRecords, Evident, TrulyRecovered, NoRecord, Record, Statuses, ResultStatuses
<1>2. RecordsEvident
  BY <1>1 DEF RecordsEvident
<1> QED
  BY <1>2 DEF EvidenceInv, PipeEvident, NoRecord

(* What was carried out stays so: the counters never go down, and only a   *)
(* request that posted nothing is bound to another proposal.               *)
LEMMA CarriedOutStays ==
  ASSUME TypeOK, ClaimInv, [Next]_vars
  PROVE  /\ ctx' = ctx
         /\ \A s \in Slots : CarriedOut(s) => CarriedOut(s)'
<1>1. ctx' = ctx
  BY DEF Next, PipeNext, RequestNext, vars, Detect, Investigate, Diagnose, StartExecution, HoldBack,
         AutoTrigger, AutoReturn, Summarise, AutoVerify, SaveOutcome, SaveBrief, Close, PipeFails,
         Claim, TriggerApproved, DenyApproved, ApprovedReturn, ApprovedVerify, SaveApproved,
         RequestFails, Feedback, UpdateControls, CrashRestart
<1>2. autoRuns \in [Slots -> Nat] /\ postedBy \in [Requests -> Nat] /\ requests \in [Requests -> RequestState]
  BY DEF TypeOK
<1>3. \A s \in Slots : autoRuns[s] > 0 => autoRuns'[s] > 0
  <2>1. \/ autoRuns' = autoRuns
        \/ autoRuns' = [autoRuns EXCEPT ![pipe.next] = @ + 1]
    BY DEF Next, PipeNext, RequestNext, vars, Detect, Investigate, Diagnose, StartExecution, HoldBack,
           AutoTrigger, AutoReturn, Summarise, AutoVerify, SaveOutcome, SaveBrief, Close, PipeFails,
           Claim, TriggerApproved, DenyApproved, ApprovedReturn, ApprovedVerify, SaveApproved,
           RequestFails, Feedback, UpdateControls, CrashRestart
  <2> QED
    BY <1>2, <2>1
<1>4. \A r \in Requests : postedBy[r] > 0 => postedBy'[r] > 0 /\ requests'[r].slot = requests[r].slot
  <2>1. CASE UNCHANGED <<postedBy, requests>>
    BY <2>1
  <2>2. ASSUME NEW w \in Workers, CrashRestart(w)
        PROVE  \A r \in Requests : postedBy'[r] = postedBy[r] /\ requests'[r].slot = requests[r].slot
    BY <1>2, <2>2 DEF CrashRestart, RequestState
  <2>3. ASSUME NEW q \in Requests, NEW w \in Workers, NEW approved \in BOOLEAN, Claim(q, w, approved)
        PROVE  \A r \in Requests : postedBy[r] > 0 => postedBy'[r] > 0 /\ requests'[r].slot = requests[r].slot
    <3>1. postedBy[q] = 0 /\ postedBy' = postedBy
      BY <2>3 DEF Claim, ClaimInv, RequestInOrder
    <3>2. \A r \in Requests : r # q => requests'[r] = requests[r]
      BY <1>2, <2>3 DEF Claim
    <3> QED
      BY <3>1, <3>2
  <2>4. ASSUME NEW q \in Requests, RequestNext(q) \/ RequestFails(q)
        PROVE  \A r \in Requests : postedBy[r] > 0 => postedBy'[r] > 0 /\ requests'[r].slot = requests[r].slot
    <3>1. /\ \E at \in RequestStages : requests' = [requests EXCEPT ![q].at = at]
          /\ postedBy' = postedBy \/ postedBy' = [postedBy EXCEPT ![q] = @ + 1]
      BY <2>4 DEF RequestNext, RequestFails, TriggerApproved, DenyApproved, ApprovedReturn, ApprovedVerify,
                  SaveApproved, RequestGoes, RequestStages
    <3>2. \A r \in Requests : requests'[r].slot = requests[r].slot
      BY <1>2, <3>1 DEF RequestState
    <3>3. \A r \in Requests : postedBy[r] > 0 => postedBy'[r] > 0
      BY <1>2, <3>1
    <3> QED
      BY <3>2, <3>3
  <2>5. CASE PipeNext \/ PipeFails \/ UpdateControls \/ UNCHANGED vars \/ \E w \in Workers : Feedback(w)
    BY <2>1, <2>5 DEF PipeNext, vars, Detect, Investigate, Diagnose, StartExecution, HoldBack,
           AutoTrigger, AutoReturn, Summarise, AutoVerify, SaveOutcome, SaveBrief, Close, PipeFails,
           Feedback, UpdateControls
  <2> QED
    BY <2>2, <2>3, <2>4, <2>5 DEF Next
<1> QED
  BY <1>1, <1>3, <1>4 DEF CarriedOut

(* A record keeps its evidence; so does one whose status is changed to     *)
(* anything but recovered, and one that is settled after a success.        *)
LEMMA EvidenceStays ==
  ASSUME ctx' = ctx, \A s \in Slots : CarriedOut(s) => CarriedOut(s)'
  PROVE  /\ NoRecord \in EvidentRecords'
         /\ \A rec \in EvidentRecords : rec \in EvidentRecords'
         /\ \A rec \in EvidentRecords : \A status \in Statuses \ {"verified_recovered"} :
              [rec EXCEPT !.status = status] \in EvidentRecords'
         /\ \A rec \in EvidentRecords : \A status \in Statuses \ {"verified_recovered"} :
              \A result \in ResultStatuses \ {"success"}, s \in Slots \cup {0} :
                [rec EXCEPT !.status = status, !.results[s] = result] \in EvidentRecords'
         /\ \A rec \in EvidentRecords, outcome \in Outcomes :
              (outcome = "verified_recovery" => Executed(rec)) => Settle(rec, outcome) \in EvidentRecords'
<1>1. Live' = Live
  BY DEF Live
<1>2. NoRecord \in EvidentRecords'
  BY DEF EvidentRecords, Evident, TrulyRecovered, NoRecord, Record, Statuses, ResultStatuses
<1>3. \A rec \in EvidentRecords : rec \in EvidentRecords'
  BY <1>1 DEF EvidentRecords, Evident, TrulyRecovered, Executed
<1>4. ASSUME NEW rec \in EvidentRecords, NEW status \in Statuses \ {"verified_recovered"}
      PROVE  [rec EXCEPT !.status = status] \in EvidentRecords'
  BY <1>1, <1>4, RecordTypes DEF EvidentRecords, Evident, TrulyRecovered, Record
<1>5. ASSUME NEW rec \in EvidentRecords, NEW status \in Statuses \ {"verified_recovered"},
             NEW result \in ResultStatuses \ {"success"}, NEW s \in Slots \cup {0}
      PROVE  [rec EXCEPT !.status = status, !.results[s] = result] \in EvidentRecords'
  BY <1>1, <1>5, RecordTypes DEF EvidentRecords, Evident, TrulyRecovered, Record
<1>6. ASSUME NEW rec \in EvidentRecords, NEW outcome \in Outcomes,
             outcome = "verified_recovery" => Executed(rec)
      PROVE  Settle(rec, outcome) \in EvidentRecords'
  <2>1. /\ Settle(rec, outcome) \in Record
        /\ Settle(rec, outcome).results = rec.results
        /\ Settle(rec, outcome).verification = outcome
        /\ Settle(rec, outcome).status = "verified_recovered" => outcome = "verified_recovery"
    BY RecordTypes DEF Settle, Record, EvidentRecords
  <2>2. \A s \in Slots : rec.results[s] = "success" => Live' /\ CarriedOut(s)'
    BY <1>1 DEF Evident, EvidentRecords
  <2> QED
    BY <1>6, <2>1, <2>2 DEF EvidentRecords, Evident, TrulyRecovered, Executed
<1> QED
  BY <1>2, <1>3, <1>4, <1>5, <1>6

(* The pipeline settles its record as recovered only after a workflow of   *)
(* its own succeeded.                                                      *)
LEMMA PipelineKeepsEvidence ==
  ASSUME TypeOK, TypeOK', EvidenceInv, PipeNext \/ PipeFails,
         ctx' = ctx, \A s \in Slots : CarriedOut(s) => CarriedOut(s)'
  PROVE  EvidenceInv'
<1>0. /\ pipe \in PipeState /\ pipe' \in PipeState /\ copies \in [CopyIds -> EvidentRecords]
      /\ store \in EvidentRecords /\ "pipeline" \in CopyIds /\ (Live' <=> Live)
      /\ copies["pipeline"] \in EvidentRecords
  BY DEF TypeOK, CopyIds, EvidenceInv, RecordsEvident, Live
<1>a. UNCHANGED <<requests, postedBy>>
  BY DEF PipeNext, Detect, Investigate, Diagnose, StartExecution, HoldBack, AutoTrigger, AutoReturn,
         Summarise, AutoVerify, SaveOutcome, SaveBrief, Close, PipeFails
<1>b. \A r \in Requests : requests'[r].at = "workflow" /\ Live' => postedBy'[r] > 0
  BY <1>0, <1>a DEF EvidenceInv
<1>c. SUFFICES RecordsEvident' /\ PipeEvident'
  BY <1>b DEF EvidenceInv
<1>d. \A p \in PipeState, at \in PipeStages \ {"workflow"} :
        pipe' \in {[pipe EXCEPT !.at = at], [pipe EXCEPT !.at = at, !.ctl = controls]} => PipeEvident'
  BY <1>0 DEF EvidenceInv, PipeEvident, PipeState
<1>1. CASE Detect
  <2>1. [NoRecord EXCEPT !.status = "detected"] \in EvidentRecords'
    BY DEF EvidentRecords, Evident, TrulyRecovered, NoRecord, Record, Statuses, ResultStatuses
  <2> QED
    BY <1>0, <1>1, <1>d, <2>1, EvidenceStays DEF Detect, PipeGoes, PipeSaves, RecordsEvident, PipeStages
<1>2. CASE Investigate
  <2>1. [copies["pipeline"] EXCEPT !.status = "investigating"] \in EvidentRecords'
    BY <1>0, EvidenceStays DEF Statuses
  <2> QED
    BY <1>0, <1>2, <1>d, <2>1, EvidenceStays DEF Investigate, PipeGoes, PipeSaves, RecordsEvident, PipeStages
<1>3. CASE Diagnose
  <2>1. [copies["pipeline"] EXCEPT !.status = "recommendation_ready"] \in EvidentRecords'
    BY <1>0, EvidenceStays DEF Statuses
  <2> QED
    BY <1>0, <1>3, <1>d, <2>1, EvidenceStays DEF Diagnose, PipeSaves, RecordsEvident, PipeStages
<1>4. CASE StartExecution
  <2>1. PipeEvident'
    BY <1>0, <1>4, <1>d DEF StartExecution, PipeGoes, PipeStages
  <2>2. copies' = copies \/ \E status \in Statuses \ {"verified_recovered"} :
          copies' = [copies EXCEPT !["pipeline"] = [copies["pipeline"] EXCEPT !.status = status]]
    BY <1>4 DEF StartExecution, Statuses
  <2>3. copies' \in [CopyIds -> EvidentRecords']
    <3>1. CASE copies' = copies
      BY <1>0, <3>1, EvidenceStays
    <3>2. ASSUME NEW status \in Statuses \ {"verified_recovered"},
                 copies' = [copies EXCEPT !["pipeline"] = [copies["pipeline"] EXCEPT !.status = status]]
          PROVE  copies' \in [CopyIds -> EvidentRecords']
      <4>1. [copies["pipeline"] EXCEPT !.status = status] \in EvidentRecords'
        BY <1>0, EvidenceStays
      <4> QED
        BY <1>0, <3>2, <4>1, EvidenceStays
    <3> QED
      BY <2>2, <3>1, <3>2
  <2>4. RecordsEvident'
    BY <1>0, <1>4, <2>3, EvidenceStays DEF StartExecution, RecordsEvident
  <2> QED
    BY <2>1, <2>4
<1>5. CASE HoldBack
  <2>1. PICK result \in ResultStatuses \ {"success"} :
          pipe' = [pipe EXCEPT !.results[pipe.next] = result, !.next = @ + 1]
    BY <1>5 DEF HoldBack, ResultOf, ResultStatuses
  <2>2. pipe'.at = "acting" /\ \A s \in Slots : pipe'.results[s] \in {pipe.results[s], result}
    BY <1>0, <1>5, <2>1 DEF HoldBack, PipeState
  <2>3. PipeEvident'
    BY <1>0, <2>2 DEF EvidenceInv, PipeEvident
  <2> QED
    BY <1>0, <1>5, <2>3, EvidenceStays DEF HoldBack, RecordsEvident
<1>6. CASE AutoTrigger
  <2>1. pipe' = [pipe EXCEPT !.at = "workflow"]
    BY <1>6 DEF AutoTrigger, PipeGoes
  <2>2. pipe'.next = pipe.next /\ pipe'.results = pipe.results
    BY <1>0, <2>1 DEF PipeState
  <2>3. Live /\ pipe.next \in Slots => autoRuns'[pipe.next] > 0
    <3>1. Live => autoRuns' = [autoRuns EXCEPT ![pipe.next] = @ + 1]
      BY <1>6 DEF AutoTrigger
    <3> QED
      BY <3>1 DEF TypeOK
  <2>4. PipeEvident'
    BY <1>0, <2>2, <2>3 DEF EvidenceInv, PipeEvident, CarriedOut
  <2> QED
    BY <1>0, <1>6, <2>4, EvidenceStays DEF AutoTrigger, RecordsEvident
<1>7. CASE AutoReturn
  <2>1. PICK result \in TriggerStatuses :
          pipe' = [pipe EXCEPT !.at = "acting", !.results[pipe.next] = result, !.next = @ + 1]
    BY <1>7 DEF AutoReturn
  <2>2. result = "success" => Live
    BY DEF TriggerStatuses, Live
  <2>3. /\ pipe.at = "workflow" /\ pipe'.at = "acting"
        /\ \A s \in Slots : \/ pipe'.results[s] = pipe.results[s]
                            \/ s = pipe.next /\ pipe'.results[s] = result
    BY <1>0, <1>7, <2>1 DEF AutoReturn, PipeState
  <2>4. PipeEvident'
    BY <1>0, <2>2, <2>3 DEF EvidenceInv, PipeEvident
  <2> QED
    BY <1>0, <1>7, <2>4, EvidenceStays DEF AutoReturn, RecordsEvident
<1>8. CASE Summarise
  <2>1. PICK at \in {"verifying", "saving"} : pipe' = [pipe EXCEPT !.at = at]
    BY <1>8 DEF Summarise, PipeGoes
  <2>2. PICK status \in Statuses \ {"verified_recovered"} :
          copies' = [copies EXCEPT !["pipeline"] =
                       [[copies["pipeline"] EXCEPT !.results = pipe.results] EXCEPT !.status = status]]
    BY <1>8 DEF Summarise, StatusAfter, Statuses
  <2>3. copies'["pipeline"] \in EvidentRecords'
    <3>1. copies'["pipeline"] \in Record /\ copies["pipeline"] \in Record
      BY <1>0 DEF TypeOK
    <3>2. copies'["pipeline"].results = pipe.results /\ copies'["pipeline"].status = status
      BY <1>0, <2>2, <3>1 DEF Record
    <3> QED
      BY <1>0, <3>1, <3>2 DEF EvidentRecords, Evident, TrulyRecovered, EvidenceInv, PipeEvident
  <2>4. RecordsEvident'
    BY <1>0, <1>8, <2>2, <2>3, EvidenceStays DEF Summarise, RecordsEvident
  <2> QED
    BY <1>0, <1>d, <2>1, <2>4 DEF PipeStages
<1>9. CASE AutoVerify
  <2>1. PICK outcome \in Outcomes :
          /\ outcome = "verified_recovery" => Executed(copies["pipeline"])
          /\ copies' = [copies EXCEPT !["pipeline"] = Settle(copies["pipeline"], outcome)]
    BY <1>9 DEF AutoVerify, VerifyOutcomes, Outcomes, Executed
  <2>2. RecordsEvident'
    BY <1>0, <1>9, <2>1, EvidenceStays DEF AutoVerify, RecordsEvident
  <2> QED
    BY <1>0, <1>9, <1>d, <2>2 DEF AutoVerify, PipeGoes, PipeStages
<1>10. CASE SaveOutcome \/ SaveBrief
  BY <1>0, <1>10, <1>d, EvidenceStays DEF SaveOutcome, SaveBrief, PipeGoes, PipeSaves, RecordsEvident, PipeStages
<1>11. CASE Close \/ PipeFails
  BY <1>0, <1>11, <1>d, EvidenceStays DEF Close, PipeFails, PipeGoes, RecordsEvident, PipeStages
<1> QED
  BY <1>1, <1>2, <1>3, <1>4, <1>5, <1>6, <1>7, <1>8, <1>9, <1>10, <1>11 DEF PipeNext

(* A request settles its record as recovered only after the workflow it    *)
(* posted succeeded.                                                       *)
LEMMA RequestKeepsEvidence ==
  ASSUME TypeOK, ClaimInv, EvidenceInv, NEW r \in Requests,
         RequestNext(r) \/ RequestFails(r) \/ \E w \in Workers, approved \in BOOLEAN : Claim(r, w, approved),
         ctx' = ctx, \A s \in Slots : CarriedOut(s) => CarriedOut(s)'
  PROVE  EvidenceInv'
<1>0. /\ requests \in [Requests -> RequestState] /\ copies \in [CopyIds -> EvidentRecords]
      /\ store \in EvidentRecords /\ postedBy \in [Requests -> Nat] /\ r \in CopyIds /\ (Live' <=> Live)
      /\ copies[r] \in EvidentRecords
  BY DEF TypeOK, CopyIds, EvidenceInv, RecordsEvident, Live
<1>a. pipe' = pipe
  BY DEF RequestNext, RequestFails, Claim, TriggerApproved, DenyApproved, ApprovedReturn, ApprovedVerify,
         SaveApproved
<1>b. PipeEvident'
  BY <1>0, <1>a DEF EvidenceInv, PipeEvident
<1>c. SUFFICES /\ RecordsEvident'
               /\ \A q \in Requests : requests'[q].at = "workflow" /\ Live' => postedBy'[q] > 0
  BY <1>b DEF EvidenceInv
<1>d. \A q \in Requests : requests[q].at = "workflow" /\ Live => postedBy[q] > 0
  BY DEF EvidenceInv
<1>e. \A at \in RequestStages \ {"workflow"} :
        requests' = [requests EXCEPT ![r].at = at] /\ postedBy' = postedBy =>
          \A q \in Requests : requests'[q].at = "workflow" /\ Live' => postedBy'[q] > 0
  BY <1>0, <1>d DEF RequestState
<1>1. CASE \E w \in Workers, approved \in BOOLEAN : Claim(r, w, approved)
  <2>1. PICK w \in Workers, approved \in BOOLEAN : Claim(r, w, approved)
    BY <1>1
  <2>2. PICK s \in Slots :
          /\ store' = ClaimedRecord(s, approved)
          /\ copies' = [copies EXCEPT ![r] = ClaimedRecord(s, approved)]
          /\ requests' = [requests EXCEPT ![r] =
                            [at      |-> StageAfterClaim(approved),
                             verdict |-> IF approved THEN "approved" ELSE "rejected",
                             worker  |-> w,
                             slot    |-> s]]
    BY <2>1 DEF Claim
  <2>3. ClaimedRecord(s, approved) \in EvidentRecords'
    BY <1>0, EvidenceStays DEF ClaimedRecord, Statuses, ResultStatuses
  <2>4. RecordsEvident'
    BY <1>0, <2>2, <2>3, EvidenceStays DEF RecordsEvident
  <2>5. postedBy' = postedBy /\ requests'[r].at # "workflow" /\ \A q \in Requests : q # r => requests'[q] = requests[q]
    BY <1>0, <2>1, <2>2 DEF Claim, StageAfterClaim
  <2> QED
    BY <1>0, <1>d, <2>4, <2>5
<1>2. CASE TriggerApproved(r)
  <2>1. /\ requests' = [requests EXCEPT ![r].at = "workflow"]
        /\ UNCHANGED <<store, copies>>
        /\ Live => postedBy' = [postedBy EXCEPT ![r] = @ + 1]
        /\ ~Live => postedBy' = postedBy
    BY <1>2 DEF TriggerApproved, RequestGoes
  <2>2. \A q \in Requests : requests'[q].at = "workflow" /\ Live' => postedBy'[q] > 0
    BY <1>0, <1>d, <2>1 DEF RequestState
  <2> QED
    BY <1>0, <2>1, <2>2, EvidenceStays DEF RecordsEvident
<1>3. CASE DenyApproved(r)
  <2>1. /\ store' = [copies[r] EXCEPT !.status = "escalated", !.results[requests[r].slot] = "policy_denied"]
        /\ copies' = [copies EXCEPT ![r] = store']
        /\ requests' = [requests EXCEPT ![r].at = "done"] /\ postedBy' = postedBy
    BY <1>3 DEF DenyApproved, RequestGoes
  <2>2. requests[r].slot \in Slots \cup {0}
    BY <1>0 DEF RequestState
  <2>3. store' \in EvidentRecords'
    BY <1>0, <2>1, <2>2, EvidenceStays DEF Statuses, ResultStatuses
  <2> QED
    BY <1>0, <1>e, <2>1, <2>3, EvidenceStays DEF RecordsEvident, RequestStages
<1>4. CASE ApprovedReturn(r)
  <2>1. PICK status \in TriggerStatuses :
          copies' = [copies EXCEPT ![r] =
                       [@ EXCEPT !.status = "verifying",
                                 !.results[requests[r].slot] =
                                    IF status = "success" THEN "success" ELSE "failed"]]
    BY <1>4 DEF ApprovedReturn
  <2>2. requests[r].at = "workflow" /\ requests' = [requests EXCEPT ![r].at = "verifying"]
        /\ UNCHANGED <<store, postedBy>>
    BY <1>4 DEF ApprovedReturn, RequestGoes
  <2>3. copies'[r] \in EvidentRecords'
    <3>1. CASE status = "success"
      <4>1. Live /\ postedBy[r] > 0
        BY <1>d, <2>2, <3>1 DEF TriggerStatuses, Live
      <4>2. requests[r].slot \in Slots => CarriedOut(requests[r].slot)
        BY <4>1 DEF CarriedOut
      <4>3. copies'[r] = [copies[r] EXCEPT !.status = "verifying", !.results[requests[r].slot] = "success"]
        BY <1>0, <2>1, <3>1
      <4>4. /\ copies[r] \in Record /\ copies'[r] \in Record /\ copies'[r].status = "verifying"
            /\ \A s \in Slots : copies'[r].results[s] = copies[r].results[s] \/ s = requests[r].slot
        <5>1. copies[r] \in Record /\ requests[r].slot \in Slots \cup {0}
          BY <1>0 DEF EvidentRecords, RequestState
        <5>2. copies'[r] \in Record
          <6>1. "verifying" \in Statuses /\ "success" \in ResultStatuses
            BY DEF Statuses, ResultStatuses, WorkflowStatuses
          <6>2. [copies[r] EXCEPT !.status = "verifying", !.results[requests[r].slot] = "success"] \in Record
            BY <5>1, <6>1, RecordTypes
          <6> QED
            BY <4>3, <6>2
        <5>3. copies'[r].status = "verifying"
          BY <4>3, <5>1 DEF Record
        <5>4. \A s \in Slots : copies'[r].results[s] = copies[r].results[s] \/ s = requests[r].slot
          BY <4>3, <5>1 DEF Record
        <5> QED
          BY <5>1, <5>2, <5>3, <5>4
      <4> QED
        BY <1>0, <4>1, <4>2, <4>4 DEF EvidentRecords, Evident, TrulyRecovered
    <3>2. CASE status # "success"
      <4>1. copies'[r] = [copies[r] EXCEPT !.status = "verifying", !.results[requests[r].slot] = "failed"]
        BY <1>0, <2>1, <3>2
      <4>2. requests[r].slot \in Slots \cup {0}
        BY <1>0 DEF RequestState
      <4>3. [copies[r] EXCEPT !.status = "verifying", !.results[requests[r].slot] = "failed"] \in EvidentRecords'
        BY <1>0, <4>2, EvidenceStays DEF Statuses, ResultStatuses
      <4> QED
        BY <4>1, <4>3
    <3> QED
      BY <3>1, <3>2
  <2> QED
    BY <1>0, <1>e, <2>1, <2>2, <2>3, EvidenceStays DEF RecordsEvident, RequestStages
<1>5. CASE ApprovedVerify(r)
  <2>1. PICK outcome \in Outcomes :
          /\ outcome = "verified_recovery" => copies[r].results[requests[r].slot] = "success"
          /\ copies' = [copies EXCEPT ![r] = Settle(copies[r], outcome)]
    BY <1>5 DEF ApprovedVerify, VerifyOutcomes, Outcomes
  <2>2. requests[r].at = "verifying" /\ requests' = [requests EXCEPT ![r].at = "saving"]
        /\ UNCHANGED <<store, postedBy>>
    BY <1>5 DEF ApprovedVerify, RequestGoes
  <2>3. requests[r].slot \in Slots
    BY <2>2 DEF ClaimInv, RequestInOrder
  <2>4. Settle(copies[r], outcome) \in EvidentRecords'
    BY <1>0, <2>1, <2>3, EvidenceStays DEF Executed
  <2> QED
    BY <1>0, <1>e, <2>1, <2>2, <2>4, EvidenceStays DEF RecordsEvident, RequestStages
<1>6. CASE SaveApproved(r) \/ RequestFails(r)
  <2>1. /\ \E at \in {"done", "failed"} : requests' = [requests EXCEPT ![r].at = at]
        /\ UNCHANGED <<postedBy, copies>>
        /\ store' \in {store, copies[r]}
    BY <1>6 DEF SaveApproved, RequestFails, RequestGoes
  <2> QED
    BY <1>0, <1>e, <2>1, EvidenceStays DEF RecordsEvident, RequestStages
<1> QED
  BY <1>1, <1>2, <1>3, <1>4, <1>5, <1>6 DEF RequestNext

(* Claims, feedback and restarts copy records together with their          *)
(* evidence.                                                               *)
LEMMA WorldKeepsEvidence ==
  ASSUME TypeOK, EvidenceInv, ctx' = ctx, \A s \in Slots : CarriedOut(s) => CarriedOut(s)',
         UNCHANGED vars \/ UpdateControls \/ \E w \in Workers : Feedback(w) \/ CrashRestart(w)
  PROVE  EvidenceInv'
<1>0. /\ pipe \in PipeState /\ requests \in [Requests -> RequestState]
      /\ copies \in [CopyIds -> EvidentRecords] /\ store \in EvidentRecords /\ (Live' <=> Live)
  BY DEF TypeOK, EvidenceInv, RecordsEvident, Live
<1>1. CASE UNCHANGED <<pipe, requests, postedBy, copies>> /\ store' \in EvidentRecords
  <2>1. RecordsEvident'
    BY <1>0, <1>1, EvidenceStays DEF RecordsEvident
  <2>2. PipeEvident'
    BY <1>0, <1>1 DEF EvidenceInv, PipeEvident
  <2>3. \A r \in Requests : requests'[r].at = "workflow" /\ Live' => postedBy'[r] > 0
    BY <1>0, <1>1 DEF EvidenceInv
  <2> QED
    BY <2>1, <2>2, <2>3 DEF EvidenceInv
<1>2. CASE UNCHANGED vars \/ UpdateControls
  BY <1>0, <1>1, <1>2 DEF vars, UpdateControls
<1>3. ASSUME NEW w \in Workers, Feedback(w) PROVE EvidenceInv'
  <2>1. SeenBy(w) \in EvidentRecords
    BY <1>0 DEF SeenBy, TypeOK
  <2> QED
    BY <1>1, <1>3, <2>1 DEF Feedback
<1>4. ASSUME NEW w \in Workers, CrashRestart(w) PROVE EvidenceInv'
  <2>1. \A c \in CopyIds : copies'[c] \in {copies[c], store, NoRecord} /\ copies' = [c2 \in CopyIds |-> copies'[c2]]
    BY <1>4 DEF CrashRestart
  <2>2. RecordsEvident'
    BY <1>0, <1>4, <2>1, EvidenceStays DEF RecordsEvident, CrashRestart
  <2>3. pipe' = pipe \/ pipe' = [pipe EXCEPT !.at = "lost"]
    BY <1>4 DEF CrashRestart
  <2>4. PipeEvident'
    BY <1>0, <2>3 DEF EvidenceInv, PipeEvident, PipeState
  <2>5. postedBy' = postedBy /\ \A r \in Requests : requests'[r].at \in {requests[r].at, "lost"}
    BY <1>0, <1>4 DEF CrashRestart, RequestState
  <2>6. \A r \in Requests : requests'[r].at = "workflow" /\ Live' => postedBy'[r] > 0
    BY <1>0, <2>5 DEF EvidenceInv
  <2> QED
    BY <2>2, <2>4, <2>6 DEF EvidenceInv
<1> QED
  BY <1>2, <1>3, <1>4

(* Every step keeps EvidenceInv.                                           *)
LEMMA EvidenceInvStep == TypeOK /\ ClaimInv /\ EvidenceInv /\ [Next]_vars => EvidenceInv'
<1> SUFFICES ASSUME TypeOK, ClaimInv, EvidenceInv, [Next]_vars PROVE EvidenceInv'
  OBVIOUS
<1>1. TypeOK' /\ ctx' = ctx /\ \A s \in Slots : CarriedOut(s) => CarriedOut(s)'
  BY TypeStep, CarriedOutStays
<1> QED
  BY <1>1, PipelineKeepsEvidence, RequestKeepsEvidence, WorldKeepsEvidence DEF Next

(* EvidenceInv holds always.                                               *)
LEMMA EvidenceInvHolds == Spec => []EvidenceInv
<1>1. Init => EvidenceInv
  BY EvidenceInvInit
<1>2. TypeOK /\ ClaimInv /\ EvidenceInv /\ [Next]_vars => EvidenceInv'
  BY EvidenceInvStep
<1> QED
  BY <1>1, <1>2, TypeCorrect, ClaimInvHolds, PTL DEF Spec

(* However the copies diverge and the workers crash, no record ever says   *)
(* "verified recovered" without a live webhook that was posted and         *)
(* succeeded, and a verification that confirmed the recovery.              *)
THEOREM RecoveredIsVerifiedAlways == Spec => []RecoveredIsVerified
<1>1. EvidenceInv => RecoveredIsVerified
  BY DEF EvidenceInv, RecordsEvident, EvidentRecords, Evident, RecoveredIsVerified
<1> QED
  BY <1>1, EvidenceInvHolds, PTL

-----------------------------------------------------------------------------
(* Claims that are not undone.                                             *)

Unclaimed == \A r \in Requests : requests[r].at = "idle"

\* No approval is claimed between the two saves of the outcome, of which the
\* second would put the proposal back: the first makes it known to the other
\* workers.
ClaimsFollowSaves ==
  \A r \in Requests, w \in Workers, approved \in BOOLEAN : Claim(r, w, approved) => pipe.at # "brief"

\* After a claim no feedback puts another record than the durable one back.
ClaimsUndisturbed ==
  /\ ClaimsFollowSaves
  /\ \A w \in Workers : Feedback(w) => Unclaimed \/ store' = store

\* No feedback puts another record than the durable one back.
RecordUndisturbed ==
  /\ ClaimsFollowSaves
  /\ \A w \in Workers : Feedback(w) => store' = store

(* The second condition is the stronger one.                               *)
LEMMA RecordIncludesClaims == [RecordUndisturbed]_vars => [ClaimsUndisturbed]_vars
BY DEF RecordUndisturbed, ClaimsUndisturbed

(* One worker without feedback never meets either: its event loop answers  *)
(* no approval between the two saves.                                      *)
LEMMA AloneIsUndisturbed ==
  ASSUME Workers = {Home}, MaxFeedback = 0
  PROVE  Spec => [][RecordUndisturbed]_vars
<1>1. TypeOK /\ [Next]_vars => [RecordUndisturbed]_vars
  <2> SUFFICES ASSUME TypeOK PROVE RecordUndisturbed
    OBVIOUS
  <2>1. \A w \in Workers : ~Feedback(w)
    BY DEF Feedback, TypeOK
  <2>2. ClaimsFollowSaves
    BY DEF ClaimsFollowSaves, Claim, LoopFree, Busy
  <2> QED
    BY <2>1, <2>2 DEF RecordUndisturbed
<1> QED
  BY <1>1, TypeCorrect, PTL DEF Spec

-----------------------------------------------------------------------------
(* What the copies hold before anybody has claimed.                        *)

\* Only Home's map refers to the pipeline's copy, which waits from the
\* summary on; what another worker loaded waits only once that was saved.
EarlyCopies ==
  /\ \A w \in Workers : active[w] = "pipeline" => w = Home
  /\ copies["pipeline"].status = "awaiting_approval" =>
       pipe.at \in {"saving", "brief", "closing", "done", "failed", "lost"}
  /\ \A w \in Workers : copies[w].status = "awaiting_approval" =>
       pipe.at \in {"brief", "closing", "done", "failed", "lost"}
  /\ \A r \in Requests : requests[r].at = "idle" => copies[r] = NoRecord
  /\ Unclaimed => \A w \in Workers, s \in Slots : copies[w].results[s] # "rejected"

-----------------------------------------------------------------------------
(* One claim, for good.                                                    *)

\* At most one request ever wins a claim; from then on the pipeline saves
\* nothing, and no copy that is still to be saved waits for an approval.
AtMostOneClaim ==
  \A q, r \in Requests : requests[q].at # "idle" /\ requests[r].at # "idle" => q = r

ClaimEndsWaiting ==
  \A r \in Requests : requests[r].at # "idle" =>
    /\ store.status # "awaiting_approval"
    /\ copies[r].status # "awaiting_approval"
    /\ pipe.at \in {"closing", "done", "failed", "lost"}

WaitingIsSaved ==
  store.status = "awaiting_approval" => pipe.at \in {"brief", "closing", "done", "failed", "lost"}

\* Only a request that ended with a rejection leaves one in the store.
RejectionsAreOwned ==
  /\ \A s \in Slots : pipe.results[s] # "rejected" /\ copies["pipeline"].results[s] # "rejected"
  /\ \A r \in Requests : requests[r].at \in {"claimed", "workflow", "verifying", "saving"} =>
       \A s \in Slots : copies[r].results[s] # "rejected"
  /\ \A s \in Slots : store.results[s] = "rejected" => \E r \in Requests : requests[r].at = "done"

OneClaimInv == AtMostOneClaim /\ ClaimEndsWaiting /\ WaitingIsSaved /\ RejectionsAreOwned

(* OneClaimInv holds when the program starts.                              *)
LEMMA OneClaimInvInit == Init => OneClaimInv
<1> SUFFICES ASSUME Init PROVE OneClaimInv
  OBVIOUS
<1>1. "pipeline" \in CopyIds
  BY DEF CopyIds
<1> QED
  BY <1>1 DEF Init, OneClaimInv, AtMostOneClaim, ClaimEndsWaiting, WaitingIsSaved, RejectionsAreOwned, NoRecord

(* While the pipeline still saves nobody has claimed anything: it is       *)
(* enough that its copy does not wait and holds no rejection.              *)
LEMMA PipelineKeepsOneClaim ==
  ASSUME TypeOK, TypeOK', OneClaimInv, PipeNext \/ PipeFails
  PROVE  OneClaimInv'
<1>0. /\ pipe \in PipeState /\ pipe' \in PipeState /\ copies \in [CopyIds -> Record] /\ "pipeline" \in CopyIds
      /\ \A r \in Requests : r \in CopyIds /\ r # "pipeline"
  BY LifecycleAssumption DEF TypeOK, CopyIds
<1>1. requests' = requests
  BY DEF PipeNext, Detect, Investigate, Diagnose, StartExecution, HoldBack, AutoTrigger, AutoReturn,
         Summarise, AutoVerify, SaveOutcome, SaveBrief, Close, PipeFails
<1>2. \A r \in Requests : copies'[r] = copies[r]
  BY <1>0 DEF PipeNext, Detect, Investigate, Diagnose, StartExecution, HoldBack, AutoTrigger, AutoReturn,
         Summarise, AutoVerify, SaveOutcome, SaveBrief, Close, PipeFails, PipeSaves
<1>3. AtMostOneClaim'
  BY <1>1 DEF OneClaimInv, AtMostOneClaim
<1>4. SUFFICES /\ ClaimEndsWaiting' /\ WaitingIsSaved'
               /\ \A s \in Slots : pipe'.results[s] # "rejected" /\ copies'["pipeline"].results[s] # "rejected"
               /\ \A s \in Slots : store'.results[s] = "rejected" => \E r \in Requests : requests[r].at = "done"
  BY <1>0, <1>1, <1>2, <1>3 DEF OneClaimInv, RejectionsAreOwned
<1>5. /\ \A s \in Slots : pipe.results[s] # "rejected" /\ copies["pipeline"].results[s] # "rejected"
      /\ \A s \in Slots : store.results[s] = "rejected" => \E r \in Requests : requests[r].at = "done"
  BY DEF OneClaimInv, RejectionsAreOwned
<1>6. \A r \in Requests : pipe.at \notin {"closing", "done", "failed", "lost"} => requests[r].at = "idle"
  BY DEF OneClaimInv, ClaimEndsWaiting
<1>7. CASE Detect \/ Investigate \/ Diagnose
  <2>1. PICK rec \in {NoRecord, copies["pipeline"]},
             status \in {"detected", "investigating", "recommendation_ready"} :
          store' = [rec EXCEPT !.status = status] /\ copies' = [copies EXCEPT !["pipeline"] = store']
    BY <1>7 DEF Detect, Investigate, Diagnose, PipeSaves
  <2>2. store'.status = status /\ store'.results = rec.results
    BY <1>0, <2>1 DEF Record, NoRecord
  <2>3. \A s \in Slots : store'.results[s] # "rejected"
    BY <1>5, <2>1, <2>2 DEF NoRecord
  <2>4. pipe'.results = pipe.results /\ pipe.at \in {"idle", "detected", "diagnosing"}
    BY <1>0, <1>7 DEF Detect, Investigate, Diagnose, PipeGoes, PipeState
  <2> QED
    BY <1>0, <1>1, <1>5, <1>6, <2>1, <2>2, <2>3, <2>4 DEF ClaimEndsWaiting, WaitingIsSaved
<1>8. CASE StartExecution \/ Summarise \/ AutoVerify
  <2>1. pipe.at \in {"ready", "acting", "verifying"} /\ store' = store /\ pipe'.results = pipe.results
    BY <1>0, <1>8 DEF StartExecution, Summarise, AutoVerify, PipeGoes, PipeState
  <2>2. copies'["pipeline"].results \in {copies["pipeline"].results, pipe.results}
    <3>1. CASE StartExecution
      BY <1>0, <3>1 DEF StartExecution, Record
    <3>2. CASE Summarise
      <4>1. PICK status : copies' = [copies EXCEPT !["pipeline"] =
                            [[@ EXCEPT !.results = pipe.results] EXCEPT !.status = status]]
        BY <3>2 DEF Summarise
      <4> QED
        BY <1>0, <4>1 DEF Record
    <3>3. CASE AutoVerify
      <4>1. PICK outcome : copies' = [copies EXCEPT !["pipeline"] = Settle(@, outcome)]
        BY <3>3 DEF AutoVerify
      <4> QED
        BY <1>0, <4>1 DEF Settle, Record
    <3> QED
      BY <1>8, <3>1, <3>2, <3>3
  <2> QED
    BY <1>1, <1>5, <1>6, <2>1, <2>2 DEF ClaimEndsWaiting, WaitingIsSaved, OneClaimInv
<1>9. CASE HoldBack \/ AutoTrigger \/ AutoReturn
  <2>1. /\ pipe.at \in {"acting", "workflow"} /\ pipe'.at \in {"acting", "workflow"}
        /\ store' = store /\ copies' = copies
    BY <1>0, <1>9 DEF HoldBack, AutoTrigger, AutoReturn, PipeGoes, PipeState
  <2>2. \A s \in Slots : pipe'.results[s] # "rejected"
    <3>1. CASE AutoTrigger
      BY <1>0, <1>5, <3>1 DEF AutoTrigger, PipeGoes, PipeState
    <3>2. CASE HoldBack \/ AutoReturn
      <4>1. PICK result \in ResultStatuses \ {"rejected"} :
              \/ pipe' = [pipe EXCEPT !.results[pipe.next] = result, !.next = @ + 1]
              \/ pipe' = [pipe EXCEPT !.at = "acting", !.results[pipe.next] = result, !.next = @ + 1]
        BY <3>2 DEF HoldBack, AutoReturn, ResultOf, TriggerStatuses, ResultStatuses, WorkflowStatuses
      <4>2. pipe'.results = [pipe.results EXCEPT ![pipe.next] = result]
        BY <1>0, <4>1 DEF PipeState
      <4> QED
        BY <1>0, <1>5, <4>2 DEF PipeState
    <3> QED
      BY <1>9, <3>1, <3>2
  <2> QED
    BY <1>1, <1>5, <1>6, <2>1, <2>2 DEF ClaimEndsWaiting, WaitingIsSaved, OneClaimInv
<1>10. CASE SaveOutcome \/ SaveBrief
  <2>1. /\ pipe.at \in {"saving", "brief"} /\ pipe'.at \in {"brief", "closing"} /\ pipe'.results = pipe.results
        /\ store' = copies["pipeline"] /\ copies' = copies
    BY <1>0, <1>10 DEF SaveOutcome, SaveBrief, PipeGoes, PipeSaves, PipeState
  <2> QED
    BY <1>1, <1>5, <1>6, <2>1 DEF ClaimEndsWaiting, WaitingIsSaved
<1>11. CASE Close \/ PipeFails
  <2>1. /\ pipe'.at \in {"done", "failed"} /\ pipe'.results = pipe.results
        /\ store' = store /\ copies' = copies
    BY <1>0, <1>11 DEF Close, PipeFails, PipeGoes, PipeState
  <2> QED
    BY <1>1, <1>5, <2>1 DEF ClaimEndsWaiting, WaitingIsSaved, OneClaimInv
<1> QED
  BY <1>7, <1>8, <1>9, <1>10, <1>11 DEF PipeNext

(* What a request does while it is the only one that claimed.              *)
LEMMA RequestKeepsOneClaim ==
  ASSUME TypeOK, OneClaimInv, ClaimsUndisturbed, NEW r \in Requests,
         RequestNext(r) \/ RequestFails(r) \/ \E w \in Workers, approved \in BOOLEAN : Claim(r, w, approved)
  PROVE  OneClaimInv'
<1>0. /\ requests \in [Requests -> RequestState] /\ copies \in [CopyIds -> Record] /\ store \in Record
      /\ pipe \in PipeState /\ "pipeline" \in CopyIds
      /\ \A q \in Requests : q \in CopyIds /\ q # "pipeline"
  BY LifecycleAssumption DEF TypeOK, CopyIds
<1>1. CASE \E w \in Workers, approved \in BOOLEAN : Claim(r, w, approved)
  <2>1. PICK w \in Workers, approved \in BOOLEAN : Claim(r, w, approved)
    BY <1>1
  <2>2. PICK s \in Slots :
          /\ Claimable(store, {s})
          /\ store' = ClaimedRecord(s, approved)
          /\ copies' = [copies EXCEPT ![r] = ClaimedRecord(s, approved)]
          /\ requests' = [requests EXCEPT ![r] =
                            [at      |-> StageAfterClaim(approved),
                             verdict |-> IF approved THEN "approved" ELSE "rejected",
                             worker  |-> w,
                             slot    |-> s]]
    BY <2>1 DEF Claim
  <2>3. store.status = "awaiting_approval" /\ pipe' = pipe
    BY <2>1, <2>2 DEF Claimable, Claim
  <2>4. \A q \in Requests : requests[q].at = "idle"
    BY <2>3 DEF OneClaimInv, ClaimEndsWaiting
  <2>5. pipe.at \in {"closing", "done", "failed", "lost"}
    BY <2>1, <2>3 DEF OneClaimInv, WaitingIsSaved, ClaimsUndisturbed, ClaimsFollowSaves
  <2>6. \A q \in Requests : q # r => requests'[q] = requests[q]
    BY <1>0, <2>2
  <2>7. requests'[r].at = IF approved THEN "claimed" ELSE "done"
    BY <1>0, <2>2 DEF StageAfterClaim
  <2>8. store'.status # "awaiting_approval" /\ copies'[r] = store' /\ copies'["pipeline"] = copies["pipeline"]
    BY <1>0, <2>2 DEF ClaimedRecord, Record
  <2>9. \A t \in Slots : store.results[t] # "rejected"
    BY <2>4 DEF OneClaimInv, RejectionsAreOwned
  <2>10. approved => \A t \in Slots : store'.results[t] # "rejected"
    BY <1>0, <2>2, <2>9 DEF ClaimedRecord, Record
  <2>11. AtMostOneClaim' /\ ClaimEndsWaiting' /\ WaitingIsSaved'
    BY <2>3, <2>4, <2>5, <2>6, <2>8 DEF AtMostOneClaim, ClaimEndsWaiting, WaitingIsSaved
  <2>12. RejectionsAreOwned'
    BY <2>3, <2>4, <2>6, <2>7, <2>8, <2>10 DEF OneClaimInv, RejectionsAreOwned
  <2> QED
    BY <2>11, <2>12 DEF OneClaimInv
<1>2. CASE RequestNext(r) \/ RequestFails(r)
  <2>1. PICK at \in RequestStages \ {"idle"} : requests' = [requests EXCEPT ![r].at = at]
    BY <1>2 DEF RequestNext, RequestFails, TriggerApproved, DenyApproved, ApprovedReturn, ApprovedVerify,
                SaveApproved, RequestGoes, RequestStages
  <2>2. requests[r].at \in {"claimed", "workflow", "verifying", "saving"} /\ pipe' = pipe
    BY <1>2 DEF RequestNext, RequestFails, TriggerApproved, DenyApproved, ApprovedReturn, ApprovedVerify,
                SaveApproved, RequestGoes
  <2>3. \A q \in Requests : q # r => requests'[q] = requests[q] /\ requests[q].at = "idle"
    BY <1>0, <2>1, <2>2 DEF OneClaimInv, AtMostOneClaim
  <2>4. requests'[r].at = at
    BY <1>0, <2>1 DEF RequestState
  <2>5. copies[r].status # "awaiting_approval" /\ \A s \in Slots : copies[r].results[s] # "rejected"
    BY <2>2 DEF OneClaimInv, ClaimEndsWaiting, RejectionsAreOwned
  <2>6. /\ \A c \in CopyIds : c # r => copies'[c] = copies[c]
        /\ copies'[r].status # "awaiting_approval"
        /\ \A s \in Slots : copies'[r].results[s] # "rejected"
    <3>1. CASE TriggerApproved(r) \/ SaveApproved(r) \/ RequestFails(r)
      BY <2>5, <3>1 DEF TriggerApproved, SaveApproved, RequestFails
    <3>2. CASE DenyApproved(r)
      BY <1>0, <2>5, <3>2 DEF DenyApproved, Record
    <3>3. CASE ApprovedReturn(r)
      <4>1. PICK result \in {"success", "failed"} :
              copies' = [copies EXCEPT ![r] =
                           [@ EXCEPT !.status = "verifying", !.results[requests[r].slot] = result]]
        BY <3>3 DEF ApprovedReturn
      <4> QED
        BY <1>0, <2>5, <4>1 DEF Record
    <3>4. CASE ApprovedVerify(r)
      <4>1. PICK outcome \in Outcomes : copies' = [copies EXCEPT ![r] = Settle(copies[r], outcome)]
        BY <3>4 DEF ApprovedVerify, VerifyOutcomes, Outcomes
      <4> QED
        BY <1>0, <2>5, <4>1 DEF Settle, Record
    <3> QED
      BY <1>2, <3>1, <3>2, <3>3, <3>4 DEF RequestNext
  <2>7. store' \in {store, copies'[r]}
    BY <1>0, <1>2 DEF RequestNext, RequestFails, TriggerApproved, DenyApproved, ApprovedReturn, ApprovedVerify,
                SaveApproved
  <2>8. AtMostOneClaim' /\ ClaimEndsWaiting' /\ WaitingIsSaved'
    BY <1>0, <2>2, <2>3, <2>4, <2>6, <2>7 DEF OneClaimInv, AtMostOneClaim, ClaimEndsWaiting, WaitingIsSaved
  <2>9. RejectionsAreOwned'
    BY <1>0, <2>2, <2>3, <2>4, <2>6, <2>7 DEF OneClaimInv, RejectionsAreOwned
  <2> QED
    BY <2>8, <2>9 DEF OneClaimInv
<1> QED
  BY <1>1, <1>2

(* Feedback finds no copy that waits before the record does, and a restart *)
(* replaces every copy by the durable one.                                 *)
LEMMA WorldKeepsOneClaim ==
  ASSUME TypeOK, OneClaimInv, EarlyCopies, ClaimsUndisturbed,
         UNCHANGED vars \/ UpdateControls \/ \E w \in Workers : Feedback(w) \/ CrashRestart(w)
  PROVE  OneClaimInv'
<1>0. /\ requests \in [Requests -> RequestState] /\ copies \in [CopyIds -> Record] /\ pipe \in PipeState
      /\ "pipeline" \in CopyIds /\ \A r \in Requests : r \in CopyIds \ Workers
      /\ "pipeline" \notin Workers
  BY LifecycleAssumption DEF TypeOK, CopyIds
<1>1. CASE UNCHANGED vars \/ UpdateControls
  BY <1>1 DEF vars, UpdateControls, OneClaimInv, AtMostOneClaim, ClaimEndsWaiting, WaitingIsSaved,
              RejectionsAreOwned
<1>2. ASSUME NEW w \in Workers, Feedback(w) PROVE OneClaimInv'
  <2>1. copies' = copies /\ pipe' = pipe /\ requests' = requests
    BY <1>2 DEF Feedback
  <2>2. SUFFICES /\ store' = store \/ Unclaimed
                 /\ store'.status = "awaiting_approval" => pipe.at \in {"brief", "closing", "done", "failed", "lost"}
                 /\ \A s \in Slots : store'.results[s] = "rejected" => \E r \in Requests : requests[r].at = "done"
    BY <2>1 DEF Unclaimed, OneClaimInv, AtMostOneClaim, ClaimEndsWaiting, WaitingIsSaved, RejectionsAreOwned
  <2>3. CASE store' = store
    BY <2>3 DEF OneClaimInv, WaitingIsSaved, RejectionsAreOwned
  <2>4. CASE Unclaimed /\ store' # store
    <3>1. active[w] \in CopyIds /\ store' = copies[active[w]]
      BY <1>2, <2>4 DEF Feedback, SeenBy, TypeOK
    <3>2. CASE active[w] = "pipeline"
      <4>1. pipe.at # "saving"
        BY <1>2, <3>2 DEF EarlyCopies, Feedback, LoopFree, Busy
      <4> QED
        BY <2>4, <3>1, <3>2, <4>1 DEF EarlyCopies, OneClaimInv, RejectionsAreOwned
    <3>3. CASE active[w] \in Requests
      <4>1. store' = NoRecord
        BY <2>4, <3>1, <3>3 DEF EarlyCopies, Unclaimed
      <4> QED
        BY <2>4, <4>1 DEF NoRecord
    <3>4. CASE active[w] \in Workers
      BY <2>4, <3>1, <3>4 DEF EarlyCopies
    <3> QED
      BY <3>1, <3>2, <3>3, <3>4 DEF CopyIds
  <2> QED
    BY <1>2, <2>3, <2>4 DEF ClaimsUndisturbed
<1>3. ASSUME NEW w \in Workers, CrashRestart(w) PROVE OneClaimInv'
  <2>1. store' = store /\ \A c \in CopyIds \ Workers : copies'[c] \in {copies[c], NoRecord}
    BY <1>0, <1>3 DEF CrashRestart
  <2>2. NoRecord.status = "absent" /\ \A s \in Slots : NoRecord.results[s] = "none"
    BY DEF NoRecord
  <2>3. pipe' = pipe \/ pipe' = [pipe EXCEPT !.at = "lost"]
    BY <1>3 DEF CrashRestart
  <2>4. pipe'.at \in {pipe.at, "lost"} /\ pipe'.results = pipe.results
    BY <1>0, <2>3 DEF PipeState
  <2>5. \A r \in Requests : \/ requests'[r].at = requests[r].at
                            \/ requests'[r].at = "lost" /\ requests[r].at \notin {"idle", "done"}
    BY <1>0, <1>3 DEF CrashRestart, LostWith, RequestState
  <2>6. AtMostOneClaim' /\ ClaimEndsWaiting' /\ WaitingIsSaved'
    BY <1>0, <2>1, <2>2, <2>4, <2>5 DEF OneClaimInv, AtMostOneClaim, ClaimEndsWaiting, WaitingIsSaved
  <2>7. RejectionsAreOwned'
    BY <1>0, <2>1, <2>2, <2>4, <2>5 DEF OneClaimInv, RejectionsAreOwned
  <2> QED
    BY <2>6, <2>7 DEF OneClaimInv
<1> QED
  BY <1>1, <1>2, <1>3

(* EarlyCopies holds when the program starts.                              *)
LEMMA EarlyCopiesInit == Init => EarlyCopies
<1> SUFFICES ASSUME Init PROVE EarlyCopies
  OBVIOUS
<1>1. /\ "pipeline" \in CopyIds /\ Requests \subseteq CopyIds /\ Workers \subseteq CopyIds
      /\ "pipeline" # "none"
  BY DEF CopyIds
<1> QED
  BY <1>1 DEF Init, EarlyCopies, NoRecord

(* The pipeline's copy waits from the summary on, and nobody else's        *)
(* changes.                                                                *)
LEMMA PipelineKeepsEarly ==
  ASSUME TypeOK, TypeOK', EarlyCopies, PipeNext \/ PipeFails
  PROVE  EarlyCopies'
<1>0. /\ pipe \in PipeState /\ copies \in [CopyIds -> Record] /\ active \in [Workers -> CopyIds \cup {"none"}]
      /\ "pipeline" \in CopyIds /\ Home \in Workers
      /\ \A c \in Requests \cup Workers : c \in CopyIds /\ c # "pipeline"
  BY LifecycleAssumption DEF TypeOK, CopyIds
<1>1. requests' = requests
  BY DEF PipeNext, Detect, Investigate, Diagnose, StartExecution, HoldBack, AutoTrigger, AutoReturn,
         Summarise, AutoVerify, SaveOutcome, SaveBrief, Close, PipeFails
<1>2. \A c \in Requests \cup Workers : copies'[c] = copies[c]
  BY <1>0 DEF PipeNext, Detect, Investigate, Diagnose, StartExecution, HoldBack, AutoTrigger, AutoReturn,
         Summarise, AutoVerify, SaveOutcome, SaveBrief, Close, PipeFails, PipeSaves
<1>3. \A w \in Workers : w # Home => active'[w] = active[w]
  BY <1>0 DEF PipeNext, Detect, Investigate, Diagnose, StartExecution, HoldBack, AutoTrigger, AutoReturn,
         Summarise, AutoVerify, SaveOutcome, SaveBrief, Close, PipeFails
<1>4. pipe.at \in {"brief", "closing", "done", "failed", "lost"} =>
        pipe'.at \in {"brief", "closing", "done", "failed", "lost"}
  BY <1>0 DEF PipeNext, Detect, Investigate, Diagnose, StartExecution, HoldBack, AutoTrigger, AutoReturn,
         Summarise, AutoVerify, SaveOutcome, SaveBrief, Close, PipeFails, PipeGoes, PipeState
<1>5. copies'["pipeline"].status = "awaiting_approval" =>
        pipe'.at \in {"saving", "brief", "closing", "done", "failed", "lost"}
  <2>1. CASE Detect \/ Investigate \/ Diagnose
    BY <1>0, <2>1 DEF Detect, Investigate, Diagnose, PipeSaves, Record, NoRecord
  <2>2. CASE StartExecution
    BY <1>0, <2>2 DEF StartExecution, PipeGoes, PipeState, Record, EarlyCopies
  <2>3. CASE Summarise
    <3>1. PICK status : /\ copies' = [copies EXCEPT !["pipeline"] =
                                       [[@ EXCEPT !.results = pipe.results] EXCEPT !.status = status]]
                        /\ PipeGoes("acting", IF status = "verifying" THEN "verifying" ELSE "saving")
      BY <2>3 DEF Summarise
    <3>2. /\ copies'["pipeline"].status = status
          /\ pipe'.at = IF status = "verifying" THEN "verifying" ELSE "saving"
      BY <1>0, <3>1 DEF Record, PipeGoes, PipeState
    <3> QED
      BY <3>2
  <2>4. CASE AutoVerify
    <3>1. PICK outcome : copies' = [copies EXCEPT !["pipeline"] = Settle(@, outcome)]
      BY <2>4 DEF AutoVerify
    <3> QED
      BY <1>0, <3>1 DEF Settle, Record
  <2>5. CASE HoldBack \/ AutoTrigger \/ AutoReturn
    BY <1>0, <2>5 DEF HoldBack, AutoTrigger, AutoReturn, PipeGoes, PipeState, EarlyCopies
  <2>6. CASE SaveOutcome \/ SaveBrief \/ Close \/ PipeFails
    BY <1>0, <2>6 DEF SaveOutcome, SaveBrief, Close, PipeFails, PipeGoes, PipeState
  <2> QED
    BY <2>1, <2>2, <2>3, <2>4, <2>5, <2>6 DEF PipeNext
<1> QED
  BY <1>1, <1>2, <1>3, <1>4, <1>5 DEF EarlyCopies, Unclaimed

(* A request that claimed stays so, and refers its worker to its own copy. *)
LEMMA RequestKeepsEarly ==
  ASSUME TypeOK, EarlyCopies, NEW r \in Requests,
         RequestNext(r) \/ RequestFails(r) \/ \E w \in Workers, approved \in BOOLEAN : Claim(r, w, approved)
  PROVE  EarlyCopies'
<1>0. /\ requests \in [Requests -> RequestState] /\ copies \in [CopyIds -> Record]
      /\ active \in [Workers -> CopyIds \cup {"none"}]
      /\ r # "pipeline" /\ r \notin Workers /\ "none" # "pipeline"
  BY LifecycleAssumption DEF TypeOK
<1>1. pipe' = pipe
  BY DEF RequestNext, RequestFails, TriggerApproved, DenyApproved, ApprovedReturn, ApprovedVerify,
         SaveApproved, Claim
<1>2. /\ \A c \in CopyIds : c # r => copies'[c] = copies[c]
      /\ \A w \in Workers : active'[w] \in {active[w], r, "none"}
  BY <1>0 DEF RequestNext, RequestFails, TriggerApproved, DenyApproved, ApprovedReturn, ApprovedVerify,
         SaveApproved, Claim
<1>3. requests'[r].at # "idle" /\ \A q \in Requests : q # r => requests'[q] = requests[q]
  <2>1. CASE \E w \in Workers, approved \in BOOLEAN : Claim(r, w, approved)
    BY <1>0, <2>1 DEF Claim, StageAfterClaim
  <2>2. CASE RequestNext(r) \/ RequestFails(r)
    <3>1. \E at \in {"workflow", "done", "verifying", "saving", "failed"} :
            requests' = [requests EXCEPT ![r] = [requests[r] EXCEPT !.at = at]]
      BY <2>2, Zenon DEF RequestNext, RequestFails, TriggerApproved, DenyApproved, ApprovedReturn,
         ApprovedVerify, SaveApproved, RequestGoes
    <3>2. PICK at \in {"workflow", "done", "verifying", "saving", "failed"} :
            requests' = [requests EXCEPT ![r] = [requests[r] EXCEPT !.at = at]]
      BY <3>1
    <3>3. requests'[r] = [requests[r] EXCEPT !.at = at] /\ \A q \in Requests : q # r => requests'[q] = requests[q]
      BY <1>0, <3>2
    <3>4. requests'[r].at = at
      BY <1>0, <3>3 DEF RequestState
    <3>5. at # "idle"
      OBVIOUS
    <3> QED
      BY <3>3, <3>4, <3>5, Zenon
  <2> QED
    BY <2>1, <2>2
<1>4. /\ "pipeline" \in CopyIds /\ Workers \subseteq CopyIds /\ Requests \subseteq CopyIds
  BY DEF CopyIds
<1> QED
  BY <1>0, <1>1, <1>2, <1>3, <1>4 DEF EarlyCopies, Unclaimed

(* A worker that starts loads what is durable, and nothing else of the     *)
(* world touches a copy.                                                   *)
LEMMA WorldKeepsEarly ==
  ASSUME TypeOK, OneClaimInv, EarlyCopies,
         UNCHANGED vars \/ UpdateControls \/ \E w \in Workers : Feedback(w) \/ CrashRestart(w)
  PROVE  EarlyCopies'
<1>1. CASE UNCHANGED vars \/ UpdateControls \/ \E w \in Workers : Feedback(w)
  BY <1>1 DEF vars, UpdateControls, Feedback, EarlyCopies, Unclaimed
<1>2. ASSUME NEW w \in Workers, CrashRestart(w) PROVE EarlyCopies'
  <2>0. /\ requests \in [Requests -> RequestState] /\ copies \in [CopyIds -> Record] /\ pipe \in PipeState
        /\ active \in [Workers -> CopyIds \cup {"none"}]
        /\ "pipeline" \in CopyIds \ Workers /\ Workers \subseteq CopyIds
        /\ \A r \in Requests : r \in CopyIds \ Workers
        /\ "none" # "pipeline"
    BY LifecycleAssumption DEF TypeOK, CopyIds
  <2>1. /\ \A c \in CopyIds \ Workers : copies'[c] \in {copies[c], NoRecord}
        /\ \A v \in Workers : copies'[v] \in {copies[v], store, NoRecord}
        /\ \A v \in Workers : active'[v] \in {active[v], w, "none"}
    BY <1>2, <2>0 DEF CrashRestart
  <2>2. NoRecord.status = "absent" /\ \A s \in Slots : NoRecord.results[s] = "none"
    BY DEF NoRecord
  <2>3. pipe'.at \in {pipe.at, "lost"}
    BY <1>2, <2>0 DEF CrashRestart, PipeState
  <2>4. \A r \in Requests : requests'[r].at = "idle" => requests[r].at = "idle"
    BY <1>2, <2>0 DEF CrashRestart, RequestState
  <2>5. Unclaimed' => Unclaimed /\ \A s \in Slots : store.results[s] # "rejected"
    BY <2>4 DEF Unclaimed, OneClaimInv, RejectionsAreOwned
  <2>6. store.status = "awaiting_approval" => pipe.at \in {"brief", "closing", "done", "failed", "lost"}
    BY DEF OneClaimInv, WaitingIsSaved
  <2>7. \A v \in Workers : /\ active'[v] = "pipeline" => v = Home
                           /\ copies'[v].status = "awaiting_approval" =>
                                pipe'.at \in {"brief", "closing", "done", "failed", "lost"}
    BY <2>0, <2>1, <2>2, <2>3, <2>6 DEF EarlyCopies
  <2>8. /\ copies'["pipeline"].status = "awaiting_approval" =>
             pipe'.at \in {"saving", "brief", "closing", "done", "failed", "lost"}
        /\ \A r \in Requests : requests'[r].at = "idle" => copies'[r] = NoRecord
    BY <2>0, <2>1, <2>2, <2>3, <2>4 DEF EarlyCopies
  <2>9. Unclaimed' => \A v \in Workers, s \in Slots : copies'[v].results[s] # "rejected"
    BY <2>1, <2>2, <2>5 DEF EarlyCopies
  <2> QED
    BY <2>7, <2>8, <2>9 DEF EarlyCopies
<1> QED
  BY <1>1, <1>2

(* Every step that does not undo a claim keeps both invariants.            *)
LEMMA OneClaimInvStep ==
  TypeOK /\ OneClaimInv /\ EarlyCopies /\ [Next]_vars /\ [ClaimsUndisturbed]_vars
  => OneClaimInv' /\ EarlyCopies'
<1> SUFFICES ASSUME TypeOK, OneClaimInv, EarlyCopies, [Next]_vars, [ClaimsUndisturbed]_vars
             PROVE  OneClaimInv' /\ EarlyCopies'
  OBVIOUS
<1>1. TypeOK'
  BY TypeStep
<1>2. EarlyCopies'
  BY <1>1, PipelineKeepsEarly, RequestKeepsEarly, WorldKeepsEarly DEF Next
<1>3. CASE UNCHANGED vars
  BY <1>2, <1>3 DEF vars, OneClaimInv, AtMostOneClaim, ClaimEndsWaiting, WaitingIsSaved, RejectionsAreOwned
<1>4. CASE ClaimsUndisturbed
  BY <1>1, <1>2, <1>4, PipelineKeepsOneClaim, RequestKeepsOneClaim, WorldKeepsOneClaim DEF Next
<1> QED
  BY <1>2, <1>3, <1>4

(* Both invariants hold as long as no claim is undone.                     *)
LEMMA OneClaimInvHolds == Spec /\ [][ClaimsUndisturbed]_vars => []OneClaimInv
<1>1. Init => OneClaimInv /\ EarlyCopies
  BY OneClaimInvInit, EarlyCopiesInit
<1> QED
  BY <1>1, OneClaimInvStep, TypeCorrect, PTL DEF Spec

(* For any number of workers, requests, crashes and failures, and with     *)
(* feedback: as long as no claim is undone a proposal is carried out at    *)
(* most once.  The replay runs violate SingleUse without the condition.    *)
THEOREM SingleUseUndisturbed == Spec /\ [][ClaimsUndisturbed]_vars => []SingleUse
<1>1. TypeOK /\ ClaimInv /\ OneClaimInv => SingleUse
  <2> SUFFICES ASSUME TypeOK, ClaimInv, OneClaimInv PROVE SingleUse
    OBVIOUS
  <2>1. \A s \in Slots : autoRuns[s] <= 1
    BY DEF TypeOK, ClaimInv, RunsInOrder
  <2>2. \A r \in Requests : postedBy[r] > 0 => requests[r].at # "idle"
    BY DEF ClaimInv, RequestInOrder
  <2> QED
    BY <2>1, <2>2 DEF SingleUse, OneClaimInv, AtMostOneClaim
<1> QED
  BY <1>1, TypeCorrect, ClaimInvHolds, OneClaimInvHolds, PTL

(* With one worker and no feedback nothing undoes a claim.                 *)
THEOREM SingleUseAlone ==
  ASSUME Workers = {Home}, MaxFeedback = 0
  PROVE  Spec => []SingleUse
BY SingleUseUndisturbed, AloneIsUndisturbed, RecordIncludesClaims, PTL

(* As long as no claim is undone a rejection is final: the durable record  *)
(* keeps it, and nobody posts the rejected proposal any more.              *)
THEOREM RejectionIsFinalUndisturbed == Spec /\ [][ClaimsUndisturbed]_vars => RejectionIsFinal
<1> DEFINE Kept == \A s \in Slots : store.results[s] = "rejected" =>
                     /\ store'.results[s] = "rejected"
                     /\ \A r \in Requests : requests'[r].slot = s => postedBy'[r] = postedBy[r]
<1>1. TypeOK /\ OneClaimInv /\ [Next]_vars /\ [ClaimsUndisturbed]_vars => [Kept]_vars
  <2> SUFFICES ASSUME TypeOK, OneClaimInv, Next, ClaimsUndisturbed, NEW s \in Slots, store.results[s] = "rejected"
               PROVE  store' = store /\ postedBy' = postedBy
    BY DEF vars
  <2>1. PICK r \in Requests : requests[r].at = "done"
    BY DEF OneClaimInv, RejectionsAreOwned
  <2>2. /\ \A q \in Requests : requests[q].at \in {"idle", "done"}
        /\ store.status # "awaiting_approval"
        /\ pipe.at \in {"closing", "done", "failed", "lost"}
    BY <2>1 DEF OneClaimInv, AtMostOneClaim, ClaimEndsWaiting
  <2>3. CASE PipeNext \/ PipeFails
    BY <2>2, <2>3 DEF PipeNext, Detect, Investigate, Diagnose, StartExecution, HoldBack, AutoTrigger,
         AutoReturn, Summarise, AutoVerify, SaveOutcome, SaveBrief, Close, PipeFails, PipeGoes
  <2>4. ASSUME NEW q \in Requests, RequestNext(q) \/ RequestFails(q) PROVE FALSE
    BY <2>2, <2>4 DEF RequestNext, RequestFails, TriggerApproved, DenyApproved, ApprovedReturn,
         ApprovedVerify, SaveApproved, RequestGoes
  <2>5. ASSUME NEW q \in Requests, NEW w \in Workers, NEW approved \in BOOLEAN, Claim(q, w, approved)
        PROVE  FALSE
    BY <2>2, <2>5 DEF Claim, Claimable
  <2>6. ASSUME NEW w \in Workers, Feedback(w) PROVE store' = store /\ postedBy' = postedBy
    BY <2>1, <2>6 DEF Feedback, ClaimsUndisturbed, Unclaimed
  <2>7. CASE UpdateControls \/ \E w \in Workers : CrashRestart(w)
    BY <2>7 DEF UpdateControls, CrashRestart
  <2> QED
    BY <2>3, <2>4, <2>5, <2>6, <2>7 DEF Next
<1> QED
  BY <1>1, TypeCorrect, OneClaimInvHolds, PTL DEF Spec, RejectionIsFinal

(* With one worker and no feedback nothing undoes a claim.                 *)
THEOREM RejectionIsFinalAlone ==
  ASSUME Workers = {Home}, MaxFeedback = 0
  PROVE  Spec => RejectionIsFinal
BY RejectionIsFinalUndisturbed, AloneIsUndisturbed, RecordIncludesClaims, PTL

-----------------------------------------------------------------------------
(* What the durable record promises when nothing puts an old one back.     *)

\* The durable status says how far the pipeline is; where it continues from
\* a saved record, its copy is that record.
StatusByStage ==
  /\ pipe.at = "idle" => store.status = "absent"
  /\ pipe.at = "detected" => store.status = "detected"
  /\ pipe.at = "diagnosing" => store.status = "investigating"
  /\ pipe.at \in {"ready", "acting", "workflow", "verifying", "saving"} =>
       store.status = "recommendation_ready"
  /\ pipe.at = "ready" => copies["pipeline"].status = "recommendation_ready"
  /\ pipe.at = "saving" =>
       copies["pipeline"].status \in {"recommendation_ready", "awaiting_approval",
                                      "verified_recovered", "escalated"}
  /\ pipe.at = "brief" => store = copies["pipeline"]

Recorded(rec, s) == rec.results[s] \in {"success", "error", "simulated_success", "failed"}

Undecided == {"claimed", "workflow", "verifying", "saving"}

\* The result of what the pipeline ran is in its local list, from the
\* summary on in its copy, and from the first save on in the store and in
\* what a request may still save.
RunKept(s) ==
  /\ Live
  /\ pipe.at \notin {"idle", "detected", "diagnosing", "ready"}
  /\ \/ pipe.results[s] \in {"success", "error", "simulated_success"}
     \/ s = pipe.next /\ pipe.at \in {"workflow", "lost"}
  /\ pipe.at \in {"verifying", "saving", "brief"} => Recorded(copies["pipeline"], s)
  /\ pipe.at \in {"closing", "done"} =>
       /\ Recorded(store, s)
       /\ \A r \in Requests : requests[r].at \in Undecided => Recorded(copies[r], s)

RunsAreKept == \A s \in Slots : autoRuns[s] > 0 => RunKept(s)

\* While a request works on its proposal the store says so; its copy has the
\* result from the answer on, and the store has it in the end.
RequestKept(r) ==
  /\ requests[r].at = "idle" => requests[r].slot = 0 /\ requests[r].verdict = "none"
  /\ requests[r].at \in Undecided => store.status = "executing"
  /\ requests[r].at \in {"verifying", "saving"} => Recorded(copies[r], requests[r].slot)
  /\ requests[r].at = "verifying" /\ copies[r].results[requests[r].slot] = "success" => postedBy[r] > 0
  /\ requests[r].at = "saving" =>
       \/ copies[r].status = "escalated"
       \/ copies[r].status = "verified_recovered" /\ postedBy[r] > 0
  /\ requests[r].at = "done" /\ postedBy[r] > 0 => Recorded(store, requests[r].slot)

LedgerInv == StatusByStage /\ RunsAreKept /\ \A r \in Requests : RequestKept(r)

(* LedgerInv holds when the program starts.                                *)
LEMMA LedgerInvInit == Init => LedgerInv
<1> SUFFICES ASSUME Init PROVE LedgerInv
  OBVIOUS
<1>1. StatusByStage
  <2>1. pipe.at = "idle" /\ store.status = "absent"
    BY DEF Init, NoRecord
  <2> QED
    BY <2>1 DEF StatusByStage
<1>2. RunsAreKept
  BY DEF Init, RunsAreKept
<1>3. \A r \in Requests : RequestKept(r)
  BY DEF Init, RequestKept, Undecided
<1> QED
  BY <1>1, <1>2, <1>3 DEF LedgerInv

(* Until the pipeline has saved the outcome nobody claims anything, so its *)
(* steps have only its own copy and the store to keep.                     *)
LEMMA PipelineKeepsLedger ==
  ASSUME TypeOK, TypeOK', ClaimInv, OneClaimInv, LedgerInv, PipeNext \/ PipeFails
  PROVE  LedgerInv'
<1>0. /\ pipe \in PipeState /\ pipe' \in PipeState /\ copies \in [CopyIds -> Record] /\ store \in Record
      /\ "pipeline" \in CopyIds /\ Slots \subseteq Int
      /\ autoRuns \in [Slots -> Nat] /\ pipe.next \in Nat
      /\ \A r \in Requests : r \in CopyIds /\ r # "pipeline"
  <2>1. pipe \in PipeState /\ pipe' \in PipeState /\ copies \in [CopyIds -> Record] /\ store \in Record
    BY DEF TypeOK
  <2>2. autoRuns \in [Slots -> Nat] /\ pipe.next \in Nat /\ Slots \subseteq Int
    BY <2>1 DEF TypeOK, PipeState, Slots
  <2>3. "pipeline" \in CopyIds /\ \A r \in Requests : r \in CopyIds /\ r # "pipeline"
    BY LifecycleAssumption DEF CopyIds
  <2> QED
    BY <2>1, <2>2, <2>3
<1>1. requests' = requests /\ postedBy' = postedBy /\ ctx' = ctx
  BY DEF PipeNext, Detect, Investigate, Diagnose, StartExecution, HoldBack, AutoTrigger, AutoReturn,
         Summarise, AutoVerify, SaveOutcome, SaveBrief, Close, PipeFails
<1>2. \A r \in Requests : pipe.at \notin {"closing", "done", "failed", "lost"} => requests[r].at = "idle"
  BY DEF OneClaimInv, ClaimEndsWaiting
<1>3. /\ Live' <=> Live
      /\ \A r \in Requests : copies'[r] = copies[r]
  <2>1. Live' <=> Live
    BY <1>1 DEF Live
  <2>2. \A r \in Requests : copies'[r] = copies[r]
    BY <1>0 DEF PipeNext, Detect, Investigate, Diagnose, StartExecution, HoldBack, AutoTrigger, AutoReturn,
         Summarise, AutoVerify, SaveOutcome, SaveBrief, Close, PipeFails, PipeSaves
  <2> QED
    BY <2>1, <2>2
<1>4. \A r \in Requests : RequestKept(r)'
  <2>1. CASE Close
    BY <1>1, <2>1 DEF Close, LedgerInv, RequestKept
  <2>2. CASE ~Close
    <3>1. pipe.at \notin {"closing", "done", "failed", "lost"}
      BY <2>2 DEF PipeNext, Detect, Investigate, Diagnose, StartExecution, HoldBack, AutoTrigger, AutoReturn,
         Summarise, AutoVerify, SaveOutcome, SaveBrief, Close, PipeFails, PipeGoes
    <3> QED
      BY <1>1, <1>2, <3>1 DEF LedgerInv, RequestKept, Undecided
  <2> QED
    BY <2>1, <2>2
<1>5. SUFFICES StatusByStage' /\ RunsAreKept'
  BY <1>4 DEF LedgerInv
<1>6. /\ StatusByStage
      /\ \A s \in Slots : autoRuns[s] > 0 => RunKept(s)
      /\ \A s \in Slots : autoRuns[s] > 0 =>
           s < pipe.next \/ (s = pipe.next /\ pipe.at \in {"workflow", "lost"})
  <2>1. StatusByStage /\ RunsAreKept /\ RunsInOrder
    BY DEF LedgerInv, ClaimInv
  <2> QED
    BY <2>1 DEF RunsAreKept, RunsInOrder
<1>7. CASE Detect \/ Investigate \/ Diagnose
  <2>1. /\ autoRuns' = autoRuns
        /\ store' = copies'["pipeline"]
        /\ \/ pipe'.at = "detected" /\ store'.status = "detected"
           \/ pipe'.at = "diagnosing" /\ store'.status = "investigating"
           \/ pipe'.at = "ready" /\ store'.status = "recommendation_ready"
        /\ pipe.at \in {"idle", "detected", "diagnosing"}
    BY <1>0, <1>7 DEF Detect, Investigate, Diagnose, PipeGoes, PipeSaves, PipeState, Record, NoRecord
  <2> QED
    BY <1>6, <2>1 DEF StatusByStage, RunsAreKept, RunKept
<1>8. CASE StartExecution
  <2>1. /\ autoRuns' = autoRuns /\ store' = store /\ pipe.at = "ready"
        /\ pipe'.at \in {"saving", "acting"}
        /\ copies'["pipeline"].status \in {"recommendation_ready", "escalated", "executing"}
        /\ pipe'.at = "saving" => copies'["pipeline"].status \in {"recommendation_ready", "escalated"}
    <3>1. pipe.at = "ready" => copies["pipeline"].status = "recommendation_ready"
      BY <1>6 DEF StatusByStage
    <3> QED
      BY <1>0, <1>8, <3>1 DEF StartExecution, PipeGoes, PipeState, Record
  <2> QED
    BY <1>6, <2>1 DEF StatusByStage, RunsAreKept, RunKept
<1>9. CASE HoldBack
  <2>1. PICK result \in ResultStatuses :
          pipe' = [pipe EXCEPT !.results[pipe.next] = result, !.next = @ + 1]
    BY <1>9 DEF HoldBack, ResultOf, ResultStatuses
  <2>2. /\ pipe.at = "acting" /\ pipe'.at = "acting"
        /\ \A s \in Slots : s # pipe.next => pipe'.results[s] = pipe.results[s]
        /\ autoRuns' = autoRuns /\ store' = store /\ copies' = copies
    BY <1>0, <1>9, <2>1 DEF HoldBack, PipeState
  <2>3. \A s \in Slots : autoRuns[s] > 0 => s # pipe.next
    BY <1>0, <1>6, <2>2
  <2> QED
    BY <1>3, <1>6, <2>2, <2>3 DEF StatusByStage, RunsAreKept, RunKept
<1>10. CASE AutoTrigger
  <2>1. /\ pipe.at = "acting" /\ pipe'.at = "workflow"
        /\ pipe'.results = pipe.results /\ pipe'.next = pipe.next
        /\ store' = store /\ copies' = copies
    BY <1>0, <1>10 DEF AutoTrigger, PipeGoes, PipeState
  <2>2. \A s \in Slots : autoRuns'[s] > 0 => autoRuns[s] > 0 \/ (Live /\ s = pipe.next)
    <3>1. \/ autoRuns' = autoRuns
          \/ Live /\ autoRuns' = [autoRuns EXCEPT ![pipe.next] = @ + 1]
      BY <1>10 DEF AutoTrigger
    <3>2. CASE autoRuns' = autoRuns
      BY <3>2
    <3>3. CASE Live /\ autoRuns' = [autoRuns EXCEPT ![pipe.next] = @ + 1]
      <4>1. \A s \in Slots : s # pipe.next => autoRuns'[s] = autoRuns[s]
        BY <1>0, <3>3
      <4> QED
        BY <3>3, <4>1
    <3> QED
      BY <3>1, <3>2, <3>3
  <2> QED
    BY <1>3, <1>6, <2>1, <2>2 DEF StatusByStage, RunsAreKept, RunKept
<1>11. CASE AutoReturn
  <2>1. PICK status \in TriggerStatuses :
          pipe' = [pipe EXCEPT !.at = "acting", !.results[pipe.next] = status, !.next = @ + 1]
    BY <1>11 DEF AutoReturn
  <2>2. status \in ResultStatuses /\ (Live => status \in {"success", "error", "simulated_success"})
    BY <2>1 DEF TriggerStatuses, ResultStatuses, WorkflowStatuses, Live
  <2>3. /\ pipe.at = "workflow" /\ pipe'.at = "acting"
        /\ \A s \in Slots : pipe'.results[s] = IF s = pipe.next THEN status ELSE pipe.results[s]
        /\ autoRuns' = autoRuns /\ store' = store /\ copies' = copies
    BY <1>0, <1>11, <2>1 DEF AutoReturn, PipeState
  <2> QED
    BY <1>3, <1>6, <2>2, <2>3 DEF StatusByStage, RunsAreKept, RunKept
<1>12. CASE Summarise
  <2>1. PICK status \in {"awaiting_approval", "recommendation_ready", "verifying", "escalated"} :
          /\ copies' = [copies EXCEPT !["pipeline"] =
                          [[copies["pipeline"] EXCEPT !.results = pipe.results] EXCEPT !.status = status]]
          /\ PipeGoes("acting", IF status = "verifying" THEN "verifying" ELSE "saving")
    BY <1>12 DEF Summarise, StatusAfter
  <2>2. /\ pipe.at = "acting" /\ pipe'.at = IF status = "verifying" THEN "verifying" ELSE "saving"
        /\ pipe'.results = pipe.results /\ pipe'.next = pipe.next
        /\ copies'["pipeline"].status = status /\ copies'["pipeline"].results = pipe.results
        /\ autoRuns' = autoRuns /\ store' = store
    <3>1. copies'["pipeline"].status = status /\ copies'["pipeline"].results = pipe.results
      BY <1>0, <2>1 DEF Record
    <3>2. /\ pipe.at = "acting" /\ pipe'.at = IF status = "verifying" THEN "verifying" ELSE "saving"
          /\ pipe'.results = pipe.results /\ pipe'.next = pipe.next
      BY <1>0, <2>1 DEF PipeGoes, PipeState
    <3>3. autoRuns' = autoRuns /\ store' = store
      BY <1>12 DEF Summarise
    <3> QED
      BY <3>1, <3>2, <3>3
  <2> QED
    BY <1>3, <1>6, <2>2 DEF StatusByStage, RunsAreKept, RunKept, Recorded
<1>13. CASE AutoVerify
  <2>1. PICK outcome \in Outcomes :
          copies' = [copies EXCEPT !["pipeline"] = Settle(copies["pipeline"], outcome)]
    BY <1>13 DEF AutoVerify, VerifyOutcomes, Outcomes
  <2>2. /\ pipe.at = "verifying" /\ pipe'.at = "saving"
        /\ pipe'.results = pipe.results /\ pipe'.next = pipe.next
        /\ copies'["pipeline"].status \in {"verified_recovered", "escalated"}
        /\ copies'["pipeline"].results = copies["pipeline"].results
        /\ autoRuns' = autoRuns /\ store' = store
    BY <1>0, <1>13, <2>1 DEF AutoVerify, PipeGoes, PipeState, Settle, Record
  <2> QED
    BY <1>3, <1>6, <2>2 DEF StatusByStage, RunsAreKept, RunKept, Recorded
<1>14. CASE SaveOutcome \/ SaveBrief
  <2>1. /\ pipe.at \in {"saving", "brief"} /\ pipe'.at \in {"brief", "closing"}
        /\ pipe'.results = pipe.results /\ pipe'.next = pipe.next
        /\ store' = copies["pipeline"] /\ copies' = copies
        /\ autoRuns' = autoRuns
    BY <1>0, <1>14 DEF SaveOutcome, SaveBrief, PipeGoes, PipeSaves, PipeState
  <2>2. \A r \in Requests : requests'[r].at \notin Undecided
    BY <1>1, <1>2, <2>1 DEF Undecided
  <2> QED
    BY <1>3, <1>6, <2>1, <2>2 DEF StatusByStage, RunsAreKept, RunKept, Recorded
<1>15. CASE Close \/ PipeFails
  <2>1. /\ \/ pipe.at = "closing" /\ pipe'.at = "done"
           \/ pipe'.at = "failed" /\ pipe.at \in {"diagnosing", "acting", "saving", "brief"}
        /\ pipe'.results = pipe.results /\ pipe'.next = pipe.next
        /\ store' = store /\ copies' = copies /\ autoRuns' = autoRuns
    BY <1>0, <1>15 DEF Close, PipeFails, PipeGoes, PipeState
  <2> QED
    BY <1>1, <1>3, <1>6, <2>1 DEF StatusByStage, RunsAreKept, RunKept
<1> QED
  BY <1>7, <1>8, <1>9, <1>10, <1>11, <1>12, <1>13, <1>14, <1>15 DEF PipeNext

(* A request works alone and only after the pipeline's last save.  The     *)
(* proposal it works on was not run before, so it changes the result of    *)
(* nothing that was.                                                       *)
LEMMA RequestKeepsLedger ==
  ASSUME TypeOK, ClaimInv, EvidenceInv, OneClaimInv, LedgerInv, ClaimsFollowSaves, NEW r \in Requests,
         RequestNext(r) \/ RequestFails(r) \/ \E w \in Workers, approved \in BOOLEAN : Claim(r, w, approved)
  PROVE  LedgerInv'
<1>0. /\ requests \in [Requests -> RequestState] /\ copies \in [CopyIds -> Record] /\ store \in Record
      /\ postedBy \in [Requests -> Nat] /\ r \in CopyIds
  BY DEF TypeOK, CopyIds
<1>1. /\ \A s \in Slots : autoRuns[s] > 0 => RunKept(s)
      /\ \A q \in Requests : RequestKept(q) /\ RequestInOrder(q)
  BY DEF LedgerInv, RunsAreKept, ClaimInv
<1>2. pipe' = pipe /\ autoRuns' = autoRuns /\ ctx' = ctx
  BY DEF RequestNext, RequestFails, TriggerApproved, DenyApproved, ApprovedReturn, ApprovedVerify,
         SaveApproved, Claim
<1>3. /\ pipe.at \in {"closing", "done", "failed", "lost"}
      /\ \A q \in Requests : q # r => requests[q].at = "idle"
  <2>1. CASE requests[r].at # "idle"
    BY <2>1 DEF OneClaimInv, AtMostOneClaim, ClaimEndsWaiting
  <2>2. CASE requests[r].at = "idle"
    <3>1. PICK w \in Workers, approved \in BOOLEAN : Claim(r, w, approved)
      BY <2>2 DEF RequestNext, RequestFails, TriggerApproved, DenyApproved, ApprovedReturn, ApprovedVerify,
                  SaveApproved, RequestGoes
    <3>2. store.status = "awaiting_approval"
      BY <3>1 DEF Claim, Claimable
    <3> QED
      BY <3>1, <3>2 DEF OneClaimInv, ClaimEndsWaiting, WaitingIsSaved, ClaimsFollowSaves
  <2> QED
    BY <2>1, <2>2
<1>4. ASSUME /\ \A q \in Requests : q # r => requests'[q] = requests[q]
             /\ RequestKept(r)'
             /\ \A s \in Slots : autoRuns[s] > 0 /\ pipe.at \in {"closing", "done"} =>
                  /\ Recorded(store', s)
                  /\ requests'[r].at \in Undecided => Recorded(copies'[r], s)
             /\ \A q \in Requests : q # r => postedBy'[q] = postedBy[q]
      PROVE  LedgerInv'
  <2>1. StatusByStage'
    BY <1>2, <1>3 DEF StatusByStage
  <2>2. \A q \in Requests : RequestKept(q)'
    BY <1>1, <1>3, <1>4 DEF RequestKept, Undecided
  <2>3. RunsAreKept'
    BY <1>1, <1>2, <1>3, <1>4 DEF RunsAreKept, RunKept, Live, Undecided
  <2> QED
    BY <2>1, <2>2, <2>3 DEF LedgerInv
<1>5. \A s \in Slots : autoRuns[s] > 0 /\ pipe.at \in {"closing", "done"} =>
        /\ Recorded(store, s)
        /\ requests[r].at \in Undecided => Recorded(copies[r], s) /\ s # requests[r].slot
  BY <1>1 DEF RunKept, RequestInOrder, Undecided
<1>6. CASE \E w \in Workers, approved \in BOOLEAN : Claim(r, w, approved)
  <2>1. PICK w \in Workers, approved \in BOOLEAN : Claim(r, w, approved)
    BY <1>6
  <2>2. PICK s \in Slots :
          /\ Claimable(store, {s})
          /\ store' = ClaimedRecord(s, approved)
          /\ copies' = [copies EXCEPT ![r] = ClaimedRecord(s, approved)]
          /\ requests' = [requests EXCEPT ![r] =
                            [at      |-> StageAfterClaim(approved),
                             verdict |-> IF approved THEN "approved" ELSE "rejected",
                             worker  |-> w,
                             slot    |-> s]]
    BY <2>1 DEF Claim
  <2>3. autoRuns[s] = 0
    BY <2>2 DEF ClaimInv, RecordsWaitUnrun, WaitsUnrun, Claimable, Pending
  <2>4. requests[r].at = "idle" /\ postedBy' = postedBy
    BY <2>1 DEF Claim
  <2>5. /\ requests'[r].at = IF approved THEN "claimed" ELSE "done"
        /\ approved => store'.status = "executing"
        /\ copies'[r] = store'
        /\ \A t \in Slots : t # s => store'.results[t] = store.results[t]
    BY <1>0, <2>2 DEF ClaimedRecord, Record, StageAfterClaim
  <2>6. RequestKept(r)'
    BY <1>1, <2>4, <2>5 DEF RequestKept, RequestInOrder, Undecided
  <2>7. \A t \in Slots : autoRuns[t] > 0 /\ pipe.at \in {"closing", "done"} =>
          Recorded(store', t) /\ Recorded(copies'[r], t)
    BY <1>5, <2>3, <2>5 DEF Recorded
  <2> QED
    BY <1>0, <1>4, <2>2, <2>4, <2>6, <2>7
<1>7. CASE TriggerApproved(r)
  <2>1. /\ requests[r].at = "claimed" /\ requests' = [requests EXCEPT ![r].at = "workflow"]
        /\ store' = store /\ copies' = copies
        /\ postedBy' \in {postedBy, [postedBy EXCEPT ![r] = @ + 1]}
    BY <1>7 DEF TriggerApproved, RequestGoes
  <2>2. /\ requests'[r].at = "workflow"
        /\ \A q \in Requests : q # r => requests'[q] = requests[q] /\ postedBy'[q] = postedBy[q]
    BY <1>0, <2>1 DEF RequestState
  <2>3. RequestKept(r)'
    BY <1>1, <2>1, <2>2 DEF RequestKept, Undecided
  <2> QED
    BY <1>4, <1>5, <2>1, <2>2, <2>3 DEF Undecided
<1>8. CASE DenyApproved(r)
  <2>1. /\ requests[r].at = "claimed" /\ requests' = [requests EXCEPT ![r].at = "done"]
        /\ store' = [copies[r] EXCEPT !.status = "escalated", !.results[requests[r].slot] = "policy_denied"]
        /\ copies' = [copies EXCEPT ![r] = store']
        /\ postedBy' = postedBy
    BY <1>8 DEF DenyApproved, RequestGoes
  <2>2. requests'[r].at = "done" /\ \A q \in Requests : q # r => requests'[q] = requests[q]
    BY <1>0, <2>1 DEF RequestState
  <2>3. \A s \in Slots : s # requests[r].slot => store'.results[s] = copies[r].results[s]
    BY <1>0, <2>1 DEF Record
  <2>4. RequestKept(r)'
    BY <1>1, <2>1, <2>2 DEF RequestKept, RequestInOrder, Undecided
  <2> QED
    BY <1>4, <1>5, <2>1, <2>2, <2>3, <2>4 DEF Undecided, Recorded
<1>9. CASE ApprovedReturn(r)
  <2>1. PICK status \in TriggerStatuses :
          copies' = [copies EXCEPT ![r] =
                       [@ EXCEPT !.status = "verifying",
                                 !.results[requests[r].slot] =
                                    IF status = "success" THEN "success" ELSE "failed"]]
    BY <1>9 DEF ApprovedReturn
  <2>2. /\ requests[r].at = "workflow" /\ requests' = [requests EXCEPT ![r].at = "verifying"]
        /\ store' = store /\ postedBy' = postedBy
    BY <1>9 DEF ApprovedReturn, RequestGoes
  <2>3. /\ requests'[r].at = "verifying" /\ requests'[r].slot = requests[r].slot
        /\ \A q \in Requests : q # r => requests'[q] = requests[q]
    BY <1>0, <2>2 DEF RequestState
  <2>4. requests[r].slot \in Slots
    BY <1>1, <2>2 DEF RequestInOrder
  <2>5. /\ copies'[r].results[requests[r].slot] = IF status = "success" THEN "success" ELSE "failed"
        /\ \A s \in Slots : s # requests[r].slot => copies'[r].results[s] = copies[r].results[s]
    BY <1>0, <2>1, <2>4 DEF Record
  <2>6. status = "success" => postedBy[r] > 0
    BY <2>2 DEF TriggerStatuses, Live, EvidenceInv
  <2>7. RequestKept(r)'
    BY <1>1, <2>2, <2>3, <2>5, <2>6 DEF RequestKept, Undecided, Recorded
  <2> QED
    BY <1>4, <1>5, <2>2, <2>3, <2>5, <2>7 DEF Undecided, Recorded
<1>10. CASE ApprovedVerify(r)
  <2>1. PICK outcome \in VerifyOutcomes({copies[r].results[requests[r].slot]}) :
          copies' = [copies EXCEPT ![r] = Settle(copies[r], outcome)]
    BY <1>10 DEF ApprovedVerify
  <2>2. /\ requests[r].at = "verifying" /\ requests' = [requests EXCEPT ![r].at = "saving"]
        /\ store' = store /\ postedBy' = postedBy
    BY <1>10 DEF ApprovedVerify, RequestGoes
  <2>3. /\ requests'[r].at = "saving" /\ requests'[r].slot = requests[r].slot
        /\ \A q \in Requests : q # r => requests'[q] = requests[q]
    BY <1>0, <2>2 DEF RequestState
  <2>4. /\ copies'[r].results = copies[r].results
        /\ copies'[r].status = IF outcome = "verified_recovery" THEN "verified_recovered" ELSE "escalated"
    BY <1>0, <2>1 DEF Settle, Record
  <2>5. outcome = "verified_recovery" => copies[r].results[requests[r].slot] = "success"
    BY <2>1 DEF VerifyOutcomes
  <2>6. RequestKept(r)'
    BY <1>1, <2>2, <2>3, <2>4, <2>5 DEF RequestKept, Undecided, Recorded
  <2> QED
    BY <1>4, <1>5, <2>2, <2>3, <2>4, <2>6 DEF Undecided, Recorded
<1>11. CASE SaveApproved(r) \/ RequestFails(r)
  <2>1. /\ requests[r].at = "saving" /\ copies' = copies /\ postedBy' = postedBy
        /\ \/ requests' = [requests EXCEPT ![r].at = "done"] /\ store' = copies[r]
           \/ requests' = [requests EXCEPT ![r].at = "failed"] /\ store' = store
    BY <1>11 DEF SaveApproved, RequestFails, RequestGoes
  <2>2. /\ \/ requests'[r].at = "done" /\ store' = copies[r]
           \/ requests'[r].at = "failed" /\ store' = store
        /\ requests'[r].slot = requests[r].slot
        /\ \A q \in Requests : q # r => requests'[q] = requests[q]
    BY <1>0, <2>1 DEF RequestState
  <2>3. RequestKept(r)'
    BY <1>1, <2>1, <2>2 DEF RequestKept, Undecided
  <2> QED
    BY <1>4, <1>5, <2>1, <2>2, <2>3 DEF Undecided
<1> QED
  BY <1>6, <1>7, <1>8, <1>9, <1>10, <1>11 DEF RequestNext

(* A restart loses copies only with the tasks that would have saved them.  *)
LEMMA WorldKeepsLedger ==
  ASSUME TypeOK, LedgerInv, RecordUndisturbed,
         UNCHANGED vars \/ UpdateControls \/ \E w \in Workers : Feedback(w) \/ CrashRestart(w)
  PROVE  LedgerInv'
<1>0. requests \in [Requests -> RequestState] /\ pipe \in PipeState
  BY DEF TypeOK
<1>1. CASE UNCHANGED vars \/ UpdateControls
  <2>1. UNCHANGED <<ctx, store, copies, pipe, requests, autoRuns, postedBy>>
    BY <1>1 DEF vars, UpdateControls
  <2> QED
    BY <2>1 DEF LedgerInv, StatusByStage, RunsAreKept, RunKept, RequestKept, Recorded, Live
<1>2. ASSUME NEW w \in Workers, Feedback(w) PROVE LedgerInv'
  <2>1. UNCHANGED <<ctx, store, copies, pipe, requests, autoRuns, postedBy>>
    BY <1>2 DEF Feedback, RecordUndisturbed
  <2> QED
    BY <2>1 DEF LedgerInv, StatusByStage, RunsAreKept, RunKept, RequestKept, Recorded, Live
<1>3. ASSUME NEW w \in Workers, CrashRestart(w) PROVE LedgerInv'
  <2>0. "pipeline" \in CopyIds /\ "pipeline" \notin Workers /\ Home \in Workers
        /\ \A r \in Requests : r \in CopyIds /\ r \notin Workers /\ r # "pipeline"
    BY LifecycleAssumption DEF CopyIds
  <2>1. UNCHANGED <<ctx, store, autoRuns, postedBy>>
    BY <1>3 DEF CrashRestart
  <2>2. /\ pipe'.next = pipe.next /\ pipe'.results = pipe.results
        /\ \/ pipe'.at = pipe.at /\ (w # Home \/ pipe.at \in {"idle", "done", "failed"})
           \/ pipe'.at = "lost" /\ pipe.at \notin {"idle", "done", "failed"}
    BY <1>0, <1>3 DEF CrashRestart, PipeState
  <2>3. w # Home => copies'["pipeline"] = copies["pipeline"]
    BY <1>3, <2>0 DEF CrashRestart
  <2>4. \A r \in Requests : /\ requests'[r].slot = requests[r].slot
                            /\ requests'[r].verdict = requests[r].verdict
                            /\ \/ requests'[r].at = requests[r].at
                               \/ requests'[r].at = "lost" /\ requests[r].at \notin {"idle", "done"}
    BY <1>0, <1>3 DEF CrashRestart, LostWith, RequestState
  <2>5. \A r \in Requests : requests'[r].at \in Undecided => copies'[r] = copies[r]
    <3> SUFFICES ASSUME NEW r \in Requests, requests'[r].at \in Undecided PROVE copies'[r] = copies[r]
      OBVIOUS
    <3>1. requests[r].at \notin {"idle", "done"} /\ requests'[r].at # "lost"
      BY <2>4 DEF Undecided
    <3>2. requests[r].worker # w
      BY <1>0, <1>3, <3>1 DEF CrashRestart, LostWith, RequestState
    <3> QED
      BY <1>3, <2>0, <3>2 DEF CrashRestart
  <2>6. StatusByStage'
    BY <2>1, <2>2, <2>3 DEF LedgerInv, StatusByStage
  <2>7. \A r \in Requests : RequestKept(r)'
    BY <2>1, <2>4, <2>5 DEF LedgerInv, RequestKept, Recorded, Undecided
  <2>8. RunsAreKept'
    <3> SUFFICES ASSUME NEW s \in Slots, autoRuns[s] > 0 PROVE RunKept(s)'
      BY <2>1 DEF RunsAreKept
    <3>1. RunKept(s)
      BY DEF LedgerInv, RunsAreKept
    <3> QED
      BY <2>1, <2>2, <2>3, <2>4, <2>5, <3>1 DEF RunKept, Recorded, Live, Undecided
  <2> QED
    BY <2>6, <2>7, <2>8 DEF LedgerInv
<1> QED
  BY <1>1, <1>2, <1>3

(* LedgerInv holds as long as no old record is put back.                   *)
LEMMA LedgerInvHolds == Spec /\ [][RecordUndisturbed]_vars => []LedgerInv
<1>1. Init => LedgerInv
  BY LedgerInvInit
<1>2. TypeOK /\ ClaimInv /\ EvidenceInv /\ OneClaimInv /\ LedgerInv /\ [Next]_vars /\ [RecordUndisturbed]_vars
      => LedgerInv'
  <2> SUFFICES ASSUME TypeOK, ClaimInv, EvidenceInv, OneClaimInv, LedgerInv, [Next]_vars, [RecordUndisturbed]_vars
               PROVE  LedgerInv'
    OBVIOUS
  <2>1. TypeOK'
    BY TypeStep
  <2>2. CASE UNCHANGED vars
    BY <2>2 DEF vars, LedgerInv, StatusByStage, RunsAreKept, RunKept, RequestKept, Recorded, Live
  <2>3. CASE RecordUndisturbed
    <3>1. ClaimsFollowSaves
      BY <2>3 DEF RecordUndisturbed
    <3> QED
      BY <2>1, <2>3, <3>1, PipelineKeepsLedger, RequestKeepsLedger, WorldKeepsLedger DEF Next
  <2> QED
    BY <2>2, <2>3
<1> QED
  BY <1>1, <1>2, TypeCorrect, ClaimInvHolds, EvidenceInvHolds, OneClaimInvHolds, RecordIncludesClaims, PTL
  DEF Spec

(* However many workers share the store, no execution is forgotten as long *)
(* as no old record is put back: when the pipeline and every request came  *)
(* to their end, the durable record has a result for every webhook that    *)
(* was posted, by whomever.                                                *)
THEOREM ExecutionsAreRecordedUndisturbed ==
  Spec /\ [][RecordUndisturbed]_vars => []ExecutionsAreRecorded
<1>1. ClaimInv /\ LedgerInv => ExecutionsAreRecorded
  <2> SUFFICES ASSUME ClaimInv, LedgerInv, AtRest, NEW s \in Slots, CarriedOut(s)
               PROVE  Recorded(store, s)
    BY DEF ExecutionsAreRecorded, Recorded
  <2>1. CASE autoRuns[s] > 0
    BY <2>1 DEF AtRest, LedgerInv, RunsAreKept, RunKept
  <2>2. ASSUME NEW r \in Requests, requests[r].slot = s, postedBy[r] > 0 PROVE Recorded(store, s)
    <3>1. requests[r].at = "done"
      BY <2>2 DEF AtRest, ClaimInv, RequestInOrder
    <3> QED
      BY <2>2, <3>1 DEF LedgerInv, RequestKept
  <2> QED
    BY <2>1, <2>2 DEF CarriedOut
<1> QED
  BY <1>1, ClaimInvHolds, LedgerInvHolds, PTL

(* With one worker and no feedback no old record is put back.              *)
THEOREM ExecutionsAreRecordedAlone ==
  ASSUME Workers = {Home}, MaxFeedback = 0
  PROVE  Spec => []ExecutionsAreRecorded
BY ExecutionsAreRecordedUndisturbed, AloneIsUndisturbed, PTL

-----------------------------------------------------------------------------
(* The lifecycle implements the contract.                                  *)

\* What the contract sees of requests reqs with the posts counted in posts.
VerdictOn(reqs, s) ==
  IF \E r \in Requests : reqs[r].slot = s
  THEN reqs[CHOOSE r \in Requests : reqs[r].slot = s].verdict
  ELSE "none"

PostersOf(reqs, posts, s) == {r \in Requests : reqs[r].slot = s /\ posts[r] > 0}

OneOwner(reqs, s) == \A q, r \in Requests : reqs[q].slot = s /\ reqs[r].slot = s => q = r

(* Where at most one request owns a proposal, that request's verdict and   *)
(* post are what the contract says of the proposal.                        *)
LEMMA OwnedProposal ==
  ASSUME NEW reqs, NEW posts, NEW s \in Slots, OneOwner(reqs, s)
  PROVE  /\ \A r \in Requests : reqs[r].slot = s =>
              /\ VerdictOn(reqs, s) = reqs[r].verdict
              /\ PostersOf(reqs, posts, s) = IF posts[r] > 0 THEN {r} ELSE {}
              /\ Cardinality(PostersOf(reqs, posts, s)) = IF posts[r] > 0 THEN 1 ELSE 0
         /\ (\A r \in Requests : reqs[r].slot # s) =>
              VerdictOn(reqs, s) = "none" /\ Cardinality(PostersOf(reqs, posts, s)) = 0
<1>1. ASSUME NEW r \in Requests, reqs[r].slot = s
      PROVE  /\ VerdictOn(reqs, s) = reqs[r].verdict
             /\ PostersOf(reqs, posts, s) = IF posts[r] > 0 THEN {r} ELSE {}
             /\ Cardinality(PostersOf(reqs, posts, s)) = IF posts[r] > 0 THEN 1 ELSE 0
  <2>1. (CHOOSE q \in Requests : reqs[q].slot = s) = r
    BY <1>1 DEF OneOwner
  <2>2. VerdictOn(reqs, s) = reqs[r].verdict
    BY <1>1, <2>1 DEF VerdictOn
  <2>3. PostersOf(reqs, posts, s) = IF posts[r] > 0 THEN {r} ELSE {}
    BY <1>1 DEF PostersOf, OneOwner
  <2> QED
    BY <2>2, <2>3, FS_Singleton, FS_EmptySet
<1>2. (\A r \in Requests : reqs[r].slot # s) =>
        VerdictOn(reqs, s) = "none" /\ PostersOf(reqs, posts, s) = {}
  BY DEF VerdictOn, PostersOf
<1> QED
  BY <1>1, <1>2, FS_EmptySet

(* No two requests ever own the same proposal.                             *)
LEMMA ProposalsHaveOneOwner ==
  OneClaimInv /\ LedgerInv => \A s \in Slots : OneOwner(requests, s)
<1>1. \A s \in Slots : s # 0
  BY DEF Slots
<1> QED
  BY <1>1 DEF LedgerInv, RequestKept, OneClaimInv, AtMostOneClaim, OneOwner

(* What leaves every request its proposal and its verdict leaves the       *)
(* contract's verdicts.                                                    *)
LEMMA VerdictsStay ==
  ASSUME NEW reqs, NEW newReqs, NEW s \in Slots, OneOwner(reqs, s),
         \A r \in Requests : newReqs[r].slot = reqs[r].slot /\ newReqs[r].verdict = reqs[r].verdict
  PROVE  VerdictOn(newReqs, s) = VerdictOn(reqs, s)
<1>1. CASE \A r \in Requests : reqs[r].slot # s
  BY <1>1 DEF VerdictOn
<1>2. ASSUME NEW r \in Requests, reqs[r].slot = s
      PROVE  VerdictOn(newReqs, s) = VerdictOn(reqs, s)
  <2>1. (CHOOSE q \in Requests : reqs[q].slot = s) = r
    BY <1>2 DEF OneOwner
  <2>2. (CHOOSE q \in Requests : newReqs[q].slot = s) = r
    BY <1>2 DEF OneOwner
  <2> QED
    BY <1>2, <2>1, <2>2 DEF VerdictOn
<1> QED
  BY <1>1, <1>2

Verdict == [s \in Slots |-> VerdictOn(requests, s)]

Posted == [s \in Slots |-> Cardinality(PostersOf(requests, postedBy, s))]

(* The pipeline only moves the status, along the blueprint.                *)
LEMMA PipelineHandles ==
  ASSUME TypeOK, LedgerInv, PipeNext \/ PipeFails
  PROVE  [Contract!Handle]_(Contract!contractVars)
<1>0. /\ pipe \in PipeState /\ copies \in [CopyIds -> Record] /\ store \in Record
      /\ "pipeline" \in CopyIds
  BY DEF TypeOK, CopyIds
<1>1. UNCHANGED <<requests, postedBy>>
  BY DEF PipeNext, Detect, Investigate, Diagnose, StartExecution, HoldBack, AutoTrigger, AutoReturn,
         Summarise, AutoVerify, SaveOutcome, SaveBrief, Close, PipeFails
<1>2. StatusByStage
  BY DEF LedgerInv
<1>3. \/ store'.status = store.status
      \/ store.status = "absent" /\ store'.status = "detected"
      \/ store.status = "detected" /\ store'.status = "investigating"
      \/ store.status = "investigating" /\ store'.status = "recommendation_ready"
      \/ /\ store.status = "recommendation_ready"
         /\ store'.status \in {"verified_recovered", "escalated", "awaiting_approval"}
  <2>1. CASE Detect
    BY <1>2, <2>1 DEF Detect, PipeGoes, PipeSaves, NoRecord, StatusByStage
  <2>2. CASE Investigate
    BY <1>0, <1>2, <2>2 DEF Investigate, PipeGoes, PipeSaves, Record, StatusByStage
  <2>3. CASE Diagnose
    BY <1>0, <1>2, <2>3 DEF Diagnose, PipeSaves, Record, StatusByStage
  <2>4. CASE SaveOutcome \/ SaveBrief
    BY <1>2, <2>4 DEF SaveOutcome, SaveBrief, PipeGoes, PipeSaves, StatusByStage
  <2>5. CASE store' = store
    BY <2>5
  <2> QED
    BY <2>1, <2>2, <2>3, <2>4, <2>5 DEF PipeNext, StartExecution, HoldBack, AutoTrigger, AutoReturn,
       Summarise, AutoVerify, Close, PipeFails
<1> QED
  BY <1>1, <1>3 DEF Contract!Handle, Contract!contractVars, Contract!Settled

(* A claim decides a proposal that nobody decided before.                  *)
LEMMA ClaimDecides ==
  ASSUME TypeOK, ClaimInv, OneClaimInv, LedgerInv,
         NEW r \in Requests, NEW w \in Workers, NEW approved \in BOOLEAN, Claim(r, w, approved)
  PROVE  \E s \in Slots : Contract!Decide(s)
<1>0. requests \in [Requests -> RequestState] /\ store \in Record
  BY DEF TypeOK
<1>1. PICK s \in Slots :
        /\ Claimable(store, {s})
        /\ store' = ClaimedRecord(s, approved)
        /\ requests' = [requests EXCEPT ![r] =
                          [at      |-> StageAfterClaim(approved),
                           verdict |-> IF approved THEN "approved" ELSE "rejected",
                           worker  |-> w,
                           slot    |-> s]]
  BY DEF Claim
<1>2. store.status = "awaiting_approval" /\ postedBy' = postedBy
  BY <1>1 DEF Claim, Claimable
<1>3. \A q \in Requests : requests[q].slot = 0 /\ postedBy[q] = 0
  BY <1>2 DEF OneClaimInv, ClaimEndsWaiting, LedgerInv, RequestKept, ClaimInv, RequestInOrder
<1>4. /\ requests'[r].slot = s
      /\ requests'[r].verdict = IF approved THEN "approved" ELSE "rejected"
      /\ \A q \in Requests : q # r => requests'[q].slot = 0
  BY <1>0, <1>1, <1>3
<1>5. \A t \in Slots : OneOwner(requests, t) /\ OneOwner(requests', t)
  <2>1. \A t \in Slots : t # 0
    BY DEF Slots
  <2> QED
    BY <1>3, <1>4, <2>1 DEF OneOwner
<1>6. \A t \in Slots : Verdict[t] = "none" /\ Posted[t] = 0 /\ t # 0
  <2>1. \A t \in Slots : t # 0
    BY DEF Slots
  <2> QED
    BY <1>3, <1>5, <2>1, OwnedProposal DEF Verdict, Posted
<1>7. \A t \in Slots : /\ Verdict'[t] = IF t = s THEN requests'[r].verdict ELSE "none"
                       /\ Posted'[t] = 0
  <2>1. \A t \in Slots : t # s => \A q \in Requests : requests'[q].slot # t
    BY <1>4, <1>6
  <2>2. \A t \in Slots : VerdictOn(requests', t) = IF t = s THEN requests'[r].verdict ELSE "none"
    BY <1>4, <1>5, <2>1, OwnedProposal
  <2>3. \A t \in Slots : PostersOf(requests', postedBy', t) = {}
    BY <1>2, <1>3 DEF PostersOf
  <2> QED
    BY <2>2, <2>3, FS_EmptySet DEF Verdict, Posted
<1>8. Posted' = Posted /\ Verdict' = [Verdict EXCEPT ![s] = requests'[r].verdict]
  <2>1. /\ Posted = [t \in Slots |-> Posted[t]] /\ Verdict = [t \in Slots |-> Verdict[t]]
        /\ Posted' = [t \in Slots |-> Posted'[t]] /\ Verdict' = [t \in Slots |-> Verdict'[t]]
    BY DEF Verdict, Posted
  <2>2. \A t \in Slots : Posted'[t] = Posted[t]
    BY <1>6, <1>7
  <2>3. \A t \in Slots : Verdict'[t] = IF t = s THEN requests'[r].verdict ELSE Verdict[t]
    BY <1>6, <1>7
  <2> HIDE DEF Verdict, Posted
  <2>4. Posted' = Posted
    BY <2>1, <2>2
  <2>5. Verdict' = [Verdict EXCEPT ![s] = requests'[r].verdict]
    BY <2>1, <2>3
  <2> QED
    BY <2>4, <2>5
<1>9. \/ requests'[r].verdict = "approved" /\ store'.status = "executing"
      \/ requests'[r].verdict = "rejected" /\ store'.status = "escalated"
  BY <1>0, <1>1, <1>4 DEF ClaimedRecord, Record
<1>10. Verdict[s] = "none"
  BY <1>6
<1> QED
  BY <1>2, <1>8, <1>9, <1>10 DEF Contract!Decide, Verdict, Posted, VerdictOn, PostersOf

(* An approved request carries its proposal out once, and its saves        *)
(* conclude.                                                               *)
LEMMA RequestConcludes ==
  ASSUME TypeOK, ClaimInv, OneClaimInv, LedgerInv, NEW r \in Requests,
         RequestNext(r) \/ RequestFails(r)
  PROVE  \/ UNCHANGED Contract!contractVars
         \/ Contract!Conclude
         \/ \E s \in Slots : Contract!CarryOut(s)
<1>0. /\ requests \in [Requests -> RequestState] /\ copies \in [CopyIds -> Record]
      /\ postedBy \in [Requests -> Nat] /\ r \in CopyIds
  BY DEF TypeOK, CopyIds
<1>1. PICK at \in RequestStages : requests' = [requests EXCEPT ![r].at = at]
  BY DEF RequestNext, RequestFails, TriggerApproved, DenyApproved, ApprovedReturn, ApprovedVerify,
         SaveApproved, RequestGoes, RequestStages
<1>2. \A q \in Requests : requests'[q].slot = requests[q].slot /\ requests'[q].verdict = requests[q].verdict
  BY <1>0, <1>1 DEF RequestState
<1>3. requests[r].at \in Undecided
  BY DEF RequestNext, RequestFails, TriggerApproved, DenyApproved, ApprovedReturn, ApprovedVerify,
         SaveApproved, RequestGoes, Undecided
<1>4. /\ requests[r].slot \in Slots /\ requests[r].verdict = "approved" /\ store.status = "executing"
      /\ \A s \in Slots : OneOwner(requests, s) /\ OneOwner(requests', s)
  BY <1>2, <1>3, ProposalsHaveOneOwner DEF LedgerInv, RequestKept, ClaimInv, RequestInOrder, Undecided, OneOwner
<1> DEFINE s == requests[r].slot
<1>5. Verdict' = Verdict
  <2>1. \A t \in Slots : VerdictOn(requests', t) = VerdictOn(requests, t)
    BY <1>2, <1>4, VerdictsStay
  <2> QED
    BY <2>1 DEF Verdict
<1>6. postedBy' = postedBy => Posted' = Posted
  BY <1>2 DEF Posted, PostersOf
<1>7. Verdict[s] = "approved" /\ Posted[s] = IF postedBy[r] > 0 THEN 1 ELSE 0
  BY <1>4, OwnedProposal DEF Verdict, Posted
<1>8. CASE TriggerApproved(r)
  <2>1. store' = store /\ postedBy' \in {postedBy, [postedBy EXCEPT ![r] = @ + 1]} /\ postedBy[r] = 0
    BY <1>8 DEF TriggerApproved, RequestGoes, ClaimInv, RequestInOrder
  <2>2. CASE postedBy' = postedBy
    BY <1>5, <1>6, <2>1, <2>2 DEF Contract!contractVars, Verdict, Posted, VerdictOn, PostersOf
  <2>3. CASE postedBy' = [postedBy EXCEPT ![r] = @ + 1]
    <3>1. postedBy'[r] = 1 /\ \A q \in Requests : q # r => postedBy'[q] = postedBy[q]
      BY <1>0, <2>1, <2>3
    <3>2. Cardinality(PostersOf(requests', postedBy', s)) = 1
      BY <1>2, <1>4, <3>1, OwnedProposal
    <3>3. \A t \in Slots : t # s => PostersOf(requests', postedBy', t) = PostersOf(requests, postedBy, t)
      BY <1>2, <3>1 DEF PostersOf
    <3>4. Posted' = [Posted EXCEPT ![s] = 1]
      BY <3>2, <3>3 DEF Posted
    <3>5. Posted[s] = 0
      BY <1>7, <2>1
    <3>6. Contract!CarryOut(s)
      BY <1>4, <1>5, <1>7, <2>1, <3>4, <3>5 DEF Contract!CarryOut, Verdict, Posted, VerdictOn, PostersOf
    <3> QED
      BY <1>4, <3>6
  <2> QED
    BY <2>1, <2>2, <2>3
<1>9. CASE DenyApproved(r)
  <2>1. store'.status = "escalated" /\ postedBy' = postedBy
    BY <1>0, <1>9 DEF DenyApproved, Record
  <2> QED
    BY <1>4, <1>5, <1>6, <2>1
    DEF Contract!Conclude, Contract!Settled, Verdict, Posted, VerdictOn, PostersOf
<1>10. CASE ApprovedReturn(r) \/ ApprovedVerify(r) \/ RequestFails(r)
  <2>1. store' = store /\ postedBy' = postedBy
    BY <1>10 DEF ApprovedReturn, ApprovedVerify, RequestFails
  <2> QED
    BY <1>5, <1>6, <2>1 DEF Contract!contractVars, Verdict, Posted, VerdictOn, PostersOf
<1>11. CASE SaveApproved(r)
  <2>1. store' = copies[r] /\ postedBy' = postedBy /\ requests[r].at = "saving"
    BY <1>11 DEF SaveApproved, RequestGoes
  <2>2. \/ store'.status = "escalated"
        \/ store'.status = "verified_recovered" /\ postedBy[r] > 0
    BY <2>1 DEF LedgerInv, RequestKept
  <2>3. store'.status = "verified_recovered" => Posted[s] = 1
    BY <1>7, <2>2
  <2> QED
    BY <1>4, <1>5, <1>6, <2>1, <2>2, <2>3
    DEF Contract!Conclude, Contract!Settled, Verdict, Posted, VerdictOn, PostersOf
<1> QED
  BY <1>8, <1>9, <1>10, <1>11 DEF RequestNext

(* Restarts, control changes and feedback do not concern the contract.     *)
LEMMA WorldStutters ==
  ASSUME TypeOK, OneClaimInv, LedgerInv, RecordUndisturbed,
         UNCHANGED vars \/ UpdateControls \/ \E w \in Workers : Feedback(w) \/ CrashRestart(w)
  PROVE  UNCHANGED Contract!contractVars
<1>0. requests \in [Requests -> RequestState]
  BY DEF TypeOK
<1>1. \A w \in Workers : Feedback(w) => store' = store /\ UNCHANGED <<requests, postedBy>>
  BY DEF Feedback, RecordUndisturbed
<1>2. store' = store /\ postedBy' = postedBy
  BY <1>1 DEF vars, UpdateControls, CrashRestart
<1>3. \A r \in Requests : requests'[r].slot = requests[r].slot /\ requests'[r].verdict = requests[r].verdict
  BY <1>0, <1>1 DEF vars, UpdateControls, CrashRestart, RequestState
<1>4. \A t \in Slots : VerdictOn(requests', t) = VerdictOn(requests, t)
  BY <1>3, ProposalsHaveOneOwner, VerdictsStay
<1>5. Verdict' = Verdict /\ Posted' = Posted
  BY <1>2, <1>3, <1>4 DEF Verdict, Posted, PostersOf
<1> QED
  BY <1>2, <1>5 DEF Contract!contractVars, Verdict, Posted, VerdictOn, PostersOf

(* As long as no old record is put back, the incident lifecycle implements *)
(* the contract with its operators for any number of workers and requests: *)
(* the durable status moves along the blueprint, a proposal gets at most   *)
(* one verdict and is carried out at most once, only between its approval  *)
(* and the durable outcome.                                                *)
THEOREM ImplementsContractUndisturbed ==
  Spec /\ [][RecordUndisturbed]_vars => ImplementsContract
<1>1. Init => Contract!ContractInit
  <2> SUFFICES ASSUME Init PROVE Contract!ContractInit
    OBVIOUS
  <2>1. /\ store.status = "absent"
        /\ \A s \in Slots : \A r \in Requests : requests[r].slot # s
        /\ \A s \in Slots : OneOwner(requests, s)
    BY DEF Init, NoRecord, Slots, OneOwner
  <2>2. \A s \in Slots : VerdictOn(requests, s) = "none" /\ Cardinality(PostersOf(requests, postedBy, s)) = 0
    BY <2>1, OwnedProposal
  <2>3. Verdict = [s \in Slots |-> "none"] /\ Posted = [s \in Slots |-> 0]
    BY <2>2 DEF Verdict, Posted
  <2> QED
    BY <2>1, <2>3 DEF Contract!ContractInit, Verdict, Posted, VerdictOn, PostersOf
<1>2. TypeOK /\ ClaimInv /\ OneClaimInv /\ LedgerInv /\ [Next]_vars /\ [RecordUndisturbed]_vars =>
        [Contract!ContractNext]_(Contract!contractVars)
  <2> SUFFICES ASSUME TypeOK, ClaimInv, OneClaimInv, LedgerInv, [Next]_vars, [RecordUndisturbed]_vars
               PROVE  [Contract!ContractNext]_(Contract!contractVars)
    OBVIOUS
  <2>1. CASE UNCHANGED vars
    BY <2>1 DEF vars, Contract!contractVars
  <2>2. CASE RecordUndisturbed
    BY <2>2, PipelineHandles, ClaimDecides, RequestConcludes, WorldStutters DEF Next, Contract!ContractNext
  <2> QED
    BY <2>1, <2>2
<1> QED
  BY <1>1, <1>2, TypeCorrect, ClaimInvHolds, OneClaimInvHolds, LedgerInvHolds, RecordIncludesClaims, PTL
  DEF Spec, ImplementsContract, Contract!ContractSpec

(* With one worker and no feedback no old record is put back.              *)
THEOREM ImplementsContractAlone ==
  ASSUME Workers = {Home}, MaxFeedback = 0
  PROVE  Spec => ImplementsContract
BY ImplementsContractUndisturbed, AloneIsUndisturbed, PTL

-----------------------------------------------------------------------------
(* What settling an incident takes besides fair scheduling.                *)

\* The steps a pipeline has before it at most.
StepsLeft(p) ==
  CASE p.at = "idle" -> 2 * MaxPlan + 9
    [] p.at = "detected" -> 2 * MaxPlan + 8
    [] p.at = "diagnosing" -> 2 * MaxPlan + 7
    [] p.at = "ready" -> 2 * MaxPlan + 6
    [] p.at = "acting" -> 2 * (MaxPlan + 1 - p.next) + 5
    [] p.at = "workflow" -> 2 * (MaxPlan + 1 - p.next) + 4
    [] p.at = "verifying" -> 4
    [] p.at = "saving" -> 3
    [] p.at = "brief" -> 2
    [] p.at = "closing" -> 1
    [] OTHER -> 0

\* The next action is one of the plan, or the plan is at its end.
InPlan(p) ==
  /\ p.next <= MaxPlan + 1
  /\ p.at = "workflow" => p.next <= MaxPlan

(* The steps left, stage by stage.                                         *)
LEMMA StepsLeftAt ==
  ASSUME NEW p
  PROVE  /\ p.at = "idle" => StepsLeft(p) = 2 * MaxPlan + 9
         /\ p.at = "detected" => StepsLeft(p) = 2 * MaxPlan + 8
         /\ p.at = "diagnosing" => StepsLeft(p) = 2 * MaxPlan + 7
         /\ p.at = "ready" => StepsLeft(p) = 2 * MaxPlan + 6
         /\ p.at = "acting" => StepsLeft(p) = 2 * (MaxPlan + 1 - p.next) + 5
         /\ p.at = "workflow" => StepsLeft(p) = 2 * (MaxPlan + 1 - p.next) + 4
         /\ p.at = "verifying" => StepsLeft(p) = 4
         /\ p.at = "saving" => StepsLeft(p) = 3
         /\ p.at = "brief" => StepsLeft(p) = 2
         /\ p.at = "closing" => StepsLeft(p) = 1
         /\ p.at \in {"done", "failed", "lost"} => StepsLeft(p) = 0
BY Zenon DEF StepsLeft

(* The number of steps left is a number.                                   *)
LEMMA StepsLeftType ==
  ASSUME NEW p \in PipeState, InPlan(p)
  PROVE  StepsLeft(p) \in Nat
<1>1. p.next \in Nat /\ MaxPlan \in Nat /\ p.at \in PipeStages
  BY LifecycleAssumption DEF PipeState
<1>2. 2 * (MaxPlan + 1 - p.next) \in Nat /\ 2 * MaxPlan \in Nat
  BY <1>1 DEF InPlan
<1>3. CASE p.at \in {"idle", "detected", "diagnosing", "ready"}
  BY <1>2, <1>3, StepsLeftAt
<1>4. CASE p.at \in {"acting", "workflow"}
  BY <1>2, <1>4, StepsLeftAt
<1>5. CASE p.at \in {"verifying", "saving", "brief", "closing", "done", "failed", "lost"}
  BY <1>5, StepsLeftAt
<1> QED
  BY <1>1, <1>3, <1>4, <1>5 DEF PipeStages

(* Each step of the pipeline is one less, also where it goes from action   *)
(* to action.                                                              *)
LEMMA PipelineStepCounts ==
  ASSUME TypeOK, TypeOK', InPlan(pipe), PipeNext \/ PipeFails
  PROVE  InPlan(pipe') /\ StepsLeft(pipe') < StepsLeft(pipe)
<1>0. /\ pipe \in PipeState /\ pipe.next \in Nat /\ pipe.next >= 1 /\ MaxPlan \in Nat
      /\ Len(plan) \in Nat /\ Len(plan) <= MaxPlan
  BY LifecycleAssumption, PlanLength DEF TypeOK, PipeState
<1>1. 2 * (MaxPlan + 1 - pipe.next) \in Nat /\ 2 * MaxPlan \in Nat
      /\ 2 * (MaxPlan + 1 - pipe.next) <= 2 * MaxPlan
      /\ 2 * (MaxPlan + 1 - (pipe.next + 1)) = 2 * (MaxPlan + 1 - pipe.next) - 2
      /\ pipe.next <= MaxPlan + 1
  BY <1>0 DEF InPlan
<1>2. CASE Detect \/ Investigate \/ Diagnose
  <2>1. /\ pipe'.next = pipe.next
        /\ \/ pipe.at = "idle" /\ pipe'.at = "detected"
           \/ pipe.at = "detected" /\ pipe'.at = "diagnosing"
           \/ pipe.at = "diagnosing" /\ pipe'.at = "ready"
    BY <1>0, <1>2 DEF Detect, Investigate, Diagnose, PipeGoes, PipeState
  <2> QED
    BY <1>1, <2>1, StepsLeftAt DEF InPlan
<1>3. CASE StartExecution
  <2>1. pipe'.next = pipe.next /\ pipe.at = "ready" /\ pipe'.at \in {"saving", "acting"}
    BY <1>0, <1>3 DEF StartExecution, PipeGoes, PipeState
  <2> QED
    BY <1>1, <2>1, StepsLeftAt DEF InPlan
<1>4. CASE HoldBack
  <2>1. pipe'.next = pipe.next + 1 /\ pipe.at = "acting" /\ pipe'.at = "acting" /\ pipe.next <= MaxPlan
    <3>1. \E result : pipe' = [pipe EXCEPT !.results[pipe.next] = result, !.next = @ + 1]
      BY <1>4 DEF HoldBack
    <3>2. pipe'.next = pipe.next + 1 /\ pipe'.at = pipe.at
      BY <1>0, <3>1 DEF PipeState
    <3> QED
      BY <1>0, <1>4, <3>2 DEF HoldBack
  <2>2. InPlan(pipe')
    BY <1>0, <2>1 DEF InPlan
  <2>3. /\ StepsLeft(pipe) = 2 * (MaxPlan + 1 - pipe.next) + 5
        /\ StepsLeft(pipe') = 2 * (MaxPlan + 1 - (pipe.next + 1)) + 5
    <3>1. /\ StepsLeft(pipe) = 2 * (MaxPlan + 1 - pipe.next) + 5
          /\ StepsLeft(pipe') = 2 * (MaxPlan + 1 - pipe'.next) + 5
      BY <2>1, StepsLeftAt
    <3> QED
      BY <2>1, <3>1
  <2> QED
    BY <1>1, <2>2, <2>3
<1>5. CASE AutoTrigger
  <2>1. /\ pipe'.next = pipe.next /\ pipe.at = "acting" /\ pipe'.at = "workflow"
        /\ pipe.next <= Len(plan)
    BY <1>0, <1>5 DEF AutoTrigger, PipeGoes, PipeState
  <2>2. pipe.next <= MaxPlan
    BY <1>0, <2>1
  <2> QED
    BY <1>1, <2>1, <2>2, StepsLeftAt DEF InPlan
<1>6. CASE AutoReturn
  <2>1. pipe'.next = pipe.next + 1 /\ pipe.at = "workflow" /\ pipe'.at = "acting"
    <3>1. \E result : pipe' = [pipe EXCEPT !.at = "acting", !.results[pipe.next] = result, !.next = @ + 1]
      BY <1>6 DEF AutoReturn
    <3>2. pipe'.next = pipe.next + 1 /\ pipe'.at = "acting"
      BY <1>0, <3>1 DEF PipeState
    <3> QED
      BY <1>6, <3>2 DEF AutoReturn
  <2>2. pipe.next <= MaxPlan
    BY <2>1 DEF InPlan
  <2>3. InPlan(pipe')
    BY <1>0, <2>1, <2>2 DEF InPlan
  <2>4. /\ StepsLeft(pipe) = 2 * (MaxPlan + 1 - pipe.next) + 4
        /\ StepsLeft(pipe') = 2 * (MaxPlan + 1 - (pipe.next + 1)) + 5
    <3>1. /\ StepsLeft(pipe) = 2 * (MaxPlan + 1 - pipe.next) + 4
          /\ StepsLeft(pipe') = 2 * (MaxPlan + 1 - pipe'.next) + 5
      BY <2>1, StepsLeftAt
    <3> QED
      BY <2>1, <3>1
  <2> QED
    BY <1>1, <2>3, <2>4
<1>7. CASE Summarise
  <2>1. pipe'.next = pipe.next /\ pipe.at = "acting" /\ pipe'.at \in {"verifying", "saving"}
    BY <1>0, <1>7 DEF Summarise, PipeGoes, PipeState
  <2> QED
    BY <1>1, <2>1, StepsLeftAt DEF InPlan
<1>8. CASE AutoVerify \/ SaveOutcome \/ SaveBrief \/ Close
  <2>1. /\ pipe'.next = pipe.next
        /\ \/ pipe.at = "verifying" /\ pipe'.at = "saving"
           \/ pipe.at = "saving" /\ pipe'.at = "brief"
           \/ pipe.at = "brief" /\ pipe'.at = "closing"
           \/ pipe.at = "closing" /\ pipe'.at = "done"
    BY <1>0, <1>8 DEF AutoVerify, SaveOutcome, SaveBrief, Close, PipeGoes, PipeState
  <2> QED
    BY <1>1, <2>1, StepsLeftAt DEF InPlan
<1>9. CASE PipeFails
  <2>1. /\ pipe'.next = pipe.next /\ pipe'.at = "failed"
        /\ pipe.at \in {"diagnosing", "acting", "saving", "brief"}
    BY <1>0, <1>9 DEF PipeFails, PipeState
  <2> QED
    BY <1>1, <2>1, StepsLeftAt DEF InPlan
<1> QED
  BY <1>2, <1>3, <1>4, <1>5, <1>6, <1>7, <1>8, <1>9 DEF PipeNext

\* The steps a request has before it at most.
RequestStepsLeft(request) ==
  CASE request.at = "idle" -> 5
    [] request.at = "claimed" -> 4
    [] request.at = "workflow" -> 3
    [] request.at = "verifying" -> 2
    [] request.at = "saving" -> 1
    [] OTHER -> 0

(* A step of a request is at least one less, and no other request's.       *)
LEMMA RequestStepCounts ==
  ASSUME TypeOK, NEW r \in Requests,
         RequestNext(r) \/ RequestFails(r) \/ \E w \in Workers, approved \in BOOLEAN : Claim(r, w, approved)
  PROVE  /\ RequestStepsLeft(requests'[r]) < RequestStepsLeft(requests[r])
         /\ \A q \in Requests : q # r => requests'[q] = requests[q]
         /\ pipe' = pipe
<1>0. requests \in [Requests -> RequestState]
  BY DEF TypeOK
<1>1. pipe' = pipe
  BY DEF RequestNext, RequestFails, TriggerApproved, DenyApproved, ApprovedReturn, ApprovedVerify,
         SaveApproved, Claim
<1>2. CASE \E w \in Workers, approved \in BOOLEAN : Claim(r, w, approved)
  <2>1. requests[r].at = "idle" /\ requests'[r].at \in {"claimed", "done"}
        /\ \A q \in Requests : q # r => requests'[q] = requests[q]
    BY <1>0, <1>2 DEF Claim, StageAfterClaim
  <2> QED
    BY <1>1, <2>1 DEF RequestStepsLeft
<1>3. CASE RequestNext(r) \/ RequestFails(r)
  <2>1. ASSUME NEW from, NEW to, RequestGoes(r, from, to)
        PROVE  /\ requests[r].at = from /\ requests'[r].at = to
               /\ \A q \in Requests : q # r => requests'[q] = requests[q]
    BY <1>0, <2>1 DEF RequestGoes, RequestState
  <2>2. CASE TriggerApproved(r)
    BY <1>1, <2>1, <2>2 DEF TriggerApproved, RequestStepsLeft
  <2>3. CASE DenyApproved(r)
    <3>1. RequestGoes(r, "claimed", "done")
      BY <2>3 DEF DenyApproved
    <3> QED
      BY <1>1, <2>1, <3>1 DEF RequestStepsLeft
  <2>4. CASE ApprovedReturn(r)
    BY <1>1, <2>1, <2>4 DEF ApprovedReturn, RequestStepsLeft
  <2>5. CASE ApprovedVerify(r)
    BY <1>1, <2>1, <2>5 DEF ApprovedVerify, RequestStepsLeft
  <2>6. CASE SaveApproved(r)
    BY <1>1, <2>1, <2>6 DEF SaveApproved, RequestStepsLeft
  <2>7. CASE RequestFails(r)
    BY <1>1, <2>1, <2>7 DEF RequestFails, RequestStepsLeft
  <2> QED
    BY <1>3, <2>2, <2>3, <2>4, <2>5, <2>6, <2>7 DEF RequestNext
<1> QED
  BY <1>2, <1>3

(* The steps a request has left are a number, too.                         *)
LEMMA RequestStepsLeftType ==
  ASSUME NEW request
  PROVE  RequestStepsLeft(request) \in 0..5
BY DEF RequestStepsLeft

\* No step of the program gives a task more to do, and a step of a task
\* leaves it less.
TasksAdvance ==
  /\ StepsLeft(pipe') <= StepsLeft(pipe)
  /\ PipeNext => StepsLeft(pipe') < StepsLeft(pipe)
  /\ \A r \in Requests :
       /\ RequestStepsLeft(requests'[r]) <= RequestStepsLeft(requests[r])
       /\ RequestNext(r) => RequestStepsLeft(requests'[r]) < RequestStepsLeft(requests[r])

(* Where a step leaves a task's count, it is a step of another task: a     *)
(* crash takes all the steps from those it ends, the rest of the world     *)
(* none.                                                                   *)
LEMMA StepsCount ==
  ASSUME TypeOK, TypeOK', InPlan(pipe), [Next]_vars
  PROVE  InPlan(pipe') /\ TasksAdvance
<1>0. /\ pipe \in PipeState /\ pipe' \in PipeState /\ requests \in [Requests -> RequestState]
      /\ StepsLeft(pipe) \in Nat
      /\ \A r \in Requests : RequestStepsLeft(requests[r]) \in 0..5
  BY StepsLeftType, RequestStepsLeftType DEF TypeOK
<1>1. PipeNext \/ PipeFails => requests' = requests
  BY DEF PipeNext, Detect, Investigate, Diagnose, StartExecution, HoldBack, AutoTrigger, AutoReturn,
         Summarise, AutoVerify, SaveOutcome, SaveBrief, Close, PipeFails
<1>2. PipeNext => StepsLeft(pipe') < StepsLeft(pipe)
  BY PipelineStepCounts
<1>3. \A r \in Requests : RequestNext(r) => RequestStepsLeft(requests'[r]) < RequestStepsLeft(requests[r])
  BY RequestStepCounts
<1>4. SUFFICES /\ InPlan(pipe')
               /\ StepsLeft(pipe') <= StepsLeft(pipe)
               /\ \A r \in Requests : RequestStepsLeft(requests'[r]) <= RequestStepsLeft(requests[r])
  BY <1>2, <1>3 DEF TasksAdvance
<1>5. CASE PipeNext \/ PipeFails
  <2>1. InPlan(pipe') /\ StepsLeft(pipe') < StepsLeft(pipe)
    BY <1>5, PipelineStepCounts
  <2>2. StepsLeft(pipe') \in Nat
    BY <1>0, <2>1, StepsLeftType
  <2> QED
    BY <1>0, <1>1, <1>5, <2>1, <2>2
<1>6. CASE \E r \in Requests : \/ RequestNext(r) \/ RequestFails(r)
                               \/ \E w \in Workers, approved \in BOOLEAN : Claim(r, w, approved)
  <2>1. PICK r \in Requests : \/ RequestNext(r) \/ RequestFails(r)
                              \/ \E w \in Workers, approved \in BOOLEAN : Claim(r, w, approved)
    BY <1>6
  <2>2. /\ RequestStepsLeft(requests'[r]) < RequestStepsLeft(requests[r])
        /\ \A q \in Requests : q # r => requests'[q] = requests[q]
        /\ pipe' = pipe
    BY <2>1, RequestStepCounts
  <2>3. \A q \in Requests : RequestStepsLeft(requests'[q]) \in 0..5
    BY RequestStepsLeftType
  <2>4. \A q \in Requests : RequestStepsLeft(requests'[q]) <= RequestStepsLeft(requests[q])
    BY <1>0, <2>2, <2>3
  <2> QED
    BY <1>0, <2>2, <2>4
<1>7. CASE \E w \in Workers : CrashRestart(w)
  <2>1. \/ pipe' = pipe
        \/ pipe' = [pipe EXCEPT !.at = "lost"]
    BY <1>7 DEF CrashRestart
  <2>2. \/ pipe' = pipe
        \/ pipe'.at = "lost" /\ pipe'.next = pipe.next
    BY <1>0, <2>1 DEF PipeState
  <2>3. InPlan(pipe') /\ StepsLeft(pipe') <= StepsLeft(pipe)
    <3>1. CASE pipe' = pipe
      BY <1>0, <3>1
    <3>2. CASE pipe'.at = "lost" /\ pipe'.next = pipe.next
      <4>1. StepsLeft(pipe') = 0
        BY <3>2, StepsLeftAt
      <4> QED
        BY <1>0, <3>2, <4>1 DEF InPlan
    <3> QED
      BY <2>2, <3>1, <3>2
  <2>4. \A r \in Requests : requests'[r] = requests[r] \/ requests'[r] = [requests[r] EXCEPT !.at = "lost"]
    BY <1>7 DEF CrashRestart
  <2>5. \A r \in Requests : requests'[r] = requests[r] \/ requests'[r].at = "lost"
    BY <1>0, <2>4 DEF RequestState
  <2>6. \A r \in Requests : requests'[r].at = "lost" => RequestStepsLeft(requests'[r]) = 0
    BY DEF RequestStepsLeft
  <2>7. \A r \in Requests : RequestStepsLeft(requests'[r]) <= RequestStepsLeft(requests[r])
    BY <1>0, <2>5, <2>6
  <2> QED
    BY <2>3, <2>7
<1>8. CASE UNCHANGED vars \/ UpdateControls \/ \E w \in Workers : Feedback(w)
  <2>1. pipe' = pipe /\ requests' = requests
    BY <1>8 DEF vars, UpdateControls, Feedback
  <2> QED
    BY <1>0, <2>1
<1> QED
  BY <1>5, <1>6, <1>7, <1>8 DEF Next

(* The pipeline and the requests only ever go forward, whatever crashes,   *)
(* failures, claims, feedback and other workers come in between: each step *)
(* of a task takes one from a count that nothing gives back.  A task that  *)
(* is scheduled again and again is therefore at its end at last; this is   *)
(* one half of what IncidentSettles says under fairness.                   *)
THEOREM TasksOnlyAdvance == Spec => [](StepsLeft(pipe) \in Nat) /\ [][TasksAdvance]_vars
<1>1. Init => InPlan(pipe)
  BY LifecycleAssumption DEF Init, InPlan
<1>2. TypeOK /\ TypeOK' /\ InPlan(pipe) /\ [Next]_vars => InPlan(pipe)' /\ TasksAdvance
  BY StepsCount
<1>3. TypeOK /\ InPlan(pipe) => StepsLeft(pipe) \in Nat
  BY StepsLeftType DEF TypeOK
<1> QED
  BY <1>1, <1>2, <1>3, TypeCorrect, PTL DEF Spec

\* The task that holds the incident as long as its record says that it is in
\* progress, or that task's end by an exception or a crash.
Carried ==
  /\ store.status = "detected" => pipe.at \in {"detected", "failed", "lost"}
  /\ store.status = "investigating" => pipe.at \in {"diagnosing", "failed", "lost"}
  /\ store.status = "executing" => \E r \in Requests : requests[r].at \in Undecided \cup {"failed", "lost"}
  /\ store.status # "verifying"

\* Some task is at a statement that it can take: no await holds it, or its
\* worker's event loop is free to resume it.
Movable ==
  \/ pipe.at \in Busy
  \/ pipe.at \in {"diagnosing", "acting", "workflow", "verifying", "closing"} /\ LoopFree(Home)
  \/ \E r \in Requests :
       \/ requests[r].at \in {"claimed", "saving"}
       \/ requests[r].at \in {"workflow", "verifying"} /\ LoopFree(requests[r].worker)

(* The status "executing" is saved by a claim alone: the pipeline sets it  *)
(* in its copy and has replaced it when it saves.                          *)
LEMMA PipelineCarriesOn ==
  ASSUME TypeOK, OneClaimInv, LedgerInv, Carried, PipeNext \/ PipeFails
  PROVE  Carried'
<1>0. /\ pipe \in PipeState /\ copies \in [CopyIds -> Record] /\ store \in Record
      /\ "pipeline" \in CopyIds
  BY DEF TypeOK, CopyIds
<1>1. requests' = requests
  BY DEF PipeNext, Detect, Investigate, Diagnose, StartExecution, HoldBack, AutoTrigger, AutoReturn,
         Summarise, AutoVerify, SaveOutcome, SaveBrief, Close, PipeFails
<1>2. StatusByStage
  BY DEF LedgerInv
<1>3. CASE Detect
  <2>1. store'.status = "detected" /\ pipe'.at = "detected"
    BY <1>0, <1>3 DEF Detect, PipeGoes, PipeSaves, NoRecord, PipeState
  <2> QED
    BY <2>1 DEF Carried
<1>4. CASE Investigate
  <2>1. store'.status = "investigating" /\ pipe'.at = "diagnosing"
    BY <1>0, <1>4 DEF Investigate, PipeGoes, PipeSaves, Record, PipeState
  <2> QED
    BY <2>1 DEF Carried
<1>5. CASE Diagnose \/ SaveOutcome
  <2>1. store'.status \in {"recommendation_ready", "awaiting_approval", "verified_recovered", "escalated"}
    BY <1>0, <1>2, <1>5 DEF Diagnose, SaveOutcome, PipeGoes, PipeSaves, Record, StatusByStage
  <2> QED
    BY <2>1 DEF Carried
<1>6. CASE PipeFails
  <2>1. store' = store /\ pipe'.at = "failed"
    BY <1>0, <1>6 DEF PipeFails, PipeState
  <2> QED
    BY <1>1, <2>1 DEF Carried
<1>7. CASE \/ StartExecution \/ HoldBack \/ AutoTrigger \/ AutoReturn
           \/ Summarise \/ AutoVerify \/ SaveBrief \/ Close
  <2>1. store' = store /\ pipe.at \notin {"detected", "diagnosing", "failed", "lost"}
    BY <1>2, <1>7 DEF StartExecution, HoldBack, AutoTrigger, AutoReturn, Summarise, AutoVerify,
       SaveBrief, Close, PipeGoes, PipeSaves, StatusByStage
  <2>2. store.status \notin {"detected", "investigating"}
    BY <2>1 DEF Carried
  <2> QED
    BY <1>1, <2>1, <2>2 DEF Carried
<1> QED
  BY <1>3, <1>4, <1>5, <1>6, <1>7 DEF PipeNext

(* A claim takes the incident into the hands of its request, and the       *)
(* request's end puts a settled status into the store.                     *)
LEMMA RequestsCarryOn ==
  ASSUME TypeOK, LedgerInv, Carried, NEW r \in Requests,
         RequestNext(r) \/ RequestFails(r) \/ \E w \in Workers, approved \in BOOLEAN : Claim(r, w, approved)
  PROVE  Carried'
<1>0. requests \in [Requests -> RequestState] /\ copies \in [CopyIds -> Record] /\ store \in Record
      /\ r \in CopyIds
  BY DEF TypeOK, CopyIds
<1>1. pipe' = pipe
  BY DEF RequestNext, RequestFails, TriggerApproved, DenyApproved, ApprovedReturn, ApprovedVerify,
         SaveApproved, Claim
<1>2. CASE \E w \in Workers, approved \in BOOLEAN : Claim(r, w, approved)
  <2>1. \/ store'.status = "executing" /\ requests'[r].at = "claimed"
        \/ store'.status = "escalated"
    <3>0. PICK w \in Workers, approved \in BOOLEAN : Claim(r, w, approved)
      BY <1>2
    <3>1. PICK s \in Slots :
            /\ store' = ClaimedRecord(s, approved)
            /\ requests' = [requests EXCEPT ![r] =
                              [at      |-> StageAfterClaim(approved),
                               verdict |-> IF approved THEN "approved" ELSE "rejected",
                               worker  |-> w,
                               slot    |-> s]]
      BY <3>0 DEF Claim
    <3>2. requests'[r].at = StageAfterClaim(approved)
      BY <1>0, <3>1
    <3>3. store'.status = IF approved THEN "executing" ELSE "escalated"
      BY <1>0, <3>1 DEF ClaimedRecord, Record
    <3> QED
      BY <3>2, <3>3 DEF StageAfterClaim
  <2> QED
    BY <2>1 DEF Carried, Undecided
<1>3. CASE DenyApproved(r)
  <2>1. store'.status = "escalated"
    BY <1>0, <1>3 DEF DenyApproved, Record
  <2> QED
    BY <2>1 DEF Carried
<1>4. CASE SaveApproved(r)
  <2>1. store'.status \in {"escalated", "verified_recovered"}
    <3>1. store' = copies[r] /\ requests[r].at = "saving"
      BY <1>4 DEF SaveApproved, RequestGoes
    <3>2. RequestKept(r)
      BY DEF LedgerInv
    <3> QED
      BY <3>1, <3>2 DEF RequestKept
  <2> QED
    BY <2>1 DEF Carried
<1>5. CASE TriggerApproved(r) \/ ApprovedReturn(r) \/ ApprovedVerify(r) \/ RequestFails(r)
  <2>1. store' = store /\ requests'[r].at \in {"workflow", "verifying", "saving", "failed"}
    <3>1. \A from, to : RequestGoes(r, from, to) => requests'[r].at = to
      BY <1>0 DEF RequestGoes, RequestState
    <3>2. CASE TriggerApproved(r)
      BY <3>1, <3>2 DEF TriggerApproved
    <3>3. CASE ApprovedReturn(r)
      BY <3>1, <3>3 DEF ApprovedReturn
    <3>4. CASE ApprovedVerify(r)
      BY <3>1, <3>4 DEF ApprovedVerify
    <3>5. CASE RequestFails(r)
      BY <3>1, <3>5 DEF RequestFails
    <3> QED
      BY <1>5, <3>2, <3>3, <3>4, <3>5
  <2>2. /\ store.status = "detected" => pipe'.at \in {"detected", "failed", "lost"}
        /\ store.status = "investigating" => pipe'.at \in {"diagnosing", "failed", "lost"}
        /\ store.status # "verifying"
    BY <1>1 DEF Carried
  <2>3. \E q \in Requests : requests'[q].at \in Undecided \cup {"failed", "lost"}
    BY <2>1 DEF Undecided
  <2> QED
    BY <2>1, <2>2, <2>3 DEF Carried
<1> QED
  BY <1>2, <1>3, <1>4, <1>5 DEF RequestNext

(* A crash takes the incident out of the hands that held it, visibly; the  *)
(* rest of the world leaves it where it is.                                *)
LEMMA WorldLeavesCarried ==
  ASSUME TypeOK, Carried, RecordUndisturbed,
         UpdateControls \/ \E w \in Workers : Feedback(w) \/ CrashRestart(w)
  PROVE  Carried'
<1>0. pipe \in PipeState /\ requests \in [Requests -> RequestState]
  BY DEF TypeOK
<1>1. store' = store
  BY DEF UpdateControls, CrashRestart, RecordUndisturbed
<1>2. pipe' = pipe \/ pipe'.at = "lost"
  BY <1>0 DEF UpdateControls, Feedback, CrashRestart, PipeState
<1>3. \A r \in Requests : requests'[r] = requests[r] \/ requests'[r].at = "lost"
  BY <1>0 DEF UpdateControls, Feedback, CrashRestart, RequestState
<1> QED
  BY <1>1, <1>2, <1>3 DEF Carried

(* The task that carries the incident can move, or another one can: where  *)
(* a worker's event loop is not free, it runs a task that is at a statement*)
(* without an await.                                                       *)
LEMMA CarriedIsMovable ==
  ASSUME Carried, InProgress, ~Abandoned
  PROVE  Movable
<1>1. \A w \in Workers : ~LoopFree(w) => Movable
  BY DEF LoopFree, Movable
<1>2. CASE store.status = "detected"
  BY <1>2 DEF Carried, Abandoned, Movable, Busy
<1>3. CASE store.status = "investigating"
  <2>1. pipe.at = "diagnosing"
    BY <1>3 DEF Carried, Abandoned
  <2> QED
    BY <2>1, <1>1, LifecycleAssumption DEF Movable
<1>4. CASE store.status = "executing"
  <2>1. PICK r \in Requests : requests[r].at \in Undecided
    BY <1>4 DEF Carried, Abandoned
  <2> QED
    BY <2>1 DEF Undecided, Movable, LoopFree
<1> QED
  BY <1>2, <1>3, <1>4 DEF Carried, InProgress

(* As long as no old record is put back, an incident whose durable status  *)
(* says that it is in progress is in the hands of a task that failed or    *)
(* was lost, or some task can take its next step: no order of steps, with  *)
(* any number of workers, requests, crashes and failures, leaves it in     *)
(* progress with nobody to go on.  With TasksOnlyAdvance this is what      *)
(* IncidentSettles rests on besides fair scheduling.                       *)
THEOREM ProgressIsCarried ==
  Spec /\ [][RecordUndisturbed]_vars => [](InProgress => Abandoned \/ Movable)
<1>1. Init => Carried
  BY DEF Init, NoRecord, Carried
<1>2. TypeOK /\ OneClaimInv /\ LedgerInv /\ Carried /\ [Next]_vars /\ [RecordUndisturbed]_vars => Carried'
  <2> SUFFICES ASSUME TypeOK, OneClaimInv, LedgerInv, Carried, [Next]_vars, [RecordUndisturbed]_vars
               PROVE  Carried'
    OBVIOUS
  <2>1. CASE UNCHANGED vars
    BY <2>1 DEF vars, Carried
  <2>2. CASE RecordUndisturbed /\ Next
    BY <2>2, PipelineCarriesOn, RequestsCarryOn, WorldLeavesCarried DEF Next
  <2> QED
    BY <2>1, <2>2
<1>3. Carried => (InProgress => Abandoned \/ Movable)
  BY CarriedIsMovable
<1> QED
  BY <1>1, <1>2, <1>3, TypeCorrect, OneClaimInvHolds, LedgerInvHolds, RecordIncludesClaims, PTL DEF Spec

=============================================================================
