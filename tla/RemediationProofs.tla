--------------------------- MODULE RemediationProofs ---------------------------
(***************************************************************************)
(* What the policy gate and the controls guarantee for every catalog,      *)
(* allowlist, proposal and context, and what the hourly limit of automatic *)
(* actions guarantees for every number of pipelines and restarts.          *)
(***************************************************************************)
EXTENDS ActionPolicy, AutoRemediation, Naturals,
        FiniteSetTheorems, FunctionTheorems, NaturalsInduction, WellFoundedInduction, TLAPS

-----------------------------------------------------------------------------
(* The policy gate.                                                        *)

(* How much a decision lets the program do by itself.                      *)
Reach(decision) ==
  IF decision = "permitted_auto" THEN 3
  ELSE IF decision = "approval_required" THEN 2
  ELSE IF decision = "recommend_only" THEN 1
  ELSE 0

(* The gate and the controls answer with a decision of the enumeration.    *)
LEMMA DecisionTypes ==
  ASSUME NEW p, NEW critical, NEW ctx, NEW limitFree, NEW ctl, NEW decision \in Decisions
  PROVE  /\ Evaluate(p, critical, ctx, limitFree) \in Decisions
         /\ Constrain(decision, ctl) \in Decisions
  BY DEF Evaluate, Constrain, Decisions

(* update_agent_controls (api.py:840): "autonomy settings can only         *)
(* constrain deterministic policy".  Whatever the controls say, the        *)
(* constrained decision reaches no further than the gate's.                *)
THEOREM ControlsOnlyConstrain ==
  ASSUME NEW decision \in Decisions, NEW ctl \in Controls
  PROVE  Reach(Constrain(decision, ctl)) <= Reach(decision)
<1>1. CASE decision = "denied"
  BY <1>1 DEF Constrain, Reach
<1>2. CASE decision = "recommend_only"
  BY <1>2 DEF Constrain, Reach
<1>3. CASE decision = "approval_required"
  BY <1>3 DEF Constrain, Reach
<1>4. CASE decision = "permitted_auto"
  BY <1>4 DEF Constrain, Reach
<1> QED
  BY <1>1, <1>2, <1>3, <1>4 DEF Decisions

(* The gate fails closed (policy.py, principles of the class): only a      *)
(* registered workflow with parameters in bounds, on an incident that is   *)
(* not critical, can be run or proposed for approval, and a high-risk      *)
(* action never can.                                                       *)
THEOREM GateFailsClosed ==
  ASSUME NEW p, NEW critical \in BOOLEAN, NEW ctx, NEW limitFree,
         Evaluate(p, critical, ctx, limitFree) \in {"permitted_auto", "approval_required"}
  PROVE  /\ ~critical
         /\ p.valid
         /\ p.action \in N8N_WORKFLOWS \ HIGH_RISK_ACTIONS
<1>1. Permissible(p, critical) /\ p.action \notin HIGH_RISK_ACTIONS
  BY DEF Evaluate
<1> QED
  BY <1>1 DEF Permissible

(* In production an action runs without a person only if the operator      *)
(* allowlisted it, it is low risk, auto-remediation covers the service and *)
(* the hourly limit has room; every other production action waits.         *)
THEOREM ProductionAutoIsOptIn ==
  ASSUME NEW p, NEW critical \in BOOLEAN, NEW ctx \in Context, NEW limitFree \in BOOLEAN,
         ctx.env = "production",
         Evaluate(p, critical, ctx, limitFree) = "permitted_auto"
  PROVE  /\ ctx.auto_on /\ limitFree
         /\ p.action \in AutoActionAllowlist \cap LOW_RISK_ACTIONS
         /\ p.action \notin MEDIUM_RISK_ACTIONS
<1>1. AutoAllowed(p, ctx, limitFree)
  BY DEF Evaluate
<1> QED
  BY <1>1, CatalogAssumption DEF AutoAllowed

(* The approval-time recheck (execute_approved_action) asks the gate       *)
(* without the severity: for an incident that is not critical it can only  *)
(* agree with the pipeline's decision, or differ because the hourly limit  *)
(* changed in between.                                                     *)
THEOREM RecheckAgrees ==
  ASSUME NEW p, NEW ctx, NEW before \in BOOLEAN, NEW after \in BOOLEAN,
         Evaluate(p, FALSE, ctx, before) = "approval_required",
         Evaluate(p, FALSE, ctx, after) # "approval_required"
  PROVE  /\ Evaluate(p, FALSE, ctx, after) = "permitted_auto"
         /\ after /\ ~before
         /\ ctx.auto_on
<1>1. /\ Permissible(p, FALSE) /\ p.action \notin HIGH_RISK_ACTIONS
      /\ ~AutoAllowed(p, ctx, before) /\ NeedsApproval(p, ctx)
  BY DEF Evaluate
<1>2. AutoAllowed(p, ctx, after) /\ Evaluate(p, FALSE, ctx, after) = "permitted_auto"
  BY <1>1 DEF Evaluate
<1> QED
  BY <1>1, <1>2 DEF AutoAllowed

-----------------------------------------------------------------------------
(* The hourly limit of automatic actions.                                  *)

(* What _auto_allowed drops from the front is the longest prefix of the    *)
(* history that is older than an hour.                                     *)
LEMMA DroppedIsOldPrefix ==
  ASSUME Len(autoHistory) \in Nat
  PROVE  /\ Dropped \in 0..Len(autoHistory)
         /\ \A i \in 1..Dropped : Old(i)
<1> DEFINE R == {ss \in Nat \X Nat : ss[1] < ss[2]}
           T == {n \in Nat : n >= Len(autoHistory) \/ ~Old(n + 1)}
<1>1. IsWellFoundedOn(R, Nat)
  BY NatLessThanWellFounded DEF OpToRel
<1>2. Len(autoHistory) \in T
  OBVIOUS
<1>3. PICK m \in T : \A y \in T : ~(<<y, m>> \in R)
  <2> HIDE DEF R, T
  <2>1. T \subseteq Nat
    BY DEF T
  <2> QED
    BY <1>1, <1>2, <2>1, WFMin
<1>4. m \in 0..Len(autoHistory)
  <2>1. ~(<<Len(autoHistory), m>> \in R) /\ m \in Nat
    BY <1>2, <1>3
  <2> QED
    BY <2>1
<1>5. ASSUME NEW i \in 1..m PROVE Old(i)
  <2>1. i - 1 \in Nat /\ i - 1 < m /\ (i - 1) + 1 = i /\ i - 1 < Len(autoHistory)
    BY <1>4
  <2>2. i - 1 \notin T
    BY <1>3, <2>1
  <2>3. Old((i - 1) + 1)
    BY <2>1, <2>2
  <2> QED
    BY <2>1, <2>3
<1>6. m < Len(autoHistory) => ~Old(m + 1)
  BY <1>3, <1>4
<1>7. \E n \in 0..Len(autoHistory) :
        /\ \A i \in 1..n : Old(i)
        /\ n < Len(autoHistory) => ~Old(n + 1)
  BY <1>4, <1>5, <1>6
<1> QED
  BY <1>7 DEF Dropped

(* The history that is left.                                               *)
LEMMA RecentIsSuffix ==
  ASSUME autoHistory \in Seq(0..MaxTicks)
  PROVE  /\ Recent \in Seq(0..MaxTicks)
         /\ Len(Recent) = Len(autoHistory) - Dropped
         /\ \A i \in 1..Len(Recent) : Recent[i] = autoHistory[Dropped + i]
<1>1. Dropped \in 0..Len(autoHistory) /\ Len(autoHistory) \in Nat
  BY DroppedIsOldPrefix
<1> DEFINE d == Dropped
           T == 0..MaxTicks
<1>2. d \in Nat /\ d <= Len(autoHistory) /\ autoHistory \in Seq(T)
  BY <1>1
<1> HIDE DEF d, T
<1>3. SubSeq(autoHistory, d + 1, Len(autoHistory)) \in Seq(T)
  BY <1>2
<1>4. Len(SubSeq(autoHistory, d + 1, Len(autoHistory))) = Len(autoHistory) - d
  BY <1>2
<1>5. \A i \in 1..(Len(autoHistory) - d) :
        SubSeq(autoHistory, d + 1, Len(autoHistory))[i] = autoHistory[d + i]
  BY <1>2
<1> QED
  BY <1>3, <1>4, <1>5 DEF Recent, d, T

\* What one process may have triggered within an hour.
PerLife == AutoLimit + Cardinality(Pipelines) - 1

\* The triggered workflows of S that are not older than an hour.
RecentRuns(S) == {i \in S : tick - autoRuns[i] <= Hour}

\* The workflows triggered by this process, and the entries of its history,
\* at t or later.
RunsSince(first, t) == {i \in (first + 1)..Len(autoRuns) : autoRuns[i] >= t}
HistorySince(t) == {i \in 1..Len(autoHistory) : autoHistory[i] >= t}

(* What the processes before this one triggered within an hour is bounded  *)
(* by their number; what this one did, by the limit and the other          *)
(* pipelines; and whatever it triggered within the hour is in the history  *)
(* or still awaited.  The runs up to first are those of earlier processes. *)
AutoBound(first) ==
  /\ first \in 0..Len(autoRuns)
  /\ Cardinality(RecentRuns(1..first)) <= autoCrashes * PerLife
  /\ Cardinality(RecentRuns((first + 1)..Len(autoRuns))) <= PerLife
  /\ \A t \in 0..MaxTicks :
       tick <= t + Hour =>
         Cardinality(RunsSince(first, t)) <= Cardinality(HistorySince(t)) + Cardinality(executing)

AutoPast ==
  /\ \A i \in 1..Len(autoRuns) : autoRuns[i] <= tick
  /\ \A i \in 1..Len(autoHistory) : autoHistory[i] <= tick

AutoInv == AutoPast /\ \E first \in 0..Len(autoRuns) : AutoBound(first)

\* The facts about the numbers of the state that the proofs start from.
LEMMA AutoNumbers ==
  ASSUME AutoTypeOK
  PROVE  /\ tick \in Nat /\ autoCrashes \in Nat /\ PerLife \in Nat /\ Hour \in Nat
         /\ MaxTicks \in Nat /\ tick <= MaxTicks
         /\ Len(autoRuns) \in Nat /\ Len(autoHistory) \in Nat
         /\ \A i \in 1..Len(autoRuns) : autoRuns[i] \in Nat
         /\ \A i \in 1..Len(autoHistory) : autoHistory[i] \in Nat
         /\ IsFiniteSet(executing) /\ Cardinality(executing) \in Nat
<1>1. IsFiniteSet(Pipelines) /\ Cardinality(Pipelines) \in Nat /\ IsFiniteSet(executing)
      /\ Cardinality(executing) \in Nat
  BY AutoAssumption, FS_Subset, FS_CardinalityType DEF AutoTypeOK
<1>2. PerLife \in Nat
  BY <1>1, AutoAssumption DEF PerLife
<1>3. autoRuns \in Seq(0..MaxTicks) /\ autoHistory \in Seq(0..MaxTicks) /\ MaxTicks \in Nat
      /\ MaxAutoCrashes \in Nat
  BY AutoAssumption DEF AutoTypeOK
<1>4. \A i \in 1..Len(autoRuns) : autoRuns[i] \in Nat
  BY <1>3
<1>5. \A i \in 1..Len(autoHistory) : autoHistory[i] \in Nat
  BY <1>3
<1> QED
  BY <1>1, <1>2, <1>3, <1>4, <1>5, AutoAssumption DEF AutoTypeOK

(* A part of an interval is finite, and no larger than any set around it.  *)
LEMMA PartOfInterval ==
  ASSUME NEW a \in Nat, NEW b \in Nat, NEW S, S \subseteq a..b
  PROVE  /\ IsFiniteSet(S) /\ Cardinality(S) \in Nat
         /\ \A U : U \subseteq S => IsFiniteSet(U) /\ Cardinality(U) \in Nat /\ Cardinality(U) <= Cardinality(S)
<1>1. IsFiniteSet(a..b)
  BY FS_Interval
<1>2. IsFiniteSet(S) /\ Cardinality(S) \in Nat
  BY <1>1, FS_Subset, FS_CardinalityType
<1> QED
  BY <1>2, FS_Subset, FS_CardinalityType

(* One element more adds at most one.                                      *)
LEMMA AtMostOneMore ==
  ASSUME NEW S, IsFiniteSet(S), NEW x, NEW U, U \subseteq S \cup {x}
  PROVE  /\ IsFiniteSet(U) /\ Cardinality(U) \in Nat /\ Cardinality(S) \in Nat
         /\ Cardinality(U) <= Cardinality(S) + 1
<1> DEFINE V == S \cup {x}
<1>1. IsFiniteSet(V) /\ Cardinality(S) \in Nat /\ Cardinality(V) \in Nat
  BY FS_AddElement, FS_CardinalityType
<1>2. Cardinality(V) = IF x \in S THEN Cardinality(S) ELSE Cardinality(S) + 1
  BY FS_AddElement
<1>3. U \in SUBSET V
  OBVIOUS
<1> HIDE DEF V
<1>4. IsFiniteSet(U) /\ Cardinality(U) <= Cardinality(V) /\ Cardinality(U) \in Nat
  BY <1>1, <1>3, FS_Subset, FS_CardinalityType
<1> QED
  BY <1>1, <1>2, <1>4

(* The types of the counters of the hourly limit.                          *)
LEMMA AutoTypeNext == AutoTypeOK /\ [AutoNext]_autoVars => AutoTypeOK'
<1> SUFFICES ASSUME AutoTypeOK, [AutoNext]_autoVars PROVE AutoTypeOK'
  OBVIOUS
<1> USE AutoAssumption
<1>0. Recent \in Seq(0..MaxTicks)
  BY RecentIsSuffix DEF AutoTypeOK
<1>1. ASSUME NEW p \in Pipelines, TriggerAuto(p) PROVE AutoTypeOK'
  <2>1. tick \in 0..MaxTicks /\ autoRuns \in Seq(0..MaxTicks) /\ Len(autoRuns) < MaxAutoRuns
    BY <1>1 DEF AutoTypeOK, TriggerAuto
  <2>2. autoRuns' \in Seq(0..MaxTicks) /\ Len(autoRuns') = Len(autoRuns) + 1
    BY <1>1, <2>1 DEF TriggerAuto
  <2>3. Len(autoRuns') <= MaxAutoRuns
    BY <2>1, <2>2
  <2> QED
    BY <1>0, <1>1, <2>2, <2>3 DEF AutoTypeOK, TriggerAuto
<1>2. ASSUME NEW p \in Pipelines, RefuseAuto(p) PROVE AutoTypeOK'
  BY <1>0, <1>2 DEF AutoTypeOK, RefuseAuto
<1>3. ASSUME NEW p \in Pipelines, RecordAuto(p) PROVE AutoTypeOK'
  <2>1. tick \in 0..MaxTicks /\ autoHistory \in Seq(0..MaxTicks)
    BY DEF AutoTypeOK
  <2>2. autoHistory' \in Seq(0..MaxTicks)
    BY <1>3, <2>1 DEF RecordAuto
  <2> QED
    BY <1>3, <2>2 DEF AutoTypeOK, RecordAuto
<1>4. CASE CrashAuto
  BY <1>4 DEF AutoTypeOK, CrashAuto
<1>5. CASE Tick
  BY <1>5 DEF AutoTypeOK, Tick
<1>6. CASE UNCHANGED autoVars
  BY <1>6 DEF AutoTypeOK, autoVars
<1> QED
  BY <1>1, <1>2, <1>3, <1>4, <1>5, <1>6 DEF AutoNext

(* Every automatic action of a service keeps the types.                    *)
THEOREM AutoTypeCorrect == AutoSpec => []AutoTypeOK
<1>1. AutoInit => AutoTypeOK
  BY AutoAssumption DEF AutoInit, AutoTypeOK
<1> QED
  BY <1>1, AutoTypeNext, PTL DEF AutoSpec

(* Dropping what is older than an hour loses nothing of the last hour.     *)
LEMMA RecentKeepsTheHour ==
  ASSUME AutoTypeOK, NEW t \in 0..MaxTicks, tick <= t + Hour
  PROVE  /\ HistorySince(t) \subseteq (Dropped + 1)..Len(autoHistory)
         /\ Cardinality(HistorySince(t)) <=
              Cardinality({i \in 1..Len(Recent) : Recent[i] >= t})
<1>0. /\ Dropped \in 0..Len(autoHistory) /\ Len(autoHistory) \in Nat
      /\ \A i \in 1..Dropped : Old(i)
  BY DroppedIsOldPrefix, AutoNumbers
<1>1. /\ Len(Recent) = Len(autoHistory) - Dropped
      /\ \A i \in 1..Len(Recent) : Recent[i] = autoHistory[Dropped + i]
  BY RecentIsSuffix DEF AutoTypeOK
<1>2. ASSUME NEW i \in HistorySince(t) PROVE i \in (Dropped + 1)..Len(autoHistory)
  <2>1. i \in 1..Len(autoHistory) /\ autoHistory[i] >= t /\ autoHistory[i] \in Nat
    BY AutoNumbers DEF HistorySince
  <2>2. ~(tick - autoHistory[i] > Hour)
    BY <2>1, AutoNumbers
  <2>3. ~(i \in 1..Dropped)
    BY <1>0, <2>2 DEF Old
  <2> QED
    BY <1>0, <2>1, <2>3
<1> DEFINE U == {i \in 1..Len(Recent) : Recent[i] >= t}
           f == [i \in HistorySince(t) |-> i - Dropped]
<1>3. f \in [HistorySince(t) -> U]
  <2> SUFFICES ASSUME NEW i \in HistorySince(t) PROVE i - Dropped \in U
    OBVIOUS
  <2>1. i \in (Dropped + 1)..Len(autoHistory) /\ autoHistory[i] >= t
    BY <1>2 DEF HistorySince
  <2>2. i - Dropped \in 1..Len(Recent) /\ Dropped + (i - Dropped) = i
    BY <1>0, <1>1, <2>1
  <2> QED
    BY <1>1, <2>1, <2>2
<1>4. \A a, b \in HistorySince(t) : f[a] = f[b] => a = b
  BY <1>0, <1>2
<1>5. f \in Injection(HistorySince(t), U)
  <2>1. DOMAIN f = HistorySince(t)
    OBVIOUS
  <2> QED
    BY <1>3, <1>4, <2>1 DEF Injection, IsInjective
<1>6. IsFiniteSet(U)
  <2>1. Len(Recent) \in Nat
    BY <1>0, <1>1
  <2> QED
    BY <2>1, PartOfInterval
<1>7. Cardinality(HistorySince(t)) <= Cardinality(U)
  <2> HIDE DEF U, f
  <2> QED
    BY <1>5, <1>6, FS_Injection
<1> QED
  BY <1>2, <1>7

(* Before an action is triggered, this process has triggered fewer within  *)
(* the hour than the limit and the other pipelines allow.                  *)
LEMMA RoomForOne ==
  ASSUME AutoTypeOK, AutoPast, NEW p \in Pipelines, p \notin executing, LimitFree,
         NEW first \in 0..Len(autoRuns), AutoBound(first)
  PROVE  Cardinality(RecentRuns((first + 1)..Len(autoRuns))) + 1 <= PerLife
<1> DEFINE t == IF tick >= Hour THEN tick - Hour ELSE 0
           N == Len(autoRuns)
           H == Len(autoHistory)
<1>1. t \in 0..MaxTicks /\ tick <= t + Hour
  BY AutoNumbers
<1>2. RecentRuns((first + 1)..N) \subseteq RunsSince(first, t)
  <2> SUFFICES ASSUME NEW i \in (first + 1)..N, tick - autoRuns[i] <= Hour PROVE autoRuns[i] >= t
    BY DEF RecentRuns, RunsSince
  <2>1. autoRuns[i] \in Nat
    BY AutoNumbers
  <2> QED
    BY <2>1, AutoNumbers
<1>3. Cardinality(RunsSince(first, t)) <= Cardinality(HistorySince(t)) + Cardinality(executing)
  BY <1>1 DEF AutoBound
<1>4. Cardinality(HistorySince(t)) <= H - Dropped /\ Cardinality(HistorySince(t)) \in Nat
  <2>1. HistorySince(t) \subseteq (Dropped + 1)..H
    BY <1>1, RecentKeepsTheHour
  <2>2. Dropped \in 0..H /\ H \in Nat
    BY DroppedIsOldPrefix, AutoNumbers
  <2>3. Dropped + 1 \in Int /\ H \in Int
    BY <2>2
  <2>4. /\ IsFiniteSet((Dropped + 1)..H)
        /\ Cardinality((Dropped + 1)..H) = IF Dropped + 1 > H THEN 0 ELSE H - (Dropped + 1) + 1
    BY <2>3, FS_Interval
  <2>5. Cardinality((Dropped + 1)..H) = H - Dropped
    <3> HIDE DEF H
    <3> QED
      BY <2>2, <2>4
  <2>6. /\ IsFiniteSet(HistorySince(t))
        /\ Cardinality(HistorySince(t)) <= Cardinality((Dropped + 1)..H)
    BY <2>1, <2>4, FS_Subset
  <2>7. Cardinality(HistorySince(t)) \in Nat
    BY <2>6, FS_CardinalityType
  <2> QED
    BY <2>5, <2>6, <2>7
<1>5. H - Dropped < AutoLimit /\ H - Dropped \in Int /\ AutoLimit \in Nat
  <2>1. Len(Recent) = H - Dropped /\ Dropped \in 0..H /\ H \in Nat
    BY RecentIsSuffix, DroppedIsOldPrefix, AutoNumbers DEF AutoTypeOK
  <2> QED
    BY <2>1, AutoAssumption DEF LimitFree
<1>6. Cardinality(executing) + 1 <= Cardinality(Pipelines) /\ Cardinality(Pipelines) \in Nat
      /\ Cardinality(executing) \in Nat
  <2>1. executing \cup {p} \subseteq Pipelines /\ IsFiniteSet(Pipelines) /\ IsFiniteSet(executing)
    BY AutoAssumption, AutoNumbers DEF AutoTypeOK
  <2>2. Cardinality(executing \cup {p}) = Cardinality(executing) + 1
    BY <2>1, FS_AddElement
  <2> QED
    BY <2>1, <2>2, FS_Subset, FS_CardinalityType
<1>7. Cardinality(RecentRuns((first + 1)..N)) <= Cardinality(RunsSince(first, t))
      /\ Cardinality(RecentRuns((first + 1)..N)) \in Nat /\ Cardinality(RunsSince(first, t)) \in Nat
  <2>1. RunsSince(first, t) \subseteq (first + 1)..N /\ first + 1 \in Nat /\ N \in Nat
    BY AutoNumbers DEF RunsSince
  <2> QED
    BY <1>2, <2>1, PartOfInterval
<1> HIDE DEF t, N, H
<1>8. Cardinality(RecentRuns((first + 1)..N)) + 1 <= AutoLimit + Cardinality(Pipelines) - 1
  BY <1>3, <1>4, <1>5, <1>6, <1>7
<1> QED
  BY <1>8 DEF PerLife, N

(* A run that is added at the end is counted once.                         *)
LEMMA OneMoreRun ==
  ASSUME AutoTypeOK, autoRuns' = Append(autoRuns, tick), tick' = tick
  PROVE  /\ Len(autoRuns') = Len(autoRuns) + 1
         /\ \A i \in 1..Len(autoRuns) : autoRuns'[i] = autoRuns[i]
         /\ autoRuns'[Len(autoRuns) + 1] = tick
  BY DEF AutoTypeOK

(* A workflow is triggered.                                                *)
LEMMA TriggerKeepsBound ==
  ASSUME AutoTypeOK, AutoPast, NEW p \in Pipelines, TriggerAuto(p),
         NEW first \in 0..Len(autoRuns), AutoBound(first)
  PROVE  AutoBound(first)'
<1> DEFINE N == Len(autoRuns)
<1>1. /\ Len(autoRuns') = N + 1 /\ tick' = tick /\ autoCrashes' = autoCrashes
      /\ \A i \in 1..N : autoRuns'[i] = autoRuns[i]
      /\ autoHistory' = Recent /\ executing' = executing \cup {p} /\ p \notin executing /\ LimitFree
  BY OneMoreRun DEF TriggerAuto
<1>2. /\ N \in Nat /\ first \in Nat /\ first <= N /\ tick \in Nat /\ PerLife \in Nat
      /\ IsFiniteSet(executing) /\ Cardinality(executing) \in Nat
  BY AutoNumbers
<1>3. first \in 0..Len(autoRuns')
  BY <1>1, <1>2
<1>4. RecentRuns(1..first)' = RecentRuns(1..first)
  BY <1>1, <1>2 DEF RecentRuns
<1>5. Cardinality(RecentRuns((first + 1)..Len(autoRuns))') <= PerLife
  <2> DEFINE S == RecentRuns((first + 1)..Len(autoRuns))
  <2>1. RecentRuns((first + 1)..Len(autoRuns))' \subseteq S \cup {N + 1}
    BY <1>1, <1>2 DEF RecentRuns
  <2>2. S \subseteq (first + 1)..N /\ first + 1 \in Nat
    BY <1>2 DEF RecentRuns
  <2>3. IsFiniteSet(S) /\ Cardinality(S) \in Nat
    BY <1>2, <2>2, PartOfInterval
  <2>4. Cardinality(S) + 1 <= PerLife
    BY <1>1, RoomForOne
  <2> HIDE DEF S
  <2>5. /\ Cardinality(RecentRuns((first + 1)..Len(autoRuns))') <= Cardinality(S) + 1
        /\ Cardinality(RecentRuns((first + 1)..Len(autoRuns))') \in Nat
    BY <2>1, <2>3, AtMostOneMore
  <2> QED
    BY <1>2, <2>3, <2>4, <2>5
<1>6. ASSUME NEW t \in 0..MaxTicks, tick <= t + Hour
      PROVE  Cardinality(RunsSince(first, t)') <= Cardinality(HistorySince(t)') + Cardinality(executing')
  <2>1. RunsSince(first, t)' \subseteq RunsSince(first, t) \cup {N + 1}
    BY <1>1, <1>2 DEF RunsSince
  <2>2. RunsSince(first, t) \subseteq (first + 1)..N /\ first + 1 \in Nat
    BY <1>2 DEF RunsSince
  <2>3. IsFiniteSet(RunsSince(first, t)) /\ Cardinality(RunsSince(first, t)) \in Nat
    BY <1>2, <2>2, PartOfInterval
  <2>5. /\ Cardinality(RunsSince(first, t)') <= Cardinality(RunsSince(first, t)) + 1
        /\ Cardinality(RunsSince(first, t)') \in Nat
    BY <2>1, <2>3, AtMostOneMore
  <2>6. Cardinality(executing') = Cardinality(executing) + 1
    BY <1>1, <1>2, FS_AddElement
  <2>7. Cardinality(RunsSince(first, t)) <= Cardinality(HistorySince(t)) + Cardinality(executing)
    BY <1>6 DEF AutoBound
  <2>8. HistorySince(t)' = {i \in 1..Len(Recent) : Recent[i] >= t}
    BY <1>1 DEF HistorySince
  <2>9. Cardinality(HistorySince(t)) <= Cardinality(HistorySince(t)')
    BY <1>6, <2>8, RecentKeepsTheHour
  <2>10. Cardinality(HistorySince(t)) \in Nat /\ Cardinality(HistorySince(t)') \in Nat
    <3>1. Len(autoHistory) \in Nat /\ Len(Recent) \in Nat
      BY AutoNumbers, RecentIsSuffix DEF AutoTypeOK
    <3>2. HistorySince(t) \subseteq 1..Len(autoHistory) /\ HistorySince(t)' \subseteq 1..Len(Recent)
      BY <2>8 DEF HistorySince
    <3> QED
      BY <3>1, <3>2, PartOfInterval
  <2> QED
    BY <1>2, <2>3, <2>5, <2>6, <2>7, <2>9, <2>10
<1>7. Cardinality(RecentRuns(1..first)') <= (autoCrashes * PerLife)'
  BY <1>1, <1>4 DEF AutoBound, PerLife
<1>8. \A t \in 0..MaxTicks :
        tick' <= t + Hour => Cardinality(RunsSince(first, t)') <= Cardinality(HistorySince(t)') + Cardinality(executing')
  BY <1>1, <1>6
<1> QED
  BY <1>3, <1>5, <1>7, <1>8 DEF AutoBound, PerLife

(* An action is refused: only the history is shortened.                    *)
LEMMA RefuseKeepsBound ==
  ASSUME AutoTypeOK, NEW p \in Pipelines, RefuseAuto(p),
         NEW first \in 0..Len(autoRuns), AutoBound(first)
  PROVE  AutoBound(first)'
<1>1. UNCHANGED <<tick, executing, autoRuns, autoCrashes>> /\ autoHistory' = Recent
  BY DEF RefuseAuto
<1>2. ASSUME NEW t \in 0..MaxTicks, tick <= t + Hour
      PROVE  Cardinality(RunsSince(first, t)') <= Cardinality(HistorySince(t)') + Cardinality(executing')
  <2>1. RunsSince(first, t)' = RunsSince(first, t)
    BY <1>1 DEF RunsSince
  <2>2. HistorySince(t)' = {i \in 1..Len(Recent) : Recent[i] >= t}
    BY <1>1 DEF HistorySince
  <2>3. Cardinality(HistorySince(t)) <= Cardinality(HistorySince(t)')
    BY <1>2, <2>2, RecentKeepsTheHour
  <2>4. Cardinality(RunsSince(first, t)) <= Cardinality(HistorySince(t)) + Cardinality(executing)
    BY <1>2 DEF AutoBound
  <2>5. Cardinality(HistorySince(t)) \in Nat /\ Cardinality(HistorySince(t)') \in Nat
    <3>1. Len(autoHistory) \in Nat /\ Len(Recent) \in Nat
      BY AutoNumbers, RecentIsSuffix DEF AutoTypeOK
    <3>2. HistorySince(t) \subseteq 1..Len(autoHistory) /\ HistorySince(t)' \subseteq 1..Len(Recent)
      BY <2>2 DEF HistorySince
    <3> QED
      BY <3>1, <3>2, PartOfInterval
  <2>6. Cardinality(RunsSince(first, t)) \in Nat /\ Cardinality(executing) \in Nat /\ executing' = executing
    <3>1. RunsSince(first, t) \subseteq (first + 1)..Len(autoRuns) /\ first + 1 \in Nat /\ Len(autoRuns) \in Nat
      BY AutoNumbers DEF RunsSince
    <3> QED
      BY <1>1, <3>1, PartOfInterval, AutoNumbers
  <2> QED
    BY <2>1, <2>3, <2>4, <2>5, <2>6
<1>3. /\ RecentRuns(1..first)' = RecentRuns(1..first)
      /\ RecentRuns((first + 1)..Len(autoRuns))' = RecentRuns((first + 1)..Len(autoRuns))
  BY <1>1 DEF RecentRuns
<1>4. \A t \in 0..MaxTicks :
        tick' <= t + Hour => Cardinality(RunsSince(first, t)') <= Cardinality(HistorySince(t)') + Cardinality(executing')
  BY <1>1, <1>2
<1> QED
  BY <1>1, <1>3, <1>4 DEF AutoBound, PerLife

(* A workflow returns: what was awaited is in the history now.             *)
LEMMA RecordKeepsBound ==
  ASSUME AutoTypeOK, AutoPast, NEW p \in Pipelines, RecordAuto(p),
         NEW first \in 0..Len(autoRuns), AutoBound(first)
  PROVE  AutoBound(first)'
<1> DEFINE H == Len(autoHistory)
<1>1. /\ UNCHANGED <<tick, autoRuns, autoCrashes>> /\ p \in executing /\ executing' = executing \ {p}
      /\ autoHistory' = Append(autoHistory, tick)
  BY DEF RecordAuto
<1>2. /\ Len(autoHistory') = H + 1 /\ H \in Nat
      /\ \A i \in 1..H : autoHistory'[i] = autoHistory[i]
      /\ autoHistory'[H + 1] = tick
  BY <1>1 DEF AutoTypeOK
<1>3. ASSUME NEW t \in 0..MaxTicks, tick <= t + Hour
      PROVE  Cardinality(RunsSince(first, t)') <= Cardinality(HistorySince(t)') + Cardinality(executing')
  <2>1. RunsSince(first, t)' = RunsSince(first, t)
    BY <1>1 DEF RunsSince
  <2>2. IsFiniteSet(executing) /\ IsFiniteSet(executing') /\ Cardinality(executing) \in Nat
        /\ Cardinality(executing') = Cardinality(executing) - 1 /\ Cardinality(executing') \in Nat
    BY <1>1, AutoNumbers, FS_RemoveElement, FS_CardinalityType
  <2>3. HistorySince(t) \subseteq 1..H /\ HistorySince(t)' \subseteq 1..(H + 1) /\ H + 1 \in Nat
    BY <1>2 DEF HistorySince
  <2>4. /\ IsFiniteSet(HistorySince(t)) /\ Cardinality(HistorySince(t)) \in Nat
        /\ IsFiniteSet(HistorySince(t)') /\ Cardinality(HistorySince(t)') \in Nat
    BY <1>2, <2>3, PartOfInterval
  <2>5. CASE tick >= t
    <3>1. HistorySince(t)' = HistorySince(t) \cup {H + 1} /\ H + 1 \notin HistorySince(t)
      BY <1>2, <2>5 DEF HistorySince
    <3>2. Cardinality(HistorySince(t)') = Cardinality(HistorySince(t)) + 1
      BY <2>4, <3>1, FS_AddElement
    <3>3. Cardinality(RunsSince(first, t)) <= Cardinality(HistorySince(t)) + Cardinality(executing)
      BY <1>3 DEF AutoBound
    <3> HIDE DEF H
    <3>4. Cardinality(RunsSince(first, t)') <= Cardinality(HistorySince(t)) + Cardinality(executing)
      BY <2>1, <3>3
    <3>5. Cardinality(HistorySince(t)) + Cardinality(executing) = Cardinality(HistorySince(t)') + Cardinality(executing')
      BY <2>2, <2>4, <3>2
    <3> QED
      BY <3>4, <3>5
  <2>6. CASE ~(tick >= t)
    <3>1. \A i \in (first + 1)..Len(autoRuns) : i \in 1..Len(autoRuns) /\ autoRuns[i] \in Nat
      BY AutoNumbers
    <3>2. \A i \in (first + 1)..Len(autoRuns) : ~(autoRuns[i] >= t)
      BY <2>6, <3>1, AutoNumbers DEF AutoPast
    <3>3. RunsSince(first, t)' = {}
      BY <2>1, <3>2 DEF RunsSince
    <3> QED
      BY <2>2, <2>4, <3>3, FS_EmptySet
  <2> QED
    BY <2>5, <2>6
<1>4. /\ RecentRuns(1..first)' = RecentRuns(1..first)
      /\ RecentRuns((first + 1)..Len(autoRuns))' = RecentRuns((first + 1)..Len(autoRuns))
  BY <1>1 DEF RecentRuns
<1>5. \A t \in 0..MaxTicks :
        tick' <= t + Hour => Cardinality(RunsSince(first, t)') <= Cardinality(HistorySince(t)') + Cardinality(executing')
  BY <1>1, <1>3
<1> QED
  BY <1>1, <1>4, <1>5 DEF AutoBound, PerLife

(* All runs together: those of earlier processes, and those of this one.   *)
LEMMA AllRuns ==
  ASSUME AutoTypeOK, NEW first \in 0..Len(autoRuns), AutoBound(first)
  PROVE  /\ Cardinality(RecentRuns(1..Len(autoRuns))) <= (autoCrashes + 1) * PerLife
         /\ Cardinality(RecentRuns(1..Len(autoRuns))) \in Nat
<1> DEFINE N == Len(autoRuns)
           A == RecentRuns(1..first)
           B == RecentRuns((first + 1)..N)
<1>1. N \in Nat /\ first \in Nat /\ first <= N /\ first + 1 \in Nat
  BY AutoNumbers
<1>2. RecentRuns(1..N) = A \cup B
  BY <1>1 DEF RecentRuns
<1>3. A \subseteq 1..first /\ B \subseteq (first + 1)..N
  BY DEF RecentRuns
<1>4. IsFiniteSet(A) /\ Cardinality(A) \in Nat /\ IsFiniteSet(B) /\ Cardinality(B) \in Nat
  BY <1>1, <1>3, PartOfInterval
<1>5. /\ Cardinality(A) <= autoCrashes * PerLife /\ Cardinality(B) <= PerLife
      /\ PerLife \in Nat /\ autoCrashes \in Nat
  BY AutoNumbers DEF AutoBound
<1> HIDE DEF A, B, N
<1>6. /\ IsFiniteSet(A \cup B) /\ Cardinality(A \cup B) \in Nat
      /\ Cardinality(A \cup B) <= Cardinality(A) + Cardinality(B)
  <2>1. IsFiniteSet(A \cup B) /\ Cardinality(A \cup B) = Cardinality(A) + Cardinality(B) - Cardinality(A \cap B)
    BY <1>4, FS_Union
  <2>2. Cardinality(A \cap B) \in Nat
    BY <1>4, FS_Subset, FS_CardinalityType
  <2> QED
    BY <1>4, <2>1, <2>2, FS_CardinalityType
<1>7. (autoCrashes + 1) * PerLife = autoCrashes * PerLife + PerLife
  BY <1>5
<1>8. Cardinality(A \cup B) <= (autoCrashes + 1) * PerLife
  <2> DEFINE x == autoCrashes * PerLife
  <2>1. x \in Nat
    BY <1>5
  <2> HIDE DEF x
  <2>2. Cardinality(A \cup B) <= x + PerLife
    BY <1>4, <1>5, <1>6, <2>1 DEF x
  <2> QED
    BY <1>7, <2>2 DEF x
<1> QED
  BY <1>2, <1>6, <1>8 DEF N

(* The process is restarted: what it triggered counts as earlier.          *)
LEMMA CrashKeepsBound ==
  ASSUME AutoTypeOK, CrashAuto, NEW first \in 0..Len(autoRuns), AutoBound(first)
  PROVE  AutoBound(Len(autoRuns))'
<1>1. UNCHANGED <<tick, autoRuns>> /\ autoCrashes' = autoCrashes + 1 /\ autoHistory' = <<>> /\ executing' = {}
  BY DEF CrashAuto
<1>2. Len(autoRuns) \in Nat /\ PerLife \in Nat
  BY AutoNumbers
<1>3. Cardinality({}) = 0
  BY FS_EmptySet
<1>4. (Len(autoRuns) + 1)..Len(autoRuns) = {}
  BY <1>2
<1>5. RecentRuns((Len(autoRuns) + 1)..Len(autoRuns))' = {}
  BY <1>1, <1>4 DEF RecentRuns
<1>6. \A t : RunsSince(Len(autoRuns), t)' = {} /\ HistorySince(t)' = {}
  <2>1. 1..Len(<<>>) = {}
    OBVIOUS
  <2> QED
    BY <1>1, <1>4, <2>1 DEF RunsSince, HistorySince
<1>7. RecentRuns(1..Len(autoRuns))' = RecentRuns(1..Len(autoRuns))
  BY <1>1 DEF RecentRuns
<1>8. Cardinality(RecentRuns(1..Len(autoRuns))') <= (autoCrashes * PerLife)'
  BY <1>1, <1>7, AllRuns DEF PerLife
<1>9. /\ Len(autoRuns)' \in 0..Len(autoRuns')
      /\ Cardinality(RecentRuns((Len(autoRuns) + 1)..Len(autoRuns))') <= PerLife'
  <2>1. PerLife' = PerLife
    BY DEF PerLife
  <2>2. Cardinality(RecentRuns((Len(autoRuns) + 1)..Len(autoRuns))') = 0
    BY <1>3, <1>5
  <2> QED
    BY <1>1, <1>2, <2>1, <2>2
<1>10. \A t \in 0..MaxTicks :
         Cardinality(RunsSince(Len(autoRuns), t)') <= Cardinality(HistorySince(t)') + Cardinality(executing')
  <2> SUFFICES ASSUME NEW t \in 0..MaxTicks
               PROVE  Cardinality(RunsSince(Len(autoRuns), t)') <= Cardinality(HistorySince(t)') + Cardinality(executing')
    OBVIOUS
  <2>1. /\ Cardinality(RunsSince(Len(autoRuns), t)') = 0 /\ Cardinality(HistorySince(t)') = 0
        /\ Cardinality(executing') = 0
    BY <1>1, <1>3, <1>6
  <2> QED
    BY <2>1
<1> QED
  BY <1>8, <1>9, <1>10 DEF AutoBound

(* The clock advances: what was older than an hour still is.               *)
LEMMA TickKeepsBound ==
  ASSUME AutoTypeOK, Tick, NEW first \in 0..Len(autoRuns), AutoBound(first)
  PROVE  AutoBound(first)'
<1> DEFINE N == Len(autoRuns)
<1>1. UNCHANGED <<autoHistory, executing, autoRuns, autoCrashes>> /\ tick' = tick + 1
  BY DEF Tick
<1>2. N \in Nat /\ first \in Nat /\ first <= N /\ first + 1 \in Nat /\ tick \in Nat /\ PerLife \in Nat
      /\ autoCrashes \in Nat /\ Hour \in Nat
  BY AutoNumbers
<1>3. \A i \in 1..N : autoRuns[i] \in Nat
  BY AutoNumbers
<1>4. /\ RecentRuns(1..first)' \subseteq RecentRuns(1..first)
      /\ RecentRuns((first + 1)..N)' \subseteq RecentRuns((first + 1)..N)
      /\ RecentRuns(1..first) \subseteq 1..first /\ RecentRuns((first + 1)..N) \subseteq (first + 1)..N
  BY <1>1, <1>2, <1>3 DEF RecentRuns
<1>5. /\ Cardinality(RecentRuns(1..first)') <= Cardinality(RecentRuns(1..first))
      /\ Cardinality(RecentRuns(1..first)') \in Nat /\ Cardinality(RecentRuns(1..first)) \in Nat
  BY <1>2, <1>4, PartOfInterval
<1>6. /\ Cardinality(RecentRuns((first + 1)..N)') <= Cardinality(RecentRuns((first + 1)..N))
      /\ Cardinality(RecentRuns((first + 1)..N)') \in Nat /\ Cardinality(RecentRuns((first + 1)..N)) \in Nat
  BY <1>2, <1>4, PartOfInterval
<1>7. /\ Cardinality(RecentRuns(1..first)) <= autoCrashes * PerLife
      /\ Cardinality(RecentRuns((first + 1)..N)) <= PerLife
  BY DEF AutoBound
<1>8. Cardinality(RecentRuns(1..first)') <= (autoCrashes * PerLife)'
  <2> DEFINE x == autoCrashes * PerLife
  <2>1. x \in Nat /\ Cardinality(RecentRuns(1..first)) <= x /\ x' = x
    BY <1>1, <1>2, <1>7 DEF PerLife
  <2> HIDE DEF x
  <2>2. Cardinality(RecentRuns(1..first)') <= x'
    BY <1>5, <2>1
  <2> QED
    BY <2>2 DEF x
<1>9. Cardinality(RecentRuns((first + 1)..N)') <= PerLife'
  <2>1. PerLife' = PerLife
    BY DEF PerLife
  <2> QED
    BY <1>2, <1>6, <1>7, <2>1
<1>10. \A t \in 0..MaxTicks :
         tick' <= t + Hour => Cardinality(RunsSince(first, t)') <= Cardinality(HistorySince(t)') + Cardinality(executing')
  <2> SUFFICES ASSUME NEW t \in 0..MaxTicks, tick' <= t + Hour
               PROVE  Cardinality(RunsSince(first, t)') <= Cardinality(HistorySince(t)') + Cardinality(executing')
    OBVIOUS
  <2>1. tick <= t + Hour
    BY <1>1, <1>2
  <2>2. RunsSince(first, t)' = RunsSince(first, t) /\ HistorySince(t)' = HistorySince(t) /\ executing' = executing
    BY <1>1 DEF RunsSince, HistorySince
  <2>3. Cardinality(RunsSince(first, t)) <= Cardinality(HistorySince(t)) + Cardinality(executing)
    BY <2>1 DEF AutoBound
  <2> QED
    BY <2>2, <2>3
<1>11. (first \in 0..Len(autoRuns))'
  BY <1>1
<1> QED
  BY <1>1, <1>8, <1>9, <1>10, <1>11 DEF AutoBound

(* Every step keeps the history and the runs in the past.                  *)
LEMMA PastNext ==
  ASSUME AutoTypeOK, AutoPast, [AutoNext]_autoVars
  PROVE  AutoPast'
<1>0. /\ autoRuns \in Seq(0..MaxTicks) /\ autoHistory \in Seq(0..MaxTicks)
      /\ tick \in Nat /\ Len(autoRuns) \in Nat /\ Len(autoHistory) \in Nat
  BY AutoNumbers DEF AutoTypeOK
<1>1. \A i \in 1..Len(Recent) : Recent[i] <= tick
  <2> SUFFICES ASSUME NEW i \in 1..Len(Recent) PROVE Recent[i] <= tick
    OBVIOUS
  <2>1. /\ Len(Recent) = Len(autoHistory) - Dropped /\ Recent[i] = autoHistory[Dropped + i]
        /\ Dropped \in 0..Len(autoHistory)
    BY <1>0, RecentIsSuffix, DroppedIsOldPrefix
  <2>2. Dropped + i \in 1..Len(autoHistory)
    BY <1>0, <2>1
  <2> QED
    BY <2>1, <2>2 DEF AutoPast
<1>2. ASSUME NEW p \in Pipelines, TriggerAuto(p) PROVE AutoPast'
  <2>1. /\ Len(autoRuns') = Len(autoRuns) + 1 /\ tick' = tick /\ autoHistory' = Recent
        /\ \A i \in 1..Len(autoRuns) : autoRuns'[i] = autoRuns[i]
        /\ autoRuns'[Len(autoRuns) + 1] = tick
    BY <1>2, OneMoreRun DEF TriggerAuto
  <2>2. \A i \in 1..Len(autoRuns') : autoRuns'[i] <= tick
    BY <1>0, <2>1 DEF AutoPast
  <2> QED
    BY <1>1, <2>1, <2>2 DEF AutoPast
<1>3. ASSUME NEW p \in Pipelines, RefuseAuto(p) PROVE AutoPast'
  BY <1>1, <1>3 DEF AutoPast, RefuseAuto
<1>4. ASSUME NEW p \in Pipelines, RecordAuto(p) PROVE AutoPast'
  <2>1. /\ autoRuns' = autoRuns /\ tick' = tick /\ Len(autoHistory') = Len(autoHistory) + 1
        /\ \A i \in 1..Len(autoHistory) : autoHistory'[i] = autoHistory[i]
        /\ autoHistory'[Len(autoHistory) + 1] = tick
    BY <1>0, <1>4 DEF RecordAuto
  <2> QED
    BY <1>0, <2>1 DEF AutoPast
<1>5. CASE CrashAuto
  BY <1>5 DEF AutoPast, CrashAuto
<1>6. CASE Tick
  <2>1. tick' = tick + 1 /\ autoRuns' = autoRuns /\ autoHistory' = autoHistory
    BY <1>6 DEF Tick
  <2>2. /\ \A i \in 1..Len(autoRuns) : autoRuns[i] \in Nat
        /\ \A i \in 1..Len(autoHistory) : autoHistory[i] \in Nat
    BY AutoNumbers
  <2> QED
    BY <1>0, <2>1, <2>2 DEF AutoPast
<1>7. CASE UNCHANGED autoVars
  BY <1>7 DEF AutoPast, autoVars
<1> QED
  BY <1>2, <1>3, <1>4, <1>5, <1>6, <1>7 DEF AutoNext

(* The invariant of the hourly limit is inductive.                         *)
LEMMA AutoInvNext ==
  ASSUME AutoTypeOK, AutoInv, [AutoNext]_autoVars
  PROVE  AutoInv'
<1>1. PICK first \in 0..Len(autoRuns) : AutoBound(first)
  BY DEF AutoInv
<1>2. AutoPast /\ AutoPast'
  BY PastNext DEF AutoInv
<1>3. ASSUME NEW p \in Pipelines, TriggerAuto(p) \/ RefuseAuto(p) \/ RecordAuto(p)
      PROVE  AutoBound(first)'
  BY <1>1, <1>2, <1>3, TriggerKeepsBound, RefuseKeepsBound, RecordKeepsBound
<1>4. CASE CrashAuto
  <2>1. AutoBound(Len(autoRuns))'
    BY <1>1, <1>4, CrashKeepsBound
  <2>2. (\E k \in 0..Len(autoRuns) : AutoBound(k))'
    BY <2>1 DEF AutoBound
  <2> QED
    BY <1>2, <2>2 DEF AutoInv
<1>5. CASE Tick
  <2>1. AutoBound(first)'
    BY <1>1, <1>5, TickKeepsBound
  <2> QED
    BY <1>2, <2>1 DEF AutoInv, AutoBound
<1>6. CASE UNCHANGED autoVars
  <2>1. AutoBound(first)'
    BY <1>1, <1>6 DEF autoVars, AutoBound, PerLife, RecentRuns, RunsSince, HistorySince
  <2> QED
    BY <1>2, <2>1 DEF AutoInv, AutoBound
<1>7. ASSUME AutoBound(first)' PROVE AutoInv'
  BY <1>2, <1>7 DEF AutoInv, AutoBound
<1> QED
  BY <1>3, <1>4, <1>5, <1>6, <1>7 DEF AutoNext

(* The real hourly limit, for every number of pipelines, limit, length of  *)
(* an hour and number of restarts: within an hour a service sees at most   *)
(* AutoLimit + |Pipelines| - 1 automatic actions per life of the process.  *)
THEOREM HourlyLimitAlwaysHolds == AutoSpec => []HourlyLimit
<1>1. AutoInit => AutoInv
  <2> SUFFICES ASSUME AutoInit PROVE AutoInv
    OBVIOUS
  <2>1. autoRuns = <<>> /\ autoHistory = <<>> /\ executing = {} /\ autoCrashes = 0 /\ tick = 0
    BY DEF AutoInit
  <2>2. Len(autoRuns) = 0 /\ 1..0 = {} /\ 1..Len(autoRuns) = {} /\ 1..Len(autoHistory) = {}
        /\ (0 + 1)..Len(autoRuns) = {}
    BY <2>1
  <2>3. PerLife \in Nat
    BY AutoAssumption, FS_CardinalityType DEF PerLife
  <2>4. /\ RecentRuns(1..0) = {} /\ RecentRuns((0 + 1)..Len(autoRuns)) = {}
        /\ \A t : RunsSince(0, t) = {} /\ HistorySince(t) = {}
    BY <2>2 DEF RecentRuns, RunsSince, HistorySince
  <2>5. AutoBound(0)
    <3>1. Cardinality({}) = 0 /\ autoCrashes * PerLife = 0
      BY <2>1, <2>3, FS_EmptySet
    <3>2. /\ Cardinality(RecentRuns(1..0)) <= autoCrashes * PerLife
          /\ Cardinality(RecentRuns((0 + 1)..Len(autoRuns))) <= PerLife
      <4>1. /\ Cardinality(RecentRuns(1..0)) = 0
            /\ Cardinality(RecentRuns((0 + 1)..Len(autoRuns))) = 0
        BY <2>4, <3>1
      <4>2. autoCrashes * PerLife = 0
        BY <3>1
      <4>3. 0 <= PerLife
        BY <2>3
      <4> HIDE DEF PerLife
      <4> QED
        BY <4>1, <4>2, <4>3
    <3>3. \A t : Cardinality(RunsSince(0, t)) <= Cardinality(HistorySince(t)) + Cardinality(executing)
      <4> TAKE t
      <4>1. /\ Cardinality(RunsSince(0, t)) = 0 /\ Cardinality(HistorySince(t)) = 0
            /\ Cardinality(executing) = 0
        BY <2>1, <2>4, <3>1
      <4> QED
        BY <4>1
    <3> QED
      BY <2>2, <3>2, <3>3 DEF AutoBound
  <2>6. AutoPast
    BY <2>2 DEF AutoPast
  <2> QED
    BY <2>2, <2>5, <2>6 DEF AutoInv
<1>2. AutoTypeOK /\ AutoInv => HourlyLimit
  <2> SUFFICES ASSUME AutoTypeOK, AutoInv PROVE HourlyLimit
    OBVIOUS
  <2>1. PICK first \in 0..Len(autoRuns) : AutoBound(first)
    BY DEF AutoInv
  <2>2. DOMAIN autoRuns = 1..Len(autoRuns)
    BY DEF AutoTypeOK
  <2>3. {i \in DOMAIN autoRuns : tick - autoRuns[i] <= Hour} = RecentRuns(1..Len(autoRuns))
    BY <2>2 DEF RecentRuns
  <2>4. Cardinality(RecentRuns(1..Len(autoRuns))) <= (autoCrashes + 1) * PerLife
    BY <2>1, AllRuns
  <2>5. autoCrashes + 1 = 1 + autoCrashes
    BY AutoNumbers
  <2> QED
    BY <2>3, <2>4, <2>5 DEF HourlyLimit, PerLife
<1>3. AutoInv /\ AutoTypeOK /\ [AutoNext]_autoVars => AutoInv'
  BY AutoInvNext
<1> QED
  BY <1>1, <1>2, <1>3, AutoTypeCorrect, PTL DEF AutoSpec

=============================================================================
