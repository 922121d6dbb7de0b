--------------------------- MODULE AutoRemediation ---------------------------
(***************************************************************************)
(* The hourly limit of automatic actions: the history of one service, kept *)
(* in the memory of the process, and the pipelines that consult it before  *)
(* they await a workflow and add to it when the workflow has returned.     *)
(*                                                                         *)
(* Only actions that the limit decides on are modelled: allowlisted, live, *)
(* for a targeted service.  The clock counts in parts of an hour.          *)
(***************************************************************************)
EXTENDS Naturals, Sequences, FiniteSets

CONSTANTS
  Pipelines,    \* incidents of the service that are processed at the same time
  AutoLimit,    \* auto_action_max_per_hour
  Hour,         \* ticks of the clock in an hour
  MaxTicks,     \* bound: the time modelled
  MaxAutoRuns,  \* bound: actions executed
  MaxAutoCrashes \* bound: restarts of the process

ASSUME AutoAssumption ==
  /\ IsFiniteSet(Pipelines)
  /\ {AutoLimit, Hour} \subseteq Nat \ {0}
  /\ {MaxTicks, MaxAutoRuns, MaxAutoCrashes} \subseteq Nat

VARIABLES
  tick,         \* the clock
  autoHistory,  \* _auto_history of the service: times, oldest first
  executing,    \* pipelines that await a workflow they have triggered
  autoRuns,     \* history: the times at which workflows were triggered
  autoCrashes   \* restarts so far

autoVars == <<tick, autoHistory, executing, autoRuns, autoCrashes>>

-----------------------------------------------------------------------------

(* _auto_allowed drops from the front what is older than an hour, up to    *)
(* the first that is not.                                                  *)
Old(n) == tick - autoHistory[n] > Hour

Dropped ==
  CHOOSE n \in 0..Len(autoHistory) :
    /\ \A i \in 1..n : Old(i)
    /\ n < Len(autoHistory) => ~Old(n + 1)

Recent == SubSeq(autoHistory, Dropped + 1, Len(autoHistory))

AllowedInclusive == Len(Recent) <= AutoLimit   \* mutant: one more than the limit

LimitFree == Len(Recent) < AutoLimit

AutoInit ==
  /\ tick = 0
  /\ autoHistory = <<>>
  /\ executing = {}
  /\ autoRuns = <<>>
  /\ autoCrashes = 0

(* The action is evaluated and, without an await in between, its workflow  *)
(* triggered.                                                              *)
TriggerAuto(p) ==
  /\ Len(autoRuns) < MaxAutoRuns
  /\ p \notin executing
  /\ LimitFree
  /\ autoHistory' = Recent
  /\ executing' = executing \cup {p}
  /\ autoRuns' = Append(autoRuns, tick)
  /\ UNCHANGED <<tick, autoCrashes>>

(* Over the limit: the action needs an approval.                           *)
RefuseAuto(p) ==
  /\ p \notin executing
  /\ ~LimitFree
  /\ autoHistory' = Recent
  /\ UNCHANGED <<tick, executing, autoRuns, autoCrashes>>

(* trigger_workflow returns, with whatever status: record_auto_execution.  *)
RecordAuto(p) ==
  /\ p \in executing
  /\ executing' = executing \ {p}
  /\ autoHistory' = Append(autoHistory, tick)
  /\ UNCHANGED <<tick, autoRuns, autoCrashes>>

(* The process is restarted.                                               *)
CrashAuto ==
  /\ autoCrashes < MaxAutoCrashes
  /\ autoCrashes' = autoCrashes + 1
  /\ autoHistory' = <<>>
  /\ executing' = {}
  /\ UNCHANGED <<tick, autoRuns>>

Tick ==
  /\ tick < MaxTicks
  /\ tick' = tick + 1
  /\ UNCHANGED <<autoHistory, executing, autoRuns, autoCrashes>>

AutoNext ==
  \/ \E p \in Pipelines : TriggerAuto(p)
  \/ \E p \in Pipelines : RefuseAuto(p)
  \/ \E p \in Pipelines : RecordAuto(p)
  \/ CrashAuto
  \/ Tick

AutoSpec == AutoInit /\ [][AutoNext]_autoVars

-----------------------------------------------------------------------------

AutoTypeOK ==
  /\ tick \in 0..MaxTicks
  /\ autoHistory \in Seq(0..MaxTicks)
  /\ executing \subseteq Pipelines
  /\ autoRuns \in Seq(0..MaxTicks) /\ Len(autoRuns) <= MaxAutoRuns
  /\ autoCrashes \in 0..MaxAutoCrashes

(* "Max auto-executed actions per service per hour" (config.py:178) is not *)
(* the maximum: each other pipeline may be awaiting a workflow that is not *)
(* in the history yet, and a restart empties the history.  This many is.   *)
(* _auto_allowed, policy.py:130.                                           *)
HourlyLimit ==
  Cardinality({i \in DOMAIN autoRuns : tick - autoRuns[i] <= Hour}) <=
    (1 + autoCrashes) * (AutoLimit + Cardinality(Pipelines) - 1)

=============================================================================
