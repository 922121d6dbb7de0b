------------------------- MODULE DiagnosisCheckpoint -------------------------
(***************************************************************************)
(* CheckpointerProvider (agents/diagnosis/checkpointing.py) with the       *)
(* Postgres backend: concurrent diagnoses ask for the saver, the first     *)
(* opens a pool of connections under a lock and sets its tables up, the    *)
(* others use what it made.  Opening and setting up can fail: the error is *)
(* the asking diagnosis's, and the next one tries again.                   *)
(***************************************************************************)
EXTENDS Naturals, FiniteSets

CONSTANTS
  Diagnoses,   \* concurrent diagnoses
  MaxPools     \* bounds the pools created

NoDiagnosis == "nobody"
ASSUME CheckpointAssumption == NoDiagnosis \notin Diagnoses /\ MaxPools \in Nat

VARIABLES
  step,         \* step[d]: where in get() a diagnosis is
  locked,       \* who holds the lock
  saverPool,    \* _postgres: the pool the saver uses, 0 if there is no saver
  heldPool,     \* _pool: what close() closes, 0 if there is none
  using,        \* using[d]: the pool of the saver d was given
  created,      \* how many pools have been created (pools are 1 .. created)
  connected,    \* the pools that are open
  setupFailed   \* how many times setting up has failed

checkpointVars ==
  <<step, locked, saverPool, heldPool, using, created, connected, setupFailed>>

CheckpointInit ==
  /\ step = [d \in Diagnoses |-> "out"]
  /\ locked = NoDiagnosis
  /\ saverPool = 0 /\ heldPool = 0
  /\ using = [d \in Diagnoses |-> 0]
  /\ created = 0 /\ connected = {}
  /\ setupFailed = 0

-----------------------------------------------------------------------------

(* get: a saver that exists is returned at once, otherwise d waits for the *)
(* lock.                                                                   *)
AskForSaver(d) ==
  /\ step[d] = "out"
  /\ IF saverPool # 0
     THEN using' = [using EXCEPT ![d] = saverPool] /\ UNCHANGED step
     ELSE step' = [step EXCEPT ![d] = "waiting"] /\ UNCHANGED using
  /\ UNCHANGED <<locked, saverPool, heldPool, created, connected, setupFailed>>

(* The lock is taken and the saver looked at again: one that was made      *)
(* meanwhile is used.  Otherwise _open_postgres creates a pool and waits   *)
(* for it to open.                                                         *)
OpenAnyway(d) ==   \* mutant: the saver is not looked at again
  /\ step[d] = "waiting" /\ locked = NoDiagnosis
  /\ created < MaxPools
  /\ created' = created + 1
  /\ connected' = connected \cup {created + 1}
  /\ locked' = d
  /\ step' = [step EXCEPT ![d] = "opening"]
  /\ UNCHANGED <<saverPool, heldPool, using, setupFailed>>

EnterLock(d) ==
  /\ step[d] = "waiting" /\ locked = NoDiagnosis
  /\ IF saverPool # 0
     THEN /\ step' = [step EXCEPT ![d] = "out"]
          /\ using' = [using EXCEPT ![d] = saverPool]
          /\ UNCHANGED <<locked, created, connected>>
     ELSE /\ created < MaxPools
          /\ created' = created + 1
          /\ connected' = connected \cup {created + 1}
          /\ locked' = d
          /\ step' = [step EXCEPT ![d] = "opening"]
          /\ UNCHANGED using
  /\ UNCHANGED <<saverPool, heldPool, setupFailed>>

(* pool.open returns, or gives up after its timeout, closing the pool.     *)
Opened(d) ==
  /\ step[d] = "opening"
  /\ \/ step' = [step EXCEPT ![d] = "settingUp"] /\ UNCHANGED <<locked, connected>>
     \/ /\ step' = [step EXCEPT ![d] = "out"]
        /\ locked' = NoDiagnosis
        /\ connected' = connected \ {created}
  /\ UNCHANGED <<saverPool, heldPool, using, created, setupFailed>>

(* saver.setup returns, and the pool and the saver are kept; or it raises, *)
(* and the pool, still open, is forgotten.                                 *)
SetUp(d) ==
  /\ step[d] = "settingUp"
  /\ step' = [step EXCEPT ![d] = "out"]
  /\ locked' = NoDiagnosis
  /\ \/ /\ heldPool' = created /\ saverPool' = created
        /\ using' = [using EXCEPT ![d] = created]
        /\ UNCHANGED setupFailed
     \/ setupFailed' = setupFailed + 1 /\ UNCHANGED <<heldPool, saverPool, using>>
  /\ UNCHANGED <<created, connected>>

(* close, of whoever owns the provider.                                    *)
CloseProvider ==
  /\ heldPool # 0
  /\ heldPool' = 0 /\ saverPool' = 0
  /\ connected' = connected \ {heldPool}
  /\ UNCHANGED <<step, locked, using, created, setupFailed>>

CheckpointNext ==
  \/ \E d \in Diagnoses : AskForSaver(d) \/ EnterLock(d) \/ Opened(d) \/ SetUp(d)
  \/ CloseProvider

CheckpointSpec == CheckpointInit /\ [][CheckpointNext]_checkpointVars

-----------------------------------------------------------------------------

CheckpointTypeOK ==
  /\ step \in [Diagnoses -> {"out", "waiting", "opening", "settingUp"}]
  /\ locked \in Diagnoses \cup {NoDiagnosis}
  /\ created \in 0 .. MaxPools /\ setupFailed \in 0 .. MaxPools
  /\ saverPool \in 0 .. created /\ heldPool \in 0 .. created
  /\ using \in [Diagnoses -> 0 .. created]
  /\ connected \subseteq 1 .. created

(* Connections are lost only through a failed setup: however the diagnoses *)
(* interleave, and whoever closes the provider meanwhile, the pools that   *)
(* are open are the one the provider would close, the one being opened,    *)
(* and one for each setup that failed.                                     *)
PoolsLostBySetupOnly ==
  Cardinality(connected) <=
    (IF heldPool # 0 THEN 1 ELSE 0) + Cardinality({d \in Diagnoses : step[d] \in {"opening", "settingUp"}})
      + setupFailed

=============================================================================
