------------------------ MODULE ConnectorConfigProofs ------------------------
(***************************************************************************)
(* Theorems of the connector page for every set of vendors, of credential  *)
(* forms, of watch lists, of concurrent handlers, and for every bound.     *)
(***************************************************************************)
EXTENDS ConnectorConfig, TLAPS

StoreStates ==
  [selected : SUBSET Vendors, values : [Fields -> Values \cup {Unset}],
   ingestion : [set : BOOLEAN, watch : Watches, dry : BOOLEAN, enabled : BOOLEAN]]

ServiceRecords == [modes : SUBSET Modes, watch : Watches, dry : BOOLEAN, running : BOOLEAN]

Handlers == [at : {"idle", "stopping"}, activation : BOOLEAN, disturbed : BOOLEAN]

(* The names above are those the type invariant is made of.                *)
LEMMA TypeParts ==
  ConnectorTypeOK <=>
     /\ memory \in StoreStates
     /\ disk \in StoreStates \cup {NoFile}
     /\ settings \in Settings
     /\ requests \in [Requests -> Handlers]
     /\ services \in Seq(ServiceRecords)
     /\ ingestion \in 0..Len(services)
     /\ saved \in BOOLEAN /\ overlapped \in BOOLEAN /\ rejected \in BOOLEAN
     /\ writes \in 0..MaxWrites
     /\ restarts \in 0..MaxRestarts
BY DEF ConnectorTypeOK, StoreStates, ServiceRecords, Handlers

-----------------------------------------------------------------------------
(* The operators the actions are made of.                                  *)

(* What the entries of a form may be.                                      *)
LEMMA FormEntries ==
  ASSUME NEW v \in Vendors, NEW form \in Forms[v], NEW i \in DOMAIN form
  PROVE  /\ i \in Nat /\ i \in 1..i
         /\ form[i] \in [field : STRING, raw : Raws]
         /\ form[i].raw = "malformed" => form[i].field \in Numbers
<1> DEFINE Entries == [field : STRING, raw : Raws]
<1>1. form \in Seq(Entries)
  BY ConnectorAssumption
<1> HIDE DEF Entries
<1>2. i \in 1..Len(form)
  BY <1>1
<1>3. form[i] \in Entries
  BY <1>1, <1>2
<1>4. form[i].raw = "malformed" => form[i].field \in Numbers
  BY ConnectorAssumption
<1> QED
  BY <1>2, <1>3, <1>4 DEF Entries

(* A form leaves the store a store, forgets no value it held, and touches  *)
(* neither the selection nor the ingestion (set_credentials).              *)
LEMMA StoredKeeps ==
  ASSUME NEW m \in StoreStates, NEW v \in Vendors, NEW form \in Forms[v]
  PROVE  /\ Stored(m, v, form) \in StoreStates
         /\ \A f \in Fields : Stored(m, v, form).values[f] = Unset => m.values[f] = Unset
         /\ Stored(m, v, form).ingestion = m.ingestion
<1> DEFINE held(f) == IF Filling(v, form, f) = {} THEN m.values[f]
                      ELSE form[CHOOSE i \in Filling(v, form, f) : TRUE].raw
<1>1. ASSUME NEW f \in Fields
      PROVE  held(f) \in Values \cup {Unset} /\ (held(f) = Unset => m.values[f] = Unset)
  <2>1. CASE Filling(v, form, f) = {}
    BY <2>1 DEF StoreStates
  <2>2. CASE Filling(v, form, f) # {}
    <3> DEFINE i == CHOOSE j \in Filling(v, form, f) : TRUE
    <3>1. i \in Filling(v, form, f)
      BY <2>2
    <3> HIDE DEF i
    <3>2. i \in DOMAIN form /\ ~Refused(v, form[i]) /\ ~Skipped(form[i])
      <4>1. i \in DOMAIN form /\ \A j \in 1..i : ~Refused(v, form[j])
        BY <3>1 DEF Filling, Accepted
      <4>2. i \in 1..i
        BY <4>1, FormEntries
      <4> QED
        BY <3>1, <4>1, <4>2 DEF Filling
    <3>3. form[i] \in [field : STRING, raw : Raws]
      BY <3>2, FormEntries
    <3>4. form[i].raw = "malformed" => form[i].field \in Numbers
      BY <3>2, FormEntries
    <3>5. form[i].raw \in Values
      BY <3>2, <3>3, <3>4 DEF Refused, Skipped, Raws
    <3>6. held(f) = form[i].raw
      BY <2>2 DEF i
    <3> QED
      BY <3>5, <3>6 DEF Values, Unset
  <2> QED
    BY <2>1, <2>2
<1>2. Stored(m, v, form) = [m EXCEPT !.values = [f \in Fields |-> held(f)]]
  BY DEF Stored
<1> HIDE DEF held
<1>3. [f \in Fields |-> held(f)] \in [Fields -> Values \cup {Unset}]
  BY <1>1
<1>4. Stored(m, v, form).values = [f \in Fields |-> held(f)]
  BY <1>2 DEF StoreStates
<1>5. Stored(m, v, form) \in StoreStates /\ Stored(m, v, form).ingestion = m.ingestion
  BY <1>2, <1>3 DEF StoreStates
<1> QED
  BY <1>1, <1>4, <1>5

(* Storing an ingestion keeps the values (set_ingestion).                  *)
LEMMA WithIngestionKeeps ==
  ASSUME NEW m \in StoreStates, NEW watch \in Watches, NEW dry \in BOOLEAN, NEW enabled \in BOOLEAN
  PROVE  /\ WithIngestion(m, watch, dry, enabled) \in StoreStates
         /\ WithIngestion(m, watch, dry, enabled).values = m.values
         /\ WithIngestion(m, watch, dry, enabled).ingestion.set
BY DEF WithIngestion, StoreStates

(* Settings stay settings when the store is applied to them.               *)
LEMMA ApplyTypes ==
  ASSUME NEW m \in StoreStates, NEW s \in Settings
  PROVE  /\ Apply(m, s) \in Settings
         /\ Apply(m, s).values = [f \in Fields |-> Value(m, s, f)]
         /\ Apply(m, s).modes = m.selected
         /\ Apply(m, s).enabled = IF m.ingestion.set THEN m.ingestion.enabled ELSE s.enabled
<1>1. [f \in Fields |-> Value(m, s, f)] \in [Fields -> Values]
  BY DEF StoreStates, Settings, Value
<1>2. m.selected \in SUBSET Modes
  BY ConnectorAssumption DEF StoreStates, Modes
<1>3. /\ (IF m.ingestion.set THEN m.ingestion.watch ELSE s.watch) \in Watches
      /\ (IF m.ingestion.set THEN m.ingestion.dry ELSE s.dry) \in BOOLEAN
      /\ (IF m.ingestion.set THEN m.ingestion.enabled ELSE s.enabled) \in BOOLEAN
  BY DEF StoreStates, Settings
<1> HIDE DEF Value
<1> QED
  BY <1>1, <1>2, <1>3 DEF Apply, Settings

(* A service built from settings is a service.                             *)
LEMMA ServiceTypes ==
  ASSUME NEW s \in Settings
  PROVE  Service(s) \in ServiceRecords /\ Service(s).running
BY DEF Service, ServiceRecords, Settings, ActiveModes, Modes

(* Saving a store leaves types as they are.                                *)
LEMMA SaveTypes ==
  ASSUME ConnectorTypeOK, NEW m \in StoreStates, SaveAndApply(m)
  PROVE  memory' \in StoreStates /\ disk' \in StoreStates /\ settings' \in Settings /\ saved' = TRUE
BY TypeParts, ApplyTypes DEF SaveAndApply

(* A rebuild adds at most one service, the one `ingestion` then refers to. *)
LEMMA RebuildTypes ==
  ASSUME services \in Seq(ServiceRecords), NEW s \in Settings, Rebuild(s)
  PROVE  services' \in Seq(ServiceRecords) /\ ingestion' \in 0..Len(services')
<1>1. CASE Buildable(s)
  <2>1. Service(s) \in ServiceRecords
    BY ServiceTypes
  <2>2. services' = Append(services, Service(s)) /\ ingestion' = Len(services) + 1
    BY <1>1 DEF Rebuild
  <2> QED
    BY <2>1, <2>2
<1>2. CASE ~Buildable(s)
  BY <1>2 DEF Rebuild
<1> QED
  BY <1>1, <1>2

(* Cancelling a service stops it and leaves the others.                    *)
LEMMA CancelledTypes ==
  ASSUME services \in Seq(ServiceRecords), NEW id \in 1..Len(services)
  PROVE  /\ Cancelled(id) \in Seq(ServiceRecords)
         /\ DOMAIN Cancelled(id) = DOMAIN services /\ Len(Cancelled(id)) = Len(services)
         /\ \A i \in DOMAIN services : Cancelled(id)[i].running <=> i # id /\ services[i].running
<1>1. services[id] \in ServiceRecords
  OBVIOUS
<1>2. [services[id] EXCEPT !.running = FALSE] \in ServiceRecords
  BY <1>1 DEF ServiceRecords
<1>3. [services[id] EXCEPT !.running = FALSE].running = FALSE
  BY <1>1 DEF ServiceRecords
<1> DEFINE stopped == [services[id] EXCEPT !.running = FALSE]
<1>4. Cancelled(id) = [services EXCEPT ![id] = stopped]
  BY DEF Cancelled
<1> HIDE DEF stopped
<1>5. stopped \in ServiceRecords /\ stopped.running = FALSE
  BY <1>2, <1>3 DEF stopped
<1> QED
  BY <1>4, <1>5

(* A write disturbs the handlers that wait, and moves none.                *)
LEMMA DisturbedKeeps ==
  ASSUME requests \in [Requests -> Handlers]
  PROVE  /\ Disturbed \in [Requests -> Handlers]
         /\ \A r \in Requests : Disturbed[r].at = requests[r].at
BY DEF Disturbed, Handlers, Stopping

(* A restart of the ingestion from any settings.                           *)
LEMMA RestartTypes ==
  ASSUME ConnectorTypeOK, settings' \in Settings, NEW r \in Requests, NEW activation \in BOOLEAN,
         RestartIngestion(r, activation)
  PROVE  /\ services' \in Seq(ServiceRecords)
         /\ ingestion' \in 0..Len(services')
         /\ requests' \in [Requests -> Handlers]
         /\ overlapped' \in BOOLEAN
<1>1. /\ services \in Seq(ServiceRecords) /\ ingestion \in 0..Len(services)
      /\ requests \in [Requests -> Handlers] /\ overlapped \in BOOLEAN
  BY TypeParts
<1>2. Disturbed \in [Requests -> Handlers]
  BY <1>1, DisturbedKeeps
<1>3. CASE ingestion = 0
  <2>1. Rebuild(settings') /\ requests' = Disturbed /\ overlapped' = overlapped
    BY <1>3 DEF RestartIngestion
  <2>2. services' \in Seq(ServiceRecords) /\ ingestion' \in 0..Len(services')
    BY <1>1, <2>1, RebuildTypes
  <2> QED
    BY <1>1, <1>2, <2>1, <2>2
<1>4. CASE ingestion # 0
  <2>1. services' \in Seq(ServiceRecords) /\ ingestion' \in 0..Len(services')
    BY <1>1, <1>4, CancelledTypes DEF RestartIngestion
  <2>2. [at |-> "stopping", activation |-> activation, disturbed |-> FALSE] \in Handlers
    BY DEF Handlers
  <2>3. requests' \in [Requests -> Handlers]
    BY <1>2, <1>4, <2>2 DEF RestartIngestion
  <2>4. overlapped' \in BOOLEAN
    BY <1>1, <1>4 DEF RestartIngestion
  <2> QED
    BY <2>1, <2>3, <2>4
<1> QED
  BY <1>1, <1>3, <1>4

-----------------------------------------------------------------------------
(* Type correctness.                                                       *)

(* What the process starts with.                                           *)
LEMMA StartParts ==
  /\ Empty \in StoreStates
  /\ EnvSettings \in Settings
  /\ [r \in Requests |-> Idle] \in [Requests -> Handlers]
  /\ Buildable(EnvSettings) => <<Service(EnvSettings)>> \in Seq(ServiceRecords)
  /\ <<>> \in Seq(ServiceRecords)
  /\ 0 \in 0..MaxWrites /\ 0 \in 0..MaxRestarts
<1>1. Empty \in StoreStates
  BY ConnectorAssumption DEF Empty, StoreStates, NoIngestion
<1>2. Service(EnvSettings) \in ServiceRecords
  BY ServiceTypes, ConnectorAssumption
<1>3. [r \in Requests |-> Idle] \in [Requests -> Handlers]
  BY DEF Idle, Handlers
<1> QED
  BY <1>1, <1>2, <1>3, ConnectorAssumption

(* The types hold initially.                                               *)
LEMMA ConnectorTypeInit == ConnectorInit => ConnectorTypeOK
<1> SUFFICES ASSUME ConnectorInit PROVE ConnectorTypeOK
  OBVIOUS
<1>1. services \in Seq(ServiceRecords) /\ ingestion \in 0..Len(services)
  <2>1. CASE Buildable(EnvSettings)
    BY <2>1, StartParts DEF ConnectorInit
  <2>2. CASE ~Buildable(EnvSettings)
    BY <2>2, StartParts DEF ConnectorInit
  <2> QED
    BY <2>1, <2>2
<1> QED
  BY <1>1, StartParts, TypeParts DEF ConnectorInit

(* Every step keeps the types.                                             *)
LEMMA ConnectorTypeNext == ConnectorTypeOK /\ [ConnectorNext]_connectorVars => ConnectorTypeOK'
<1> SUFFICES ASSUME ConnectorTypeOK, [ConnectorNext]_connectorVars PROVE ConnectorTypeOK'
  OBVIOUS
<1>0. /\ memory \in StoreStates /\ disk \in StoreStates \cup {NoFile} /\ settings \in Settings
      /\ requests \in [Requests -> Handlers] /\ services \in Seq(ServiceRecords)
      /\ ingestion \in 0..Len(services)
      /\ saved \in BOOLEAN /\ overlapped \in BOOLEAN /\ rejected \in BOOLEAN
      /\ writes \in 0..MaxWrites /\ restarts \in 0..MaxRestarts
  BY TypeParts
<1>d. Disturbed \in [Requests -> Handlers]
  BY <1>0, DisturbedKeeps
<1>w. /\ writes < MaxWrites /\ writes' = writes + 1 => writes' \in 0..MaxWrites
      /\ restarts < MaxRestarts /\ restarts' = restarts + 1 => restarts' \in 0..MaxRestarts
  BY <1>0, ConnectorAssumption
<1>p. SUFFICES /\ memory' \in StoreStates
               /\ disk' \in StoreStates \cup {NoFile}
               /\ settings' \in Settings
               /\ requests' \in [Requests -> Handlers]
               /\ services' \in Seq(ServiceRecords)
               /\ ingestion' \in 0..Len(services')
               /\ saved' \in BOOLEAN /\ overlapped' \in BOOLEAN /\ rejected' \in BOOLEAN
               /\ writes' \in 0..MaxWrites
               /\ restarts' \in 0..MaxRestarts
  BY DEF ConnectorTypeOK, StoreStates, ServiceRecords, Handlers
<1>1. ASSUME NEW selection \in SUBSET Vendors, SetSelection(selection)
      PROVE  /\ memory' \in StoreStates /\ disk' \in StoreStates /\ settings' \in Settings
             /\ saved' = TRUE
  <2>1. [memory EXCEPT !.selected = selection] \in StoreStates
    BY <1>0 DEF StoreStates
  <2> QED
    BY <1>1, <2>1, SaveTypes DEF SetSelection
<1>2. ASSUME NEW v \in Vendors, NEW form \in Forms[v], SetCredentials(v, form)
      PROVE  /\ memory' \in StoreStates /\ disk' \in StoreStates \cup {NoFile}
             /\ settings' \in Settings /\ saved' \in BOOLEAN
  <2>1. Stored(memory, v, form) \in StoreStates
    BY <1>0, StoredKeeps
  <2>2. CASE Accepted(v, form) = DOMAIN form
    BY <1>2, <2>1, <2>2, SaveTypes DEF SetCredentials
  <2>3. CASE Accepted(v, form) # DOMAIN form
    BY <1>0, <1>2, <2>1, <2>3 DEF SetCredentials
  <2> QED
    BY <2>2, <2>3
<1>3. ASSUME NEW r \in Requests, NEW watch \in Watches, NEW dry \in BOOLEAN, Activate(r, watch, dry)
      PROVE  /\ memory' \in StoreStates /\ disk' \in StoreStates /\ settings' \in Settings
             /\ saved' = TRUE
             /\ requests' \in [Requests -> Handlers] /\ services' \in Seq(ServiceRecords)
             /\ ingestion' \in 0..Len(services')
             /\ overlapped' \in BOOLEAN /\ rejected' \in BOOLEAN
  <2>1. WithIngestion(memory, watch, dry, TRUE) \in StoreStates
    BY <1>0, WithIngestionKeeps
  <2>2. memory' \in StoreStates /\ disk' \in StoreStates /\ settings' \in Settings /\ saved' = TRUE
    BY <1>3, <2>1, SaveTypes DEF Activate
  <2>3. CASE NoProblems(memory', settings')
    <3>1. RestartIngestion(r, TRUE) /\ rejected' = FALSE
      BY <1>3, <2>3 DEF Activate
    <3> QED
      BY <2>2, <3>1, RestartTypes
  <2>4. CASE ~NoProblems(memory', settings')
    BY <1>0, <1>3, <1>d, <2>2, <2>4 DEF Activate
  <2> QED
    BY <2>2, <2>3, <2>4
<1>4. ASSUME NEW r \in Requests, Deactivate(r)
      PROVE  /\ memory' \in StoreStates /\ disk' \in StoreStates /\ settings' \in Settings
             /\ saved' = TRUE
             /\ requests' \in [Requests -> Handlers] /\ services' \in Seq(ServiceRecords)
             /\ ingestion' \in 0..Len(services')
             /\ overlapped' \in BOOLEAN /\ rejected' = FALSE
  <2>1. memory.ingestion.watch \in Watches /\ memory.ingestion.dry \in BOOLEAN
    BY <1>0 DEF StoreStates
  <2>2. WithIngestion(memory, memory.ingestion.watch, memory.ingestion.dry, FALSE) \in StoreStates
    BY <1>0, <2>1, WithIngestionKeeps
  <2>3. memory' \in StoreStates /\ disk' \in StoreStates /\ settings' \in Settings /\ saved' = TRUE
    BY <1>4, <2>2, SaveTypes DEF Deactivate
  <2>4. RestartIngestion(r, FALSE) /\ rejected' = FALSE
    BY <1>4 DEF Deactivate
  <2> QED
    BY <2>3, <2>4, RestartTypes
<1>5. ASSUME NEW r \in Requests, Resume(r)
      PROVE  /\ requests' \in [Requests -> Handlers] /\ services' \in Seq(ServiceRecords)
             /\ ingestion' \in 0..Len(services')
  <2>1. Idle \in Handlers
    BY DEF Idle, Handlers
  <2>2. services' \in Seq(ServiceRecords) /\ ingestion' \in 0..Len(services')
    BY <1>0, <1>5, RebuildTypes DEF Resume
  <2> QED
    BY <1>0, <1>5, <2>1, <2>2 DEF Resume
<1>6. ASSUME RestartProcess
      PROVE  services' \in Seq(ServiceRecords) /\ ingestion' \in 0..Len(services')
  <2>1. CASE Buildable(EnvSettings)
    BY <1>6, <2>1, StartParts DEF RestartProcess, StartUp
  <2>2. CASE ~Buildable(EnvSettings)
    BY <1>6, <2>2, StartParts DEF RestartProcess, StartUp
  <2> QED
    BY <2>1, <2>2
<1>7. CASE \E selection \in SUBSET Vendors : SetSelection(selection)
  BY <1>0, <1>1, <1>7, <1>d, <1>w DEF SetSelection
<1>8. CASE \E v \in Vendors : \E form \in Forms[v] : SetCredentials(v, form)
  BY <1>0, <1>2, <1>8, <1>d, <1>w DEF SetCredentials
<1>9. CASE \E r \in Requests, watch \in Watches, dry \in BOOLEAN : Activate(r, watch, dry)
  BY <1>0, <1>3, <1>9, <1>w DEF Activate
<1>10. CASE \E r \in Requests : Deactivate(r)
  BY <1>0, <1>4, <1>10, <1>w DEF Deactivate
<1>11. CASE \E r \in Requests : Resume(r)
  BY <1>0, <1>5, <1>11 DEF Resume
<1>12. CASE RestartProcess
  BY <1>0, <1>6, <1>12, StartParts DEF RestartProcess, StartUp
<1>13. CASE UNCHANGED connectorVars
  BY <1>0, <1>13 DEF connectorVars
<1> QED
  BY <1>7, <1>8, <1>9, <1>10, <1>11, <1>12, <1>13 DEF ConnectorNext

(* Type correctness of the connector page, for every vendor, form and      *)
(* watch list, and any number of concurrent handlers.                      *)
THEOREM ConnectorTypeCorrect == ConnectorSpec => []ConnectorTypeOK
<1>1. ConnectorInit => ConnectorTypeOK
  BY ConnectorTypeInit
<1>2. ConnectorTypeOK /\ [ConnectorNext]_connectorVars => ConnectorTypeOK'
  BY ConnectorTypeNext
<1> QED
  BY <1>1, <1>2, PTL DEF ConnectorSpec

-----------------------------------------------------------------------------
(* No service leaks without overlapping restarts.                          *)

(* While no two handlers have waited at a time: at most one waits, and     *)
(* when it does everything is stopped and its service is still referred    *)
(* to, so that whoever comes next has to wait as well.                     *)
OneRestartAtATime ==
  ~overlapped =>
    /\ \A i \in DOMAIN services : services[i].running => i = ingestion
    /\ \A q, r \in Requests : Stopping(q) /\ Stopping(r) => q = r
    /\ \A r \in Requests : Stopping(r) => ingestion # 0
    /\ \A r \in Requests : Stopping(r) => \A i \in DOMAIN services : ~services[i].running

LeakInvariant == ConnectorTypeOK /\ OneRestartAtATime

(* A rebuild after everything was stopped leaves one service running.      *)
LEMMA RebuildRunsOne ==
  ASSUME services \in Seq(ServiceRecords), NEW s, Rebuild(s),
         \A i \in DOMAIN services : ~services[i].running
  PROVE  \A i \in DOMAIN services' : services'[i].running => i = ingestion'
<1>1. CASE Buildable(s)
  <2> DEFINE new == Service(s)
  <2>1. services' = Append(services, new) /\ ingestion' = Len(services) + 1
    BY <1>1 DEF Rebuild
  <2> HIDE DEF new
  <2>2. ASSUME NEW i \in DOMAIN services', i # ingestion'
        PROVE  ~services'[i].running
    <3>1. DOMAIN services' = 1..(Len(services) + 1)
      BY <2>1
    <3>2. i \in DOMAIN services /\ services'[i] = services[i]
      BY <2>1, <2>2, <3>1
    <3> QED
      BY <3>2
  <2> QED
    BY <2>2
<1>2. CASE ~Buildable(s)
  BY <1>2 DEF Rebuild
<1> QED
  BY <1>1, <1>2

(* A restart of the ingestion, with or without a service to stop first.    *)
LEMMA RestartIsAlone ==
  ASSUME LeakInvariant, NEW r \in Requests, NEW activation \in BOOLEAN,
         RestartIngestion(r, activation)
  PROVE  OneRestartAtATime'
<1> SUFFICES ASSUME ~overlapped' PROVE OneRestartAtATime'
  BY DEF OneRestartAtATime
<1>0. /\ services \in Seq(ServiceRecords) /\ ingestion \in 0..Len(services)
      /\ requests \in [Requests -> Handlers]
  BY TypeParts DEF LeakInvariant
<1>d. /\ Disturbed \in [Requests -> Handlers]
      /\ \A q \in Requests : Disturbed[q].at = requests[q].at
  BY <1>0, DisturbedKeeps
<1>1. CASE ingestion = 0
  <2>1. Rebuild(settings') /\ requests' = Disturbed /\ overlapped' = overlapped
    BY <1>1 DEF RestartIngestion
  <2>2. /\ \A q \in Requests : ~Stopping(q)
        /\ \A i \in DOMAIN services : ~services[i].running
    BY <1>0, <1>1, <2>1 DEF LeakInvariant, OneRestartAtATime
  <2>3. \A q \in Requests : ~Stopping(q)'
    BY <1>d, <2>1, <2>2 DEF Stopping
  <2>4. \A i \in DOMAIN services' : services'[i].running => i = ingestion'
    BY <1>0, <2>1, <2>2, RebuildRunsOne
  <2> QED
    BY <2>3, <2>4 DEF OneRestartAtATime
<1>2. CASE ingestion # 0
  <2>1. /\ services' = Cancelled(ingestion) /\ ingestion' = ingestion
        /\ requests' = [Disturbed EXCEPT ![r] =
             [at |-> "stopping", activation |-> activation, disturbed |-> FALSE]]
        /\ overlapped' = (overlapped \/ \E q \in Requests : Stopping(q))
    BY <1>2 DEF RestartIngestion
  <2>2. ~overlapped /\ \A q \in Requests : ~Stopping(q)
    BY <2>1
  <2>3. \A i \in DOMAIN services : services[i].running => i = ingestion
    BY <2>2 DEF LeakInvariant, OneRestartAtATime
  <2>4. \A i \in DOMAIN services' : ~services'[i].running
    BY <1>0, <1>2, <2>1, <2>3, CancelledTypes
  <2>5. \A q \in Requests : Stopping(q)' => q = r
    BY <1>d, <2>1, <2>2 DEF Stopping
  <2> QED
    BY <1>2, <2>1, <2>4, <2>5 DEF OneRestartAtATime
<1> QED
  BY <1>1, <1>2

(* Steps that disturb the waiting handlers and touch no service.           *)
LEMMA WritesAreAlone ==
  ASSUME LeakInvariant, requests' = Disturbed, UNCHANGED <<services, ingestion, overlapped>>
  PROVE  OneRestartAtATime'
<1>1. requests \in [Requests -> Handlers]
  BY TypeParts DEF LeakInvariant
<1>2. \A q \in Requests : Stopping(q)' <=> Stopping(q)
  BY <1>1, DisturbedKeeps DEF Stopping
<1> QED
  BY <1>2 DEF LeakInvariant, OneRestartAtATime

(* The end of a stop.                                                      *)
LEMMA ResumeIsAlone ==
  ASSUME LeakInvariant, NEW r \in Requests, Resume(r)
  PROVE  OneRestartAtATime'
<1> SUFFICES ASSUME ~overlapped' PROVE OneRestartAtATime'
  BY DEF OneRestartAtATime
<1>0. services \in Seq(ServiceRecords) /\ requests \in [Requests -> Handlers]
  BY TypeParts DEF LeakInvariant
<1>1. /\ Stopping(r) /\ Rebuild(settings) /\ requests' = [requests EXCEPT ![r] = Idle]
      /\ overlapped' = overlapped
  BY DEF Resume
<1>2. /\ \A i \in DOMAIN services : ~services[i].running
      /\ \A q \in Requests : Stopping(q) => q = r
  BY <1>1 DEF LeakInvariant, OneRestartAtATime
<1>3. \A i \in DOMAIN services' : services'[i].running => i = ingestion'
  BY <1>0, <1>1, <1>2, RebuildRunsOne
<1>4. \A q \in Requests : ~Stopping(q)'
  BY <1>0, <1>1, <1>2 DEF Stopping, Idle
<1> QED
  BY <1>3, <1>4 DEF OneRestartAtATime

(* A process that has just started runs what it refers to.                 *)
LEMMA StartIsAlone ==
  ASSUME NEW all, NEW current,
         all = IF Buildable(EnvSettings) THEN <<Service(EnvSettings)>> ELSE <<>>,
         current = IF Buildable(EnvSettings) THEN 1 ELSE 0
  PROVE  \A i \in DOMAIN all : i = current
<1> DEFINE new == Service(EnvSettings)
<1> HIDE DEF new
<1>1. all = IF Buildable(EnvSettings) THEN <<new>> ELSE <<>>
  BY DEF new
<1> QED
  BY <1>1

(* The invariant holds initially.                                          *)
LEMMA LeakInit == ConnectorInit => LeakInvariant
<1> SUFFICES ASSUME ConnectorInit PROVE OneRestartAtATime
  BY ConnectorTypeInit DEF LeakInvariant
<1>1. \A i \in DOMAIN services : i = ingestion
  BY StartIsAlone DEF ConnectorInit
<1>2. \A q \in Requests : ~Stopping(q)
  BY DEF ConnectorInit, Stopping, Idle
<1> QED
  BY <1>1, <1>2 DEF OneRestartAtATime

(* Every step keeps it.                                                    *)
LEMMA LeakNext == LeakInvariant /\ [ConnectorNext]_connectorVars => LeakInvariant'
<1> SUFFICES ASSUME LeakInvariant, [ConnectorNext]_connectorVars PROVE OneRestartAtATime'
  BY ConnectorTypeNext DEF LeakInvariant
<1>1. CASE \E selection \in SUBSET Vendors : SetSelection(selection)
  BY <1>1, WritesAreAlone DEF SetSelection
<1>2. CASE \E v \in Vendors : \E form \in Forms[v] : SetCredentials(v, form)
  BY <1>2, WritesAreAlone DEF SetCredentials
<1>3. ASSUME NEW r \in Requests, NEW watch \in Watches, NEW dry \in BOOLEAN, Activate(r, watch, dry)
      PROVE  OneRestartAtATime'
  <2>1. CASE NoProblems(memory', settings')
    BY <1>3, <2>1, RestartIsAlone DEF Activate
  <2>2. CASE ~NoProblems(memory', settings')
    BY <1>3, <2>2, WritesAreAlone DEF Activate
  <2> QED
    BY <2>1, <2>2
<1>4. CASE \E r \in Requests : Deactivate(r)
  BY <1>4, RestartIsAlone DEF Deactivate
<1>5. CASE \E r \in Requests : Resume(r)
  BY <1>5, ResumeIsAlone
<1>6. CASE RestartProcess
  <2>1. \A i \in DOMAIN services' : i = ingestion'
    BY <1>6, StartIsAlone DEF RestartProcess, StartUp
  <2>2. \A q \in Requests : ~Stopping(q)'
    BY <1>6 DEF RestartProcess, StartUp, Stopping, Idle
  <2> QED
    BY <2>1, <2>2 DEF OneRestartAtATime
<1>7. CASE UNCHANGED connectorVars
  BY <1>7 DEF connectorVars, LeakInvariant, OneRestartAtATime, Stopping
<1> QED
  BY <1>1, <1>2, <1>3, <1>4, <1>5, <1>6, <1>7 DEF ConnectorNext

(* However many handlers of activate and deactivate there are, a service   *)
(* runs on unreferenced only after two of them have awaited a stop at the  *)
(* same time (_restart_ingestion, api.py:607).                             *)
THEOREM LeakOnlyByOverlap == ConnectorSpec => []LeakNeedsOverlap
<1>1. ConnectorInit => LeakInvariant
  BY LeakInit
<1>2. LeakInvariant /\ [ConnectorNext]_connectorVars => LeakInvariant'
  BY LeakNext
<1>3. LeakInvariant => LeakNeedsOverlap
  BY DEF LeakInvariant, OneRestartAtATime, LeakNeedsOverlap
<1> QED
  BY <1>1, <1>2, <1>3, PTL DEF ConnectorSpec

-----------------------------------------------------------------------------
(* After the first save the settings are the environment overlaid with the *)
(* file.                                                                   *)

(* The store's memory may run ahead of the file and the settings, but what *)
(* it has no value for still is as the environment set it.                 *)
UnsetIsEnvironment ==
  /\ \A f \in Fields : memory.values[f] = Unset => settings.values[f] = EnvSettings.values[f]
  /\ ~memory.ingestion.set => settings.enabled = EnvSettings.enabled

OverlayInvariant == ConnectorTypeOK /\ UnsetIsEnvironment /\ SettingsMatchFile

(* Saving a store that has lost no value keeps both.                       *)
LEMMA SaveOverlays ==
  ASSUME OverlayInvariant, NEW m \in StoreStates, SaveAndApply(m),
         \A f \in Fields : m.values[f] = Unset => memory.values[f] = Unset,
         memory.ingestion.set => m.ingestion.set
  PROVE  UnsetIsEnvironment' /\ SettingsMatchFile'
<1>0. settings \in Settings /\ EnvSettings \in Settings
  BY TypeParts, ConnectorAssumption DEF OverlayInvariant
<1>1. memory' = m /\ disk' = m /\ settings' = Apply(m, settings)
  BY DEF SaveAndApply
<1>2. /\ settings'.values = [f \in Fields |-> Value(m, settings, f)]
      /\ settings'.modes = m.selected
      /\ settings'.enabled = IF m.ingestion.set THEN m.ingestion.enabled ELSE settings.enabled
  BY <1>0, <1>1, ApplyTypes
<1>3. \A f \in Fields : Value(m, settings, f) =
        IF m.values[f] = Unset THEN EnvSettings.values[f] ELSE m.values[f]
  BY DEF Value, OverlayInvariant, UnsetIsEnvironment
<1>4. ~m.ingestion.set => settings'.enabled = EnvSettings.enabled
  BY <1>2 DEF OverlayInvariant, UnsetIsEnvironment
<1>5. \A f \in Fields : m.values[f] = Unset => settings'.values[f] = EnvSettings.values[f]
  BY <1>2, <1>3
<1>6. UnsetIsEnvironment'
  BY <1>1, <1>4, <1>5 DEF UnsetIsEnvironment
<1>7. settings'.values = [f \in Fields |-> IF disk'.values[f] = Unset THEN EnvSettings.values[f]
                                          ELSE disk'.values[f]]
  BY <1>1, <1>2, <1>3
<1>8. settings'.enabled = IF disk'.ingestion.set THEN disk'.ingestion.enabled ELSE EnvSettings.enabled
  BY <1>1, <1>2, <1>4
<1> QED
  BY <1>1, <1>2, <1>6, <1>7, <1>8 DEF SettingsMatchFile

(* Steps that touch neither the store nor the settings.                    *)
LEMMA OthersOverlay ==
  ASSUME OverlayInvariant, UNCHANGED <<memory, disk, settings, saved>>
  PROVE  UnsetIsEnvironment' /\ SettingsMatchFile'
BY DEF OverlayInvariant, UnsetIsEnvironment, SettingsMatchFile

(* A process that has just started has an empty store.                     *)
LEMMA StartOverlays ==
  /\ ConnectorInit => UnsetIsEnvironment /\ SettingsMatchFile
  /\ RestartProcess => UnsetIsEnvironment' /\ SettingsMatchFile'
BY DEF ConnectorInit, RestartProcess, StartUp, UnsetIsEnvironment, SettingsMatchFile, Empty, NoIngestion

(* Every step keeps the invariant.                                         *)
LEMMA OverlayNext == OverlayInvariant /\ [ConnectorNext]_connectorVars => OverlayInvariant'
<1> SUFFICES ASSUME OverlayInvariant, [ConnectorNext]_connectorVars
             PROVE  UnsetIsEnvironment' /\ SettingsMatchFile'
  BY ConnectorTypeNext DEF OverlayInvariant
<1>0. memory \in StoreStates
  BY TypeParts DEF OverlayInvariant
<1>1. ASSUME NEW selection \in SUBSET Vendors, SetSelection(selection)
      PROVE  UnsetIsEnvironment' /\ SettingsMatchFile'
  <2> DEFINE m == [memory EXCEPT !.selected = selection]
  <2>1. m \in StoreStates /\ m.values = memory.values /\ m.ingestion = memory.ingestion
    BY <1>0 DEF StoreStates
  <2>2. SaveAndApply(m)
    BY <1>1 DEF SetSelection
  <2> HIDE DEF m
  <2> QED
    BY <2>1, <2>2, SaveOverlays
<1>2. ASSUME NEW v \in Vendors, NEW form \in Forms[v], SetCredentials(v, form)
      PROVE  UnsetIsEnvironment' /\ SettingsMatchFile'
  <2> DEFINE m == Stored(memory, v, form)
  <2>1. /\ m \in StoreStates /\ m.ingestion = memory.ingestion
        /\ \A f \in Fields : m.values[f] = Unset => memory.values[f] = Unset
    BY <1>0, StoredKeeps
  <2> HIDE DEF m
  <2>2. CASE SaveAndApply(m)
    BY <2>1, <2>2, SaveOverlays
  <2>3. CASE memory' = m /\ UNCHANGED <<disk, settings, saved>>
    BY <2>1, <2>3 DEF OverlayInvariant, UnsetIsEnvironment, SettingsMatchFile
  <2> QED
    BY <1>2, <2>2, <2>3 DEF SetCredentials, m
<1>3. ASSUME NEW watch \in Watches, NEW dry \in BOOLEAN, NEW enabled \in BOOLEAN,
             SaveAndApply(WithIngestion(memory, watch, dry, enabled))
      PROVE  UnsetIsEnvironment' /\ SettingsMatchFile'
  <2> DEFINE m == WithIngestion(memory, watch, dry, enabled)
  <2>1. m \in StoreStates /\ m.values = memory.values /\ m.ingestion.set
    BY <1>0, WithIngestionKeeps
  <2>2. SaveAndApply(m)
    BY <1>3
  <2> HIDE DEF m
  <2> QED
    BY <2>1, <2>2, SaveOverlays
<1>4. CASE \E r \in Requests, watch \in Watches, dry \in BOOLEAN : Activate(r, watch, dry)
  BY <1>3, <1>4 DEF Activate
<1>5. ASSUME NEW r \in Requests, Deactivate(r)
      PROVE  UnsetIsEnvironment' /\ SettingsMatchFile'
  <2>1. memory.ingestion.watch \in Watches /\ memory.ingestion.dry \in BOOLEAN
    BY <1>0 DEF StoreStates
  <2> QED
    BY <1>3, <1>5, <2>1 DEF Deactivate
<1>6. CASE \E r \in Requests : Resume(r)
  BY <1>6, OthersOverlay DEF Resume
<1>7. CASE RestartProcess
  BY <1>7, StartOverlays
<1>8. CASE UNCHANGED connectorVars
  BY <1>8, OthersOverlay DEF connectorVars
<1> QED
  BY <1>1, <1>2, <1>4, <1>5, <1>6, <1>7, <1>8 DEF ConnectorNext

(* From the first save on the settings are the environment overlaid with   *)
(* the file, whatever forms are stored or refused half way                 *)
(* (connector_store.py:154-254).                                           *)
THEOREM SettingsAreTheFile == ConnectorSpec => []SettingsMatchFile
<1>1. ConnectorInit => OverlayInvariant
  BY ConnectorTypeInit, StartOverlays DEF OverlayInvariant
<1>2. OverlayInvariant /\ [ConnectorNext]_connectorVars => OverlayInvariant'
  BY OverlayNext
<1>3. OverlayInvariant => SettingsMatchFile
  BY DEF OverlayInvariant
<1> QED
  BY <1>1, <1>2, <1>3, PTL DEF ConnectorSpec

-----------------------------------------------------------------------------
(* Between requests the service runs as configured.                        *)

\* What the store knows of the ingestion is what the settings say, and what
\* it does not know is as the environment set it.
IngestionInForce ==
  LET known == IF memory.ingestion.set THEN memory.ingestion ELSE EnvSettings IN
  /\ settings.watch = known.watch
  /\ settings.dry = known.dry
  /\ settings.enabled = known.enabled

RunInvariant == ConnectorTypeOK /\ IngestionInForce /\ RunningAsConfigured

(* A service built from settings runs as they say.                         *)
RunsAs(all, current, s) ==
  current # 0 =>
    /\ all[current].running
    /\ s.enabled
    /\ all[current].watch = s.watch
    /\ all[current].dry = s.dry

LEMMA RebuildRunsAsSet ==
  ASSUME services \in Seq(ServiceRecords), NEW s \in Settings, Rebuild(s)
  PROVE  RunsAs(services', ingestion', s)
<1>1. CASE Buildable(s)
  <2> DEFINE new == Service(s)
  <2>1. /\ services' = Append(services, new) /\ ingestion' = Len(services) + 1
        /\ new.running /\ new.watch = s.watch /\ new.dry = s.dry /\ s.enabled
    BY <1>1 DEF Rebuild, Service, Buildable
  <2> HIDE DEF new
  <2>2. services'[ingestion'] = new
    BY <2>1
  <2> QED
    BY <2>1, <2>2 DEF RunsAs
<1>2. CASE ~Buildable(s)
  BY <1>2 DEF Rebuild, RunsAs
<1> QED
  BY <1>1, <1>2

(* Applying a store says what it knows of the ingestion.                   *)
LEMMA ApplyIngestion ==
  ASSUME NEW m \in StoreStates, NEW s \in Settings
  PROVE  /\ Apply(m, s).watch = IF m.ingestion.set THEN m.ingestion.watch ELSE s.watch
         /\ Apply(m, s).dry = IF m.ingestion.set THEN m.ingestion.dry ELSE s.dry
         /\ Apply(m, s).enabled = IF m.ingestion.set THEN m.ingestion.enabled ELSE s.enabled
BY DEF Apply, Settings

(* Saving a store with the ingestion it had changes nothing about it in    *)
(* the settings.                                                           *)
LEMMA SaveKeepsIngestion ==
  ASSUME RunInvariant, NEW m \in StoreStates, SaveAndApply(m), m.ingestion = memory.ingestion
  PROVE  /\ memory'.ingestion = memory.ingestion
         /\ settings'.watch = settings.watch
         /\ settings'.dry = settings.dry
         /\ settings'.enabled = settings.enabled
<1>1. settings \in Settings /\ memory' = m /\ settings' = Apply(m, settings)
  BY TypeParts DEF RunInvariant, SaveAndApply
<1>2. /\ settings'.watch = IF m.ingestion.set THEN m.ingestion.watch ELSE settings.watch
      /\ settings'.dry = IF m.ingestion.set THEN m.ingestion.dry ELSE settings.dry
      /\ settings'.enabled = IF m.ingestion.set THEN m.ingestion.enabled ELSE settings.enabled
  BY <1>1, ApplyIngestion
<1> QED
  BY <1>1, <1>2 DEF RunInvariant, IngestionInForce

(* Saving a new ingestion puts it in force.                                *)
LEMMA SaveSetsIngestion ==
  ASSUME ConnectorTypeOK, NEW watch \in Watches, NEW dry \in BOOLEAN, NEW enabled \in BOOLEAN,
         SaveAndApply(WithIngestion(memory, watch, dry, enabled))
  PROVE  /\ memory' \in StoreStates /\ settings' \in Settings
         /\ memory'.ingestion = [set |-> TRUE, watch |-> watch, dry |-> dry, enabled |-> enabled]
         /\ settings'.watch = watch /\ settings'.dry = dry /\ settings'.enabled = enabled
         /\ settings'.modes = memory'.selected
         /\ \A f \in Fields : settings'.values[f] = Value(memory', settings', f)
         /\ IngestionInForce'
<1> DEFINE m == WithIngestion(memory, watch, dry, enabled)
<1>1. memory \in StoreStates /\ settings \in Settings
  BY TypeParts
<1>2. m \in StoreStates /\ m.ingestion = [set |-> TRUE, watch |-> watch, dry |-> dry, enabled |-> enabled]
  BY <1>1 DEF WithIngestion, StoreStates
<1>3. memory' = m /\ settings' = Apply(m, settings)
  BY DEF SaveAndApply
<1> HIDE DEF m
<1>4. settings'.watch = watch /\ settings'.dry = dry /\ settings'.enabled = enabled
  BY <1>1, <1>2, <1>3, ApplyIngestion
<1>5. /\ settings' \in Settings /\ settings'.modes = m.selected
      /\ settings'.values = [f \in Fields |-> Value(m, settings, f)]
  BY <1>1, <1>2, <1>3, ApplyTypes
<1>6. \A f \in Fields : settings'.values[f] = Value(memory', settings', f)
  BY <1>3, <1>5 DEF Value
<1>7. IngestionInForce'
  BY <1>2, <1>3, <1>4 DEF IngestionInForce
<1> QED
  BY <1>2, <1>3, <1>4, <1>5, <1>6, <1>7

(* A restart of the ingestion ends, at once or after a stop, with what the *)
(* settings say.                                                           *)
LEMMA RestartRunsAsSet ==
  ASSUME ConnectorTypeOK, settings' \in Settings, NEW r \in Requests, NEW activation \in BOOLEAN,
         RestartIngestion(r, activation)
  PROVE  RunningAsConfigured'
<1>0. services \in Seq(ServiceRecords) /\ requests \in [Requests -> Handlers]
  BY TypeParts
<1>1. CASE ingestion = 0
  <2>1. RunsAs(services', ingestion', settings')
    BY <1>0, <1>1, RebuildRunsAsSet DEF RestartIngestion
  <2> QED
    BY <2>1 DEF RunsAs, RunningAsConfigured
<1>2. CASE ingestion # 0
  <2>1. Disturbed \in [Requests -> Handlers]
    BY <1>0, DisturbedKeeps
  <2>2. Stopping(r)'
    BY <1>2, <2>1 DEF RestartIngestion, Stopping
  <2> QED
    BY <2>2 DEF RunningAsConfigured
<1> QED
  BY <1>1, <1>2

(* Steps that touch neither the ingestion nor what the settings say of it. *)
LEMMA WritesRunOn ==
  ASSUME RunInvariant, memory'.ingestion = memory.ingestion,
         settings'.watch = settings.watch, settings'.dry = settings.dry,
         settings'.enabled = settings.enabled,
         UNCHANGED <<services, ingestion, overlapped, rejected>>,
         \A q \in Requests : Stopping(q)' <=> Stopping(q)
  PROVE  IngestionInForce' /\ RunningAsConfigured'
BY DEF RunInvariant, IngestionInForce, RunningAsConfigured

(* A process that has just started runs what the environment says.         *)
LEMMA StartRunsAsSet ==
  /\ ConnectorInit => IngestionInForce /\ RunningAsConfigured
  /\ RestartProcess => IngestionInForce' /\ RunningAsConfigured'
<1> DEFINE new == Service(EnvSettings)
<1>1. /\ new.running /\ new.watch = EnvSettings.watch /\ new.dry = EnvSettings.dry
      /\ Buildable(EnvSettings) => EnvSettings.enabled
  BY DEF Service, Buildable
<1> HIDE DEF new
<1>2. ASSUME ConnectorInit PROVE IngestionInForce /\ RunningAsConfigured
  <2>1. services = IF Buildable(EnvSettings) THEN <<new>> ELSE <<>>
    BY <1>2 DEF ConnectorInit, new
  <2> QED
    BY <1>1, <1>2, <2>1 DEF ConnectorInit, IngestionInForce, RunningAsConfigured, Empty, NoIngestion
<1>3. ASSUME RestartProcess PROVE IngestionInForce' /\ RunningAsConfigured'
  <2>1. services' = IF Buildable(EnvSettings) THEN <<new>> ELSE <<>>
    BY <1>3 DEF RestartProcess, StartUp, new
  <2> QED
    BY <1>1, <1>3, <2>1
    DEF RestartProcess, StartUp, IngestionInForce, RunningAsConfigured, Empty, NoIngestion
<1> QED
  BY <1>2, <1>3

(* Every step keeps the invariant.                                         *)
LEMMA RunNext == RunInvariant /\ [ConnectorNext]_connectorVars => RunInvariant'
<1> SUFFICES ASSUME RunInvariant, [ConnectorNext]_connectorVars
             PROVE  IngestionInForce' /\ RunningAsConfigured'
  BY ConnectorTypeNext DEF RunInvariant
<1>0. /\ ConnectorTypeOK /\ memory \in StoreStates /\ settings \in Settings
      /\ requests \in [Requests -> Handlers] /\ services \in Seq(ServiceRecords)
  BY TypeParts DEF RunInvariant
<1>d. requests' = Disturbed => \A q \in Requests : Stopping(q)' <=> Stopping(q)
  BY <1>0, DisturbedKeeps DEF Stopping
<1>1. ASSUME NEW selection \in SUBSET Vendors, SetSelection(selection)
      PROVE  IngestionInForce' /\ RunningAsConfigured'
  <2> DEFINE m == [memory EXCEPT !.selected = selection]
  <2>1. m \in StoreStates /\ m.ingestion = memory.ingestion
    BY <1>0 DEF StoreStates
  <2>2. SaveAndApply(m) /\ requests' = Disturbed /\ UNCHANGED <<services, ingestion, overlapped, rejected>>
    BY <1>1 DEF SetSelection
  <2> HIDE DEF m
  <2> QED
    BY <1>d, <2>1, <2>2, SaveKeepsIngestion, WritesRunOn
<1>2. ASSUME NEW v \in Vendors, NEW form \in Forms[v], SetCredentials(v, form)
      PROVE  IngestionInForce' /\ RunningAsConfigured'
  <2> DEFINE m == Stored(memory, v, form)
  <2>1. m \in StoreStates /\ m.ingestion = memory.ingestion
    BY <1>0, StoredKeeps
  <2>2. requests' = Disturbed /\ UNCHANGED <<services, ingestion, overlapped, rejected>>
    BY <1>2 DEF SetCredentials
  <2>3. SaveAndApply(m) \/ (memory' = m /\ settings' = settings)
    BY <1>2 DEF SetCredentials
  <2> HIDE DEF m
  <2> QED
    BY <1>d, <2>1, <2>2, <2>3, SaveKeepsIngestion, WritesRunOn
<1>3. ASSUME NEW r \in Requests, NEW watch \in Watches, NEW dry \in BOOLEAN, Activate(r, watch, dry)
      PROVE  IngestionInForce' /\ RunningAsConfigured'
  <2>1. IngestionInForce' /\ settings' \in Settings
    BY <1>0, <1>3, SaveSetsIngestion DEF Activate
  <2>2. CASE NoProblems(memory', settings')
    BY <1>0, <1>3, <2>1, <2>2, RestartRunsAsSet DEF Activate
  <2>3. CASE ~NoProblems(memory', settings')
    BY <1>3, <2>1, <2>3 DEF Activate, RunningAsConfigured
  <2> QED
    BY <2>1, <2>2, <2>3
<1>4. ASSUME NEW r \in Requests, Deactivate(r)
      PROVE  IngestionInForce' /\ RunningAsConfigured'
  <2>1. memory.ingestion.watch \in Watches /\ memory.ingestion.dry \in BOOLEAN
    BY <1>0 DEF StoreStates
  <2>2. IngestionInForce' /\ settings' \in Settings
    BY <1>0, <1>4, <2>1, SaveSetsIngestion DEF Deactivate
  <2> QED
    BY <1>0, <1>4, <2>2, RestartRunsAsSet DEF Deactivate
<1>5. ASSUME NEW r \in Requests, Resume(r)
      PROVE  IngestionInForce' /\ RunningAsConfigured'
  <2>1. Rebuild(settings) /\ UNCHANGED <<memory, settings>>
    BY <1>5 DEF Resume
  <2>2. RunsAs(services', ingestion', settings)
    BY <1>0, <2>1, RebuildRunsAsSet
  <2>3. RunningAsConfigured'
    BY <2>1, <2>2 DEF RunsAs, RunningAsConfigured
  <2> QED
    BY <2>1, <2>3 DEF RunInvariant, IngestionInForce
<1>6. CASE RestartProcess
  BY <1>6, StartRunsAsSet
<1>7. CASE UNCHANGED connectorVars
  BY <1>7, WritesRunOn DEF connectorVars, Stopping
<1> QED
  BY <1>1, <1>2, <1>3, <1>4, <1>5, <1>6, <1>7 DEF ConnectorNext

(* Between requests, and unless restarts overlapped or the latest          *)
(* activation was refused after it was saved, the service that runs is one *)
(* the settings describe and allow (activate_ingestion, api.py:661).       *)
THEOREM RunsAlwaysAsConfigured == ConnectorSpec => []RunningAsConfigured
<1>1. ConnectorInit => RunInvariant
  BY ConnectorTypeInit, StartRunsAsSet DEF RunInvariant
<1>2. RunInvariant /\ [ConnectorNext]_connectorVars => RunInvariant'
  BY RunNext
<1>3. RunInvariant => RunningAsConfigured
  BY DEF RunInvariant
<1> QED
  BY <1>1, <1>2, <1>3, PTL DEF ConnectorSpec

-----------------------------------------------------------------------------
(* An accepted activation ends with a running service.                     *)

\* The settings are those a configuration without problems was applied to.
Ready(m, s) ==
  /\ NoProblems(m, s)
  /\ s.enabled /\ s.watch = m.ingestion.watch /\ s.dry = m.ingestion.dry
  /\ s.modes = m.selected
  /\ \A f \in Fields : s.values[f] = Value(m, s, f)

\* Nothing was written since the activation that waits was accepted.
WaitingIsReady ==
  \A r \in Requests :
    Stopping(r) /\ requests[r].activation /\ ~requests[r].disturbed => Ready(memory, settings)

ReadyInvariant == ConnectorTypeOK /\ WaitingIsReady

(* The form's check and the builder's agree: of a configuration without    *)
(* problems the service can be built (missing, validate_modes).            *)
LEMMA ReadyBuilds ==
  ASSUME NEW m \in StoreStates, NEW s \in Settings, Ready(m, s)
  PROVE  /\ Buildable(s)
         /\ Service(s) = [modes |-> m.selected, watch |-> m.ingestion.watch,
                          dry |-> m.ingestion.dry, running |-> TRUE]
<1>1. m.selected # {} /\ m.selected \subseteq {"prometheus", "datadog", "splunk"}
  BY ConnectorAssumption DEF Ready, NoProblems, StoreStates
<1>2. ActiveModes(s) = m.selected
  BY <1>1 DEF Ready, ActiveModes
<1>3. ASSUME NEW v \in m.selected PROVE HasCredentials(s, v)
  <2>1. Configured(m, s, v)
    BY DEF Ready, NoProblems
  <2>2. \A f \in Fields : Filled(m, s, f) <=> s.values[f] # "blank"
    BY DEF Ready, Filled
  <2>3. CASE v = "prometheus"
    <3>1. "url" \in FieldsOf[v] \cap Required /\ "url" \in Fields
      BY <2>3 DEF FieldsOf, Required, Fields
    <3> QED
      BY <2>1, <2>2, <2>3, <3>1 DEF Configured, HasCredentials
  <2>4. CASE v = "datadog"
    <3>1. {"api_key", "app_key"} \subseteq FieldsOf[v] \cap Required /\ {"api_key", "app_key"} \subseteq Fields
      BY <2>4 DEF FieldsOf, Required, Fields
    <3> QED
      BY <2>1, <2>2, <2>4, <3>1 DEF Configured, HasCredentials
  <2>5. CASE v = "splunk"
    <3>1. {"token", "password"} \in RequiredOneOf[v] /\ {"token", "password"} \subseteq Fields
      BY <2>5 DEF RequiredOneOf, Fields
    <3> QED
      BY <2>1, <2>2, <2>5, <3>1 DEF Configured, HasCredentials
  <2> QED
    BY <1>1, <2>3, <2>4, <2>5
<1>4. ValidModes(s)
  BY <1>2, <1>3 DEF ValidModes
<1>5. Buildable(s)
  BY <1>4 DEF Buildable, Ready, NoProblems
<1> QED
  BY <1>2, <1>5 DEF Service, Ready

(* An activation without problems leaves the settings ready for it.        *)
LEMMA ActivationIsReady ==
  ASSUME ConnectorTypeOK, NEW r \in Requests, NEW watch \in Watches, NEW dry \in BOOLEAN,
         Activate(r, watch, dry), NoProblems(memory', settings')
  PROVE  Ready(memory', settings')
<1>1. SaveAndApply(WithIngestion(memory, watch, dry, TRUE))
  BY DEF Activate
<1>2. /\ memory'.ingestion = [set |-> TRUE, watch |-> watch, dry |-> dry, enabled |-> TRUE]
      /\ settings'.watch = watch /\ settings'.dry = dry /\ settings'.enabled = TRUE
      /\ settings'.modes = memory'.selected
      /\ \A f \in Fields : settings'.values[f] = Value(memory', settings', f)
  BY <1>1, SaveSetsIngestion
<1>3. settings'.watch = memory'.ingestion.watch /\ settings'.dry = memory'.ingestion.dry
  BY <1>2
<1> HIDE DEF Value
<1> QED
  BY <1>2, <1>3 DEF Ready

(* A write leaves no waiting handler undisturbed.                          *)
LEMMA WritesDisturb ==
  ASSUME requests \in [Requests -> Handlers], NEW r \in Requests
  PROVE  Disturbed[r].at = "stopping" => Disturbed[r].disturbed
BY DEF Disturbed, Stopping, Handlers

(* A restart of the ingestion leaves one handler undisturbed at most, its  *)
(* own.                                                                    *)
LEMMA RestartDisturbs ==
  ASSUME requests \in [Requests -> Handlers], NEW r \in Requests, NEW activation \in BOOLEAN,
         RestartIngestion(r, activation), NEW q \in Requests,
         Stopping(q)', ~requests'[q].disturbed
  PROVE  q = r /\ requests'[q].activation = activation
<1>1. Disturbed \in [Requests -> Handlers]
  BY DisturbedKeeps
<1>2. requests' # Disturbed
  BY WritesDisturb DEF Stopping
<1>3. requests' = [Disturbed EXCEPT ![r] =
         [at |-> "stopping", activation |-> activation, disturbed |-> FALSE]]
  BY <1>2 DEF RestartIngestion
<1>4. q # r => requests'[q] = Disturbed[q]
  BY <1>1, <1>3
<1>5. q = r
  BY <1>4, WritesDisturb DEF Stopping
<1> QED
  BY <1>1, <1>3, <1>5

(* Every step keeps the invariant.                                         *)
LEMMA ReadyNext == ReadyInvariant /\ [ConnectorNext]_connectorVars => ReadyInvariant'
<1> SUFFICES ASSUME ReadyInvariant, [ConnectorNext]_connectorVars PROVE WaitingIsReady'
  BY ConnectorTypeNext DEF ReadyInvariant
<1>0. ConnectorTypeOK /\ requests \in [Requests -> Handlers]
  BY TypeParts DEF ReadyInvariant
<1>1. ASSUME requests' = Disturbed PROVE WaitingIsReady'
  BY <1>0, <1>1, WritesDisturb DEF WaitingIsReady, Stopping
<1>2. ASSUME NEW r \in Requests, NEW watch \in Watches, NEW dry \in BOOLEAN, Activate(r, watch, dry)
      PROVE  WaitingIsReady'
  <2>1. CASE NoProblems(memory', settings')
    BY <1>0, <1>2, <2>1, ActivationIsReady DEF WaitingIsReady
  <2>2. CASE ~NoProblems(memory', settings')
    BY <1>1, <1>2, <2>2 DEF Activate
  <2> QED
    BY <2>1, <2>2
<1>3. ASSUME NEW r \in Requests, Deactivate(r) PROVE WaitingIsReady'
  <2>1. RestartIngestion(r, FALSE)
    BY <1>3 DEF Deactivate
  <2> QED
    BY <1>0, <2>1, RestartDisturbs DEF WaitingIsReady
<1>4. ASSUME NEW r \in Requests, Resume(r) PROVE WaitingIsReady'
  <2>1. requests' = [requests EXCEPT ![r] = Idle] /\ UNCHANGED <<memory, settings>>
    BY <1>4 DEF Resume
  <2>2. \A q \in Requests : Stopping(q)' => requests'[q] = requests[q]
    BY <1>0, <2>1 DEF Stopping, Idle
  <2> QED
    BY <2>1, <2>2 DEF ReadyInvariant, WaitingIsReady, Stopping
<1>5. CASE RestartProcess
  BY <1>5 DEF RestartProcess, StartUp, WaitingIsReady, Stopping, Idle
<1>6. CASE UNCHANGED connectorVars
  BY <1>6 DEF connectorVars, ReadyInvariant, WaitingIsReady, Stopping
<1> QED
  BY <1>1, <1>2, <1>3, <1>4, <1>5, <1>6 DEF ConnectorNext, SetSelection, SetCredentials

(* What a rebuild from ready settings ends with.                           *)
LEMMA RebuildRunsReady ==
  ASSUME services \in Seq(ServiceRecords), NEW m \in StoreStates, NEW s \in Settings,
         Ready(m, s), Rebuild(s)
  PROVE  /\ ingestion' # 0
         /\ services'[ingestion'] = [modes |-> m.selected, watch |-> m.ingestion.watch,
                                     dry |-> m.ingestion.dry, running |-> TRUE]
<1> DEFINE new == Service(s)
<1>1. new = [modes |-> m.selected, watch |-> m.ingestion.watch,
             dry |-> m.ingestion.dry, running |-> TRUE]
  BY ReadyBuilds
<1>2. services' = Append(services, new) /\ ingestion' = Len(services) + 1
  BY ReadyBuilds DEF Rebuild
<1> HIDE DEF new
<1>3. services'[ingestion'] = new /\ ingestion' # 0
  BY <1>2
<1> QED
  BY <1>1, <1>3

(* An activation that was accepted, at once or after the stop it awaited,  *)
(* ends with a running service for the selected connectors, unless another *)
(* request came in meanwhile: the form's check and the builder's agree     *)
(* (activation_problems, connector_store.py; validate_modes).              *)
THEOREM AcceptedActivationAlwaysRuns == ConnectorSpec => AcceptedActivationRuns
<1> DEFINE Runs == /\ ingestion' # 0
                   /\ services'[ingestion'] = [modes |-> memory'.selected,
                        watch |-> memory'.ingestion.watch, dry |-> memory'.ingestion.dry,
                        running |-> TRUE]
           Immediately == restarts' = restarts + 1 /\ ingestion = 0 /\ settings'.enabled /\ ~rejected'
           AfterStop == /\ saved'
                        /\ \E r \in Requests : /\ Stopping(r) /\ requests'[r].at = "idle"
                                              /\ requests[r].activation /\ ~requests[r].disturbed
<1>1. ReadyInvariant /\ [ConnectorNext]_connectorVars => (Immediately \/ AfterStop => Runs)
  <2> SUFFICES ASSUME ReadyInvariant, [ConnectorNext]_connectorVars, Immediately \/ AfterStop
               PROVE  Runs
    OBVIOUS
  <2>0. /\ ConnectorTypeOK /\ memory \in StoreStates /\ settings \in Settings
        /\ requests \in [Requests -> Handlers] /\ services \in Seq(ServiceRecords)
        /\ restarts \in Nat
        /\ memory' \in StoreStates /\ settings' \in Settings
    <3>1. ConnectorTypeOK'
      BY ConnectorTypeNext DEF ReadyInvariant
    <3>2. memory' \in StoreStates /\ settings' \in Settings
      BY <3>1 DEF ConnectorTypeOK, StoreStates
    <3> QED
      BY <3>2, TypeParts, ConnectorAssumption DEF ReadyInvariant
  <2>1. CASE Immediately
    <3>1. CASE \E r \in Requests, watch \in Watches, dry \in BOOLEAN : Activate(r, watch, dry)
      <4>1. PICK r \in Requests, watch \in Watches, dry \in BOOLEAN : Activate(r, watch, dry)
        BY <3>1
      <4>2. NoProblems(memory', settings') /\ RestartIngestion(r, TRUE)
        BY <2>1, <4>1 DEF Activate
      <4>3. Ready(memory', settings') /\ Rebuild(settings')
        BY <2>0, <2>1, <4>1, <4>2, ActivationIsReady DEF RestartIngestion
      <4> QED
        BY <2>0, <4>3, RebuildRunsReady
    <3>2. ASSUME NEW r \in Requests, Deactivate(r) PROVE FALSE
      <4>1. memory.ingestion.watch \in Watches /\ memory.ingestion.dry \in BOOLEAN
        BY <2>0 DEF StoreStates
      <4>2. settings'.enabled = FALSE
        BY <2>0, <3>2, <4>1, SaveSetsIngestion DEF Deactivate
      <4> QED
        BY <2>1, <4>2
    <3>3. CASE UNCHANGED restarts
      BY <2>0, <2>1, <3>3
    <3> QED
      BY <3>1, <3>2, <3>3
      DEF ConnectorNext, SetSelection, SetCredentials, Resume, RestartProcess, connectorVars
  <2>2. CASE AfterStop
    <3>1. PICK r \in Requests : /\ Stopping(r) /\ requests'[r].at = "idle"
                                /\ requests[r].activation /\ ~requests[r].disturbed
      BY <2>2
    <3>2. requests' # Disturbed /\ requests' # requests
      BY <2>0, <3>1, DisturbedKeeps DEF Stopping
    <3>3. ASSUME NEW q \in Requests, NEW activation \in BOOLEAN, RestartIngestion(q, activation),
                 requests[q].at = "idle"
          PROVE  FALSE
      <4>1. requests' = [Disturbed EXCEPT ![q] =
               [at |-> "stopping", activation |-> activation, disturbed |-> FALSE]]
        BY <3>2, <3>3 DEF RestartIngestion
      <4>2. q # r
        BY <3>1, <3>3 DEF Stopping
      <4> QED
        BY <2>0, <3>1, <4>1, <4>2, DisturbedKeeps DEF Stopping
    <3>4. ~RestartProcess
      BY <2>2 DEF RestartProcess, StartUp
    <3>5. PICK q \in Requests : Resume(q)
      BY <3>2, <3>3, <3>4
      DEF ConnectorNext, SetSelection, SetCredentials, Activate, Deactivate, connectorVars
    <3>6. Rebuild(settings) /\ memory' = memory
      BY <3>5 DEF Resume
    <3>7. Ready(memory, settings)
      BY <3>1 DEF ReadyInvariant, WaitingIsReady
    <3> QED
      BY <2>0, <3>6, <3>7, RebuildRunsReady
  <2> QED
    BY <2>1, <2>2
<1>2. ConnectorInit => ReadyInvariant
  BY ConnectorTypeInit DEF ReadyInvariant, WaitingIsReady, ConnectorInit, Stopping, Idle
<1>3. ReadyInvariant /\ [ConnectorNext]_connectorVars => ReadyInvariant'
  BY ReadyNext
<1>4. ReadyInvariant /\ [ConnectorNext]_connectorVars => [Immediately \/ AfterStop => Runs]_connectorVars
  BY <1>1
<1> QED
  BY <1>2, <1>3, <1>4, PTL DEF ConnectorSpec, AcceptedActivationRuns

=============================================================================
