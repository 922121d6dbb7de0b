--------------------------- MODULE ConnectorConfig ---------------------------
(***************************************************************************)
(* The connector page behind /api/v1/connectors: what an operator selects  *)
(* and types in, the file it is saved to, the live settings it is applied  *)
(* to, and the ingestion service that is stopped and rebuilt from them.    *)
(*                                                                         *)
(* The same facts are kept in four places: the store's memory, its file,   *)
(* the settings object, and the arguments the running service was built    *)
(* with.  Requests of one process interleave at the only await there is,   *)
(* the stop of the old service in _restart_ingestion.                      *)
(***************************************************************************)
EXTENDS Naturals, Sequences, FiniteSets

CONSTANTS
  Vendors,          \* the connectors of CATALOG that are in play
  Forms,            \* the credential forms that are submitted
  Watches,          \* the lists of services an activation may name
  EnvSettings,      \* the settings of a process that has just read its environment
  Requests,         \* handlers of activate and deactivate under way
  MaxWrites,        \* bound: selections and credential forms stored
  MaxRestarts       \* bound: activations and deactivations

Fields == {"url", "bearer_token", "api_key", "app_key", "site", "host", "port", "token",
           "username", "password", "verify_ssl", "ca_bundle"}

\* The fields that hold a number: only these have texts that are malformed.
Numbers == {"port"}

\* Values are told apart by being blank, and from each other.
Values == {"blank", "one", "other"}

\* What a form may hold for a field: a null, or a text that is no number.
Raws == Values \cup {"null", "malformed"}

Modes == {"prometheus", "datadog", "splunk", "simulator"}

Settings == [values : [Fields -> Values], modes : SUBSET Modes, watch : Watches, dry : BOOLEAN,
             enabled : BOOLEAN]

ASSUME ConnectorAssumption ==
  /\ Vendors \subseteq {"prometheus", "datadog", "splunk"}
  /\ \A v \in Vendors : \A form \in Forms[v] :
       /\ form \in Seq([field : STRING, raw : Raws])
       /\ \A i \in DOMAIN form : form[i].raw = "malformed" => form[i].field \in Numbers
  /\ EnvSettings \in Settings
  /\ {} \in Watches
  /\ {MaxWrites, MaxRestarts} \subseteq Nat

VARIABLES
  memory,      \* ConnectorConfigStore.state
  disk,        \* .connector_state.json, or NoFile
  settings,    \* the settings the store applies itself to
  requests,    \* the handlers awaiting the stop of a service
  services,    \* every TelemetryIngestionService this process has built
  ingestion,   \* the global of that name: an index of services, 0 for None
  saved,       \* history: the store has been saved since the process started
  overlapped,  \* history: two handlers have awaited a stop at a time
  rejected,    \* history: the latest activation was refused after it was saved
  writes,      \* selections and forms so far
  restarts     \* activations and deactivations so far

connectorVars == <<memory, disk, settings, requests, services, ingestion, saved, overlapped,
                   rejected, writes, restarts>>

\* No value is stored for a field, no ingestion has been configured, no file.
Unset == "unset"
NoIngestion == [set |-> FALSE, watch |-> {}, dry |-> TRUE, enabled |-> FALSE]
Empty == [selected |-> {}, values |-> [f \in Fields |-> Unset], ingestion |-> NoIngestion]
NoFile == [Empty EXCEPT !.selected = {"no file"}]

-----------------------------------------------------------------------------
(* CATALOG.                                                                *)

FieldsOf ==
  [prometheus |-> {"url", "bearer_token"},
   datadog    |-> {"api_key", "app_key", "site"},
   splunk     |-> {"host", "port", "token", "username", "password", "verify_ssl", "ca_bundle"}]

Secret == {"bearer_token", "api_key", "app_key", "token", "password"}
Required == {"url", "api_key", "app_key", "host"}

RequiredOneOf ==
  [prometheus |-> {}, datadog |-> {}, splunk |-> {{"token", "password"}}]

(* missing: a stored value counts even if it is blank, only a field that   *)
(* was never stored is looked up in the settings.                          *)
Value(m, s, f) == IF m.values[f] = Unset THEN s.values[f] ELSE m.values[f]

Filled(m, s, f) == Value(m, s, f) # "blank"

ConfiguredFieldwise(m, s, v) ==   \* mutant: the groups are not looked at
  \A f \in FieldsOf[v] \cap Required : Filled(m, s, f)

Configured(m, s, v) ==
  /\ \A f \in FieldsOf[v] \cap Required : Filled(m, s, f)
  /\ \A group \in RequiredOneOf[v] : \E f \in group : Filled(m, s, f)

(* activation_problems finds none.                                         *)
NoProblems(m, s) ==
  /\ m.selected # {}
  /\ \A v \in m.selected : Configured(m, s, v)
  /\ m.ingestion.watch # {}

-----------------------------------------------------------------------------
(* set_credentials takes the fields in the form's order: it has changed    *)
(* the earlier ones when a later one is refused.                           *)

Skipped(entry) == entry.raw = "null" \/ (entry.field \in Secret /\ entry.raw = "blank")

Refused(v, entry) ==
  \/ entry.field \notin FieldsOf[v]
  \/ /\ entry.field \in Numbers
     /\ entry.raw \in {"blank", "malformed"}

Accepted(v, form) == {i \in DOMAIN form : \A j \in 1..i : ~Refused(v, form[j])}

Filling(v, form, f) == {i \in Accepted(v, form) : form[i].field = f /\ ~Skipped(form[i])}

Stored(m, v, form) ==
  [m EXCEPT !.values = [f \in Fields |->
     IF Filling(v, form, f) = {} THEN m.values[f]
     ELSE form[CHOOSE i \in Filling(v, form, f) : TRUE].raw]]

(* apply: what the store knows replaces what the settings say, and the     *)
(* modes always become the selection.                                      *)
Apply(m, s) ==
  [s EXCEPT !.values = [f \in Fields |-> Value(m, s, f)],
            !.modes = m.selected,
            !.watch = IF m.ingestion.set THEN m.ingestion.watch ELSE s.watch,
            !.dry = IF m.ingestion.set THEN m.ingestion.dry ELSE s.dry,
            !.enabled = IF m.ingestion.set THEN m.ingestion.enabled ELSE s.enabled]

(* set_ingestion on the store's state.                                     *)
WithIngestion(m, watch, dry, enabled) ==
  [m EXCEPT !.ingestion = [set |-> TRUE, watch |-> watch, dry |-> dry, enabled |-> enabled]]

(* save() and apply().                                                     *)
SaveAndApply(m) ==
  /\ memory' = m
  /\ disk' = m
  /\ settings' = Apply(m, settings)
  /\ saved' = TRUE

-----------------------------------------------------------------------------
(* get_active_modes, validate_modes, _build_ingestion_service.             *)

ActiveModes(s) == IF s.modes = {} THEN {"simulator"} ELSE s.modes

HasCredentials(s, mode) ==
  CASE mode = "datadog" -> s.values["api_key"] # "blank" /\ s.values["app_key"] # "blank"
    [] mode = "splunk" -> s.values["token"] # "blank" \/ s.values["password"] # "blank"
    [] mode = "prometheus" -> s.values["url"] # "blank"
    [] OTHER -> TRUE

ValidModes(s) == \A mode \in ActiveModes(s) : HasCredentials(s, mode)

Buildable(s) == s.enabled /\ s.watch # {} /\ ValidModes(s)

Service(s) == [modes |-> ActiveModes(s), watch |-> s.watch, dry |-> s.dry, running |-> TRUE]

(* stop() cancels the tasks at once and then awaits their end.             *)
Cancelled(id) == [services EXCEPT ![id].running = FALSE]

(* The second half of _restart_ingestion, from the settings as they are by *)
(* now.                                                                    *)
RebuildRegardless(s) ==   \* mutant: whether ingestion is enabled is not asked again
  IF s.watch # {} /\ ValidModes(s)
  THEN /\ services' = Append(services, Service(s))
       /\ ingestion' = Len(services) + 1
  ELSE /\ services' = services
       /\ ingestion' = 0

Rebuild(s) ==
  IF Buildable(s)
  THEN /\ services' = Append(services, Service(s))
       /\ ingestion' = Len(services) + 1
  ELSE /\ services' = services
       /\ ingestion' = 0

Idle == [at |-> "idle", activation |-> FALSE, disturbed |-> FALSE]

Stopping(r) == requests[r].at = "stopping"

\* A write while a handler awaits changes what it will build from.
Disturbed == [r \in Requests |-> IF Stopping(r) THEN [requests[r] EXCEPT !.disturbed = TRUE]
                                 ELSE requests[r]]

DroppedRestart(r, activation) ==   \* mutant: the old service is dropped, not stopped
  IF ingestion = 0
  THEN Rebuild(settings') /\ requests' = Disturbed /\ UNCHANGED overlapped
  ELSE /\ services' = services
       /\ ingestion' = 0
       /\ requests' = [Disturbed EXCEPT ![r] = [at |-> "stopping", activation |-> activation, disturbed |-> FALSE]]
       /\ overlapped' = (overlapped \/ \E q \in Requests : Stopping(q))

(* _restart_ingestion up to its await: with nothing to stop it goes on.    *)
RestartIngestion(r, activation) ==
  IF ingestion = 0
  THEN Rebuild(settings') /\ requests' = Disturbed /\ UNCHANGED overlapped
  ELSE /\ services' = Cancelled(ingestion)
       /\ UNCHANGED ingestion
       /\ requests' = [Disturbed EXCEPT ![r] = [at |-> "stopping", activation |-> activation, disturbed |-> FALSE]]
       /\ overlapped' = (overlapped \/ \E q \in Requests : Stopping(q))

-----------------------------------------------------------------------------

(* The process starts, with whatever file an earlier one left: lifespan    *)
(* builds the ingestion from the environment and never calls load().       *)
StartUp ==
  /\ memory' = Empty
  /\ settings' = EnvSettings
  /\ requests' = [r \in Requests |-> Idle]
  /\ services' = IF Buildable(EnvSettings) THEN <<Service(EnvSettings)>> ELSE <<>>
  /\ ingestion' = IF Buildable(EnvSettings) THEN 1 ELSE 0
  /\ saved' = FALSE
  /\ overlapped' = FALSE
  /\ rejected' = FALSE

ConnectorInit ==
  /\ memory = Empty
  /\ disk = NoFile
  /\ settings = EnvSettings
  /\ requests = [r \in Requests |-> Idle]
  /\ services = IF Buildable(EnvSettings) THEN <<Service(EnvSettings)>> ELSE <<>>
  /\ ingestion = IF Buildable(EnvSettings) THEN 1 ELSE 0
  /\ saved = FALSE
  /\ overlapped = FALSE
  /\ rejected = FALSE
  /\ writes = 0
  /\ restarts = 0

(* PUT /connectors/selection; a name that is not in CATALOG changes nothing.*)
SetSelection(selection) ==
  /\ writes < MaxWrites
  /\ writes' = writes + 1
  /\ SaveAndApply([memory EXCEPT !.selected = selection])
  /\ requests' = Disturbed
  /\ UNCHANGED <<services, ingestion, overlapped, rejected, restarts>>

(* PUT /connectors/{vendor}/credentials.                                   *)
SetCredentialsUnsaved(v, form) ==   \* mutant: the form is applied and not saved
  /\ writes < MaxWrites
  /\ writes' = writes + 1
  /\ memory' = Stored(memory, v, form)
  /\ settings' = Apply(memory', settings)
  /\ requests' = Disturbed
  /\ UNCHANGED <<disk, saved, services, ingestion, overlapped, rejected, restarts>>

SetCredentials(v, form) ==
  /\ writes < MaxWrites
  /\ writes' = writes + 1
  /\ IF Accepted(v, form) = DOMAIN form
     THEN SaveAndApply(Stored(memory, v, form))
     ELSE /\ memory' = Stored(memory, v, form)
          /\ UNCHANGED <<disk, settings, saved>>
  /\ requests' = Disturbed
  /\ UNCHANGED <<services, ingestion, overlapped, rejected, restarts>>

(* POST /connectors/activate: the configuration is saved and applied       *)
(* before it is found to be incomplete.                                    *)
Activate(r, watch, dry) ==
  /\ requests[r].at = "idle"
  /\ restarts < MaxRestarts
  /\ restarts' = restarts + 1
  /\ SaveAndApply(WithIngestion(memory, watch, dry, TRUE))
  /\ IF NoProblems(memory', settings')
     THEN RestartIngestion(r, TRUE) /\ rejected' = FALSE
     ELSE requests' = Disturbed /\ rejected' = TRUE /\ UNCHANGED <<services, ingestion, overlapped>>
  /\ UNCHANGED writes

(* POST /connectors/deactivate.                                            *)
Deactivate(r) ==
  /\ requests[r].at = "idle"
  /\ restarts < MaxRestarts
  /\ restarts' = restarts + 1
  /\ SaveAndApply(WithIngestion(memory, memory.ingestion.watch, memory.ingestion.dry, FALSE))
  /\ RestartIngestion(r, FALSE)
  /\ rejected' = FALSE
  /\ UNCHANGED writes

(* The stop has ended: ingestion = None, then the rebuild.                 *)
Resume(r) ==
  /\ Stopping(r)
  /\ Rebuild(settings)
  /\ requests' = [requests EXCEPT ![r] = Idle]
  /\ UNCHANGED <<memory, disk, settings, saved, overlapped, rejected, writes, restarts>>

(* The process ends, shut down or killed, and is started again.            *)
RestartProcess ==
  /\ StartUp
  /\ UNCHANGED <<disk, writes, restarts>>

ConnectorNext ==
  \/ \E selection \in SUBSET Vendors : SetSelection(selection)
  \/ \E v \in Vendors : \E form \in Forms[v] : SetCredentials(v, form)
  \/ \E r \in Requests, watch \in Watches, dry \in BOOLEAN : Activate(r, watch, dry)
  \/ \E r \in Requests : Deactivate(r)
  \/ \E r \in Requests : Resume(r)
  \/ RestartProcess

ConnectorSpec == ConnectorInit /\ [][ConnectorNext]_connectorVars

-----------------------------------------------------------------------------

ConnectorTypeOK ==
  LET states == [selected : SUBSET Vendors, values : [Fields -> Values \cup {Unset}],
                 ingestion : [set : BOOLEAN, watch : Watches, dry : BOOLEAN, enabled : BOOLEAN]]
  IN /\ memory \in states
     /\ disk \in states \cup {NoFile}
     /\ settings \in Settings
     /\ requests \in [Requests -> [at : {"idle", "stopping"}, activation : BOOLEAN, disturbed : BOOLEAN]]
     /\ services \in Seq([modes : SUBSET Modes, watch : Watches, dry : BOOLEAN, running : BOOLEAN])
     /\ ingestion \in 0..Len(services)
     /\ {saved, overlapped, rejected} \subseteq BOOLEAN
     /\ writes \in 0..MaxWrites
     /\ restarts \in 0..MaxRestarts

(* No service runs on that nothing can stop any more: every running one is *)
(* the one `ingestion` refers to, unless two handlers of activate or       *)
(* deactivate have awaited a stop at the same time.                        *)
(* _restart_ingestion, api.py:607.                                         *)
LeakNeedsOverlap ==
  ~overlapped => \A i \in DOMAIN services : services[i].running => i = ingestion

(* Between requests the service that runs watches what the settings name,  *)
(* in the mode they name, and only while ingestion is enabled.  Two things *)
(* break it: overlapping restarts, and an activation that was refused      *)
(* after set_ingestion had saved and applied it.  activate_ingestion,      *)
(* api.py:661.                                                             *)
RunningAsConfigured ==
  (ingestion # 0 /\ ~overlapped /\ ~rejected /\ \A r \in Requests : ~Stopping(r)) =>
     LET service == services[ingestion] IN
     /\ service.running
     /\ settings.enabled
     /\ service.watch = settings.watch
     /\ service.dry = settings.dry

(* After the first save the settings are the environment overlaid with the *)
(* file, although a form that is refused half way changes the store's      *)
(* memory and neither of them.  set_credentials, apply,                    *)
(* connector_store.py:154-254.                                             *)
SettingsMatchFile ==
  saved =>
    /\ settings.values = [f \in Fields |-> IF disk.values[f] = Unset THEN EnvSettings.values[f]
                                          ELSE disk.values[f]]
    /\ settings.modes = disk.selected
    /\ settings.enabled = IF disk.ingestion.set THEN disk.ingestion.enabled ELSE EnvSettings.enabled

(* An activation that was accepted ends with a running service for the     *)
(* selected connectors: the form's check (missing) and the builder's       *)
(* (validate_modes), written apart and separated by an await, agree.       *)
(* Another request that comes in meanwhile may undo it.                    *)
AcceptedActivationRuns ==
  [][LET immediately == restarts' = restarts + 1 /\ ingestion = 0 /\ settings'.enabled /\ ~rejected'
         afterStop == /\ saved'
                      /\ \E r \in Requests : /\ Stopping(r) /\ requests'[r].at = "idle"
                                            /\ requests[r].activation /\ ~requests[r].disturbed
     IN immediately \/ afterStop =>
          /\ ingestion' # 0
          /\ services'[ingestion'] = [modes |-> memory'.selected, watch |-> memory'.ingestion.watch,
                                      dry |-> memory'.ingestion.dry, running |-> TRUE]]_connectorVars

(* "State is persisted to .connector_state.json [...] and overrides        *)
(* CONNECTOR_MODES from .env" (README.md:78): wherever there is a file,    *)
(* its selection is the one in force.  Nothing in the program calls        *)
(* ConnectorConfigStore.load, so it is not after a restart.                *)
PersistedStateInForce == disk # NoFile => settings.modes = disk.selected

=============================================================================
