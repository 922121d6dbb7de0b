------------------------ MODULE MCIncidentLifecycle ------------------------
(***************************************************************************)
(* Values for the constants of IncidentLifecycle.  The catalog keeps one   *)
(* action of each kind the policy gate tells apart.                        *)
(***************************************************************************)
EXTENDS IncidentLifecycle

MCActions == {"clear_cache", "drain_node", "rollback_deployment", "reboot_planet"}
MCWorkflows == {"clear_cache", "drain_node"}
MCLow == {"clear_cache"}
MCMedium == {"drain_node"}
MCHigh == {"rollback_deployment"}
MCAllowlist == {"clear_cache"}

Auto == [action |-> "clear_cache", valid |-> TRUE]
Ask == [action |-> "drain_node", valid |-> TRUE]
Never == [action |-> "rollback_deployment", valid |-> TRUE]
Unknown == [action |-> "reboot_planet", valid |-> TRUE]
Invalid == [action |-> "drain_node", valid |-> FALSE]

\* Live production with auto-remediation, the same for a critical incident,
\* a development simulation, and a live deployment without a workflow key.
Production == [critical |-> FALSE, env |-> "production", dry_run |-> FALSE,
               auto_on |-> TRUE, api_key |-> TRUE]
CriticalProduction == [Production EXCEPT !.critical = TRUE]
Simulation == [critical |-> FALSE, env |-> "development", dry_run |-> TRUE,
               auto_on |-> FALSE, api_key |-> TRUE]
Keyless == [Production EXCEPT !.api_key = FALSE]
Development == [Production EXCEPT !.env = "development"]

AllProposals == {Auto, Ask, Never, Unknown, Invalid}
ActingProposals == {Auto, Ask, Never}
AskOnly == {Ask}
AutoOnly == {Auto}

ProductionOnly == {Production}
AllContexts == {Production, CriticalProduction, Simulation, Keyless, Development}

Default == [paused |-> FALSE, autonomy |-> "autonomous"]
DefaultControls == {Default}
ApproveToAct == {[paused |-> FALSE, autonomy |-> "approve_to_act"]}
AllControls == {Default, [paused |-> TRUE, autonomy |-> "autonomous"],
                [paused |-> FALSE, autonomy |-> "suggest"],
                [paused |-> FALSE, autonomy |-> "observe"],
                [paused |-> FALSE, autonomy |-> "approve_to_act"]}
=============================================================================
