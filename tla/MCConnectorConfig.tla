-------------------------- MODULE MCConnectorConfig --------------------------
EXTENDS ConnectorConfig

MCVendors == {"prometheus", "splunk"}

Fill(field, raw) == [field |-> field, raw |-> raw]

\* A required field filled and blanked, one of a group filled, a blank secret,
\* and a form that is refused after its first field.
MCForms ==
  [prometheus |-> {<<Fill("url", "one")>>, <<Fill("url", "blank")>>},
   splunk |-> {<<Fill("token", "one"), Fill("password", "blank")>>,
               <<Fill("token", "other"), Fill("port", "malformed")>>}]

MCWatches == {{}, {"checkout"}}

\* The environment enables ingestion of the simulator.
MCEnvSettings ==
  [values |-> [f \in Fields |-> IF f \in {"host", "port"} THEN "one" ELSE "blank"],
   modes |-> {}, watch |-> {"checkout"}, dry |-> TRUE, enabled |-> TRUE]

=============================================================================
