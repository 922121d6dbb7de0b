SPECIFICATION ConnectorSpec
CONSTANTS
  Vendors <- MCVendors
  Forms <- MCForms
  Watches <- MCWatches
  EnvSettings <- MCEnvSettings
  Requests = {r1}
  MaxWrites = 1
  MaxRestarts = 0
INVARIANTS PersistedStateInForce
CHECK_DEADLOCK FALSE
