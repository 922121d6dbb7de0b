SPECIFICATION ComponentsSpec
CONSTANTS
  Vendors <- MCVendors
  Forms <- MCForms
  Watches <- MCWatches
  EnvSettings <- MCEnvSettings
  Requests = {r1, r2}
  MaxWrites = 2
  MaxRestarts = 3
  Polled <- MCPolled
  Watched <- MCWatched
  Publishing <- MCPublishing
  Window = 2
  Step = 2
  Staleness = 2
  MinSamples = 1
  QueueCapacity = 2
  MaxConcurrent = 1
  OverflowAt = 2
  MaxClock = 3
  Threshold = 75
  Budget = 5
  Costs = {0, 2, 3}
  Confidences = {74, 75, 101}
  BatchSize = 2
  Payloads <- MCPayloads
  MaxDeliveries = 3
  VerifierAdapters <- MCVerifierAdapters
  Readings <- MCReadings
  Stabilization = 1
  Lookback = 1
  MaxIntervals = 3
  Pipelines = {p1, p2}
  AutoLimit = 1
  Hour = 1
  MaxTicks = 3
  MaxAutoRuns = 6
  MaxAutoCrashes = 1
  Titles <- MCTitles
  Versions <- MCVersions
  Flagged <- MCFlagged
  GuardOnIngest = TRUE
  Tasks = {k1, k2}
  PerLeg = 1
  Batch = 2
  Limits = {2, 5}
  MaxIngests = 2
  Candidates = {1, 2, 3}
  RerankWeight = 1
  PerLegLimit = 3
  TopK = 2
  BM25Scores = {0, 1, 2}
  Affected <- MCAffected
  MaxServices = 2
  Metrics <- MCMetrics
  AdapterSets <- MCAdapterSets
  Experts <- MCExperts
  DefaultExpert = "application"
  RawHypotheses <- MCRawHypotheses
  RawConfidences = {95, 101}
  Diagnoses = {d1, d2}
  MaxPools = 3
  Cases <- MCCases
  Specialists <- MCSpecialists
  RequiredRoles <- MCRequiredRoles
  Variants = {"relevant_plus_stale_report"}
  SaveEvery = 2
  MaxReportRuns = 2
  MaxSyntheses = 3
INVARIANTS
  ComponentsTypeOK
  LeakNeedsOverlap
  RunningAsConfigured
  SettingsMatchFile
  BaselineGoesForward
  PassedByLessThanAStep
  OvershootIsOneCall
  RedeliveryRepeatsNothing
  AcceptedLeavesNoneOut
  RecoveryWasObserved
  HourlyLimit
  ScoresNeedCrossing
  ServedIsVetted
  FusionRespectsLegs
  GapsAreNamed
  ConfidenceIsGrounded
  PoolsLostBySetupOnly
  ComparisonsAreCurrent
PROPERTIES
  AcceptedActivationRuns
  NewestExamined
  EscalationsEnd
  OnlyFailedLeftUnscored
  SavedResultsSurvive
CHECK_DEADLOCK FALSE
