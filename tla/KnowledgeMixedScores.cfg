SPECIFICATION KnowledgeSpec
CONSTANTS
  Titles <- MCTitles
  Versions <- MCVersions
  Flagged <- MCFlagged
  GuardOnIngest = TRUE
  Tasks = {k1, k2}
  PerLeg = 1
  Batch = 1
  Limits = {5}
  MaxIngests = 2
INVARIANTS ScoreIsOfContent
CHECK_DEADLOCK FALSE
