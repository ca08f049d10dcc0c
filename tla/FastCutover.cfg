\* One tool at a time; any of its steps fails, the host dies once.
SPECIFICATION CutoverFairSpec
CONSTANTS
  Releases <- TwoReleases
  FirstRelease = "r1"
  FinalRuns <- TwoFinalRuns
  NoRelease = "none"
  MaxBooks = 3
  MaxFaults = 2
  MaxCrashes = 1
  MaxAttempts = 3
  MaxUndoFaults = 1
  OneToolAtATime = TRUE
INVARIANTS
    HostConsistent
    RecoveryAssessable
    AuthorityHoldsTheBooks
PROPERTIES
    LegacyNeverReturns
    OperationResumes
CHECK_DEADLOCK FALSE
