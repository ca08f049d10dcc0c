\* Two commands on two releases; two steps fail, one command or the host dies.
SPECIFICATION LiveSpec
CONSTANTS
    Managers = {m1, m2}
    ReleaseNames = {r1, r2}
    Nothing = Nothing
    MaxFailures = 2
    MaxDeaths = 1
INVARIANTS
    HostRuns
PROPERTIES
    CompleteStays
    FailedStagingRetryable
