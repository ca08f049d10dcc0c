\* One source as deployed, or two; two processes on one database.
SPECIFICATION LiveSpec
CONSTANTS
    Signatures = {"b"}
    TradesOf <- MCTradesOf
    Economics = {1, 2}
    Configurations = {1, 2}
    PublicSource = TRUE
    MaxConnectAttempts = 2
    MaxPublicReconnects = 2
    Capacity = 1
    MaxEarly = 1
    MaxArrivals = 3
    MaxConnections = 2
    MaxFailures = 2
    MaxStarts = 2
    MaxTime = 1
INVARIANTS
    NoGapInsideSession
    LaneFitsWriter
PROPERTIES
    CoverageMatchesEvidence
    HeldIsSent
CHECK_DEADLOCK FALSE
