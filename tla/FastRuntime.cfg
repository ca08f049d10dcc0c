\* Three markets, two of one mint, two records and two deaths of the process.
SPECIFICATION LiveSpec
CONSTANTS
    m1 = m1
    m2 = m2
    m3 = m3
    Markets = {m1, m2, m3}
    Mints = {{m1, m2}, {m3}}
    None = None
    MaxFeed = 2
    FeedUntil = 1
    MaxTime = 4
    Latency = 1
    QuoteLag = 1
    MaxCrashes = 2
INVARIANTS
    DecisionsFit
PROPERTIES
    ImplementsTrader
    WorkResolves
CHECK_DEADLOCK FALSE
