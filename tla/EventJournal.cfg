\* Three trades of two venues: one is never resolved, one may be contradicted and
\* two may be disputed; one fault.
SPECIFICATION LiveSpec
CONSTANTS
    Signatures = {1, 2, 3}
    TradesOf <- MCTradesOf
    Economics = {1, 2}
    Pump = {2, 3}
    NeverKnown <- MCBlocked
    Contradictable <- MCContradictable
    Disputable <- MCDisputable
    BurstLimit = 8
    ChunkRows = 1
    RawScan = 1
    MaxFaults = 1
    MaxTime = 2
INVARIANTS
    JournalSound
    QuarantineHolds
PROPERTIES
    CatchesUp
CHECK_DEADLOCK FALSE
