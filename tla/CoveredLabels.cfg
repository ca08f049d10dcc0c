\* What the labelling commands write beside the observer.
SPECIFICATION Spec
CONSTANTS
    t1 = t1
    t2 = t2
    Trades <- MCTrades
    MarketOf <- MCMarketOf
    Horizons = {1}
    MaxSessions = 3
    MaxTime = 3
SYMMETRY Same
INVARIANTS
    LabelsSound
    ConflictsAreExplained
PROPERTY
    PopulationIsWhole
CHECK_DEADLOCK FALSE
