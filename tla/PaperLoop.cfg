\* Two tokens, entries and exits over a few cycles.
SPECIFICATION Spec
CONSTANTS
    None = None
    m1 = m1
    m2 = m2
    Latency = 0
    MaxQuoteLag = 1
    SwapFeeBps = 2500
    NetworkFee = 1
    AllowPartialFills = TRUE
    MinPartialPct = 50
    Unit = 1
    MaxHold = 2
    HardStop = 50
    TrailActivation = 50
    TrailDrawdown = 25
    TakeProfits <- ExitLevels
    Mints = {m1, m2}
    CandidateLists <- BothCandidates
    QuoteKinds <- BothQuotes
    Observations <- BothObservations
    MaxPositions = 2
    MaxRisk = 14
    TargetNotional = 8
    MaxSlippage = 100
    StartingCash = 30
    MinStep = 1
    Horizon = 4
INVARIANTS
    LoopConsistent
    ExposureBounded
    KillSwitchForcesExit
    ExitExecutes
PROPERTIES
    ExitMemoryKept
    OneEntryPerCycle
