\* One token; the service crashes and the operator acts between any two steps.
SPECIFICATION CampaignSpec
CONSTANTS
    None = None
    m1 = m1
    Latency = 1
    MaxQuoteLag = 1
    SwapFeeBps = 2500
    NetworkFee = 1
    AllowPartialFills = TRUE
    MinPartialPct = 50
    Unit = 1
    MaxHold = None
    HardStop = 50
    TrailActivation = 50
    TrailDrawdown = 25
    TakeProfits <- CampaignLevels
    Mints = {m1}
    CandidateLists <- CampaignCandidates
    QuoteKinds <- CampaignQuotes
    Observations <- CampaignObservations
    MaxPositions = 1
    MaxRisk = 8
    TargetNotional = 8
    MaxSlippage = 100
    StartingCash = 12
    MinStep = 1
    Horizon = 5
INVARIANTS
    CheckpointSound
PROPERTIES
    CheckpointsAreCycles
    HaltStopsApprovals
