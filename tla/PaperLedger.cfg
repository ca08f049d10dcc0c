\* One token, partial fills, additions and reductions.
SPECIFICATION Spec
CONSTANTS
    None = None
    m1 = m1
    b1 = b1
    b2 = b2
    s1 = s1
    Latency = 1
    MaxQuoteLag = 1
    SwapFeeBps = 5000
    NetworkFee = 1
    AllowPartialFills = TRUE
    MinPartialPct = 50
    Unit = 2
    Intents <- OneTokenIntents
    Quotes <- OneTokenQuotes
    MarkPrices = {1}
    StartingCash = 11
    MaxResults = 2
    Horizon = 2
INVARIANTS
    LedgerSound
    BooksReconcile
PROPERTIES
    HistoryKept
    ImplementsAccount
