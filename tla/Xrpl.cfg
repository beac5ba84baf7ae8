SPECIFICATION MCSpec
CONSTANTS
    owner1 = owner1
    owner2 = owner2
    stranger = stranger
    reader = reader
    p1 = p1
    p2 = p2
    p3 = p3
    w1 = w1
    Callers <- MCCallers
    Signing <- MCSigning
    Foreign <- MCForeign
    LineTtl = 1
    MaxTecs = 1
    NoCaller = NoCaller
    MaxLineTime = 2
    MaxDrops = 1
    MaxSent = 4
    Pays <- MCPays
    Sweepers <- MCSweepers
    Need <- MCNeed
    Balances <- MCBalances
    Supplies <- MCSupplies
    MinIdle = 1
    CacheTtl = 1
    Debounce = 1
    None = None
    MaxTime = 1
    MaxLost = 1
    MaxMoney = 9
    c1 = c1
    c2 = c2
    Tasks <- MCTasks
    Rescue <- MCRescue
    KeepIdle = 0
    MinXrp = 1
    CreateCost = 1
    NoId = NoId
    TxHash = TxHash
    Prices <- MCPrices
    Outs <- MCOuts
    Bps <- MCBps
    QuoteTtl = 1
    MostVaults = 2
    MostCash = 1
    MostXrp = 2
    MostGlitches = 1
    MostRefusals = 1
    MostCrashes = 1
    MostHours = 3
CHECK_DEADLOCK FALSE
INVARIANTS
    
    UncoveredOnlyByDebit
PROPERTIES
    SwapsOnlyShortage
    QueueMoves
