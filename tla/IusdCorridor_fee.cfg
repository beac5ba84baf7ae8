SPECIFICATION MCSpec
CONSTANTS
    c1 = c1
    c2 = c2
    k1 = k1
    w1 = w1
    w2 = w2
    x1 = x1
    x2 = x2
    x3 = x3
    b1 = b1
    b2 = b2
    sa = sa
    sb = sb
    d1 = d1
    d2 = d2
    pa = pa
    NoKey = NoKey
    Callers <- MCCallers
    Keys <- MCKeys
    Targets <- MCTargets
    AcquireMaxHour = 2
    AcquireMaxDay = 3
    HourLen = 1
    DayLen = 2
    Window = 1
    MaxBalance = 1
    MaxTime = 2
    Swaps <- MCSwaps
    TargetOf <- MCTargetOf
    Rates <- MCRates
    SlippageBps = 2000
    StartPeg = 4
    QuoteTtl = 1
    MaxPathTime = 2
    Pegins <- MCPegins
    IntentOf <- MCIntentOf
    Tampered <- MCTampered
    Choosers <- MCChoosers
    Partners <- MCPartners
    Wanted = 1
    SwapCosts <- MCSwapCosts
    Routers <- MCRouters
    PathSets <- MCPathSets
    IusdPays <- MCIusdPays
    PriceOf <- MCPriceOf
    Sources <- MCSources
    Nowhere = Nowhere
    StartUsdc <- MCStartUsdc
    StartIusd = 0
    StartAusd = 0
    RouteFee = 1
    Hooked = TRUE
    LayerZero = TRUE
INVARIANT BridgesWhatIsRequired
CHECK_DEADLOCK FALSE
