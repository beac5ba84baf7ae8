SPECIFICATION MCSpec
CONSTANTS
    i1 = i1
    i2 = i2
    p1 = p1
    p2 = p2
    t1 = t1
    t2 = t2
    t3 = t3
    s1 = s1
    s2 = s2
    Invoices <- MCInvoices
    Pinned <- MCPinned
    Payments <- MCPayments
    Slots <- MCSlots
    Ttl = 1
    SettlesAgain = FALSE
    None = None
    MaxTime = 2
    MaxIssued = 2
    MaxRestarts = 1
    Txs <- MCTxs
    Matching <- MCMatching
    Verifications <- MCSlots
    MaxBlockAge = 1
    NoTx = NoTx
    MaxBlock = 4
    MaxReboots = 1
    Configs <- MCConfigs
    Merchants <- MCMerchants
    MaxAttempts = 2
    x1 = x1
    a1 = a1
    a2 = a2
    WalletOps <- MCSlots
    LifeCalls <- MCSlots
    LifeKinds <- MCLifeKinds
    Settles <- MCSlots
    Authorizations <- MCAuthorizations
    Records <- MCTxs
    Agents <- MCAgents
    Spellings = {"lower", "mixed"}
    Thresholds <- MCThresholds
    Rates = {0, 99, 100, 400}
    Par = 100
    MaxSlippage = 1
    Shrink = 2
    Visits = {s1}
    Tiers = {0, 1}
    MinTier = 1
    MaxAge = 1
    Validity = 3
    MaxKyaTime = 3
    SettleCalls <- MCSlots
    Routings <- MCRoutings
    Sources = {0, 7, 101, 112}
    Tolerances = {0, 3, 10}
    Whole = 100
    StellarDecimals = 2
    Tens <- MCTens
    StellarAmounts = {0, 7, 100, 111}
    MaxLookups = 3
CHECK_DEADLOCK FALSE
INVARIANT CeloWins
