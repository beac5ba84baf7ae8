SPECIFICATION MCSpec
CONSTANTS
    s1 = s1
    s2 = s2
    m1 = m1
    m2 = m2
    c1 = c1
    c2 = c2
    c3 = c3
    sess = sess
    j1 = j1
    j2 = j2
    v1 = v1
    v2 = v2
    v3 = v3
    d1 = d1
    d2 = d2
    d3 = d3
    d4 = d4
    q1 = q1
    q2 = q2
    a1 = a1
    a2 = a2
    h1 = h1
    h2 = h2
    u1 = u1
    ClientSlots <- MCSlots
    ServerSlots <- MCSlots
    Amounts <- MCAmounts
    MaxCumulative = 3
    MaxServed = 4
    Milestones <- MCMilestones
    Slots <- MCSlots
    MaxFunds = 2
    None = None
    ToolCalls <- MCToolCalls
    ToolSessions <- MCToolSessions
    NoSession = NoSession
    SessionBudget = 3
    SessionTtl = 1
    BasePrice = 1
    SurgePrice = 2
    SurgeThreshold = 1
    DemandWindow = 1
    MaxToolTime = 2
    Jobs <- MCJobs
    Verdicts <- MCVerdicts
    NoJob = NoJob
    Contexts <- MCContexts
    RootBudget = 5
    MaxDepth = 2
    HopPercent = 60
    BatchBudget = 3
    StreamBudget = 4
    MaxPerInterval = 2
    Usages <- MCAmounts
    Budgets <- MCBudgets
    Totals <- MCTotals
    MandateTtl = 1
    MaxMandateTime = 2
    OffCalls <- MCOffCalls
    Named <- MCNamed
    DefaultAnchors <- MCDefaultAnchors
    CustomAnchor = a2
    Serving <- MCServing
    Publications <- MCPublications
    MaxChanges = 1
    NoAnchor = NoAnchor
    Depositors <- MCDepositors
    Unbonded <- MCUnbonded
    VaultAmounts <- MCAmounts
    OtherSupply = 2
    Treasury = 10
    PtWeights <- MCPtWeights
    FlashFees <- MCFlashFees
    MaxDeposited = 3
    Registries <- MCRegistries
    Facts <- MCFacts
    Graphs <- MCGraphs
    NodeIds = {"a", "b", "c", "d"}
CHECK_DEADLOCK FALSE
INVARIANTS
    TypesOK
    ServedOnce
    ClosePaysSigned
    VouchersAddUp
    ReleasedMeansPaid
    
    
    
    
PROPERTY OutcomesStick
