SPECIFICATION MCSpec
CONSTANTS
    a1 = a1
    a2 = a2
    s1 = s1
    s2 = s2
    Auths <- MCAuths
    Signed <- MCSigned
    Slots <- MCSlots
    None = None
    MaxLost = 1
    MaxLate = 1
    MaxRestarts = 1
    MorphTries = 2
    MorphTimeout = 1
    SponsorWait = 2
    HmacSkew = 1
    AuthWindow = 3
    MaxMorphTime = 4
    GaslessPays = {p1, p2}
    Jobs = {j1, j2, j3}
    NoPay = NoPay
    Validity = 1
    MaxChainTime = 1
    StartFunds = 1
    m1 = m1
    m2 = m2
    m3 = m3
    r1 = r1
    r2 = r2
    Mints <- MCMints
    Redeems <- MCRedeems
    NoMint = NoMint
    AmountOf <- MCAmountOf
    MintFees <- MCMintFees
    RedeemFees <- MCRedeemFees
    Denominator = 10000
    Lot = 2
    StartXrp = 7
    StartFxrp = 4
    Window = 1
    PollBlocks = 2
    MaxHeight = 4
    MaxMintDrops = 1
    FlarePays = {q1, q2}
    Deliveries = {d1, d2, d3}
    NoFlarePay = NoFlarePay
    Prices = {1, 2}
    StartToken = 2
    AuthValidity = 1
    MaxFlareTime = 1
SYMMETRY MCSymmetry
INVARIANTS
    
    TypesOK
    
    BridgeHolds
    
CHECK_DEADLOCK FALSE
PROPERTY SuccessMeansCharged
