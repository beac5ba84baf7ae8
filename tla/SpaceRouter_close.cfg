SPECIFICATION MCSpec
CONSTANTS
    s1 = s1
    s2 = s2
    Slots <- MCSlots
    MinBalance = 2
    TopUp = 2
    Threshold = 2
    Timed = TRUE
    Wallet = 4
    Funded = 0
    MaxFetches = 3
    MaxSchedulers = 2
    MaxReceipts = 3
    ClaimThreshold = 2
    HasTimer = TRUE
    Withdrawers <- MCSlots
    Sums = {1, 2}
    Lock = 1
    MaxCalls = 4
    MaxDays = 2
CHECK_DEADLOCK FALSE
INVARIANT CloseFlushesAll
