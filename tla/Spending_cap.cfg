SPECIFICATION MCSpec
CONSTANTS
    c1 = c1
    c2 = c2
    shop = shop
    listed = listed
    NoRecipient = NoRecipient
    Callers <- MCCallers
    Amounts <- MCAmounts
    Rails <- MCRails
    Payees <- MCPayees
    Users <- MCCallers
    Prices <- MCPrices
    ByteCounts <- MCByteCounts
    Recipients <- MCListed
    Blocklist <- MCListed
    Allowlist <- MCPayees
    MaxCap = 2
    MaxPerTransaction = 2
    MaxPerHour = 2
    MaxPerDay = 3
    MaxRequests = 2
    RateWindow = 2
    MaxBytesPerHour = 2
    MaxBytesPerDay = 3
    HourLen = 1
    DayLen = 2
    HasProxy = TRUE
    MaxTime = 1
    MaxClock = 1
    AllowedRegions <- MCPayees
    AllowedIpTypes <- MCPayees
    Places <- MCPlaces
    Unset = Unset
    Figures <- MCFigures
    MaxTotal = 3
INVARIANT NothingSignedOverCap
