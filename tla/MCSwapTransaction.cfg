SPECIFICATION PreviewSpec
CONSTANTS
    AmountsIn = {5}
    QuotedAmounts <- MCQuoted
    MarketAmounts <- MCMarket
    FeeRates = {0, 100}
    PermitValues = {4, 5, 9}
    Slippage = 50
    DeadlineTTL = 1
    MaxNonce = 1
    MaxClock = 3
    MaxMulticallDepth = 2
    MaxLevels = 4
    Hashes = {"a", "b"}
    DefaultDeadlineTTL = 3
    Calldata <- MCCalldata
CHECK_DEADLOCK FALSE
INVARIANTS
    UserProtected
    AttachedFailsForReason
    
