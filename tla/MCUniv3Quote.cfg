SPECIFICATION FairQuote
CONSTANTS
    A = A
    B = B
    M = M
    Requests <- MCRequests
    FeeTiers <- MCFeeTiers
    BaseTokens <- MCBaseTokens
    Amounts = {1, 2}
    Slippage = 50
    FeeBips = 100
    QuoterSlots = 2
CHECK_DEADLOCK FALSE
INVARIANTS
    RouteIsBest
    NoRouteExplained
PROPERTIES
    QuoteReturns
