SPECIFICATION FairTrade
CONSTANTS
    Requests <- MCRequests
    Offers <- MCOffers
    FromUsd = 100
    Amount = 2
    SlippagePct = 50
    MaxFeeLimit = 2
    ProtocolMax = 3
INVARIANTS
    RecommendedIsBest
    ReasonExplains
    RouteBounded
    FateTold
PROPERTIES
    SwapEnds
CHECK_DEADLOCK FALSE
