SPECIFICATION AllSpec
CONSTANTS
    Chains <- MCChains
    Endpoints = {e1, e2}
    MaxForks = 1
INVARIANTS
    VerdictHolds
    TransfersSettled
    RejectionHolds
    TraceVerdictHolds
PROPERTIES
    PollingEnds
