SPECIFICATION Spec
CONSTANTS
    Chains <- MCChains
    Endpoints = {e1, e2}
    MaxForks = 0
    MaxRuns = 2
    MaxPolls = 2
CHECK_DEADLOCK FALSE
SYMMETRY MCSymmetry
INVARIANTS
    PaidOnce
    AnchorFits
