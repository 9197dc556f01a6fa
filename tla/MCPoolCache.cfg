SPECIFICATION FairSpec
CONSTANTS
    q1 = q1
    q2 = q2
    p1 = p1
    p2 = p2
    Nil = Nil
    Quotes = {q1, q2}
    Pools = {p1, p2}
    Wanted <- MCWanted
    TTL = 2
    Timeout = 1
    MaxSlots = 1
    MaxClock = 2
CHECK_DEADLOCK FALSE
INVARIANTS
    SingleFlight
PROPERTIES
    ImplementsOracle
    LookupsReturn
