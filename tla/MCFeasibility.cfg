SPECIFICATION Spec
CONSTANTS
    o = o
    m = m
    n = n
    d = d
    Bad = Bad
    NaN = NaN
    Node <- MCNode
    Edge <- MCEdge
    Source <- MCSource
    Target <- MCTarget
    Costs <- MCCosts
    Trips <- MCTrips
    Budgets = {0, 2, 5, NaN}
INVARIANTS
    TypeOK
    PrismIsExact
    PrismIsConnected
CHECK_DEADLOCK FALSE
