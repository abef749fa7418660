SPECIFICATION FairSpec
CONSTANTS
    s = s
    a = a
    b = b
    t = t
    Bad = Bad
    Pending = Pending
    Node <- MCNode
    Edge <- MCEdge
    Source <- MCSource
    Target <- MCTarget
    Costs <- MCCosts
    Budgets <- MCBudgets
    Starts = {s}
INVARIANTS
    TypeOK
PROPERTIES
    ImplementsTimeTable
    SettledIsFinal
    Terminates
CHECK_DEADLOCK FALSE
