SPECIFICATION Spec
CONSTANTS
    Bad = Bad
    Node <- MCNode
    Edge <- MCEdge
    Source <- MCSource
    Target <- MCTarget
    Costs <- MCCosts
    Nears <- MCNears
INVARIANTS
    TypeOK
    ChainIsSimple
    ConnectionsKept
    TimesKept
CHECK_DEADLOCK FALSE
