SPECIFICATION FairSpec
CONSTANTS
    NaN = NaN
    Node <- MCNode
    Position <- MCPosition
    Travels <- MCPocket
    Requests <- MCRequests
INVARIANT EnclosesReachable
CHECK_DEADLOCK FALSE
