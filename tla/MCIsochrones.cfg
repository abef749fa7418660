SPECIFICATION FairSpec
CONSTANTS
    NaN = NaN
    Node <- MCNode
    Position <- MCPosition
    Travels <- MCTravels
    Requests <- MCRequests
INVARIANTS
    TypeOK
    LargestRingIsKept
    EnclosesInnerRegion
PROPERTIES
    Returns
CHECK_DEADLOCK FALSE
