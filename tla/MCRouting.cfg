SPECIFICATION FairSpec
CONSTANTS
    o = o
    p = p
    q = q
    d = d
    Bad = Bad
    Node <- MCNode
    Edge <- MCEdge
    Source <- MCSource
    Target <- MCTarget
    Costs <- MCCosts
    Gap <- MCGap
    Queries <- MCQueries
INVARIANTS
    TypeOK
    LabelsFormTree
    AnswerIsAPath
    RouteIsShortestIfCapped
    NotFoundMeansNoPath
PROPERTIES
    Terminates
CHECK_DEADLOCK FALSE
