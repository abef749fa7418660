SPECIFICATION Spec
CONSTANTS
    a = a
    b = b
    c = c
    d = d
    Bad = Bad
    NoLimit = NoLimit
    NoSnaps = NoSnaps
    NoView = NoView
    NoAnswer = NoAnswer
    Node <- MCNode
    Edge <- MCEdge
    Source <- MCSource
    Target <- MCTarget
    Costs <- MCCosts
    Position <- MCPosition
    Places <- MCPlaces
    Poi <- MCPoi
    PoiLists = {{"cafe", "museum", "park"}, {"park"}}
    Degree <- MCDegree
    Cosine <- MCCosine
    MaxSpeed = 2000
    Budgets = {2, 4, Bad}
    Limits = {2200, NoLimit}
INVARIANTS
    TypeOK
    ViewTimesHold
    AnswersAgree
    PoisMatchView
