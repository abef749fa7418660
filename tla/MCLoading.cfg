SPECIFICATION LoadSpec
CONSTANTS
    NoSnaps = NoSnaps
    Within <- MCWithin
    Prefixed <- MCPrefixed
    NumericPrefix <- MCNumericPrefix
    Mph <- MCMph
    Files <- MCFiles
    Calls <- MCCalls
INVARIANTS
    LoadTypeOK
    SameGraphFromEverySource
    DirectionsKept
    EdgesUsable
    PanicsOnlyOnClippedWays
CHECK_DEADLOCK FALSE
