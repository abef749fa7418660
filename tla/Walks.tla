-------------------------------- MODULE Walks --------------------------------
(***************************************************************************)
(* Shortest travel times by enumerating the walks of bounded length: the   *)
(* reference the searches are compared with.  A link is a record [from,    *)
(* to, time] between nodes of N.  Times are not negative, so walks with    *)
(* fewer links than N has nodes are enough.                                *)
(***************************************************************************)
EXTENDS Naturals, FiniteSets, FiniteSetsExt

\* One link more: W[n] holds the times of some walks to n.
Longer(N, links, W) ==
    [n \in N |-> W[n] \cup
        UNION {{c + l.time : c \in W[l.from]} : l \in {m \in links : m.to = n}}]

\* WalkTimes(N, links, start)[k][n]: the times of the walks of at most k links
\* from start to n.
WalkTimes(N, links, start) ==
    LET walks[k \in 0 .. Cardinality(N)] ==
          IF k = 0
            THEN [n \in N |-> IF n = start THEN {0} ELSE {}]
            ELSE Longer(N, links, walks[k - 1])
    IN  walks

\* The shortest times from a node over a set of links, for the nodes of N that
\* have one.
LinkTimes(N, links, start) ==
    LET times == WalkTimes(N, links, start)[Cardinality(N) - 1]
    IN  [n \in {m \in N : times[m] # {}} |-> Min(times[n])]

\* at and c describe a walk of k links from start: the nodes it visits and the
\* time of each of its prefixes.
LinkWalk(N, links, start, k, at, c) ==
    /\ k \in Nat
    /\ at \in [0 .. k -> N]
    /\ c \in [0 .. k -> Nat]
    /\ at[0] = start /\ c[0] = 0
    /\ \A i \in 0 .. k - 1 : \E l \in links :
         l.from = at[i] /\ l.to = at[i + 1] /\ c[i + 1] = c[i] + l.time

=============================================================================
