---------------------------- MODULE ShortestPaths ----------------------------
(***************************************************************************)
(* Shortest travel times over the edges of the graph.                      *)
(***************************************************************************)
EXTENDS RoadGraph, Walks

\* The usable edges of the graph as links.
Links ==
    {[from |-> Source[e], to |-> Target[e], time |-> cost[e]] :
        e \in {f \in Edge : cost[f] # Bad}}

\* The shortest travel times from a node, for the nodes that have one.
ShortestTimes(start) == LinkTimes(Node, Links, start)

=============================================================================
