--------------------------- MODULE MCFeasibility ---------------------------
(***************************************************************************)
(* Trips on four nodes: from o to m and n, between m and n both ways, from *)
(* n on to d, and from d back to m.                                        *)
(***************************************************************************)
EXTENDS Feasibility

CONSTANTS o, m, n, d

MCNode == {o, m, n, d}
MCEdge == {"om", "mn", "nm", "nd", "on", "dm"}

MCSource == [e \in MCEdge |->
    CASE e \in {"om", "on"} -> o [] e = "mn" -> m [] e = "dm" -> d [] OTHER -> n]
MCTarget == [e \in MCEdge |->
    CASE e \in {"om", "nm", "dm"} -> m [] e = "nd" -> d [] OTHER -> n]

MCCosts == [e \in MCEdge |-> {0, 1, 4, Bad}]
MCTrips == {<<o, d>>, <<o, o>>, <<d, n>>}

=============================================================================
