--------------------------- MODULE MCReachability ---------------------------
(***************************************************************************)
(* Reachability on four nodes: two routes from s that cross, meet at t and *)
(* return to s.  An edge of cost Bad is an edge the search ignores, so the *)
(* runs cover the sub-graphs as well.                                      *)
(***************************************************************************)
EXTENDS Reachability

CONSTANTS s, a, b, t

MCNode == {s, a, b, t}
MCEdge == {"sa", "sb", "ab", "ba", "at", "bt", "ts"}

MCSource == [e \in MCEdge |->
    CASE e \in {"sa", "sb"} -> s
      [] e \in {"ab", "at"} -> a
      [] e \in {"ba", "bt"} -> b
      [] OTHER -> t]

MCTarget == [e \in MCEdge |->
    CASE e \in {"sa", "ba"} -> a
      [] e \in {"sb", "ab"} -> b
      [] e \in {"at", "bt"} -> t
      [] OTHER -> s]

MCCosts == [e \in MCEdge |-> {0, 1, 3, Bad}]
MCBudgets == {4, Bad}

=============================================================================
