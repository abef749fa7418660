----------------------------- MODULE MCRouting -----------------------------
(***************************************************************************)
(* Routing on four nodes in the plane: o, two ways round through p and q,  *)
(* which are joined both ways, and d.  Distances are rounded so that the   *)
(* triangle inequality holds.  The edges through q may be faster than the  *)
(* straight line at 200 km/h.                                              *)
(***************************************************************************)
EXTENDS Routing

CONSTANTS o, p, q, d

MCNode == {o, p, q, d}
MCEdge == {"op", "oq", "pq", "qp", "pd", "qd", "po"}

MCSource == [e \in MCEdge |->
    CASE e \in {"op", "oq"} -> o
      [] e \in {"pq", "pd", "po"} -> p
      [] OTHER -> q]

MCTarget == [e \in MCEdge |->
    CASE e \in {"op", "qp"} -> p
      [] e \in {"oq", "pq"} -> q
      [] e = "po" -> o
      [] OTHER -> d]

MCGap ==
    LET far == {{o, d}}
    IN  [m \in MCNode |-> [n \in MCNode |->
            IF m = n THEN 0 ELSE IF {m, n} \in far THEN 3
            ELSE IF {m, n} = {p, q} THEN 1 ELSE 2]]

MCCosts == [e \in MCEdge |->
    CASE e \in {"op", "pd"} -> {2, 4, Bad}
      [] e \in {"oq", "qd"} -> {0, 3, Bad}
      [] e = "po" -> {0, 2}
      [] OTHER -> {0, 1, Bad}]

MCQueries == {<<o, d>>, <<p, q>>, <<d, d>>, <<d, o>>}

=============================================================================
