------------------------------ MODULE MCViews ------------------------------
(***************************************************************************)
(* Views of a graph of four nodes far from the meridian of Greenwich, two  *)
(* on each of two parallels, with parallel edges and a node that is a dead *)
(* end for some trips.  The units of place are exaggerated: 0.01 radians of *)
(* latitude, half as much of longitude, at the parallel where the cosine is *)
(* 0.8; the distortion of the index does not depend on the scale.          *)
(***************************************************************************)
EXTENDS Views

CONSTANTS a, b, c, d

MCNode == {a, b, c, d}
MCEdge == {"ab", "ab2", "bc", "bd", "ca", "cb", "dc"}
MCSource == [e \in MCEdge |-> CASE e \in {"ab", "ab2"} -> a [] e \in {"bc", "bd"} -> b
                                [] e \in {"ca", "cb"} -> c [] OTHER -> d]
MCTarget == [e \in MCEdge |-> CASE e \in {"ab", "ab2", "cb"} -> b [] e \in {"bc", "dc"} -> c
                                [] e = "ca" -> a [] OTHER -> d]
MCCosts == [e \in MCEdge |-> CASE e = "ab" -> {3} [] e = "ab2" -> {2, 4}
                                [] e = "bc" -> {2, 6} [] e = "bd" -> {1}
                                [] e = "ca" -> {1, 3} [] e = "cb" -> {2} [] OTHER -> {4}]

MCDegree == 2000
MCCosine == [l \in {0, 1} |-> IF l = 0 THEN 800 ELSE 794]
MCPosition == [n \in MCNode |-> CASE n = a -> <<0, -403>> [] n = c -> <<0, -396>>
                                  [] n = b -> <<1, -400>> [] OTHER -> <<1, -398>>]
MCPlaces == {<<0, -400>>, <<1, -400>>, <<0, -396>>}
MCPoi == [p \in {"cafe", "museum", "park"} |->
            CASE p = "cafe" -> <<1, -400>> [] p = "museum" -> <<0, -396>>
              [] OTHER -> <<0, -400>>]

\* A region small enough for the box around a start to be wide enough.
ASSUME RegionAssumption == CosinesClose

=============================================================================
