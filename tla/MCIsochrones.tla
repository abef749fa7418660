---------------------------- MODULE MCIsochrones ----------------------------
(***************************************************************************)
(* Isochrones of nine nodes: six on the rim of the surface, three inside,  *)
(* two of which share a cell.  No four points lie on a circle.             *)
(***************************************************************************)
EXTENDS Isochrones

MCNode == 1 .. 9
MCPosition == [n \in MCNode |->
    LET at == <<<<0, 0>>, <<6, -1>>, <<12, 0>>, <<11, 4>>, <<5, 5>>, <<-1, 4>>,
                <<2, 2>>, <<9, 2>>, <<2, 2>>>>[n]
    IN  <<4 * at[1], 4 * at[2]>>]

\* The search starts from one of the inner nodes; 9 is over every budget.  Node
\* 9 differs from node 7, whose place it shares.
MCTravels ==
    {[n \in MCNode |-> CASE n \in 1 .. 6 -> rim[n] [] n = 8 -> 0 [] OTHER -> inner[n]] :
       rim \in UNION {[1 .. 6 -> T] : T \in {{0, 4}, {2, 4}, {4, 9}}},
       inner \in {f \in [{7, 9} -> {0, 2, 4, 9}] : f[7] # f[9]}}

MCRequests == {[limits |-> <<4, 2>>, budget |-> 4]}
              \cup {[limits |-> <<NaN>>, budget |-> b] : b \in {0, NaN}}

\* A slow node in the middle of fast ones, and one far away on the rim.
MCPocket == {[n \in MCNode |-> IF n \in {7, 9, 3} THEN 4 ELSE 0]}

=============================================================================
