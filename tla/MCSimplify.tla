----------------------------- MODULE MCSimplify -----------------------------
(***************************************************************************)
(* Five nodes: two junctions 1 and 2, joined directly and by a road over 3 *)
(* and 4 in both directions, and a node 5 that may be within five metres   *)
(* of 1.  An edge of cost Bad is absent, so the runs cover the sub-graphs. *)
(***************************************************************************)
EXTENDS Simplify

MCNode == 1 .. 5

Ends == <<<<1, 2>>, <<1, 3>>, <<3, 1>>, <<3, 4>>, <<4, 3>>, <<4, 2>>, <<2, 4>>,
          <<5, 1>>, <<5, 2>>, <<1, 2>>>>

MCEdge == 1 .. Len(Ends)
MCSource == [e \in MCEdge |-> Ends[e][1]]
MCTarget == [e \in MCEdge |-> Ends[e][2]]
MCCosts == [e \in MCEdge |-> CASE e = 1 -> {1, 5, Bad} [] e = 10 -> {2, Bad} [] OTHER -> {1, Bad}]

Apart == [n \in MCNode |-> {n}]
MCNears == {Apart, [Apart EXCEPT ![1] = {1, 5}], [Apart EXCEPT ![5] = {1, 5}]}

=============================================================================
