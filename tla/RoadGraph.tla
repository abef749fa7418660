------------------------------ MODULE RoadGraph ------------------------------
(***************************************************************************)
(* The directed multigraph every search of the crate walks: petgraph's     *)
(* DiGraph with one travel time per edge.                                  *)
(*                                                                         *)
(* Seconds are naturals.  Bad stands for the floats a search refuses: NaN, *)
(* a negative number, and for an edge also infinity.                       *)
(***************************************************************************)
EXTENDS Naturals, FiniteSets

CONSTANTS
    Node,       \* NodeIndex values of the graph
    Edge,       \* EdgeIndex values; parallel edges and self-loops allowed
    Source,       \* Source[e] is the edge's source
    Target,       \* Target[e] is the edge's target
    Bad,        \* a float that is no usable cost or budget
    Costs       \* Costs[e]: the travel times edge e may have

ASSUME GraphAssumption ==
    /\ Source \in [Edge -> Node]
    /\ Target \in [Edge -> Node]

ASSUME FiniteAssumption == IsFiniteSet(Node) /\ IsFiniteSet(Edge)

ASSUME NumberAssumption ==
    /\ Bad \notin Nat
    /\ \A e \in Edge : Costs[e] \subseteq Nat \cup {Bad}

VARIABLE
    cost        \* the travel time of each edge, fixed during a search

CostTable == {f \in [Edge -> UNION {Costs[e] : e \in Edge}] :
                 \A e \in Edge : f[e] \in Costs[e]}

\* Mutant of OutEdges: the incoming edges, as in edges_directed(n, Incoming).
InEdges(n) == {e \in Edge : Target[e] = n}

\* DiGraph::edges(n): the outgoing edges, in an order no caller relies on.
OutEdges(n) == {e \in Edge : Source[e] = n}

\* Mutant of Usable: `edge_cost <= 0.0` in the place of `< 0.0`.
UsableAndPositive(e) == cost[e] # Bad /\ cost[e] # 0

\* `edge_cost.is_finite() && edge_cost >= 0.0`.
Usable(e) == cost[e] # Bad

\* HashMap::insert.
Put(f, k, v) == [x \in DOMAIN f \cup {k} |-> IF x = k THEN v ELSE f[x]]

\* at and c describe a walk of k usable edges from a node: the nodes it visits
\* and the cost of each of its prefixes.
IsWalk(from, k, at, c) ==
    /\ k \in Nat
    /\ at \in [0 .. k -> Node]
    /\ c \in [0 .. k -> Nat]
    /\ at[0] = from /\ c[0] = 0
    /\ \A i \in 0 .. k - 1 : \E e \in Edge :
         /\ Usable(e) /\ Source[e] = at[i] /\ Target[e] = at[i + 1]
         /\ c[i + 1] = c[i] + cost[e]

=============================================================================
