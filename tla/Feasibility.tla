---------------------------- MODULE Feasibility ----------------------------
(***************************************************************************)
(* One call of compute_feasibility_with (feasibility.rs): the nodes that   *)
(* can be visited between an origin and a destination within a budget, by  *)
(* petgraph's dijkstra from the origin, dijkstra on the reversed graph     *)
(* from the destination, and the intersection of the two tables.           *)
(*                                                                         *)
(* Bad is an infinite travel time: petgraph, unlike the crate's own        *)
(* searches, takes it for a cost like any other.  Sums of finite times are *)
(* exact here; those of floats are rounded.                                *)
(***************************************************************************)
EXTENDS ShortestPaths

CONSTANTS
    Trips,      \* the pairs <<origin, destination>>
    Budgets,    \* the values of available_time
    NaN

ASSUME FeasibilityAssumption ==
    /\ Trips \subseteq Node \X Node
    /\ Budgets \subseteq Nat \cup {NaN}
    /\ NaN \notin Nat /\ NaN # Bad

VARIABLES
    origin,
    destination,
    available,  \* available_time
    forward,    \* travel times from the origin, a partial function
    backward,   \* travel times to the destination, a partial function
    feasible,   \* node -> [inbound, outbound, slack], a partial function
    todo,       \* the nodes of forward not looked at yet
    pc          \* "forward", "backward", "intersect", "ok", "no path",
                \* "too tight"

vars == <<cost, origin, destination, available, forward, backward, feasible, todo, pc>>
input == <<cost, origin, destination, available>>

Sum(a, b) == IF a = Bad \/ b = Bad THEN Bad ELSE a + b

\* a < b and a > b of floats; the second is for a budget b.
Less(a, b) == a # Bad /\ (b = Bad \/ a < b)
Over(a, b) == b # NaN /\ (a = Bad \/ a > b)

\* Every edge as a link, and the same for Reversed(graph).
Arcs == {[from |-> Source[e], to |-> Target[e], time |-> cost[e]] : e \in Edge}
ReversedArcs == {[from |-> Target[e], to |-> Source[e], time |-> cost[e]] : e \in Edge}

\* Mutant of BackwardArcs: the second search forgets to reverse the graph.
NotReversed == Arcs

BackwardArcs == ReversedArcs

Finite(arcs) == {a \in arcs : a.time # Bad}

\* Nodes that some walk leads to, whatever it costs.
Reached(arcs, start) ==
    DOMAIN LinkTimes(Node, {[a EXCEPT !.time = 0] : a \in arcs}, start)

\* petgraph::algo::dijkstra without a goal: a time for each node that can be
\* reached, which is infinite when no walk to it avoids the infinite arcs.
Dijkstra(arcs, start) ==
    LET times == LinkTimes(Node, Finite(arcs), start)
    IN  [n \in Reached(arcs, start) |-> IF n \in DOMAIN times THEN times[n] ELSE Bad]

----------------------------------------------------------------------------

Init ==
    /\ cost \in CostTable
    /\ \E trip \in Trips : origin = trip[1] /\ destination = trip[2]
    /\ available \in Budgets
    /\ forward = << >>
    /\ backward = << >>
    /\ feasible = << >>
    /\ todo = {}
    /\ pc = "forward"

\* The search from the origin and the two early returns after it.
SearchForward ==
    /\ pc = "forward"
    /\ forward' = Dijkstra(Arcs, origin)
    /\ pc' = IF destination \notin DOMAIN forward' THEN "no path"
             ELSE IF Over(forward'[destination], available) THEN "too tight"
             ELSE "backward"
    /\ UNCHANGED <<input, backward, feasible, todo>>

SearchBackward ==
    /\ pc = "backward"
    /\ backward' = Dijkstra(BackwardArcs, destination)
    /\ todo' = DOMAIN forward
    /\ pc' = "intersect"
    /\ UNCHANGED <<input, forward, feasible>>

\* Mutant of Fits: the comparison made strict.
FitsWithSlack(total) == available # NaN /\ Less(total, available)

\* `total <= available_time`.
Fits(total) == available # NaN /\ ~Over(total, available)

\* Mutant of Slack: the difference the wrong way round.
Excess(n) == Sum(forward[n], backward[n]) - available

\* `available_time - total`.
Slack(n) == available - Sum(forward[n], backward[n])

\* One turn of `for (&node, &inbound) in &forward`, in the order of a HashMap.
Intersect(n) ==
    /\ pc = "intersect"
    /\ n \in todo
    /\ todo' = todo \ {n}
    /\ IF /\ ~Over(forward[n], available)
          /\ n \in DOMAIN backward
          /\ Fits(Sum(forward[n], backward[n]))
         THEN feasible' = Put(feasible, n, [inbound |-> forward[n],
                                            outbound |-> backward[n],
                                            slack |-> Slack(n)])
         ELSE UNCHANGED feasible
    /\ UNCHANGED <<input, forward, backward, pc>>

Return ==
    /\ pc = "intersect"
    /\ todo = {}
    /\ pc' = "ok"
    /\ UNCHANGED <<input, forward, backward, feasible, todo>>

Next == SearchForward \/ SearchBackward \/ (\E n \in Node : Intersect(n)) \/ Return

Spec == Init /\ [][Next]_vars

----------------------------------------------------------------------------

Time == Nat \cup {Bad}

TypeOK ==
    /\ cost \in [Edge -> Time]
    /\ origin \in Node /\ destination \in Node
    /\ available \in Nat \cup {NaN}
    /\ DOMAIN forward \subseteq Node /\ DOMAIN backward \subseteq Node
    /\ \A n \in DOMAIN forward : forward[n] \in Time
    /\ \A n \in DOMAIN backward : backward[n] \in Time
    /\ DOMAIN feasible \subseteq DOMAIN forward \cap DOMAIN backward
    /\ \A n \in DOMAIN feasible :
         feasible[n] \in [inbound : Nat, outbound : Nat, slack : Nat]
    /\ todo \subseteq DOMAIN forward
    /\ pc \in {"forward", "backward", "intersect", "ok", "no path", "too tight"}

\* The module's header (feasibility.rs:6-16): the prism is the nodes whose
\* shortest inbound and outbound times fit the budget, with those times, and
\* there is an error exactly when the trip itself does not fit.
PrismIsExact ==
    LET from == ShortestTimes(origin)
        way == [v \in {u \in Node : destination \in DOMAIN ShortestTimes(u)} |->
                  ShortestTimes(v)[destination]]
        inside == {v \in DOMAIN from \cap DOMAIN way : from[v] + way[v] <= available}
    IN  pc \in {"ok", "no path", "too tight"} /\ available # NaN =>
          /\ pc = "ok" <=> inside # {}
          /\ pc = "no path" => destination \notin DOMAIN from
          /\ feasible = [v \in inside |->
               [inbound |-> from[v], outbound |-> way[v],
                slack |-> available - (from[v] + way[v])]]

\* Every feasible node can be visited on its labels' times without leaving the
\* prism: an edge leads to it from a feasible node as early as the label says,
\* and another on to a feasible node, unless it is the end itself.
PrismIsConnected ==
    pc = "ok" =>
        \A n \in DOMAIN feasible :
          /\ n # origin => \E e \in Edge :
               /\ Target[e] = n /\ Source[e] \in DOMAIN feasible
               /\ Sum(feasible[Source[e]].inbound, cost[e]) = feasible[n].inbound
          /\ n # destination => \E e \in Edge :
               /\ Source[e] = n /\ Target[e] \in DOMAIN feasible
               /\ Sum(feasible[Target[e]].outbound, cost[e]) = feasible[n].outbound

=============================================================================
