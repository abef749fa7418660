------------------------------ MODULE Routing ------------------------------
(***************************************************************************)
(* One route query between two snapped nodes (routing.rs): the A* search   *)
(* of shortest_path_edges, the walk back along the predecessors, and the   *)
(* measuring of the edges found.                                           *)
(*                                                                         *)
(* The estimate of the remaining time is the straight-line distance at     *)
(* 200 km/h.  Gap[n][m] is that time between two nodes.                    *)
(***************************************************************************)
EXTENDS ShortestPaths, Sequences

CONSTANTS
    Gap,        \* straight-line time at 200 km/h between two nodes
    Queries     \* the pairs <<origin, dest>> of snapped nodes

ASSUME GapAssumption ==
    /\ Gap \in [Node -> [Node -> Nat]]
    /\ \A n \in Node : Gap[n][n] = 0
    /\ \A l, m, n \in Node : Gap[l][n] <= Gap[l][m] + Gap[m][n]
    /\ Queries \subseteq Node \X Node

VARIABLES
    origin,
    dest,
    best,           \* cheapest cost found per node, a partial function
    predecessor,    \* the edge that gave a node its best cost
    heap,           \* entries [total, cost, node]
    popped,         \* the entry being handled
    todo,           \* edges of popped.node not visited yet
    current,        \* the walk back: where it has got to
    edges,          \* the edges found, in travel order
    times,          \* cumulative_times_s after each measured edge
    pc              \* "pop", "relax", "trace", "measure", "found", "none",
                    \* "panic"

vars == <<cost, origin, dest, best, predecessor, heap, popped, todo, current,
          edges, times, pc>>
query == <<cost, origin, dest>>
search == <<best, predecessor, heap, popped, todo>>
answer == <<current, edges, times>>

\* dist / (200.0 / 3.6).
Heuristic(n) == Gap[n][dest]

Entry(c, n) == [total |-> c + Heuristic(n), cost |-> c, node |-> n]

\* Mutant of Improves: equal costs replace a label.
ImprovesOrEquals(n, c) == n \in DOMAIN best => c <= best[n]

\* `c < *best.get(&n).unwrap_or(&INFINITY)`.
Improves(n, c) == n \in DOMAIN best => c < best[n]

\* Mutant of Cheapest: entries ordered by the estimate alone.
Nearest == {h \in heap : \A g \in heap : Heuristic(h.node) <= Heuristic(g.node)}

\* What BinaryHeap::pop may return: Ord compares estimated totals alone.
Cheapest == {h \in heap : \A g \in heap : h.total <= g.total}

\* Mutant of WithEarlier: edges.reverse() forgotten.
WithLater(e) == Append(edges, e)

\* edges.push(e), with the final edges.reverse() folded in.
WithEarlier(e) == <<e>> \o edges

----------------------------------------------------------------------------

Init ==
    /\ cost \in CostTable
    /\ \E q \in Queries : origin = q[1] /\ dest = q[2]
    /\ best = Put(<< >>, origin, 0)
    /\ predecessor = << >>
    /\ popped = Entry(0, origin)
    /\ heap = {popped}
    /\ todo = {}
    /\ current = dest
    /\ edges = << >>
    /\ times = << >>
    /\ pc = "pop"

\* One turn of `while let Some(..) = heap.pop()` up to the relaxations: skip a
\* superseded entry, stop at the destination, or visit the node's edges.
Pop ==
    /\ pc = "pop"
    /\ \E h \in Cheapest :
        /\ heap' = heap \ {h}
        /\ popped' = h
        /\ IF h.cost > best[h.node]
             THEN pc' = "pop" /\ todo' = {}
             ELSE IF h.node = dest
                    THEN pc' = "trace" /\ todo' = {}
                    ELSE pc' = "relax" /\ todo' = OutEdges(h.node)
    /\ UNCHANGED <<query, best, predecessor, answer>>

Relax(e) ==
    LET c == popped.cost + cost[e] IN
    /\ pc = "relax"
    /\ e \in todo
    /\ todo' = todo \ {e}
    /\ IF Usable(e) /\ Improves(Target[e], c)
         THEN /\ best' = Put(best, Target[e], c)
              /\ predecessor' = Put(predecessor, Target[e], e)
              /\ heap' = heap \cup {Entry(c, Target[e])}
         ELSE UNCHANGED <<best, predecessor, heap>>
    /\ UNCHANGED <<query, popped, answer, pc>>

NextTurn ==
    /\ pc = "relax"
    /\ todo = {}
    /\ pc' = "pop"
    /\ UNCHANGED <<query, search, answer>>

\* heap.pop() returned None: the query ends in PathNotFound.
Exhausted ==
    /\ pc = "pop"
    /\ heap = {}
    /\ pc' = "none"
    /\ UNCHANGED <<query, search, answer>>

\* `while current != origin`: predecessor[&current] panics on a missing key.
StepBack ==
    /\ pc = "trace"
    /\ current # origin
    /\ IF current \in DOMAIN predecessor
         THEN /\ edges' = WithEarlier(predecessor[current])
              /\ current' = Source[predecessor[current]]
              /\ pc' = "trace"
         ELSE pc' = "panic" /\ UNCHANGED <<edges, current>>
    /\ UNCHANGED <<query, search, times>>

AtOrigin ==
    /\ pc = "trace"
    /\ current = origin
    /\ pc' = "measure"
    /\ UNCHANGED <<query, search, answer>>

Duration == IF times = << >> THEN 0 ELSE times[Len(times)]

\* route_geometry_and_times, one edge: the last point of the edge gets the
\* exact running sum.  The points inside an edge are left out.
Measure ==
    /\ pc = "measure"
    /\ Len(times) < Len(edges)
    /\ times' = Append(times, Duration + cost[edges[Len(times) + 1]])
    /\ UNCHANGED <<query, search, current, edges, pc>>

Return ==
    /\ pc = "measure"
    /\ Len(times) = Len(edges)
    /\ pc' = "found"
    /\ UNCHANGED <<query, search, answer>>

Next ==
    \/ Pop \/ (\E e \in Edge : Relax(e)) \/ NextTurn \/ Exhausted
    \/ StepBack \/ AtOrigin \/ Measure \/ Return

Spec == Init /\ [][Next]_vars

\* The query runs on one thread and nothing blocks it.
FairSpec == Spec /\ WF_vars(Next)

----------------------------------------------------------------------------

TypeOK ==
    /\ cost \in [Edge -> Nat \cup {Bad}]
    /\ origin \in Node
    /\ dest \in Node
    /\ DOMAIN best \subseteq Node
    /\ \A n \in DOMAIN best : best[n] \in Nat
    /\ DOMAIN predecessor \subseteq DOMAIN best
    /\ \A n \in DOMAIN predecessor : predecessor[n] \in Edge
    /\ heap \cup {popped} \subseteq [total : Nat, cost : Nat, node : DOMAIN best]
    /\ todo \subseteq {e \in Edge : Source[e] = popped.node}
    /\ current \in Node
    /\ edges \in Seq(Edge)
    /\ times \in Seq(Nat)
    /\ pc \in {"pop", "relax", "trace", "measure", "found", "none", "panic"}

\* The predecessor table stays a tree rooted at the origin while labels are
\* replaced and nodes reopened: no group of nodes lies on a cycle of
\* predecessors, zero-cost edges included, so the walk back from any node ends
\* at the origin.
PredecessorsLeadToOrigin ==
    \A S \in SUBSET DOMAIN predecessor :
        S # {} => \E n \in S : Source[predecessor[n]] \notin S

\* Every labelled node but the origin has a predecessor, whose label explains
\* its own: it can only have been lowered since.
PredecessorsExplainLabels ==
    \A n \in DOMAIN best \ {origin} :
        /\ n \in DOMAIN predecessor
        /\ Usable(predecessor[n])
        /\ Target[predecessor[n]] = n
        /\ Source[predecessor[n]] \in DOMAIN best
        /\ best[Source[predecessor[n]]] + cost[predecessor[n]] <= best[n]

\* The labels and their predecessors are a tree at all times, reopened nodes
\* included: what `predecessor[&current]` and the loop of the walk back rely on.
LabelsFormTree == PredecessorsLeadToOrigin /\ PredecessorsExplainLabels

\* predecessor[&current] finds its key at every step of the walk back.
NoMissingPredecessor == pc # "panic"

\* The walk back does not panic, and the answer is a path of the graph from the
\* origin to the destination that visits no node twice.  The duration returned
\* is measured on the path and not the search's cost: it may be less, when a
\* node of the path was improved after the destination's label was set, and is
\* never more.
AnswerIsAPath ==
    /\ NoMissingPredecessor
    /\ pc = "found" =>
         /\ edges = << >> => origin = dest
         /\ edges # << >> => Source[edges[1]] = origin /\ Target[edges[Len(edges)]] = dest
         /\ \A i \in 1 .. Len(edges) - 1 : Target[edges[i]] = Source[edges[i + 1]]
         /\ \A i, j \in 1 .. Len(edges) : Source[edges[i]] = Source[edges[j]] => i = j
         /\ Duration <= popped.cost

\* No edge is faster than 200 km/h in a straight line between its ends.
SpeedsCapped ==
    \A e \in Edge : Usable(e) => Gap[Source[e]][Target[e]] <= cost[e]

\* The shortest travel times from the origin.
Shortest == ShortestTimes(origin)

\* "runs A* to find the optimal path" (routing.rs:261), "with an admissible
\* straight-line heuristic" (docs/index.md:56): the duration returned is the
\* shortest travel time.
RouteIsShortest == pc = "found" => Duration = Shortest[dest]

\* The duration returned is the shortest travel time whenever no edge beats the
\* 200 km/h the estimate supposes.
RouteIsShortestIfCapped == SpeedsCapped => RouteIsShortest

\* PathNotFound is returned exactly when there is no path.
NotFoundMeansNoPath ==
    /\ pc = "none" => dest \notin DOMAIN Shortest
    /\ pc = "found" => dest \in DOMAIN Shortest

\* The search ends, and so does the walk back.
Terminates == <>(pc \in {"found", "none"})

=============================================================================
