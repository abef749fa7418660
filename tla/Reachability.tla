---------------------------- MODULE Reachability ----------------------------
(***************************************************************************)
(* One call of compute_reachability_with (reachability.rs): a Dijkstra     *)
(* search with a budget over a directed multigraph.  The binary heap is    *)
(* never updated in place, so it may hold superseded entries, which the    *)
(* loop recognises when it pops them.                                      *)
(***************************************************************************)
EXTENDS RoadGraph

CONSTANTS
    Budgets,    \* the values of max_cost a caller may pass
    Starts      \* the nodes a search may start from

ASSUME CallAssumption ==
    /\ Budgets \subseteq Nat \cup {Bad}
    /\ Starts \subseteq Node

VARIABLES
    start,      \* the argument start
    maxCost,    \* the argument max_cost
    distances,  \* the HashMap from nodes to seconds, a partial function
    heap,       \* entries [cost, node]
    nodeCost,   \* the loop's node_cost
    node,       \* the loop's node
    todo,       \* edges of graph.edges(node) not visited yet
    pc          \* "pop", "relax", "done"

vars == <<cost, start, maxCost, distances, heap, nodeCost, node, todo, pc>>
input == <<cost, start, maxCost>>

\* Mutant of Improves: an equal cost counts as an improvement.
ImprovesOrEquals(n, c) == n \in DOMAIN distances => c <= distances[n]

\* `c < *distances.get(&n).unwrap_or(&INFINITY)`.
Improves(n, c) == n \in DOMAIN distances => c < distances[n]

\* `node_cost > *distances.get(&node).unwrap_or(&INFINITY)`.
Superseded(h) == h.node \in DOMAIN distances /\ h.cost > distances[h.node]

\* Mutant of Cheapest: SearchState's order with self and other swapped.
Dearest == {h \in heap : \A g \in heap : g.cost <= h.cost}

\* What BinaryHeap::pop may return: Ord compares costs alone, in reverse, so
\* among equal costs the order is unspecified.
Cheapest == {h \in heap : \A g \in heap : h.cost <= g.cost}

\* Mutant of WithinBudget: the test made strict.
BelowBudget(c) == c < maxCost

\* ~(next_cost > max_cost).
WithinBudget(c) == c <= maxCost

----------------------------------------------------------------------------

Init ==
    /\ cost \in CostTable
    /\ start \in Starts
    /\ maxCost \in Budgets
    /\ nodeCost = 0
    /\ node = start
    /\ todo = {}
    /\ \/ /\ maxCost = Bad
          /\ distances = << >>
          /\ heap = {}
          /\ pc = "done"
       \/ /\ maxCost # Bad
          /\ distances = Put(<< >>, start, 0)
          /\ heap = {[cost |-> 0, node |-> start]}
          /\ pc = "pop"

\* One turn of `while let Some(..) = heap.pop()` up to the inner loop.
Pop ==
    /\ pc = "pop"
    /\ \E h \in Cheapest :
        /\ heap' = heap \ {h}
        /\ nodeCost' = h.cost
        /\ node' = h.node
        /\ IF ~WithinBudget(h.cost)
             THEN pc' = "done" /\ todo' = {}
             ELSE IF Superseded(h)
                    THEN pc' = "pop" /\ todo' = {}
                    ELSE pc' = "relax" /\ todo' = OutEdges(h.node)
    /\ UNCHANGED <<input, distances>>

\* One turn of the inner loop.
Relax(e) ==
    /\ pc = "relax"
    /\ e \in todo
    /\ todo' = todo \ {e}
    /\ IF /\ Usable(e)
          /\ WithinBudget(nodeCost + cost[e])
          /\ Improves(Target[e], nodeCost + cost[e])
         THEN /\ distances' = Put(distances, Target[e], nodeCost + cost[e])
              /\ heap' = heap \cup
                    {[cost |-> nodeCost + cost[e], node |-> Target[e]]}
         ELSE UNCHANGED <<distances, heap>>
    /\ UNCHANGED <<input, nodeCost, node, pc>>

\* The inner loop is over.
NextTurn ==
    /\ pc = "relax"
    /\ todo = {}
    /\ pc' = "pop"
    /\ UNCHANGED <<input, distances, heap, nodeCost, node, todo>>

\* heap.pop() returned None.
Exhausted ==
    /\ pc = "pop"
    /\ heap = {}
    /\ pc' = "done"
    /\ UNCHANGED <<input, distances, heap, nodeCost, node, todo>>

Next == Pop \/ (\E e \in Edge : Relax(e)) \/ NextTurn \/ Exhausted

Spec == Init /\ [][Next]_vars

\* The call runs on one thread and nothing blocks it.
FairSpec == Spec /\ WF_vars(Next)

\* The call as its caller sees it: no table before the return, then the table.
CONSTANT Pending
ASSUME PendingAssumption == \A S \in SUBSET Node : Pending \notin [S -> Nat]

answer == IF pc = "done" THEN distances ELSE Pending
Caller == INSTANCE TimeTable
            WITH cost <- cost, start <- start, maxCost <- maxCost, answer <- answer

\* The search implements its contract: it delivers the table of shortest travel
\* times within the budget, once, and nothing else (TimeTable).
ImplementsTimeTable == Caller!TTSpec

----------------------------------------------------------------------------

Entry == [cost : Nat, node : Node]

TypeOK ==
    /\ cost \in [Edge -> Nat \cup {Bad}]
    /\ start \in Node
    /\ maxCost \in Nat \cup {Bad}
    /\ DOMAIN distances \subseteq Node
    /\ distances \in [DOMAIN distances -> Nat]
    /\ heap \subseteq Entry
    /\ nodeCost \in Nat
    /\ node \in Node
    /\ todo \subseteq {e \in Edge : Source[e] = node}
    /\ pc \in {"pop", "relax", "done"}

\* The edge e leads from a label to another label that is exactly its cost
\* further away.
Tight(e) ==
    /\ Usable(e)
    /\ Source[e] \in DOMAIN distances
    /\ Target[e] \in DOMAIN distances
    /\ distances[Target[e]] = distances[Source[e]] + cost[e]

\* Every label is the cost of a real walk from the start, also in the middle of
\* the search and although labels are replaced: no group of labels is justified
\* only by its own members (a cycle of zero-cost edges, say), because some
\* tight edge enters it from an expanded node outside.
Supported ==
    \A S \in SUBSET (DOMAIN distances \ {start}) :
        S # {} => \E e \in Edge :
                    /\ Tight(e)
                    /\ Target[e] \in S
                    /\ Source[e] \notin S
                    /\ distances[Source[e]] <= nodeCost

\* The labels beyond e's target account for the walk that ends with e.
Accounted(e) ==
    Usable(e) /\ WithinBudget(distances[Source[e]] + cost[e]) =>
        /\ Target[e] \in DOMAIN distances
        /\ distances[Target[e]] <= distances[Source[e]] + cost[e]

\* The result misses nothing: when the search ends, the walk that extends a
\* labelled node by one edge is over the budget or no better than the label at
\* its end, whatever was pushed, superseded and skipped on the way.
Complete ==
    pc = "done" /\ maxCost # Bad =>
        /\ start \in DOMAIN distances /\ distances[start] = 0
        /\ \A e \in Edge : Source[e] \in DOMAIN distances => Accounted(e)

\* "every node reachable within max_cost (inclusive)" (reachability.rs:19): no
\* label is over the budget, and so is no heap entry, which makes the loop's
\* `break` unreachable.
Bounded ==
    /\ \A n \in DOMAIN distances : distances[n] <= maxCost
    /\ \A h \in heap : h.cost <= maxCost

\* Dijkstra's invariant behind the lazy deletion: a pop never goes back in
\* time, and the label of a node at or below the current cost is final.
SettledIsFinal ==
    [][ /\ nodeCost <= nodeCost'
        /\ \A n \in DOMAIN distances :
             /\ n \in DOMAIN distances'
             /\ distances[n] <= nodeCost => distances'[n] = distances[n]
      ]_vars

\* The search ends, zero-cost cycles included.
Terminates == <>(pc = "done")

=============================================================================
