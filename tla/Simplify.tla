------------------------------ MODULE Simplify ------------------------------
(***************************************************************************)
(* simplify_graph (simplify.rs): nodes closer than five metres are merged, *)
(* parallel edges dropped, and chains of nodes that join just two others   *)
(* replaced by one edge.  Seconds are drive times: the walk, bike, length  *)
(* and geometry columns of an edge are added up alike and never compared.  *)
(*                                                                         *)
(* Nodes and edges are numbered in the order petgraph iterates them.  An   *)
(* edge of cost Bad is not in the graph.                                   *)
(***************************************************************************)
EXTENDS ShortestPaths, Sequences

CONSTANT Nears      \* choices of near; near[n]: the nodes found within 5 m of n

\* A node finds itself.  The relation need not be symmetric: the tree is searched
\* in a plane whose x axis is scaled by each node's own latitude.
ASSUME NearAssumption ==
    /\ Node = 1 .. Cardinality(Node)
    /\ Edge = 1 .. Cardinality(Edge)
    /\ \A r \in Nears : \A n \in Node : n \in r[n] /\ r[n] \subseteq Node

VARIABLES
    near,
    turn,       \* the node or edge a loop over indices has reached
    old_to_new, \* the merged node of a node, named by its cluster's seed
    merged,     \* the edges kept in the consolidated graph
    endpoints,  \* the nodes that stay
    left,       \* endpoints whose edges have not been followed
    from,       \* the loop's endpoint
    todo,       \* its edges not followed yet
    added,      \* added_edges
    path,       \* the chain being followed: its edges
    links,      \* the edges of the simplified graph: [from, to, time, path]
    pc          \* "cluster", "merge", "chains", "walk", "done"

vars == <<cost, near, turn, old_to_new, merged, endpoints, left, from, todo,
          added, path, links, pc>>
input == <<cost, near>>
loops == <<left, from, todo>>

\* The ends of an edge of the consolidated graph.
From(e) == old_to_new[Source[e]]
To(e) == old_to_new[Target[e]]

\* Mutant of Outgoing: the incoming edges.
Incoming(n) == {e \in merged : To(e) = n}

\* edges_directed(n, Outgoing).
Outgoing(n) == {e \in merged : From(e) = n}

Successors(n) == {To(e) : e \in Outgoing(n)}
Predecessors(n) == {From(e) : e \in {f \in merged : To(f) = n}}

\* is_endpoint.
IsEndpoint(n) ==
    \/ Successors(n) = {} \/ Predecessors(n) = {}
    \/ n \in Successors(n) \cup Predecessors(n)
    \/ Cardinality(Successors(n) \cup Predecessors(n)) # 2

Members(seed) == {n \in near[seed] : n \notin DOMAIN old_to_new}

\* Mutant of FirstOfPair: edges compared without their direction.
FirstUndirected(e) ==
    /\ Usable(e)
    /\ From(e) # To(e)
    /\ ~\E f \in merged : {From(f), To(f)} = {From(e), To(e)}

\* `new_src == new_dst` is skipped, then `seen_edges.insert(..)`.
FirstOfPair(e) ==
    /\ Usable(e)
    /\ From(e) # To(e)
    /\ ~\E f \in merged : From(f) = From(e) /\ To(f) = To(e)

\* Mutant of Onward: the way back is not excluded.
OnwardOrBack(n, prev) == Outgoing(n)

\* The edges by which a chain may go on from n, not back to prev.
Onward(n, prev) == {e \in Outgoing(n) : To(e) # prev}

\* Mutant of Fastest: the comparison the wrong way round.
Slowest(S) == {l \in S : \A m \in S : m.to = l.to /\ m.from = l.from => m.time <= l.time}

\* The edges that none between the same nodes beats in drive time.
Fastest(S) == {l \in S : \A m \in S : m.to = l.to /\ m.from = l.from => l.time <= m.time}

\* The total of collapse_path_edges.
TotalTime(p) ==
    LET sum[i \in 0 .. Len(p)] == IF i = 0 THEN 0 ELSE sum[i - 1] + cost[p[i]]
    IN  sum[Len(p)]

----------------------------------------------------------------------------

Init ==
    /\ cost \in CostTable
    /\ near \in Nears
    /\ turn = 1
    /\ old_to_new = << >>
    /\ merged = {}
    /\ endpoints = {}
    /\ left = {}
    /\ from = 1
    /\ todo = {}
    /\ added = {}
    /\ path = << >>
    /\ links = {}
    /\ pc = "cluster"

\* cluster_nodes_by_distance, one node: unless it is in a cluster already, it
\* seeds one of all unassigned nodes near it.
Cluster ==
    /\ pc = "cluster"
    /\ turn \in Node
    /\ old_to_new' =
         IF turn \in DOMAIN old_to_new THEN old_to_new
         ELSE [n \in DOMAIN old_to_new \cup Members(turn) |->
                 IF n \in DOMAIN old_to_new THEN old_to_new[n] ELSE turn]
    /\ turn' = turn + 1
    /\ UNCHANGED <<input, merged, endpoints, loops, added, path, links, pc>>

Clustered ==
    /\ pc = "cluster"
    /\ turn \notin Node
    /\ turn' = 1
    /\ pc' = "merge"
    /\ UNCHANGED <<input, old_to_new, merged, endpoints, loops, added, path, links>>

\* consolidate_intersections, one edge.
Merge ==
    /\ pc = "merge"
    /\ turn \in Edge
    /\ merged' = IF FirstOfPair(turn) THEN merged \cup {turn} ELSE merged
    /\ turn' = turn + 1
    /\ UNCHANGED <<input, old_to_new, endpoints, loops, added, path, links, pc>>

\* The endpoints of the consolidated graph.
Survey ==
    /\ pc = "merge"
    /\ turn \notin Edge
    /\ endpoints' = {n \in {old_to_new[m] : m \in Node} : IsEndpoint(n)}
    /\ left' = endpoints'
    /\ pc' = "chains"
    /\ UNCHANGED <<input, turn, old_to_new, merged, from, todo, added, path, links>>

\* `for &endpoint in &endpoints`: the order of a HashSet.
NextEndpoint ==
    /\ pc = "chains"
    /\ todo = {}
    /\ \E n \in left :
        /\ from' = n
        /\ todo' = Outgoing(n)
        /\ left' = left \ {n}
    /\ UNCHANGED <<input, turn, old_to_new, merged, endpoints, added, path, links, pc>>

\* The next edge of the endpoint: skipped if an edge to its other end was added
\* already, be it for a chain that ended there; followed otherwise.
Begin(e) ==
    /\ pc = "chains"
    /\ e \in todo
    /\ todo' = todo \ {e}
    /\ IF <<from, To(e)>> \in added
         THEN UNCHANGED <<path, pc>>
         ELSE path' = <<e>> /\ pc' = "walk"
    /\ UNCHANGED <<input, turn, old_to_new, merged, endpoints, left, from, added, links>>

Current == To(path[Len(path)])
Previous == From(path[Len(path)])

\* build_path, one turn: next_chain_step finds the one way on, or the path ends
\* off the endpoints and is dropped.
Walk ==
    LET onward == Onward(Current, Previous) IN
    /\ pc = "walk"
    /\ Current \notin endpoints
    /\ IF Cardinality({To(e) : e \in onward}) = 1
         THEN /\ \E e \in onward : /\ \A f \in onward : cost[e] <= cost[f]
                                   /\ path' = Append(path, e)
              /\ pc' = "walk"
         ELSE path' = << >> /\ pc' = "chains"
    /\ UNCHANGED <<input, turn, old_to_new, merged, endpoints, loops, added, links>>

\* The path has reached an endpoint: collapse_path_edges and add_edge.
Arrive ==
    /\ pc = "walk"
    /\ Current \in endpoints
    /\ links' = links \cup
         {[from |-> from, to |-> Current, time |-> TotalTime(path), path |-> path]}
    /\ added' = added \cup {<<from, Current>>}
    /\ path' = << >>
    /\ pc' = "chains"
    /\ UNCHANGED <<input, turn, old_to_new, merged, endpoints, loops>>

\* deduplicate_edges: of several fastest edges the one added first stays, and
\* that depends on the order of the endpoints.
Dedup ==
    /\ pc = "chains"
    /\ todo = {} /\ left = {}
    /\ \E best \in SUBSET Fastest(links) :
        /\ \A l \in links : Cardinality({m \in best : m.from = l.from /\ m.to = l.to}) = 1
        /\ links' = best
    /\ pc' = "done"
    /\ UNCHANGED <<input, turn, old_to_new, merged, endpoints, loops, added, path>>

Next ==
    \/ Cluster \/ Clustered \/ Merge \/ Survey
    \/ NextEndpoint \/ (\E e \in Edge : Begin(e)) \/ Walk \/ Arrive \/ Dedup

Spec == Init /\ [][Next]_vars

----------------------------------------------------------------------------

TypeOK ==
    /\ turn \in Nat
    /\ DOMAIN old_to_new \subseteq Node
    /\ \A n \in DOMAIN old_to_new : old_to_new[n] \in Node
    /\ merged \subseteq {e \in Edge : Usable(e)}
    /\ endpoints \subseteq Node /\ left \subseteq endpoints
    /\ from \in Nat
    /\ todo # {} \/ pc = "walk" => from \in endpoints
    /\ todo \subseteq {e \in merged : From(e) = from}
    /\ added \subseteq endpoints \X endpoints
    /\ path \in Seq(merged)
    /\ links \subseteq [from : endpoints, to : endpoints, time : Nat, path : Seq(merged)]
    /\ pc \in {"cluster", "merge", "chains", "walk", "done"}

\* A chain never comes to a node twice, except that it may end where it began:
\* so build_path's loop ends, on circular roads too, which it only enters at an
\* endpoint.
ChainIsSimple ==
    pc = "walk" =>
        /\ \A i, j \in 1 .. Len(path) : From(path[i]) = From(path[j]) => i = j
        /\ \A i \in 1 .. Len(path) : Current = From(path[i]) => Current \in endpoints

\* The links of the consolidated graph.
Consolidated == {[from |-> From(e), to |-> To(e), time |-> cost[e]] : e \in merged}

\* The links of the input with the members of a cluster joined at no cost.
Joined ==
    {[from |-> old_to_new[l.from], to |-> old_to_new[l.to], time |-> l.time] : l \in Links}

\* Between the nodes that stay, simplification neither loses nor invents a
\* connection, beyond joining the nodes of a cluster: not by a dropped edge, an
\* abandoned chain or a skipped one, in whatever order endpoints are visited.
ConnectionsKept ==
    pc = "done" => \A n \in endpoints :
        DOMAIN LinkTimes(endpoints, links, n)
            = DOMAIN LinkTimes(Node, Joined, n) \cap endpoints

\* Between the nodes that stay, no travel time gets shorter than in the
\* consolidated graph, and none gets longer but for an edge that was skipped
\* because a slower chain had ended where it leads.
TimesKept ==
    pc = "done" =>
        LET lost == {e \in merged :
                       /\ From(e) \in endpoints /\ To(e) \in endpoints
                       /\ ~\E l \in links : l.from = From(e) /\ l.to = To(e) /\ l.time <= cost[e]}
        IN  \A n \in endpoints :
              LET before == LinkTimes(Node, Consolidated, n)
                  after == LinkTimes(endpoints, links, n)
              IN  \A m \in DOMAIN after : /\ after[m] >= before[m]
                                          /\ lost = {} => after[m] = before[m]

=============================================================================
