-------------------------------- MODULE Views --------------------------------
(***************************************************************************)
(* A program that holds one SpatialGraph and asks it for views: the part   *)
(* reachable from a point, and the network-time prism of a trip.  A view   *)
(* is a clone of the graph with the labels of one search; a route or an    *)
(* isochrone asked of the view runs on the copy that materialize builds.   *)
(*                                                                         *)
(* Searches are used by their contracts (modules TimeTable, Routing with   *)
(* capped speeds, Feasibility with exact sums).                            *)
(***************************************************************************)
EXTENDS ShortestPaths, Integers

CONSTANTS
    Position,   \* node -> <<lat, lon>>
    Places,     \* the coordinates callers ask about
    Poi,        \* POI id -> <<lat, lon>>
    PoiLists,   \* the sets of POIs a caller has snapped
    Degree,     \* the length of one unit of latitude
    Cosine,     \* Cosine[l] is the length of one unit of longitude at latitude l
    MaxSpeed,   \* 120 km/h as length per second
    Budgets,    \* seconds, or Bad
    Limits,     \* max_snap_m
    NoLimit,    \* None, or NaN
    NoSnaps,    \* poi_snaps is None
    NoView, NoAnswer

\* The times of a graph built from OSM are finite (Loading!EdgesUsable).
ASSUME TimesAssumption == \A e \in Edge : Costs[e] \subseteq Nat

ASSUME PlaceAssumption ==
    /\ Position \in [Node -> Int \X Int]
    /\ Degree \in Nat /\ MaxSpeed \in Nat
    /\ \A n \in Node : Cosine[Position[n][1]] \in Nat

ASSUME QuestionAssumption ==
    /\ PoiLists \subseteq SUBSET DOMAIN Poi
    /\ Budgets \subseteq Nat \cup {Bad}
    /\ Limits \subseteq Nat \cup {NoLimit}

VARIABLES
    sg,         \* the SpatialGraph: [nodes, edges, snaps]
    view,       \* the ReachableGraph or PrismGraph
    answer      \* what the call returned that the caller looks at

vars == <<cost, sg, view, answer>>

----------------------------------------------------------------------------

\* Longitudes are scaled by the cosine of their own latitude.
spatial_index_point(p) == <<Degree * p[1], Cosine[p[1]] * p[2]>>

\* distance_2 of the R-tree.
distance_2(p, q) ==
    LET x == spatial_index_point(p)
        y == spatial_index_point(q)
    IN  (x[1] - y[1]) * (x[1] - y[1]) + (x[2] - y[2]) * (x[2] - y[2])

\* The square of calculate_distance, the haversine formula at small scale.
calculate_distance_2(p, q) ==
    Degree * Degree * (p[1] - q[1]) * (p[1] - q[1])
      + Cosine[p[1]] * Cosine[q[1]] * (p[2] - q[2]) * (p[2] - q[2])

\* snap_point: among equals any node of the graph g.
snap_point(g, at) ==
    {n \in g.nodes : \A m \in g.nodes : distance_2(at, Position[n]) <= distance_2(at, Position[m])}

TooFar(at, n, limit) ==
    limit # NoLimit /\ calculate_distance_2(at, Position[n]) > limit * limit

\* The edges of a graph as links.
LinksOf(g) == {[from |-> Source[e], to |-> Target[e], time |-> cost[e]] : e \in g.edges}

\* The shortest times inside a graph, from a node and to a node.
TimesFrom(g, n) == LinkTimes(g.nodes, LinksOf(g), n)
TimesTo(g, n) ==
    LinkTimes(g.nodes, {[from |-> l.to, to |-> l.from, time |-> l.time] :
                          l \in LinksOf(g)}, n)

\* compute_reachability.
reachability(g, start, budget) ==
    LET T == TimesFrom(g, start)
    IN  [n \in {m \in DOMAIN T : budget # Bad /\ T[m] <= budget} |-> T[n]]

\* Mutant of NewSnaps: the copy takes over the snaps of the graph it is made of.
SnapsOfGraph(g) == g.snaps

\* SpatialGraph::new has no POI snaps.
NewSnaps(g) == NoSnaps

\* Mutant of EdgesWithin: update_edge in the place of add_edge keeps one of the
\* edges between two nodes.
OneEdgeWithin(g, N) ==
    LET ends(e) == <<Source[e], Target[e]>>
    IN  {e \in g.edges : /\ Source[e] \in N /\ Target[e] \in N
                         /\ e = CHOOSE f \in g.edges : ends(f) = ends(e)}

\* The edges with both ends in N.
EdgesWithin(g, N) == {e \in g.edges : Source[e] \in N /\ Target[e] \in N}

\* reachable_subgraph and prism_subgraph, given the labelled nodes.
Subgraph(g, N) == [nodes |-> N, edges |-> EdgesWithin(g, N), snaps |-> NewSnaps(g)]

\* Mutant of materialize: the nodes whose label is the whole budget are left out.
WithTimeLeft(v) ==
    Subgraph(v.graph, {n \in DOMAIN v.labels :
                         IF v.kind = "prism" THEN v.labels[n].slack > 0
                         ELSE v.labels[n] < v.budget})

materialize(v) == Subgraph(v.graph, DOMAIN v.labels)

\* to_geojson and its parts: the labelled nodes and the edges between them, here
\* without a copy.
reachable_features(v) ==
    [times |-> v.labels,
     edges |-> {e \in v.graph.edges : {Source[e], Target[e]} \subseteq DOMAIN v.labels}]
prism_features(v) ==
    [inbound |-> [n \in DOMAIN v.labels |-> v.labels[n].inbound],
     outbound |-> [n \in DOMAIN v.labels |-> v.labels[n].outbound],
     edges |-> {e \in v.graph.edges : {Source[e], Target[e]} \subseteq DOMAIN v.labels}]

\* The graphs a caller can reach.
Graph(name) == CASE name = "sg" -> sg [] name = "clone" -> view.graph
                 [] OTHER -> materialize(view)
Graphs == {"sg"} \cup (IF view = NoView THEN {} ELSE {"clone", "copy"})

----------------------------------------------------------------------------

Init ==
    /\ cost \in CostTable
    /\ sg = [nodes |-> Node, edges |-> Edge, snaps |-> NoSnaps]
    /\ view = NoView
    /\ answer = NoAnswer

\* Clones made before keep the snaps they have.
snap_pois(P) ==
    /\ answer = NoAnswer
    /\ \E snap \in [IF sg.nodes = {} THEN {} ELSE P -> sg.nodes] :
         /\ \A p \in DOMAIN snap : snap[p] \in snap_point(sg, Poi[p])
         /\ sg' = [sg EXCEPT !.snaps = snap]
    /\ UNCHANGED <<cost, view, answer>>

\* The nodes nearest_node_within may return.
Snapped(name, at, limit) ==
    {n \in snap_point(Graph(name), at) : ~TooFar(at, n, limit)}

\* nearest_node_within finds no node, or none within the limit.
SnapFails(name, at, limit) ==
    /\ \/ Graph(name).nodes = {} /\ answer' = [kind |-> "no node"]
       \/ /\ snap_point(Graph(name), at) # Snapped(name, at, limit)
          /\ answer' = [kind |-> "too far", at |-> at, limit |-> limit,
                        nodes |-> Graph(name).nodes]
    /\ UNCHANGED view

reachable_graph(at, budget, limit) ==
    /\ answer = NoAnswer
    /\ \/ SnapFails("sg", at, limit)
       \/ \E n \in Snapped("sg", at, limit) :
            /\ view' = [kind |-> "reachable", graph |-> sg, origin |-> n,
                        destination |-> n, budget |-> budget,
                        labels |-> reachability(sg, n, budget)]
            /\ UNCHANGED answer
    /\ UNCHANGED <<cost, sg>>

\* compute_feasibility: the prism of the trip from o to d.
FeasibleLabels(g, o, d, budget) ==
    LET in == TimesFrom(g, o)
        out == TimesTo(g, d)
    IN  [n \in {m \in DOMAIN in \cap DOMAIN out : in[m] + out[m] <= budget} |->
           [inbound |-> in[n], outbound |-> out[n], slack |-> budget - in[n] - out[n]]]

\* SpatialGraph::prism between two snapped nodes.
PrismBetween(o, d, budget) ==
    LET in == TimesFrom(sg, o) IN
    IF d \notin DOMAIN in
      THEN answer' = [kind |-> "no path"] /\ UNCHANGED view
    ELSE IF in[d] > budget
      THEN answer' = [kind |-> "too tight"] /\ UNCHANGED view
    ELSE /\ view' = [kind |-> "prism", graph |-> sg, origin |-> o, destination |-> d,
                     budget |-> budget, labels |-> FeasibleLabels(sg, o, d, budget)]
         /\ UNCHANGED answer

\* PyGraph::prism; a negative or unusable budget is refused at once.
prism(from, to, budget, limit) ==
    /\ answer = NoAnswer /\ budget # Bad
    /\ \/ SnapFails("sg", from, limit)
       \/ \E o \in Snapped("sg", from, limit) :
            \/ SnapFails("sg", to, limit)
            \/ \E d \in Snapped("sg", to, limit) : PrismBetween(o, d, budget)
    /\ UNCHANGED <<cost, sg>>

\* The caller goes on with the copy, which is a graph like any other.
Materialize ==
    /\ view # NoView /\ answer = NoAnswer
    /\ sg' = materialize(view)
    /\ view' = NoView
    /\ UNCHANGED <<cost, answer>>

\* route of routing.rs on one of the graphs.
RouteOn(name, from, to, limit) ==
    /\ answer = NoAnswer
    /\ \/ SnapFails(name, from, limit)
       \/ \E o \in Snapped(name, from, limit) :
            \/ SnapFails(name, to, limit)
            \/ \E d \in Snapped(name, to, limit) :
                 LET T == TimesFrom(Graph(name), o) IN
                 /\ answer' = IF d \in DOMAIN T
                       THEN [kind |-> "route", on |-> name, from |-> o, to |-> d, time |-> T[d]]
                       ELSE [kind |-> "no route", on |-> name, from |-> o, to |-> d]
                 /\ UNCHANGED view
    /\ UNCHANGED <<cost, sg>>

\* isochrones on one of the graphs, up to the labels the polygons are built of.
IsochronesOn(name, at, budget, limit) ==
    /\ answer = NoAnswer /\ budget # Bad
    /\ \/ SnapFails(name, at, limit)
       \/ \E n \in Snapped(name, at, limit) :
            /\ answer' = [kind |-> "isochrone", on |-> name, from |-> n, budget |-> budget,
                          labels |-> reachability(Graph(name), n, budget)]
            /\ UNCHANGED view
    /\ UNCHANGED <<cost, sg>>

\* The methods of the Python classes: of the graph, and of a view by its copy.
route(from, to, limit) == RouteOn("sg", from, to, limit)
isochrone(at, budget, limit) == IsochronesOn("sg", at, budget, limit)
reachable_route(from, to, limit) ==
    view # NoView /\ view.kind = "reachable" /\ RouteOn("copy", from, to, limit)
reachable_isochrone(at, budget, limit) ==
    view # NoView /\ view.kind = "reachable" /\ IsochronesOn("copy", at, budget, limit)
prism_route(from, to, limit) ==
    view # NoView /\ view.kind = "prism" /\ RouteOn("copy", from, to, limit)
prism_isochrone(at, budget, limit) ==
    view # NoView /\ view.kind = "prism" /\ IsochronesOn("copy", at, budget, limit)

\* Mutant of Radius: everybody is taken for a walker.
WalkingRadius(budget) == (12 * budget * MaxSpeed) \div 240

\* "max_speed * 1.2".
Radius(budget) == (12 * budget * MaxSpeed) \div 10

\* bbox_from_point around c with radius r holds p.
InBox(p, c, r) ==
    /\ Degree * (p[1] - c[1]) \in -r .. r
    /\ Cosine[c[1]] * (p[2] - c[2]) \in -r .. r

\* reachable_pois: the POIs of Overpass in the box around the start whose snapped
\* node is labelled.
FoundPois(g, n, budget) ==
    {p \in DOMAIN Poi : /\ InBox(Poi[p], Position[n], Radius(budget))
                        /\ g.snaps # NoSnaps
                        /\ p \in DOMAIN g.snaps
                        /\ g.snaps[p] \in DOMAIN reachability(g, n, budget)}

reachable_pois(name, at, budget) ==
    LET g == Graph(name) IN
    /\ answer = NoAnswer /\ budget # Bad
    /\ \/ SnapFails(name, at, NoLimit)
       \/ \E n \in Snapped(name, at, NoLimit) :
            /\ answer' = [kind |-> "pois", on |-> name, from |-> n, budget |-> budget,
                          times |-> [p \in FoundPois(g, n, budget) |->
                                       reachability(g, n, budget)[g.snaps[p]]]]
            /\ UNCHANGED view
    /\ UNCHANGED <<cost, sg>>

\* The request or its parsing fails; so does a box that is no box.
pois_fail ==
    /\ answer = NoAnswer
    /\ answer' = [kind |-> "error"]
    /\ UNCHANGED <<cost, sg, view>>

Take ==
    /\ answer # NoAnswer
    /\ answer' = NoAnswer
    /\ UNCHANGED <<cost, sg, view>>

Next ==
    \/ Take
    \/ \E P \in PoiLists : snap_pois(P)
    \/ \E at \in Places, budget \in Budgets, limit \in Limits :
         \/ reachable_graph(at, budget, limit)
         \/ isochrone(at, budget, limit)
         \/ reachable_isochrone(at, budget, limit)
         \/ prism_isochrone(at, budget, limit)
         \/ \E to \in Places : prism(at, to, budget, limit)
    \/ \E at, to \in Places, limit \in Limits :
         route(at, to, limit) \/ reachable_route(at, to, limit) \/ prism_route(at, to, limit)
    \/ Materialize
    \/ \E name \in Graphs, at \in Places, budget \in Budgets : reachable_pois(name, at, budget)
    \/ pois_fail

Spec == Init /\ [][Next]_vars

----------------------------------------------------------------------------

SpatialGraph(g) ==
    /\ g.nodes \subseteq Node /\ g.edges \subseteq Edge
    /\ \A e \in g.edges : {Source[e], Target[e]} \subseteq g.nodes
    /\ g.snaps # NoSnaps => /\ DOMAIN g.snaps \subseteq DOMAIN Poi
                            /\ \A p \in DOMAIN g.snaps : g.snaps[p] \in g.nodes

TypeOK ==
    /\ SpatialGraph(sg)
    /\ view # NoView =>
         /\ view.kind \in {"reachable", "prism"}
         /\ SpatialGraph(view.graph)
         /\ {view.origin, view.destination} \subseteq view.graph.nodes
         /\ view.budget \in Budgets
         /\ DOMAIN view.labels \subseteq view.graph.nodes
         /\ view.kind = "prism" =>
              \A n \in DOMAIN view.labels :
                view.labels[n] \in [inbound : Nat, outbound : Nat, slack : Nat]
    /\ answer # NoAnswer => answer.kind \in {"too far", "no node", "no path", "too tight",
         "route", "no route", "isochrone", "pois", "error"}

\* What a view exports hangs together: the edges it shows are those its copy
\* runs on, and on its own nodes and edges alone the shortest times are the
\* labels computed on the whole graph.  Cutting the view out loses no way to a
\* node of it, for views of copies of views too.
ViewTimesHold ==
    view # NoView =>
      LET copy == materialize(view)
      IN  IF DOMAIN view.labels = {} THEN view.budget = Bad
          ELSE /\ view.kind = "reachable" =>
                    /\ TimesFrom(copy, view.origin) = reachable_features(view).times
                    /\ copy.edges = reachable_features(view).edges
               /\ view.kind = "prism" =>
                    /\ TimesFrom(copy, view.origin) = prism_features(view).inbound
                    /\ TimesTo(copy, view.destination) = prism_features(view).outbound
                    /\ copy.edges = prism_features(view).edges

\* A route or an isochrone asked of a view from its origin, or in a prism to its
\* destination, says what the whole graph says within the view's budget; from
\* elsewhere it may be slower, never faster.
AnswersAgree ==
    answer # NoAnswer /\ view # NoView =>
      LET FromEnd == \/ answer.from = view.origin
                     \/ view.kind = "prism" /\ answer.to = view.destination
          Whole == TimesFrom(view.graph, answer.from)
      IN  /\ answer.kind = "route" /\ answer.on = "copy" =>
               /\ answer.time >= Whole[answer.to]
               /\ FromEnd => answer.time = Whole[answer.to]
          /\ answer.kind = "no route" /\ answer.on = "copy" => ~FromEnd
          /\ /\ answer.kind = "isochrone" /\ answer.on = "copy"
             /\ view.kind = "reachable" /\ answer.from = view.origin
             => answer.labels =
                  [n \in {m \in DOMAIN Whole : /\ Whole[m] <= answer.budget
                                              /\ Whole[m] <= view.budget} |-> Whole[n]]

\* Times are no shorter than MaxSpeed allows in a straight line.
SpeedsCapped ==
    \A e \in Edge : calculate_distance_2(Position[Source[e]], Position[Target[e]])
                      <= (cost[e] * MaxSpeed) * (cost[e] * MaxSpeed)

\* The margin of the box, "max_speed * 1.2" (poi.rs:170), covers parallels whose
\* cosines differ by no more than that factor: the graph is that of a region.
CosinesClose ==
    \A n, m \in Node : 10 * Cosine[Position[n][1]] <= 12 * Cosine[Position[m][1]]

\* Reachable POIs are those of the reachable view from the same start, with "the
\* same value that drove the isochrone" (poi.rs:154); "the box always contains
\* the full reachable area" (poi.rs:167-168), so a POI that lies on a node in
\* reach is never left out while speeds are capped.  Without snaps of its own a
\* graph has no reachable POIs, and a copy never uses those of another graph.
PoisMatchView ==
    answer # NoAnswer =>
      (answer.kind = "pois" =>
        /\ answer.on = "copy" => answer.times = << >>
        /\ answer.on # "copy" /\ view # NoView =>
             (/\ view.kind = "reachable" /\ view.budget = answer.budget
              /\ view.origin = answer.from
              /\ Graph(answer.on).nodes = view.graph.nodes
              =>
              LET snaps == Graph(answer.on).snaps IN
              /\ \A p \in DOMAIN answer.times :
                   /\ snaps[p] \in DOMAIN view.labels
                   /\ answer.times[p] = view.labels[snaps[p]]
              /\ snaps # NoSnaps /\ SpeedsCapped =>
                   \A p \in DOMAIN snaps :
                     Position[snaps[p]] = Poi[p] /\ snaps[p] \in DOMAIN view.labels
                       => p \in DOMAIN answer.times))

\* "No graph node found within max_snap_m of the origin coordinates"
\* (lib.rs:524): a refused coordinate has no node within the limit.
RefusedOnlyWhenFar ==
    answer # NoAnswer =>
      (answer.kind = "too far" =>
         \A n \in answer.nodes : TooFar(answer.at, n, answer.limit))

=============================================================================
