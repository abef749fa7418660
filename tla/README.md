# Formal models of graphways

graphways (the Rust crate in `src/`, with Python bindings) loads a road network
from OpenStreetMap, simplifies it, and answers reachability, routing,
isochrone and feasibility queries on it. This directory holds TLA+ models of
its state machines, TLC configurations that check them on small instances, and
proofs that TLAPS checks for every instance.

File and line references are to `src/src/`, unless another path is given.

## 1. Inventory

| Component | State | Operations | What makes it hard | What makes it correct |
|---|---|---|---|---|
| Reachability (`reachability.rs`) | labels, heap, current node | pop, relax | superseded heap entries, zero costs, ties, the inclusive budget, refused costs | labels are the shortest times within the budget; settled labels are final; it ends |
| Views (`reachability.rs`, `feasibility.rs`, `lib.rs`) | a graph and the labels of a search on it | export, materialize, route, isochrones | node identity across copies, snaps lost in a copy, views of copies | a view answers as the whole graph does within its budget |
| Routing (`routing.rs`) | labels, predecessors, heap; then the path | pop, relax, walk back, measure | an estimate that may be inadmissible, reopened nodes, `predecessor[&current]` | a simple path, the shortest if the estimate is admissible; `PathNotFound` only if there is none |
| Feasibility (`feasibility.rs`) | two time tables, the prism | two searches, intersection | reversed edges, the boundary of the budget, NaN | the prism is the set of nodes on trips that fit |
| Simplification (`simplify.rs`) | clusters, endpoints, chains, added edges, an id counter | cluster, merge edges, follow chains, deduplicate | iteration order of hash sets, circular roads, parallel edges | connections and times between the nodes that stay |
| XML cache (`cache.rs`, `poi.rs`, `isochrone.rs`) | a map and a queue per process, a directory of files | look up, fetch, write, insert, clear | lookups and inserts are separate critical sections, files have no lock, crashes | a query gets its own, whole response; the cache stays within its capacity |
| Rate limiter, HTTP retry (`overpass.rs`, `geocoding.rs`) | last booked slot; attempt | book, sleep, send, answer, back off | late wake-ups, concurrent retries, Retry-After | spacing of sends, retries used up, no panic after the loop, it ends |
| Graph construction (`graph.rs`, `utils.rs`) | node map, graph | one edge or two per pair of way nodes, then simplify or index | one-way tags, missing nodes, speeds | the directions the tags allow, finite times, no panic on a complete file |
| Spatial index, snapping (`graph.rs`) | R-tree, POI snaps | nearest, snap within a limit, snap POIs | the index has a metric of its own, the limit is tested with another | the nearest node, refused only when it is far |
| Isochrones (`isochrone.rs`) | triangulated surface; segments, ring, best ring per limit | triangulate, cut, trace, choose | segments come from a hash set; open contours; saturated limits | tracing ends, keeps the largest ring, the polygon holds what is reachable |
| Points of interest (`poi.rs`, `filters.rs`) | POI list, snaps of the graph | fetch, snap, restrict | a missing `snap_pois`, copies of a graph, the box of the query | reachable POIs with the times of the isochrone, none left out |
| Road filters, queries (`filters.rs`, `overpass.rs`) | none | predicate, query text | the rule exists twice, once as a comparison and once as a search | both select the same ways |
| PBF reader (`pbf.rs`) | nodes, ways per profile, POI ids | read for one profile or for several | which nodes matter is known only after the ways | each profile gets the graph its filter describes |
| Python bindings (`lib.rs`) | a tokio runtime, views | conversions | `block_on` with the interpreter lock held | counts and units |

**How they interact.** `from_pbf` / `from_osm` and `create_graph` build a
`DiGraph`, which `simplify_graph` rewrites; `SpatialGraph` adds an R-tree and is
immutable afterwards, so queries share it without locks (`Arc`). Routing,
reachability and feasibility each run their own search on it; isochrones and
reachable POIs start from a reachability result. POI fetching and the Python
isochrone entry point go through the XML cache and, on a miss, `make_request`,
which books a slot of the rate limiter. What concurrent callers share is the
graph (read-only), the XML cache (a mutex; between processes, a directory
without a lock), the two last-request slots (a mutex each) and the id counter of
`simplify.rs` (an atomic). Python calls hold the interpreter lock across
`block_on`, so one process runs one of them at a time; Rust callers interleave
at every await and every unlock.

`PROJECT.json` lists the hazards at their lines, with the properties that would
catch each.

## 2. Modules

| Module | Models | Correspondence |
|---|---|---|
| `RoadFilter` | `way_passes_road_filter`, the query of `get_osm_filter`, `is_poi_node` | tables of values by key; `Found` is a search where the predicate compares |
| `Loading` | `read_pbf`, `read_pbf_multi`, `from_pbf`, `from_osm`, the Overpass response, `create_graph`, `SpatialGraph::new`, speeds and travel times | `ReadNode` / `ReadWay` one element of the file, `Emit` or `Parse` the data of a profile, `AddWay` one turn of `create_graph`, `Index` |
| `Simplify` | `simplify_graph` | one action per turn of each loop: `Cluster`, `Merge`, `Survey`, `NextEndpoint`, `Begin`, `Walk`, `Arrive`, `Dedup` |
| `RoadGraph` | the directed multigraph with a time per edge | `Usable` is the searches' cost test; `Bad` stands for NaN, negative and infinite |
| `TimeTable` | the *contract* of `compute_reachability`, without a search | one answer: a table that is closed under edges and justified from the start |
| `Reachability` | `compute_reachability_with` | `Init` up to the loop, `Pop` the head of the loop, `Relax` one edge, `NextTurn`, `Exhausted` |
| `Routing` | `shortest_path_edges`, `route_geometry_and_times` | `Pop`, `Relax`, then `StepBack` along the predecessors and `Measure` one edge at a time |
| `Feasibility` | `compute_feasibility_with` | two searches by petgraph (external, modelled by what it returns) and `Intersect`, one node at a time |
| `Isochrones` | `isochrone.rs` from the labels to the polygons | `Search`, `Triangulate`, `Cut` one limit, then the tracing loop: `StartRing`, `Extend`, `EndRing`, `Choose` |
| `Views` | the Python classes: `SpatialGraph`, `ReachableGraph`, `PrismGraph`; snapping; `reachable_pois` | one action per method, in any sequence of calls on a graph, its views and their copies |
| `XmlCache` | `cache.rs`, `fetch_xml_cached` and its twin in `isochrone.rs`, Python's `clear_cache` | one action per critical section or file-system call, for any set of tasks in any set of processes; `Crash` |
| `Throttle` | `wait_for_slot`, `make_request`, the request loop of `geocode` | one action per await; `Drop` is a caller that gives up, `Tick` the clock |
| `Walks`, `ShortestPaths` | shortest times over walks of bounded length | the reference that the properties compare with, and what a finished search gives `Feasibility` and `Views` |
| `Lemmas` | facts about walks and shortest times, without the constants of any model | see section 5 |
| `ReachabilityProofs`, `RoutingProofs`, `FeasibilityProofs`, `ViewsProofs`, `IsochronesProofs` | theorems about the model of that name | see section 5 |
| `GraphProofs` | theorems about `Simplify` and `Loading` | see section 5 |
| `FetchProofs` | theorems about `XmlCache` and `Throttle` | see section 5 |
| `MC*` | instances for TLC | files, graphs, tasks, values |

**Composition.** `Loading` hands its graph to `Simplify` or to the index (its
last states are named after that). `Views` composes snapping, searches, copies
and POIs; it takes the searches by their results, since `Reachability`,
`Feasibility` and `Routing` show step by step that the searches give them.
`Isochrones` takes the search the same way. Both use the contract that
`TimeTable` states and `Reachability` is shown to implement:
`Caller == INSTANCE TimeTable WITH ...` maps the unfinished search to a pending
answer and the last step to its delivery, and `ImplementsTimeTable` is
`Caller!Spec`, checked by TLC and proved by TLAPS.

Definitions introduced by "Mutant of" are plausible mistakes in the definition
that follows. No specification uses them; putting one in the place of the
original must break the property it is listed with in `PROJECT.json`, which
shows that the property depends on that line of the code.

### Abstractions

- **Times** are naturals. Comparisons of floats are modelled with what refused
  values do (`Bad`, `NaN`). Sums are exact: nothing here speaks of rounding,
  and section 6 says where it shows.
- **The cost closure** of `compute_reachability_with` is a fixed table per call.
  A closure that answers differently for the same edge is outside the contract.
- **Iteration order** of `HashMap`, `HashSet`, petgraph edge lists and ties in
  `BinaryHeap` is nondeterministic, except where the code's result depends on
  petgraph's index order (`Simplify`), where it is that order.
- **Heaps** are sets: a heap entry that is equal to another in all its fields
  changes nothing, since the second is handled like the first.
- **An early return** for a refused budget is the initial state of
  `Reachability`.
- **Tags** are a partial function on keys. What strings do to each other is
  given by constants: which values contain or start with a word (`Within`,
  `Prefixed`), which start with a number (`NumericPrefix`), which contain "mph".
- **Positions** of `Loading` lie on a line; speeds are in units that make a mile
  whole, and a travel time is a pair of length and speed, compared with
  `Infinite` only.
- **Places** of `Views` are a grid; cosines of parallels and the length of a
  degree are constants, and the metric of the index and the true distance are
  both computed, squared. Requests for POIs return those inside the box.
- **Points** of `Isochrones` are scaled so that interpolation is exact. Hulls
  and the Delaunay triangulation (external) are used by what they promise.
- **Responses** in `XmlCache` are the query they answer and whether they are
  whole; a file is the set of parts written. A read is one step: a read in
  pieces, across a truncation, returns no more than a torn file does. A query
  always gets the same response. FNV-1a collisions are excluded by an assumption
  (`PathAssumption`). The mutexes are never poisoned: no code panics under them.
- **Statuses** in `Throttle` are numbers. `error_for_status` (external) makes an
  error of 400 to 599 and of nothing else, so that `unwrap_err` panics on the rest;
  statuses that reqwest follows as redirects do not reach the loop. A call of
  `XmlCache` whose fetch panics ends like one whose fetch fails (`FailFetch`).
- **Simplify** keeps drive times only, since these alone are compared; lengths,
  the other times and geometry are summed or appended alike.

## 3. Runs

| Run | Expected | What it shows |
|---|---|---|
| `loading` | pass | a profile gets the same graph from a file read for one or several profiles, in any order of its elements, and from a query; its edges have the directions of the tags and finite times; a panic needs a clipped way |
| `simplify` | pass | chains are simple, connections are kept, times are kept except for edges that `added_edges` skips |
| `reachability` | pass | the search implements `TimeTable`: labels are exactly the shortest times within the budget; a settled label is final; it ends |
| `routing` | pass | the predecessors form a tree that explains the labels, the answer is a path, the shortest when speeds are capped; `PathNotFound` means no path; it ends |
| `feasibility` | pass | the prism is exactly the nodes on trips that fit, and it is connected |
| `isochrones` | pass | whatever order a hash set gives, tracing ends and keeps the largest closed ring; a limit whose nodes are one region inside the surface gets a polygon that holds them all |
| `isochrones_pocket` | violation | the polygon of a limit may be the ring around a slow pocket, outside of which everything reachable lies |
| `views` | pass | views, copies, and views of copies give the times of the whole graph within the budget; POIs are those of the view |
| `views_far` | violation | far from Greenwich a coordinate is refused by `max_snap_m` although a node is near enough |
| `xml_cache` | pass | queue and map agree, no answer for another query, torn files are transient unless a write was cut short, calls return |
| `xml_cache_torn` | violation | a torn file is served as a hit |
| `throttle` | pass | sends are spaced, waits are not needlessly long, retries are used up before a failure is returned, a call panics only in `unwrap_err`, calls end, with calls dropped half-way among them |

### Bounds and why they are enough

- **Files** (`MCLoading`). Four nodes and two ways, nodes first or ways first,
  each way with any of twelve tag sets: one for each rule of the filters
  (highway values, access tags, `area`, `service`, values that contain or start
  with a word of the query), each direction tag and each form of `maxspeed`. The
  first way is whole, cut off, or a single missing node. A POI lies on the road
  and another off it. `read_pbf_multi` is asked for one profile twice.
- **Graphs.** Four nodes and seven edges (`MCReachability`, `MCRouting`,
  `MCViews`), six (`MCFeasibility`), five nodes and ten edges (`MCSimplify`). The
  costs of an edge range over zero, small numbers that tie and differ, and
  `Bad`; an edge that is `Bad` might as well be missing, so a run covers the
  sub-graphs, with cycles of cost zero, ties, cheaper detours, unreachable nodes
  and dead ends. A label is superseded by a detour of one more edge, which needs
  three nodes; the fourth gives it something beyond to be stale. `MCSimplify`
  has a chain of two inner nodes in both directions beside parallel direct
  edges, and a fifth node that may merge with an end, symmetrically or as seen
  from one side only.
- **Budgets.** One that binds in the middle of the graph, and a refused one.
- **Isochrones.** Six points on the rim and two inside, one of which two nodes
  share: the contour of a limit can be closed or open, split in two, have a
  hole, or meet itself in a point. Times that equal the limit put the contour
  through the points themselves. No four points lie on a circle, so that the
  triangulation is the one the code gets, and the two inner points are far enough
  apart for two rings that do not touch, of which one is to be chosen. The run `isochrones_pocket` replaces the times
  only.
- **Views.** Two parallels and a place far from the meridian of Greenwich, so
  that the two metrics disagree; parallel edges between two nodes; a limit that
  refuses and none. Views of copies of views come from `Materialize`, which puts
  the copy in the place of the graph; the graph only shrinks, so all sequences
  of calls are covered without a bound. Two lists of POIs, so that a second
  `snap_pois` replaces the snaps of the first.
- **Cache.** Capacity 1 and two queries make every insert of another query
  evict; two parts make a file torn between them; one Python process and one
  Rust process with two tasks cover what happens inside a process and between
  two, with and without the interpreter lock.
- **Throttle.** Three calls, an interval of 2 and a lateness of 1: the smallest
  with a send between slots. Two retries as in the code; one Retry-After of
  zero and one longer than the interval; one status of each kind that `Answer`
  tells apart, a success, a transient error, another error, and one that is neither
  success nor error (304). Times are relative to now, so the state
  space is finite without a horizon. The name of a dropped call is used again
  when its slot has passed, so that slots nobody waits for stay counted. `MaxLate` bounds the lateness of a timer; it
  is below the interval, since otherwise nothing can be said of the spacing.

### Deadlock

It is checked in `xml_cache`, `throttle` and `views`: these systems never stop.
The other models are single calls that end.

## 4. Fairness

- `Reachability`, `Routing`, `Isochrones`: `WF_vars(Next)`. A call is one thread
  that nothing blocks. `Isochrones` needs it to say that tracing ends: each
  turn of its loop uses a segment up (`Unused`).
- `XmlCache`: weak fairness of each task's next step, for as long as its process
  lives. The mutexes are held for bounded work, provided the eviction loop of
  `put` ends, which the model does not assume: a loop that cannot end is an
  action that is never enabled, and `CallsReturn` fails. `Miss`, `ClearMemory`
  and `Crash` are never obliged to happen.
- `Throttle`: time passes, sleepers are woken, and a request that was sent is
  answered or breaks. The last is not up to the code: the HTTP client sets no
  timeout, so `CallsEnd` is about the retry loop and not about the network.
- `Loading`, `Simplify`, `Feasibility`, `Views`: none; only safety is stated.
  Their loops run over lists that nothing extends.

## 5. Proofs

Each proof module EXTENDS the model it is about and `Lemmas`.
The assumptions are those named in the models:

- the shapes of constants, and finitely many nodes (`NodeAssumption` of
  `Isochrones`), edges (`FiniteAssumption`) and calls (`RequestAssumption` of
  `Throttle`);
- `GapAssumption`, the triangle inequality of the straight-line times, and
  `TimeAssumption`, the lateness below the interval;
- `PathAssumption`, hashes of queries that do not collide;
- `TimesAssumption`, finite times of the edges `Views` works on, which is
  what `EdgesAreUsable` proves of `Loading`;
- `FileAssumption`, ids that name one node or one way of a file, as they do in
  OSM, and `MaxspeedAssumption`, whole numbers in front of a `maxspeed` (the
  model's numbers; a fraction changes nothing in the argument).

One theorem has a hypothesis that is not an assumption of its model:
`PoisAreThoseInReach` supposes `CosinesClose`, that the cosines of the latitudes
of the graph are within a fifth of each other. The box of `reachable_pois` has a
margin of that size (poi.rs:170) and no more; `MCViews` states the same of its
map.

**`Lemmas`.** Shortest times are given by walks of bounded length
(`WalkTimes`), and a walk is a function on `0 .. k`. Induction is replaced by a
least counterexample (`LeastElement`); that the recursive functions exist at all
(`BuildsExists`) is shown the same way. A walk that repeats a node can be cut
(`CutWalk`), so each walk has a simple one that is no slower (`SimpleWalk`), and
the pigeonhole principle makes the bound on the length harmless: `LinkTimes` are
the least times over walks of *any* length (`LinkTimesAreShortest`). From this
the lemmas the other proofs cite: the triangle inequality, that a time is the
sum along some link, that reversing the links reverses the times
(`TurnedTimes`), that links of cost zero give plain connectedness, that cutting
the graph down to what a search reaches changes none of its times
(`CutTimes`), and that times within a budget spread no farther than speed allows
(`LinkTimesSpread`).

**`ReachabilityProofs`.** The invariant `IInv` is the types, `Bounded`,
`Supported` and the usual argument of Dijkstra for a heap with lazy deletion:
`HeapInv` (an entry is never cheaper than its node's label, nor than the current
cost), `Frontier` (a label waits in the heap with its present cost, or its node
is expanded) and `CurrentInv` (the node being relaxed still has the label it was
popped with). `Frontier` is what makes it safe to skip a superseded entry, and
`Supported` is stated over *sets* of labels because a statement label by label
("some edge explains it") is satisfied by a cycle of cost zero that nothing
reaches. From it follow `TypeCorrect`, `LabelsAreSupported`,
`LabelsWithinBudget`, `SearchIsComplete`, the action property
`SettledLabelsAreFinal`, the refinement `FulfilsContract`
(`Spec => ImplementsTimeTable`: each step is `Deliver` or a stutter), and
`ShortestTimes`: no walk of any length within the budget beats a label, and each
label is the cost of some walk.

**`RoutingProofs`.** Nothing in `IInv` assumes the estimate admissible or
consistent, so it covers reopened nodes. `PredecessorTree` proves
`LabelsFormTree`, which has two parts that need each other: labels do not
increase along predecessors (`PredecessorsExplainLabels`), and when a label is
improved strictly its node cannot be among the ancestors of the node that
improves it (`NoNewCycle`), so that the predecessors remain a tree
(`PredecessorsLeadToOrigin`). `WalkBackNeverPanics` follows. `AStarIsOptimal`
adds admissibility (`SpeedsCapped` with the triangle inequality): along any walk
to the destination the first node not expanded still waits in the heap with a
total that bounds the walk's cost from below. Its second half, that a search
which ends without an answer missed no path, needs no such assumption.

What is *returned* takes a second invariant, `PathInv`: the walk back holds a
tail of a simple path (`WalkBack`) and the durations measured so far are
the sums along it (`Measured`). It gives `TheAnswerIsAPath`; with
`AStarIsOptimal` and the lemmas on walks it gives `RouteIsOptimal` (the
duration is the shortest time) and `NotFoundIsRight`.

**`FeasibilityProofs`.** petgraph's searches are taken by their contract, so
`IInv` says where the call is: which of the two tables it has, and that the
prism holds the nodes looked at so far that fit. `PrismIsRight` is then about
reversed walks (the second table holds times *to* the destination), about
infinite edges, which petgraph walks and the reference does not, and about the
errors: the trip itself fits exactly when some node does, by the triangle
inequality. `PrismHangsTogether` needs more than the two tables: the node before
`n` on a shortest walk has a total no greater than that of `n`, so it is in the
prism as well.

**`GraphProofs`.** For `Simplify`, `IInv` has the shape of clusters, of the edges that
remain and of the chain being followed. `ChainsAreSimple` is the reason that
`build_path` ends without a set of visited nodes: an inner node has one edge on
from where the chain comes, so the first node met again could only have been
entered from the same node before. `KInv` says that nothing is forgotten:
every edge out of an endpoint visited is on a chain that became a link, or got
stuck, or was skipped since its two ends were joined already (`Covered`,
`AddedAreJoined`, `Settling`). With it, a walk between endpoints in the
consolidated graph is cut at the endpoints it visits and each piece is a link:
`ConnectionsAreKept` and `TimesAreKept`, for any graph, any clusters and any
order of the endpoints.

The second part of the module is about `Loading`, whose graph it is that is
simplified. `LoadInv` says that the reader
holds what it has read (`Reader`), that a graph has the nodes of the ways chosen
for it (`Data`), and that its edges are those of the ways done, each stretch of them
(`LoadEdges`). `FlattenSeq` is a recursive function; what it returns is the lemma
`Flattened`, by a least counterexample again. From `LoadInv`, `EdgesAreUsable`
needs that no speed is zero (`SpeedIsPositive`), `DirectionsAreKept` the directions
of one stretch (`StretchEdges`) and that an id names one way, and `SourcesAgree`
that the two filters agree: what the query selects passes the filter
(`SelectedPass`), and the converse for values that do not merely contain a word
of the query (`FiltersAgree`).

**`ViewsProofs`.** A view remembers the graph it was made from, and a copy
replaces the graph, so `IInv` relates a view's labels to the times on *its*
graph, and each answer to the graph it was asked of, whatever was called
before. The three properties rest on one lemma, `CutTimes`: a set of nodes that
contains with each node those on the way to it keeps its times when the rest of
the graph is cut off. `PoisAreThoseInReach` bounds what a reachable node can be
away (`LinkTimesSpread`) and compares it with the box.

**`FetchProofs`.** For `XmlCache` three invariants, for any number of processes, tasks,
queries and parts of a file, and any capacity. `TypeInv` adds to the types what
a call holds at each of its points, and that a file that was just created is
there until its writer is done. The second, `Own`, follows a response from the
fetch into memory and onto the disk (`Held`, `Cached`, `Filed`). The third,
`PartsAreComing`, is what makes torn files transient: as long as no write was
cut short, a part that is missing from a file is still to be written by one of its
writers. `MemoryIsWellFormed` and `EvictionAlwaysEnds` are about the two
critical sections: a queue without repetitions, of the keys of the map, whatever
was inserted between a lookup and its insert.

For `Throttle`, `ThrottleInv` says that booked slots are an interval apart
(`SlotsApart`), that no waiting call is later than `MaxLate` (`NotTooLate`), and
that each booked slot is far enough from the last send even if that was late
(`FarFromLastSend`); the last one is what a proof of `SendsSpaced` turns on. For
the retries: a call backs off only with an attempt left, so that the code after
the loop is never reached; `RetryLoopIsSound` leaves `unwrap_err` as the only
panic, and a status that is neither success nor error as its only cause. `WaitsAreNeeded` needs
the converse, that the slots ahead leave no gap (`NoGap`), and then
counts them by pigeonhole.

**`IsochronesProofs`.** `Types` is inductive as it stands, but needs
facts about geometry: a triangle that turns left has three distinct corners, and
a contour segment has two distinct ends. `LargestRing` rests on two arguments.
One is about areas: `RingArea` is a recursive sum, which is shown to exist and to
be unique, and to stay the same, up to its sign, when a ring starts elsewhere
(`RotatedRing`) or is run the other way round (`FlippedRing`). The other is about
traces: where no three segments meet, a trace that comes to a point of a ring
stays on it, and no trace comes to a ring from outside. The invariant `Inv`
therefore says of *every* ring of the contour that none of its segments is used
up yet, or the trace is its beginning (`Leads`, for some turn of it), or the best
ring is no smaller (`RingsPursued`); with it, that a trace meets itself at its
start only (`TrailIsSimple`), and that the best ring is one (`BestIsRing`). A
contour with branches has traces that lose a ring by a wrong turn, which is why
`LargestRingIsKept` supposes `Manifold`. `PolygonsFitTheirLimits` carries the
result on to what is returned: each polygon belongs to the limit at its own
place, and is the hull of all nodes, nothing, or the largest ring of its own
contour. `CoveredLimitsEncloseAll` draws the conclusion for limits that cover the
labels, which is the first of the two cases of `EnclosesInnerRegion`, and
`TracingUsesUpSegments` gives the reason why tracing ends.

### Model-checked only

Liveness (`Terminates`, `CallsReturn`, `CallsEnd`, `Returns`) needs fairness and
ENABLED, which are beyond the provers at hand; `EvictionAlwaysEnds`,
`RetryLoopIsSound`, `ChainsAreSimple` and `TracingUsesUpSegments` prove the
safety part of why those loops end. The second case of `EnclosesInnerRegion`, a
region inside the surface, is plane geometry: it needs that the triangles of a
Delaunay triangulation tile the hull of the points and that a closed polygon
has an inside (Jordan), of which the model states neither.
`RefusedOnlyWhenFar`, `EnclosesReachable` and `ServedWhole` do not hold.

## 6. Disagreements met

`PROJECT.json` lists them under `findings`, with the quoted documents. Three are
shown by the violations of section 3. The others are apparent from the models
without a run, among them:

- A status that is neither a success nor 4xx or 5xx, such as 304, panics in
  `unwrap_err` (overpass.rs:174, geocoding.rs:36) instead of being returned
  (`Answer`).
- HTTP 500 is not retried, although the documentation says 5xx (`Retryable`).
- A late sleeper brings two sends closer than the interval; `SendsSpaced` holds
  with the lateness taken off.
- An edge faster than 200 km/h makes A* return a slower route;
  `RouteIsShortestIfCapped` names the condition.
- The first of two parallel edges survives the merging of intersections, not the
  fastest (`Simplify`).
- A NaN budget gives an empty prism without an error (`Feasibility`). The two
  sums that feasibility.rs:223 relies on are rounded in opposite orders, so a trip
  that just fits can lose its origin from its prism; the model adds exactly and
  does not show this.
- The counts of the Python reachable view are those of the whole graph, and node
  ids of a simplified graph are not OSM ids.
- The query searches values where the predicate compares them, for roads and for
  POIs; `SameGraphFromEverySource` shows that for roads this only ever loses
  ways. `from_osm` applies neither filter.
- Reachable POIs are empty without an earlier `snap_pois` (`PoisMatchView`).
- Isochrones are not built in parallel.

## 7. Not modelled, and the plan

Not modelled: the error types, which have no behaviour, and the benchmarks,
tools and examples, which only call the crate. Of the modelled components these
parts are left out:

- the geometry inside an edge: `route` and the exports append it as it is;
- `slack_polygons` of the prism: hulls of the nodes with enough slack;
- `fetch_pois_within`: a containment test in a polygon handed over as GeoJSON,
  over the same cached fetch as `reachable_pois`;
- lookups by node id and counts, which read labels and change nothing;
- `from_place` and `geocode`'s parsing of the answer, strings from a service;
- the choice of the cache directory and the check of its name;
- parsing after caching: a 200 response that is no OSM document is kept, which
  is listed as a hazard without a property.

The searches came first (`Reachability`, `Routing`), then what is shared
between callers (`XmlCache`, `Throttle`), then what makes the graph (`Simplify`,
`Loading` with `RoadFilter`) and what is built on the searches (`Feasibility`,
`Isochrones`, `Views`); the proofs followed in that order. What is left of the
plan is parsing after caching in `XmlCache`; nothing in the repository says
which responses a cache may keep, so there is no property of it to check yet.
