------------------------------ MODULE Loading ------------------------------
(***************************************************************************)
(* From OSM elements to a SpatialGraph.  One load reads a local PBF file   *)
(* (pbf.rs, one profile or several at once), an XML document handed over   *)
(* (from_osm) or the Overpass response for a query (isochrone.rs), and     *)
(* builds the directed graph of one profile (create_graph).                *)
(*                                                                         *)
(* Element ids are unique in a file.  Positions lie on a line, and the     *)
(* distance of two of them is their difference.  A graph node is named by  *)
(* its OSM id.  Names such as LoadInit and stage keep apart from those of  *)
(* module Simplify, which the graph may go on to.                          *)
(***************************************************************************)
EXTENDS RoadFilter, SequencesExt, Integers

CONSTANTS
    Files,          \* sequences of elements: [kind, id, tags, at] or, for a way,
                    \* [kind, id, tags, refs]
    Calls,          \* [reader, types]: the entry point and the profiles asked for
    NumericPrefix,  \* the number a maxspeed value starts with, where it has one
    Mph,            \* the maxspeed values that contain "mph"
    NoSnaps         \* poi_snaps is None

ASSUME CallAssumption ==
    \A c \in Calls :
        /\ c.reader \in {"read_pbf", "read_pbf_multi", "from_osm", "overpass"}
        /\ c.types \in Seq(NetworkType) /\ c.types # << >>
        /\ c.reader # "read_pbf_multi" => Len(c.types) = 1

\* No two nodes have the same id, and no two ways.
ASSUME FileAssumption ==
    \A f \in Files :
        /\ f \in Seq({f[i] : i \in DOMAIN f})
        /\ \A i \in DOMAIN f :
             /\ f[i].kind = "node" => f[i].at \in Int
             /\ f[i].kind = "way" =>
                  f[i].refs \in Seq({f[i].refs[j] : j \in DOMAIN f[i].refs})
        /\ \A i, j \in DOMAIN f : f[i].kind = f[j].kind /\ f[i].id = f[j].id => i = j

\* clean_maxspeed takes digits and a point; here they make a whole number that
\* a float can hold.
ASSUME MaxspeedAssumption == \A v \in DOMAIN NumericPrefix : NumericPrefix[v] \in Nat

VARIABLES
    file, call, retainAll,
    pos,        \* elements of the file read so far
    allNodes,   \* all_nodes: id -> position
    poiIds,     \* poi_ids
    roads,      \* roads_by_type: the ways kept so far, by profile
    type,       \* the profile whose graph is built
    nodes,      \* the nodes of the graph: id -> position
    ways,       \* the ways not turned into edges yet
    edges,      \* edges in the order added: [from, to, way, length, speed]
    poiSnaps,   \* poi_snaps: POI id -> node, or NoSnaps
    stage       \* "read", "build", "index", "done", "simplify", "panic", "error"

loadVars == <<file, call, retainAll, pos, allNodes, poiIds, roads, type, nodes, ways,
              edges, poiSnaps, stage>>
given == <<file, call, retainAll>>
reading == <<pos, allNodes, poiIds, roads>>
graph == <<type, nodes, ways, edges>>

FromFile == call.reader \in {"read_pbf", "read_pbf_multi"}
Elements(kind) == {e \in Range(file) : e.kind = kind}
Bind(f, k, v) == [x \in DOMAIN f \cup {k} |-> IF x = k THEN v ELSE f[x]]
Refs(W) == UNION {Range(w.refs) : w \in W}
Tag(tags, k, values) == k \in DOMAIN tags /\ tags[k] \in values

\* Mutant of assess_path_directionality: a roundabout counts only when no
\* oneway tag is there.
OnewayTagWins(tags) ==
    IF Tag(tags, "oneway", {"yes", "true", "1", "-1", "reverse"}) THEN "forward" ELSE "both"

assess_path_directionality(tags) ==
    IF Tag(tags, "oneway", {"-1", "reverse"}) THEN "reverse"
    ELSE IF \/ Tag(tags, "oneway", {"yes", "true", "1"})
            \/ Tag(tags, "junction", {"roundabout"})
           THEN "forward" ELSE "both"

\* Speeds in units of 0.00001 km/h, which makes 1 mph = 1.60934 km/h whole.
Kph == 100000

HighwaySpeed ==
    [motorway |-> 110, motorway_link |-> 60, trunk |-> 90, trunk_link |-> 45,
     primary |-> 65, primary_link |-> 45, secondary |-> 55, secondary_link |-> 40,
     tertiary |-> 45, tertiary_link |-> 35, unclassified |-> 45, residential |-> 30,
     living_street |-> 10, service |-> 20, track |-> 20, road |-> 50]

\* Mutant of HasMaxspeed: a maxspeed of zero is taken for one.
AnyMaxspeed(tags) == Tag(tags, "maxspeed", DOMAIN NumericPrefix)

\* clean_maxspeed finds a number, and it is positive.
HasMaxspeed(tags) ==
    Tag(tags, "maxspeed", DOMAIN NumericPrefix) /\ NumericPrefix[tags["maxspeed"]] > 0

way_speed_kph(tags) ==
    IF HasMaxspeed(tags)
      THEN NumericPrefix[tags["maxspeed"]] *
             (IF tags["maxspeed"] \in Mph THEN 160934 ELSE Kph)
    ELSE IF Tag(tags, "highway", DOMAIN HighwaySpeed)
      THEN HighwaySpeed[tags["highway"]] * Kph
    ELSE 50 * Kph

\* calculate_travel_time as the ratio of metres to speed; Infinite is f64::INFINITY.
Infinite == <<1, 0>>
calculate_travel_time(length, speed) ==
    IF length < 0 \/ speed <= 0 THEN Infinite ELSE <<length, speed>>

travel_time(e, profile) ==
    CASE profile = "walk" -> calculate_travel_time(e.length, 5 * Kph)
      [] profile = "bike" -> calculate_travel_time(e.length, 15 * Kph)
      [] OTHER -> calculate_travel_time(e.length, e.speed)

\* Mutant of calculate_distance: the difference keeps its sign.
Signed(x, y) == nodes[y] - nodes[x]

calculate_distance(x, y) ==
    IF nodes[x] < nodes[y] THEN nodes[y] - nodes[x] ELSE nodes[x] - nodes[y]

\* The edges of one pair of neighbours on a way, in the order they are added.
PairEdges(w, a, b) ==
    LET Edge(x, y) ==
          [from |-> x, to |-> y, way |-> w.id,
           length |-> calculate_distance(x, y), speed |-> way_speed_kph(w.tags)]
        direction == assess_path_directionality(w.tags)
        bidirectional == type = "walk"
    IN  IF direction = "reverse"
          THEN IF bidirectional THEN <<Edge(b, a), Edge(a, b)>> ELSE <<Edge(b, a)>>
        ELSE IF direction = "forward" /\ ~bidirectional THEN <<Edge(a, b)>>
        ELSE <<Edge(a, b), Edge(b, a)>>

\* RTree::nearest_neighbor; among equals any.
Nearest(at) ==
    LET away(n) == IF nodes[n] < at THEN at - nodes[n] ELSE nodes[n] - at
    IN  {n \in DOMAIN nodes : \A m \in DOMAIN nodes : away(n) <= away(m)}

----------------------------------------------------------------------------

\* A file may be clipped; the database Overpass answers from is whole.
Whole == Refs(Elements("way")) \subseteq {n.id : n \in Elements("node")}

LoadInit ==
    /\ file \in Files
    /\ call \in Calls
    /\ call.reader = "overpass" => Whole
    /\ retainAll \in BOOLEAN
    /\ pos = 0 /\ allNodes = << >> /\ poiIds = {}
    /\ roads = [t \in Range(call.types) |-> << >>]
    /\ type = call.types[1] /\ nodes = << >> /\ ways = << >> /\ edges = << >>
    /\ poiSnaps = NoSnaps
    /\ stage = "read"

\* The id of a POI is noted, Element::Node and Element::DenseNode alike.
PoisWith(e) == IF is_poi_node(e.tags) THEN poiIds \cup {e.id} ELSE poiIds

ReadNode(e) ==
    /\ stage = "read" /\ FromFile /\ pos < Len(file)
    /\ e = file[pos + 1] /\ e.kind = "node"
    /\ pos' = pos + 1
    /\ allNodes' = Bind(allNodes, e.id, e.at)
    /\ poiIds' = PoisWith(e)
    /\ UNCHANGED <<given, roads, graph, poiSnaps, stage>>

\* A way that passes is kept once, by read_pbf_multi once for each time its
\* profile is asked for.
RoadsWith(e, t) ==
    LET Asked(i) == call.types[i] = t /\ way_passes_road_filter(e.tags, t)
    IN  roads[t] \o FlattenSeq([i \in DOMAIN call.types |->
                                  IF Asked(i) THEN <<e>> ELSE << >>])

\* Element::Way: `for &nt in network_types`.
ReadWay(e) ==
    /\ stage = "read" /\ FromFile /\ pos < Len(file)
    /\ e = file[pos + 1] /\ e.kind = "way"
    /\ pos' = pos + 1
    /\ roads' = [t \in DOMAIN roads |-> RoadsWith(e, t)]
    /\ UNCHANGED <<given, allNodes, poiIds, graph, poiSnaps, stage>>

\* Mutants of Needed: every node of the file enters the graph; of a way only
\* its ends.
EveryNode(W) == DOMAIN allNodes
Ends(W) == DOMAIN allNodes \cap UNION {{w.refs[1], w.refs[Len(w.refs)]} : w \in W}

\* The nodes referenced by the ways kept.
Needed(W) == DOMAIN allNodes \cap Refs(W)

\* The file is read: one XmlData for each profile, of which one is built.
Emit(t) ==
    /\ stage = "read" /\ FromFile /\ pos = Len(file)
    /\ t \in DOMAIN roads
    /\ type' = t
    /\ ways' = roads[t]
    /\ nodes' = [n \in Needed(Range(roads[t])) |-> allNodes[n]]
    /\ stage' = "build"
    /\ UNCHANGED <<given, reading, edges, poiSnaps>>

\* parse_xml: from_osm takes what the document holds; the response to a query
\* holds the ways it selects and their nodes, and may be empty.
Parse ==
    LET Sent(e) == e.kind = "way" /\ (call.reader = "overpass" => QuerySelects(e.tags, type))
        sent == FlattenSeq([i \in DOMAIN file |-> IF Sent(file[i]) THEN <<file[i]>> ELSE << >>])
        held == {e \in Elements("node") :
                   call.reader = "overpass" => e.id \in Refs(Range(sent))}
    IN  /\ stage = "read" /\ ~FromFile
        /\ ways' = sent
        /\ nodes' = [n \in {e.id : e \in held} |->
                       (CHOOSE e \in held : e.id = n).at]
        /\ stage' = IF call.reader = "overpass" /\ held = {} THEN "error" ELSE "build"
        /\ UNCHANGED <<given, reading, type, edges, poiSnaps>>

\* The reader or the parser fails: nothing is built.
Fail ==
    /\ stage = "read"
    /\ stage' = "error"
    /\ UNCHANGED <<given, reading, graph, poiSnaps>>

\* One way of create_graph.  node_index_map[..] panics on a node the data does
\* not hold, unless the way has no pair of nodes.
AddWay ==
    LET w == Head(ways)
        pairs == [i \in 1 .. Len(w.refs) - 1 |-> PairEdges(w, w.refs[i], w.refs[i + 1])]
    IN  /\ stage = "build" /\ ways # << >>
        /\ ways' = Tail(ways)
        /\ IF Len(w.refs) > 1 /\ ~ Range(w.refs) \subseteq DOMAIN nodes
             THEN stage' = "panic" /\ UNCHANGED edges
             ELSE edges' = edges \o FlattenSeq(pairs) /\ UNCHANGED stage
        /\ UNCHANGED <<given, reading, type, nodes, poiSnaps>>

\* The graph is complete, or goes to simplify_graph (module Simplify).
Built ==
    /\ stage = "build" /\ ways = << >>
    /\ stage' = IF retainAll THEN "index" ELSE "simplify"
    /\ UNCHANGED <<given, reading, graph, poiSnaps>>

\* SpatialGraph::new, and for a file snap_pois.
Index ==
    /\ stage = "index"
    /\ stage' = "done"
    /\ IF FromFile
         THEN \E snap \in [IF nodes = << >> THEN {} ELSE poiIds -> DOMAIN nodes] :
                /\ \A p \in DOMAIN snap : snap[p] \in Nearest(allNodes[p])
                /\ poiSnaps' = snap
         ELSE poiSnaps' = NoSnaps
    /\ UNCHANGED <<given, reading, graph>>

LoadNext ==
    \/ \E e \in Range(file) : ReadNode(e) \/ ReadWay(e)
    \/ \E t \in DOMAIN roads : Emit(t)
    \/ Parse \/ Fail \/ AddWay \/ Built \/ Index

LoadSpec == LoadInit /\ [][LoadNext]_loadVars

----------------------------------------------------------------------------

Ready == stage \in {"index", "done", "simplify"}
Kept(t) == {w \in Elements("way") : way_passes_road_filter(w.tags, t)}

LoadTypeOK ==
    /\ pos \in 0 .. Len(file)
    /\ DOMAIN allNodes \subseteq {n.id : n \in Elements("node")}
    /\ poiIds \subseteq DOMAIN allNodes
    /\ \A t \in DOMAIN roads : Range(roads[t]) \subseteq Elements("way")
    /\ type \in NetworkType
    /\ \A n \in DOMAIN nodes : nodes[n] \in Int
    /\ \A i \in DOMAIN edges :
         /\ {edges[i].from, edges[i].to} \subseteq DOMAIN nodes
         /\ edges[i].length \in Nat /\ edges[i].speed \in Nat
    /\ poiSnaps # NoSnaps => Range(poiSnaps) \subseteq DOMAIN nodes
    /\ stage \in {"read", "build", "index", "done", "simplify", "panic", "error"}

\* "a single source of truth" (filters.rs:2): whichever way the data comes,
\* from a file read for one profile or for several, in whatever order its
\* elements are, or from a query, the graph of a profile has the nodes and the
\* links of the ways its filter accepts, and no POI-only node (pbf.rs:118).
\* A value that merely contains a word of the query loses its way, but never
\* brings in a way that the filter rejects.
SameGraphFromEverySource ==
    LET partly == call.reader = "overpass" /\
                    \E w \in Elements("way") : PartlyMatched(w.tags, type)
        links == UNION {{{w.refs[i], w.refs[i + 1]} : i \in 1 .. Len(w.refs) - 1} :
                          w \in Kept(type)}
    IN  Ready /\ call.reader # "from_osm" =>
          /\ {e.way : e \in Range(edges)} \subseteq {w.id : w \in Kept(type)}
          /\ partly \/ {{e.from, e.to} : e \in Range(edges)} = links
          /\ partly \/ DOMAIN nodes =
               {n.id : n \in Elements("node")} \cap Refs(Kept(type))

\* A profile travels a way in the directions it allows and in all of them:
\* walkers both ways on every stretch, everybody else along the tagged
\* direction, a roundabout tagged oneway=no included (graph.rs:121).
DirectionsKept ==
    LET Oneway(w) == \/ Tag(w.tags, "oneway", {"yes", "true", "1", "-1", "reverse"})
                     \/ Tag(w.tags, "junction", {"roundabout"})
        Along(w, a, b) == \E i \in 1 .. Len(w.refs) - 1 : w.refs[i] = a /\ w.refs[i + 1] = b
        Backward(w) == Tag(w.tags, "oneway", {"-1", "reverse"})
        Runs(w, a, b) == \E e \in Range(edges) : e.way = w.id /\ e.from = a /\ e.to = b
    IN  Ready => \A w \in Elements("way") :
          w.id \in {e.way : e \in Range(edges)} =>
            \A a, b \in Range(w.refs) :
              Runs(w, a, b) <=>
                \/ Along(w, a, b) /\ (type = "walk" \/ ~Backward(w))
                \/ Along(w, b, a) /\ (type = "walk" \/ Backward(w) \/ ~Oneway(w))

\* No tag makes an edge that a search ignores: the times of every edge are
\* finite for every profile, whatever stands in its maxspeed.
EdgesUsable ==
    \A e \in Range(edges) : \A t \in NetworkType : travel_time(e, t) # Infinite

\* node_index_map[..] (graph.rs:213) panics on clipped files only, and only for
\* a way that the profile keeps and that has a stretch to add.
PanicsOnlyOnClippedWays ==
    stage = "panic" =>
        \E w \in Elements("way") :
          /\ ~ Range(w.refs) \subseteq {n.id : n \in Elements("node")}
          /\ Len(w.refs) > 1
          /\ call.reader = "from_osm" \/ w \in Kept(type)

=============================================================================
