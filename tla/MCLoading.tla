----------------------------- MODULE MCLoading -----------------------------
(***************************************************************************)
(* Loading of files with four nodes, one of them a cafe off the roads and  *)
(* one a cafe on them, and two ways.  The first way may be cut off at a    *)
(* node that is missing.                                                   *)
(***************************************************************************)
EXTENDS Loading

MCWithin == {<<"service", "services">>, <<"motor", "motorway">>, <<"no", "unknown">>}
MCPrefixed == {<<"service", "services">>, <<"motor", "motorway">>}
MCNumericPrefix == [x \in {"0", "50 mph", "30"} |->
                      CASE x = "0" -> 0 [] x = "30" -> 30 [] OTHER -> 50]
MCMph == {"50 mph"}

Point(id, at, tags) == [kind |-> "node", id |-> id, at |-> at, tags |-> tags]
Line(id, refs, tags) == [kind |-> "way", id |-> id, refs |-> refs, tags |-> tags]

Points == <<Point(1, 0, [highway |-> "crossing"]), Point(2, 4, [amenity |-> "cafe"]),
            Point(3, 6, << >>), Point(4, 1, [tourism |-> "hotel", amenity |-> "pub"])>>

\* Ways as the tagging guidelines of OSM have them, and one that is no road.
Tags == {
    [highway |-> "residential", maxspeed |-> "30"],
    [highway |-> "residential", oneway |-> "-1", maxspeed |-> "0"],
    [highway |-> "motorway", oneway |-> "yes", maxspeed |-> "50 mph"],
    [highway |-> "primary", junction |-> "roundabout", oneway |-> "no"],
    [highway |-> "service", service |-> "driveway"],
    [highway |-> "services"],
    [highway |-> "footway", foot |-> "no"],
    [highway |-> "track", bicycle |-> "no", maxspeed |-> "walk"],
    [highway |-> "pedestrian", area |-> "yes"],
    [highway |-> "cycleway", motor_vehicle |-> "unknown"],
    [highway |-> "proposed"],
    [building |-> "yes"]}

MCFiles ==
    UNION {{Points \o w, w \o Points} :
             w \in {<<Line(11, r, s), Line(12, <<3, 1>>, t)>> :
                      r \in {<<1, 2, 3>>, <<1, 9>>, <<9>>}, s \in Tags, t \in Tags}}

MCCalls ==
    [reader : {"read_pbf", "from_osm", "overpass"},
     types : {<<"drive">>, <<"walk">>, <<"bike">>, <<"all">>}]
    \cup [reader : {"read_pbf_multi"}, types : {<<"walk", "drive_service", "walk">>,
                                              <<"bike", "all_private">>}]

=============================================================================
