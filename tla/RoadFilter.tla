----------------------------- MODULE RoadFilter -----------------------------
(***************************************************************************)
(* The two road filters: a predicate over tags for files read locally      *)
(* (filters.rs), and the query text that has Overpass filter               *)
(* (overpass.rs); and the predicate that picks POIs out of a file.         *)
(*                                                                         *)
(* The tags of an element are a partial function from keys to values.  A   *)
(* predicate compares whole values, a query searches them for a pattern.   *)
(***************************************************************************)
EXTENDS Naturals, FiniteSets

CONSTANTS
    Within,     \* <<p, v>>: the value v contains p, but is not p
    Prefixed    \* those of Within where v starts with p

ASSUME WithinAssumption == Prefixed \subseteq Within

NetworkType == {"drive", "drive_service", "walk", "bike", "all", "all_private"}

StartsWith(v, p) == v = p \/ <<p, v>> \in Prefixed

\* A regular expression of Overpass finds p anywhere in v.
Found(p, v) == v = p \/ <<p, v>> \in Within

----------------------------------------------------------------------------

Unusable == {"abandoned", "construction", "no", "planned", "platform", "proposed",
             "raceway", "razed"}
NoRoad == Unusable \cup {"bus_guideway", "corridor", "elevator", "escalator"}
NotDriven == NoRoad \cup {"bridleway", "cycleway", "footway", "path", "pedestrian",
                          "steps", "track"}
NotServed == {"emergency_access", "parking", "parking_aisle", "private"}

\* The values that exclude a way, by key.
Excluded(type) ==
    CASE type = "drive" ->
           [highway |-> NotDriven \cup {"service"},
            motor_vehicle |-> {"no"}, motorcar |-> {"no"},
            service |-> NotServed \cup {"alley", "driveway"}]
      [] type = "drive_service" ->
           [highway |-> NotDriven, motor_vehicle |-> {"no"}, motorcar |-> {"no"},
            service |-> NotServed]
      [] type = "walk" ->
           [highway |-> NoRoad, foot |-> {"no"}, service |-> {"private"}]
      [] type = "bike" ->
           [highway |-> NoRoad \cup {"footway", "steps"}, bicycle |-> {"no"},
            service |-> {"private"}]
      [] type = "all" -> [highway |-> Unusable, service |-> {"private"}]
      [] OTHER -> [highway |-> Unusable]

way_passes_road_filter(tags, type) ==
    /\ "highway" \in DOMAIN tags
    /\ "area" \in DOMAIN tags => tags["area"] # "yes"
    /\ \A k \in DOMAIN Excluded(type) \cap DOMAIN tags :
         tags[k] \notin Excluded(type)[k]
    /\ type \in {"walk", "bike"} => ~StartsWith(tags["highway"], "motor")

\* get_osm_filter: the patterns a value must not contain, by key.
Patterns(type) ==
    CASE type = "drive" ->
           [highway |-> NotDriven \cup {"service"}, area |-> {"yes"},
            motor_vehicle |-> {"no"}, motorcar |-> {"no"},
            service |-> NotServed \cup {"alley", "driveway"}]
      [] type = "drive_service" ->
           [highway |-> NotDriven, area |-> {"yes"}, motor_vehicle |-> {"no"},
            motorcar |-> {"no"}, service |-> NotServed]
      [] type = "walk" ->
           [highway |-> NoRoad \cup {"motor"}, area |-> {"yes"}, foot |-> {"no"},
            service |-> {"private"}]
      [] type = "bike" ->
           [highway |-> NoRoad \cup {"footway", "motor", "steps"}, area |-> {"yes"},
            bicycle |-> {"no"}, service |-> {"private"}]
      [] type = "all" ->
           [highway |-> Unusable, area |-> {"yes"}, service |-> {"private"}]
      [] OTHER -> [highway |-> Unusable, area |-> {"yes"}]

\* The ways Overpass returns for create_overpass_query.
QuerySelects(tags, type) ==
    /\ "highway" \in DOMAIN tags
    /\ \A k \in DOMAIN Patterns(type) \cap DOMAIN tags :
         \A p \in Patterns(type)[k] : ~Found(p, tags[k])

\* A value of the tags contains a pattern of the query without being it.
PartlyMatched(tags, type) ==
    \E k \in DOMAIN Patterns(type) \cap DOMAIN tags :
        \E p \in Patterns(type)[k] : <<p, tags[k]>> \in Within

----------------------------------------------------------------------------

PoiValues ==
    [natural |-> {"peak", "waterfall", "cave_entrance", "beach", "hot_spring"},
     amenity |-> {"restaurant", "fast_food", "cafe", "bar", "pub", "biergarten",
                  "ice_cream", "food_court", "museum", "theatre", "cinema",
                  "arts_centre", "library", "place_of_worship", "spa", "swimming_pool"},
     leisure |-> {"park", "nature_reserve", "garden", "sports_centre", "fitness_centre"},
     shop |-> {"bakery", "deli", "chocolate", "wine", "cheese", "mall",
               "department_store"}]

is_poi_node(tags) ==
    \/ {"tourism", "historic"} \cap DOMAIN tags # {}
    \/ \E k \in DOMAIN PoiValues \cap DOMAIN tags : tags[k] \in PoiValues[k]

=============================================================================
