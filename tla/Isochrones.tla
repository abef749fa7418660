----------------------------- MODULE Isochrones -----------------------------
(***************************************************************************)
(* One call that builds isochrone polygons (isochrone.rs): the labels of a *)
(* search become a triangulated surface, each time limit cuts it along a   *)
(* contour, and the largest closed ring of the contour is the polygon.     *)
(*                                                                         *)
(* Points are pairs of integers, scaled so that interpolation is exact.  A *)
(* point stands for its cell of the 10 cm grid (ContourKey).               *)
(***************************************************************************)
EXTENDS Integers, FiniteSets, Sequences, SequencesExt

CONSTANTS
    Node,
    Position,   \* the point of each node; several nodes may share one
    Travels,    \* choices of the travel times from the start node
    Requests,   \* [limits, budget]: time_limits and result.max_cost
    NaN         \* a limit or a budget that is no number

ASSUME NodeAssumption ==
    /\ IsFiniteSet(Node)
    /\ Position \in [Node -> Int \X Int]
    /\ Travels \subseteq [Node -> Nat]

ASSUME RequestAssumption ==
    /\ NaN \notin Int
    /\ \A r \in Requests : /\ r.limits \in Seq(Int \cup {NaN})
                           /\ r.budget \in Int \cup {NaN}

VARIABLES
    travel, request,
    labels,     \* result.distances
    times,      \* the vertices: point -> time
    faces,      \* inner_faces of the triangulation, or {} without a surface
    segments,   \* the contour of the limit at hand: sets of two points
    unused,     \* its segments not traced yet
    ring,       \* ring_keys
    best,       \* best_ring, and << >> for None
    polygons,   \* [kind, points] for each limit done: a ring is a sequence of
                \* points, a hull the set of points it is taken of
    pc          \* "search", "surface", "limit", "ring", "trace", "done"

vars == <<travel, request, labels, times, faces, segments, unused, ring, best,
          polygons, pc>>
input == <<travel, request>>
surface == <<labels, times, faces>>
contour == <<segments, unused, ring, best>>

\* a <= b of floats.
AtMost(a, b) == b # NaN /\ a <= b

Limit == request.limits[Len(polygons) + 1]
Latest(f) == CHOOSE t \in Range(f) : \A u \in Range(f) : u <= t

\* Twice the area of the triangle a, b, c, positive when they turn left.
Turn(a, b, c) == (b[1] - a[1]) * (c[2] - a[2]) - (c[1] - a[1]) * (b[2] - a[2])

\* DelaunayTriangulation: the triangles with no other point in their circle.
Delaunay(P) ==
    LET sq(p, q) == (p[1] - q[1]) * (p[1] - q[1]) + (p[2] - q[2]) * (p[2] - q[2])
        InCircle(a, b, c, p) ==
          sq(a, p) * Turn(p, b, c) + sq(b, p) * Turn(p, c, a) + sq(c, p) * Turn(p, a, b) > 0
    IN  {{t[1], t[2], t[3]} : t \in {u \in P \X P \X P :
            /\ Turn(u[1], u[2], u[3]) > 0
            /\ \A p \in P \ {u[1], u[2], u[3]} : ~InCircle(u[1], u[2], u[3], p)}}

empty_polygon == [kind |-> "empty", points |-> {}]

\* convex_hull_from_points of a list of n points.
convex_hull(P, n) == IF n < 3 THEN empty_polygon ELSE [kind |-> "hull", points |-> P]

AllPoints == {Position[n] : n \in DOMAIN labels}
HullOfAll == convex_hull(AllPoints, Cardinality(DOMAIN labels))

\* SATURATED_REUSE_RATIO: 99% of the labels are within the limit.
is_saturated_limit(l) ==
    100 * Cardinality({n \in DOMAIN labels : AtMost(labels[n], l)})
        >= 99 * Cardinality(DOMAIN labels)

\* The contour passes between p and q, p being the one within the limit.
Crosses(p, q, l) == AtMost(times[p], l) /\ ~AtMost(times[q], l) /\ l # NaN

interpolate_contour_point(p, q, l) ==
    LET At(i) == p[i] + ((q[i] - p[i]) * (l - times[p])) \div (times[q] - times[p])
    IN  <<At(1), At(2)>>

\* triangle_contour_segment for each face: its two crossed edges, unless both
\* are crossed at the same point.
contour_segments(l) ==
    {s \in {{interpolate_contour_point(e[1], e[2], l) :
               e \in {d \in f \X f : Crosses(d[1], d[2], l)}} : f \in faces} :
       Cardinality(s) = 2}

\* normalized_edge: the end a trace starts from.
Before(p, q) == p[1] < q[1] \/ (p[1] = q[1] /\ p[2] <= q[2])

current == ring[Len(ring)]

\* Mutant of Closed: the trace meets itself, wherever.
MeetsItself == \E i \in 1 .. Len(ring) - 1 : ring[i] = current

Closed == Len(ring) > 1 /\ current = ring[1]

\* Mutant of Unused: segments are not used up.
NeverUsed(p, q) == unused

\* unused.remove(&normalized_edge(p, q)).
Unused(p, q) == unused \ {{p, q}}

\* The neighbours of current a trace may go on to, in an order no caller knows.
Candidates ==
    {p \in UNION unused : {p, current} \in unused /\ p # ring[Len(ring) - 1]}

\* Twice projected_ring_area.
RingArea(r) ==
    LET sum[i \in 0 .. Len(r) - 1] ==
          IF i = 0 THEN 0
          ELSE sum[i - 1] + r[i][1] * r[i + 1][2] - r[i + 1][1] * r[i][2]
        area == IF Len(r) < 4 THEN 0 ELSE sum[Len(r) - 1]
    IN  IF area < 0 THEN -area ELSE area

\* Mutant of Larger: the last ring wins.
Latter(r, s) == TRUE

\* `area > best_area`.
Larger(r, s) == RingArea(r) > RingArea(s)

----------------------------------------------------------------------------

Init ==
    /\ travel \in Travels /\ request \in Requests
    /\ labels = << >> /\ times = << >> /\ faces = {}
    /\ segments = {} /\ unused = {} /\ ring = << >> /\ best = << >>
    /\ polygons = << >>
    /\ pc = "search"

\* compute_reachability, by the contract of module TimeTable.  Without a label
\* every polygon is empty.
Search ==
    /\ pc = "search"
    /\ labels' = [n \in {m \in Node : AtMost(travel[m], request.budget)} |-> travel[n]]
    /\ IF labels' = << >>
         THEN /\ polygons' = [i \in DOMAIN request.limits |-> empty_polygon]
              /\ pc' = "done"
         ELSE pc' = "surface" /\ UNCHANGED polygons
    /\ UNCHANGED <<input, times, faces, contour>>

\* Mutant of Kept: the last of the nodes in one cell gives the vertex.
LatestAt(p) == CHOOSE t \in {labels[n] : n \in DOMAIN labels} :
                  /\ \E n \in DOMAIN labels : Position[n] = p /\ labels[n] = t
                  /\ \A n \in DOMAIN labels : Position[n] = p => labels[n] <= t

\* Of the nodes in one cell the first in the order of time gives the vertex.
Kept(p) == CHOOSE t \in {labels[n] : n \in DOMAIN labels} :
              /\ \E n \in DOMAIN labels : Position[n] = p /\ labels[n] = t
              /\ \A n \in DOMAIN labels : Position[n] = p => t <= labels[n]

\* TriangulatedSurface::from_graph_times; without one every polygon is the hull
\* of all nodes.
Triangulate ==
    /\ pc = "surface"
    /\ IF Cardinality(AllPoints) < 3
         THEN /\ polygons' = [i \in DOMAIN request.limits |-> HullOfAll]
              /\ pc' = "done"
              /\ UNCHANGED <<times, faces>>
         ELSE /\ times' = [p \in AllPoints |-> Kept(p)]
              /\ faces' = Delaunay(AllPoints)
              /\ pc' = "limit"
              /\ UNCHANGED polygons
    /\ UNCHANGED <<input, labels, contour>>

\* One limit of build_triangulated_isochrones, up to the tracing.
Cut ==
    /\ pc = "limit"
    /\ Len(polygons) < Len(request.limits)
    /\ IF AtMost(Latest(labels), Limit) \/ is_saturated_limit(Limit)
         THEN polygons' = Append(polygons, HullOfAll) /\ UNCHANGED <<contour, pc>>
       ELSE IF contour_segments(Limit) = {}
         THEN polygons' = Append(polygons, empty_polygon) /\ UNCHANGED <<contour, pc>>
       ELSE /\ segments' = contour_segments(Limit)
            /\ unused' = segments'
            /\ ring' = << >> /\ best' = << >>
            /\ pc' = "ring"
            /\ UNCHANGED polygons
    /\ UNCHANGED <<input, surface>>

\* `unused.iter().next()`: any segment, from its first end.
StartRing ==
    /\ pc = "ring"
    /\ \E s \in unused : \E p, q \in s :
         /\ p # q /\ Before(p, q)
         /\ ring' = <<p, q>>
         /\ unused' = Unused(p, q)
    /\ pc' = "trace"
    /\ UNCHANGED <<input, surface, segments, best, polygons>>

Extend ==
    /\ pc = "trace" /\ ~Closed
    /\ \E p \in Candidates :
         /\ ring' = Append(ring, p)
         /\ unused' = Unused(p, current)
    /\ UNCHANGED <<input, surface, segments, best, polygons, pc>>

\* The ring is closed, or its trace has nowhere to go.
EndRing ==
    /\ pc = "trace"
    /\ Closed \/ Candidates = {}
    /\ best' = IF Closed /\ Len(ring) >= 4 /\ Larger(ring, best) THEN ring ELSE best
    /\ pc' = "ring"
    /\ UNCHANGED <<input, surface, segments, unused, ring, polygons>>

\* All segments are used up: the best ring, or the hull of the contour.
Choose ==
    /\ pc = "ring"
    /\ unused = {}
    /\ polygons' = Append(polygons,
         IF best # << >> THEN [kind |-> "ring", points |-> best]
         ELSE convex_hull(UNION segments, 2 * Cardinality(segments)))
    /\ pc' = "limit"
    /\ UNCHANGED <<input, surface, contour>>

Return ==
    /\ pc = "limit"
    /\ Len(polygons) = Len(request.limits)
    /\ pc' = "done"
    /\ UNCHANGED <<input, surface, contour, polygons>>

Next == Search \/ Triangulate \/ Cut \/ StartRing \/ Extend \/ EndRing \/ Choose \/ Return

\* The call runs on one thread and nothing blocks it.
FairSpec == Init /\ [][Next]_vars /\ WF_vars(Next)

----------------------------------------------------------------------------

TypeOK ==
    /\ DOMAIN labels \subseteq Node /\ \A n \in DOMAIN labels : labels[n] \in Nat
    /\ DOMAIN times \subseteq AllPoints
    /\ \A f \in faces : f \subseteq DOMAIN times /\ Cardinality(f) = 3
    /\ \A s \in segments : s \subseteq Int \X Int
    /\ unused \subseteq segments
    /\ \A i \in 1 .. Len(ring) - 1 : {ring[i], ring[i + 1]} \in segments \ unused
    /\ best # << >> => Len(best) >= 4 /\ best[1] = best[Len(best)]
    /\ \A i \in DOMAIN polygons : polygons[i].kind \in {"empty", "hull", "ring"}
    /\ Len(polygons) <= Len(request.limits)
    /\ pc \in {"search", "surface", "limit", "ring", "trace", "done"}

Degree(p) == Cardinality({s \in segments : p \in s})

\* No contour point belongs to three segments or more.
Manifold == \A p \in UNION segments : Degree(p) <= 2

\* A closed trail of three segments or more that meets itself at its ends only.
IsRing(r) ==
    /\ r \in Seq(UNION segments)
    /\ Len(r) >= 4 /\ r[1] = r[Len(r)]
    /\ \A i, j \in 1 .. Len(r) - 1 : r[i] = r[j] => i = j
    /\ \A i \in 1 .. Len(r) - 1 : {r[i], r[i + 1]} \in segments

\* All of them, from the trails of distinct points.
Rings ==
    LET ends == UNION segments
        trails[k \in 1 .. Cardinality(ends)] ==
          IF k = 1 THEN {<<p>> : p \in ends}
          ELSE UNION {{Append(t, p) : p \in {q \in ends \ Range(t) : {t[k - 1], q} \in segments}} :
                        t \in trails[k - 1]}
    IN  {r \in {Append(t, t[1]) : t \in UNION Range(trails)} : IsRing(r)}

\* When a contour without branches is traced, what is kept is a ring of it with
\* an area, if it has one, and none of its rings is larger, although the segments
\* come from a hash set: neither the segment a trace starts with, nor a trace
\* that starts in the middle of an open curve, costs a ring.
LargestRingIsKept ==
    pc = "ring" /\ unused = {} /\ Manifold =>
      /\ best # << >> => IsRing(best) /\ RingArea(best) > 0
      /\ \A r \in Rings : ~Larger(r, best)

----------------------------------------------------------------------------

OnSegment(p, a, b) ==
    /\ Turn(a, b, p) = 0
    /\ (p[1] - a[1]) * (p[1] - b[1]) + (p[2] - a[2]) * (p[2] - b[2]) <= 0

\* A point of the ring, or one that a ray to the right leaves through an odd
\* number of its segments.
InRing(p, r) ==
    \/ \E i \in 1 .. Len(r) - 1 : OnSegment(p, r[i], r[i + 1])
    \/ Cardinality({i \in 1 .. Len(r) - 1 :
         \/ r[i][2] <= p[2] /\ r[i + 1][2] > p[2] /\ Turn(r[i], r[i + 1], p) > 0
         \/ r[i + 1][2] <= p[2] /\ r[i][2] > p[2] /\ Turn(r[i + 1], r[i], p) > 0}) % 2 = 1

\* A hull holds its points, and the triangles between them.
InHull(p, P) ==
    \/ p \in P
    \/ \E a, b, c \in P : Turn(a, b, p) >= 0 /\ Turn(b, c, p) >= 0 /\ Turn(c, a, p) >= 0
                         /\ Turn(a, b, c) > 0
    \/ \E a, b \in P : a # b /\ OnSegment(p, a, b)

Holds(polygon, p) ==
    CASE polygon.kind = "ring" -> InRing(p, polygon.points)
      [] polygon.kind = "hull" -> InHull(p, polygon.points)
      [] OTHER -> FALSE

Within(l) == {n \in DOMAIN labels : AtMost(labels[n], l)}

EnclosesAll(i) == \A n \in Within(request.limits[i]) : Holds(polygons[i], Position[n])

\* The vertices within a limit hang together by sides of the triangles, and none
\* lies on the rim of the surface.
InnerRegion(l) ==
    LET W == {p \in DOMAIN times : AtMost(times[p], l)}
        side(p, q) == {f \in faces : {p, q} \subseteq f}
        reach[k \in 0 .. Cardinality(W)] ==
          IF k = 0 THEN {CHOOSE p \in W : TRUE}
          ELSE LET R == reach[k - 1]
               IN  R \cup {q \in W : \E p \in R : side(p, q) # {}}
    IN  /\ W # {} /\ reach[Cardinality(W)] = W
        /\ \A p \in W : \A q \in DOMAIN times \ {p} : Cardinality(side(p, q)) # 1

Branchless(l) ==
    \A p \in UNION contour_segments(l) :
        Cardinality({s \in contour_segments(l) : p \in s}) <= 2

\* What holds of "each polygon encloses all nodes reachable within the limit"
\* (isochrone.rs:508): a limit that covers every label encloses them all, and so
\* does one whose nodes are one region inside the surface, holes or none.
EnclosesInnerRegion ==
    Cardinality(AllPoints) >= 3 =>
      \A i \in DOMAIN polygons :
        LET l == request.limits[i]
        IN  \/ AtMost(Latest(labels), l)
            \/ faces # {} /\ InnerRegion(l) /\ Branchless(l)
            => EnclosesAll(i)

\* "Each polygon encloses all nodes reachable within the corresponding time
\* limit" (isochrone.rs:508-509), where there are enough of them for a polygon.
EnclosesReachable ==
    Cardinality(AllPoints) >= 3 => \A i \in DOMAIN polygons : EnclosesAll(i)

\* The rings are traced to the end, also where contour lines meet in a point.
Returns == <>(pc = "done")

=============================================================================
