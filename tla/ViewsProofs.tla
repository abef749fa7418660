----------------------------- MODULE ViewsProofs -----------------------------
(***************************************************************************)
(* Views say what the graph they were cut out of says, for every graph,    *)
(* and every sequence of questions asked of it, of its views and of their  *)
(* copies.                                                                 *)
(***************************************************************************)
EXTENDS Views, Lemmas

Times == cost \in [Edge -> Nat]

LEMMA InitTimes == cost \in CostTable => Times
BY TimesAssumption DEF CostTable, Times

LEMMA BadIsNoNumber == Bad \notin Nat /\ \A b \in Budgets : b = Bad \/ b \in Nat
BY NumberAssumption, QuestionAssumption

----------------------------------------------------------------------------
(* What a cut-out keeps.                                                   *)

LEMMA GraphHasLinks ==
    ASSUME Times, NEW g, SpatialGraph(g)
    PROVE  AreLinks(g.nodes, LinksOf(g)) /\ IsFiniteSet(g.nodes)
<1>1. \A e \in g.edges : Source[e] \in g.nodes /\ Target[e] \in g.nodes /\ cost[e] \in Nat
  BY DEF SpatialGraph, Times
<1>2. AreLinks(g.nodes, LinksOf(g))
  BY <1>1 DEF AreLinks, LinksOf
<1>3. g.nodes \subseteq Node
  BY DEF SpatialGraph
<1> QED
  BY <1>2, <1>3, FiniteAssumption, FS_Subset

LEMMA TimesToAreTurned ==
    ASSUME NEW g, NEW n
    PROVE  TimesTo(g, n) = LinkTimes(g.nodes, Turned(LinksOf(g)), n)
BY DEF TimesTo, Turned

LEMMA CutLinks ==
    ASSUME NEW g, NEW N
    PROVE  /\ Subgraph(g, N).nodes = N
           /\ LinksOf(Subgraph(g, N)) = LinksWithin(LinksOf(g), N)
           /\ Turned(LinksOf(Subgraph(g, N))) = LinksWithin(Turned(LinksOf(g)), N)
<1>1. Subgraph(g, N).nodes = N /\ Subgraph(g, N).edges = EdgesWithin(g, N)
  BY DEF Subgraph
<1>2. LinksOf(Subgraph(g, N)) = LinksWithin(LinksOf(g), N)
  BY <1>1 DEF LinksOf, LinksWithin, EdgesWithin
<1>3. Turned(LinksWithin(LinksOf(g), N)) = LinksWithin(Turned(LinksOf(g)), N)
  BY DEF Turned, LinksWithin
<1> QED
  BY <1>1, <1>2, <1>3

\* The times to a node are those from elsewhere.
LEMMA ThereAndBack ==
    ASSUME Times, NEW g, SpatialGraph(g), NEW o \in g.nodes, NEW d \in g.nodes
    PROVE  /\ d \in DOMAIN TimesFrom(g, o) <=> o \in DOMAIN TimesTo(g, d)
           /\ d \in DOMAIN TimesFrom(g, o) => TimesFrom(g, o)[d] = TimesTo(g, d)[o]
BY GraphHasLinks, TimesToAreTurned, TurnedTimes DEF TimesFrom

LEMMA TimesAreNumbers ==
    ASSUME Times, NEW g, SpatialGraph(g), NEW n \in g.nodes
    PROVE  /\ n \in DOMAIN TimesFrom(g, n) /\ TimesFrom(g, n)[n] = 0
           /\ DOMAIN TimesFrom(g, n) \subseteq g.nodes
           /\ \A m \in DOMAIN TimesFrom(g, n) : TimesFrom(g, n)[m] \in Nat
           /\ n \in DOMAIN TimesTo(g, n) /\ TimesTo(g, n)[n] = 0
           /\ DOMAIN TimesTo(g, n) \subseteq g.nodes
           /\ \A m \in DOMAIN TimesTo(g, n) : TimesTo(g, n)[m] \in Nat
<1>1. AreLinks(g.nodes, LinksOf(g)) /\ IsFiniteSet(g.nodes)
  BY GraphHasLinks
<1>2. AreLinks(g.nodes, Turned(LinksOf(g)))
  BY <1>1, TurnedAreLinks
<1> DEFINE T == LinkTimes(g.nodes, LinksOf(g), n)
           U == LinkTimes(g.nodes, Turned(LinksOf(g)), n)
<1>3. n \in DOMAIN T /\ T[n] = 0 /\ DOMAIN T \subseteq g.nodes /\ \A m \in DOMAIN T : T[m] \in Nat
  BY <1>1, LinkTimesTable
<1>4. n \in DOMAIN U /\ U[n] = 0 /\ DOMAIN U \subseteq g.nodes /\ \A m \in DOMAIN U : U[m] \in Nat
  BY <1>1, <1>2, LinkTimesTable
<1> QED
  BY <1>3, <1>4, TimesToAreTurned DEF TimesFrom

\* A cut-out is a graph, and no faster than the whole.
LEMMA CutIsGraph ==
    ASSUME NEW g, SpatialGraph(g), NEW N, N \subseteq g.nodes
    PROVE  SpatialGraph(Subgraph(g, N))
BY DEF SpatialGraph, Subgraph, EdgesWithin, NewSnaps

LEMMA CutNoFaster ==
    ASSUME Times, NEW g, SpatialGraph(g), NEW N, N \subseteq g.nodes, NEW n \in N
    PROVE  \A m \in DOMAIN TimesFrom(Subgraph(g, N), n) :
             /\ m \in DOMAIN TimesFrom(g, n)
             /\ TimesFrom(g, n)[m] <= TimesFrom(Subgraph(g, N), n)[m]
<1>1. TimesFrom(Subgraph(g, N), n) = LinkTimes(N, LinksWithin(LinksOf(g), N), n)
  BY CutLinks DEF TimesFrom
<1>2. AreLinks(g.nodes, LinksOf(g)) /\ IsFiniteSet(g.nodes)
  BY GraphHasLinks
<1>3. \A m \in DOMAIN LinkTimes(N, LinksWithin(LinksOf(g), N), n) :
        /\ m \in DOMAIN LinkTimes(g.nodes, LinksOf(g), n)
        /\ LinkTimes(g.nodes, LinksOf(g), n)[m] <= LinkTimes(N, LinksWithin(LinksOf(g), N), n)[m]
  BY <1>2, CutIsNoFaster
<1> QED
  BY <1>1, <1>3 DEF TimesFrom

\* The labels of a search with a budget are the times of the part they label.
LEMMA ReachableCut ==
    ASSUME Times, NEW g, SpatialGraph(g), NEW n \in g.nodes, NEW budget \in Nat
    PROVE  /\ n \in DOMAIN reachability(g, n, budget)
           /\ DOMAIN reachability(g, n, budget) \subseteq g.nodes
           /\ TimesFrom(Subgraph(g, DOMAIN reachability(g, n, budget)), n)
                = reachability(g, n, budget)
<1> DEFINE T == TimesFrom(g, n)
           D == {m \in DOMAIN T : budget # Bad /\ T[m] <= budget}
           L == LinksOf(g)
<1>1. reachability(g, n, budget) = [m \in D |-> T[m]]
  BY DEF reachability
<1>2. /\ n \in DOMAIN T /\ T[n] = 0 /\ DOMAIN T \subseteq g.nodes
      /\ \A m \in DOMAIN T : T[m] \in Nat
  BY TimesAreNumbers
<1>3. n \in D /\ D \subseteq g.nodes /\ D \subseteq DOMAIN T
  BY <1>2, BadIsNoNumber
<1>4. T = LinkTimes(g.nodes, L, n) /\ AreLinks(g.nodes, L) /\ IsFiniteSet(g.nodes)
  BY GraphHasLinks DEF TimesFrom
<1>5. ClosedCut(L, T, D)
  <2> SUFFICES ASSUME NEW l \in L, l.from \in DOMAIN T, l.to \in D, T[l.to] = T[l.from] + l.time
               PROVE  l.from \in D
    BY DEF ClosedCut
  <2>1. l.time \in Nat /\ T[l.from] \in Nat /\ T[l.to] <= budget /\ T[l.to] \in Nat
    BY <1>2, <1>4 DEF AreLinks
  <2> HIDE DEF T, L
  <2>2. T[l.from] <= budget
    BY <2>1
  <2> QED
    BY <2>2, BadIsNoNumber
<1>6. TimesFrom(Subgraph(g, D), n) = LinkTimes(D, LinksWithin(L, D), n)
  BY CutLinks DEF TimesFrom
<1> HIDE DEF T, D, L
<1>7. LinkTimes(D, LinksWithin(L, D), n) = [m \in D |-> T[m]]
  BY <1>3, <1>4, <1>5, CutTimes
<1>8. DOMAIN reachability(g, n, budget) = D
  BY <1>1
<1> QED
  BY <1>1, <1>3, <1>6, <1>7, <1>8

\* The labels of a prism are the times of the part they label, from its origin
\* and to its destination.
LEMMA PrismCut ==
    ASSUME Times, NEW g, SpatialGraph(g), NEW o \in g.nodes, NEW d \in g.nodes,
           NEW budget \in Nat, d \in DOMAIN TimesFrom(g, o), TimesFrom(g, o)[d] <= budget,
           NEW labels, labels = FeasibleLabels(g, o, d, budget)
    PROVE  /\ o \in DOMAIN labels /\ d \in DOMAIN labels /\ DOMAIN labels \subseteq g.nodes
           /\ \A n \in DOMAIN labels : labels[n] \in [inbound : Nat, outbound : Nat, slack : Nat]
           /\ \A n \in DOMAIN labels : /\ n \in DOMAIN TimesFrom(g, o)
                                       /\ n \in DOMAIN TimesTo(g, d)
           /\ TimesFrom(Subgraph(g, DOMAIN labels), o)
                = [n \in DOMAIN labels |-> labels[n].inbound]
           /\ TimesTo(Subgraph(g, DOMAIN labels), d)
                = [n \in DOMAIN labels |-> labels[n].outbound]
<1> DEFINE in == TimesFrom(g, o)
           out == TimesTo(g, d)
           P == {m \in DOMAIN in \cap DOMAIN out : in[m] + out[m] <= budget}
           L == LinksOf(g)
           M == Turned(L)
<1>1. labels = [n \in P |->
                  [inbound |-> in[n], outbound |-> out[n], slack |-> budget - in[n] - out[n]]]
  BY DEF FeasibleLabels
<1>2. /\ o \in DOMAIN in /\ in[o] = 0 /\ DOMAIN in \subseteq g.nodes
      /\ \A m \in DOMAIN in : in[m] \in Nat
  BY TimesAreNumbers
<1>3. /\ d \in DOMAIN out /\ out[d] = 0 /\ DOMAIN out \subseteq g.nodes
      /\ \A m \in DOMAIN out : out[m] \in Nat
  BY TimesAreNumbers
<1>4. o \in DOMAIN out /\ out[o] = in[d]
  BY ThereAndBack
<1>5. d \in DOMAIN in /\ in[d] <= budget
  OBVIOUS
<1>6. /\ in = LinkTimes(g.nodes, L, o) /\ out = LinkTimes(g.nodes, M, d)
      /\ AreLinks(g.nodes, L) /\ AreLinks(g.nodes, M) /\ IsFiniteSet(g.nodes)
  BY GraphHasLinks, TurnedAreLinks, TimesToAreTurned DEF TimesFrom
<1>7. /\ \A l \in L : l \in M \/ [from |-> l.to, to |-> l.from, time |-> l.time] \in M
      /\ \A l \in M : \E m \in L : m.from = l.to /\ m.to = l.from /\ m.time = l.time
  BY DEF Turned
<1>8. TimesFrom(Subgraph(g, P), o) = LinkTimes(P, LinksWithin(L, P), o)
  BY CutLinks DEF TimesFrom
<1>9. TimesTo(Subgraph(g, P), d) = LinkTimes(P, LinksWithin(M, P), d)
  BY CutLinks, TimesToAreTurned
<1>10. \A l \in L : l.from \in DOMAIN in => l.to \in DOMAIN in /\ in[l.to] <= in[l.from] + l.time
  BY <1>6, LinkTimesTable
<1>11. \A l \in M : l.from \in DOMAIN out => l.to \in DOMAIN out /\ out[l.to] <= out[l.from] + l.time
  BY <1>6, LinkTimesTable
<1>12. \A l \in L : \E m \in M : m.from = l.to /\ m.to = l.from /\ m.time = l.time
  <2> SUFFICES ASSUME NEW l \in L
               PROVE  \E m \in M : m.from = l.to /\ m.to = l.from /\ m.time = l.time
    OBVIOUS
  <2> DEFINE m == [from |-> l.to, to |-> l.from, time |-> l.time]
  <2>1. m \in M
    BY DEF Turned
  <2>2. m.from = l.to /\ m.to = l.from /\ m.time = l.time
    OBVIOUS
  <2> HIDE DEF m
  <2> QED
    BY <2>1, <2>2
<1> HIDE DEF in, out, L, M
<1>13. o \in P /\ d \in P
  BY <1>2, <1>3, <1>4, <1>5
<1>14. P \subseteq DOMAIN in /\ P \subseteq DOMAIN out /\ P \subseteq g.nodes
  BY <1>2
<1>15. ClosedCut(L, in, P)
  <2> SUFFICES ASSUME NEW l \in L, l.from \in DOMAIN in, l.to \in P, in[l.to] = in[l.from] + l.time
               PROVE  l.from \in P
    BY DEF ClosedCut
  <2>1. PICK m \in M : m.from = l.to /\ m.to = l.from /\ m.time = l.time
    BY <1>12
  <2>2. l.to \in DOMAIN out /\ in[l.to] + out[l.to] <= budget
    OBVIOUS
  <2>3. l.from \in DOMAIN out /\ out[l.from] <= out[l.to] + l.time
    BY <1>11, <2>1, <2>2
  <2>4. /\ l.time \in Nat /\ in[l.from] \in Nat /\ in[l.to] \in Nat
        /\ out[l.from] \in Nat /\ out[l.to] \in Nat
    BY <1>2, <1>3, <1>6, <2>2, <2>3 DEF AreLinks
  <2>5. in[l.from] + out[l.from] <= budget
    BY <2>2, <2>3, <2>4
  <2> QED
    BY <2>3, <2>5
<1>16. ClosedCut(M, out, P)
  <2> SUFFICES ASSUME NEW l \in M, l.from \in DOMAIN out, l.to \in P, out[l.to] = out[l.from] + l.time
               PROVE  l.from \in P
    BY DEF ClosedCut
  <2>1. PICK m \in L : m.from = l.to /\ m.to = l.from /\ m.time = l.time
    BY <1>7
  <2>2. l.to \in DOMAIN in /\ in[l.to] + out[l.to] <= budget
    OBVIOUS
  <2>3. l.from \in DOMAIN in /\ in[l.from] <= in[l.to] + l.time
    BY <1>10, <2>1, <2>2
  <2>4. /\ l.time \in Nat /\ in[l.from] \in Nat /\ in[l.to] \in Nat
        /\ out[l.from] \in Nat /\ out[l.to] \in Nat
    BY <1>2, <1>3, <1>6, <2>2, <2>3 DEF AreLinks
  <2>5. in[l.from] + out[l.from] <= budget
    BY <2>2, <2>3, <2>4
  <2> QED
    BY <2>3, <2>5
<1>17. \A n \in P : [inbound |-> in[n], outbound |-> out[n], slack |-> budget - in[n] - out[n]]
                      \in [inbound : Nat, outbound : Nat, slack : Nat]
  <2> SUFFICES ASSUME NEW n \in P PROVE in[n] \in Nat /\ out[n] \in Nat /\ budget - in[n] - out[n] \in Nat
    OBVIOUS
  <2>1. in[n] \in Nat /\ out[n] \in Nat /\ in[n] + out[n] <= budget
    BY <1>2, <1>3
  <2> QED
    BY <2>1
<1> HIDE DEF P
<1>18. LinkTimes(P, LinksWithin(L, P), o) = [m \in P |-> in[m]]
  BY <1>6, <1>13, <1>14, <1>15, CutTimes
<1>19. LinkTimes(P, LinksWithin(M, P), d) = [m \in P |-> out[m]]
  BY <1>6, <1>13, <1>14, <1>16, CutTimes
<1>20. DOMAIN labels = P
  BY <1>1
<1>21. \A n \in P : labels[n].inbound = in[n] /\ labels[n].outbound = out[n]
  BY <1>1
<1>22. \A n \in P : labels[n] \in [inbound : Nat, outbound : Nat, slack : Nat]
  BY <1>1, <1>17
<1>23. \A n \in P : n \in DOMAIN in /\ n \in DOMAIN out
  BY <1>14
<1> QED
  BY <1>8, <1>9, <1>13, <1>14, <1>18, <1>19, <1>20, <1>21, <1>22, <1>23 DEF in, out

----------------------------------------------------------------------------
(* The inductive invariant: where a view and an answer come from.          *)

\* A graph is a record of nothing else.
Held(g) == g = [nodes |-> g.nodes, edges |-> g.edges, snaps |-> g.snaps] /\ SpatialGraph(g)

\* A view is that of a search on the graph it was cloned from, which has changed
\* in nothing but the snaps since.
ViewOf(v) ==
    /\ Held(v.graph) /\ v.graph.nodes = sg.nodes /\ v.graph.edges = sg.edges
    /\ v.origin \in v.graph.nodes /\ v.destination \in v.graph.nodes
    /\ v.budget \in Budgets
    /\ \/ /\ v.kind = "reachable"
          /\ v.labels = reachability(v.graph, v.origin, v.budget)
       \/ /\ v.kind = "prism" /\ v.budget # Bad
          /\ v.destination \in DOMAIN TimesFrom(v.graph, v.origin)
          /\ TimesFrom(v.graph, v.origin)[v.destination] <= v.budget
          /\ v.labels = FeasibleLabels(v.graph, v.origin, v.destination, v.budget)

\* The answers of the searches, and those without a result.
IsRoute(a) ==
    /\ a.kind = "route" /\ a.on \in {"sg", "copy"} /\ (a.on = "copy" => view # NoView)
    /\ a.from \in Graph(a.on).nodes /\ a.to \in Graph(a.on).nodes
    /\ a.to \in DOMAIN TimesFrom(Graph(a.on), a.from)
    /\ a.time = TimesFrom(Graph(a.on), a.from)[a.to]
IsNoRoute(a) ==
    /\ a.kind = "no route" /\ a.on \in {"sg", "copy"} /\ (a.on = "copy" => view # NoView)
    /\ a.from \in Graph(a.on).nodes /\ a.to \in Graph(a.on).nodes
    /\ a.to \notin DOMAIN TimesFrom(Graph(a.on), a.from)
IsIsochrone(a) ==
    /\ a.kind = "isochrone" /\ a.on \in {"sg", "copy"} /\ (a.on = "copy" => view # NoView)
    /\ a.from \in Graph(a.on).nodes /\ a.budget \in Budgets \ {Bad}
    /\ a.labels = reachability(Graph(a.on), a.from, a.budget)
IsPois(a) ==
    /\ a.kind = "pois" /\ a.on \in Graphs
    /\ a.from \in Graph(a.on).nodes /\ a.budget \in Budgets \ {Bad}
    /\ a.times = [p \in FoundPois(Graph(a.on), a.from, a.budget) |->
                     reachability(Graph(a.on), a.from, a.budget)[Graph(a.on).snaps[p]]]
Resultless == {"too far", "no node", "no path", "too tight", "error"}

Given(a) ==
    a.kind \in Resultless \/ IsRoute(a) \/ IsNoRoute(a) \/ IsIsochrone(a) \/ IsPois(a)

IInv ==
    /\ Times
    /\ Held(sg)
    /\ view # NoView => ViewOf(view)
    /\ answer # NoAnswer => Given(answer)

\* New snaps of the graph are none of a view.
LEMMA SameViews ==
    ASSUME UNCHANGED cost, UNCHANGED sg.nodes, UNCHANGED sg.edges
    PROVE  \A v : ViewOf(v)' <=> ViewOf(v)
BY DEF ViewOf, Held, SpatialGraph, TimesFrom, TimesTo, LinksOf, reachability, FeasibleLabels

\* Nothing but the answer changes.
LEMMA SameWorld ==
    ASSUME UNCHANGED <<cost, sg, view>>
    PROVE  /\ \A a : Given(a)' <=> Given(a)
           /\ \A v : ViewOf(v)' <=> ViewOf(v)
<1> USE DEF Graph, Graphs, materialize, Subgraph, EdgesWithin, NewSnaps, TimesFrom, TimesTo,
            LinksOf, reachability, FoundPois, FeasibleLabels, Held, SpatialGraph
<1>1. \A a : IsRoute(a)' <=> IsRoute(a)
  BY DEF IsRoute
<1>2. \A a : IsNoRoute(a)' <=> IsNoRoute(a)
  BY DEF IsNoRoute
<1>3. \A a : IsIsochrone(a)' <=> IsIsochrone(a)
  BY DEF IsIsochrone
<1>4. \A a : IsPois(a)' <=> IsPois(a)
  BY DEF IsPois
<1>5. \A v : ViewOf(v)' <=> ViewOf(v)
  BY DEF ViewOf
<1> QED
  BY <1>1, <1>2, <1>3, <1>4, <1>5 DEF Given

LEMMA InitIInv == Init => IInv
<1> SUFFICES ASSUME Init PROVE IInv
  OBVIOUS
<1>1. Times
  BY InitTimes DEF Init
<1>2. Held(sg)
  BY GraphAssumption DEF Init, Held, SpatialGraph
<1> QED
  BY <1>1, <1>2 DEF Init, IInv

\* A step that changes nothing but the answer.
Answers(a) == UNCHANGED <<cost, sg, view>> /\ answer' = a

LEMMA AnswerInv ==
    ASSUME IInv, NEW a, Answers(a), a # NoAnswer => Given(a)
    PROVE  IInv'
<1>1. Times' /\ Held(sg)'
  BY DEF IInv, Times, Held, SpatialGraph, Answers
<1>2. (view # NoView => ViewOf(view))'
  BY SameWorld DEF IInv, Answers
<1>3. (answer # NoAnswer => Given(answer))'
  BY SameWorld DEF Answers
<1> QED
  BY <1>1, <1>2, <1>3 DEF IInv

LEMMA ResultlessInv ==
    ASSUME IInv, NEW a, a.kind \in Resultless, Answers(a)
    PROVE  IInv'
BY AnswerInv DEF Given

\* A step that sets the view to what a search on the graph labels.
LEMMA ViewInv ==
    ASSUME IInv, NEW v, UNCHANGED <<cost, sg, answer>>, answer = NoAnswer,
           view' = v, ViewOf(v)
    PROVE  IInv'
<1>1. Times' /\ Held(sg)'
  BY DEF IInv, Times, Held, SpatialGraph
<1>2. \A g : LinksOf(g)' = LinksOf(g)
  BY DEF LinksOf
<1>3. \A g, n : TimesFrom(g, n)' = TimesFrom(g, n) /\ TimesTo(g, n)' = TimesTo(g, n)
  BY <1>2 DEF TimesFrom, TimesTo
<1>4. \A g, n, b : reachability(g, n, b)' = reachability(g, n, b)
  BY <1>3 DEF reachability
<1>5. \A g, o, d, b : FeasibleLabels(g, o, d, b)' = FeasibleLabels(g, o, d, b)
  BY <1>3 DEF FeasibleLabels
<1>6. \A g : Held(g)' <=> Held(g)
  BY DEF Held, SpatialGraph
<1>7. ViewOf(v)'
  BY <1>3, <1>4, <1>5, <1>6 DEF ViewOf
<1> QED
  BY <1>1, <1>7 DEF IInv

LEMMA SnappedNodes ==
    ASSUME NEW name, NEW at, NEW limit
    PROVE  Snapped(name, at, limit) \subseteq Graph(name).nodes
BY DEF Snapped, snap_point

LEMMA SnapFailsInv ==
    ASSUME IInv, NEW name, NEW at, NEW limit, SnapFails(name, at, limit), UNCHANGED <<cost, sg>>
    PROVE  IInv'
<1>1. CASE answer' = [kind |-> "no node"]
  <2>1. PICK a : a = [kind |-> "no node"]
    OBVIOUS
  <2> QED
    <3>1. Answers(a)
      BY <1>1, <2>1 DEF SnapFails, Answers
    <3>2. a.kind \in Resultless
      BY <2>1 DEF Resultless
    <3> QED
      BY <3>1, <3>2, ResultlessInv
<1>2. CASE answer' = [kind |-> "too far", at |-> at, limit |-> limit, nodes |-> Graph(name).nodes]
  <2>1. PICK a : a = [kind |-> "too far", at |-> at, limit |-> limit, nodes |-> Graph(name).nodes]
    OBVIOUS
  <2>2. a.kind \in Resultless
    BY <2>1 DEF Resultless
  <2>3. Answers(a)
    BY <1>2, <2>1 DEF SnapFails, Answers
  <2> QED
    BY <2>2, <2>3, ResultlessInv
<1> QED
  BY <1>1, <1>2 DEF SnapFails

LEMMA SnapPoisInv ==
    ASSUME IInv, NEW P \in PoiLists, snap_pois(P)
    PROVE  IInv'
<1>1. /\ answer = NoAnswer /\ UNCHANGED <<cost, view, answer>>
      /\ Times /\ Held(sg)
      /\ view # NoView => ViewOf(view)
  BY DEF snap_pois, IInv
<1>2. PICK snap \in [IF sg.nodes = {} THEN {} ELSE P -> sg.nodes] :
        sg' = [sg EXCEPT !.snaps = snap]
  BY DEF snap_pois
<1>3. sg' = [nodes |-> sg.nodes, edges |-> sg.edges, snaps |-> snap]
  <2>1. Held(sg)
    BY <1>1
  <2>2. sg = [nodes |-> sg.nodes, edges |-> sg.edges, snaps |-> sg.snaps]
    BY <2>1 DEF Held
  <2> QED
    BY <1>2, <2>2
<1>4. DOMAIN snap \subseteq DOMAIN Poi /\ \A p \in DOMAIN snap : snap[p] \in sg.nodes
  BY <1>2, QuestionAssumption
<1>5. Held(sg)'
  BY <1>1, <1>3, <1>4 DEF Held, SpatialGraph
<1>6. (view # NoView => ViewOf(view))'
  <2>1. UNCHANGED cost /\ UNCHANGED sg.nodes /\ UNCHANGED sg.edges
    BY <1>1, <1>3
  <2> QED
    BY <1>1, <2>1, SameViews
<1> QED
  BY <1>1, <1>5, <1>6 DEF IInv, Times

LEMMA ReachableGraphInv ==
    ASSUME IInv, NEW at, NEW budget \in Budgets, NEW limit, reachable_graph(at, budget, limit)
    PROVE  IInv'
<1>1. answer = NoAnswer /\ UNCHANGED <<cost, sg>> /\ Held(sg)
  BY DEF reachable_graph, IInv
<1>2. CASE SnapFails("sg", at, limit)
  BY <1>1, <1>2, SnapFailsInv
<1>3. ASSUME NEW n \in Snapped("sg", at, limit),
             view' = [kind |-> "reachable", graph |-> sg, origin |-> n,
                      destination |-> n, budget |-> budget,
                      labels |-> reachability(sg, n, budget)],
             UNCHANGED answer
      PROVE  IInv'
  <2> DEFINE v == [kind |-> "reachable", graph |-> sg, origin |-> n,
                   destination |-> n, budget |-> budget,
                   labels |-> reachability(sg, n, budget)]
  <2>1. n \in sg.nodes
    BY SnappedNodes DEF Graph
  <2>2. ViewOf(v)
    BY <1>1, <2>1 DEF ViewOf
  <2> HIDE DEF v
  <2> QED
    BY <1>1, <1>3, <2>2, ViewInv DEF v
<1> QED
  BY <1>2, <1>3 DEF reachable_graph

LEMMA PrismInv ==
    ASSUME IInv, NEW at, NEW to, NEW budget \in Budgets, NEW limit, prism(at, to, budget, limit)
    PROVE  IInv'
<1>1. answer = NoAnswer /\ UNCHANGED <<cost, sg>> /\ Held(sg) /\ budget # Bad
  BY DEF prism, IInv
<1>2. CASE SnapFails("sg", at, limit)
  BY <1>1, <1>2, SnapFailsInv
<1>3. CASE SnapFails("sg", to, limit)
  BY <1>1, <1>3, SnapFailsInv
<1>4. ASSUME NEW o \in Snapped("sg", at, limit), NEW d \in Snapped("sg", to, limit),
             PrismBetween(o, d, budget)
      PROVE  IInv'
  <2>1. o \in sg.nodes /\ d \in sg.nodes
    BY SnappedNodes DEF Graph
  <2> DEFINE v == [kind |-> "prism", graph |-> sg, origin |-> o, destination |-> d,
                   budget |-> budget, labels |-> FeasibleLabels(sg, o, d, budget)]
             in == TimesFrom(sg, o)
  <2>2. CASE d \notin DOMAIN in
    <3>1. PICK a : a = [kind |-> "no path"]
      OBVIOUS
    <3>2. Answers(a)
      BY <1>1, <1>4, <2>2, <3>1 DEF PrismBetween, Answers
    <3>3. a.kind \in Resultless
      BY <3>1 DEF Resultless
    <3> QED
      BY <3>2, <3>3, ResultlessInv
  <2>3. CASE d \in DOMAIN in /\ in[d] > budget
    <3>1. PICK a : a = [kind |-> "too tight"]
      OBVIOUS
    <3>2. Answers(a)
      BY <1>1, <1>4, <2>3, <3>1 DEF PrismBetween, Answers
    <3>3. a.kind \in Resultless
      BY <3>1 DEF Resultless
    <3> QED
      BY <3>2, <3>3, ResultlessInv
  <2>4. CASE d \in DOMAIN in /\ ~(in[d] > budget)
    <3>1. view' = v /\ UNCHANGED answer
      BY <1>4, <2>4 DEF PrismBetween
    <3>2. in[d] \in Nat /\ budget \in Nat
      BY <1>1, <2>1, <2>4, TimesAreNumbers, BadIsNoNumber DEF IInv, Held
    <3>3. in[d] <= budget
      BY <2>4, <3>2
    <3>4. ViewOf(v)
      BY <1>1, <2>1, <2>4, <3>3 DEF ViewOf
    <3> HIDE DEF v
    <3> QED
      BY <1>1, <3>1, <3>4, ViewInv
  <2> QED
    BY <2>2, <2>3, <2>4
<1> QED
  BY <1>2, <1>3, <1>4 DEF prism

\* The labels of a view are nodes of its graph.
LEMMA LabelsAreNodes ==
    ASSUME IInv, view # NoView
    PROVE  DOMAIN view.labels \subseteq view.graph.nodes
<1>1. Times /\ ViewOf(view) /\ SpatialGraph(view.graph)
  BY DEF IInv, ViewOf, Held
<1>2. CASE view.kind = "reachable"
  <2>1. view.origin \in view.graph.nodes /\ view.labels = reachability(view.graph, view.origin, view.budget)
    BY <1>1, <1>2 DEF ViewOf
  <2>2. DOMAIN TimesFrom(view.graph, view.origin) \subseteq view.graph.nodes
    BY <1>1, <2>1, TimesAreNumbers
  <2> QED
    BY <2>1, <2>2 DEF reachability
<1>3. CASE view.kind = "prism"
  <2>1. /\ view.origin \in view.graph.nodes /\ view.destination \in view.graph.nodes
        /\ view.budget \in Nat /\ view.destination \in DOMAIN TimesFrom(view.graph, view.origin)
        /\ TimesFrom(view.graph, view.origin)[view.destination] <= view.budget
        /\ view.labels = FeasibleLabels(view.graph, view.origin, view.destination, view.budget)
    BY <1>1, <1>3, BadIsNoNumber DEF ViewOf
  <2>2. PICK g, o, d, b, labels : /\ g = view.graph /\ o = view.origin /\ d = view.destination
                                 /\ b = view.budget /\ labels = view.labels
    OBVIOUS
  <2>3. /\ Times /\ SpatialGraph(g) /\ o \in g.nodes /\ d \in g.nodes /\ b \in Nat
        /\ d \in DOMAIN TimesFrom(g, o) /\ TimesFrom(g, o)[d] <= b
        /\ labels = FeasibleLabels(g, o, d, b)
    BY <1>1, <2>1, <2>2
  <2>4. DOMAIN labels \subseteq g.nodes
    BY <2>3, PrismCut
  <2> QED
    BY <2>2, <2>4
<1> QED
  BY <1>1, <1>2, <1>3 DEF ViewOf

LEMMA MaterializeInv == IInv /\ Materialize => IInv'
<1> SUFFICES ASSUME IInv, Materialize PROVE IInv'
  OBVIOUS
<1>1. /\ view # NoView /\ answer = NoAnswer /\ sg' = Subgraph(view.graph, DOMAIN view.labels)
      /\ view' = NoView /\ UNCHANGED <<cost, answer>> /\ Times
  BY DEF Materialize, materialize, IInv
<1>2. SpatialGraph(view.graph)
  BY <1>1 DEF IInv, ViewOf, Held
<1>3. SpatialGraph(Subgraph(view.graph, DOMAIN view.labels))
  BY <1>1, <1>2, LabelsAreNodes, CutIsGraph
<1>4. Held(Subgraph(view.graph, DOMAIN view.labels))
  BY <1>3 DEF Held, Subgraph
<1>5. Held(sg)'
  BY <1>1, <1>4 DEF Held, SpatialGraph
<1> QED
  BY <1>1, <1>5 DEF IInv, Times

LEMMA RouteInv ==
    ASSUME IInv, NEW name \in {"sg", "copy"}, name = "copy" => view # NoView,
           NEW at, NEW to, NEW limit, RouteOn(name, at, to, limit)
    PROVE  IInv'
<1>1. answer = NoAnswer /\ UNCHANGED <<cost, sg>>
  BY DEF RouteOn
<1>2. CASE SnapFails(name, at, limit)
  BY <1>1, <1>2, SnapFailsInv
<1>3. CASE SnapFails(name, to, limit)
  BY <1>1, <1>3, SnapFailsInv
<1>4. ASSUME NEW o \in Snapped(name, at, limit), NEW d \in Snapped(name, to, limit),
             UNCHANGED view,
             answer' = IF d \in DOMAIN TimesFrom(Graph(name), o)
               THEN [kind |-> "route", on |-> name, from |-> o, to |-> d,
                     time |-> TimesFrom(Graph(name), o)[d]]
               ELSE [kind |-> "no route", on |-> name, from |-> o, to |-> d]
      PROVE  IInv'
  <2>1. o \in Graph(name).nodes /\ d \in Graph(name).nodes
    BY SnappedNodes
  <2>2. CASE d \in DOMAIN TimesFrom(Graph(name), o)
    <3>1. PICK a : a = [kind |-> "route", on |-> name, from |-> o, to |-> d,
                        time |-> TimesFrom(Graph(name), o)[d]]
      OBVIOUS
    <3>2. Answers(a)
      BY <1>1, <1>4, <2>2, <3>1 DEF Answers
    <3>3. IsRoute(a)
      BY <2>1, <2>2, <3>1 DEF IsRoute
    <3> QED
      BY <3>2, <3>3, AnswerInv DEF Given
  <2>3. CASE d \notin DOMAIN TimesFrom(Graph(name), o)
    <3>1. PICK a : a = [kind |-> "no route", on |-> name, from |-> o, to |-> d]
      OBVIOUS
    <3>2. Answers(a)
      BY <1>1, <1>4, <2>3, <3>1 DEF Answers
    <3>3. IsNoRoute(a)
      BY <2>1, <2>3, <3>1 DEF IsNoRoute
    <3> QED
      BY <3>2, <3>3, AnswerInv DEF Given
  <2> QED
    BY <2>2, <2>3
<1> QED
  BY <1>2, <1>3, <1>4 DEF RouteOn

LEMMA IsochroneInv ==
    ASSUME IInv, NEW name \in {"sg", "copy"}, name = "copy" => view # NoView,
           NEW at, NEW budget \in Budgets, NEW limit, IsochronesOn(name, at, budget, limit)
    PROVE  IInv'
<1>1. answer = NoAnswer /\ UNCHANGED <<cost, sg>> /\ budget # Bad
  BY DEF IsochronesOn
<1>2. CASE SnapFails(name, at, limit)
  BY <1>1, <1>2, SnapFailsInv
<1>3. ASSUME NEW n \in Snapped(name, at, limit), UNCHANGED view,
             answer' = [kind |-> "isochrone", on |-> name, from |-> n, budget |-> budget,
                        labels |-> reachability(Graph(name), n, budget)]
      PROVE  IInv'
  <2>1. n \in Graph(name).nodes
    BY SnappedNodes
  <2>2. PICK a : a = [kind |-> "isochrone", on |-> name, from |-> n, budget |-> budget,
                      labels |-> reachability(Graph(name), n, budget)]
    OBVIOUS
  <2>3. Answers(a)
    BY <1>1, <1>3, <2>2 DEF Answers
  <2>4. IsIsochrone(a)
    BY <1>1, <2>1, <2>2 DEF IsIsochrone
  <2> QED
    BY <2>3, <2>4, AnswerInv DEF Given
<1> QED
  BY <1>2, <1>3 DEF IsochronesOn

LEMMA PoisInv ==
    ASSUME IInv, NEW name \in Graphs, NEW at, NEW budget \in Budgets,
           reachable_pois(name, at, budget)
    PROVE  IInv'
<1>1. answer = NoAnswer /\ UNCHANGED <<cost, sg>> /\ budget # Bad
  BY DEF reachable_pois
<1>2. CASE SnapFails(name, at, NoLimit)
  BY <1>1, <1>2, SnapFailsInv
<1>3. ASSUME NEW n \in Snapped(name, at, NoLimit), UNCHANGED view,
             answer' = [kind |-> "pois", on |-> name, from |-> n, budget |-> budget,
                        times |-> [p \in FoundPois(Graph(name), n, budget) |->
                                     reachability(Graph(name), n, budget)[Graph(name).snaps[p]]]]
      PROVE  IInv'
  <2>1. n \in Graph(name).nodes
    BY SnappedNodes
  <2>2. PICK a : a = [kind |-> "pois", on |-> name, from |-> n, budget |-> budget,
                      times |-> [p \in FoundPois(Graph(name), n, budget) |->
                                   reachability(Graph(name), n, budget)[Graph(name).snaps[p]]]]
    OBVIOUS
  <2>3. Answers(a)
    BY <1>1, <1>3, <2>2 DEF Answers
  <2>4. IsPois(a)
    BY <1>1, <2>1, <2>2 DEF IsPois
  <2> QED
    BY <2>3, <2>4, AnswerInv DEF Given
<1> QED
  BY <1>2, <1>3 DEF reachable_pois

LEMMA NextIInv == IInv /\ [Next]_vars => IInv'
<1> SUFFICES ASSUME IInv, [Next]_vars PROVE IInv'
  OBVIOUS
<1>1. CASE Take
  <2>1. Answers(NoAnswer)
    BY <1>1 DEF Take, Answers
  <2> QED
    BY <2>1, AnswerInv
<1>2. CASE UNCHANGED vars
  <2>1. Answers(answer) /\ (answer # NoAnswer => Given(answer))
    BY <1>2 DEF vars, Answers, IInv
  <2>2. PICK a : a = answer
    OBVIOUS
  <2> QED
    BY <2>1, <2>2, AnswerInv
<1>3. CASE pois_fail
  <2>1. PICK a : a = [kind |-> "error"]
    OBVIOUS
  <2>2. Answers(a) /\ a.kind \in Resultless
    BY <1>3, <2>1 DEF pois_fail, Answers, Resultless
  <2> QED
    BY <2>2, ResultlessInv
<1>4. CASE \E P \in PoiLists : snap_pois(P)
  BY <1>4, SnapPoisInv
<1>5. CASE Materialize
  BY <1>5, MaterializeInv
<1>6. ASSUME NEW at \in Places, NEW budget \in Budgets, NEW limit \in Limits,
             \/ reachable_graph(at, budget, limit)
             \/ isochrone(at, budget, limit)
             \/ reachable_isochrone(at, budget, limit)
             \/ prism_isochrone(at, budget, limit)
             \/ \E to \in Places : prism(at, to, budget, limit)
      PROVE  IInv'
  <2>1. CASE reachable_graph(at, budget, limit)
    BY <2>1, ReachableGraphInv
  <2>2. CASE isochrone(at, budget, limit)
    BY <2>2, IsochroneInv DEF isochrone
  <2>3. CASE reachable_isochrone(at, budget, limit)
    BY <2>3, IsochroneInv DEF reachable_isochrone
  <2>4. CASE prism_isochrone(at, budget, limit)
    BY <2>4, IsochroneInv DEF prism_isochrone
  <2>5. CASE \E to \in Places : prism(at, to, budget, limit)
    BY <2>5, PrismInv
  <2> QED
    BY <1>6, <2>1, <2>2, <2>3, <2>4, <2>5
<1>7. ASSUME NEW at \in Places, NEW to \in Places, NEW limit \in Limits,
             route(at, to, limit) \/ reachable_route(at, to, limit) \/ prism_route(at, to, limit)
      PROVE  IInv'
  <2>1. CASE route(at, to, limit)
    BY <2>1, RouteInv DEF route
  <2>2. CASE reachable_route(at, to, limit)
    BY <2>2, RouteInv DEF reachable_route
  <2>3. CASE prism_route(at, to, limit)
    BY <2>3, RouteInv DEF prism_route
  <2> QED
    BY <1>7, <2>1, <2>2, <2>3
<1>8. CASE \E name \in Graphs, at \in Places, budget \in Budgets : reachable_pois(name, at, budget)
  BY <1>8, PoisInv
<1> QED
  BY <1>1, <1>2, <1>3, <1>4, <1>5, <1>6, <1>7, <1>8 DEF Next

\* Where every view and every answer comes from.
THEOREM Invariance == Spec => []IInv
<1> QED
  BY InitIInv, NextIInv, PTL DEF Spec

----------------------------------------------------------------------------
(* What the invariant says of a view.                                      *)

LEMMA LabelsOfReachable ==
    ASSUME IInv, view # NoView, view.kind = "reachable", view.budget # Bad
    PROVE  /\ view.origin \in DOMAIN view.labels
           /\ view.labels = reachability(view.graph, view.origin, view.budget)
           /\ TimesFrom(materialize(view), view.origin) = view.labels
<1>1. PICK g, o, b, labels :
        g = view.graph /\ o = view.origin /\ b = view.budget /\ labels = view.labels
  OBVIOUS
<1>2. /\ Times /\ SpatialGraph(g) /\ o \in g.nodes /\ b \in Nat
      /\ labels = reachability(g, o, b)
  BY <1>1, BadIsNoNumber DEF IInv, ViewOf, Held
<1>3. o \in DOMAIN labels /\ TimesFrom(Subgraph(g, DOMAIN labels), o) = labels
  BY <1>2, ReachableCut
<1> QED
  BY <1>1, <1>2, <1>3 DEF materialize

LEMMA LabelsOfPrism ==
    ASSUME IInv, view # NoView, view.kind = "prism"
    PROVE  /\ view.origin \in DOMAIN view.labels /\ view.destination \in DOMAIN view.labels
           /\ \A n \in DOMAIN view.labels :
                view.labels[n] \in [inbound : Nat, outbound : Nat, slack : Nat]
           /\ TimesFrom(materialize(view), view.origin) = prism_features(view).inbound
           /\ TimesTo(materialize(view), view.destination) = prism_features(view).outbound
<1>1. PICK g, o, d, b, labels : /\ g = view.graph /\ o = view.origin /\ d = view.destination
                               /\ b = view.budget /\ labels = view.labels
  OBVIOUS
<1>2. /\ Times /\ SpatialGraph(g) /\ o \in g.nodes /\ d \in g.nodes /\ b \in Nat
      /\ d \in DOMAIN TimesFrom(g, o) /\ TimesFrom(g, o)[d] <= b
      /\ labels = FeasibleLabels(g, o, d, b)
  BY <1>1, BadIsNoNumber DEF IInv, ViewOf, Held
<1>3. /\ o \in DOMAIN labels /\ d \in DOMAIN labels
      /\ \A n \in DOMAIN labels : labels[n] \in [inbound : Nat, outbound : Nat, slack : Nat]
  BY <1>2, PrismCut
<1>4. /\ TimesFrom(Subgraph(g, DOMAIN labels), o) = [n \in DOMAIN labels |-> labels[n].inbound]
      /\ TimesTo(Subgraph(g, DOMAIN labels), d) = [n \in DOMAIN labels |-> labels[n].outbound]
  BY <1>2, PrismCut
<1>5. /\ prism_features(view).inbound = [n \in DOMAIN labels |-> labels[n].inbound]
      /\ prism_features(view).outbound = [n \in DOMAIN labels |-> labels[n].outbound]
  BY <1>1 DEF prism_features
<1> QED
  BY <1>1, <1>3, <1>4, <1>5 DEF materialize

LEMMA CopyIsGraph ==
    ASSUME IInv, view # NoView
    PROVE  /\ SpatialGraph(view.graph) /\ SpatialGraph(materialize(view))
           /\ materialize(view).nodes = DOMAIN view.labels
           /\ DOMAIN view.labels \subseteq view.graph.nodes
           /\ \/ view.kind = "reachable" \/ view.kind = "prism"
<1>1. SpatialGraph(view.graph) /\ (view.kind = "reachable" \/ view.kind = "prism")
  BY DEF IInv, ViewOf, Held
<1>2. DOMAIN view.labels \subseteq view.graph.nodes
  BY LabelsAreNodes
<1>3. SpatialGraph(materialize(view))
  BY <1>1, <1>2, CutIsGraph DEF materialize
<1> QED
  BY <1>1, <1>2, <1>3 DEF materialize, Subgraph

LEMMA IInvImpliesTypeOK == IInv => TypeOK
<1> SUFFICES ASSUME IInv PROVE TypeOK
  OBVIOUS
<1>1. SpatialGraph(sg)
  BY DEF IInv, Held
<1>2. ASSUME view # NoView
      PROVE  /\ view.kind \in {"reachable", "prism"}
             /\ SpatialGraph(view.graph)
             /\ {view.origin, view.destination} \subseteq view.graph.nodes
             /\ view.budget \in Budgets
             /\ DOMAIN view.labels \subseteq view.graph.nodes
             /\ view.kind = "prism" =>
                  \A n \in DOMAIN view.labels :
                    view.labels[n] \in [inbound : Nat, outbound : Nat, slack : Nat]
  BY <1>2, CopyIsGraph, LabelsOfPrism DEF IInv, ViewOf
<1>3. ASSUME answer # NoAnswer
      PROVE  answer.kind \in {"too far", "no node", "no path", "too tight",
               "route", "no route", "isochrone", "pois", "error"}
  BY <1>3 DEF IInv, Given, Resultless, IsRoute, IsNoRoute, IsIsochrone, IsPois
<1> QED
  BY <1>1, <1>2, <1>3 DEF TypeOK

LEMMA IInvImpliesViewTimesHold == IInv => ViewTimesHold
<1> SUFFICES ASSUME IInv, view # NoView PROVE ViewTimesHold
  BY DEF ViewTimesHold
<1>1. view.kind = "reachable" /\ view.budget # Bad =>
        /\ DOMAIN view.labels # {}
        /\ TimesFrom(materialize(view), view.origin) = reachable_features(view).times
  BY LabelsOfReachable DEF reachable_features
<1>2. view.kind = "prism" =>
        /\ DOMAIN view.labels # {}
        /\ TimesFrom(materialize(view), view.origin) = prism_features(view).inbound
        /\ TimesTo(materialize(view), view.destination) = prism_features(view).outbound
  BY LabelsOfPrism
<1>3. view.kind = "reachable" /\ view.budget = Bad => DOMAIN view.labels = {}
  BY DEF IInv, ViewOf, reachability
<1>4. /\ materialize(view).edges = reachable_features(view).edges
      /\ materialize(view).edges = prism_features(view).edges
  BY DEF materialize, Subgraph, EdgesWithin, reachable_features, prism_features
<1>5. view.kind = "reachable" \/ view.kind = "prism"
  BY CopyIsGraph
<1> HIDE DEF materialize
<1> QED
  BY <1>1, <1>2, <1>3, <1>4, <1>5 DEF ViewTimesHold

\* Routes on the copy of a view.
LEMMA CopyTimes ==
    ASSUME IInv, view # NoView, NEW o, NEW d, o \in materialize(view).nodes,
           d \in materialize(view).nodes
    PROVE  /\ d \in DOMAIN TimesFrom(materialize(view), o) =>
                /\ d \in DOMAIN TimesFrom(view.graph, o)
                /\ TimesFrom(view.graph, o)[d] \in Nat
                /\ TimesFrom(materialize(view), o)[d] \in Nat
                /\ TimesFrom(view.graph, o)[d] <= TimesFrom(materialize(view), o)[d]
           /\ o = view.origin \/ (view.kind = "prism" /\ d = view.destination) =>
                /\ d \in DOMAIN TimesFrom(materialize(view), o)
                /\ TimesFrom(materialize(view), o)[d] = TimesFrom(view.graph, o)[d]
<1> DEFINE C == materialize(view)
           g == view.graph
           D == DOMAIN view.labels
<1>1. /\ Times /\ SpatialGraph(g) /\ SpatialGraph(C) /\ C.nodes = D /\ D \subseteq g.nodes
      /\ C = Subgraph(g, D)
  BY CopyIsGraph DEF IInv, materialize
<1>2. o \in D /\ d \in D /\ o \in g.nodes /\ d \in g.nodes
  BY <1>1
<1> HIDE DEF C, g, D
<1>3. ASSUME d \in DOMAIN TimesFrom(C, o)
      PROVE  /\ d \in DOMAIN TimesFrom(g, o)
             /\ TimesFrom(g, o)[d] \in Nat
             /\ TimesFrom(C, o)[d] \in Nat
             /\ TimesFrom(g, o)[d] <= TimesFrom(C, o)[d]
  <2>1. d \in DOMAIN TimesFrom(g, o) /\ TimesFrom(g, o)[d] <= TimesFrom(C, o)[d]
    BY <1>1, <1>2, <1>3, CutNoFaster
  <2>2. TimesFrom(g, o)[d] \in Nat
    BY <1>1, <1>2, <2>1, TimesAreNumbers
  <2>3. TimesFrom(C, o)[d] \in Nat
    BY <1>1, <1>2, <1>3, TimesAreNumbers
  <2> QED
    BY <2>1, <2>2, <2>3
<1>4. CASE o = view.origin /\ view.kind = "reachable"
  <2>1. /\ view.labels = reachability(g, o, view.budget)
        /\ \A n \in D : /\ n \in DOMAIN TimesFrom(g, o)
                         /\ view.labels[n] = TimesFrom(g, o)[n]
                         /\ view.budget # Bad
    BY <1>4 DEF IInv, ViewOf, reachability, g, D
  <2>2. TimesFrom(C, o) = view.labels
    BY <1>2, <1>4, <2>1, LabelsOfReachable DEF C
  <2> QED
    BY <1>2, <1>3, <2>1, <2>2 DEF C, g, D
<1>5. CASE o = view.origin /\ view.kind = "prism"
  <2>1. \A n \in D : /\ n \in DOMAIN TimesFrom(g, o)
                     /\ view.labels[n].inbound = TimesFrom(g, o)[n]
    BY <1>5 DEF IInv, ViewOf, FeasibleLabels, g, D
  <2>2. TimesFrom(C, o) = [n \in D |-> view.labels[n].inbound]
    BY <1>5, LabelsOfPrism DEF C, D, prism_features
  <2> QED
    BY <1>2, <1>3, <2>1, <2>2 DEF C, g, D
<1>6. CASE d = view.destination /\ view.kind = "prism"
  <2>1. \A n \in D : /\ n \in DOMAIN TimesTo(g, d)
                     /\ view.labels[n].outbound = TimesTo(g, d)[n]
    BY <1>6 DEF IInv, ViewOf, FeasibleLabels, g, D
  <2>2. TimesTo(C, d) = [n \in D |-> view.labels[n].outbound]
    BY <1>6, LabelsOfPrism DEF C, D, prism_features
  <2>3. o \in DOMAIN TimesTo(C, d) /\ TimesTo(C, d)[o] = TimesTo(g, d)[o]
    BY <1>2, <2>1, <2>2
  <2>4. d \in DOMAIN TimesFrom(C, o) /\ TimesFrom(C, o)[d] = TimesTo(C, d)[o]
    BY <1>1, <1>2, <2>3, ThereAndBack
  <2>5. TimesFrom(g, o)[d] = TimesTo(g, d)[o]
    BY <1>1, <1>2, <1>3, <2>4, ThereAndBack
  <2> QED
    BY <1>3, <2>3, <2>4, <2>5 DEF C, g
<1>7. view.kind = "reachable" \/ view.kind = "prism"
  BY CopyIsGraph
<1> QED
  BY <1>3, <1>4, <1>5, <1>6, <1>7 DEF C, g

LEMMA IInvImpliesAnswersAgree == IInv => AnswersAgree
<1> SUFFICES ASSUME IInv, answer # NoAnswer, view # NoView PROVE AnswersAgree
  BY DEF AnswersAgree
<1> DEFINE FromEnd == \/ answer.from = view.origin
                      \/ view.kind = "prism" /\ answer.to = view.destination
           Whole == TimesFrom(view.graph, answer.from)
           C == materialize(view)
<1>1. Given(answer) /\ Graph("copy") = C
  BY DEF IInv, Graph
<1>2. ASSUME answer.kind = "route", answer.on = "copy"
      PROVE  answer.time >= Whole[answer.to] /\ (FromEnd => answer.time = Whole[answer.to])
  <2>1. /\ answer.from \in C.nodes /\ answer.to \in C.nodes
        /\ answer.to \in DOMAIN TimesFrom(C, answer.from)
        /\ answer.time = TimesFrom(C, answer.from)[answer.to]
    BY <1>1, <1>2 DEF Given, Resultless, IsRoute, IsNoRoute, IsIsochrone, IsPois
  <2>2. PICK o, d, t : o = answer.from /\ d = answer.to /\ t = answer.time
    OBVIOUS
  <2>3. /\ t = TimesFrom(C, o)[d] /\ t \in Nat
        /\ TimesFrom(view.graph, o)[d] \in Nat /\ TimesFrom(view.graph, o)[d] <= t
        /\ o = view.origin \/ (view.kind = "prism" /\ d = view.destination) =>
             t = TimesFrom(view.graph, o)[d]
    BY <2>1, <2>2, CopyTimes
  <2>4. t >= TimesFrom(view.graph, o)[d]
    BY <2>3
  <2> QED
    BY <2>2, <2>3, <2>4
<1>3. ASSUME answer.kind = "no route", answer.on = "copy" PROVE ~FromEnd
  <2>1. /\ answer.from \in C.nodes /\ answer.to \in C.nodes
        /\ answer.to \notin DOMAIN TimesFrom(C, answer.from)
    BY <1>1, <1>3 DEF Given, Resultless, IsRoute, IsNoRoute, IsIsochrone, IsPois
  <2> QED
    BY <2>1, CopyTimes
<1>4. ASSUME answer.kind = "isochrone", answer.on = "copy", view.kind = "reachable",
             answer.from = view.origin
      PROVE  answer.labels =
               [n \in {m \in DOMAIN Whole : /\ Whole[m] <= answer.budget
                                            /\ Whole[m] <= view.budget} |-> Whole[n]]
  <2>1. /\ answer.from \in C.nodes /\ answer.budget # Bad
        /\ answer.labels = reachability(C, answer.from, answer.budget)
    BY <1>1, <1>4 DEF Given, Resultless, IsRoute, IsNoRoute, IsIsochrone, IsPois
  <2>2. view.labels = reachability(view.graph, view.origin, view.budget)
    BY <1>4 DEF IInv, ViewOf
  <2>3. view.budget # Bad
    <3>1. view.origin \in DOMAIN view.labels
      BY <1>4, <2>1, CopyIsGraph
    <3> QED
      BY <2>2, <3>1 DEF reachability
  <2>4. TimesFrom(C, view.origin) = view.labels
    BY <1>4, <2>3, LabelsOfReachable
  <2>5. view.labels = [n \in {m \in DOMAIN Whole : Whole[m] <= view.budget} |-> Whole[n]]
    BY <1>4, <2>2, <2>3 DEF reachability
  <2>6. answer.labels = [n \in {m \in DOMAIN view.labels : view.labels[m] <= answer.budget}
                           |-> view.labels[n]]
    BY <1>4, <2>1, <2>4 DEF reachability
  <2> HIDE DEF Whole
  <2> QED
    BY <2>5, <2>6
<1> HIDE DEF C
<1> QED
  BY <1>2, <1>3, <1>4 DEF AnswersAgree

----------------------------------------------------------------------------
(* Points of interest.                                                     *)

LEMMA Square ==
    ASSUME NEW x \in Int, NEW y \in Nat, x * x <= y * y
    PROVE  -y <= x /\ x <= y
<1>1. ASSUME x > y PROVE FALSE
  <2>1. x * x > y * y
    BY <1>1
  <2> QED
    BY <2>1
<1>2. ASSUME -x > y PROVE FALSE
  <2>1. (-x) * (-x) > y * y
    BY <1>2
  <2>2. (-x) * (-x) = x * x
    OBVIOUS
  <2> QED
    BY <2>1, <2>2
<1> QED
  BY <1>1, <1>2

\* How far an edge goes, at most: as degrees of latitude, and as degrees of
\* longitude on the parallel of any node.
LEMMA EdgeIsShort ==
    ASSUME Times, SpeedsCapped, CosinesClose, NEW e \in Edge, NEW n \in Node,
           NEW p, NEW q, p = Position[Source[e]], q = Position[Target[e]],
           NEW K, K = cost[e] * MaxSpeed, NEW C, C = Cosine[Position[n][1]]
    PROVE  /\ K \in Nat /\ p \in Int \X Int /\ q \in Int \X Int /\ C \in Nat
           /\ -K <= Degree * (q[1] - p[1]) /\ Degree * (q[1] - p[1]) <= K
           /\ -(12 * K) <= 10 * C * (q[2] - p[2]) /\ 10 * C * (q[2] - p[2]) <= 12 * K
<1> DEFINE x == q[1] - p[1]
           y == q[2] - p[2]
           A == Cosine[p[1]]
           B == Cosine[q[1]]
<1>1. /\ p \in Int \X Int /\ q \in Int \X Int /\ C \in Nat /\ A \in Nat /\ B \in Nat
      /\ Degree \in Nat /\ MaxSpeed \in Nat /\ cost[e] \in Nat
  BY GraphAssumption, PlaceAssumption DEF Times
<1>2. x \in Int /\ y \in Int /\ K \in Nat
  BY <1>1
<1>3. 10 * C <= 12 * A /\ 10 * C <= 12 * B
  BY GraphAssumption DEF CosinesClose
<1>4. Degree * Degree * (p[1] - q[1]) * (p[1] - q[1])
        + A * B * (p[2] - q[2]) * (p[2] - q[2]) <= K * K
  BY DEF SpeedsCapped, calculate_distance_2
<1>5. (Degree * x) * (Degree * x) + (A * B) * (y * y) <= K * K
  <2> DEFINE u == p[1] - q[1]
             v == p[2] - q[2]
  <2>1. u \in Int /\ v \in Int /\ x = -u /\ y = -v
    BY <1>1
  <2>2. Degree * Degree * u * u + A * B * v * v <= K * K
    BY <1>4
  <2> HIDE DEF u, v, x, y, A, B
  <2>3. Degree * Degree * u * u = (Degree * x) * (Degree * x)
    BY <1>1, <2>1
  <2>4. A * B * v * v = (A * B) * (y * y)
    BY <1>1, <2>1
  <2> QED
    BY <2>2, <2>3, <2>4
<1> HIDE DEF x, y, A, B
<1>6. Degree * x \in Int /\ A * B \in Nat /\ y * y \in Nat /\ (A * B) * (y * y) \in Nat
  BY <1>1, <1>2
<1>7. (Degree * x) * (Degree * x) \in Nat
  BY <1>6
<1>8. (Degree * x) * (Degree * x) <= K * K /\ (A * B) * (y * y) <= K * K
  BY <1>2, <1>5, <1>6, <1>7
<1>9. -K <= Degree * x /\ Degree * x <= K
  BY <1>2, <1>6, <1>8, Square
<1>10. (10 * C) * (10 * C) <= (12 * A) * (12 * B)
  BY <1>1, <1>3
<1>11. ((10 * C) * (10 * C)) * (y * y) <= ((12 * A) * (12 * B)) * (y * y)
  <2> DEFINE U == (10 * C) * (10 * C)
             V == (12 * A) * (12 * B)
             W == y * y
  <2>1. U \in Nat /\ V \in Nat /\ W \in Nat /\ U <= V
    BY <1>1, <1>6, <1>10
  <2> HIDE DEF U, V, W
  <2>2. U * W <= V * W
    BY <2>1
  <2> QED
    BY <2>2 DEF U, V, W
<1>12. ((12 * A) * (12 * B)) * (y * y) = 144 * ((A * B) * (y * y))
  BY <1>1, <1>2
<1>13. (10 * C * y) * (10 * C * y) = ((10 * C) * (10 * C)) * (y * y)
  BY <1>1, <1>2
<1>14. (12 * K) * (12 * K) = 144 * (K * K)
  BY <1>2
<1>15. (10 * C * y) * (10 * C * y) <= (12 * K) * (12 * K)
  <2> DEFINE R == (A * B) * (y * y)
             S == K * K
  <2>1. R \in Nat /\ S \in Nat /\ R <= S
    BY <1>2, <1>6, <1>8
  <2> HIDE DEF R, S
  <2>2. 144 * R <= 144 * S
    BY <2>1
  <2>3. 144 * R \in Nat /\ 144 * S \in Nat
    BY <2>1
  <2>4. ((10 * C) * (10 * C)) * (y * y) \in Nat
    BY <1>1, <1>6
  <2> QED
    BY <1>11, <1>12, <1>13, <1>14, <2>2, <2>3, <2>4 DEF R, S
<1>16. 10 * C * y \in Int /\ 12 * K \in Nat
  BY <1>1, <1>2
<1>17. -(12 * K) <= 10 * C * y /\ 10 * C * y <= 12 * K
  BY <1>15, <1>16, Square
<1> QED
  BY <1>1, <1>2, <1>9, <1>17 DEF x, y

\* Nor does a walk go further than its time allows.
LEMMA WalkIsShort ==
    ASSUME Times, SpeedsCapped, CosinesClose, NEW g, SpatialGraph(g), NEW n \in g.nodes,
           NEW m \in DOMAIN TimesFrom(g, n), NEW p, NEW q, p = Position[n], q = Position[m],
           NEW K, K = TimesFrom(g, n)[m] * MaxSpeed, NEW C, C = Cosine[p[1]]
    PROVE  /\ K \in Nat /\ p \in Int \X Int /\ q \in Int \X Int /\ C \in Nat
           /\ -K <= Degree * (q[1] - p[1]) /\ Degree * (q[1] - p[1]) <= K
           /\ -(12 * K) <= 10 * C * (q[2] - p[2]) /\ 10 * C * (q[2] - p[2]) <= 12 * K
<1> DEFINE N == g.nodes
           L == LinksOf(g)
           lat == [x \in N |-> Degree * Position[x][1]]
           lon == [x \in N |-> 10 * C * Position[x][2]]
<1>1. AreLinks(N, L) /\ IsFiniteSet(N) /\ N \subseteq Node /\ n \in Node
  BY GraphHasLinks DEF SpatialGraph
<1>2. m \in N /\ TimesFrom(g, n)[m] \in Nat /\ TimesFrom(g, n) = LinkTimes(N, L, n)
  BY TimesAreNumbers DEF TimesFrom
<1>3. /\ K \in Nat /\ p \in Int \X Int /\ q \in Int \X Int /\ C \in Nat
      /\ MaxSpeed \in Nat /\ Degree \in Nat
      /\ \A x \in N : Position[x] \in Int \X Int
  BY <1>1, <1>2, PlaceAssumption
<1>4. lat \in [N -> Int] /\ lon \in [N -> Int]
  <2>1. \A x \in N : Position[x][1] \in Int /\ Position[x][2] \in Int
    BY <1>3
  <2> QED
    BY <1>3, <2>1
<1>5. ASSUME NEW l \in L
      PROVE  /\ -(l.time * MaxSpeed) <= lat[l.to] - lat[l.from]
             /\ lat[l.to] - lat[l.from] <= l.time * MaxSpeed
             /\ -(l.time * (12 * MaxSpeed)) <= lon[l.to] - lon[l.from]
             /\ lon[l.to] - lon[l.from] <= l.time * (12 * MaxSpeed)
  <2>1. PICK e \in g.edges : l = [from |-> Source[e], to |-> Target[e], time |-> cost[e]]
    BY DEF LinksOf
  <2>2. e \in Edge /\ Source[e] \in N /\ Target[e] \in N /\ cost[e] \in Nat
    BY <2>1 DEF SpatialGraph, Times
  <2>3. PICK a, b, k : a = Position[Source[e]] /\ b = Position[Target[e]] /\ k = cost[e] * MaxSpeed
    OBVIOUS
  <2>4. /\ k \in Nat /\ a \in Int \X Int /\ b \in Int \X Int
        /\ -k <= Degree * (b[1] - a[1]) /\ Degree * (b[1] - a[1]) <= k
        /\ -(12 * k) <= 10 * C * (b[2] - a[2]) /\ 10 * C * (b[2] - a[2]) <= 12 * k
    BY <1>1, <2>2, <2>3, EdgeIsShort
  <2>5. l.time * MaxSpeed = k /\ l.time * (12 * MaxSpeed) = 12 * k
    BY <1>3, <2>1, <2>2, <2>3
  <2>6. /\ lat[l.to] = Degree * b[1] /\ lat[l.from] = Degree * a[1]
        /\ lon[l.to] = 10 * C * b[2] /\ lon[l.from] = 10 * C * a[2]
    BY <2>1, <2>2, <2>3
  <2>7. PICK a1 \in Int, a2 \in Int, b1 \in Int, b2 \in Int :
          a1 = a[1] /\ a2 = a[2] /\ b1 = b[1] /\ b2 = b[2]
    BY <2>4
  <2>8. /\ Degree * (b1 - a1) = Degree * b1 - Degree * a1
        /\ 10 * C * (b2 - a2) = 10 * C * b2 - 10 * C * a2
    BY <1>3, <2>7
  <2> HIDE DEF lat, lon
  <2> QED
    BY <2>4, <2>5, <2>6, <2>7, <2>8
<1> HIDE DEF lat, lon, L, N
<1>6. 12 * MaxSpeed \in Nat
  BY <1>3
<1>7. /\ -(TimesFrom(g, n)[m] * MaxSpeed) <= lat[m] - lat[n]
      /\ lat[m] - lat[n] <= TimesFrom(g, n)[m] * MaxSpeed
  BY <1>1, <1>2, <1>3, <1>4, <1>5, LinkTimesSpread DEF N
<1>8. /\ -(TimesFrom(g, n)[m] * (12 * MaxSpeed)) <= lon[m] - lon[n]
      /\ lon[m] - lon[n] <= TimesFrom(g, n)[m] * (12 * MaxSpeed)
  BY <1>1, <1>2, <1>4, <1>5, <1>6, LinkTimesSpread DEF N
<1>9. TimesFrom(g, n)[m] * (12 * MaxSpeed) = 12 * K
  BY <1>2, <1>3
<1>10. /\ lat[m] = Degree * q[1] /\ lat[n] = Degree * p[1]
       /\ lon[m] = 10 * C * q[2] /\ lon[n] = 10 * C * p[2]
  BY <1>2 DEF lat, lon, N
<1>11. PICK p1 \in Int, p2 \in Int, q1 \in Int, q2 \in Int :
         p1 = p[1] /\ p2 = p[2] /\ q1 = q[1] /\ q2 = q[2]
  BY <1>3
<1>12. /\ Degree * (q1 - p1) = Degree * q1 - Degree * p1
       /\ 10 * C * (q2 - p2) = 10 * C * q2 - 10 * C * p2
  BY <1>3, <1>11
<1> QED
  BY <1>3, <1>7, <1>8, <1>9, <1>10, <1>11, <1>12

\* So the box holds all that is in reach.
LEMMA BoxHoldsReach ==
    ASSUME Times, SpeedsCapped, CosinesClose, NEW g, SpatialGraph(g), NEW n \in g.nodes,
           NEW budget \in Nat, NEW m \in DOMAIN TimesFrom(g, n), TimesFrom(g, n)[m] <= budget
    PROVE  InBox(Position[m], Position[n], Radius(budget))
<1>1. PICK p, q, K, C, t : /\ p = Position[n] /\ q = Position[m] /\ C = Cosine[p[1]]
                          /\ t = TimesFrom(g, n)[m] /\ K = t * MaxSpeed
  OBVIOUS
<1>2. /\ K \in Nat /\ p \in Int \X Int /\ q \in Int \X Int /\ C \in Nat
      /\ -K <= Degree * (q[1] - p[1]) /\ Degree * (q[1] - p[1]) <= K
      /\ -(12 * K) <= 10 * C * (q[2] - p[2]) /\ 10 * C * (q[2] - p[2]) <= 12 * K
  BY <1>1, WalkIsShort
<1>3. t \in Nat /\ t <= budget /\ MaxSpeed \in Nat /\ Degree \in Nat
  BY <1>1, TimesAreNumbers, PlaceAssumption
<1> DEFINE Y == budget * MaxSpeed
           r == Radius(budget)
<1>4. Y \in Nat /\ K <= Y
  BY <1>1, <1>3
<1>5. r = (12 * Y) \div 10
  <2>1. 12 * budget * MaxSpeed = 12 * Y
    BY <1>3
  <2> QED
    BY <2>1 DEF Radius
<1> HIDE DEF Y, r
<1>6. r \in Int /\ 10 * r <= 12 * Y /\ 12 * Y < 10 * r + 10
  BY <1>4, <1>5
<1>7. PICK x \in Int, y \in Int : /\ x = Degree * (q[1] - p[1])
                                 /\ y = C * (q[2] - p[2])
  BY <1>2, <1>3
<1>8. 10 * C * (q[2] - p[2]) = 10 * y
  BY <1>2, <1>7
<1>9. -r <= x /\ x <= r
  BY <1>2, <1>4, <1>6, <1>7
<1>10. -r <= y /\ y <= r
  BY <1>2, <1>4, <1>6, <1>7, <1>8
<1>11. x \in -r .. r /\ y \in -r .. r
  BY <1>6, <1>9, <1>10
<1> QED
  BY <1>1, <1>7, <1>11 DEF InBox, r

LEMMA EmptyTable ==
    ASSUME NEW f, DOMAIN f = {}, f = [x \in DOMAIN f |-> f[x]]
    PROVE  f = << >>
<1>1. DOMAIN << >> = {}
  OBVIOUS
<1> QED
  BY <1>1

LEMMA IInvImpliesPoisMatchView == IInv /\ CosinesClose => PoisMatchView
<1> SUFFICES ASSUME IInv, CosinesClose, answer # NoAnswer, answer.kind = "pois"
             PROVE  PoisMatchView
  BY DEF PoisMatchView
<1> DEFINE on == answer.on
           n == answer.from
           budget == answer.budget
           g == Graph(on)
           R == reachability(g, n, budget)
           F == FoundPois(g, n, budget)
<1>1. /\ on \in Graphs /\ n \in g.nodes /\ budget \in Budgets \ {Bad}
      /\ answer.times = [p \in F |-> R[g.snaps[p]]]
  BY DEF IInv, Given, Resultless, IsRoute, IsNoRoute, IsIsochrone, IsPois
<1>2. on = "copy" => answer.times = << >>
  <2>1. SUFFICES ASSUME on = "copy" PROVE answer.times = << >>
    OBVIOUS
  <2>2. g = materialize(view)
    BY <2>1 DEF Graph
  <2>3. F = {}
    BY <2>2 DEF FoundPois, materialize, Subgraph, NewSnaps
  <2>4. PICK f : f = answer.times
    OBVIOUS
  <2>5. DOMAIN f = {} /\ f = [p \in DOMAIN f |-> f[p]]
    BY <1>1, <2>3, <2>4
  <2> QED
    BY <2>4, <2>5, EmptyTable
<1>3. ASSUME on # "copy", view # NoView, view.kind = "reachable", view.budget = budget,
             view.origin = n, g.nodes = view.graph.nodes
      PROVE  /\ \A p \in DOMAIN answer.times :
                  /\ g.snaps[p] \in DOMAIN view.labels
                  /\ answer.times[p] = view.labels[g.snaps[p]]
             /\ g.snaps # NoSnaps /\ SpeedsCapped =>
                  \A p \in DOMAIN g.snaps :
                    Position[g.snaps[p]] = Poi[p] /\ g.snaps[p] \in DOMAIN view.labels
                      => p \in DOMAIN answer.times
  <2>1. g = sg \/ g = view.graph
    BY <1>1, <1>3 DEF Graph, Graphs
  <2>2. /\ Times /\ SpatialGraph(g) /\ ViewOf(view)
        /\ g.nodes = view.graph.nodes /\ g.edges = view.graph.edges
    BY <1>3, <2>1 DEF IInv, ViewOf, Held
  <2>3. view.labels = R
    <3>1. view.labels = reachability(view.graph, view.origin, view.budget)
      BY <1>3, <2>2 DEF ViewOf
    <3>2. TimesFrom(view.graph, n) = TimesFrom(g, n)
      BY <2>2 DEF TimesFrom, LinksOf
    <3> QED
      BY <1>3, <3>1, <3>2 DEF reachability
  <2>4. \A p \in F : g.snaps[p] \in DOMAIN R
    BY DEF FoundPois
  <2>5. ASSUME g.snaps # NoSnaps, SpeedsCapped, NEW p \in DOMAIN g.snaps,
               Position[g.snaps[p]] = Poi[p], g.snaps[p] \in DOMAIN R
        PROVE  p \in F
    <3>1. /\ g.snaps[p] \in DOMAIN TimesFrom(g, n)
          /\ TimesFrom(g, n)[g.snaps[p]] <= budget
      BY <2>5 DEF reachability
    <3>2. budget \in Nat
      BY <1>1, BadIsNoNumber
    <3>3. PICK h, m, b, o : h = g /\ m = g.snaps[p] /\ b = budget /\ o = n
      OBVIOUS
    <3>4. /\ SpatialGraph(h) /\ o \in h.nodes /\ b \in Nat
          /\ m \in DOMAIN TimesFrom(h, o) /\ TimesFrom(h, o)[m] <= b
      BY <1>1, <2>2, <3>1, <3>2, <3>3
    <3>5. InBox(Position[m], Position[o], Radius(b))
      BY <2>2, <2>5, <3>4, BoxHoldsReach
    <3>6. p \in DOMAIN Poi
      BY <2>2, <2>5 DEF SpatialGraph
    <3> HIDE DEF g, n, budget
    <3> QED
      BY <2>5, <3>3, <3>5, <3>6 DEF FoundPois, R
  <2> HIDE DEF g, R, F
  <2> QED
    BY <1>1, <2>3, <2>4, <2>5
<1> HIDE DEF R, F
<1> QED
  BY <1>2, <1>3 DEF PoisMatchView

----------------------------------------------------------------------------

\* Types of graphs, views and answers.
THEOREM TypeCorrect == Spec => []TypeOK
<1> QED
  BY Invariance, IInvImpliesTypeOK, PTL

\* The labels that a view exports are the shortest times on the nodes and edges
\* it exports: reachable_subgraph and prism_subgraph lose no way to a node they
\* keep, on views of copies of views too (ViewTimesHold).
THEOREM ViewsKeepTheirTimes == Spec => []ViewTimesHold
<1> QED
  BY Invariance, IInvImpliesViewTimesHold, PTL

\* route and isochrone of a view, which run on a copy of the part it labels,
\* agree with the whole graph from its ends and are nowhere faster (AnswersAgree).
THEOREM ViewsAgree == Spec => []AnswersAgree
<1> QED
  BY Invariance, IInvImpliesAnswersAgree, PTL

\* Where parallels are not too different in length, reachable_pois returns the
\* POIs of the reachable view from the same start, and its box leaves out none
\* that lies on a node in reach while speeds are capped (PoisMatchView).
THEOREM PoisAreThoseInReach ==
    ASSUME CosinesClose
    PROVE  Spec => []PoisMatchView
<1>1. IInv => PoisMatchView
  BY IInvImpliesPoisMatchView
<1> QED
  BY <1>1, Invariance, PTL

=============================================================================
