------------------------- MODULE FeasibilityProofs -------------------------
(***************************************************************************)
(* The prism of Feasibility is exact and connected for every graph, every  *)
(* table of costs, every trip and every budget.                            *)
(***************************************************************************)
EXTENDS Feasibility, Lemmas

\* The shortest times from the origin, and to the destination.
From == LinkTimes(Node, Links, origin)
Way == LinkTimes(Node, Turned(Links), destination)

\* A table of petgraph's dijkstra holds the shortest times, and perhaps nodes
\* that only infinite costs lead to.
IsTable(table, times) ==
    /\ DOMAIN times \subseteq DOMAIN table
    /\ DOMAIN table \subseteq Node
    /\ \A n \in DOMAIN table : table[n] = IF n \in DOMAIN times THEN times[n] ELSE Bad

\* What the loop keeps, and what it has kept so far.
Within(n) ==
    /\ ~Over(forward[n], available)
    /\ n \in DOMAIN backward
    /\ Fits(Sum(forward[n], backward[n]))

Label(n) == [inbound |-> forward[n], outbound |-> backward[n], slack |-> Slack(n)]

Found == [n \in {m \in DOMAIN forward \ todo : Within(m)} |-> Label(n)]

Inputs ==
    /\ cost \in [Edge -> Time]
    /\ origin \in Node /\ destination \in Node
    /\ available \in Nat \cup {NaN}
    /\ pc \in {"forward", "backward", "intersect", "ok", "no path", "too tight"}

\* How far the call is, and what it knows by then.
Progress ==
    /\ pc = "forward" => forward = << >>
    /\ pc # "forward" => IsTable(forward, From)
    /\ pc = "no path" => destination \notin DOMAIN forward
    /\ pc \in {"too tight", "backward", "intersect", "ok"} =>
         /\ destination \in DOMAIN forward
         /\ pc = "too tight" <=> Over(forward[destination], available)
    /\ pc \notin {"intersect", "ok"} => backward = << >> /\ feasible = << >> /\ todo = {}
    /\ pc \in {"intersect", "ok"} => IsTable(backward, Way) /\ feasible = Found
    /\ todo \subseteq DOMAIN forward
    /\ pc = "ok" => todo = {}

IInv == Inputs /\ Progress

----------------------------------------------------------------------------

\* The links of the two searches, for any table of costs.
LEMMA LinksOfArcs ==
    ASSUME cost \in [Edge -> Time]
    PROVE  /\ Finite(Arcs) = Links /\ Finite(BackwardArcs) = Turned(Links)
           /\ AreLinks(Node, Links) /\ AreLinks(Node, Turned(Links))
           /\ Arcs \subseteq [from : Node, to : Node, time : Time]
           /\ BackwardArcs \subseteq [from : Node, to : Node, time : Time]
<1>1. \A e \in Edge : Source[e] \in Node /\ Target[e] \in Node /\ cost[e] \in Time
  BY GraphAssumption
<1>2. Finite(Arcs) = Links
  BY DEF Finite, Arcs, Links
<1>3. AreLinks(Node, Links)
  BY <1>1 DEF AreLinks, Links, Time
<1>4. Finite(BackwardArcs) = Turned(Links)
  <2>1. ASSUME NEW l \in Finite(BackwardArcs) PROVE l \in Turned(Links)
    <3>1. PICK e \in Edge :
            l = [from |-> Target[e], to |-> Source[e], time |-> cost[e]] /\ cost[e] # Bad
      BY DEF Finite, BackwardArcs, ReversedArcs
    <3> DEFINE m == [from |-> Source[e], to |-> Target[e], time |-> cost[e]]
    <3>2. m \in Links /\ l = [from |-> m.to, to |-> m.from, time |-> m.time]
      BY <3>1 DEF Links
    <3> QED
      BY <3>2 DEF Turned
  <2>2. ASSUME NEW l \in Turned(Links) PROVE l \in Finite(BackwardArcs)
    <3>1. PICK m \in Links : l = [from |-> m.to, to |-> m.from, time |-> m.time]
      BY DEF Turned
    <3>2. PICK e \in Edge :
            m = [from |-> Source[e], to |-> Target[e], time |-> cost[e]] /\ cost[e] # Bad
      BY DEF Links
    <3>3. l = [from |-> Target[e], to |-> Source[e], time |-> cost[e]]
      BY <3>1, <3>2
    <3> QED
      BY <3>2, <3>3 DEF Finite, BackwardArcs, ReversedArcs
  <2> QED
    BY <2>1, <2>2
<1>5. AreLinks(Node, Turned(Links))
  BY <1>3, TurnedAreLinks
<1> QED
  BY <1>1, <1>2, <1>3, <1>4, <1>5 DEF Arcs, BackwardArcs, ReversedArcs

\* What a search returns.
LEMMA DijkstraTable ==
    ASSUME NEW arcs, arcs \subseteq [from : Node, to : Node, time : Time], NEW start \in Node
    PROVE  IsTable(Dijkstra(arcs, start), LinkTimes(Node, Finite(arcs), start))
<1> DEFINE free == {[a EXCEPT !.time = 0] : a \in arcs}
<1>1. AreLinks(Node, Finite(arcs)) /\ AreLinks(Node, free)
  BY DEF AreLinks, Finite, Time
<1>2. \A l \in Finite(arcs) : \E m \in free : m.from = l.from /\ m.to = l.to /\ m.time = 0
  <2> SUFFICES ASSUME NEW l \in Finite(arcs)
               PROVE  \E m \in free : m.from = l.from /\ m.to = l.to /\ m.time = 0
    OBVIOUS
  <2>1. l \in arcs /\ l \in [from : Node, to : Node, time : Time]
    BY DEF Finite
  <2>2. [l EXCEPT !.time = 0] \in free
    BY <2>1
  <2> QED
    BY <2>1, <2>2
<1>3. Reached(arcs, start) = DOMAIN LinkTimes(Node, free, start)
  BY DEF Reached
<1> HIDE DEF free
<1>4. DOMAIN LinkTimes(Node, Finite(arcs), start) \subseteq DOMAIN LinkTimes(Node, free, start)
  BY <1>1, <1>2, FreeTimes, FiniteAssumption
<1>5. DOMAIN LinkTimes(Node, free, start) \subseteq Node
  BY <1>1, LinkTimesTable, FiniteAssumption
<1> QED
  BY <1>3, <1>4, <1>5 DEF Dijkstra, IsTable

\* The two tables of shortest times.
LEMMA Tables ==
    ASSUME Inputs
    PROVE  /\ DOMAIN From \subseteq Node /\ \A n \in DOMAIN From : From[n] \in Nat
           /\ DOMAIN Way \subseteq Node /\ \A n \in DOMAIN Way : Way[n] \in Nat
           /\ origin \in DOMAIN From /\ From[origin] = 0
           /\ destination \in DOMAIN Way /\ Way[destination] = 0
           /\ \A l \in Links : /\ l.from \in Node /\ l.to \in Node /\ l.time \in Nat
                               /\ l.from \in DOMAIN From =>
                                    l.to \in DOMAIN From /\ From[l.to] <= From[l.from] + l.time
                               /\ l.to \in DOMAIN Way =>
                                    l.from \in DOMAIN Way /\ Way[l.from] <= Way[l.to] + l.time
           /\ \A n \in DOMAIN From : n # origin =>
                \E l \in Links : l.to = n /\ l.from \in DOMAIN From /\ From[n] = From[l.from] + l.time
           /\ \A n \in DOMAIN Way : n # destination =>
                \E l \in Links : l.from = n /\ l.to \in DOMAIN Way /\ Way[n] = Way[l.to] + l.time
<1>1. AreLinks(Node, Links) /\ AreLinks(Node, Turned(Links)) /\ origin \in Node /\ destination \in Node
  BY LinksOfArcs DEF Inputs
<1>2. /\ DOMAIN From \subseteq Node /\ \A n \in DOMAIN From : From[n] \in Nat
      /\ origin \in DOMAIN From /\ From[origin] = 0
      /\ \A l \in Links : l.from \in DOMAIN From =>
           l.to \in DOMAIN From /\ From[l.to] <= From[l.from] + l.time
      /\ \A n \in DOMAIN From : n # origin =>
           \E l \in Links : l.to = n /\ l.from \in DOMAIN From /\ From[n] = From[l.from] + l.time
  BY <1>1, LinkTimesTable, FiniteAssumption DEF From
<1>3. /\ DOMAIN Way \subseteq Node /\ \A n \in DOMAIN Way : Way[n] \in Nat
      /\ destination \in DOMAIN Way /\ Way[destination] = 0
      /\ \A l \in Turned(Links) : l.from \in DOMAIN Way =>
           l.to \in DOMAIN Way /\ Way[l.to] <= Way[l.from] + l.time
      /\ \A n \in DOMAIN Way : n # destination =>
           \E l \in Turned(Links) : l.to = n /\ l.from \in DOMAIN Way /\ Way[n] = Way[l.from] + l.time
  BY <1>1, LinkTimesTable, FiniteAssumption DEF Way
<1>4. \A l \in Links : l.from \in Node /\ l.to \in Node /\ l.time \in Nat
  BY <1>1 DEF AreLinks
<1>5. ASSUME NEW l \in Links, l.to \in DOMAIN Way
      PROVE  l.from \in DOMAIN Way /\ Way[l.from] <= Way[l.to] + l.time
  <2> DEFINE m == [from |-> l.to, to |-> l.from, time |-> l.time]
  <2>1. m \in Turned(Links) /\ m.from = l.to /\ m.to = l.from /\ m.time = l.time
    BY DEF Turned
  <2> HIDE DEF m
  <2> QED
    BY <1>3, <1>5, <2>1
<1>6. ASSUME NEW n \in DOMAIN Way, n # destination
      PROVE  \E l \in Links : l.from = n /\ l.to \in DOMAIN Way /\ Way[n] = Way[l.to] + l.time
  <2>1. PICK m \in Turned(Links) :
          m.to = n /\ m.from \in DOMAIN Way /\ Way[n] = Way[m.from] + m.time
    BY <1>3, <1>6
  <2>2. PICK l \in Links : m = [from |-> l.to, to |-> l.from, time |-> l.time]
    BY DEF Turned
  <2>3. m.to = l.from /\ m.from = l.to /\ m.time = l.time
    BY <2>2
  <2> QED
    BY <2>1, <2>3
<1> QED
  BY <1>2, <1>3, <1>4, <1>5, <1>6

\* The loop keeps a node exactly when its shortest times fit the budget.
LEMMA WithinBudget ==
    ASSUME Inputs, IsTable(forward, From), IsTable(backward, Way), NEW n \in DOMAIN forward
    PROVE  /\ Within(n) <=> /\ n \in DOMAIN From /\ n \in DOMAIN Way
                            /\ available # NaN /\ From[n] + Way[n] <= available
           /\ Within(n) => /\ forward[n] = From[n] /\ backward[n] = Way[n]
                           /\ Slack(n) = available - (From[n] + Way[n])
                           /\ Slack(n) \in Nat
<1>1. /\ n \in DOMAIN From => From[n] \in Nat /\ forward[n] = From[n] /\ From[n] # Bad
      /\ n \notin DOMAIN From => forward[n] = Bad
  BY Tables, NumberAssumption DEF IsTable
<1>2. /\ n \in DOMAIN Way => /\ n \in DOMAIN backward /\ Way[n] \in Nat
                             /\ backward[n] = Way[n] /\ Way[n] # Bad
      /\ n \in DOMAIN backward /\ n \notin DOMAIN Way => backward[n] = Bad
  BY Tables, NumberAssumption DEF IsTable
<1>3. available \in Nat \cup {NaN} /\ NaN \notin Nat /\ Bad \notin Nat
  BY FeasibilityAssumption, NumberAssumption DEF Inputs
<1>4. CASE n \in DOMAIN From /\ n \in DOMAIN Way
  <2>1. Sum(forward[n], backward[n]) = From[n] + Way[n]
    BY <1>1, <1>2, <1>4 DEF Sum
  <2>2. From[n] + Way[n] \in Nat /\ From[n] <= From[n] + Way[n] /\ From[n] + Way[n] # Bad
    BY <1>1, <1>2, <1>3, <1>4
  <2>3. CASE available = NaN
    BY <2>3 DEF Within, Fits
  <2>4. CASE available \in Nat
    <3>1. available # NaN
      BY <1>3, <2>4
    <3>2. Within(n) <=> From[n] + Way[n] <= available
      BY <1>1, <1>2, <1>4, <2>1, <2>2, <2>4, <3>1 DEF Within, Fits, Over
    <3>3. Slack(n) = available - (From[n] + Way[n])
      BY <2>1 DEF Slack
    <3> QED
      BY <1>1, <1>2, <1>4, <2>2, <2>4, <3>1, <3>2, <3>3
  <2> QED
    BY <1>3, <2>3, <2>4
<1>5. CASE ~(n \in DOMAIN From /\ n \in DOMAIN Way)
  <2>1. n \in DOMAIN backward => Sum(forward[n], backward[n]) = Bad
    BY <1>1, <1>2, <1>5 DEF Sum
  <2>2. ~Within(n)
    BY <2>1 DEF Within, Fits, Over
  <2> QED
    BY <1>5, <2>2
<1> QED
  BY <1>4, <1>5

----------------------------------------------------------------------------

LEMMA InitIInv == Init => IInv
<1> SUFFICES ASSUME Init PROVE IInv
  OBVIOUS
<1>1. cost \in [Edge -> Time]
  <2>1. cost \in [Edge -> UNION {Costs[e] : e \in Edge}] /\ \A e \in Edge : cost[e] \in Costs[e]
    BY DEF Init, CostTable
  <2> QED
    BY <2>1, NumberAssumption DEF Time
<1>2. Inputs
  BY <1>1, FeasibilityAssumption DEF Init, Inputs
<1>3. Progress
  BY DEF Init, Progress
<1> QED
  BY <1>2, <1>3 DEF IInv

LEMMA NextIInv == IInv /\ [Next]_vars => IInv'
<1> SUFFICES ASSUME IInv, [Next]_vars PROVE IInv'
  OBVIOUS
<1> USE DEF IInv
<1>1. UNCHANGED <<cost, origin, destination, available>> => From' = From /\ Way' = Way
  BY DEF From, Way, Links
<1>2. CASE SearchForward
  <2>1. Inputs' /\ From' = From
    BY <1>1, <1>2 DEF SearchForward, input, Inputs
  <2>2. IsTable(forward', From)
    <3>1. cost \in [Edge -> Time] /\ origin \in Node
      BY DEF Inputs
    <3>2. forward' = Dijkstra(Arcs, origin)
      BY <1>2 DEF SearchForward
    <3> QED
      BY <3>1, <3>2, LinksOfArcs, DijkstraTable DEF From
  <2>3. backward' = << >> /\ feasible' = << >> /\ todo' = {} /\ pc' \notin {"forward", "intersect", "ok"}
    BY <1>2 DEF SearchForward, Progress
  <2>4. /\ pc' = "no path" => destination' \notin DOMAIN forward'
        /\ pc' \in {"too tight", "backward", "intersect", "ok"} =>
             /\ destination' \in DOMAIN forward'
             /\ pc' = "too tight" <=> Over(forward'[destination'], available')
    BY <1>2 DEF SearchForward, input
  <2>5. IsTable(forward, From)'
    BY <2>1, <2>2 DEF IsTable
  <2>6. Over(forward[destination], available)' <=> Over(forward'[destination'], available')
    BY DEF Over
  <2>7. Progress'
    BY <2>3, <2>4, <2>5, <2>6 DEF Progress
  <2> QED
    BY <2>1, <2>7
<1>3. CASE SearchBackward
  <2>1. Inputs' /\ From' = From /\ Way' = Way
    BY <1>1, <1>3 DEF SearchBackward, input, Inputs
  <2>2. IsTable(backward', Way)
    <3>1. cost \in [Edge -> Time] /\ destination \in Node
      BY DEF Inputs
    <3>2. backward' = Dijkstra(BackwardArcs, destination)
      BY <1>3 DEF SearchBackward
    <3> QED
      BY <3>1, <3>2, LinksOfArcs, DijkstraTable DEF Way
  <2>3. /\ forward' = forward /\ destination' = destination /\ available' = available
        /\ todo' = DOMAIN forward /\ pc' = "intersect" /\ pc = "backward" /\ feasible' = << >>
    BY <1>3 DEF SearchBackward, input, Progress
  <2>4. IsTable(forward, From)' /\ IsTable(backward, Way)'
    BY <2>1, <2>2, <2>3 DEF IsTable, Progress
  <2>5. Found' = << >>
    <3>1. DOMAIN Found' = {}
      BY <2>3 DEF Found
    <3> QED
      BY <3>1 DEF Found
  <2>6. Over(forward[destination], available)' = Over(forward[destination], available)
    BY <2>3 DEF Over
  <2>7. Progress'
    BY <2>3, <2>4, <2>5, <2>6 DEF Progress
  <2> QED
    BY <2>1, <2>7
<1>4. ASSUME NEW n \in Node, Intersect(n) PROVE IInv'
  <2>1. Inputs' /\ From' = From /\ Way' = Way
    BY <1>1, <1>4 DEF Intersect, input, Inputs
  <2>2. /\ forward' = forward /\ backward' = backward /\ pc' = pc /\ pc = "intersect"
        /\ destination' = destination /\ available' = available
        /\ todo' = todo \ {n} /\ n \in todo
    BY <1>4 DEF Intersect, input
  <2>3. /\ Within(n) => feasible' = Put(feasible, n, Label(n))
        /\ ~Within(n) => feasible' = feasible
    BY <1>4 DEF Intersect, Within, Label
  <2>4. n \in DOMAIN forward /\ feasible = Found /\ todo \subseteq DOMAIN forward
    BY <2>2 DEF Progress
  <2>5. Found' = [x \in {m \in DOMAIN forward \ (todo \ {n}) : Within(m)} |-> Label(x)]
    BY <2>2 DEF Found, Within, Label, Slack, Fits, Over, Sum
  <2>6. feasible' = Found'
    <3>1. CASE Within(n)
      <4>1. {m \in DOMAIN forward \ (todo \ {n}) : Within(m)}
              = {m \in DOMAIN forward \ todo : Within(m)} \cup {n}
        BY <2>2, <2>4, <3>1
      <4>2. DOMAIN feasible = {m \in DOMAIN forward \ todo : Within(m)}
        BY <2>4 DEF Found
      <4>3. \A x \in DOMAIN feasible : feasible[x] = Label(x)
        BY <2>4 DEF Found
      <4> QED
        BY <2>3, <2>5, <3>1, <4>1, <4>2, <4>3 DEF Put
    <3>2. CASE ~Within(n)
      <4>1. {m \in DOMAIN forward \ (todo \ {n}) : Within(m)}
              = {m \in DOMAIN forward \ todo : Within(m)}
        BY <2>2, <2>4, <3>2
      <4> QED
        BY <2>3, <2>4, <2>5, <3>2, <4>1 DEF Found
    <3> QED
      BY <3>1, <3>2
  <2>7. IsTable(forward, From)' /\ IsTable(backward, Way)'
    BY <2>1, <2>2 DEF IsTable, Progress
  <2>8. Over(forward[destination], available)' = Over(forward[destination], available)
    BY <2>2 DEF Over
  <2>9. Progress'
    BY <2>2, <2>4, <2>6, <2>7, <2>8 DEF Progress
  <2> QED
    BY <2>1, <2>9
<1>5. CASE Return
  <2>1. Inputs' /\ From' = From /\ Way' = Way
    BY <1>1, <1>5 DEF Return, input, Inputs
  <2>2. /\ UNCHANGED <<destination, available, forward, backward, feasible, todo>>
        /\ pc = "intersect" /\ pc' = "ok" /\ todo = {}
    BY <1>5 DEF Return, input
  <2>3. IsTable(forward, From)' /\ IsTable(backward, Way)'
    BY <2>1, <2>2 DEF IsTable, Progress
  <2>4. Found' = Found
    BY <2>2 DEF Found, Within, Label, Slack, Fits, Over, Sum
  <2>5. Over(forward[destination], available)' = Over(forward[destination], available)
    BY <2>2 DEF Over
  <2>6. Progress'
    BY <2>2, <2>3, <2>4, <2>5 DEF Progress
  <2> QED
    BY <2>1, <2>6
<1>6. CASE UNCHANGED vars
  <2>1. Inputs' /\ From' = From /\ Way' = Way
    BY <1>1, <1>6 DEF vars, Inputs
  <2>2. UNCHANGED <<destination, available, forward, backward, feasible, todo, pc>>
    BY <1>6 DEF vars
  <2>3. /\ IsTable(forward, From)' = IsTable(forward, From)
        /\ IsTable(backward, Way)' = IsTable(backward, Way)
    BY <2>1, <2>2 DEF IsTable
  <2>4. Found' = Found /\ Over(forward[destination], available)' = Over(forward[destination], available)
    BY <2>2 DEF Found, Within, Label, Slack, Fits, Over, Sum
  <2>5. Progress'
    BY <2>2, <2>3, <2>4 DEF Progress
  <2> QED
    BY <2>1, <2>5
<1> QED
  BY <1>2, <1>3, <1>4, <1>5, <1>6 DEF Next

\* What a call has found at each of its points (feasibility.rs:174-243): the
\* tables it holds are those of the shortest times, and the prism holds the
\* nodes looked at so far that fit the budget.
THEOREM Invariance == Spec => []IInv
<1> QED
  BY InitIInv, NextIInv, PTL DEF Spec

----------------------------------------------------------------------------

LEMMA IInvImpliesTypeOK == IInv => TypeOK
<1> SUFFICES ASSUME IInv PROVE TypeOK
  OBVIOUS
<1>1. Inputs /\ Progress
  BY DEF IInv
<1>2. /\ DOMAIN From \subseteq Node /\ \A n \in DOMAIN From : From[n] \in Nat
      /\ DOMAIN Way \subseteq Node /\ \A n \in DOMAIN Way : Way[n] \in Nat
  BY <1>1, Tables
<1>0. DOMAIN << >> = {}
  OBVIOUS
<1>3. DOMAIN forward \subseteq Node /\ \A n \in DOMAIN forward : forward[n] \in Time
  BY <1>0, <1>1, <1>2 DEF Progress, IsTable, Time
<1>4. DOMAIN backward \subseteq Node /\ \A n \in DOMAIN backward : backward[n] \in Time
  BY <1>0, <1>1, <1>2 DEF Progress, IsTable, Time, Inputs
<1>5. /\ DOMAIN feasible \subseteq DOMAIN forward \cap DOMAIN backward
      /\ \A n \in DOMAIN feasible : feasible[n] \in [inbound : Nat, outbound : Nat, slack : Nat]
  <2>1. CASE pc \notin {"intersect", "ok"}
    BY <1>0, <1>1, <2>1 DEF Progress
  <2>2. CASE pc \in {"intersect", "ok"}
    <3>1. feasible = Found /\ IsTable(forward, From) /\ IsTable(backward, Way)
      BY <1>1, <2>2 DEF Progress
    <3>2. /\ DOMAIN feasible \subseteq DOMAIN forward
          /\ \A n \in DOMAIN feasible : Within(n) /\ feasible[n] = Label(n)
      BY <3>1 DEF Found
    <3>3. ASSUME NEW n \in DOMAIN feasible
          PROVE  n \in DOMAIN backward /\ feasible[n] \in [inbound : Nat, outbound : Nat, slack : Nat]
      <4>1. /\ n \in DOMAIN From /\ n \in DOMAIN Way /\ forward[n] = From[n] /\ backward[n] = Way[n]
            /\ Slack(n) \in Nat
        BY <1>1, <3>1, <3>2, WithinBudget
      <4>2. n \in DOMAIN backward
        BY <3>1, <4>1 DEF IsTable
      <4> QED
        BY <1>2, <3>2, <4>1, <4>2 DEF Label
    <3> QED
      BY <3>2, <3>3
  <2> QED
    BY <2>1, <2>2
<1> QED
  BY <1>1, <1>3, <1>4, <1>5 DEF TypeOK, Inputs, Progress

\* Type correctness of a feasibility query; that no slack is negative is part
\* of it.
THEOREM TypeCorrect == Spec => []TypeOK
<1> QED
  BY Invariance, IInvImpliesTypeOK, PTL

\* The prism at the end, in terms of the shortest times.
LEMMA FinishedPrism ==
    ASSUME IInv, pc = "ok"
    PROVE  /\ \A n : n \in DOMAIN feasible <=>
                /\ n \in DOMAIN From /\ n \in DOMAIN Way
                /\ available # NaN /\ From[n] + Way[n] <= available
           /\ \A n \in DOMAIN feasible :
                feasible[n] = [inbound |-> From[n], outbound |-> Way[n],
                               slack |-> available - (From[n] + Way[n])]
<1>1. /\ Inputs /\ IsTable(forward, From) /\ IsTable(backward, Way)
      /\ feasible = Found /\ todo = {}
  BY DEF IInv, Progress
<1>2. /\ \A n : n \in DOMAIN feasible <=> n \in DOMAIN forward /\ Within(n)
      /\ \A n \in DOMAIN feasible : feasible[n] = Label(n)
  BY <1>1 DEF Found
<1>3. DOMAIN From \subseteq DOMAIN forward
  BY <1>1 DEF IsTable
<1>4. \A n \in DOMAIN forward :
        /\ Within(n) <=> /\ n \in DOMAIN From /\ n \in DOMAIN Way
                         /\ available # NaN /\ From[n] + Way[n] <= available
        /\ Within(n) => /\ forward[n] = From[n] /\ backward[n] = Way[n]
                        /\ Slack(n) = available - (From[n] + Way[n])
  BY <1>1, WithinBudget
<1> QED
  BY <1>2, <1>3, <1>4 DEF Label

\* A budget that is a number.
LEMMA NumberBudget ==
    ASSUME Inputs, available # NaN
    PROVE  available \in Nat /\ \A t \in Nat : Over(t, available) <=> t > available
<1>1. Bad \notin Nat
  BY NumberAssumption
<1> QED
  BY <1>1 DEF Over, Inputs

LEMMA IInvImpliesConnected == IInv => PrismIsConnected
<1> SUFFICES ASSUME IInv, pc = "ok", NEW n \in DOMAIN feasible
             PROVE  /\ n # origin => \E e \in Edge :
                         /\ Target[e] = n /\ Source[e] \in DOMAIN feasible
                         /\ Sum(feasible[Source[e]].inbound, cost[e]) = feasible[n].inbound
                    /\ n # destination => \E e \in Edge :
                         /\ Source[e] = n /\ Target[e] \in DOMAIN feasible
                         /\ Sum(feasible[Target[e]].outbound, cost[e]) = feasible[n].outbound
  BY DEF PrismIsConnected
<1>1. Inputs
  BY DEF IInv
<1>2. /\ n \in DOMAIN From /\ n \in DOMAIN Way /\ available # NaN
      /\ From[n] + Way[n] <= available
  BY FinishedPrism
<1>3. \A v \in DOMAIN feasible : feasible[v].inbound = From[v] /\ feasible[v].outbound = Way[v]
  BY FinishedPrism
<1>4. available \in Nat /\ Bad \notin Nat
  BY <1>1, <1>2, NumberBudget, NumberAssumption
<1>5. From[n] \in Nat /\ Way[n] \in Nat
  BY <1>1, <1>2, Tables
<1>6. ASSUME n # origin
      PROVE  \E e \in Edge : /\ Target[e] = n /\ Source[e] \in DOMAIN feasible
                             /\ Sum(feasible[Source[e]].inbound, cost[e]) = feasible[n].inbound
  <2>1. PICK l \in Links : l.to = n /\ l.from \in DOMAIN From /\ From[n] = From[l.from] + l.time
    BY <1>1, <1>2, <1>6, Tables
  <2>2. /\ l.from \in DOMAIN Way /\ Way[l.from] <= Way[n] + l.time
        /\ l.time \in Nat /\ From[l.from] \in Nat
    BY <1>1, <1>2, <2>1, Tables
  <2>3. Way[l.from] \in Nat
    BY <1>1, <2>2, Tables
  <2>4. From[l.from] + Way[l.from] <= available
    BY <1>2, <1>4, <1>5, <2>1, <2>2, <2>3
  <2>5. l.from \in DOMAIN feasible
    BY <1>2, <2>1, <2>2, <2>4, FinishedPrism
  <2>6. PICK e \in Edge : l = [from |-> Source[e], to |-> Target[e], time |-> cost[e]]
    BY DEF Links
  <2>7. Source[e] = l.from /\ Target[e] = l.to /\ cost[e] = l.time
    BY <2>6
  <2>8. Sum(From[l.from], l.time) = From[n]
    BY <1>4, <2>1, <2>2 DEF Sum
  <2> QED
    BY <1>3, <2>1, <2>5, <2>7, <2>8
<1>7. ASSUME n # destination
      PROVE  \E e \in Edge : /\ Source[e] = n /\ Target[e] \in DOMAIN feasible
                             /\ Sum(feasible[Target[e]].outbound, cost[e]) = feasible[n].outbound
  <2>1. PICK l \in Links : l.from = n /\ l.to \in DOMAIN Way /\ Way[n] = Way[l.to] + l.time
    BY <1>1, <1>2, <1>7, Tables
  <2>2. /\ l.to \in DOMAIN From /\ From[l.to] <= From[n] + l.time
        /\ l.time \in Nat /\ Way[l.to] \in Nat
    BY <1>1, <1>2, <2>1, Tables
  <2>3. From[l.to] \in Nat
    BY <1>1, <2>2, Tables
  <2>4. From[l.to] + Way[l.to] <= available
    BY <1>2, <1>4, <1>5, <2>1, <2>2, <2>3
  <2>5. l.to \in DOMAIN feasible
    BY <1>2, <2>1, <2>2, <2>4, FinishedPrism
  <2>6. PICK e \in Edge : l = [from |-> Source[e], to |-> Target[e], time |-> cost[e]]
    BY DEF Links
  <2>7. Source[e] = l.from /\ Target[e] = l.to /\ cost[e] = l.time
    BY <2>6
  <2>8. Sum(Way[l.to], l.time) = Way[n]
    BY <1>4, <2>1, <2>2 DEF Sum
  <2> QED
    BY <1>3, <2>1, <2>5, <2>7, <2>8
<1> QED
  BY <1>6, <1>7

\* Every node of a prism has an edge into it and one out of it that its labels
\* add up along, within the prism (PrismIsConnected).
THEOREM PrismHangsTogether == Spec => []PrismIsConnected
<1> QED
  BY Invariance, IInvImpliesConnected, PTL

\* The triangle inequality of shortest times: who can be visited within the
\* budget lies on a trip that fits.
LEMMA TripFits ==
    ASSUME Inputs, NEW v \in DOMAIN From \cap DOMAIN Way
    PROVE  destination \in DOMAIN From /\ From[destination] <= From[v] + Way[v]
<1>1. AreLinks(Node, Links) /\ origin \in Node /\ destination \in Node /\ v \in Node
  BY LinksOfArcs, Tables DEF Inputs
<1>2. /\ destination \in DOMAIN LinkTimes(Node, Links, v)
      /\ LinkTimes(Node, Links, v)[destination] = Way[v]
  BY <1>1, TurnedTimes, FiniteAssumption DEF Way
<1>3. PICK k, at, c : /\ LinkWalk(Node, Links, v, k, at, c) /\ at[k] = destination
                      /\ c[k] = Way[v]
  BY <1>1, <1>2, LinkTimesAreShortest, FiniteAssumption
<1>4. at[k] \in DOMAIN From /\ From[at[k]] <= From[v] + c[k]
  BY <1>1, <1>3, LinkTimesTriangle, FiniteAssumption DEF From
<1> QED
  BY <1>3, <1>4

LEMMA IInvImpliesExact == IInv => PrismIsExact
<1> DEFINE way == [v \in {u \in Node : destination \in DOMAIN ShortestTimes(u)} |->
                     ShortestTimes(v)[destination]]
           inside == {v \in DOMAIN From \cap DOMAIN way : From[v] + way[v] <= available}
<1>0. SUFFICES ASSUME IInv, pc \in {"ok", "no path", "too tight"}, available # NaN
             PROVE  /\ pc = "ok" <=> inside # {}
                    /\ pc = "no path" => destination \notin DOMAIN From
                    /\ feasible = [v \in inside |->
                         [inbound |-> From[v], outbound |-> way[v],
                          slack |-> available - (From[v] + way[v])]]
  BY DEF PrismIsExact, ShortestTimes, From
<1>1. Inputs /\ Progress /\ IsTable(forward, From)
  BY <1>0 DEF IInv, Progress
<1>2. AreLinks(Node, Links) /\ destination \in Node
  BY <1>1, LinksOfArcs DEF Inputs
<1>3. DOMAIN way = DOMAIN Way /\ \A v \in DOMAIN way : way[v] = Way[v]
  <2>1. \A v \in Node :
          /\ destination \in DOMAIN ShortestTimes(v) <=> v \in DOMAIN Way
          /\ destination \in DOMAIN ShortestTimes(v) => ShortestTimes(v)[destination] = Way[v]
    BY <1>2, TurnedTimes, FiniteAssumption DEF ShortestTimes, Way
  <2>2. DOMAIN Way \subseteq Node
    BY <1>1, Tables
  <2> QED
    BY <2>1, <2>2
<1>4. \A v : v \in inside <=> v \in DOMAIN From /\ v \in DOMAIN Way /\ From[v] + Way[v] <= available
  BY <1>3
<1> HIDE DEF way
<1>5. available \in Nat /\ \A t \in Nat : Over(t, available) <=> t > available
  BY <1>0, <1>1, NumberBudget
<1>9. \A t \in Nat : t <= available => ~Over(t, available)
  BY <1>5
<1>10. \A t \in Nat : ~Over(t, available) => t <= available
  BY <1>5
<1>6. /\ \A n \in DOMAIN From : From[n] \in Nat
      /\ \A n \in DOMAIN Way : Way[n] \in Nat
      /\ destination \in DOMAIN Way /\ Way[destination] = 0
  BY <1>1, Tables
<1>7. CASE pc = "ok"
  <2>1. \A n : n \in DOMAIN feasible <=> n \in inside
    BY <1>0, <1>4, <1>7, FinishedPrism
  <2>2. \A n \in DOMAIN feasible :
          feasible[n] = [inbound |-> From[n], outbound |-> way[n],
                         slack |-> available - (From[n] + way[n])]
    BY <1>0, <1>3, <1>4, <1>7, <2>1, FinishedPrism
  <2>3. feasible = [n \in DOMAIN feasible |-> feasible[n]]
    <3>1. feasible = Found
      BY <1>1, <1>7 DEF Progress
    <3> QED
      BY <3>1 DEF Found
  <2>4. destination \in inside
    <3>1. destination \in DOMAIN forward /\ ~Over(forward[destination], available)
      BY <1>1, <1>7 DEF Progress
    <3>2. available # NaN /\ Bad \notin Nat
      BY <1>0, NumberAssumption
    <3>3. destination \in DOMAIN From
      BY <1>1, <3>1, <3>2 DEF IsTable, Over
    <3>4. forward[destination] = From[destination] /\ From[destination] \in Nat
      BY <1>1, <1>6, <3>1, <3>3 DEF IsTable
    <3>5. From[destination] <= available
      BY <1>10, <3>1, <3>4
    <3> HIDE DEF inside
    <3>6. From[destination] + Way[destination] <= available
      BY <1>6, <3>4, <3>5
    <3> QED
      BY <1>4, <1>6, <3>3, <3>6
  <2>5. feasible = [v \in inside |-> [inbound |-> From[v], outbound |-> way[v],
                                      slack |-> available - (From[v] + way[v])]]
    <3> HIDE DEF inside
    <3>1. DOMAIN feasible = inside
      BY <2>1
    <3> QED
      BY <2>2, <2>3, <3>1
  <2> QED
    BY <1>7, <2>4, <2>5
<1>8. CASE pc # "ok"
  <2>1. feasible = << >>
    BY <1>0, <1>1, <1>8 DEF Progress
  <2>2. inside = {}
    <3>1. SUFFICES ASSUME NEW v \in inside PROVE FALSE
      OBVIOUS
    <3>2. v \in DOMAIN From /\ v \in DOMAIN Way /\ From[v] + Way[v] <= available
      BY <1>4
    <3>3. destination \in DOMAIN From /\ From[destination] <= From[v] + Way[v]
      BY <1>1, <3>2, TripFits
    <3>4. From[destination] \in Nat /\ From[v] \in Nat /\ Way[v] \in Nat
      BY <1>6, <3>2, <3>3
    <3> HIDE DEF inside
    <3>5. From[destination] <= available
      BY <1>5, <3>2, <3>3, <3>4
    <3>6. destination \in DOMAIN forward /\ forward[destination] = From[destination]
      BY <1>1, <3>3 DEF IsTable
    <3>7. ~Over(forward[destination], available)
      BY <1>9, <3>4, <3>5, <3>6
    <3> QED
      BY <1>0, <1>1, <1>8, <3>6, <3>7 DEF Progress
  <2>3. pc = "no path" => destination \notin DOMAIN From
    BY <1>1 DEF Progress, IsTable
  <2>4. << >> = [v \in inside |-> [inbound |-> From[v], outbound |-> way[v],
                                   slack |-> available - (From[v] + way[v])]]
    <3> DEFINE f == [v \in inside |-> [inbound |-> From[v], outbound |-> way[v],
                                       slack |-> available - (From[v] + way[v])]]
    <3>1. DOMAIN f = {} /\ f = [v \in DOMAIN f |-> f[v]]
      BY <2>2
    <3> HIDE DEF f
    <3>2. f = << >>
      BY <3>1
    <3> QED
      BY <3>2 DEF f
  <2> QED
    BY <1>8, <2>1, <2>2, <2>3, <2>4
<1> QED
  BY <1>7, <1>8

\* The prism of any trip within any budget is exactly the set of nodes whose
\* shortest times to and fro fit it, with those times; an error means that the
\* trip does not fit (PrismIsExact).
THEOREM PrismIsRight == Spec => []PrismIsExact
<1> QED
  BY Invariance, IInvImpliesExact, PTL

=============================================================================
