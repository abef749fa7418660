--------------------------- MODULE RoutingProofs ---------------------------
(***************************************************************************)
(* What shortest_path_edges does for every graph, estimate and query.      *)
(***************************************************************************)
EXTENDS Routing, Lemmas, TLAPS

Stopped == pc \in {"trace", "measure", "found"}

\* All outgoing edges of n that the loop has visited are accounted for.
Accounted(e) ==
    Usable(e) => /\ Target[e] \in DOMAIN best
                 /\ best[Target[e]] <= best[Source[e]] + cost[e]

Expanded(n) ==
    /\ n # dest
    /\ \A e \in OutEdges(n) :
         \/ pc = "relax" /\ n = popped.node /\ e \in todo
         \/ Accounted(e)

\* A label waits in the heap or has been expanded; the destination is never
\* expanded, its pop ends the search.
Frontier ==
    \A n \in DOMAIN best :
        \/ Entry(best[n], n) \in heap
        \/ Expanded(n)
        \/ Stopped /\ n = dest

OriginInv ==
    /\ origin \in DOMAIN best /\ best[origin] = 0
    /\ origin \notin DOMAIN predecessor

HeapInv ==
    \A h \in heap :
        /\ best[h.node] <= h.cost
        /\ h.total = h.cost + Heuristic(h.node)

PoppedInv ==
    /\ pc = "relax" => popped.cost = best[popped.node]
    /\ Stopped =>
         /\ dest \in DOMAIN best
         /\ popped = Entry(best[dest], dest)
         /\ \A h \in heap : popped.total <= h.total
    /\ pc = "none" => heap = {}

TraceInv ==
    /\ pc \in {"pop", "relax"} => current = dest
    /\ pc = "trace" => current \in DOMAIN best
    /\ \A i \in 1 .. Len(edges) : Usable(edges[i])

IInv ==
    /\ TypeOK
    /\ OriginInv
    /\ HeapInv
    /\ PoppedInv
    /\ TraceInv
    /\ Frontier
    /\ PredecessorsExplainLabels
    /\ PredecessorsLeadToOrigin
    /\ NoMissingPredecessor

----------------------------------------------------------------------------

LEMMA EmptyFunction == DOMAIN << >> = {}
OBVIOUS

LEMMA InitInv == Init => IInv
<1> SUFFICES ASSUME Init PROVE IInv
  OBVIOUS
<1>1. /\ cost \in [Edge -> Nat \cup {Bad}]
      /\ origin \in Node /\ dest \in Node
  BY GraphAssumption, NumberAssumption, GapAssumption DEF Init, CostTable
<1>2. DOMAIN best = {origin} /\ best[origin] = 0 /\ DOMAIN predecessor = {}
  BY EmptyFunction DEF Init, Put
<1>3. /\ popped = [total |-> Heuristic(origin), cost |-> 0, node |-> origin]
      /\ Heuristic(origin) \in Nat
      /\ heap = {Entry(0, origin)} /\ heap = {popped}
      /\ todo = {} /\ current = dest /\ edges = << >> /\ times = << >> /\ pc = "pop"
  BY <1>1, GapAssumption DEF Init, Entry, Heuristic
<1>4. TypeOK
  BY <1>1, <1>2, <1>3 DEF TypeOK
<1>5. OriginInv /\ HeapInv /\ PoppedInv /\ TraceInv /\ NoMissingPredecessor
  BY <1>2, <1>3
  DEF OriginInv, HeapInv, PoppedInv, TraceInv, NoMissingPredecessor, Stopped
<1>6. Frontier
  BY <1>2, <1>3 DEF Frontier
<1>7. PredecessorsExplainLabels /\ PredecessorsLeadToOrigin
  BY <1>2 DEF PredecessorsExplainLabels, PredecessorsLeadToOrigin
<1> QED
  BY <1>4, <1>5, <1>6, <1>7 DEF IInv

\* Labels and predecessors stay; the popped entry leaves the heap for the
\* relaxation, the end of the search, or nothing.
LEMMA PopInv == IInv /\ Pop => IInv'
<1> SUFFICES ASSUME IInv, Pop PROVE IInv'
  OBVIOUS
<1>1. PICK h \in Cheapest :
        /\ heap' = heap \ {h}
        /\ popped' = h
        /\ IF h.cost > best[h.node]
             THEN pc' = "pop" /\ todo' = {}
             ELSE IF h.node = dest
                    THEN pc' = "trace" /\ todo' = {}
                    ELSE pc' = "relax" /\ todo' = OutEdges(h.node)
  BY DEF Pop
<1>2. /\ pc = "pop"
      /\ UNCHANGED <<cost, origin, dest, best, predecessor, current, edges, times>>
  BY DEF Pop, query, answer
<1>3. /\ h \in heap /\ h \in [total : Nat, cost : Nat, node : DOMAIN best]
      /\ h.cost \in Nat /\ h.node \in DOMAIN best /\ best[h.node] \in Nat
      /\ \A g \in heap : h.total <= g.total
      /\ best[h.node] <= h.cost
      /\ h.total = h.cost + Heuristic(h.node)
  BY DEF Cheapest, IInv, TypeOK, HeapInv
<1>4. h = [total |-> h.cost + Heuristic(h.node), cost |-> h.cost, node |-> h.node]
  BY <1>3
<1>5. \/ h.cost > best[h.node] /\ pc' = "pop" /\ todo' = {}
      \/ h.cost = best[h.node] /\ h.node = dest /\ pc' = "trace" /\ todo' = {}
      \/ h.cost = best[h.node] /\ h.node # dest /\ pc' = "relax" /\ todo' = OutEdges(h.node)
  BY <1>1, <1>3
<1>6. TypeOK'
  BY <1>1, <1>2, <1>3, <1>5 DEF IInv, TypeOK, OutEdges
<1>7. OriginInv' /\ HeapInv' /\ NoMissingPredecessor'
  BY <1>1, <1>2, <1>5
  DEF IInv, OriginInv, HeapInv, NoMissingPredecessor, Heuristic
<1>8. PoppedInv' /\ TraceInv'
  <2>1. PoppedInv'
    <3>1. CASE pc' = "trace"
      <4>1. h.cost = best[dest] /\ h.node = dest /\ dest' = dest /\ best' = best
        BY <1>2, <1>5, <3>1
      <4>2. popped' = Entry(best[dest], dest)
        BY <1>1, <1>4, <4>1 DEF Entry
      <4>3. Entry(best[dest], dest)' = Entry(best[dest], dest)
        BY <1>2 DEF Entry, Heuristic
      <4> QED
        BY <1>1, <1>3, <3>1, <4>1, <4>2, <4>3 DEF PoppedInv, Stopped
    <3>2. CASE pc' = "relax"
      BY <1>1, <1>2, <1>5, <3>2 DEF PoppedInv, Stopped
    <3>3. CASE pc' = "pop"
      BY <3>3 DEF PoppedInv, Stopped
    <3> QED
      BY <1>5, <3>1, <3>2, <3>3
  <2>2. TraceInv'
    BY <1>2, <1>3, <1>5 DEF IInv, TraceInv, Usable
  <2> QED
    BY <2>1, <2>2
<1>9. PredecessorsExplainLabels' /\ PredecessorsLeadToOrigin'
  BY <1>2 DEF IInv, PredecessorsExplainLabels, PredecessorsLeadToOrigin, Usable
<1>10. Frontier'
  <2> SUFFICES ASSUME NEW n \in DOMAIN best
               PROVE  \/ Entry(best[n], n)' \in heap'
                      \/ Expanded(n)'
                      \/ (Stopped /\ n = dest)'
    BY <1>2 DEF Frontier
  <2>0. Entry(best[n], n)' = Entry(best[n], n)
    BY <1>2 DEF Entry, Heuristic
  <2>1. CASE Expanded(n)
    <3>1. \A e \in OutEdges(n) : Accounted(e)'
      BY <2>1, <1>2 DEF Expanded, Accounted, Usable
    <3> QED
      BY <2>1, <3>1, <1>2 DEF Expanded, OutEdges
  <2>2. CASE Entry(best[n], n) = h
    <3>1. h.node = n /\ h.cost = best[n]
      BY <2>2 DEF Entry
    <3>2. CASE n = dest
      BY <3>1, <3>2, <1>2, <1>3, <1>5 DEF Stopped
    <3>3. CASE n # dest
      <4>1. pc' = "relax" /\ todo' = OutEdges(n) /\ popped' = h
        BY <3>1, <3>3, <1>1, <1>3, <1>5
      <4> QED
        BY <3>1, <3>3, <4>1, <1>2 DEF Expanded, OutEdges
    <3> QED
      BY <3>2, <3>3
  <2>3. CASE Entry(best[n], n) \in heap \ {h}
    BY <2>0, <2>3, <1>1
  <2>4. ~Stopped
    BY <1>2 DEF Stopped
  <2> QED
    BY <2>1, <2>2, <2>3, <2>4 DEF IInv, Frontier
<1> QED
  BY <1>6, <1>7, <1>8, <1>9, <1>10 DEF IInv

\* A new label of v keeps the predecessor table a tree.  On a cycle through v the
\* labels would have to descend from the old label of v to the new one, and the
\* nodes of the cycle below the old label would have been a cycle before.
LEMMA NoNewCycle ==
    IInv =>
      \A v \in Node, u \in DOMAIN best, e \in Edge, c \in Nat :
        \A table :
          /\ Source[e] = u /\ best[u] <= c /\ v # origin
          /\ v \in DOMAIN best => c < best[v]
          /\ DOMAIN table = DOMAIN predecessor \cup {v} /\ table[v] = e
          /\ \A n \in DOMAIN predecessor : n # v => table[n] = predecessor[n]
          => \A S \in SUBSET DOMAIN table :
               S # {} => \E n \in S : Source[table[n]] \notin S
<1> SUFFICES ASSUME
        IInv, NEW v \in Node, NEW u \in DOMAIN best, NEW e \in Edge, NEW c \in Nat,
        Source[e] = u, best[u] <= c, v # origin, v \in DOMAIN best => c < best[v],
        NEW table, DOMAIN table = DOMAIN predecessor \cup {v}, table[v] = e,
        \A n \in DOMAIN predecessor : n # v => table[n] = predecessor[n],
        NEW S \in SUBSET DOMAIN table, S # {},
        \A n \in S : Source[table[n]] \in S
    PROVE FALSE
  OBVIOUS
<1>0. /\ \A n \in DOMAIN best : best[n] \in Nat
      /\ DOMAIN predecessor \subseteq DOMAIN best
  BY DEF IInv, TypeOK
<1>1. ASSUME v \notin S PROVE FALSE
  <2>1. S \in SUBSET DOMAIN predecessor /\ \A n \in S : table[n] = predecessor[n]
    BY <1>1
  <2> QED
    BY <2>1 DEF IInv, PredecessorsLeadToOrigin
<1>2. ASSUME v \in S PROVE FALSE
  <2>1. u \in S
    BY <1>2
  <2>2. CASE v \in DOMAIN best
    <3> DEFINE T == {n \in S : best[n] < best[v]}
    <3>1. T \in SUBSET DOMAIN predecessor
      <4>1. v \notin T
        BY <1>0, <2>2
      <4> QED
        BY <4>1
    <3>2. u \in T
      BY <1>0, <2>1, <2>2
    <3>3. ASSUME NEW n \in T PROVE Source[predecessor[n]] \in T
      <4>1. n \in DOMAIN predecessor /\ n \in DOMAIN best /\ n # v /\ n \in S
            /\ best[n] < best[v]
        BY <1>0, <2>2, <3>1
      <4>2. Source[predecessor[n]] \in S
        BY <4>1
      <4>3. n # origin
        BY <4>1 DEF IInv, OriginInv
      <4>4. /\ Source[predecessor[n]] \in DOMAIN best /\ Usable(predecessor[n])
            /\ best[Source[predecessor[n]]] + cost[predecessor[n]] <= best[n]
            /\ predecessor[n] \in Edge
        BY <4>1, <4>3 DEF IInv, PredecessorsExplainLabels, TypeOK
      <4>5. cost[predecessor[n]] \in Nat
        BY <4>4 DEF IInv, TypeOK, Usable
      <4>6. best[Source[predecessor[n]]] \in Nat /\ best[n] \in Nat /\ best[v] \in Nat
        BY <1>0, <2>2, <4>1, <4>4
      <4>7. best[Source[predecessor[n]]] < best[v]
        BY <4>1, <4>4, <4>5, <4>6
      <4> QED
        BY <4>2, <4>7
    <3> HIDE DEF T
    <3> QED
      BY <3>1, <3>2, <3>3 DEF IInv, PredecessorsLeadToOrigin
  <2>3. CASE v \notin DOMAIN best
    <3> DEFINE T == S \ {v}
    <3>1. T \in SUBSET DOMAIN predecessor /\ u \in T
      BY <2>1, <2>3
    <3>2. ASSUME NEW n \in T PROVE Source[predecessor[n]] \in T
      <4>1. n \in DOMAIN predecessor /\ n \in DOMAIN best /\ n # origin
        BY <1>0, <3>1 DEF IInv, OriginInv
      <4>2. Source[predecessor[n]] \in DOMAIN best
        BY <4>1 DEF IInv, PredecessorsExplainLabels
      <4> QED
        BY <4>1, <4>2, <2>3
    <3> HIDE DEF T
    <3> QED
      BY <3>1, <3>2 DEF IInv, PredecessorsLeadToOrigin
  <2> QED
    BY <2>2, <2>3
<1> QED
  BY <1>1, <1>2

\* A relaxation that improves v lowers its label, gives it the edge as its
\* predecessor and queues it again; the others change nothing.
LEMMA RelaxInv == ASSUME NEW e \in Edge PROVE IInv /\ Relax(e) => IInv'
<1> SUFFICES ASSUME IInv, Relax(e) PROVE IInv'
  OBVIOUS
<1> DEFINE u == popped.node
           v == Target[e]
           c == popped.cost + cost[e]
<1>1. /\ pc = "relax" /\ pc' = "relax" /\ e \in todo /\ todo' = todo \ {e}
      /\ UNCHANGED <<cost, origin, dest, popped, current, edges, times>>
  BY DEF Relax, query, answer
<1>2. /\ u \in DOMAIN best /\ popped.cost = best[u] /\ best[u] \in Nat
      /\ Source[e] = u /\ v \in Node /\ u \in Node
  BY <1>1, GraphAssumption DEF IInv, TypeOK, PoppedInv
<1>3. /\ \A n \in DOMAIN best : best[n] \in Nat
      /\ DOMAIN predecessor \subseteq DOMAIN best
      /\ DOMAIN best \subseteq Node
  BY DEF IInv, TypeOK
<1>4. \A n, d : Entry(d, n)' = Entry(d, n)
  BY <1>1 DEF Entry, Heuristic
<1>5. CASE Usable(e) /\ Improves(v, c)
  <2>1. cost[e] \in Nat /\ c \in Nat /\ best[u] <= c
    BY <1>2, <1>5 DEF IInv, TypeOK, Usable
  <2>2. /\ best' = Put(best, v, c)
        /\ predecessor' = Put(predecessor, v, e)
        /\ heap' = heap \cup {Entry(c, v)}
    BY <1>5 DEF Relax
  <2>3. /\ DOMAIN best' = DOMAIN best \cup {v}
        /\ best'[v] = c
        /\ \A n \in DOMAIN best : n # v => best'[n] = best[n]
    BY <2>2 DEF Put
  <2>4. /\ DOMAIN predecessor' = DOMAIN predecessor \cup {v}
        /\ predecessor'[v] = e
        /\ \A n \in DOMAIN predecessor : n # v => predecessor'[n] = predecessor[n]
    BY <2>2 DEF Put
  <2>5. v \in DOMAIN best => c < best[v]
    BY <1>5 DEF Improves
  <2>6. v # u /\ v # origin
    BY <1>2, <2>1, <2>5 DEF IInv, OriginInv
  <2>7. Heuristic(v) \in Nat /\ Entry(c, v).total \in Nat
        /\ Entry(c, v).cost = c /\ Entry(c, v).node = v
        /\ Entry(c, v) = [total |-> c + Heuristic(v), cost |-> c, node |-> v]
    <3>1. Heuristic(v) \in Nat
      BY <1>2, GapAssumption DEF Heuristic, IInv, TypeOK
    <3> QED
      BY <2>1, <3>1 DEF Entry
  <2>8. TypeOK'
    <3>1. heap' \cup {popped'} \subseteq [total : Nat, cost : Nat, node : DOMAIN best']
      BY <1>1, <2>1, <2>2, <2>3, <2>7 DEF IInv, TypeOK
    <3>2. DOMAIN predecessor' \subseteq DOMAIN best'
          /\ \A n \in DOMAIN predecessor' : predecessor'[n] \in Edge
      BY <1>3, <2>3, <2>4 DEF IInv, TypeOK
    <3>3. DOMAIN best' \subseteq Node /\ \A n \in DOMAIN best' : best'[n] \in Nat
      BY <1>2, <1>3, <2>1, <2>3
    <3> QED
      BY <3>1, <3>2, <3>3, <1>1 DEF IInv, TypeOK
  <2>9. OriginInv'
    BY <1>1, <2>3, <2>4, <2>6 DEF IInv, OriginInv
  <2>10. HeapInv'
    <3>1. ASSUME NEW h \in heap PROVE (best[h.node] <= h.cost)'
      <4>1. h.node \in DOMAIN best /\ h.cost \in Nat /\ best[h.node] <= h.cost
            /\ best[h.node] \in Nat
        BY <1>3 DEF IInv, TypeOK, HeapInv
      <4> QED
        BY <4>1, <2>1, <2>3, <2>5
    <3>2. ASSUME NEW h \in heap PROVE (h.total = h.cost + Heuristic(h.node))'
      BY <1>1 DEF IInv, HeapInv, Heuristic
    <3>3. Heuristic(v)' = Heuristic(v)
      BY <1>1 DEF Heuristic
    <3> QED
      BY <3>1, <3>2, <3>3, <2>1, <2>2, <2>3, <2>7 DEF HeapInv
  <2>11. PoppedInv' /\ TraceInv' /\ NoMissingPredecessor'
    BY <1>1, <1>2, <2>3, <2>6
    DEF IInv, PoppedInv, TraceInv, NoMissingPredecessor, Stopped, Usable
  <2>12. PredecessorsExplainLabels'
    <3> SUFFICES ASSUME NEW n \in DOMAIN best', n # origin
                 PROVE  ( /\ n \in DOMAIN predecessor
                          /\ Usable(predecessor[n])
                          /\ Target[predecessor[n]] = n
                          /\ Source[predecessor[n]] \in DOMAIN best
                          /\ best[Source[predecessor[n]]] + cost[predecessor[n]] <= best[n] )'
      BY <1>1 DEF PredecessorsExplainLabels
    <3>1. CASE n = v
      BY <3>1, <1>1, <1>2, <1>5, <2>1, <2>3, <2>4, <2>6 DEF Usable
    <3>2. CASE n # v
      <4> DEFINE f == predecessor[n]
      <4>1. /\ n \in DOMAIN best /\ n \in DOMAIN predecessor /\ Usable(f)
            /\ Target[f] = n /\ Source[f] \in DOMAIN best
            /\ best[Source[f]] + cost[f] <= best[n]
        BY <3>2, <2>3 DEF IInv, PredecessorsExplainLabels
      <4>2. cost[f] \in Nat /\ best[Source[f]] \in Nat /\ best[n] \in Nat
        BY <4>1, <1>3 DEF IInv, TypeOK, Usable
      <4>3. best'[Source[f]] \in Nat /\ best'[Source[f]] <= best[Source[f]]
        BY <4>1, <4>2, <2>1, <2>3, <2>5
      <4>4. predecessor'[n] = f /\ best'[n] = best[n] /\ cost' = cost
        BY <3>2, <4>1, <2>3, <2>4, <1>1
      <4> QED
        BY <4>1, <4>2, <4>3, <4>4, <2>3, <2>4 DEF Usable
    <3> QED
      BY <3>1, <3>2
  <2>13. PredecessorsLeadToOrigin'
    <3> SUFFICES ASSUME NEW S \in SUBSET DOMAIN predecessor', S # {}
                 PROVE  \E n \in S : Source[predecessor'[n]] \notin S
      BY DEF PredecessorsLeadToOrigin
    <3>1. /\ v \in Node /\ u \in DOMAIN best /\ c \in Nat
          /\ Source[e] = u /\ best[u] <= c /\ v # origin
          /\ v \in DOMAIN best => c < best[v]
      BY <1>2, <2>1, <2>5, <2>6
    <3> HIDE DEF u, v, c
    <3>2. \A table :
            /\ DOMAIN table = DOMAIN predecessor \cup {v} /\ table[v] = e
            /\ \A n \in DOMAIN predecessor : n # v => table[n] = predecessor[n]
            => \A R \in SUBSET DOMAIN table :
                 R # {} => \E n \in R : Source[table[n]] \notin R
      BY <3>1, NoNewCycle
    <3> QED
      BY <2>4, <3>2
  <2>14. Frontier'
    <3> SUFFICES ASSUME NEW n \in DOMAIN best'
                 PROVE  Entry(best[n], n)' \in heap' \/ Expanded(n)'
      BY DEF Frontier
    <3>1. CASE n = v
      BY <3>1, <1>4, <2>2, <2>3 DEF Entry, Heuristic
    <3>2. CASE n # v
      <4>1. n \in DOMAIN best /\ best'[n] = best[n]
        BY <3>2, <2>3
      <4>2. CASE Entry(best[n], n) \in heap
        BY <4>1, <4>2, <2>2, <1>1 DEF Entry, Heuristic
      <4>3. CASE Expanded(n)
        <5>1. ASSUME NEW f \in OutEdges(n)
              PROVE  (pc = "relax" /\ n = popped.node /\ f \in todo)' \/ Accounted(f)'
          <6>1. f \in Edge /\ Source[f] = n
            BY DEF OutEdges
          <6>2. CASE f = e
            BY <6>1, <6>2, <1>1, <1>2, <2>1, <2>3, <2>6 DEF Accounted
          <6>3. CASE f # e /\ Accounted(f)
            <7> SUFFICES ASSUME Usable(f) PROVE Accounted(f)'
              BY <1>1 DEF Accounted, Usable
            <7>1. Target[f] \in DOMAIN best /\ best[Target[f]] <= best[n] + cost[f]
              BY <6>1, <6>3 DEF Accounted
            <7>2. cost[f] \in Nat /\ best[Target[f]] \in Nat /\ best[n] \in Nat
              BY <7>1, <6>1, <4>1, <1>3 DEF IInv, TypeOK, Usable
            <7>3. best'[Target[f]] \in Nat /\ best'[Target[f]] <= best[Target[f]]
              BY <7>1, <7>2, <2>1, <2>3, <2>5
            <7> QED
              BY <7>1, <7>2, <7>3, <6>1, <4>1, <2>3, <1>1 DEF Accounted
          <6>4. CASE f # e /\ n = popped.node /\ f \in todo
            BY <6>4, <1>1
          <6> QED
            BY <6>2, <6>3, <6>4, <4>3 DEF Expanded
        <5> QED
          BY <5>1, <4>3, <1>1 DEF Expanded, OutEdges
      <4> QED
        BY <4>1, <4>2, <4>3, <1>1 DEF IInv, Frontier, Stopped
    <3> QED
      BY <3>1, <3>2
  <2> QED
    BY <2>8, <2>9, <2>10, <2>11, <2>12, <2>13, <2>14 DEF IInv
<1>6. CASE ~(Usable(e) /\ Improves(v, c))
  <2>1. UNCHANGED <<best, predecessor, heap>>
    BY <1>6 DEF Relax
  <2>2. Accounted(e)
    <3>1. Usable(e) => c \in Nat
      BY <1>2 DEF IInv, TypeOK, Usable
    <3> QED
      BY <3>1, <1>2, <1>3, <1>6 DEF Accounted, Improves
  <2>3. TypeOK'
    BY <1>1, <2>1 DEF IInv, TypeOK
  <2>4. OriginInv' /\ HeapInv' /\ PoppedInv' /\ TraceInv' /\ NoMissingPredecessor'
    BY <1>1, <2>1
    DEF IInv, OriginInv, HeapInv, PoppedInv, TraceInv, NoMissingPredecessor,
        Stopped, Heuristic, Usable
  <2>5. PredecessorsExplainLabels' /\ PredecessorsLeadToOrigin'
    BY <1>1, <2>1 DEF IInv, PredecessorsExplainLabels, PredecessorsLeadToOrigin, Usable
  <2>6. Frontier'
    <3>1. \A f \in Edge : Accounted(f) => Accounted(f)'
      BY <1>1, <2>1 DEF Accounted, Usable
    <3>2. ASSUME NEW n \in DOMAIN best, Expanded(n) PROVE Expanded(n)'
      BY <3>1, <3>2, <1>1, <2>2 DEF Expanded, OutEdges
    <3> QED
      BY <3>2, <1>1, <2>1 DEF IInv, Frontier, Stopped, Entry, Heuristic
  <2> QED
    BY <2>3, <2>4, <2>5, <2>6 DEF IInv
<1> QED
  BY <1>5, <1>6

\* The steps that leave the search tables alone.
LEMMA TailInv ==
    /\ IInv
    /\ NextTurn \/ Exhausted \/ StepBack \/ AtOrigin \/ Measure \/ Return \/ UNCHANGED vars
    => IInv'
<1> SUFFICES ASSUME IInv,
                    \/ NextTurn \/ Exhausted \/ StepBack \/ AtOrigin
                    \/ Measure \/ Return \/ UNCHANGED vars
             PROVE  IInv'
  OBVIOUS
<1>1. UNCHANGED <<cost, origin, dest, best, predecessor, heap, popped, todo>>
  BY DEF NextTurn, Exhausted, StepBack, AtOrigin, Measure, Return, vars, query, search
<1>2. \A n \in DOMAIN predecessor :
        /\ predecessor[n] \in Edge /\ Source[predecessor[n]] \in Node
        /\ n # origin => Source[predecessor[n]] \in DOMAIN best
  BY GraphAssumption DEF IInv, TypeOK, PredecessorsExplainLabels
<1>3. StepBack => current \in DOMAIN predecessor
  BY DEF StepBack, IInv, TraceInv, PredecessorsExplainLabels
<1>4. \/ pc = "relax" /\ todo = {} /\ pc' = "pop" /\ UNCHANGED <<current, edges, times>>
      \/ pc = "pop" /\ heap = {} /\ pc' = "none" /\ UNCHANGED <<current, edges, times>>
      \/ /\ pc = "trace" /\ pc' = "trace" /\ UNCHANGED times
         /\ current \in DOMAIN predecessor /\ current # origin
         /\ edges' = <<predecessor[current]>> \o edges
         /\ current' = Source[predecessor[current]]
      \/ pc = "trace" /\ pc' = "measure" /\ UNCHANGED <<current, edges, times>>
      \/ /\ pc = "measure" /\ pc' = "measure" /\ UNCHANGED <<current, edges>>
         /\ times' = Append(times, Duration + cost[edges[Len(times) + 1]])
         /\ Len(times) < Len(edges)
      \/ pc = "measure" /\ pc' = "found" /\ UNCHANGED <<current, edges, times>>
      \/ pc' = pc /\ UNCHANGED <<current, edges, times>>
  BY <1>3 DEF NextTurn, Exhausted, StepBack, AtOrigin, Measure, Return, vars, query,
              search, answer, WithEarlier
<1>5. (\A i \in 1 .. Len(edges) : Usable(edges[i]) /\ edges[i] \in Edge)' /\ edges' \in Seq(Edge)
  <2>0. /\ edges \in Seq(Edge)
        /\ \A i \in 1 .. Len(edges) : Usable(edges[i]) /\ edges[i] \in Edge
    BY DEF IInv, TypeOK, TraceInv
  <2>1. CASE UNCHANGED edges
    BY <2>0, <2>1, <1>1 DEF Usable
  <2>2. CASE StepBack
    <3> DEFINE p == predecessor[current]
    <3>1. p \in Edge /\ Usable(p) /\ edges' = <<p>> \o edges
      BY <2>2, <1>2, <1>3 DEF StepBack, WithEarlier, IInv, PredecessorsExplainLabels, TypeOK
    <3>2. edges' \in Seq(Edge) /\ Len(edges') = Len(edges) + 1
      BY <2>0, <3>1
    <3>3. \A i \in 1 .. Len(edges') : edges'[i] = IF i = 1 THEN p ELSE edges[i - 1]
      BY <2>0, <3>1, <3>2
    <3>4. \A i \in 1 .. Len(edges') : Usable(edges'[i]) /\ edges'[i] \in Edge
      <4> SUFFICES ASSUME NEW i \in 1 .. Len(edges')
                   PROVE  Usable(edges'[i]) /\ edges'[i] \in Edge
        OBVIOUS
      <4>1. CASE i = 1
        BY <4>1, <3>1, <3>3
      <4>2. CASE i # 1
        <5>1. i - 1 \in 1 .. Len(edges)
          BY <4>2, <3>2, <2>0
        <5> QED
          BY <5>1, <4>2, <3>3, <2>0
      <4> QED
        BY <4>1, <4>2
    <3> QED
      BY <3>2, <3>4, <1>1 DEF Usable
  <2> QED
    BY <2>1, <2>2 DEF NextTurn, Exhausted, AtOrigin, Measure, Return, vars, search, answer
<1>6. times' \in Seq(Nat)
  <2>0. times \in Seq(Nat)
    BY DEF IInv, TypeOK
  <2>1. CASE UNCHANGED times
    BY <2>0, <2>1
  <2>2. CASE Measure
    <3>1. Len(times) + 1 \in 1 .. Len(edges)
      BY <2>0, <2>2 DEF Measure, IInv, TypeOK
    <3>2. cost[edges[Len(times) + 1]] \in Nat
      BY <3>1, <1>5 DEF IInv, TypeOK, TraceInv, Usable
    <3>3. Duration \in Nat
      BY <2>0 DEF Duration
    <3> QED
      BY <2>0, <2>2, <3>2, <3>3 DEF Measure
  <2> QED
    BY <2>1, <2>2 DEF NextTurn, Exhausted, StepBack, AtOrigin, Return, vars, search, answer
<1>7. TypeOK'
  BY <1>1, <1>2, <1>4, <1>5, <1>6 DEF IInv, TypeOK
<1>8. OriginInv' /\ HeapInv' /\ NoMissingPredecessor'
  BY <1>1, <1>4
  DEF IInv, OriginInv, HeapInv, NoMissingPredecessor, Heuristic
<1>9. PoppedInv'
  BY <1>1, <1>4 DEF IInv, PoppedInv, Stopped, Entry, Heuristic
<1>10. TraceInv'
  BY <1>1, <1>2, <1>4, <1>5 DEF IInv, TraceInv
<1>11. PredecessorsExplainLabels' /\ PredecessorsLeadToOrigin'
  BY <1>1 DEF IInv, PredecessorsExplainLabels, PredecessorsLeadToOrigin, Usable
<1>12. Frontier'
  <2>1. \A f \in Edge : Accounted(f) => Accounted(f)'
    BY <1>1 DEF Accounted, Usable
  <2>2. ASSUME NEW n \in DOMAIN best, Expanded(n) PROVE Expanded(n)'
    BY <2>1, <2>2, <1>1, <1>4 DEF Expanded, OutEdges
  <2> QED
    BY <2>2, <1>1, <1>4 DEF IInv, Frontier, Stopped, Entry, Heuristic
<1> QED
  BY <1>7, <1>8, <1>9, <1>10, <1>11, <1>12 DEF IInv

THEOREM Invariance == Spec => []IInv
<1>1. Init => IInv
  BY InitInv
<1>2. IInv /\ [Next]_vars => IInv'
  <2> SUFFICES ASSUME IInv, [Next]_vars PROVE IInv'
    OBVIOUS
  <2>1. CASE Pop
    BY <2>1, PopInv
  <2>2. ASSUME NEW e \in Edge, Relax(e) PROVE IInv'
    BY <2>2, RelaxInv
  <2>3. CASE \/ NextTurn \/ Exhausted \/ StepBack \/ AtOrigin
             \/ Measure \/ Return \/ UNCHANGED vars
    BY <2>3, TailInv
  <2> QED
    BY <2>1, <2>2, <2>3 DEF Next
<1> QED
  BY <1>1, <1>2, PTL DEF Spec

\* The query's state stays well formed, the measured times included.
THEOREM TypeCorrect == Spec => []TypeOK
<1>1. IInv => TypeOK
  BY DEF IInv
<1> QED
  BY <1>1, Invariance, PTL

\* The predecessor table is always a tree rooted at the origin, for every
\* estimate, admissible or not.
THEOREM PredecessorTree == Spec => []LabelsFormTree
<1>1. IInv => LabelsFormTree
  BY DEF IInv, LabelsFormTree
<1> QED
  BY <1>1, Invariance, PTL

\* The indexing predecessor[&current] never panics.
THEOREM WalkBackNeverPanics == Spec => []NoMissingPredecessor
<1>1. IInv => NoMissingPredecessor
  BY DEF IInv
<1> QED
  BY <1>1, Invariance, PTL

----------------------------------------------------------------------------

\* The cost the search ends with is not beaten by any path to the destination,
\* as long as no edge is faster than the estimate supposes; and a search that
\* ends without an answer missed no path, whatever the estimate.
SearchIsOptimal ==
    /\ Stopped /\ SpeedsCapped =>
         \A k, at, c :
            IsWalk(origin, k, at, c) /\ at[k] = dest => popped.cost <= c[k]
    /\ pc = "none" =>
         \A k, at, c : IsWalk(origin, k, at, c) => at[k] # dest

\* Along a walk, labels stay at or below the walk's cost up to and including the
\* first node that is not expanded.
LEMMA FirstUnexpanded ==
    ASSUME IInv, pc # "relax", NEW k, NEW at, NEW c, IsWalk(origin, k, at, c), at[k] = dest
    PROVE  \E i \in 0 .. k : /\ at[i] \in DOMAIN best
                             /\ best[at[i]] <= c[i]
                             /\ ~Expanded(at[i])
<1> DEFINE Good(i) == at[i] \in DOMAIN best /\ best[at[i]] <= c[i]
           Stuck == {i \in 0 .. k : ~(Good(i) /\ Expanded(at[i]))}
<1>0. k \in Nat /\ \A i \in 0 .. k : c[i] \in Nat /\ at[i] \in Node
  BY DEF IsWalk
<1>1. k \in Stuck /\ Stuck \in SUBSET Nat
  BY <1>0 DEF Expanded
<1> HIDE DEF Stuck
<1>2. PICK i \in Stuck : \A n \in Stuck : i <= n
  BY <1>1, LeastElement
<1> USE DEF Stuck
<1>3. i \in 0 .. k /\ i \in Nat
  BY <1>0, <1>2
<1>4. Good(i)
  <2>1. CASE i = 0
    BY <2>1 DEF IsWalk, IInv, OriginInv
  <2>2. CASE i # 0
    <3>1. i - 1 \in 0 .. k - 1 /\ i - 1 \in 0 .. k /\ (i - 1) + 1 = i
      BY <1>0, <1>3, <2>2
    <3>2. Good(i - 1) /\ Expanded(at[i - 1])
      BY <1>2, <1>3, <3>1
    <3>3. PICK e \in Edge : /\ Usable(e) /\ Source[e] = at[i - 1] /\ Target[e] = at[i]
                            /\ c[i] = c[i - 1] + cost[e]
      BY <3>1, ZenonT(30) DEF IsWalk
    <3>4. Target[e] \in DOMAIN best /\ best[Target[e]] <= best[at[i - 1]] + cost[e]
      BY <3>2, <3>3 DEF Expanded, OutEdges, Accounted
    <3>5. cost[e] \in Nat /\ best[at[i - 1]] \in Nat /\ best[at[i]] \in Nat
          /\ c[i - 1] \in Nat /\ c[i] \in Nat
      BY <1>0, <1>3, <3>1, <3>2, <3>3, <3>4 DEF IInv, TypeOK, Usable
    <3> QED
      BY <3>2, <3>3, <3>4, <3>5
  <2> QED
    BY <2>1, <2>2
<1> QED
  BY <1>2, <1>3, <1>4

\* The estimate of a walk's remaining time is at most what remains of the walk.
LEMMA EstimateIsAdmissible ==
    ASSUME TypeOK, SpeedsCapped, NEW k, NEW at, NEW c, IsWalk(origin, k, at, c),
           at[k] = dest, NEW i \in 0 .. k
    PROVE  c[i] + Gap[at[i]][dest] <= c[k]
<1> DEFINE Far == {j \in 0 .. k : ~(c[j] + Gap[at[j]][dest] <= c[k])}
<1>0. /\ k \in Nat /\ dest \in Node
      /\ \A j \in 0 .. k : c[j] \in Nat /\ at[j] \in Node
  BY DEF IsWalk, TypeOK
<1>1. ASSUME Far # {} PROVE FALSE
  <2>1. Far \in SUBSET (0 .. k)
    OBVIOUS
  <2> HIDE DEF Far
  <2>2. PICK j \in Far : \A n \in Far : n <= j
    BY <1>0, <1>1, <2>1, GreatestElement
  <2> USE DEF Far
  <2>3. j \in 0 .. k /\ j # k
    BY <1>0, <2>2, GapAssumption
  <2>4. j \in 0 .. k - 1 /\ j + 1 \in 0 .. k /\ ~(j + 1 <= j)
    BY <1>0, <2>3
  <2>5. c[j + 1] + Gap[at[j + 1]][dest] <= c[k]
    BY <2>2, <2>4
  <2>6. PICK e \in Edge : /\ Usable(e) /\ Source[e] = at[j] /\ Target[e] = at[j + 1]
                          /\ c[j + 1] = c[j] + cost[e]
    BY <2>4 DEF IsWalk
  <2>7. Gap[at[j]][at[j + 1]] <= cost[e] /\ cost[e] \in Nat
    BY <2>6 DEF SpeedsCapped, TypeOK, Usable
  <2>8. /\ Gap[at[j]][dest] <= Gap[at[j]][at[j + 1]] + Gap[at[j + 1]][dest]
        /\ Gap[at[j]][dest] \in Nat /\ Gap[at[j]][at[j + 1]] \in Nat
        /\ Gap[at[j + 1]][dest] \in Nat
    BY <1>0, <2>3, <2>4, GapAssumption
  <2>9. c[j] \in Nat /\ c[k] \in Nat /\ c[j + 1] \in Nat
    BY <1>0, <2>3, <2>4
  <2>10. c[j] + Gap[at[j]][dest] <= c[k]
    BY <2>5, <2>6, <2>7, <2>8, <2>9
  <2> QED
    BY <2>2, <2>10
<1> QED
  BY <1>1

\* A* returns the cost of the shortest path when no edge beats 200 km/h, and
\* PathNotFound only if there is none.
THEOREM AStarIsOptimal == Spec => []SearchIsOptimal
<1>1. IInv => SearchIsOptimal
  <2> SUFFICES ASSUME IInv PROVE SearchIsOptimal
    OBVIOUS
  <2>1. ASSUME Stopped, SpeedsCapped, NEW k, NEW at, NEW c,
               IsWalk(origin, k, at, c), at[k] = dest
        PROVE  popped.cost <= c[k]
    <3>1. PICK i \in 0 .. k : /\ at[i] \in DOMAIN best /\ best[at[i]] <= c[i]
                             /\ ~Expanded(at[i])
      BY <2>1, FirstUnexpanded DEF Stopped
    <3>2. c[i] + Gap[at[i]][dest] <= c[k]
      BY <2>1, EstimateIsAdmissible DEF IInv
    <3>3. /\ c[i] \in Nat /\ c[k] \in Nat /\ best[at[i]] \in Nat
          /\ Gap[at[i]][dest] \in Nat /\ dest \in Node /\ at[i] \in Node
      BY <2>1, <3>1, GapAssumption DEF IsWalk, IInv, TypeOK
    <3>4. /\ popped = Entry(best[dest], dest) /\ dest \in DOMAIN best
          /\ best[dest] \in Nat /\ Gap[dest][dest] = 0
          /\ \A h \in heap : popped.total <= h.total
      BY <2>1, <3>3, GapAssumption DEF IInv, PoppedInv, TypeOK
    <3>5. popped.cost = best[dest] /\ popped.total = best[dest]
      BY <3>4 DEF Entry, Heuristic
    <3>6. Entry(best[at[i]], at[i]) \in heap \/ at[i] = dest
      BY <3>1 DEF IInv, Frontier
    <3>7. CASE Entry(best[at[i]], at[i]) \in heap
      <4>1. popped.total <= best[at[i]] + Gap[at[i]][dest]
        BY <3>4, <3>7 DEF Entry, Heuristic
      <4> QED
        BY <4>1, <3>1, <3>2, <3>3, <3>4, <3>5
    <3>8. CASE at[i] = dest
      BY <3>1, <3>2, <3>3, <3>4, <3>5, <3>8
    <3> QED
      BY <3>6, <3>7, <3>8
  <2>2. ASSUME pc = "none", NEW k, NEW at, NEW c, IsWalk(origin, k, at, c), at[k] = dest
        PROVE  FALSE
    <3>1. PICK i \in 0 .. k : at[i] \in DOMAIN best /\ ~Expanded(at[i])
      BY <2>2, FirstUnexpanded
    <3> QED
      BY <2>2, <3>1 DEF IInv, PoppedInv, Frontier, Stopped
  <2> QED
    BY <2>1, <2>2 DEF SearchIsOptimal
<1> QED
  BY <1>1, Invariance, PTL

----------------------------------------------------------------------------
(* The answer.                                                             *)

\* The edges found so far lead from where the walk back has got to to the
\* destination, each being the predecessor of its target.
WalkBack ==
    /\ pc \in {"pop", "relax", "none"} => edges = << >>
    /\ edges = << >> => current = dest
    /\ edges # << >> => Source[edges[1]] = current /\ Target[edges[Len(edges)]] = dest
    /\ \A i \in 1 .. Len(edges) :
         /\ Target[edges[i]] \in DOMAIN predecessor
         /\ predecessor[Target[edges[i]]] = edges[i]
    /\ \A i \in 1 .. Len(edges) - 1 : Target[edges[i]] = Source[edges[i + 1]]
    /\ pc \in {"measure", "found"} => current = origin

\* The measured times are the running sums, and none is above the label of the
\* node it is measured at.
Measured ==
    /\ pc \notin {"measure", "found"} => times = << >>
    /\ Len(times) <= Len(edges)
    /\ \A i \in 1 .. Len(times) :
         /\ times[i] = (IF i = 1 THEN 0 ELSE times[i - 1]) + cost[edges[i]]
         /\ times[i] <= best[Target[edges[i]]]
    /\ pc = "found" => Len(times) = Len(edges)

PathInv == WalkBack /\ Measured

LEMMA InitPath == Init => PathInv
BY DEF Init, PathInv, WalkBack, Measured

LEMMA StepBackPath == IInv /\ PathInv /\ StepBack => PathInv'
<1> SUFFICES ASSUME IInv, PathInv, StepBack PROVE PathInv'
  OBVIOUS
<1> DEFINE p == predecessor[current]
           n == Len(edges)
<1>1. /\ pc = "trace" /\ current # origin /\ current \in DOMAIN best
      /\ UNCHANGED <<cost, origin, dest, best, predecessor, times>>
  BY DEF StepBack, query, search, IInv, TraceInv
<1>2. current \in DOMAIN predecessor /\ Target[p] = current /\ p \in Edge
  BY <1>1 DEF IInv, PredecessorsExplainLabels, TypeOK
<1>3. edges' = <<p>> \o edges /\ current' = Source[p] /\ pc' = "trace"
  BY <1>2 DEF StepBack, WithEarlier
<1>4. edges \in Seq(Edge) /\ n \in Nat
  BY DEF IInv, TypeOK
<1>5. /\ Len(edges') = n + 1 /\ edges'[1] = p
      /\ \A i \in 2 .. n + 1 : edges'[i] = edges[i - 1] /\ i - 1 \in 1 .. n
  <2> HIDE DEF p
  <2> QED
    BY <1>2, <1>3, <1>4
<1> HIDE DEF p, n
<1>6. Target[edges'[Len(edges')]] = dest
  <2>1. CASE n = 0
    <3>1. edges = << >>
      BY <1>4, <2>1 DEF n
    <3> QED
      BY <1>2, <1>5, <2>1, <3>1 DEF PathInv, WalkBack
  <2>2. CASE n # 0
    <3>1. n + 1 \in 2 .. n + 1 /\ (n + 1) - 1 = n /\ edges # << >>
      BY <1>4, <2>2 DEF n
    <3> QED
      BY <1>5, <3>1 DEF PathInv, WalkBack, n
  <2> QED
    BY <2>1, <2>2
<1>7. \A i \in 1 .. n + 1 : /\ Target[edges'[i]] \in DOMAIN predecessor
                            /\ predecessor[Target[edges'[i]]] = edges'[i]
  <2> SUFFICES ASSUME NEW i \in 1 .. n + 1
               PROVE  /\ Target[edges'[i]] \in DOMAIN predecessor
                      /\ predecessor[Target[edges'[i]]] = edges'[i]
    OBVIOUS
  <2>1. CASE i = 1
    BY <1>2, <1>5, <2>1 DEF p
  <2>2. CASE i # 1
    <3>1. i \in 2 .. n + 1
      BY <1>4, <2>2
    <3> QED
      BY <1>5, <3>1 DEF PathInv, WalkBack, n
  <2> QED
    BY <2>1, <2>2
<1>8. \A i \in 1 .. n : Target[edges'[i]] = Source[edges'[i + 1]]
  <2> SUFFICES ASSUME NEW i \in 1 .. n PROVE Target[edges'[i]] = Source[edges'[i + 1]]
    OBVIOUS
  <2>1. i + 1 \in 2 .. n + 1 /\ edges'[i + 1] = edges[i] /\ edges # << >>
    <3>1. i + 1 \in 2 .. n + 1 /\ (i + 1) - 1 = i /\ n # 0
      BY <1>4
    <3> QED
      BY <1>5, <3>1 DEF n
  <2>2. CASE i = 1
    BY <1>2, <1>5, <2>1, <2>2 DEF PathInv, WalkBack
  <2>3. CASE i # 1
    <3>1. i \in 2 .. n + 1 /\ i - 1 \in 1 .. n - 1 /\ (i - 1) + 1 = i
      BY <1>4, <2>3
    <3> QED
      BY <1>5, <2>1, <3>1 DEF PathInv, WalkBack, n
  <2> QED
    BY <2>2, <2>3
<1>9. WalkBack'
  <2>1. Len(edges') - 1 = n /\ edges' # << >>
    BY <1>4, <1>5
  <2> QED
    BY <1>1, <1>3, <1>5, <1>6, <1>7, <1>8, <2>1 DEF WalkBack
<1>10. Measured'
  <2>1. times = << >> /\ times' = << >> /\ Len(<< >>) = 0 /\ 1 .. 0 = {} /\ 0 <= n + 1
    BY <1>1, <1>4 DEF PathInv, Measured
  <2> QED
    BY <1>3, <1>5, <2>1 DEF Measured
<1> QED
  BY <1>9, <1>10 DEF PathInv

LEMMA MeasurePath == IInv /\ PathInv /\ Measure => PathInv'
<1> SUFFICES ASSUME IInv, PathInv, Measure PROVE PathInv'
  OBVIOUS
<1> DEFINE n == Len(times)
           e == edges[n + 1]
<1>1. /\ pc = "measure" /\ pc' = "measure" /\ n < Len(edges)
      /\ UNCHANGED <<cost, origin, dest, best, predecessor, current, edges>>
      /\ times' = Append(times, Duration + cost[e])
  BY DEF Measure, query, search
<1>2. times \in Seq(Nat) /\ edges \in Seq(Edge) /\ n \in Nat /\ Len(edges) \in Nat
      /\ n + 1 \in 1 .. Len(edges)
  BY <1>1 DEF IInv, TypeOK
<1>3. e \in Edge /\ Usable(e) /\ cost[e] \in Nat
  BY <1>2 DEF IInv, TypeOK, TraceInv, Usable
<1>4. /\ Target[e] \in DOMAIN predecessor /\ predecessor[Target[e]] = e
      /\ Target[e] \in DOMAIN best /\ Target[e] # origin
  BY <1>2 DEF PathInv, WalkBack, IInv, TypeOK, OriginInv
<1>5. /\ Source[e] \in DOMAIN best /\ best[Source[e]] + cost[e] <= best[Target[e]]
      /\ best[Source[e]] \in Nat /\ best[Target[e]] \in Nat
  BY <1>4 DEF IInv, PredecessorsExplainLabels, TypeOK
<1>6. /\ Duration \in Nat /\ Duration <= best[Source[e]]
      /\ Duration = IF n + 1 = 1 THEN 0 ELSE times[(n + 1) - 1]
  <2>1. CASE n = 0
    <3>1. times = << >> /\ Duration = 0
      BY <1>2, <2>1 DEF Duration
    <3> QED
      BY <1>5, <2>1, <3>1
  <2>2. CASE n # 0
    <3>1. times # << >> /\ Duration = times[n] /\ n \in 1 .. n /\ n \in 1 .. Len(edges) - 1
      BY <1>1, <1>2, <2>2 DEF Duration
    <3>2. times[n] <= best[Target[edges[n]]] /\ times[n] \in Nat
      BY <1>2, <3>1 DEF PathInv, Measured
    <3>3. Target[edges[n]] = Source[e]
      BY <3>1 DEF PathInv, WalkBack
    <3> QED
      BY <1>2, <2>2, <3>1, <3>2, <3>3
  <2> QED
    BY <2>1, <2>2
<1> HIDE DEF n, e
<1>7. /\ Len(times') = n + 1 /\ times'[n + 1] = Duration + cost[e]
      /\ \A i \in 1 .. n : times'[i] = times[i]
  <2>1. Duration + cost[e] \in Nat
    BY <1>3, <1>6
  <2> QED
    BY <1>1, <1>2, <2>1 DEF n
<1>8. ASSUME NEW i \in 1 .. n + 1
      PROVE  /\ times'[i] = (IF i = 1 THEN 0 ELSE times'[i - 1]) + cost[edges[i]]
             /\ times'[i] <= best[Target[edges[i]]]
  <2>1. CASE i = n + 1
    <3>1. i # 1 => times'[i - 1] = times[i - 1]
      BY <1>2, <1>7, <2>1
    <3>2. edges[i] = e
      BY <2>1 DEF e
    <3> QED
      BY <1>3, <1>5, <1>6, <1>7, <2>1, <3>1, <3>2
  <2>2. CASE i # n + 1
    <3>1. i \in 1 .. n /\ (i # 1 => i - 1 \in 1 .. n)
      BY <1>2, <2>2
    <3>2. /\ times[i] = (IF i = 1 THEN 0 ELSE times[i - 1]) + cost[edges[i]]
          /\ times[i] <= best[Target[edges[i]]]
      BY <3>1 DEF PathInv, Measured, n
    <3> QED
      BY <1>7, <3>1, <3>2
  <2> QED
    BY <2>1, <2>2
<1>9. Measured'
  BY <1>1, <1>2, <1>7, <1>8 DEF Measured
<1>10. WalkBack'
  BY <1>1 DEF PathInv, WalkBack
<1> QED
  BY <1>9, <1>10 DEF PathInv

LEMMA StepPath == IInv /\ PathInv /\ [Next]_vars => PathInv'
<1> SUFFICES ASSUME IInv, PathInv, [Next]_vars PROVE PathInv'
  OBVIOUS
<1>1. ASSUME Pop \/ (\E e \in Edge : Relax(e)) \/ NextTurn \/ Exhausted PROVE PathInv'
  <2>1. /\ pc \in {"pop", "relax"} /\ pc' \in {"pop", "relax", "trace", "none"}
        /\ UNCHANGED <<dest, current, edges, times>>
    <3>1. CASE Pop
      BY <3>1 DEF Pop, query, answer
    <3>2. CASE \E e \in Edge : Relax(e)
      BY <3>2 DEF Relax, query, answer
    <3>3. CASE NextTurn \/ Exhausted
      BY <3>3 DEF NextTurn, Exhausted, query, answer
    <3> QED
      BY <1>1, <3>1, <3>2, <3>3
  <2>2. edges = << >> /\ times = << >> /\ current = dest /\ Len(<< >>) = 0 /\ 1 .. 0 = {}
        /\ 1 .. 0 - 1 = {}
    BY <2>1 DEF PathInv, WalkBack, Measured
  <2> QED
    BY <2>1, <2>2 DEF PathInv, WalkBack, Measured
<1>2. ASSUME AtOrigin \/ Return \/ UNCHANGED vars PROVE PathInv'
  <2>1. UNCHANGED <<cost, origin, dest, best, predecessor, current, edges, times>>
    BY <1>2 DEF AtOrigin, Return, vars, query, search, answer
  <2>2. \/ pc' = pc
        \/ pc = "trace" /\ pc' = "measure" /\ current = origin
        \/ pc = "measure" /\ pc' = "found" /\ Len(times) = Len(edges)
    BY <1>2 DEF AtOrigin, Return, vars
  <2>3. WalkBack'
    BY <2>1, <2>2 DEF PathInv, WalkBack
  <2>4. Measured'
    BY <2>1, <2>2 DEF PathInv, Measured
  <2> QED
    BY <2>3, <2>4 DEF PathInv
<1> QED
  BY <1>1, <1>2, StepBackPath, MeasurePath DEF Next

\* Two edges of the answer with the same source would close a cycle of
\* predecessors.
LEMMA NoRepeatedNode ==
    ASSUME IInv, PathInv, NEW i \in 1 .. Len(edges), NEW j \in 1 .. Len(edges), i < j
    PROVE  Source[edges[i]] # Source[edges[j]]
<1> SUFFICES ASSUME Source[edges[i]] = Source[edges[j]] PROVE FALSE
  OBVIOUS
<1> DEFINE S == {Target[edges[x]] : x \in i .. j - 1}
<1>0. Len(edges) \in Nat /\ i \in Nat /\ j \in Nat
  BY DEF IInv, TypeOK
<1>1. S \in SUBSET DOMAIN predecessor
  <2>1. \A x \in i .. j - 1 : x \in 1 .. Len(edges)
    BY <1>0
  <2> QED
    BY <2>1 DEF PathInv, WalkBack
<1>2. ASSUME NEW x \in i .. j - 1 PROVE Source[predecessor[Target[edges[x]]]] \in S
  <2>1. x \in 1 .. Len(edges) /\ predecessor[Target[edges[x]]] = edges[x]
    BY <1>0 DEF PathInv, WalkBack
  <2>2. CASE x = i
    <3>1. j - 1 \in i .. j - 1 /\ j - 1 \in 1 .. Len(edges) - 1 /\ (j - 1) + 1 = j
      BY <1>0
    <3>2. Target[edges[j - 1]] = Source[edges[j]]
      BY <3>1 DEF PathInv, WalkBack
    <3> QED
      BY <2>1, <2>2, <3>1, <3>2
  <2>3. CASE x # i
    <3>1. x - 1 \in i .. j - 1 /\ x - 1 \in 1 .. Len(edges) - 1 /\ (x - 1) + 1 = x
      BY <1>0, <2>3
    <3>2. Target[edges[x - 1]] = Source[edges[x]]
      BY <3>1 DEF PathInv, WalkBack
    <3> QED
      BY <2>1, <3>1, <3>2
  <2> QED
    BY <2>2, <2>3
<1>3. S # {}
  <2>1. i \in i .. j - 1
    BY <1>0
  <2> QED
    BY <2>1
<1> QED
  BY <1>1, <1>2, <1>3 DEF IInv, PredecessorsLeadToOrigin

\* What the query answers with: the duration is that of the edges found and not
\* above the cost of the search.
LEMMA FoundIsMeasured ==
    ASSUME IInv, PathInv, pc = "found"
    PROVE  Duration \in Nat /\ Duration <= popped.cost
<1>1. /\ times \in Seq(Nat) /\ edges \in Seq(Edge) /\ Len(times) = Len(edges)
      /\ popped = Entry(best[dest], dest) /\ best[dest] \in Nat /\ dest \in DOMAIN best
  BY DEF PathInv, Measured, IInv, TypeOK, PoppedInv, Stopped
<1>2. popped.cost = best[dest]
  BY <1>1 DEF Entry
<1>3. CASE times = << >>
  BY <1>1, <1>2, <1>3 DEF Duration
<1>4. CASE times # << >>
  <2>1. Len(times) \in 1 .. Len(times) /\ edges # << >>
    BY <1>1, <1>4
  <2>2. times[Len(times)] <= best[dest] /\ times[Len(times)] \in Nat
    BY <1>1, <2>1 DEF PathInv, Measured, WalkBack
  <2> QED
    BY <1>2, <1>4, <2>2 DEF Duration
<1> QED
  BY <1>3, <1>4

LEMMA PathInvariance == Spec => []PathInv
<1> QED
  BY Invariance, InitPath, StepPath, PTL DEF Spec

\* The answer is a path from the origin to the destination that visits no node
\* twice and takes no longer than the search says, for every graph and estimate.
THEOREM TheAnswerIsAPath == Spec => []AnswerIsAPath
<1>1. IInv /\ PathInv => AnswerIsAPath
  <2> SUFFICES ASSUME IInv, PathInv, pc = "found"
               PROVE  /\ edges = << >> => origin = dest
                      /\ edges # << >> => /\ Source[edges[1]] = origin
                                          /\ Target[edges[Len(edges)]] = dest
                      /\ \A i \in 1 .. Len(edges) - 1 : Target[edges[i]] = Source[edges[i + 1]]
                      /\ \A i, j \in 1 .. Len(edges) : Source[edges[i]] = Source[edges[j]] => i = j
                      /\ Duration <= popped.cost
    BY DEF AnswerIsAPath, IInv
  <2>1. \A i, j \in 1 .. Len(edges) : Source[edges[i]] = Source[edges[j]] => i = j
    <3> SUFFICES ASSUME NEW i \in 1 .. Len(edges), NEW j \in 1 .. Len(edges), i # j
                 PROVE  Source[edges[i]] # Source[edges[j]]
      OBVIOUS
    <3>1. i < j \/ j < i
      BY DEF IInv, TypeOK
    <3> QED
      BY <3>1, NoRepeatedNode
  <2>2. /\ edges = << >> => origin = dest
        /\ edges # << >> => Source[edges[1]] = origin /\ Target[edges[Len(edges)]] = dest
        /\ \A i \in 1 .. Len(edges) - 1 : Target[edges[i]] = Source[edges[i + 1]]
    BY DEF PathInv, WalkBack
  <2> QED
    BY <2>1, <2>2, FoundIsMeasured
<1> QED
  BY <1>1, Invariance, PathInvariance, PTL

----------------------------------------------------------------------------
(* The answer against the shortest times of the graph.                     *)

\* A walk over the usable edges is a walk over the links, and the reverse.
LEMMA EdgesAreLinks ==
    ASSUME TypeOK
    PROVE  /\ AreLinks(Node, Links)
           /\ \A from, k, at, c : LinkWalk(Node, Links, from, k, at, c) <=> IsWalk(from, k, at, c)
<1>1. \A e \in Edge : Usable(e) <=> cost[e] # Bad
  BY DEF Usable
<1>2. AreLinks(Node, Links)
  BY GraphAssumption DEF AreLinks, Links, TypeOK
<1>3. ASSUME NEW e \in Edge, Usable(e)
      PROVE  \E l \in Links : l.from = Source[e] /\ l.to = Target[e] /\ l.time = cost[e]
  <2>1. [from |-> Source[e], to |-> Target[e], time |-> cost[e]] \in Links
    BY <1>3 DEF Links, Usable
  <2> QED
    BY <2>1
<1>4. ASSUME NEW l \in Links
      PROVE  \E e \in Edge : /\ Usable(e) /\ l.from = Source[e] /\ l.to = Target[e]
                             /\ l.time = cost[e]
  BY DEF Links, Usable
<1>5. ASSUME NEW from, NEW k, NEW at, NEW c, LinkWalk(Node, Links, from, k, at, c)
      PROVE  IsWalk(from, k, at, c)
  <2>1. \A i \in 0 .. k - 1 : \E e \in Edge :
          Usable(e) /\ Source[e] = at[i] /\ Target[e] = at[i + 1] /\ c[i + 1] = c[i] + cost[e]
    <3> SUFFICES ASSUME NEW i \in 0 .. k - 1
                 PROVE  \E e \in Edge : /\ Usable(e) /\ Source[e] = at[i] /\ Target[e] = at[i + 1]
                                        /\ c[i + 1] = c[i] + cost[e]
      OBVIOUS
    <3>1. PICK l \in Links : l.from = at[i] /\ l.to = at[i + 1] /\ c[i + 1] = c[i] + l.time
      BY <1>5 DEF LinkWalk
    <3> QED
      BY <1>4, <3>1
  <2> QED
    BY <1>5, <2>1 DEF LinkWalk, IsWalk
<1>6. ASSUME NEW from, NEW k, NEW at, NEW c, IsWalk(from, k, at, c)
      PROVE  LinkWalk(Node, Links, from, k, at, c)
  <2>1. \A i \in 0 .. k - 1 : \E l \in Links :
          l.from = at[i] /\ l.to = at[i + 1] /\ c[i + 1] = c[i] + l.time
    <3> SUFFICES ASSUME NEW i \in 0 .. k - 1
                 PROVE  \E l \in Links : /\ l.from = at[i] /\ l.to = at[i + 1]
                                         /\ c[i + 1] = c[i] + l.time
      OBVIOUS
    <3>1. PICK e \in Edge : /\ Usable(e) /\ Source[e] = at[i] /\ Target[e] = at[i + 1]
                            /\ c[i + 1] = c[i] + cost[e]
      BY <1>6 DEF IsWalk
    <3> QED
      BY <1>3, <3>1
  <2> QED
    BY <1>6, <2>1 DEF LinkWalk, IsWalk
<1> QED
  BY <1>2, <1>5, <1>6

\* What the tables of shortest times say, in terms of walks over edges.
LEMMA ShortestIsShortest ==
    ASSUME TypeOK
    PROVE  /\ \A n \in DOMAIN Shortest : \E k, at, c :
                 IsWalk(origin, k, at, c) /\ at[k] = n /\ c[k] = Shortest[n]
           /\ \A k, at, c : IsWalk(origin, k, at, c) =>
                 at[k] \in DOMAIN Shortest /\ Shortest[at[k]] <= c[k]
           /\ \A n \in DOMAIN Shortest : Shortest[n] \in Nat
<1>1. origin \in Node /\ AreLinks(Node, Links)
  BY EdgesAreLinks DEF TypeOK
<1>2. Shortest = LinkTimes(Node, Links, origin)
  BY DEF Shortest, ShortestTimes
<1>3. /\ \A n \in DOMAIN Shortest :
           /\ Shortest[n] \in Nat
           /\ \E k, at, c : /\ LinkWalk(Node, Links, origin, k, at, c) /\ at[k] = n
                            /\ c[k] = Shortest[n]
      /\ \A k, at, c : LinkWalk(Node, Links, origin, k, at, c) =>
           at[k] \in DOMAIN Shortest /\ Shortest[at[k]] <= c[k]
  BY <1>1, <1>2, FiniteAssumption, LinkTimesAreShortest
<1> QED
  BY <1>3, EdgesAreLinks

\* The edges of the answer are a walk that takes the duration returned.
LEMMA AnswerIsAWalk ==
    ASSUME IInv, PathInv, pc = "found"
    PROVE  \E k, at, c : IsWalk(origin, k, at, c) /\ at[k] = dest /\ c[k] = Duration
<1> DEFINE n == Len(edges)
           at == [i \in 0 .. n |-> IF i = 0 THEN origin ELSE Target[edges[i]]]
           c == [i \in 0 .. n |-> IF i = 0 THEN 0 ELSE times[i]]
<1>1. /\ times \in Seq(Nat) /\ edges \in Seq(Edge) /\ Len(times) = n /\ n \in Nat
      /\ current = origin /\ origin \in Node /\ cost \in [Edge -> Nat \cup {Bad}]
  BY DEF PathInv, Measured, WalkBack, IInv, TypeOK
<1>2. \A i \in 1 .. n : edges[i] \in Edge /\ Usable(edges[i]) /\ times[i] \in Nat
  BY <1>1 DEF IInv, TraceInv
<1>3. at \in [0 .. n -> Node] /\ c \in [0 .. n -> Nat] /\ at[0] = origin /\ c[0] = 0
  <2>1. \A i \in 0 .. n : i = 0 \/ i \in 1 .. n
    BY <1>1
  <2>2. 0 \in 0 .. n
    BY <1>1
  <2> HIDE DEF n
  <2> QED
    BY <1>1, <1>2, <2>1, <2>2, GraphAssumption
<1>4. ASSUME NEW i \in 0 .. n - 1
      PROVE  \E e \in Edge : /\ Usable(e) /\ Source[e] = at[i] /\ Target[e] = at[i + 1]
                             /\ c[i + 1] = c[i] + cost[e]
  <2>1. i \in 0 .. n /\ i + 1 \in 0 .. n /\ i + 1 \in 1 .. n /\ i + 1 # 0 /\ (i + 1) - 1 = i
    BY <1>1
  <2>2. edges[i + 1] \in Edge /\ Usable(edges[i + 1]) /\ Target[edges[i + 1]] = at[i + 1]
    BY <1>2, <2>1
  <2>3. Source[edges[i + 1]] = at[i]
    <3>1. CASE i = 0
      <4>1. edges # << >>
        BY <1>1, <2>1
      <4> QED
        BY <1>1, <2>1, <3>1, <4>1 DEF PathInv, WalkBack
    <3>2. CASE i # 0
      <4>1. i \in 1 .. Len(edges) - 1
        BY <1>1, <3>2
      <4> QED
        BY <2>1, <3>2, <4>1 DEF PathInv, WalkBack
    <3> QED
      BY <3>1, <3>2
  <2>4. c[i + 1] = c[i] + cost[edges[i + 1]]
    <3>1. times[i + 1] = (IF i + 1 = 1 THEN 0 ELSE times[(i + 1) - 1]) + cost[edges[i + 1]]
      BY <1>1, <2>1 DEF PathInv, Measured
    <3>2. i + 1 = 1 <=> i = 0
      BY <1>1
    <3> QED
      BY <2>1, <3>1, <3>2
  <2> QED
    BY <2>2, <2>3, <2>4
<1>5. IsWalk(origin, n, at, c)
  <2> HIDE DEF at, c, n
  <2> QED
    BY <1>1, <1>3, <1>4 DEF IsWalk
<1>6. at[n] = dest /\ c[n] = Duration
  <2>1. CASE n = 0
    <3>1. edges = << >> /\ times = << >>
      BY <1>1, <2>1
    <3> QED
      BY <1>1, <2>1, <3>1 DEF PathInv, WalkBack, Duration
  <2>2. CASE n # 0
    <3>1. edges # << >> /\ times # << >> /\ n \in 0 .. n
      BY <1>1, <2>2
    <3> QED
      BY <1>1, <2>2, <3>1 DEF PathInv, WalkBack, Duration
  <2> QED
    BY <2>1, <2>2
<1> QED
  BY <1>5, <1>6

\* The duration returned is the shortest travel time whenever no edge is faster
\* in a straight line than the estimate supposes.
THEOREM RouteIsOptimal == Spec => []RouteIsShortestIfCapped
<1>1. IInv /\ PathInv /\ SearchIsOptimal => RouteIsShortestIfCapped
  <2> SUFFICES ASSUME IInv, PathInv, SearchIsOptimal, SpeedsCapped, pc = "found"
               PROVE  Duration = Shortest[dest]
    BY DEF RouteIsShortestIfCapped, RouteIsShortest
  <2>1. TypeOK /\ popped.cost \in Nat
    BY DEF IInv, TypeOK
  <2>2. Duration \in Nat /\ Duration <= popped.cost
    BY FoundIsMeasured
  <2>3. dest \in DOMAIN Shortest /\ Shortest[dest] <= Duration /\ Shortest[dest] \in Nat
    BY <2>1, AnswerIsAWalk, ShortestIsShortest
  <2>4. popped.cost <= Shortest[dest]
    BY <2>1, <2>3, ShortestIsShortest DEF SearchIsOptimal, Stopped
  <2> QED
    BY <2>1, <2>2, <2>3, <2>4
<1> QED
  BY <1>1, Invariance, PathInvariance, AStarIsOptimal, PTL

\* PathNotFound is returned only when the destination cannot be reached, and an
\* answer only when it can, for every estimate.
THEOREM NotFoundIsRight == Spec => []NotFoundMeansNoPath
<1>1. IInv /\ PathInv /\ SearchIsOptimal => NotFoundMeansNoPath
  <2> SUFFICES ASSUME IInv, PathInv, SearchIsOptimal
               PROVE  NotFoundMeansNoPath
    OBVIOUS
  <2>1. TypeOK
    BY DEF IInv
  <2>2. pc = "none" => dest \notin DOMAIN Shortest
    BY <2>1, ShortestIsShortest DEF SearchIsOptimal
  <2>3. pc = "found" => dest \in DOMAIN Shortest
    BY <2>1, AnswerIsAWalk, ShortestIsShortest
  <2> QED
    BY <2>2, <2>3 DEF NotFoundMeansNoPath
<1> QED
  BY <1>1, Invariance, PathInvariance, AStarIsOptimal, PTL

=============================================================================
