------------------------- MODULE ReachabilityProofs -------------------------
(***************************************************************************)
(* What a compute_reachability_with call returns, for every graph, cost    *)
(* closure, budget and start.                                              *)
(***************************************************************************)
EXTENDS Reachability, Lemmas, TLAPS

\* All outgoing edges of n that the loop has visited are accounted for.
Expanded(n) ==
    /\ distances[n] <= nodeCost
    /\ \A e \in OutEdges(n) :
         \/ pc = "relax" /\ n = node /\ e \in todo
         \/ Accounted(e)

\* A label waits in the heap or has been expanded.
Frontier ==
    \A n \in DOMAIN distances :
        [cost |-> distances[n], node |-> n] \in heap \/ Expanded(n)

\* The heap holds current and superseded labels, none below the current cost.
HeapInv ==
    \A h \in heap :
        /\ h.node \in DOMAIN distances
        /\ distances[h.node] <= h.cost
        /\ nodeCost <= h.cost

\* The node being relaxed holds the label it was popped with.
CurrentInv ==
    pc = "relax" =>
        /\ node \in DOMAIN distances
        /\ distances[node] = nodeCost
        /\ todo \subseteq OutEdges(node)

BudgetInv ==
    /\ maxCost = Bad => pc = "done" /\ distances = << >> /\ heap = {}
    /\ maxCost # Bad =>
         start \in DOMAIN distances /\ distances[start] = 0 /\ nodeCost <= maxCost

DoneInv == pc = "done" => heap = {}

IInv ==
    /\ TypeOK
    /\ BudgetInv
    /\ Bounded
    /\ HeapInv
    /\ CurrentInv
    /\ Frontier
    /\ Supported
    /\ DoneInv

----------------------------------------------------------------------------

LEMMA EmptyFunction == DOMAIN << >> = {} /\ << >> \in [{} -> Nat]
OBVIOUS

LEMMA InitInv == Init => IInv
<1> SUFFICES ASSUME Init PROVE IInv
  OBVIOUS
<1>0. /\ cost \in [Edge -> Nat \cup {Bad}]
      /\ start \in Node
      /\ maxCost \in Nat \cup {Bad}
      /\ nodeCost = 0 /\ node = start /\ todo = {}
  BY GraphAssumption, NumberAssumption, CallAssumption DEF Init, CostTable
<1>1. CASE maxCost = Bad
  <2>1. distances = << >> /\ heap = {} /\ pc = "done"
    BY <1>1 DEF Init
  <2>a. DOMAIN distances = {} /\ distances \in [{} -> Nat]
    BY <2>1, EmptyFunction
  <2>2. TypeOK
    BY <1>0, <2>1, <2>a DEF TypeOK
  <2>3. Supported
    BY <2>a DEF Supported
  <2> QED
    BY <2>1, <2>a, <2>2, <2>3, <1>0, <1>1
    DEF IInv, BudgetInv, Bounded, HeapInv, CurrentInv, Frontier, DoneInv
<1>2. CASE maxCost # Bad
  <2>0. distances = Put(<< >>, start, 0) /\ pc = "pop"
        /\ heap = {[cost |-> 0, node |-> start]} /\ maxCost \in Nat
    BY <1>0, <1>2 DEF Init
  <2>1. /\ DOMAIN distances = {start} /\ distances[start] = 0
        /\ distances \in [{start} -> Nat]
    BY <2>0, EmptyFunction DEF Put
  <2>2. TypeOK
    BY <1>0, <2>0, <2>1 DEF TypeOK, Entry
  <2>3. Supported
    BY <2>1 DEF Supported
  <2>4. BudgetInv /\ Bounded /\ HeapInv /\ CurrentInv /\ DoneInv
    BY <1>0, <2>0, <2>1, <1>2 DEF BudgetInv, Bounded, HeapInv, CurrentInv, DoneInv
  <2>5. Frontier
    BY <2>0, <2>1 DEF Frontier
  <2> QED
    BY <2>2, <2>3, <2>4, <2>5 DEF IInv
<1> QED
  BY <1>1, <1>2

\* The two cases of Pop that go on keep the label table; only the heap shrinks.
LEMMA PopInv == IInv /\ Pop => IInv'
<1> SUFFICES ASSUME IInv, Pop PROVE IInv'
  OBVIOUS
<1> USE GraphAssumption, NumberAssumption
<1>1. PICK h \in Cheapest :
        /\ heap' = heap \ {h}
        /\ nodeCost' = h.cost
        /\ node' = h.node
        /\ IF ~WithinBudget(h.cost)
             THEN pc' = "done" /\ todo' = {}
             ELSE IF Superseded(h)
                    THEN pc' = "pop" /\ todo' = {}
                    ELSE pc' = "relax" /\ todo' = OutEdges(h.node)
  BY DEF Pop
<1>2. /\ pc = "pop"
      /\ UNCHANGED <<cost, start, maxCost, distances>>
  BY DEF Pop, input
<1>3. /\ h \in heap /\ h \in Entry /\ h.cost \in Nat /\ h.node \in Node
      /\ \A g \in heap : h.cost <= g.cost
  BY DEF Cheapest, IInv, TypeOK, Entry
<1>4. maxCost # Bad /\ maxCost \in Nat
  BY <1>2 DEF IInv, BudgetInv, TypeOK
<1>5. WithinBudget(h.cost) /\ nodeCost <= h.cost
      /\ h.node \in DOMAIN distances /\ distances[h.node] <= h.cost
  BY <1>3 DEF IInv, Bounded, HeapInv, WithinBudget
<1>6. \/ Superseded(h) /\ pc' = "pop" /\ todo' = {}
      \/ distances[h.node] = h.cost /\ pc' = "relax" /\ todo' = OutEdges(h.node)
  <2>1. distances[h.node] \in Nat
    BY <1>5 DEF IInv, TypeOK
  <2> QED
    BY <2>1, <1>1, <1>3, <1>5 DEF Superseded
<1>7. TypeOK'
  BY <1>1, <1>2, <1>3, <1>6 DEF IInv, TypeOK, OutEdges, Entry
<1>8. BudgetInv' /\ Bounded'
  BY <1>1, <1>2, <1>3, <1>4, <1>5 DEF IInv, BudgetInv, Bounded, WithinBudget
<1>9. HeapInv'
  BY <1>1, <1>2, <1>3 DEF IInv, HeapInv
<1>10. CurrentInv' /\ DoneInv'
  BY <1>1, <1>2, <1>5, <1>6 DEF CurrentInv, DoneInv
<1>11. Frontier'
  <2> SUFFICES ASSUME NEW n \in DOMAIN distances
               PROVE  [cost |-> distances[n], node |-> n] \in heap' \/ Expanded(n)'
    BY <1>2 DEF Frontier
  <2>0. distances[n] \in Nat /\ nodeCost \in Nat
    BY DEF IInv, TypeOK
  <2>1. CASE Expanded(n)
    <3>1. \A e \in OutEdges(n) : Accounted(e)'
      BY <2>1, <1>2 DEF Expanded, Accounted, Usable, WithinBudget
    <3>2. distances[n] <= nodeCost'
      BY <2>0, <2>1, <1>1, <1>3, <1>5 DEF Expanded
    <3> QED
      BY <3>1, <3>2, <1>2 DEF Expanded, OutEdges
  <2>2. CASE [cost |-> distances[n], node |-> n] = h
    <3>1. h.node = n /\ h.cost = distances[n]
      BY <2>2
    <3>2. pc' = "relax" /\ todo' = OutEdges(n) /\ node' = n /\ nodeCost' = distances[n]
      BY <3>1, <1>1, <1>6, <2>0 DEF Superseded
    <3> QED
      BY <3>2, <2>0, <1>2 DEF Expanded, OutEdges
  <2>3. CASE [cost |-> distances[n], node |-> n] \in heap \ {h}
    BY <2>3, <1>1
  <2> QED
    BY <2>1, <2>2, <2>3 DEF IInv, Frontier
<1>12. Supported'
  <2> SUFFICES ASSUME NEW S \in SUBSET (DOMAIN distances \ {start}), S # {}
               PROVE  \E e \in Edge : /\ Tight(e)' /\ Target[e] \in S /\ Source[e] \notin S
                                      /\ distances'[Source[e]] <= nodeCost'
    BY <1>2 DEF Supported
  <2>1. PICK e \in Edge : /\ Tight(e) /\ Target[e] \in S /\ Source[e] \notin S
                          /\ distances[Source[e]] <= nodeCost
    BY DEF IInv, Supported
  <2>2. distances[Source[e]] \in Nat /\ nodeCost \in Nat
    BY <2>1 DEF Tight, IInv, TypeOK
  <2> QED
    BY <2>1, <2>2, <1>1, <1>2, <1>3, <1>5 DEF Tight, Usable
<1> QED
  BY <1>7, <1>8, <1>9, <1>10, <1>11, <1>12 DEF IInv

\* An edge the relaxation skips leaves every table as it is; one it takes
\* lowers exactly the label of the edge's target, to at least nodeCost.
LEMMA RelaxInv == ASSUME NEW e \in Edge PROVE IInv /\ Relax(e) => IInv'
<1> SUFFICES ASSUME IInv, Relax(e) PROVE IInv'
  OBVIOUS
<1> USE GraphAssumption, NumberAssumption
<1> DEFINE v == Target[e]
           c == nodeCost + cost[e]
<1>1. /\ pc = "relax" /\ pc' = "relax" /\ e \in todo /\ todo' = todo \ {e}
      /\ UNCHANGED <<cost, start, maxCost, nodeCost, node>>
  BY DEF Relax, input
<1>2. /\ node \in DOMAIN distances /\ distances[node] = nodeCost
      /\ todo \subseteq OutEdges(node) /\ Source[e] = node
      /\ v \in Node /\ nodeCost \in Nat
  BY <1>1 DEF IInv, CurrentInv, TypeOK, OutEdges
<1>3. maxCost # Bad /\ maxCost \in Nat
  BY <1>1 DEF IInv, BudgetInv, TypeOK
<1>4. CASE Usable(e) /\ WithinBudget(c) /\ Improves(v, c)
  <2>1. cost[e] \in Nat /\ c \in Nat /\ nodeCost <= c /\ c <= maxCost
    BY <1>2, <1>4 DEF IInv, TypeOK, Usable, WithinBudget
  <2>2. /\ distances' = Put(distances, v, c)
        /\ heap' = heap \cup {[cost |-> c, node |-> v]}
    BY <1>4 DEF Relax
  <2>3. /\ DOMAIN distances' = DOMAIN distances \cup {v}
        /\ distances'[v] = c
        /\ \A x \in DOMAIN distances : x # v => distances'[x] = distances[x]
    BY <2>2 DEF Put
  <2>4. v \in DOMAIN distances => c < distances[v] /\ nodeCost < distances[v]
    <3>1. \A n \in DOMAIN distances : distances[n] \in Nat
      BY DEF IInv, TypeOK
    <3> QED
      BY <1>2, <1>4, <2>1, <3>1 DEF Improves
  <2>5. v # node
    BY <1>2, <2>1, <2>4
  <2>6. TypeOK'
    <3>1. distances' \in [DOMAIN distances' -> Nat]
      <4>1. distances \in [DOMAIN distances -> Nat]
        BY DEF IInv, TypeOK
      <4> QED
        BY <2>1, <2>2, <2>3, <4>1 DEF Put
    <3> QED
      BY <1>1, <1>2, <2>1, <2>2, <2>3, <3>1 DEF IInv, TypeOK, Entry
  <2>7. BudgetInv' /\ Bounded'
    <3>1. start # v
      BY <1>2, <1>3, <2>4 DEF IInv, BudgetInv
    <3> QED
      BY <1>1, <1>3, <2>1, <2>2, <2>3, <3>1 DEF IInv, BudgetInv, Bounded
  <2>8. HeapInv' /\ CurrentInv' /\ DoneInv'
    <3>1. \A h \in heap : h.node = v => c <= h.cost
      <4> SUFFICES ASSUME NEW h \in heap, h.node = v PROVE c <= h.cost
        OBVIOUS
      <4>1. v \in DOMAIN distances /\ distances[v] <= h.cost /\ h.cost \in Nat
            /\ distances[v] \in Nat
        BY DEF IInv, HeapInv, TypeOK, Entry
      <4> QED
        BY <4>1, <2>1, <2>4
    <3>2. \A h \in heap : /\ h.node \in DOMAIN distances
                          /\ distances[h.node] <= h.cost /\ nodeCost <= h.cost
      BY DEF IInv, HeapInv
    <3>3. HeapInv'
      BY <1>1, <2>1, <2>2, <2>3, <3>1, <3>2 DEF HeapInv
    <3> QED
      BY <3>3, <1>1, <1>2, <2>3, <2>5 DEF CurrentInv, DoneInv
  <2>9. Frontier'
    <3> SUFFICES ASSUME NEW n \in DOMAIN distances'
                 PROVE  ([cost |-> distances[n], node |-> n] \in heap \/ Expanded(n))'
      BY DEF Frontier
    <3>1. CASE n = v
      BY <3>1, <2>2, <2>3
    <3>2. CASE n # v
      <4>1. n \in DOMAIN distances /\ distances'[n] = distances[n] /\ distances[n] \in Nat
        BY <3>2, <2>3 DEF IInv, TypeOK
      <4>2. CASE [cost |-> distances[n], node |-> n] \in heap
        BY <4>1, <4>2, <2>2
      <4>3. CASE Expanded(n)
        <5>1. ASSUME NEW f \in OutEdges(n)
              PROVE  (pc = "relax" /\ n = node /\ f \in todo)' \/ Accounted(f)'
          <6>1. f \in Edge /\ Source[f] = n
            BY DEF OutEdges
          <6>2. CASE f = e
            BY <6>1, <6>2, <1>1, <1>2, <2>3, <2>1, <4>1 DEF Accounted
          <6>3. CASE f # e /\ Accounted(f)
            <7>1. CASE Target[f] = v
              <8>1. (Usable(f) /\ WithinBudget(distances[n] + cost[f]))'
                      => v \in DOMAIN distances /\ distances[v] <= distances[n] + cost[f]
                BY <6>1, <6>3, <7>1, <1>1, <4>1 DEF Accounted, Usable, WithinBudget
              <8>2. Usable(f)' => cost[f] \in Nat /\ cost'[f] = cost[f]
                BY <1>1, <6>1 DEF Usable, IInv, TypeOK
              <8>3. v \in DOMAIN distances => distances[v] \in Nat
                BY DEF IInv, TypeOK
              <8> QED
                BY <8>1, <8>2, <8>3, <2>1, <2>3, <2>4, <4>1, <6>1, <7>1 DEF Accounted
            <7>2. CASE Target[f] # v
              BY <6>1, <6>3, <7>2, <1>1, <2>3, <4>1 DEF Accounted, Usable, WithinBudget
            <7> QED
              BY <7>1, <7>2
          <6>4. CASE f # e /\ n = node /\ f \in todo
            BY <6>4, <1>1
          <6> QED
            BY <6>2, <6>3, <6>4, <4>3 DEF Expanded
        <5> QED
          BY <5>1, <4>1, <4>3, <1>1 DEF Expanded, OutEdges
      <4> QED
        BY <4>1, <4>2, <4>3 DEF IInv, Frontier
    <3> QED
      BY <3>1, <3>2
  <2>10. Supported'
    <3> SUFFICES ASSUME NEW S \in SUBSET (DOMAIN distances' \ {start}), S # {}
                 PROVE  \E f \in Edge : /\ Tight(f)' /\ Target[f] \in S /\ Source[f] \notin S
                                        /\ distances'[Source[f]] <= nodeCost'
      BY <1>1 DEF Supported
    <3>1. CASE v \in S /\ node \notin S
      BY <3>1, <1>1, <1>2, <1>4, <2>1, <2>3, <2>5 DEF Tight, Usable
    <3>2. CASE ~(v \in S /\ node \notin S)
      <4> DEFINE R == S \ {v}
      <4>1. R # {} /\ R \in SUBSET (DOMAIN distances \ {start})
        BY <3>2, <2>3, <2>5
      <4>2. PICK f \in Edge : /\ Tight(f) /\ Target[f] \in R /\ Source[f] \notin R
                              /\ distances[Source[f]] <= nodeCost
        BY <4>1 DEF IInv, Supported
      <4>3. Source[f] # v
        BY <4>2, <2>4, <1>2 DEF Tight, IInv, TypeOK
      <4> QED
        BY <4>2, <4>3, <1>1, <2>3 DEF Tight, Usable
    <3> QED
      BY <3>1, <3>2
  <2> QED
    BY <2>6, <2>7, <2>8, <2>9, <2>10 DEF IInv
<1>5. CASE ~(Usable(e) /\ WithinBudget(c) /\ Improves(v, c))
  <2>1. distances' = distances /\ heap' = heap
    BY <1>5 DEF Relax
  <2>2. Accounted(e)
    <3>1. \A n \in DOMAIN distances : distances[n] \in Nat
      BY DEF IInv, TypeOK
    <3>2. Usable(e) => c \in Nat
      BY <1>2 DEF Usable, IInv, TypeOK
    <3> QED
      BY <1>2, <1>5, <3>1, <3>2 DEF Accounted, Improves
  <2>3. TypeOK' /\ BudgetInv' /\ Bounded' /\ HeapInv' /\ DoneInv'
    BY <1>1, <2>1 DEF IInv, TypeOK, BudgetInv, Bounded, HeapInv, DoneInv
  <2>4. CurrentInv'
    BY <1>1, <1>2, <2>1 DEF CurrentInv, OutEdges
  <2>5. Frontier'
    <3>1. \A f \in Edge : Accounted(f) => Accounted(f)'
      BY <1>1, <2>1 DEF Accounted, Usable, WithinBudget
    <3> QED
      BY <1>1, <2>1, <2>2, <3>1 DEF IInv, Frontier, Expanded, OutEdges
  <2>6. Supported'
    BY <1>1, <2>1 DEF IInv, Supported, Tight, Usable
  <2> QED
    BY <2>3, <2>4, <2>5, <2>6 DEF IInv
<1> QED
  BY <1>4, <1>5

LEMMA ControlInv == IInv /\ (NextTurn \/ Exhausted \/ UNCHANGED vars) => IInv'
<1> SUFFICES ASSUME IInv, NextTurn \/ Exhausted \/ UNCHANGED vars PROVE IInv'
  OBVIOUS
<1>1. UNCHANGED <<cost, start, maxCost, distances, heap, nodeCost, node, todo>>
  BY DEF NextTurn, Exhausted, vars, input
<1>2. \/ pc = "relax" /\ todo = {} /\ pc' = "pop"
      \/ pc = "pop" /\ heap = {} /\ pc' = "done"
      \/ pc' = pc
  BY DEF NextTurn, Exhausted, vars
<1>3. TypeOK' /\ BudgetInv' /\ Bounded' /\ HeapInv' /\ CurrentInv' /\ DoneInv'
  BY <1>1, <1>2
  DEF IInv, TypeOK, BudgetInv, Bounded, HeapInv, CurrentInv, DoneInv
<1>4. Supported'
  BY <1>1 DEF IInv, Supported, Tight, Usable
<1>5. Frontier'
  <2>1. \A e \in Edge : Accounted(e) => Accounted(e)'
    BY <1>1 DEF Accounted, Usable, WithinBudget
  <2>2. \A n \in DOMAIN distances : Expanded(n) => Expanded(n)'
    BY <1>1, <1>2, <2>1 DEF Expanded, OutEdges
  <2> QED
    BY <1>1, <2>2 DEF IInv, Frontier
<1> QED
  BY <1>3, <1>4, <1>5 DEF IInv

THEOREM Invariance == Spec => []IInv
<1>1. Init => IInv
  BY InitInv
<1>2. IInv /\ [Next]_vars => IInv'
  <2> SUFFICES ASSUME IInv, [Next]_vars PROVE IInv'
    OBVIOUS
  <2>1. CASE Pop
    BY <2>1, PopInv
  <2>2. ASSUME NEW e \in Edge, Relax(e) PROVE IInv'
    BY <2>2, RelaxInv
  <2>3. CASE NextTurn \/ Exhausted \/ UNCHANGED vars
    BY <2>3, ControlInv
  <2> QED
    BY <2>1, <2>2, <2>3 DEF Next
<1> QED
  BY <1>1, <1>2, PTL DEF Spec

\* The state stays well formed: labels and heap keys are finite seconds of nodes
\* of the graph.
THEOREM TypeCorrect == Spec => []TypeOK
<1>1. IInv => TypeOK
  BY DEF IInv
<1> QED
  BY <1>1, Invariance, PTL

\* Every label is always the cost of a real walk (see ShortestTimes below).
THEOREM LabelsAreSupported == Spec => []Supported
<1>1. IInv => Supported
  BY DEF IInv
<1> QED
  BY <1>1, Invariance, PTL

\* No label and no heap entry exceeds the budget: the loop's `break` is dead.
THEOREM LabelsWithinBudget == Spec => []Bounded
<1>1. IInv => Bounded
  BY DEF IInv
<1> QED
  BY <1>1, Invariance, PTL

\* The search does not stop early: at the end no usable edge within the budget
\* leads to a better label.
THEOREM SearchIsComplete == Spec => []Complete
<1>1. IInv => Complete
  <2> SUFFICES ASSUME IInv, pc = "done", maxCost # Bad
               PROVE  /\ start \in DOMAIN distances /\ distances[start] = 0
                      /\ \A e \in Edge : Source[e] \in DOMAIN distances => Accounted(e)
    BY DEF Complete
  <2>1. heap = {}
    BY DEF IInv, DoneInv
  <2>2. \A n \in DOMAIN distances : Expanded(n)
    BY <2>1 DEF IInv, Frontier
  <2> QED
    BY <2>2 DEF IInv, BudgetInv, Expanded, OutEdges
<1> QED
  BY <1>1, Invariance, PTL

\* Costs are popped in ascending order and settled labels never change.
THEOREM SettledLabelsAreFinal == Spec => SettledIsFinal
<1> DEFINE Final == /\ nodeCost <= nodeCost'
                    /\ \A n \in DOMAIN distances :
                         /\ n \in DOMAIN distances'
                         /\ distances[n] <= nodeCost => distances'[n] = distances[n]
<1>1. IInv /\ [Next]_vars => [Final]_vars
  <2> SUFFICES ASSUME IInv, Next PROVE Final
    OBVIOUS
  <2>0. nodeCost \in Nat /\ \A n \in DOMAIN distances : distances[n] \in Nat
    BY DEF IInv, TypeOK
  <2>1. CASE Pop
    <3>1. UNCHANGED distances /\ \E h \in heap : nodeCost' = h.cost
      BY <2>1 DEF Pop, Cheapest
    <3> QED
      BY <3>1 DEF IInv, HeapInv
  <2>2. ASSUME NEW e \in Edge, Relax(e) PROVE Final
    <3>1. UNCHANGED nodeCost
      BY <2>2 DEF Relax
    <3>2. CASE UNCHANGED distances
      BY <2>0, <3>1, <3>2
    <3>3. CASE /\ Usable(e) /\ Improves(Target[e], nodeCost + cost[e])
               /\ distances' = Put(distances, Target[e], nodeCost + cost[e])
      <4>1. cost[e] \in Nat
        BY <3>3 DEF IInv, TypeOK, Usable
      <4>2. Target[e] \in DOMAIN distances => nodeCost < distances[Target[e]]
        BY <2>0, <3>3, <4>1 DEF Improves
      <4> QED
        BY <2>0, <3>1, <3>3, <4>2 DEF Put
    <3> QED
      BY <2>2, <3>2, <3>3 DEF Relax
  <2>3. CASE NextTurn \/ Exhausted
    BY <2>0, <2>3 DEF NextTurn, Exhausted, input
  <2> QED
    BY <2>1, <2>2, <2>3 DEF Next
<1> QED
  BY <1>1, Invariance, PTL DEF Spec, SettledIsFinal

ReturnsTimeTable ==
    pc = "done" => distances # Pending /\ Caller!IsTimeTable(distances)

\* The search is one way to fulfil the contract of TimeTable: it maps to a
\* machine that answers once, with the table of the shortest travel times.
THEOREM FulfilsContract == Spec => ImplementsTimeTable
<1>1. IInv /\ Complete => ReturnsTimeTable
  <2> SUFFICES ASSUME IInv, Complete, pc = "done" PROVE Caller!IsTimeTable(distances)
    BY PendingAssumption DEF ReturnsTimeTable, IInv, TypeOK
  <2>1. CASE maxCost = Bad
    BY <2>1 DEF IInv, BudgetInv, Caller!IsTimeTable
  <2>2. CASE maxCost # Bad
    <3>1. /\ DOMAIN distances \subseteq Node
          /\ \A n \in DOMAIN distances : distances[n] \in Nat /\ distances[n] <= maxCost
          /\ start \in DOMAIN distances /\ distances[start] = 0
      BY <2>2 DEF IInv, TypeOK, Bounded, BudgetInv
    <3>2. Caller!Closed(distances)
      BY <2>2
      DEF Complete, Accounted, WithinBudget, Usable, Caller!Closed, Caller!Usable
    <3>3. Caller!Justified(distances)
      BY DEF IInv, Supported, Tight, Usable, Caller!Justified, Caller!Usable
    <3> QED
      BY <2>2, <3>1, <3>2, <3>3 DEF Caller!IsTimeTable
  <2> QED
    BY <2>1, <2>2
<1>2. Init => Caller!TTInit
  <2> SUFFICES ASSUME Init PROVE Caller!TTInit
    OBVIOUS
  <2>1. CASE maxCost = Bad
    BY <2>1 DEF Init, answer, Caller!TTInit, Caller!IsTimeTable
  <2>2. CASE maxCost # Bad
    BY <2>2 DEF Init, answer, Caller!TTInit
  <2> QED
    BY <2>1, <2>2
<1>3. ReturnsTimeTable' /\ [Next]_vars => [Caller!Deliver]_Caller!ttvars
  <2> SUFFICES ASSUME ReturnsTimeTable', [Next]_vars
               PROVE  [Caller!Deliver]_Caller!ttvars
    OBVIOUS
  <2>1. UNCHANGED input
    BY DEF Next, Pop, Relax, NextTurn, Exhausted, vars, input
  <2>2. pc = "done" => UNCHANGED <<pc, distances>>
    BY DEF Next, Pop, Relax, NextTurn, Exhausted, vars
  <2>3. CASE pc # "done" /\ pc' = "done"
    <3>1. distances' # Pending /\ Caller!IsTimeTable(distances)'
      BY <2>3 DEF ReturnsTimeTable
    <3>2. answer = Pending /\ answer' = distances'
      BY <2>3 DEF answer
    <3> QED
      BY <2>1, <3>1, <3>2 DEF Caller!Deliver, input, Caller!IsTimeTable,
         Caller!Closed, Caller!Justified, Caller!Usable
  <2>4. CASE pc = "done" \/ pc' # "done"
    BY <2>1, <2>2, <2>4 DEF answer, input, Caller!ttvars
  <2> QED
    BY <2>3, <2>4
<1> QED
  BY <1>1, <1>2, <1>3, Invariance, SearchIsComplete, PTL
  DEF Spec, ImplementsTimeTable, Caller!TTSpec

----------------------------------------------------------------------------

\* The labels of a finished search are the shortest travel times within the
\* budget: no walk within the budget ends at an unlabelled node or is cheaper
\* than its end's label, and every label is some walk's cost.
ShortestTimesFound ==
    pc = "done" /\ maxCost # Bad =>
        /\ \A k, at, c :
             IsWalk(start, k, at, c) /\ c[k] <= maxCost =>
                 at[k] \in DOMAIN distances /\ distances[at[k]] <= c[k]
        /\ \A n \in DOMAIN distances :
             \E k, at, c : IsWalk(start, k, at, c) /\ at[k] = n /\ c[k] = distances[n]

\* The walk's first node that lacks a label as good as the walk so far cannot
\* exist: its predecessor on the walk has one, and Complete extends it.
LEMMA NoWalkIsCheaper ==
    ASSUME TypeOK, Complete, pc = "done", maxCost # Bad,
           NEW k, NEW at, NEW c, IsWalk(start, k, at, c), c[k] <= maxCost
    PROVE  at[k] \in DOMAIN distances /\ distances[at[k]] <= c[k]
<1> DEFINE Good(i) == at[i] \in DOMAIN distances /\ distances[at[i]] <= c[i]
           Late == {i \in 0 .. k : c[i] > maxCost}
           Lost == {i \in 0 .. k : ~Good(i)}
<1>0. /\ k \in Nat
      /\ \A i \in 0 .. k : c[i] \in Nat /\ at[i] \in Node
      /\ maxCost \in Nat
  BY DEF IsWalk, TypeOK
<1>1. ASSUME NEW i \in 0 .. k - 1, Good(i), c[i + 1] <= maxCost
      PROVE  Good(i + 1)
  <2>1. PICK e \in Edge : /\ Usable(e) /\ Source[e] = at[i] /\ Target[e] = at[i + 1]
                          /\ c[i + 1] = c[i] + cost[e]
    BY DEF IsWalk
  <2>2. cost[e] \in Nat /\ distances[at[i]] \in Nat /\ c[i] \in Nat /\ c[i + 1] \in Nat
    BY <1>0, <1>1, <2>1 DEF TypeOK, Usable
  <2>3. distances[Source[e]] + cost[e] <= c[i + 1]
    BY <1>1, <2>1, <2>2
  <2>4. WithinBudget(distances[Source[e]] + cost[e])
    BY <1>0, <1>1, <2>1, <2>2, <2>3 DEF WithinBudget
  <2>5. Target[e] \in DOMAIN distances /\ distances[Target[e]] <= distances[Source[e]] + cost[e]
    BY <1>1, <2>1, <2>4 DEF Complete, Accounted
  <2>6. distances[Target[e]] \in Nat
    BY <2>5 DEF TypeOK
  <2> QED
    BY <2>1, <2>2, <2>3, <2>5, <2>6
<1>2. ASSUME NEW i \in 0 .. k - 1 PROVE c[i] <= c[i + 1]
  <2>1. PICK e \in Edge : Usable(e) /\ c[i + 1] = c[i] + cost[e]
    BY DEF IsWalk
  <2>2. cost[e] \in Nat /\ c[i] \in Nat
    BY <1>0, <2>1 DEF TypeOK, Usable
  <2> QED
    BY <2>1, <2>2
<1>3. Late = {}
  <2> SUFFICES ASSUME Late # {} PROVE FALSE
    OBVIOUS
  <2>1. Late \in SUBSET (0 .. k)
    OBVIOUS
  <2> HIDE DEF Late
  <2>2. PICK i \in Late : \A n \in Late : n <= i
    BY <1>0, <2>1, GreatestElement
  <2> USE DEF Late
  <2>3. i \in 0 .. k /\ c[i] > maxCost /\ i # k
    BY <1>0, <2>2
  <2>4. i \in 0 .. k - 1 /\ i + 1 \in 0 .. k
    BY <1>0, <2>3
  <2>5. i + 1 \in Late
    BY <1>0, <1>2, <2>3, <2>4
  <2> QED
    BY <2>2, <2>4, <2>5
<1>4. Lost = {}
  <2> SUFFICES ASSUME Lost # {} PROVE FALSE
    OBVIOUS
  <2>1. Lost \in SUBSET Nat
    OBVIOUS
  <2> HIDE DEF Lost
  <2>2. PICK i \in Lost : \A n \in Lost : i <= n
    BY <2>1, LeastElement
  <2> USE DEF Lost
  <2>3. i \in 0 .. k /\ ~Good(i) /\ i \in Nat
    BY <1>0, <2>2
  <2>4. Good(0)
    BY <1>0 DEF IsWalk, Complete
  <2>5. i # 0
    BY <2>3, <2>4
  <2>6. i - 1 \in 0 .. k - 1 /\ (i - 1) + 1 = i
    BY <1>0, <2>3, <2>5
  <2>7. Good(i - 1)
    BY <1>0, <2>2, <2>6
  <2>8. c[i] <= maxCost
    BY <1>0, <1>3, <2>3
  <2> QED
    BY <1>1, <2>3, <2>6, <2>7, <2>8
<1> QED
  BY <1>0, <1>4

\* Were there labels that no walk justifies, Supported would give an edge into
\* them from a label that some walk does, and the walk extended by that edge.
LEMMA EveryLabelHasAWalk ==
    ASSUME TypeOK, Supported, start \in DOMAIN distances, distances[start] = 0,
           NEW n \in DOMAIN distances
    PROVE  \E k, at, c : IsWalk(start, k, at, c) /\ at[k] = n /\ c[k] = distances[n]
<1> DEFINE Walked(m) ==
             \E k, at, c : IsWalk(start, k, at, c) /\ at[k] = m /\ c[k] = distances[m]
           S == {m \in DOMAIN distances : ~Walked(m)}
<1>1. Walked(start)
  <2> DEFINE at == [i \in 0 .. 0 |-> start]
             c == [i \in 0 .. 0 |-> 0]
  <2>1. IsWalk(start, 0, at, c)
    BY DEF IsWalk, TypeOK
  <2> QED
    BY <2>1
<1>2. ASSUME S # {} PROVE FALSE
  <2>1. S \in SUBSET (DOMAIN distances \ {start})
    BY <1>1
  <2>2. PICK e \in Edge : Tight(e) /\ Target[e] \in S /\ Source[e] \notin S
    BY <1>2, <2>1 DEF Supported
  <2>3. Walked(Source[e])
    BY <2>2 DEF Tight
  <2>4. PICK k, at, c : /\ IsWalk(start, k, at, c) /\ at[k] = Source[e]
                        /\ c[k] = distances[Source[e]]
    BY <2>3
  <2> DEFINE at2 == [i \in 0 .. k + 1 |-> IF i = k + 1 THEN Target[e] ELSE at[i]]
             c2 == [i \in 0 .. k + 1 |-> IF i = k + 1 THEN distances[Target[e]] ELSE c[i]]
  <2>5. k \in Nat /\ k + 1 \in Nat /\ 0 # k + 1
    BY <2>4 DEF IsWalk
  <2>6. /\ at2 \in [0 .. k + 1 -> Node] /\ c2 \in [0 .. k + 1 -> Nat]
        /\ at2[0] = start /\ c2[0] = 0
    BY <2>2, <2>4, <2>5 DEF IsWalk, Tight, TypeOK
  <2>7. ASSUME NEW i \in 0 .. (k + 1) - 1
        PROVE  \E f \in Edge : /\ Usable(f) /\ Source[f] = at2[i] /\ Target[f] = at2[i + 1]
                               /\ c2[i + 1] = c2[i] + cost[f]
    <3>1. i \in 0 .. k /\ i \in 0 .. k + 1 /\ i + 1 \in 0 .. k + 1 /\ i # k + 1
      BY <2>5
    <3>2. CASE i = k
      BY <2>2, <2>4, <3>1, <3>2 DEF Tight
    <3>3. CASE i # k
      <4>1. i \in 0 .. k - 1 /\ i + 1 # k + 1
        BY <2>5, <3>1, <3>3
      <4> QED
        BY <2>4, <3>1, <4>1 DEF IsWalk
    <3> QED
      BY <3>2, <3>3
  <2>8. IsWalk(start, k + 1, at2, c2)
    BY <2>5, <2>6, <2>7 DEF IsWalk
  <2>9. at2[k + 1] = Target[e] /\ c2[k + 1] = distances[Target[e]]
    BY <2>5
  <2>10. Walked(Target[e])
    BY <2>8, <2>9
  <2> QED
    BY <2>2, <2>10
<1> QED
  BY <1>2

\* A finished search has found the shortest travel times within the budget, for
\* walks of any length.
THEOREM ShortestTimes == Spec => []ShortestTimesFound
<1>1. TypeOK /\ Complete /\ Supported => ShortestTimesFound
  <2> SUFFICES ASSUME TypeOK, Complete, Supported, pc = "done", maxCost # Bad
               PROVE  /\ \A k, at, c :
                           IsWalk(start, k, at, c) /\ c[k] <= maxCost =>
                             at[k] \in DOMAIN distances /\ distances[at[k]] <= c[k]
                      /\ \A n \in DOMAIN distances :
                           \E k, at, c : IsWalk(start, k, at, c) /\ at[k] = n /\ c[k] = distances[n]
    BY DEF ShortestTimesFound
  <2>1. start \in DOMAIN distances /\ distances[start] = 0
    BY DEF Complete
  <2> QED
    BY <2>1, NoWalkIsCheaper, EveryLabelHasAWalk
<1> QED
  BY <1>1, TypeCorrect, SearchIsComplete, LabelsAreSupported, PTL

=============================================================================
