---------------------------- MODULE GraphProofs ----------------------------
(***************************************************************************)
(* How a graph is made.  Simplification follows simple chains and invents  *)
(* no shortcut, for every graph, every table of costs and every way its    *)
(* nodes may be clustered.  And before it: a load builds the graph that    *)
(* the file and the profile call for, whatever the file holds.             *)
(***************************************************************************)
EXTENDS Simplify, Loading, Lemmas, SequenceTheorems

\* The nodes of the consolidated graph.
Merged == {old_to_new[m] : m \in Node}

\* Consecutive edges that turn back nowhere and pass no endpoint on the way.
IsChain(p) ==
    /\ p \in Seq(merged) /\ p # << >>
    /\ From(p[1]) \in endpoints
    /\ \A i \in 2 .. Len(p) : From(p[i]) \notin endpoints
    /\ \A i \in 2 .. Len(p) : To(p[i - 1]) = From(p[i])
    /\ \A i \in 2 .. Len(p) : To(p[i]) # From(p[i - 1])

\* No node is left twice.
IsDistinct(p) ==
    \A i, j \in 1 .. Len(p) : From(p[i]) = From(p[j]) => i = j

Inputs ==
    /\ cost \in [Edge -> Nat \cup {Bad}]
    /\ near \in Nears
    /\ pc \in {"cluster", "merge", "chains", "walk", "done"}

\* Nodes are clustered in the order of their indices, and all of them are.
Clusters ==
    /\ turn \in Nat \ {0}
    /\ DOMAIN old_to_new \subseteq Node
    /\ \A n \in DOMAIN old_to_new : old_to_new[n] \in Node
    /\ pc = "cluster" => \A n \in Node : n < turn => n \in DOMAIN old_to_new
    /\ pc # "cluster" => DOMAIN old_to_new = Node

\* The consolidated graph has no loops.
Edges ==
    /\ \A e \in merged : e \in Edge /\ Usable(e) /\ From(e) # To(e)
    /\ pc = "cluster" => merged = {}

\* What the loop over the endpoints knows.
Loop ==
    /\ pc \in {"cluster", "merge"} =>
         endpoints = {} /\ left = {} /\ todo = {} /\ added = {} /\ links = {}
    /\ pc \notin {"cluster", "merge"} => endpoints = {n \in Merged : IsEndpoint(n)}
    /\ left \subseteq endpoints
    /\ from \in Nat
    /\ todo # {} \/ pc = "walk" => from \in endpoints
    /\ todo \subseteq {e \in merged : From(e) = from}
    /\ added \subseteq endpoints \X endpoints

\* The chain being followed, and the links made of those followed before.
Chain ==
    /\ pc # "walk" => path = << >>
    /\ pc = "walk" => IsChain(path) /\ IsDistinct(path) /\ From(path[1]) = from

Link(l) ==
    /\ l \in [from : endpoints, to : endpoints, time : Nat, path : Seq(merged)]
    /\ IsChain(l.path)
    /\ From(l.path[1]) = l.from /\ To(l.path[Len(l.path)]) = l.to
    /\ l.time = TotalTime(l.path)

Chains == \A l \in links : Link(l)

IInv == Inputs /\ Clusters /\ Edges /\ Loop /\ Chain /\ Chains

----------------------------------------------------------------------------
(* Sums along a chain.                                                     *)

\* s holds the times of the first edges of p.
Sums(p, k, s) ==
    /\ s[0] = 0
    /\ \A i \in 1 .. k : s[i] = s[i - 1] + cost[p[i]]

LEMMA SumsExist ==
    ASSUME NEW p, NEW k \in Nat
    PROVE  \E s : Sums(p, k, s)
<1> DEFINE T == {j \in Nat : ~\E s : Sums(p, j, s)}
<1>1. SUFFICES ASSUME T # {} PROVE FALSE
  OBVIOUS
<1> HIDE DEF T
<1>2. PICK m \in T : \A j \in T : m <= j
  <2>1. T \in SUBSET Nat
    BY DEF T
  <2> QED
    BY <1>1, <2>1, LeastElement
<1>3. m \in Nat /\ ~\E s : Sums(p, m, s)
  BY DEF T
<1>4. CASE m = 0
  <2> DEFINE s == [j \in {0} |-> 0]
  <2>1. Sums(p, 0, s)
    BY DEF Sums
  <2> QED
    BY <1>3, <1>4, <2>1
<1>5. CASE m # 0
  <2>1. m - 1 \in Nat /\ ~(m <= m - 1) /\ (m - 1) + 1 = m
    BY <1>3, <1>5
  <2>2. PICK g : Sums(p, m - 1, g)
    BY <1>2, <2>1 DEF T
  <2> DEFINE s == [j \in 0 .. m |-> IF j = m THEN g[m - 1] + cost[p[m]] ELSE g[j]]
  <2>3. s[0] = 0
    BY <1>3, <1>5, <2>2 DEF Sums
  <2>4. ASSUME NEW j \in 1 .. m PROVE s[j] = s[j - 1] + cost[p[j]]
    <3>1. j - 1 \in 0 .. m /\ j - 1 # m /\ s[j - 1] = g[j - 1] /\ j \in 0 .. m
      BY <1>3
    <3>2. CASE j = m
      BY <3>1, <3>2
    <3>3. CASE j # m
      <4>1. j \in 1 .. m - 1
        BY <1>3, <3>3
      <4>2. g[j] = g[j - 1] + cost[p[j]]
        BY <2>2, <4>1 DEF Sums
      <4> QED
        BY <3>1, <3>3, <4>2
    <3> QED
      BY <3>2, <3>3
  <2> HIDE DEF s
  <2>5. Sums(p, m, s)
    BY <2>3, <2>4 DEF Sums
  <2> QED
    BY <1>3, <2>5
<1> QED
  BY <1>4, <1>5

\* The total is the last of the sums.
LEMMA TotalTimeSums ==
    ASSUME Inputs, Edges, NEW p \in Seq(merged)
    PROVE  \E s \in [0 .. Len(p) -> Nat] : Sums(p, Len(p), s) /\ TotalTime(p) = s[Len(p)]
<1> DEFINE K == Len(p)
           Body(f) == [i \in 0 .. K |-> IF i = 0 THEN 0 ELSE f[i - 1] + cost[p[i]]]
           S == CHOOSE f : f = Body(f)
<1>1. K \in Nat /\ \A i \in 1 .. K : p[i] \in merged
  OBVIOUS
<1>2. \E f : f = Body(f)
  <2>1. PICK g : Sums(p, K, g)
    BY <1>1, SumsExist
  <2> DEFINE f == [i \in 0 .. K |-> g[i]]
  <2>2. ASSUME NEW i \in 0 .. K
        PROVE  f[i] = IF i = 0 THEN 0 ELSE f[i - 1] + cost[p[i]]
    <3>1. CASE i = 0
      BY <2>1, <3>1 DEF Sums
    <3>2. CASE i # 0
      <4>1. i \in 1 .. K /\ i - 1 \in 0 .. K
        BY <1>1, <3>2
      <4> QED
        BY <2>1, <3>2, <4>1 DEF Sums
    <3> QED
      BY <3>1, <3>2
  <2>3. f = Body(f)
    BY <2>2
  <2> QED
    BY <2>3
<1>3. S = Body(S)
  BY <1>2
<1>4. TotalTime(p) = S[K]
  BY DEF TotalTime
<1> HIDE DEF S
<1>5. \A i \in 0 .. K : S[i] = IF i = 0 THEN 0 ELSE S[i - 1] + cost[p[i]]
  BY <1>3
<1>6. Sums(p, K, S)
  BY <1>1, <1>5 DEF Sums
<1>7. \A i \in 1 .. K : cost[p[i]] \in Nat
  BY <1>1 DEF Inputs, Edges, Usable
<1>8. \A i \in 0 .. K : S[i] \in Nat
  <2> DEFINE T == {i \in 0 .. K : S[i] \notin Nat}
  <2>1. SUFFICES ASSUME T # {} PROVE FALSE
    OBVIOUS
  <2>2. T \in SUBSET Nat
    BY <1>1
  <2> HIDE DEF T
  <2>3. PICK i \in T : \A j \in T : i <= j
    BY <2>1, <2>2, LeastElement
  <2>4. i \in 0 .. K /\ S[i] \notin Nat
    BY <2>3 DEF T
  <2>5. i # 0
    BY <1>6, <2>4 DEF Sums
  <2>6. i \in 1 .. K /\ i - 1 \in 0 .. K /\ ~(i <= i - 1)
    BY <1>1, <2>4, <2>5
  <2>7. S[i - 1] \in Nat
    BY <2>3, <2>6 DEF T
  <2> QED
    BY <1>6, <1>7, <2>4, <2>6, <2>7 DEF Sums
<1>9. S \in [0 .. K -> Nat]
  BY <1>3, <1>8
<1> QED
  BY <1>4, <1>6, <1>9

----------------------------------------------------------------------------

\* A node that is no endpoint has two neighbours.
LEMMA TwoNeighbours ==
    ASSUME IInv, pc \notin {"cluster", "merge"}, NEW x \in Merged, x \notin endpoints,
           NEW a \in Successors(x) \cup Predecessors(x),
           NEW b \in Successors(x) \cup Predecessors(x),
           NEW c \in Successors(x) \cup Predecessors(x)
    PROVE  a = b \/ a = c \/ b = c
<1> DEFINE N == Successors(x) \cup Predecessors(x)
<1>1. ~IsEndpoint(x)
  BY DEF IInv, Loop
<1>2. Cardinality(N) = 2
  BY <1>1 DEF IsEndpoint
<1>3. N \subseteq Node
  <2>1. \A e \in merged : From(e) \in Node /\ To(e) \in Node
    BY GraphAssumption DEF IInv, Clusters, Edges, From, To
  <2> QED
    BY <2>1 DEF Successors, Predecessors, Outgoing
<1>4. IsFiniteSet(N)
  BY <1>3, FiniteAssumption, FS_Subset
<1>5. {a, b, c} \subseteq N
  OBVIOUS
<1> HIDE DEF N
<1>6. Cardinality({a, b, c}) <= 2
  BY <1>2, <1>4, <1>5, FS_Subset
<1>7. ASSUME a # b, a # c, b # c PROVE FALSE
  <2>1. Cardinality({a, b, c}) = 3
    BY <1>7, ThreeElements
  <2> HIDE <1>7
  <2> QED
    BY <1>6, <2>1
<1> QED
  BY <1>7

\* A chain that comes to a node it has left has come to an endpoint: any other
\* node has only the two neighbours the chain came from and went to.
LEMMA ReturnsToEndpointOnly ==
    ASSUME IInv, pc = "walk", NEW i \in 1 .. Len(path), Current = From(path[i])
    PROVE  Current \in endpoints
<1> DEFINE L == Len(path)
           x == From(path[i])
           N == Successors(x) \cup Predecessors(x)
<1> SUFFICES ASSUME x \notin endpoints PROVE FALSE
  OBVIOUS
<1>1. /\ L \in Nat /\ L >= 1 /\ i \in Nat /\ i <= L
      /\ \A j \in 1 .. L : path[j] \in merged
      /\ IsChain(path) /\ IsDistinct(path)
  BY DEF IInv, Chain, IsChain
<1>2. i # 1
  BY <1>1 DEF IsChain
<1>3. To(path[L]) = x
  BY DEF Current
<1>4. i # L
  BY <1>1, <1>3 DEF IInv, Edges
<1>5. /\ i - 1 \in 1 .. L /\ i \in 2 .. L /\ i + 1 \in 1 .. L /\ i + 1 \in 2 .. L
      /\ L \in 1 .. L /\ i - 1 # L /\ i - 1 # i + 1 /\ (i + 1) - 1 = i
  BY <1>1, <1>2, <1>4
<1>6. To(path[i - 1]) = x /\ To(path[i]) = From(path[i + 1])
  BY <1>1, <1>5 DEF IsChain
<1>7. From(path[i - 1]) \in N /\ From(path[i + 1]) \in N /\ From(path[L]) \in N
  BY <1>1, <1>3, <1>5, <1>6 DEF Successors, Predecessors, Outgoing
<1>8. From(path[i - 1]) # From(path[i + 1]) /\ From(path[i - 1]) # From(path[L])
  BY <1>1, <1>5 DEF IsDistinct
<1>9. From(path[i + 1]) # From(path[L])
  <2>1. CASE i + 1 = L
    BY <1>1, <1>3, <1>5, <2>1 DEF IsChain
  <2>2. CASE i + 1 # L
    BY <1>1, <1>5, <2>2 DEF IsDistinct
  <2> QED
    BY <2>1, <2>2
<1>10. x \in Merged
  <2>1. Source[path[i]] \in Node
    BY <1>1, GraphAssumption DEF IInv, Edges
  <2> QED
    BY <2>1 DEF Merged, From
<1> HIDE DEF x
<1> QED
  BY <1>7, <1>8, <1>9, <1>10, TwoNeighbours

LEMMA IInvImpliesChainIsSimple == IInv => ChainIsSimple
BY ReturnsToEndpointOnly DEF ChainIsSimple, IInv, Chain, IsDistinct

LEMMA IInvImpliesTypeOK == IInv => TypeOK
<1> SUFFICES ASSUME IInv PROVE TypeOK
  OBVIOUS
<1>1. path \in Seq(merged)
  <2>1. << >> \in Seq(merged)
    BY EmptySeq
  <2> QED
    BY <2>1 DEF IInv, Chain, IsChain
<1>2. merged \subseteq {e \in Edge : Usable(e)}
  BY DEF IInv, Edges
<1>3. endpoints \subseteq Node
  BY DEF IInv, Clusters, Loop, Merged, Inputs
<1> QED
  BY <1>1, <1>2, <1>3 DEF IInv, TypeOK, Inputs, Clusters, Loop, Chains, Link

----------------------------------------------------------------------------

\* One more edge, onward and from a node that is no endpoint.
LEMMA LongerChain ==
    ASSUME IInv, pc = "walk", Current \notin endpoints, NEW e \in Onward(Current, Previous)
    PROVE  /\ IsChain(Append(path, e)) /\ IsDistinct(Append(path, e))
           /\ From(Append(path, e)[1]) = from
<1> DEFINE L == Len(path)
           q == Append(path, e)
<1>1. /\ IsChain(path) /\ IsDistinct(path) /\ From(path[1]) = from
      /\ path \in Seq(merged) /\ path # << >>
  BY DEF IInv, Chain, IsChain
<1>2. L \in Nat /\ L >= 1 /\ 1 \in 1 .. L /\ L \in 1 .. L
  BY <1>1
<1>3. e \in merged /\ From(e) = Current /\ To(e) # Previous
  BY DEF Onward, Outgoing
<1>4. /\ q \in Seq(merged) /\ Len(q) = L + 1 /\ q # << >> /\ q[L + 1] = e
      /\ \A i \in 1 .. L : q[i] = path[i]
  BY <1>1, <1>3
<1>5. Current = To(path[L]) /\ Previous = From(path[L])
  BY DEF Current, Previous
<1> HIDE DEF q
<1>6. ASSUME NEW i \in 2 .. L + 1
      PROVE  From(q[i]) \notin endpoints /\ To(q[i - 1]) = From(q[i]) /\ To(q[i]) # From(q[i - 1])
  <2>1. CASE i = L + 1
    <3>1. q[i] = e /\ q[i - 1] = path[L]
      BY <1>2, <1>4, <2>1
    <3> QED
      BY <1>3, <1>5, <3>1
  <2>2. CASE i # L + 1
    <3>1. i \in 2 .. L /\ i \in 1 .. L /\ i - 1 \in 1 .. L
      BY <1>2, <2>2
    <3>2. q[i] = path[i] /\ q[i - 1] = path[i - 1]
      BY <1>4, <3>1
    <3> QED
      BY <1>1, <3>1, <3>2 DEF IsChain
  <2> QED
    BY <2>1, <2>2
<1>7. From(q[1]) \in endpoints /\ From(q[1]) = from
  BY <1>1, <1>2, <1>4 DEF IsChain
<1>8. IsChain(q)
  BY <1>4, <1>6, <1>7 DEF IsChain
<1>9. ASSUME NEW i \in 1 .. L PROVE From(path[i]) # Current
  BY <1>9, ReturnsToEndpointOnly
<1>10. ASSUME NEW i \in 1 .. L + 1, NEW j \in 1 .. L + 1, From(q[i]) = From(q[j])
       PROVE  i = j
  <2>1. CASE i = L + 1 /\ j = L + 1
    BY <2>1
  <2>2. CASE i # L + 1 /\ j # L + 1
    <3>1. i \in 1 .. L /\ j \in 1 .. L
      BY <1>2, <2>2
    <3> QED
      BY <1>1, <1>4, <1>10, <3>1 DEF IsDistinct
  <2>3. CASE i = L + 1 /\ j # L + 1
    <3>1. j \in 1 .. L
      BY <1>2, <2>3
    <3> QED
      BY <1>3, <1>4, <1>9, <1>10, <2>3, <3>1
  <2>4. CASE i # L + 1 /\ j = L + 1
    <3>1. i \in 1 .. L
      BY <1>2, <2>4
    <3> QED
      BY <1>3, <1>4, <1>9, <1>10, <2>4, <3>1
  <2> QED
    BY <2>1, <2>2, <2>3, <2>4
<1>11. IsDistinct(q)
  BY <1>4, <1>10 DEF IsDistinct
<1> QED
  BY <1>7, <1>8, <1>11 DEF q

LEMMA InitIInv == Init => IInv
<1> SUFFICES ASSUME Init PROVE IInv
  OBVIOUS
<1>1. cost \in [Edge -> Nat \cup {Bad}]
  <2>1. cost \in [Edge -> UNION {Costs[e] : e \in Edge}] /\ \A e \in Edge : cost[e] \in Costs[e]
    BY DEF Init, CostTable
  <2> QED
    BY <2>1, NumberAssumption
<1>2. Inputs
  BY <1>1 DEF Init, Inputs
<1>3. Clusters
  <2>1. DOMAIN << >> = {}
    OBVIOUS
  <2>2. \A n \in Node : ~(n < 1)
    BY NearAssumption, FS_CardinalityType, FiniteAssumption
  <2> QED
    BY <2>1, <2>2 DEF Init, Clusters
<1>4. Edges /\ Loop /\ Chain /\ Chains
  BY DEF Init, Edges, Loop, Chain, Chains
<1> QED
  BY <1>2, <1>3, <1>4 DEF IInv

\* Where the consolidated graph is not touched, chains and endpoints stay so.
LEMMA SameGraph ==
    ASSUME UNCHANGED <<cost, old_to_new, merged, endpoints>>
    PROVE  /\ \A p : IsChain(p)' = IsChain(p) /\ IsDistinct(p)' = IsDistinct(p)
           /\ \A l : Link(l)' = Link(l)
           /\ \A e : From(e)' = From(e) /\ To(e)' = To(e) /\ Usable(e)' = Usable(e)
           /\ {n \in Merged : IsEndpoint(n)}' = {n \in Merged : IsEndpoint(n)}
<1>1. \A e : From(e)' = From(e) /\ To(e)' = To(e) /\ Usable(e)' = Usable(e)
  BY DEF From, To, Usable
<1>2. \A p : IsChain(p)' = IsChain(p) /\ IsDistinct(p)' = IsDistinct(p)
  BY DEF IsChain, IsDistinct, From, To
<1>3. \A l : Link(l)' = Link(l)
  <2>1. \A p : TotalTime(p)' = TotalTime(p)
    BY DEF TotalTime
  <2> QED
    BY <1>1, <1>2, <2>1 DEF Link, From, To
<1>4. {n \in Merged : IsEndpoint(n)}' = {n \in Merged : IsEndpoint(n)}
  BY DEF Merged, IsEndpoint, Successors, Predecessors, Outgoing, From, To
<1> QED
  BY <1>1, <1>2, <1>3, <1>4

LEMMA NextIInv == IInv /\ [Next]_vars => IInv'
<1> SUFFICES ASSUME IInv, [Next]_vars PROVE IInv'
  OBVIOUS
<1>0. Inputs /\ Clusters /\ Edges /\ Loop /\ Chain /\ Chains
  BY DEF IInv
<1>1. Cardinality(Node) \in Nat /\ Node = 1 .. Cardinality(Node)
  BY NearAssumption, FS_CardinalityType, FiniteAssumption
<1>2. CASE Cluster
  <2>0. /\ pc = "cluster" /\ pc' = pc /\ turn \in Node /\ turn' = turn + 1
        /\ UNCHANGED <<cost, near, merged, endpoints, left, from, todo, added, path, links>>
    BY <1>2 DEF Cluster, input, loops
  <2>1. Inputs' /\ Loop' /\ Chain'
    BY <1>0, <2>0 DEF Inputs, Loop, Chain
  <2>2. Edges' /\ Chains'
    BY <1>0, <2>0 DEF Edges, Loop, Chains
  <2>3. turn \in Members(turn) \/ turn \in DOMAIN old_to_new
    BY <1>0, <2>0, NearAssumption DEF Members, Inputs
  <2>4. Members(turn) \subseteq Node
    BY <1>0, <2>0, NearAssumption DEF Members, Inputs
  <2>5. /\ DOMAIN old_to_new \subseteq DOMAIN old_to_new' /\ turn \in DOMAIN old_to_new'
        /\ DOMAIN old_to_new' \subseteq Node
        /\ \A n \in DOMAIN old_to_new' : old_to_new'[n] \in Node
    <3>1. CASE turn \in DOMAIN old_to_new
      <4>1. old_to_new' = old_to_new
        BY <1>2, <3>1 DEF Cluster
      <4> QED
        BY <1>0, <3>1, <4>1 DEF Clusters
    <3>2. CASE turn \notin DOMAIN old_to_new
      <4>1. old_to_new' = [n \in DOMAIN old_to_new \cup Members(turn) |->
                             IF n \in DOMAIN old_to_new THEN old_to_new[n] ELSE turn]
        BY <1>2, <3>2 DEF Cluster
      <4> QED
        BY <1>0, <2>0, <2>3, <2>4, <3>2, <4>1 DEF Clusters
    <3> QED
      BY <3>1, <3>2
  <2>6. \A n \in Node : n < turn + 1 => n \in DOMAIN old_to_new'
    <3>1. \A n \in Node : n < turn + 1 => n < turn \/ n = turn
      BY <1>1, <2>0
    <3> QED
      BY <1>0, <2>0, <2>5, <3>1 DEF Clusters
  <2>7. Clusters'
    <3>1. turn + 1 \in Nat \ {0}
      BY <1>1, <2>0
    <3> QED
      BY <2>0, <2>5, <2>6, <3>1 DEF Clusters
  <2> QED
    BY <2>1, <2>2, <2>7 DEF IInv
<1>3. CASE Clustered
  <2>0. /\ pc = "cluster" /\ pc' = "merge" /\ turn \notin Node /\ turn' = 1
        /\ UNCHANGED <<cost, near, old_to_new, merged, endpoints, left, from, todo, added, path, links>>
    BY <1>3 DEF Clustered, input, loops
  <2>1. \A n \in Node : n < turn
    BY <1>0, <1>1, <2>0 DEF Clusters
  <2>2. Clusters'
    BY <1>0, <2>0, <2>1 DEF Clusters
  <2>3. Inputs' /\ Loop' /\ Chain' /\ Edges' /\ Chains'
    BY <1>0, <2>0 DEF Inputs, Loop, Chain, Edges, Chains
  <2> QED
    BY <2>2, <2>3 DEF IInv
<1>4. CASE Merge
  <2>0. /\ pc = "merge" /\ pc' = pc /\ turn \in Edge /\ turn' = turn + 1
        /\ UNCHANGED <<cost, near, old_to_new, endpoints, left, from, todo, added, path, links>>
        /\ merged' = IF FirstOfPair(turn) THEN merged \cup {turn} ELSE merged
    BY <1>4 DEF Merge, input, loops
  <2>1. Inputs' /\ Clusters' /\ Chain'
    BY <1>0, <2>0 DEF Inputs, Clusters, Chain
  <2>2. Loop' /\ Chains'
    BY <1>0, <2>0 DEF Loop, Chains
  <2>3. Edges'
    BY <1>0, <2>0 DEF Edges, FirstOfPair, From, To, Usable
  <2> QED
    BY <2>1, <2>2, <2>3 DEF IInv
<1>5. CASE Survey
  <2>0. /\ pc = "merge" /\ pc' = "chains"
        /\ UNCHANGED <<cost, near, turn, old_to_new, merged, from, todo, added, path, links>>
        /\ endpoints' = {n \in Merged : IsEndpoint(n)} /\ left' = endpoints'
    BY <1>5 DEF Survey, input, Merged
  <2>1. Inputs' /\ Clusters' /\ Chain'
    BY <1>0, <2>0 DEF Inputs, Clusters, Chain
  <2>2. Edges' /\ Chains'
    BY <1>0, <2>0 DEF Edges, Loop, Chains, From, To, Usable
  <2>3. {n \in Merged : IsEndpoint(n)}' = {n \in Merged : IsEndpoint(n)}
    BY <2>0 DEF Merged, IsEndpoint, Successors, Predecessors, Outgoing, From, To
  <2>4. Loop'
    BY <1>0, <2>0, <2>3 DEF Loop
  <2> QED
    BY <2>1, <2>2, <2>4 DEF IInv
<1>6. CASE NextEndpoint
  <2>0. /\ pc = "chains" /\ pc' = pc /\ from' \in left /\ todo' = Outgoing(from')
        /\ left' = left \ {from'}
        /\ UNCHANGED <<cost, near, turn, old_to_new, merged, endpoints, added, path, links>>
    BY <1>6 DEF NextEndpoint, input
  <2>1. Inputs' /\ Clusters' /\ Chain'
    BY <1>0, <2>0 DEF Inputs, Clusters, Chain
  <2>2. Edges' /\ Chains'
    BY <1>0, <2>0, SameGraph DEF Edges, Chains
  <2>3. from' \in endpoints /\ from' \in Nat
    BY <1>0, <1>1, <2>0 DEF Loop, Merged, Clusters
  <2>4. todo' \subseteq {e \in merged : From(e) = from'}
    BY <2>0 DEF Outgoing
  <2>5. Loop'
    BY <1>0, <2>0, <2>3, <2>4, SameGraph DEF Loop, From
  <2> QED
    BY <2>1, <2>2, <2>5 DEF IInv
<1>7. ASSUME NEW e \in Edge, Begin(e) PROVE IInv'
  <2>0. /\ pc = "chains" /\ e \in todo /\ todo' = todo \ {e}
        /\ \/ pc' = pc /\ path' = path
           \/ pc' = "walk" /\ path' = <<e>>
        /\ UNCHANGED <<cost, near, turn, old_to_new, merged, endpoints, left, from, added, links>>
    BY <1>7 DEF Begin, input
  <2>1. Inputs' /\ Clusters'
    BY <1>0, <2>0 DEF Inputs, Clusters
  <2>2. Edges' /\ Chains'
    BY <1>0, <2>0, SameGraph DEF Edges, Chains
  <2>3. from \in endpoints /\ e \in merged /\ From(e) = from
    BY <1>0, <2>0 DEF Loop
  <2>4. Loop'
    BY <1>0, <2>0, <2>3, SameGraph DEF Loop, From
  <2>5. Chain'
    <3>1. CASE pc' = pc /\ path' = path
      BY <1>0, <2>0, <3>1 DEF Chain
    <3>2. CASE pc' = "walk" /\ path' = <<e>>
      <4>1. <<e>> \in Seq(merged) /\ <<e>> # << >> /\ Len(<<e>>) = 1 /\ <<e>>[1] = e
        BY <2>3
      <4>2. IsChain(<<e>>) /\ IsDistinct(<<e>>)
        BY <2>3, <4>1 DEF IsChain, IsDistinct
      <4>3. IsChain(path)' /\ IsDistinct(path)'
        BY <2>0, <3>2, <4>2 DEF IsChain, IsDistinct, From, To
      <4>4. From(path[1])' = from'
        BY <2>0, <2>3, <3>2, <4>1 DEF From
      <4> QED
        BY <3>2, <4>3, <4>4 DEF Chain
    <3> QED
      BY <2>0, <3>1, <3>2
  <2> QED
    BY <2>1, <2>2, <2>4, <2>5 DEF IInv
<1>8. CASE Walk
  <2>0. /\ pc = "walk" /\ Current \notin endpoints
        /\ \/ /\ pc' = "walk"
              /\ \E e \in Onward(Current, Previous) : path' = Append(path, e)
           \/ pc' = "chains" /\ path' = << >>
        /\ UNCHANGED <<cost, near, turn, old_to_new, merged, endpoints, left, from, todo, added, links>>
    BY <1>8 DEF Walk, input, loops
  <2>1. Inputs' /\ Clusters'
    BY <1>0, <2>0 DEF Inputs, Clusters
  <2>2. Edges' /\ Chains'
    BY <1>0, <2>0, SameGraph DEF Edges, Chains
  <2>3. Loop'
    BY <1>0, <2>0, SameGraph DEF Loop, From
  <2>4. Chain'
    <3>1. CASE pc' = "chains" /\ path' = << >>
      BY <3>1 DEF Chain
    <3>2. CASE pc' = "walk" /\ \E e \in Onward(Current, Previous) : path' = Append(path, e)
      <4>1. IsChain(path') /\ IsDistinct(path') /\ From(path'[1]) = from
        BY <2>0, <3>2, LongerChain
      <4>2. IsChain(path)' /\ IsDistinct(path)' /\ From(path[1])' = from'
        BY <2>0, <4>1 DEF IsChain, IsDistinct, From, To
      <4> QED
        BY <3>2, <4>2 DEF Chain
    <3> QED
      BY <2>0, <3>1, <3>2
  <2> QED
    BY <2>1, <2>2, <2>3, <2>4 DEF IInv
<1>9. CASE Arrive
  <2> DEFINE l == [from |-> from, to |-> Current, time |-> TotalTime(path), path |-> path]
  <2>0. /\ pc = "walk" /\ Current \in endpoints /\ pc' = "chains" /\ path' = << >>
        /\ links' = links \cup {l} /\ added' = added \cup {<<from, Current>>}
        /\ UNCHANGED <<cost, near, turn, old_to_new, merged, endpoints, left, from, todo>>
    BY <1>9 DEF Arrive, input, loops
  <2>1. Inputs' /\ Clusters' /\ Chain'
    BY <1>0, <2>0 DEF Inputs, Clusters, Chain
  <2>2. Edges'
    BY <1>0, <2>0, SameGraph DEF Edges
  <2>3. Loop'
    BY <1>0, <2>0, SameGraph DEF Loop, From
  <2>4. Link(l)
    <3>1. IsChain(path) /\ From(path[1]) = from /\ path \in Seq(merged) /\ from \in endpoints
      BY <1>0, <2>0 DEF Chain, IsChain, Loop
    <3>2. TotalTime(path) \in Nat
      <4>1. Len(path) \in 0 .. Len(path)
        BY <3>1
      <4> QED
        BY <1>0, <3>1, <4>1, TotalTimeSums
    <3> QED
      BY <2>0, <3>1, <3>2 DEF Link, Current
  <2> HIDE DEF l
  <2>5. \A m \in links' : Link(m)'
    BY <1>0, <2>0, <2>4, SameGraph DEF Chains
  <2> QED
    BY <2>1, <2>2, <2>3, <2>5 DEF IInv, Chains
<1>10. CASE Dedup
  <2>0. /\ pc = "chains" /\ pc' = "done" /\ links' \subseteq links
        /\ UNCHANGED <<cost, near, turn, old_to_new, merged, endpoints, left, from, todo, added, path>>
    BY <1>10 DEF Dedup, Fastest, input, loops
  <2>1. Inputs' /\ Clusters' /\ Chain'
    BY <1>0, <2>0 DEF Inputs, Clusters, Chain
  <2>2. Edges' /\ Chains'
    BY <1>0, <2>0, SameGraph DEF Edges, Chains
  <2>3. Loop'
    BY <1>0, <2>0, SameGraph DEF Loop, From
  <2> QED
    BY <2>1, <2>2, <2>3 DEF IInv
<1>11. CASE UNCHANGED vars
  <2>0. UNCHANGED <<cost, near, turn, old_to_new, merged, endpoints, left, from, todo, added,
                    path, links, pc>>
    BY <1>11 DEF vars
  <2>1. Inputs' /\ Clusters'
    BY <1>0, <2>0 DEF Inputs, Clusters
  <2>2. Edges' /\ Chains'
    BY <1>0, <2>0, SameGraph DEF Edges, Chains
  <2>3. Loop'
    BY <1>0, <2>0, SameGraph DEF Loop, From
  <2>4. Chain'
    BY <1>0, <2>0 DEF Chain, IsChain, IsDistinct, From, To
  <2> QED
    BY <2>1, <2>2, <2>3, <2>4 DEF IInv
<1> QED
  BY <1>2, <1>3, <1>4, <1>5, <1>6, <1>7, <1>8, <1>9, <1>10, <1>11 DEF Next

\* What simplification knows at each of its points: the consolidated graph has
\* no loops, and what it follows and has collapsed are chains of that graph
\* from endpoint to endpoint (simplify.rs:14-66, 175-204).
THEOREM Invariance == Spec => []IInv
<1> QED
  BY InitIInv, NextIInv, PTL DEF Spec

\* Types of a simplification.
THEOREM TypeCorrect == Spec => []TypeOK
<1> QED
  BY Invariance, IInvImpliesTypeOK, PTL

\* build_path has no set of visited nodes, and needs none: whatever the graph,
\* it never leaves a node twice, so that its loop ends (ChainIsSimple).
THEOREM ChainsAreSimple == Spec => []ChainIsSimple
<1> QED
  BY Invariance, IInvImpliesChainIsSimple, PTL

----------------------------------------------------------------------------
(* Nothing is forgotten: what becomes of each edge out of an endpoint.     *)

\* A chain from endpoint to endpoint, and one that ends where no edge leads on.
Complete(p) == IsChain(p) /\ To(p[Len(p)]) \in endpoints

Stuck(p) ==
    /\ IsChain(p)
    /\ To(p[Len(p)]) \notin endpoints
    /\ Onward(To(p[Len(p)]), From(p[Len(p)])) = {}

\* No two edges of the consolidated graph join the same nodes.
Unique ==
    \A e, f \in merged : From(e) = From(f) /\ To(e) = To(f) => e = f

\* The consolidated graph joins what the edges looked at join.
Covered ==
    pc # "cluster" => \A e \in Edge :
        Usable(e) /\ From(e) # To(e) /\ (pc = "merge" => e < turn) =>
            \E f \in merged : From(f) = From(e) /\ To(f) = To(e)

AddedAreJoined == \A a \in added : \E l \in links : l.from = a[1] /\ l.to = a[2]

\* The chain that starts with e is stuck; or it was skipped since the ends of e
\* are joined already; or a link joins its ends that takes no longer.
Accounted(e) ==
    \/ \E p : Stuck(p) /\ p[1] = e
    \/ \E l \in links : l.from = From(e) /\ l.to = To(e)
    \/ \E p : /\ Complete(p) /\ p[1] = e
              /\ \E l \in links : /\ l.from = From(e) /\ l.to = To(p[Len(p)])
                                  /\ l.time <= TotalTime(p)

\* Each edge out of an endpoint is still to be followed, or being followed, or
\* accounted for.
Settling ==
    pc \notin {"cluster", "merge"} => \A e \in merged :
        From(e) \in endpoints =>
            \/ From(e) \in left \/ e \in todo
            \/ pc = "walk" /\ path[1] = e
            \/ Accounted(e)

AtEnd == pc = "done" => left = {} /\ todo = {}

KInv == Unique /\ Covered /\ AddedAreJoined /\ Settling /\ AtEnd

\* An edge stays accounted for as long as links are only replaced by faster ones.
LEMMA StaysAccounted ==
    ASSUME IInv, UNCHANGED <<cost, old_to_new, merged, endpoints>>,
           \A l \in links : \E m \in links' :
             m.from = l.from /\ m.to = l.to /\ m.time \in Nat /\ m.time <= l.time,
           NEW e \in merged, Accounted(e)
    PROVE  Accounted(e)'
<1>1. \A p : (Complete(p)' <=> Complete(p)) /\ (Stuck(p)' <=> Stuck(p))
  <2>1. \A p : IsChain(p)' = IsChain(p)
    BY SameGraph
  <2> QED
    BY <2>1 DEF Complete, Stuck, Onward, Outgoing, From, To
<1>2. From(e)' = From(e) /\ To(e)' = To(e) /\ \A p : TotalTime(p)' = TotalTime(p)
  BY DEF From, To, TotalTime
<1>3. CASE \E p : Stuck(p) /\ p[1] = e
  BY <1>1, <1>3 DEF Accounted
<1>4. CASE \E l \in links : l.from = From(e) /\ l.to = To(e)
  <2>1. \E m \in links' : m.from = From(e) /\ m.to = To(e)
    BY <1>4
  <2> QED
    BY <1>2, <2>1 DEF Accounted
<1>5. CASE \E p : /\ Complete(p) /\ p[1] = e
                  /\ \E l \in links : /\ l.from = From(e) /\ l.to = To(p[Len(p)])
                                      /\ l.time <= TotalTime(p)
  <2>1. PICK p : /\ Complete(p) /\ p[1] = e
                 /\ \E l \in links : /\ l.from = From(e) /\ l.to = To(p[Len(p)])
                                     /\ l.time <= TotalTime(p)
    BY <1>5
  <2>2. PICK l \in links : l.from = From(e) /\ l.to = To(p[Len(p)]) /\ l.time <= TotalTime(p)
    BY <2>1
  <2>3. PICK m \in links' : /\ m.from = l.from /\ m.to = l.to
                            /\ m.time \in Nat /\ m.time <= l.time
    OBVIOUS
  <2>4. TotalTime(p) \in Nat /\ l.time \in Nat
    <3>1. p \in Seq(merged)
      BY <2>1 DEF Complete, IsChain
    <3>2. TotalTime(p) \in Nat
      <4>1. PICK s \in [0 .. Len(p) -> Nat] : TotalTime(p) = s[Len(p)]
        BY <3>1, TotalTimeSums DEF IInv
      <4>2. Len(p) \in 0 .. Len(p)
        BY <3>1
      <4> QED
        BY <4>1, <4>2
    <3> QED
      BY <3>2 DEF IInv, Chains, Link
  <2>5. m.time <= TotalTime(p)
    BY <2>2, <2>3, <2>4
  <2>6. To(p[Len(p)])' = To(p[Len(p)])
    BY DEF To
  <2>7. m.from = From(e)' /\ m.to = To(p[Len(p)])' /\ m.time <= TotalTime(p)'
    BY <1>2, <2>2, <2>3, <2>5, <2>6
  <2>8. Complete(p)'
    BY <1>1, <2>1
  <2> QED
    BY <2>1, <2>7, <2>8 DEF Accounted
<1> QED
  BY <1>3, <1>4, <1>5 DEF Accounted

\* The same where no link is replaced.
LEMMA StillAccounted ==
    ASSUME IInv, UNCHANGED <<cost, old_to_new, merged, endpoints>>, links \subseteq links',
           NEW e \in merged, Accounted(e)
    PROVE  Accounted(e)'
<1>1. \A l \in links : l \in links' /\ l.time \in Nat /\ l.time <= l.time
  BY DEF IInv, Chains, Link
<1> QED
  BY <1>1, StaysAccounted

LEMMA InitKInv == Init => KInv
BY DEF Init, KInv, Unique, Covered, AddedAreJoined, Settling, AtEnd

LEMMA NextKInv == IInv /\ IInv' /\ KInv /\ [Next]_vars => KInv'
<1> SUFFICES ASSUME IInv, IInv', KInv, [Next]_vars PROVE KInv'
  OBVIOUS
<1>0. /\ Inputs /\ Clusters /\ Edges /\ Loop /\ Chain /\ Chains
      /\ Unique /\ Covered /\ AddedAreJoined /\ Settling /\ AtEnd
  BY DEF IInv, KInv
<1>1. ASSUME UNCHANGED <<cost, old_to_new, merged>>, turn' = turn \/ pc # "merge",
             pc \notin {"cluster", "merge"} \/ pc' = pc, pc' \notin {"cluster", "merge"} \/ pc' = pc
      PROVE  Unique' /\ Covered'
  <2>1. \A e : From(e)' = From(e) /\ To(e)' = To(e) /\ Usable(e)' = Usable(e)
    BY <1>1 DEF From, To, Usable
  <2>2. Unique'
    BY <1>0, <1>1, <2>1 DEF Unique
  <2>3. Covered'
    BY <1>0, <1>1, <2>1 DEF Covered
  <2> QED
    BY <2>2, <2>3
<1>2. CASE Cluster
  <2>0. /\ pc = "cluster" /\ pc' = pc /\ UNCHANGED <<merged, added, links, left, todo>>
    BY <1>2 DEF Cluster, loops
  <2>1. merged = {} /\ added = {}
    BY <1>0, <2>0 DEF Edges, Loop
  <2> QED
    BY <2>0, <2>1 DEF KInv, Unique, Covered, AddedAreJoined, Settling, AtEnd
<1>3. CASE Clustered
  <2>0. /\ pc = "cluster" /\ pc' = "merge" /\ turn' = 1 /\ UNCHANGED <<merged, added, links>>
    BY <1>3 DEF Clustered
  <2>1. merged = {} /\ added = {} /\ \A e \in Edge : ~(e < 1)
    <3>1. Cardinality(Edge) \in Nat /\ Edge = 1 .. Cardinality(Edge)
      BY NearAssumption, FS_CardinalityType, FiniteAssumption
    <3> QED
      BY <1>0, <2>0, <3>1 DEF Edges, Loop
  <2> QED
    BY <2>0, <2>1 DEF KInv, Unique, Covered, AddedAreJoined, Settling, AtEnd
<1>4. CASE Merge
  <2>0. /\ pc = "merge" /\ pc' = pc /\ turn \in Edge /\ turn' = turn + 1
        /\ UNCHANGED <<cost, old_to_new, added, links>>
        /\ merged' = IF FirstOfPair(turn) THEN merged \cup {turn} ELSE merged
    BY <1>4 DEF Merge, input
  <2>1. \A e : From(e)' = From(e) /\ To(e)' = To(e) /\ Usable(e)' = Usable(e)
    BY <2>0 DEF From, To, Usable
  <2>2. Unique'
    BY <1>0, <2>0, <2>1 DEF Unique, FirstOfPair
  <2>3. ASSUME NEW e \in Edge, Usable(e), From(e) # To(e), e < turn + 1
        PROVE  \E f \in merged' : From(f) = From(e) /\ To(f) = To(e)
    <3>1. e < turn \/ e = turn
      <4>1. Cardinality(Edge) \in Nat /\ Edge = 1 .. Cardinality(Edge)
        BY NearAssumption, FS_CardinalityType, FiniteAssumption
      <4>2. e \in Nat /\ turn \in Nat
        BY <2>0, <4>1
      <4> QED
        BY <2>3, <4>2
    <3>2. CASE e < turn
      BY <1>0, <2>0, <2>3, <3>2 DEF Covered
    <3>3. CASE e = turn
      BY <2>0, <2>3, <3>3 DEF FirstOfPair
    <3> QED
      BY <3>1, <3>2, <3>3
  <2>4. Covered'
    BY <2>0, <2>1, <2>3 DEF Covered
  <2> QED
    BY <1>0, <2>0, <2>2, <2>4 DEF KInv, AddedAreJoined, Settling, AtEnd
<1>5. CASE Survey
  <2>0. /\ pc = "merge" /\ pc' = "chains" /\ turn \notin Edge
        /\ UNCHANGED <<cost, old_to_new, merged, added, links>>
        /\ left' = endpoints'
    BY <1>5 DEF Survey, input
  <2>1. \A e : From(e)' = From(e) /\ To(e)' = To(e) /\ Usable(e)' = Usable(e)
    BY <2>0 DEF From, To, Usable
  <2>2. \A e \in Edge : e < turn
    <3>1. Cardinality(Edge) \in Nat /\ Edge = 1 .. Cardinality(Edge)
      BY NearAssumption, FS_CardinalityType, FiniteAssumption
    <3> QED
      BY <1>0, <2>0, <3>1 DEF Clusters
  <2>3. Unique' /\ Covered'
    BY <1>0, <2>0, <2>1, <2>2 DEF Unique, Covered
  <2>4. AddedAreJoined' /\ AtEnd'
    BY <1>0, <2>0 DEF AddedAreJoined, AtEnd
  <2>5. Settling'
    BY <2>0 DEF Settling
  <2> QED
    BY <2>3, <2>4, <2>5 DEF KInv
<1>6. CASE NextEndpoint
  <2>0. /\ pc = "chains" /\ pc' = pc /\ todo = {} /\ from' \in left /\ todo' = Outgoing(from')
        /\ left' = left \ {from'}
        /\ UNCHANGED <<cost, turn, old_to_new, merged, endpoints, added, path, links>>
    BY <1>6 DEF NextEndpoint, input
  <2>1. Unique' /\ Covered'
    BY <1>1, <2>0
  <2>2. AddedAreJoined' /\ AtEnd'
    BY <1>0, <2>0 DEF AddedAreJoined, AtEnd
  <2>3. ASSUME NEW e \in merged, From(e) \in endpoints
        PROVE  From(e) \in left' \/ e \in todo' \/ Accounted(e)'
    <3>1. From(e) \in left \/ Accounted(e)
      BY <1>0, <2>0, <2>3 DEF Settling
    <3>2. CASE From(e) \in left
      BY <2>0, <3>2 DEF Outgoing
    <3>3. CASE Accounted(e)
      BY <2>0, <3>3, StillAccounted
    <3> QED
      BY <3>1, <3>2, <3>3
  <2>4. Settling'
    BY <2>0, <2>3, SameGraph DEF Settling
  <2> QED
    BY <2>1, <2>2, <2>4 DEF KInv
<1>7. ASSUME NEW b \in Edge, Begin(b) PROVE KInv'
  <2>0. /\ pc = "chains" /\ b \in todo /\ todo' = todo \ {b}
        /\ \/ <<from, To(b)>> \in added /\ pc' = pc /\ path' = path
           \/ pc' = "walk" /\ path' = <<b>>
        /\ UNCHANGED <<cost, turn, old_to_new, merged, endpoints, left, from, added, links>>
    BY <1>7 DEF Begin, input
  <2>1. Unique' /\ Covered'
    BY <1>1, <2>0
  <2>2. AddedAreJoined' /\ AtEnd'
    BY <1>0, <2>0 DEF AddedAreJoined, AtEnd
  <2>3. ASSUME NEW e \in merged, From(e) \in endpoints
        PROVE  \/ From(e) \in left' \/ e \in todo'
               \/ pc' = "walk" /\ path'[1] = e
               \/ Accounted(e)'
    <3>1. From(e) \in left \/ e \in todo \/ Accounted(e)
      BY <1>0, <2>0, <2>3 DEF Settling
    <3>2. CASE From(e) \in left
      BY <2>0, <3>2
    <3>3. CASE Accounted(e)
      BY <2>0, <3>3, StillAccounted
    <3>4. CASE e \in todo /\ e # b
      BY <2>0, <3>4
    <3>5. CASE e = b
      <4>1. CASE pc' = "walk" /\ path' = <<b>>
        BY <3>5, <4>1
      <4>2. CASE <<from, To(b)>> \in added
        <5>1. From(b) = from
          BY <1>0, <2>0 DEF Loop
        <5>2. \E l \in links : l.from = from /\ l.to = To(b)
          BY <1>0, <4>2 DEF AddedAreJoined
        <5>3. Accounted(e)
          BY <3>5, <5>1, <5>2 DEF Accounted
        <5> QED
          BY <2>0, <5>3, StillAccounted
      <4> QED
        BY <2>0, <4>1, <4>2
    <3> QED
      BY <3>1, <3>2, <3>3, <3>4, <3>5
  <2>4. Settling'
    BY <2>0, <2>3, SameGraph DEF Settling
  <2> QED
    BY <2>1, <2>2, <2>4 DEF KInv
<1>8. CASE Walk
  <2>0. /\ pc = "walk" /\ Current \notin endpoints
        /\ UNCHANGED <<cost, turn, old_to_new, merged, endpoints, left, from, todo, added, links>>
        /\ \/ /\ pc' = "walk"
              /\ \E e \in Onward(Current, Previous) : path' = Append(path, e)
           \/ /\ Cardinality({To(e) : e \in Onward(Current, Previous)}) # 1
              /\ pc' = "chains" /\ path' = << >>
    BY <1>8 DEF Walk, input, loops
  <2>1. Unique' /\ Covered'
    BY <1>1, <2>0
  <2>2. AddedAreJoined' /\ AtEnd'
    BY <1>0, <2>0 DEF AddedAreJoined, AtEnd
  <2>3. path \in Seq(merged) /\ path # << >> /\ IsChain(path)
    BY <1>0, <2>0 DEF Chain, IsChain
  <2>4. ASSUME Cardinality({To(e) : e \in Onward(Current, Previous)}) # 1
        PROVE  Stuck(path)
    <3>1. SUFFICES ASSUME NEW e \in Onward(Current, Previous) PROVE FALSE
      BY <2>0, <2>3 DEF Stuck, Current, Previous
    <3>2. /\ Len(path) \in 1 .. Len(path) /\ path[Len(path)] \in merged
          /\ Current = To(path[Len(path)]) /\ Previous = From(path[Len(path)])
      BY <2>3 DEF Current, Previous
    <3>3. Current \in Merged
      <4>1. Target[path[Len(path)]] \in Node
        BY <1>0, <3>2, GraphAssumption DEF Edges
      <4> QED
        BY <3>2, <4>1 DEF Merged, To
    <3>4. Previous \in Successors(Current) \cup Predecessors(Current)
      BY <3>2 DEF Predecessors
    <3>5. \A f \in Onward(Current, Previous) :
            To(f) \in Successors(Current) \cup Predecessors(Current) /\ To(f) # Previous
      BY DEF Onward, Successors
    <3>6. \A f \in Onward(Current, Previous) : To(f) = To(e)
      <4> SUFFICES ASSUME NEW f \in Onward(Current, Previous) PROVE To(f) = To(e)
        OBVIOUS
      <4>1. pc \notin {"cluster", "merge"}
        BY <2>0
      <4> QED
        BY <2>0, <3>3, <3>4, <3>5, <4>1, TwoNeighbours
    <3>7. {To(f) : f \in Onward(Current, Previous)} = {To(e)}
      BY <3>6
    <3> QED
      BY <2>4, <3>7, FS_Singleton
  <2>5. ASSUME NEW e \in merged, From(e) \in endpoints
        PROVE  \/ From(e) \in left' \/ e \in todo'
               \/ pc' = "walk" /\ path'[1] = e
               \/ Accounted(e)'
    <3>1. From(e) \in left \/ e \in todo \/ path[1] = e \/ Accounted(e)
      BY <1>0, <2>0, <2>5 DEF Settling
    <3>2. CASE From(e) \in left \/ e \in todo
      BY <2>0, <3>2
    <3>3. CASE Accounted(e)
      BY <2>0, <3>3, StillAccounted
    <3>4. CASE path[1] = e
      <4>1. CASE pc' = "walk" /\ \E f \in Onward(Current, Previous) : path' = Append(path, f)
        <5>1. PICK f \in Onward(Current, Previous) : path' = Append(path, f)
          BY <4>1
        <5>2. f \in merged
          BY DEF Onward, Outgoing
        <5>3. path'[1] = path[1]
          BY <2>3, <5>1, <5>2
        <5> QED
          BY <3>4, <4>1, <5>3
      <4>2. CASE Cardinality({To(f) : f \in Onward(Current, Previous)}) # 1
        <5>1. Accounted(e)
          BY <2>4, <3>4, <4>2 DEF Accounted
        <5> QED
          BY <2>0, <5>1, StillAccounted
      <4> QED
        BY <2>0, <4>1, <4>2
    <3> QED
      BY <3>1, <3>2, <3>3, <3>4
  <2>6. Settling'
    BY <2>0, <2>5, SameGraph DEF Settling
  <2> QED
    BY <2>1, <2>2, <2>6 DEF KInv
<1>9. CASE Arrive
  <2> DEFINE l == [from |-> from, to |-> Current, time |-> TotalTime(path), path |-> path]
  <2>0. /\ pc = "walk" /\ Current \in endpoints /\ pc' = "chains" /\ path' = << >>
        /\ links' = links \cup {l} /\ added' = added \cup {<<from, Current>>}
        /\ UNCHANGED <<cost, turn, old_to_new, merged, endpoints, left, from, todo>>
    BY <1>9 DEF Arrive, input, loops
  <2>1. Unique' /\ Covered'
    BY <1>1, <2>0
  <2>2. l \in links' /\ l.from = from /\ l.to = Current /\ l.time = TotalTime(path)
    BY <2>0
  <2> HIDE DEF l
  <2>3. AddedAreJoined' /\ AtEnd'
    BY <1>0, <2>0, <2>2 DEF AddedAreJoined, AtEnd
  <2>4. Complete(path) /\ From(path[1]) = from /\ path \in Seq(merged)
    BY <1>0, <2>0 DEF Chain, Complete, IsChain, Current
  <2>5. ASSUME NEW e \in merged, From(e) \in endpoints
        PROVE  From(e) \in left' \/ e \in todo' \/ Accounted(e)'
    <3>1. From(e) \in left \/ e \in todo \/ path[1] = e \/ Accounted(e)
      BY <1>0, <2>0, <2>5 DEF Settling
    <3>2. CASE From(e) \in left \/ e \in todo
      BY <2>0, <3>2
    <3>3. CASE Accounted(e)
      BY <2>0, <3>3, StillAccounted
    <3>4. CASE path[1] = e
      <4>1. TotalTime(path) \in Nat
        <5>1. PICK s \in [0 .. Len(path) -> Nat] : TotalTime(path) = s[Len(path)]
          BY <1>0, <2>4, TotalTimeSums
        <5>2. Len(path) \in 0 .. Len(path)
          BY <2>4
        <5> QED
          BY <5>1, <5>2
      <4> DEFINE p == path
      <4>2. Complete(p) /\ p[1] = e
        BY <2>4, <3>4
      <4>3. l.from = From(e) /\ l.to = To(p[Len(p)]) /\ l.time <= TotalTime(p)
        BY <2>2, <2>4, <3>4, <4>1 DEF Current
      <4>4. \E q : /\ Complete(q) /\ q[1] = e
                   /\ l.from = From(e) /\ l.to = To(q[Len(q)]) /\ l.time <= TotalTime(q)
        BY <4>2, <4>3
      <4>5. PICK q : /\ Complete(q) /\ q[1] = e
                     /\ l.from = From(e) /\ l.to = To(q[Len(q)]) /\ l.time <= TotalTime(q)
        BY <4>4
      <4>6. /\ From(e)' = From(e) /\ To(q[Len(q)])' = To(q[Len(q)])
            /\ TotalTime(q)' = TotalTime(q)
        BY <2>0 DEF From, To, TotalTime
      <4>7. Complete(q)'
        <5>1. IsChain(q)' = IsChain(q)
          BY <2>0, SameGraph
        <5> QED
          BY <2>0, <4>5, <4>6, <5>1 DEF Complete
      <4> QED
        BY <2>2, <4>5, <4>6, <4>7 DEF Accounted
    <3> QED
      BY <3>1, <3>2, <3>3, <3>4
  <2>6. Settling'
    BY <2>0, <2>5, SameGraph DEF Settling
  <2> QED
    BY <2>1, <2>3, <2>6 DEF KInv
<1>10. CASE Dedup
  <2>0. /\ pc = "chains" /\ pc' = "done" /\ todo = {} /\ left = {}
        /\ UNCHANGED <<cost, turn, old_to_new, merged, endpoints, left, from, todo, added, path>>
        /\ links' \in SUBSET Fastest(links)
        /\ \A l \in links : Cardinality({m \in links' : m.from = l.from /\ m.to = l.to}) = 1
    BY <1>10 DEF Dedup, input, loops
  <2>1. Unique' /\ Covered'
    BY <1>1, <2>0
  <2>2. ASSUME NEW l \in links
        PROVE  \E m \in links' : m.from = l.from /\ m.to = l.to /\ m.time \in Nat /\ m.time <= l.time
    <3>1. {m \in links' : m.from = l.from /\ m.to = l.to} # {}
      BY <2>0, FS_EmptySet
    <3>2. PICK m \in links' : m.from = l.from /\ m.to = l.to
      BY <3>1
    <3>3. m \in Fastest(links)
      BY <2>0
    <3>4. m \in links /\ m.time <= l.time
      BY <3>2, <3>3 DEF Fastest
    <3>5. m.time \in Nat
      BY <1>0, <3>4 DEF Chains, Link
    <3> QED
      BY <3>2, <3>4, <3>5
  <2>3. AddedAreJoined' /\ AtEnd'
    BY <1>0, <2>0, <2>2 DEF AddedAreJoined, AtEnd
  <2>4. ASSUME NEW e \in merged, From(e) \in endpoints PROVE Accounted(e)'
    <3>1. Accounted(e)
      BY <1>0, <2>0, <2>4 DEF Settling
    <3> QED
      BY <2>0, <2>2, <3>1, StaysAccounted
  <2>5. Settling'
    BY <2>0, <2>4, SameGraph DEF Settling
  <2> QED
    BY <2>1, <2>3, <2>5 DEF KInv
<1>11. CASE UNCHANGED vars
  <2>0. UNCHANGED <<cost, turn, old_to_new, merged, endpoints, left, from, todo, added, path, links, pc>>
    BY <1>11 DEF vars
  <2>1. Unique' /\ Covered'
    BY <1>1, <2>0
  <2>2. AddedAreJoined' /\ AtEnd'
    BY <1>0, <2>0 DEF AddedAreJoined, AtEnd
  <2>3. ASSUME NEW e \in merged, Accounted(e) PROVE Accounted(e)'
    BY <2>0, <2>3, StillAccounted
  <2>4. Settling'
    BY <1>0, <2>0, <2>3, SameGraph DEF Settling
  <2> QED
    BY <2>1, <2>2, <2>4 DEF KInv
<1> QED
  BY <1>2, <1>3, <1>4, <1>5, <1>6, <1>7, <1>8, <1>9, <1>10, <1>11 DEF Next

\* Each edge out of an endpoint is accounted for when simplification ends:
\* nothing is lost by the order in which endpoints are visited, nor by the
\* edges and paths that are skipped, dropped or deduplicated.
THEOREM NothingForgotten == Spec => []KInv
<1>1. Init => IInv /\ KInv
  BY InitIInv, InitKInv
<1>2. IInv /\ KInv /\ [Next]_vars => (IInv /\ KInv)'
  BY NextIInv, NextKInv
<1> QED
  BY <1>1, <1>2, PTL DEF Spec

----------------------------------------------------------------------------
(* Links and walks of the consolidated graph.                              *)

\* A chain follows every complete chain that starts with the same edge: at a
\* node that is no endpoint there is one way on.
LEMMA ChainsAgree ==
    ASSUME IInv, KInv, pc \notin {"cluster", "merge"},
           NEW p, NEW q, IsChain(p), Complete(q), p[1] = q[1]
    PROVE  Len(p) <= Len(q) /\ \A i \in 1 .. Len(p) : p[i] = q[i]
<1> DEFINE Agree(i) == i <= Len(q) /\ p[i] = q[i]
           T == {i \in 1 .. Len(p) : ~Agree(i)}
<1>1. /\ p \in Seq(merged) /\ q \in Seq(merged) /\ p # << >> /\ q # << >>
      /\ IsChain(q) /\ To(q[Len(q)]) \in endpoints
  BY DEF Complete, IsChain
<1>2. Len(p) \in Nat /\ Len(q) \in Nat /\ Len(p) >= 1 /\ Len(q) >= 1
  BY <1>1
<1>3. T = {}
  <2>1. SUFFICES ASSUME T # {} PROVE FALSE
    OBVIOUS
  <2>2. T \in SUBSET Nat
    OBVIOUS
  <2> HIDE DEF T
  <2>3. PICK i \in T : \A j \in T : i <= j
    BY <2>1, <2>2, LeastElement
  <2>4. i \in 1 .. Len(p) /\ ~Agree(i)
    BY <2>3 DEF T
  <2>5. i # 1
    BY <1>2, <2>4
  <2>6. i - 1 \in 1 .. Len(p) /\ i \in 2 .. Len(p) /\ ~(i <= i - 1)
    BY <1>2, <2>4, <2>5
  <2>7. i - 1 <= Len(q) /\ p[i - 1] = q[i - 1]
    BY <2>3, <2>6 DEF T
  <2>8. /\ From(p[i]) \notin endpoints /\ To(p[i - 1]) = From(p[i])
        /\ To(p[i]) # From(p[i - 1])
    BY <2>6 DEF IsChain
  <2>9. i - 1 # Len(q)
    BY <1>1, <2>7, <2>8
  <2>10. i \in 2 .. Len(q) /\ i \in 1 .. Len(q)
    BY <1>2, <2>6, <2>7, <2>9
  <2>11. To(q[i - 1]) = From(q[i]) /\ To(q[i]) # From(q[i - 1])
    BY <1>1, <2>10 DEF IsChain
  <2> DEFINE x == From(p[i])
  <2>12. /\ p[i] \in merged /\ q[i] \in merged /\ p[i - 1] \in merged
         /\ From(q[i]) = x /\ To(p[i - 1]) = x
    BY <1>1, <2>4, <2>6, <2>7, <2>8, <2>10, <2>11
  <2>13. x \in Merged
    <3>1. Source[p[i]] \in Node
      BY <2>12, GraphAssumption DEF IInv, Edges
    <3> QED
      BY <3>1 DEF Merged, From
  <2>14. /\ From(p[i - 1]) \in Successors(x) \cup Predecessors(x)
         /\ To(p[i]) \in Successors(x) \cup Predecessors(x)
         /\ To(q[i]) \in Successors(x) \cup Predecessors(x)
    BY <2>12 DEF Successors, Predecessors, Outgoing
  <2> HIDE DEF x
  <2>15. To(p[i]) = To(q[i])
    BY <2>7, <2>8, <2>11, <2>13, <2>14, TwoNeighbours DEF x
  <2>16. p[i] = q[i]
    BY <2>12, <2>15 DEF KInv, Unique, x
  <2> QED
    BY <2>4, <2>10, <2>16
<1>4. \A i \in 1 .. Len(p) : Agree(i)
  BY <1>3
<1>5. Len(p) \in 1 .. Len(p)
  BY <1>2
<1> QED
  BY <1>4, <1>5

\* When simplification ends, a link joins the ends of each complete chain, and
\* takes no longer; for a chain of one edge it may be that of another chain.
LEMMA ChainHasLink ==
    ASSUME IInv, KInv, pc = "done", NEW q, Complete(q)
    PROVE  \E l \in links : /\ l.from = From(q[1]) /\ l.to = To(q[Len(q)])
                            /\ Len(q) = 1 \/ l.time <= TotalTime(q)
<1> DEFINE e == q[1]
<1>1. /\ q \in Seq(merged) /\ q # << >> /\ IsChain(q)
      /\ From(e) \in endpoints /\ To(q[Len(q)]) \in endpoints
  BY DEF Complete, IsChain
<1>2. Len(q) \in Nat /\ Len(q) >= 1 /\ 1 \in 1 .. Len(q) /\ Len(q) \in 1 .. Len(q)
  BY <1>1
<1>3. e \in merged
  BY <1>1, <1>2
<1>4. Accounted(e)
  BY <1>1, <1>3 DEF KInv, Settling, AtEnd
<1>5. ASSUME NEW p, Stuck(p), p[1] = e PROVE FALSE
  <2>1. IsChain(p) /\ p \in Seq(merged) /\ p # << >>
    BY <1>5 DEF Stuck, IsChain
  <2>2. Len(p) <= Len(q) /\ \A i \in 1 .. Len(p) : p[i] = q[i]
    BY <1>5, <2>1, ChainsAgree
  <2>3. Len(p) \in 1 .. Len(p) /\ Len(p) \in Nat
    BY <2>1
  <2>4. p[Len(p)] = q[Len(p)]
    BY <2>2, <2>3
  <2>5. Len(p) # Len(q)
    BY <1>1, <1>5, <2>4 DEF Stuck
  <2> DEFINE j == Len(p) + 1
  <2>6. j \in 2 .. Len(q) /\ j \in 1 .. Len(q) /\ j - 1 = Len(p)
    BY <1>2, <2>2, <2>3, <2>5
  <2> HIDE DEF j
  <2>7. To(q[Len(p)]) = From(q[j]) /\ To(q[j]) # From(q[Len(p)]) /\ q[j] \in merged
    BY <1>1, <2>6 DEF IsChain
  <2>8. q[j] \in Onward(To(p[Len(p)]), From(p[Len(p)]))
    BY <2>4, <2>7 DEF Onward, Outgoing
  <2> QED
    BY <1>5, <2>8 DEF Stuck
<1>6. CASE \E l \in links : l.from = From(e) /\ l.to = To(e)
  <2>1. PICK l \in links : l.from = From(e) /\ l.to = To(e)
    BY <1>6
  <2>2. To(e) \in endpoints
    BY <2>1 DEF IInv, Chains, Link
  <2>3. Len(q) = 1
    <3> DEFINE L == Len(q)
    <3>1. ASSUME 2 \in 2 .. L PROVE FALSE
      <4>1. To(q[2 - 1]) = From(q[2]) /\ From(q[2]) \notin endpoints
        BY <1>1, <3>1 DEF IsChain
      <4>2. 2 - 1 = 1
        OBVIOUS
      <4> QED
        BY <2>2, <4>1, <4>2
    <3>2. L \in Nat /\ L >= 1
      BY <1>2
    <3> HIDE DEF L
    <3>3. L = 1
      BY <3>1, <3>2
    <3> QED
      BY <3>3 DEF L
  <2> QED
    BY <2>1, <2>3
<1>7. CASE \E p : /\ Complete(p) /\ p[1] = e
                  /\ \E l \in links : /\ l.from = From(e) /\ l.to = To(p[Len(p)])
                                      /\ l.time <= TotalTime(p)
  <2>1. PICK p : /\ Complete(p) /\ p[1] = e
                 /\ \E l \in links : /\ l.from = From(e) /\ l.to = To(p[Len(p)])
                                     /\ l.time <= TotalTime(p)
    BY <1>7
  <2>2. IsChain(p) /\ p \in Seq(merged)
    BY <2>1 DEF Complete, IsChain
  <2>3. Len(p) <= Len(q) /\ \A i \in 1 .. Len(p) : p[i] = q[i]
    BY <2>1, <2>2, ChainsAgree
  <2>4. Len(q) <= Len(p)
    BY <1>1, <2>1, ChainsAgree
  <2>5. Len(p) = Len(q)
    BY <1>2, <2>2, <2>3, <2>4
  <2>6. p = q
    BY <1>1, <2>2, <2>3, <2>5, SeqEqual
  <2> QED
    BY <2>1, <2>6
<1> QED
  BY <1>4, <1>5, <1>6, <1>7 DEF Accounted

LEMMA ConsolidatedAreLinks ==
    ASSUME IInv, pc = "done"
    PROVE  /\ AreLinks(Node, Consolidated) /\ AreLinks(Node, Joined) /\ AreLinks(endpoints, links)
           /\ endpoints \subseteq Node /\ IsFiniteSet(endpoints) /\ IsFiniteSet(Node)
<1>1. /\ cost \in [Edge -> Nat \cup {Bad}]
      /\ DOMAIN old_to_new = Node /\ \A n \in Node : old_to_new[n] \in Node
      /\ \A e \in merged : e \in Edge /\ cost[e] \in Nat
  BY DEF IInv, Inputs, Clusters, Edges, Usable
<1>2. AreLinks(Node, Consolidated)
  BY <1>1, GraphAssumption DEF AreLinks, Consolidated, From, To
<1>3. AreLinks(Node, Joined)
  BY <1>1, GraphAssumption DEF AreLinks, Joined, Links
<1>4. AreLinks(endpoints, links)
  BY DEF AreLinks, IInv, Chains, Link
<1>5. endpoints \subseteq Node
  BY <1>1 DEF IInv, Loop, Merged
<1> QED
  BY <1>2, <1>3, <1>4, <1>5, FiniteAssumption, FS_Subset

\* A link is a walk of the consolidated graph, of the same time.
LEMMA LinkIsWalk ==
    ASSUME IInv, pc = "done", NEW l \in links
    PROVE  \E k, at, c : /\ LinkWalk(Node, Consolidated, l.from, k, at, c)
                         /\ at[k] = l.to /\ c[k] = l.time
<1> DEFINE p == l.path
           k == Len(p)
           at == [i \in 0 .. k |-> IF i = 0 THEN From(p[1]) ELSE To(p[i])]
<1>1. /\ IsChain(p) /\ From(p[1]) = l.from /\ To(p[k]) = l.to /\ l.time = TotalTime(p)
      /\ p \in Seq(merged) /\ p # << >>
  BY DEF IInv, Chains, Link, IsChain
<1>2. k \in Nat /\ k >= 1 /\ \A i \in 1 .. k : p[i] \in merged
  BY <1>1
<1>3. PICK s \in [0 .. k -> Nat] : Sums(p, k, s) /\ TotalTime(p) = s[k]
  BY <1>1, TotalTimeSums DEF IInv
<1>4. \A e \in merged : From(e) \in Node /\ To(e) \in Node
  BY GraphAssumption DEF IInv, Clusters, Edges, From, To
<1>5. at \in [0 .. k -> Node]
  <2>1. 1 \in 1 .. k /\ \A i \in 0 .. k : i # 0 => i \in 1 .. k
    BY <1>2
  <2> QED
    BY <1>2, <1>4, <2>1
<1>6. at[0] = l.from /\ at[k] = l.to
  BY <1>1, <1>2
<1>7. ASSUME NEW i \in 0 .. k - 1
      PROVE  \E m \in Consolidated :
               m.from = at[i] /\ m.to = at[i + 1] /\ s[i + 1] = s[i] + m.time
  <2> DEFINE e == p[i + 1]
             m == [from |-> From(e), to |-> To(e), time |-> cost[e]]
  <2>1. i + 1 \in 1 .. k /\ i + 1 \in 0 .. k /\ i \in 0 .. k /\ i + 1 # 0 /\ (i + 1) - 1 = i
    BY <1>2
  <2>2. m \in Consolidated
    BY <1>2, <2>1 DEF Consolidated
  <2>3. at[i + 1] = To(e)
    BY <2>1
  <2>4. at[i] = From(e)
    <3>1. CASE i = 0
      BY <2>1, <3>1
    <3>2. CASE i # 0
      <4>1. i + 1 \in 2 .. k
        BY <1>2, <2>1, <3>2
      <4>2. To(p[(i + 1) - 1]) = From(p[i + 1])
        BY <1>1, <4>1 DEF IsChain
      <4>3. at[i] = To(p[i])
        BY <2>1, <3>2
      <4> QED
        BY <2>1, <4>2, <4>3
    <3> QED
      BY <3>1, <3>2
  <2>5. s[i + 1] = s[i] + cost[e]
    BY <1>3, <2>1 DEF Sums
  <2> HIDE DEF at
  <2>6. m.from = at[i] /\ m.to = at[i + 1] /\ s[i + 1] = s[i] + m.time
    BY <2>3, <2>4, <2>5
  <2> QED
    BY <2>2, <2>6
<1>8. s[0] = 0
  BY <1>3 DEF Sums
<1> HIDE DEF at, k
<1>9. LinkWalk(Node, Consolidated, l.from, k, at, s)
  BY <1>2, <1>3, <1>5, <1>6, <1>7, <1>8 DEF LinkWalk
<1> QED
  BY <1>1, <1>3, <1>6, <1>9

\* A link improves no time of the consolidated graph.
LEMMA NoShortcut ==
    ASSUME IInv, pc = "done", NEW n \in endpoints
    PROVE  \A m \in DOMAIN LinkTimes(endpoints, links, n) :
             /\ m \in endpoints /\ m \in DOMAIN LinkTimes(Node, Consolidated, n)
             /\ LinkTimes(Node, Consolidated, n)[m] \in Nat
             /\ LinkTimes(endpoints, links, n)[m] \in Nat
             /\ LinkTimes(Node, Consolidated, n)[m] <= LinkTimes(endpoints, links, n)[m]
<1> DEFINE B == LinkTimes(Node, Consolidated, n)
<1>1. /\ AreLinks(Node, Consolidated) /\ AreLinks(endpoints, links)
      /\ n \in Node /\ IsFiniteSet(endpoints) /\ IsFiniteSet(Node)
  BY ConsolidatedAreLinks
<1>2. n \in DOMAIN B /\ B[n] = 0 /\ \A m \in DOMAIN B : B[m] \in Nat
  BY <1>1, LinkTimesTable
<1>3. ASSUME NEW l \in links, l.from \in DOMAIN B
      PROVE  l.to \in DOMAIN B /\ B[l.to] <= B[l.from] + l.time
  <2>1. PICK k, at, c : /\ LinkWalk(Node, Consolidated, l.from, k, at, c)
                        /\ at[k] = l.to /\ c[k] = l.time
    BY LinkIsWalk
  <2>2. at[k] \in DOMAIN B /\ B[at[k]] <= B[l.from] + c[k]
    BY <1>1, <1>3, <2>1, LinkTimesTriangle
  <2> QED
    BY <2>1, <2>2
<1> HIDE DEF B
<1>4. \A m \in DOMAIN LinkTimes(endpoints, links, n) :
        m \in DOMAIN B /\ B[m] <= LinkTimes(endpoints, links, n)[m]
  BY <1>1, <1>2, <1>3, LinkTimesFloor
<1>5. /\ DOMAIN LinkTimes(endpoints, links, n) \subseteq endpoints
      /\ \A m \in DOMAIN LinkTimes(endpoints, links, n) : LinkTimes(endpoints, links, n)[m] \in Nat
  BY <1>1, LinkTimesTable
<1> QED
  BY <1>2, <1>4, <1>5 DEF B

\* Each edge between endpoints has a link that takes no longer.
NoEdgeLost ==
    \A e \in merged : From(e) \in endpoints /\ To(e) \in endpoints =>
        \E l \in links : l.from = From(e) /\ l.to = To(e) /\ l.time <= cost[e]

\* A walk of the consolidated graph that comes to no node twice has a link for
\* each stretch between endpoints.
LEMMA StretchHasLink ==
    ASSUME IInv, KInv, pc = "done", NEW n, NEW k, NEW at, NEW c,
           LinkWalk(Node, Consolidated, n, k, at, c),
           \A x, y \in 0 .. k : at[x] = at[y] => x = y,
           NEW i \in 0 .. k, NEW j \in 0 .. k, i < j,
           at[i] \in endpoints, at[j] \in endpoints,
           \A h \in 0 .. k : i < h /\ h < j => at[h] \notin endpoints
    PROVE  \E l \in links : /\ l.from = at[i] /\ l.to = at[j]
                            /\ NoEdgeLost => c[i] + l.time <= c[j]
<1> DEFINE d == j - i
           Steps(h, e) == /\ From(e) = at[i + h - 1] /\ To(e) = at[i + h]
                          /\ c[i + h] = c[i + h - 1] + cost[e]
           q == [h \in 1 .. d |-> CHOOSE e \in merged : Steps(h, e)]
<1>0. /\ k \in Nat /\ i \in Nat /\ j \in Nat /\ d \in Nat /\ d >= 1 /\ i + d = j
      /\ 1 \in 1 .. d /\ d \in 1 .. d /\ i + 1 - 1 = i
      /\ \A h \in 1 .. d : i + h - 1 \in 0 .. k - 1 /\ i + h - 1 \in 0 .. k
                          /\ i + h \in 0 .. k /\ (i + h - 1) + 1 = i + h
      /\ \A h \in 0 .. k : c[h] \in Nat
  BY DEF LinkWalk
<1>1. \A h \in 1 .. d : q[h] \in merged /\ Steps(h, q[h])
  <2>1. SUFFICES ASSUME NEW h \in 1 .. d PROVE \E e \in merged : Steps(h, e)
    OBVIOUS
  <2>2. PICK l \in Consolidated : /\ l.from = at[i + h - 1] /\ l.to = at[(i + h - 1) + 1]
                                  /\ c[(i + h - 1) + 1] = c[i + h - 1] + l.time
    BY <1>0 DEF LinkWalk
  <2>3. PICK e \in merged : l = [from |-> From(e), to |-> To(e), time |-> cost[e]]
    BY DEF Consolidated
  <2> QED
    BY <1>0, <2>2, <2>3
<1>2. q \in Seq(merged) /\ Len(q) = d /\ q # << >>
  <2>1. q \in [1 .. d -> merged]
    BY <1>1
  <2> HIDE DEF q
  <2>2. q \in Seq(merged)
    BY <1>0, <2>1
  <2>3. Len(q) = d
    <3> DEFINE L == Len(q)
    <3>1. L \in Nat /\ 1 .. L = 1 .. d
      BY <2>1, <2>2
    <3>2. d \in 1 .. d /\ d \in Nat
      BY <1>0
    <3> HIDE DEF L, d
    <3>3. d \in 1 .. L /\ d + 1 \notin 1 .. L
      BY <3>1, <3>2
    <3>4. L = d
      BY <3>1, <3>2, <3>3
    <3> QED
      BY <3>4 DEF L
  <2> QED
    BY <1>0, <2>2, <2>3
<1> HIDE DEF q, d
<1>3. Complete(q) /\ From(q[1]) = at[i] /\ To(q[Len(q)]) = at[j]
  <2>1. From(q[1]) = at[i] /\ To(q[d]) = at[j]
    BY <1>0, <1>1
  <2>2. ASSUME NEW h \in 2 .. Len(q)
        PROVE  /\ From(q[h]) \notin endpoints
               /\ To(q[h - 1]) = From(q[h])
               /\ To(q[h]) # From(q[h - 1])
    <3>1. /\ h \in 1 .. d /\ h - 1 \in 1 .. d /\ i + (h - 1) = i + h - 1
          /\ i < i + h - 1 /\ i + h - 1 < j /\ i + h # i + (h - 1) - 1
      BY <1>0, <1>2
    <3>2. /\ From(q[h]) = at[i + h - 1] /\ To(q[h]) = at[i + h]
          /\ From(q[h - 1]) = at[i + (h - 1) - 1] /\ To(q[h - 1]) = at[i + (h - 1)]
      BY <1>1, <3>1
    <3>3. /\ i + h - 1 \in 0 .. k /\ i + h \in 0 .. k /\ i + (h - 1) - 1 \in 0 .. k
      BY <1>0, <3>1
    <3>4. at[i + h - 1] \notin endpoints
      BY <3>1, <3>3
    <3>5. at[i + h] # at[i + (h - 1) - 1]
      BY <3>1, <3>3
    <3> QED
      BY <3>1, <3>2, <3>4, <3>5
  <2> QED
    BY <1>2, <2>1, <2>2 DEF Complete, IsChain
<1>4. c[i] + TotalTime(q) = c[j]
  <2>1. PICK s \in [0 .. Len(q) -> Nat] : Sums(q, Len(q), s) /\ TotalTime(q) = s[Len(q)]
    BY <1>2, TotalTimeSums DEF IInv
  <2>2. /\ s \in [0 .. d -> Nat] /\ s[0] = 0 /\ TotalTime(q) = s[d]
        /\ \A h \in 1 .. d : s[h] = s[h - 1] + cost[q[h]]
    BY <1>2, <2>1 DEF Sums
  <2> DEFINE Off == {h \in 0 .. d : c[i] + s[h] # c[i + h]}
  <2>3. Off = {}
    <3>1. SUFFICES ASSUME Off # {} PROVE FALSE
      OBVIOUS
    <3>2. Off \in SUBSET Nat
      BY <1>0
    <3> HIDE DEF Off
    <3>3. PICK h \in Off : \A g \in Off : h <= g
      BY <3>1, <3>2, LeastElement
    <3>4. h \in 0 .. d /\ c[i] + s[h] # c[i + h]
      BY <3>3 DEF Off
    <3>5. h # 0
      <4>1. i + 0 = i /\ c[i] \in Nat
        BY <1>0
      <4>2. c[i] + s[0] = c[i + 0]
        BY <2>2, <4>1
      <4> QED
        BY <3>4, <4>2
    <3>6. h \in 1 .. d /\ h - 1 \in 0 .. d /\ ~(h <= h - 1) /\ i + (h - 1) = i + h - 1
      BY <1>0, <3>4, <3>5
    <3>7. c[i] + s[h - 1] = c[i + h - 1]
      <4>1. h - 1 \notin Off
        BY <3>3, <3>6
      <4> QED
        BY <3>6, <4>1 DEF Off
    <3>8. s[h] = s[h - 1] + cost[q[h]] /\ c[i + h] = c[i + h - 1] + cost[q[h]]
      BY <1>1, <2>2, <3>6
    <3>9. c[i] \in Nat /\ s[h - 1] \in Nat /\ cost[q[h]] \in Nat
      <4>1. cost[q[h]] \in Nat
        BY <1>1, <3>6 DEF IInv, Inputs, Edges, Usable
      <4> QED
        BY <1>0, <2>2, <3>6, <4>1
    <3> QED
      BY <3>4, <3>7, <3>8, <3>9
  <2>4. d \in 0 .. d
    BY <1>0
  <2>5. c[i] + s[d] = c[i + d]
    BY <2>3, <2>4
  <2> QED
    BY <1>0, <2>2, <2>5
<1>5. PICK l \in links : /\ l.from = at[i] /\ l.to = at[j]
                         /\ Len(q) = 1 \/ l.time <= TotalTime(q)
  BY <1>3, ChainHasLink
<1>6. l.time \in Nat
  BY DEF IInv, Chains, Link
<1>7. c[i] \in Nat /\ c[j] \in Nat
  BY <1>0
<1>8. TotalTime(q) \in Nat
  BY <1>2, TotalTimeSums DEF IInv
<1>9. CASE l.time <= TotalTime(q)
  BY <1>4, <1>5, <1>6, <1>7, <1>8, <1>9
<1>10. CASE Len(q) = 1
  <2>1. CASE ~NoEdgeLost
    BY <1>5, <2>1
  <2>2. CASE NoEdgeLost
    <3>1. /\ q[1] \in merged /\ From(q[1]) = at[i] /\ To(q[1]) = at[j]
          /\ c[j] = c[i] + cost[q[1]]
      BY <1>0, <1>1, <1>2, <1>3, <1>10
    <3>2. PICK m \in links : m.from = at[i] /\ m.to = at[j] /\ m.time <= cost[q[1]]
      BY <2>2, <3>1 DEF NoEdgeLost
    <3>3. m.time \in Nat /\ cost[q[1]] \in Nat
      BY <3>1 DEF IInv, Inputs, Edges, Usable, Chains, Link
    <3>4. c[i] + m.time <= c[j]
      BY <1>7, <3>1, <3>2, <3>3
    <3> QED
      BY <3>2, <3>4
  <2> QED
    BY <2>1, <2>2
<1> QED
  BY <1>5, <1>9, <1>10

\* The links give each endpoint at the end of a walk of the consolidated graph
\* that comes to no node twice a time, and no longer one if no edge was lost.
LEMMA WalkHasTime ==
    ASSUME IInv, KInv, pc = "done", NEW n \in endpoints, NEW k, NEW at, NEW c,
           LinkWalk(Node, Consolidated, n, k, at, c),
           \A x, y \in 0 .. k : at[x] = at[y] => x = y,
           at[k] \in endpoints
    PROVE  /\ at[k] \in DOMAIN LinkTimes(endpoints, links, n)
           /\ NoEdgeLost => LinkTimes(endpoints, links, n)[at[k]] <= c[k]
<1> DEFINE A == LinkTimes(endpoints, links, n)
           Good(j) == at[j] \in DOMAIN A /\ (NoEdgeLost => A[at[j]] <= c[j])
           Missed == {j \in 0 .. k : at[j] \in endpoints /\ ~Good(j)}
<1>0. /\ k \in Nat /\ k \in 0 .. k /\ 0 \in 0 .. k /\ at[0] = n /\ c[0] = 0
      /\ \A j \in 0 .. k : c[j] \in Nat
  BY DEF LinkWalk
<1>1. /\ n \in DOMAIN A /\ A[n] = 0 /\ \A m \in DOMAIN A : A[m] \in Nat
      /\ \A l \in links : l.from \in DOMAIN A => l.to \in DOMAIN A /\ A[l.to] <= A[l.from] + l.time
  BY ConsolidatedAreLinks, LinkTimesTable
<1> HIDE DEF A
<1>2. ASSUME Missed # {} PROVE FALSE
  <2>1. Missed \in SUBSET Nat
    BY <1>0
  <2> HIDE DEF Missed
  <2>2. PICK j \in Missed : \A h \in Missed : j <= h
    BY <1>2, <2>1, LeastElement
  <2>3. j \in 0 .. k /\ at[j] \in endpoints /\ ~Good(j)
    BY <2>2 DEF Missed
  <2>4. j # 0
    BY <1>0, <1>1, <2>3
  <2> DEFINE Before == {h \in 0 .. k : h < j /\ at[h] \in endpoints}
  <2>5. Before \in SUBSET (0 .. k) /\ 0 \in Before
    BY <1>0, <2>3, <2>4
  <2> HIDE DEF Before
  <2>6. PICK i \in Before : \A h \in Before : h <= i
    BY <1>0, <2>5, GreatestElement
  <2>7. i \in 0 .. k /\ i < j /\ at[i] \in endpoints
    BY <2>6 DEF Before
  <2>8. \A h \in 0 .. k : i < h /\ h < j => at[h] \notin endpoints
    <3>1. SUFFICES ASSUME NEW h \in 0 .. k, i < h, h < j, at[h] \in endpoints PROVE FALSE
      OBVIOUS
    <3>2. h <= i
      BY <2>6, <3>1 DEF Before
    <3> QED
      BY <1>0, <2>7, <3>1, <3>2
  <2>9. PICK l \in links : l.from = at[i] /\ l.to = at[j] /\ (NoEdgeLost => c[i] + l.time <= c[j])
    BY <2>3, <2>7, <2>8, StretchHasLink
  <2>10. Good(i)
    <3>1. i \notin Missed
      BY <1>0, <2>2, <2>3, <2>7
    <3> QED
      BY <2>7, <3>1 DEF Missed
  <2>11. at[j] \in DOMAIN A /\ A[at[j]] <= A[at[i]] + l.time
    BY <1>1, <2>9, <2>10
  <2>12. /\ A[at[i]] \in Nat /\ A[at[j]] \in Nat /\ c[i] \in Nat /\ c[j] \in Nat
         /\ l.time \in Nat
    BY <1>0, <1>1, <2>3, <2>7, <2>10, <2>11 DEF IInv, Chains, Link
  <2>13. NoEdgeLost => A[at[j]] <= c[j]
    <3>1. SUFFICES ASSUME NoEdgeLost PROVE A[at[j]] <= c[j]
      OBVIOUS
    <3>2. A[at[i]] <= c[i] /\ c[i] + l.time <= c[j]
      BY <2>9, <2>10, <3>1
    <3> QED
      BY <2>11, <2>12, <3>2
  <2> QED
    BY <2>3, <2>11, <2>13
<1>3. Good(k)
  BY <1>0, <1>2
<1> QED
  BY <1>3 DEF A

\* The links give each endpoint that can be reached in the consolidated graph a
\* time, and no longer one if no edge was lost.
LEMMA ReachedHasTime ==
    ASSUME IInv, KInv, pc = "done", NEW n \in endpoints,
           NEW m \in endpoints, m \in DOMAIN LinkTimes(Node, Consolidated, n)
    PROVE  /\ m \in DOMAIN LinkTimes(endpoints, links, n)
           /\ NoEdgeLost =>
                LinkTimes(endpoints, links, n)[m] <= LinkTimes(Node, Consolidated, n)[m]
<1> DEFINE B == LinkTimes(Node, Consolidated, n)
           A == LinkTimes(endpoints, links, n)
<1>0. /\ AreLinks(Node, Consolidated) /\ AreLinks(endpoints, links)
      /\ n \in Node /\ IsFiniteSet(endpoints) /\ IsFiniteSet(Node)
  BY ConsolidatedAreLinks
<1>1. PICK k, at, c : LinkWalk(Node, Consolidated, n, k, at, c) /\ at[k] = m /\ c[k] = B[m]
  BY <1>0, LinkTimesAreShortest
<1>2. PICK j, at2, c2 : /\ LinkWalk(Node, Consolidated, n, j, at2, c2)
                        /\ at2[j] = at[k] /\ c2[j] <= c[k]
                        /\ \A x, y \in 0 .. j : at2[x] = at2[y] => x = y
  BY <1>0, <1>1, SimpleWalk
<1>3. at2[j] \in endpoints
  BY <1>1, <1>2
<1>4. at2[j] \in DOMAIN A /\ (NoEdgeLost => A[at2[j]] <= c2[j])
  BY <1>2, <1>3, WalkHasTime
<1>5. \A x \in DOMAIN A : A[x] \in Nat
  BY <1>0, LinkTimesTable
<1>6. c[k] \in Nat /\ c2[j] \in Nat
  <2>1. k \in 0 .. k /\ j \in 0 .. j
    BY <1>1, <1>2 DEF LinkWalk
  <2> QED
    BY <1>1, <1>2, <2>1 DEF LinkWalk
<1> HIDE DEF A, B
<1>7. m \in DOMAIN A /\ A[m] \in Nat
  BY <1>1, <1>2, <1>4, <1>5
<1>8. NoEdgeLost => A[m] <= B[m]
  BY <1>1, <1>2, <1>4, <1>6, <1>7
<1> QED
  BY <1>7, <1>8 DEF A, B

\* The nodes a walk can lead to, over the input with clusters joined, are those
\* of the consolidated graph.
LEMMA SameReach ==
    ASSUME IInv, KInv, pc = "done", NEW n \in Node
    PROVE  DOMAIN LinkTimes(Node, Joined, n) = DOMAIN LinkTimes(Node, Consolidated, n)
<1> DEFINE J == DOMAIN LinkTimes(Node, Joined, n)
           C == DOMAIN LinkTimes(Node, Consolidated, n)
<1>0. AreLinks(Node, Consolidated) /\ AreLinks(Node, Joined) /\ IsFiniteSet(Node)
  BY ConsolidatedAreLinks
<1>1. n \in J /\ \A l \in Joined : l.from \in J => l.to \in J
  BY <1>0, LinkTimesTable
<1>2. n \in C /\ \A l \in Consolidated : l.from \in C => l.to \in C
  BY <1>0, LinkTimesTable
<1>3. ASSUME NEW l \in Consolidated, l.from \in J PROVE l.to \in J
  <2>1. PICK e \in merged : l = [from |-> From(e), to |-> To(e), time |-> cost[e]]
    BY DEF Consolidated
  <2>2. e \in Edge /\ cost[e] # Bad
    BY DEF IInv, Edges, Usable
  <2> DEFINE m == [from |-> Source[e], to |-> Target[e], time |-> cost[e]]
             o == [from |-> old_to_new[m.from], to |-> old_to_new[m.to], time |-> m.time]
  <2>3. m \in Links
    BY <2>2 DEF Links
  <2>4. o \in Joined
    BY <2>3 DEF Joined
  <2>5. o.from = l.from /\ o.to = l.to
    BY <2>1 DEF From, To
  <2> HIDE DEF o
  <2> QED
    BY <1>1, <1>3, <2>4, <2>5
<1>4. ASSUME NEW l \in Joined, l.from \in C PROVE l.to \in C
  <2>1. PICK m \in Links :
          l = [from |-> old_to_new[m.from], to |-> old_to_new[m.to], time |-> m.time]
    BY DEF Joined
  <2>2. PICK e \in Edge : /\ cost[e] # Bad
                          /\ m = [from |-> Source[e], to |-> Target[e], time |-> cost[e]]
    BY DEF Links
  <2>3. l.from = From(e) /\ l.to = To(e)
    BY <2>1, <2>2 DEF From, To
  <2>4. CASE From(e) = To(e)
    BY <1>4, <2>3, <2>4
  <2>5. CASE From(e) # To(e)
    <3>1. PICK f \in merged : From(f) = From(e) /\ To(f) = To(e)
      BY <2>2, <2>5 DEF KInv, Covered, Usable
    <3> DEFINE o == [from |-> From(f), to |-> To(f), time |-> cost[f]]
    <3>2. o \in Consolidated
      BY DEF Consolidated
    <3>3. o.from = l.from /\ o.to = l.to
      BY <2>3, <3>1
    <3> HIDE DEF o
    <3> QED
      BY <1>2, <1>4, <3>2, <3>3
  <2> QED
    BY <2>4, <2>5
<1> HIDE DEF J, C
<1>5. C \subseteq J
  BY <1>0, <1>1, <1>3, LinkTimesStay DEF C
<1>6. J \subseteq C
  BY <1>0, <1>2, <1>4, LinkTimesStay DEF J
<1> QED
  BY <1>5, <1>6 DEF J, C

----------------------------------------------------------------------------

LEMMA IInvImpliesConnectionsKept == IInv /\ KInv => ConnectionsKept
<1> SUFFICES ASSUME IInv, KInv, pc = "done", NEW n \in endpoints
             PROVE  DOMAIN LinkTimes(endpoints, links, n)
                      = DOMAIN LinkTimes(Node, Joined, n) \cap endpoints
  BY DEF ConnectionsKept
<1>1. n \in Node
  BY ConsolidatedAreLinks
<1>2. DOMAIN LinkTimes(Node, Joined, n) = DOMAIN LinkTimes(Node, Consolidated, n)
  BY <1>1, SameReach
<1>3. DOMAIN LinkTimes(endpoints, links, n)
        \subseteq DOMAIN LinkTimes(Node, Consolidated, n) \cap endpoints
  BY NoShortcut
<1>4. DOMAIN LinkTimes(Node, Consolidated, n) \cap endpoints
        \subseteq DOMAIN LinkTimes(endpoints, links, n)
  BY ReachedHasTime
<1> QED
  BY <1>2, <1>3, <1>4

LEMMA IInvImpliesTimesKept == IInv /\ KInv => TimesKept
<1> DEFINE lost == {e \in merged :
                      /\ From(e) \in endpoints /\ To(e) \in endpoints
                      /\ ~\E l \in links : l.from = From(e) /\ l.to = To(e) /\ l.time <= cost[e]}
<1> SUFFICES ASSUME IInv, KInv, pc = "done", NEW n \in endpoints,
                    NEW m \in DOMAIN LinkTimes(endpoints, links, n)
             PROVE  /\ LinkTimes(endpoints, links, n)[m] >= LinkTimes(Node, Consolidated, n)[m]
                    /\ lost = {} => LinkTimes(endpoints, links, n)[m]
                                       = LinkTimes(Node, Consolidated, n)[m]
  BY DEF TimesKept
<1> DEFINE B == LinkTimes(Node, Consolidated, n)
           A == LinkTimes(endpoints, links, n)
<1>1. /\ m \in endpoints /\ m \in DOMAIN B
      /\ A[m] \in Nat /\ B[m] \in Nat /\ B[m] <= A[m]
  BY NoShortcut
<1>2. NoEdgeLost => A[m] <= B[m]
  BY <1>1, ReachedHasTime
<1>3. lost = {} => NoEdgeLost
  BY DEF NoEdgeLost
<1> HIDE DEF A, B, lost
<1>4. A[m] >= B[m] /\ (lost = {} => A[m] = B[m])
  BY <1>1, <1>2, <1>3
<1> QED
  BY <1>4 DEF A, B

\* Whatever edge is dropped, whichever chain is abandoned or skipped, and in
\* whatever order the endpoints are visited, simplify_graph keeps the connections
\* between the nodes that stay, and makes none (ConnectionsKept).
THEOREM ConnectionsAreKept == Spec => []ConnectionsKept
<1>1. IInv /\ KInv => ConnectionsKept
  BY IInvImpliesConnectionsKept
<1> QED
  BY <1>1, Invariance, NothingForgotten, PTL

\* No travel time between nodes that stay gets shorter, and one that gets longer
\* does so for an edge that was skipped since a slower chain had ended where it
\* leads: that early `continue` is the only loss (TimesKept).
THEOREM TimesAreKept == Spec => []TimesKept
<1>1. IInv /\ KInv => TimesKept
  BY IInvImpliesTimesKept
<1> QED
  BY <1>1, Invariance, NothingForgotten, PTL

----------------------------------------------------------------------------
(* The load that comes before.                                             *)

\* The elements read so far, the ids of nodes, and those of ways.
ReadSoFar(kind) == {file[i] : i \in {j \in 1 .. pos : file[j].kind = kind}}
NodeIds == {n.id : n \in Elements("node")}
WayIds == {w.id : w \in Elements("way")}

\* The ways that the graph is built of.
Chosen ==
    IF FromFile THEN Kept(type)
    ELSE IF call.reader = "overpass"
           THEN {w \in Elements("way") : QuerySelects(w.tags, type)}
         ELSE Elements("way")

\* A stretch of a way, and the edges it gives.
Stretch(w, i) == PairEdges(w, w.refs[i], w.refs[i + 1])
Speed == Nat \ {0}
EdgeRecord == [from : DOMAIN nodes, to : DOMAIN nodes, way : WayIds,
               length : Nat, speed : Speed]

LoadInputs ==
    /\ file \in Files /\ call \in Calls
    /\ type \in Range(call.types)
    /\ stage \in {"read", "build", "index", "done", "simplify", "panic", "error"}

\* What the reader holds is what it has read.
Reader ==
    /\ pos \in 0 .. Len(file)
    /\ DOMAIN allNodes = {e.id : e \in ReadSoFar("node")}
    /\ \A n \in DOMAIN allNodes : allNodes[n] \in Int
    /\ poiIds \subseteq DOMAIN allNodes
    /\ DOMAIN roads = Range(call.types)
    /\ \A t \in DOMAIN roads :
         /\ roads[t] \in Seq(Elements("way"))
         /\ Range(roads[t]) = {w \in ReadSoFar("way") : way_passes_road_filter(w.tags, t)}

\* The data handed to create_graph.
Data ==
    /\ \A n \in DOMAIN nodes : nodes[n] \in Int
    /\ stage \notin {"read", "error"} =>
         /\ ways \in Seq(Chosen)
         /\ DOMAIN nodes =
              IF call.reader = "from_osm" THEN NodeIds ELSE NodeIds \cap Refs(Chosen)
    /\ stage \in {"index", "done", "simplify"} => ways = << >>
    /\ poiSnaps # NoSnaps => stage = "done" /\ Range(poiSnaps) \subseteq DOMAIN nodes

\* The edges are those of the ways done.
LoadEdges ==
    /\ stage \in {"read", "error"} => edges = << >>
    /\ edges \in Seq(EdgeRecord)
    /\ \A e \in Range(edges) : \E w \in Chosen : \E i \in 1 .. Len(w.refs) - 1 :
         e \in Range(Stretch(w, i))
    /\ stage \notin {"read", "error", "panic"} => \A w \in Chosen :
         w \in Range(ways) \/ \A i \in 1 .. Len(w.refs) - 1 :
                               Range(Stretch(w, i)) \subseteq Range(edges)

LoadInv == LoadInputs /\ Reader /\ Data /\ LoadEdges /\ PanicsOnlyOnClippedWays

----------------------------------------------------------------------------
(* Elements.                                                               *)

\* A file is a sequence of nodes with positions and of ways with nodes in turn.
LEMMA FileIsSequence ==
    ASSUME LoadInputs
    PROVE  /\ file \in Seq(Range(file))
           /\ DOMAIN file = 1 .. Len(file) /\ Len(file) \in Nat
           /\ \A n \in Elements("node") : n.at \in Int
           /\ \A w \in Elements("way") :
                /\ w.refs \in Seq(Range(w.refs))
                /\ DOMAIN w.refs = 1 .. Len(w.refs) /\ Len(w.refs) \in Nat
<1>1. /\ file \in Seq({file[i] : i \in DOMAIN file})
      /\ \A i \in DOMAIN file :
           /\ file[i].kind = "node" => file[i].at \in Int
           /\ file[i].kind = "way" =>
                file[i].refs \in Seq({file[i].refs[j] : j \in DOMAIN file[i].refs})
  BY FileAssumption DEF LoadInputs
<1>2. Range(file) = {file[i] : i \in DOMAIN file}
  BY DEF Range
<1>3. file \in Seq(Range(file))
  BY <1>1, <1>2
<1>4. DOMAIN file = 1 .. Len(file) /\ Len(file) \in Nat
  BY <1>3
<1>5. \A n \in Elements("node") : n.at \in Int
  BY <1>1, <1>2 DEF Elements
<1>6. ASSUME NEW w \in Elements("way")
      PROVE  /\ w.refs \in Seq(Range(w.refs))
             /\ DOMAIN w.refs = 1 .. Len(w.refs) /\ Len(w.refs) \in Nat
  <2>1. Range(w.refs) = {w.refs[j] : j \in DOMAIN w.refs}
    BY DEF Range
  <2>2. PICK i \in DOMAIN file : file[i] = w /\ file[i].kind = "way"
    BY <1>2 DEF Elements
  <2>4. file[i].refs \in Seq({file[i].refs[j] : j \in DOMAIN file[i].refs})
    BY <1>1, <2>2
  <2>3. w.refs \in Seq(Range(w.refs))
    BY <2>1, <2>2, <2>4
  <2> QED
    BY <2>3
<1> QED
  BY <1>3, <1>4, <1>5, <1>6

\* Elements of a kind are told apart by their ids.
LEMMA IdsAreUnique ==
    ASSUME LoadInputs, NEW k, NEW x \in Elements(k), NEW y \in Elements(k), x.id = y.id
    PROVE  x = y
<1>1. PICK i \in DOMAIN file : file[i] = x
  BY DEF Elements, Range
<1>2. PICK j \in DOMAIN file : file[j] = y
  BY DEF Elements, Range
<1>3. file[i].kind = file[j].kind
  BY <1>1, <1>2 DEF Elements
<1>4. i = j
  BY <1>1, <1>2, <1>3, FileAssumption DEF LoadInputs
<1> QED
  BY <1>1, <1>2, <1>4

LEMMA TypesOfCall ==
    ASSUME LoadInputs
    PROVE  /\ call.types \in Seq(NetworkType) /\ Len(call.types) \in Nat \ {0}
           /\ DOMAIN call.types = 1 .. Len(call.types)
           /\ Range(call.types) \subseteq NetworkType
           /\ type \in NetworkType
<1>1. call.types \in Seq(NetworkType) /\ call.types # << >>
  BY CallAssumption DEF LoadInputs
<1>2. Range(call.types) \subseteq NetworkType
  BY <1>1 DEF Range
<1> QED
  BY <1>1, <1>2 DEF LoadInputs

\* When the file is read, everything is.
LEMMA AllRead ==
    ASSUME LoadInputs, pos = Len(file), NEW k
    PROVE  ReadSoFar(k) = Elements(k)
BY FileIsSequence DEF ReadSoFar, Elements, Range

LEMMA ChosenAreWays == Chosen \subseteq Elements("way")
BY DEF Chosen, Kept

----------------------------------------------------------------------------
(* The two filters.                                                        *)

\* A search for a pattern finds the values that equal it (overpass.rs:23-65).
LEMMA ExcludedAreSearched ==
    ASSUME NEW t \in NetworkType
    PROVE  \A k \in DOMAIN Excluded(t) :
             k \in DOMAIN Patterns(t) /\ Excluded(t)[k] \subseteq Patterns(t)[k]
BY DEF NetworkType, Excluded, Patterns

LEMMA SelectedPass ==
    ASSUME LoadInputs, NEW w, QuerySelects(w.tags, type)
    PROVE  way_passes_road_filter(w.tags, type)
<1>1. type \in NetworkType
  BY TypesOfCall
<1>2. "area" \in DOMAIN Patterns(type) /\ "yes" \in Patterns(type)["area"]
  BY <1>1 DEF NetworkType, Patterns
<1>3. type \in {"walk", "bike"} =>
        "highway" \in DOMAIN Patterns(type) /\ "motor" \in Patterns(type)["highway"]
  BY DEF Patterns
<1>4. /\ "highway" \in DOMAIN w.tags
      /\ \A k \in DOMAIN Patterns(type) \cap DOMAIN w.tags :
           \A p \in Patterns(type)[k] : w.tags[k] # p /\ <<p, w.tags[k]>> \notin Within
  BY DEF QuerySelects, Found
<1>5. "area" \in DOMAIN w.tags => w.tags["area"] # "yes"
  BY <1>2, <1>4
<1>6. \A k \in DOMAIN Excluded(type) \cap DOMAIN w.tags :
        w.tags[k] \notin Excluded(type)[k]
  BY <1>1, <1>4, ExcludedAreSearched
<1>7. type \in {"walk", "bike"} => ~StartsWith(w.tags["highway"], "motor")
  BY <1>3, <1>4, WithinAssumption DEF StartsWith
<1> QED
  BY <1>4, <1>5, <1>6, <1>7 DEF way_passes_road_filter

----------------------------------------------------------------------------
(* The edges of a stretch.                                                 *)

EdgeOf(w, x, y) ==
    [from |-> x, to |-> y, way |-> w.id,
     length |-> calculate_distance(x, y), speed |-> way_speed_kph(w.tags)]

LEMMA SpeedIsPositive ==
    ASSUME NEW tags
    PROVE  way_speed_kph(tags) \in Speed
<1>1. \A k \in DOMAIN HighwaySpeed : HighwaySpeed[k] \in Nat \ {0}
  BY DEF HighwaySpeed
<1>2. CASE HasMaxspeed(tags)
  <2>1. NumericPrefix[tags["maxspeed"]] \in Nat \ {0}
    BY <1>2, MaxspeedAssumption DEF HasMaxspeed, Tag
  <2> DEFINE v == NumericPrefix[tags["maxspeed"]]
  <2>2. v * 160934 \in Nat \ {0} /\ v * 100000 \in Nat \ {0}
    BY <2>1
  <2> QED
    BY <1>2, <2>2 DEF way_speed_kph, Kph, Speed
<1>3. CASE ~HasMaxspeed(tags) /\ Tag(tags, "highway", DOMAIN HighwaySpeed)
  <2> DEFINE v == HighwaySpeed[tags["highway"]]
  <2>1. v \in Nat \ {0}
    BY <1>1, <1>3 DEF Tag
  <2> HIDE DEF v
  <2>2. v * 100000 \in Nat \ {0}
    BY <2>1
  <2>3. way_speed_kph(tags) = v * 100000
    BY <1>3 DEF way_speed_kph, Kph, v
  <2> QED
    BY <2>2, <2>3 DEF Speed
<1>4. CASE ~HasMaxspeed(tags) /\ ~Tag(tags, "highway", DOMAIN HighwaySpeed)
  BY <1>4 DEF way_speed_kph, Kph, Speed
<1> QED
  BY <1>2, <1>3, <1>4

\* Every edge has a length and a positive speed.
LEMMA EdgeIsRecord ==
    ASSUME Data, NEW w \in Elements("way"), NEW x \in DOMAIN nodes, NEW y \in DOMAIN nodes
    PROVE  EdgeOf(w, x, y) \in EdgeRecord
<1>1. calculate_distance(x, y) \in Nat
  BY DEF calculate_distance, Data
<1>2. w.id \in WayIds
  BY DEF WayIds
<1> QED
  BY <1>1, <1>2, SpeedIsPositive DEF EdgeOf, EdgeRecord

LEMMA TupleRange ==
    \A a, b : Range(<<a, b>>) = {a, b} /\ Range(<<a>>) = {a}
<1> TAKE a, b
<1>1. DOMAIN <<a, b>> = {1, 2} /\ DOMAIN <<a>> = {1}
  OBVIOUS
<1>2. <<a, b>>[1] = a /\ <<a, b>>[2] = b /\ <<a>>[1] = a
  OBVIOUS
<1> QED
  BY <1>1, <1>2 DEF Range

\* The directions of a stretch (graph.rs:236-295).
LEMMA PairEdgesAre ==
    ASSUME NEW w, NEW x, NEW y
    PROVE  LET d == assess_path_directionality(w.tags)
               P == PairEdges(w, x, y)
           IN  /\ P \in Seq({EdgeOf(w, x, y), EdgeOf(w, y, x)})
               /\ \A e : e \in Range(P) <=>
                    \/ e = EdgeOf(w, x, y) /\ (type = "walk" \/ d # "reverse")
                    \/ e = EdgeOf(w, y, x) /\ (type = "walk" \/ d # "forward")
<1> DEFINE d == assess_path_directionality(w.tags)
           P == PairEdges(w, x, y)
           F == EdgeOf(w, x, y)
           B == EdgeOf(w, y, x)
<1>1. d \in {"reverse", "forward", "both"}
  BY DEF assess_path_directionality
<1>2. P = IF d = "reverse" THEN IF type = "walk" THEN <<B, F>> ELSE <<B>>
          ELSE IF d = "forward" /\ type # "walk" THEN <<F>> ELSE <<F, B>>
  BY <1>1 DEF PairEdges, EdgeOf
<1> HIDE DEF d, P, F, B
<1>3. /\ Range(<<B, F>>) = {B, F} /\ Range(<<F, B>>) = {F, B}
      /\ Range(<<F>>) = {F} /\ Range(<<B>>) = {B}
  BY TupleRange
<1>4. P \in Seq({F, B})
  <2>1. <<B, F>> \in Seq({F, B}) /\ <<F, B>> \in Seq({F, B})
    OBVIOUS
  <2>2. <<F>> \in Seq({F, B}) /\ <<B>> \in Seq({F, B})
    OBVIOUS
  <2> QED
    BY <1>2, <2>1, <2>2
<1>5. \A e : e \in Range(P) <=>
        \/ e = F /\ (type = "walk" \/ d # "reverse")
        \/ e = B /\ (type = "walk" \/ d # "forward")
  BY <1>1, <1>2, <1>3
<1> QED
  BY <1>4, <1>5 DEF d, P, F, B

----------------------------------------------------------------------------
(* What FlattenSeq makes of a list of lists.                               *)

\* f[k] holds the first k of the lists, one after the other.
Joins(s, k, f) ==
    /\ f[1] = s[1]
    /\ \A j \in 2 .. k : f[j] = f[j - 1] \o s[j]

\* t has the elements of the n lists.
Collects(t, n, s) == \A x : x \in Range(t) <=> \E i \in 1 .. n : x \in Range(s[i])

LEMMA JoinsExists ==
    ASSUME NEW s, NEW k \in Nat \ {0}
    PROVE  \E f : Joins(s, k, f)
<1> DEFINE T == {j \in Nat \ {0} : ~\E f : Joins(s, j, f)}
<1>1. SUFFICES ASSUME T # {} PROVE FALSE
  OBVIOUS
<1> HIDE DEF T
<1>2. PICK m \in T : \A j \in T : m <= j
  <2>1. T \in SUBSET Nat
    BY DEF T
  <2> QED
    BY <1>1, <2>1, LeastElement
<1>3. m \in Nat \ {0} /\ ~\E f : Joins(s, m, f)
  BY DEF T
<1>4. CASE m = 1
  <2> DEFINE f == [j \in {1} |-> s[1]]
  <2>1. Joins(s, 1, f)
    BY DEF Joins
  <2> QED
    BY <1>3, <1>4, <2>1
<1>5. CASE m # 1
  <2>1. m - 1 \in Nat \ {0} /\ ~(m <= m - 1) /\ (m - 1) + 1 = m
    BY <1>3, <1>5
  <2>2. PICK g : Joins(s, m - 1, g)
    BY <1>2, <2>1 DEF T
  <2> DEFINE f == [j \in 1 .. m |-> IF j = m THEN g[m - 1] \o s[m] ELSE g[j]]
  <2>3. f[1] = s[1]
    BY <1>3, <1>5, <2>2 DEF Joins
  <2>4. ASSUME NEW j \in 2 .. m PROVE f[j] = f[j - 1] \o s[j]
    <3>1. j - 1 \in 1 .. m /\ j - 1 # m /\ f[j - 1] = g[j - 1] /\ j \in 1 .. m
      BY <1>3
    <3>2. CASE j = m
      BY <3>1, <3>2
    <3>3. CASE j # m
      <4>1. j \in 2 .. m - 1
        BY <1>3, <3>3
      <4>2. g[j] = g[j - 1] \o s[j]
        BY <2>2, <4>1 DEF Joins
      <4> QED
        BY <3>1, <3>3, <4>2
    <3> QED
      BY <3>2, <3>3
  <2> HIDE DEF f
  <2>5. Joins(s, m, f)
    BY <2>3, <2>4 DEF Joins
  <2> QED
    BY <1>3, <2>5
<1> QED
  BY <1>4, <1>5

\* Joining sequences over a set gives one whose elements are those of the parts.
LEMMA JoinedRange ==
    ASSUME NEW E, NEW n \in Nat \ {0}, NEW s \in [1 .. n -> Seq(E)], NEW f,
           Joins(s, n, f)
    PROVE  f[n] \in Seq(E) /\ Collects(f[n], n, s)
<1> DEFINE Good(k) == f[k] \in Seq(E) /\ Collects(f[k], k, s)
           T == {k \in 1 .. n : ~Good(k)}
<1> HIDE DEF Good
<1>1. SUFFICES ASSUME T # {} PROVE FALSE
  <2>1. n \in 1 .. n
    OBVIOUS
  <2>2. ASSUME T = {} PROVE Good(n)
    BY <2>1, <2>2
  <2> QED
    BY <2>2 DEF Good
<1>2. PICK m \in T : \A j \in T : m <= j
  <2>1. T \in SUBSET Nat
    OBVIOUS
  <2> HIDE DEF T
  <2> QED
    BY <1>1, <2>1, LeastElement
<1>3. m \in 1 .. n /\ ~Good(m)
  OBVIOUS
<1>4. CASE m = 1
  <2>1. f[1] = s[1] /\ s[1] \in Seq(E)
    BY DEF Joins
  <2>2. \A i : i \in 1 .. 1 <=> i = 1
    OBVIOUS
  <2> QED
    BY <1>3, <1>4, <2>1, <2>2 DEF Good, Collects
<1>5. CASE m # 1
  <2>1. m - 1 \in 1 .. n /\ m \in 2 .. n /\ ~(m <= m - 1)
    BY <1>3, <1>5
  <2>2. Good(m - 1)
    BY <1>2, <2>1
  <2>3. f[m] = f[m - 1] \o s[m]
    BY <2>1 DEF Joins
  <2>4. f[m - 1] \in Seq(E) /\ s[m] \in Seq(E)
    BY <2>1, <2>2 DEF Good
  <2>5. f[m] \in Seq(E)
    BY <2>3, <2>4
  <2>6. \A x : x \in Range(f[m]) <=> x \in Range(f[m - 1]) \/ x \in Range(s[m])
    BY <2>3, <2>4, RangeConcatenation
  <2>7. \A x : x \in Range(f[m - 1]) <=> \E i \in 1 .. m - 1 : x \in Range(s[i])
    BY <2>2 DEF Good, Collects
  <2>8. \A i : i \in 1 .. m <=> i \in 1 .. m - 1 \/ i = m
    BY <1>3
  <2>9. \A x : x \in Range(f[m]) <=> \E i \in 1 .. m : x \in Range(s[i])
    BY <2>6, <2>7, <2>8
  <2> QED
    BY <1>3, <2>5, <2>9 DEF Good, Collects
<1> QED
  BY <1>4, <1>5

LEMMA Flattened ==
    ASSUME NEW E, NEW n \in Nat, NEW s \in [1 .. n -> Seq(E)]
    PROVE  FlattenSeq(s) \in Seq(E) /\ Collects(FlattenSeq(s), n, s)
<1>1. Len(s) = n /\ s \in Seq(Seq(E))
  OBVIOUS
<1>2. CASE n = 0
  <2>1. FlattenSeq(s) = s /\ s = << >>
    BY <1>1, <1>2 DEF FlattenSeq
  <2>2. Range(s) = {}
    BY <2>1 DEF Range
  <2> QED
    BY <1>2, <2>1, <2>2 DEF Collects
<1>3. CASE n # 0
  <2> DEFINE Body(f) == [i \in 1 .. n |-> IF i = 1 THEN s[i] ELSE f[i - 1] \o s[i]]
             F == CHOOSE f : f = Body(f)
  <2>1. \E f : f = Body(f)
    <3>1. PICK g : Joins(s, n, g)
      BY <1>3, JoinsExists
    <3> DEFINE f == [i \in 1 .. n |-> g[i]]
    <3>2. ASSUME NEW i \in 1 .. n
          PROVE  f[i] = IF i = 1 THEN s[i] ELSE f[i - 1] \o s[i]
      <4>1. CASE i = 1
        BY <3>1, <4>1 DEF Joins
      <4>2. CASE i # 1
        <5>1. i \in 2 .. n /\ i - 1 \in 1 .. n
          BY <4>2
        <5> QED
          BY <3>1, <4>2, <5>1 DEF Joins
      <4> QED
        BY <4>1, <4>2
    <3>3. f = Body(f)
      BY <3>2
    <3> QED
      BY <3>3
  <2>2. F = Body(F)
    BY <2>1
  <2>3. FlattenSeq(s) = F[n]
    BY <1>1, <1>3 DEF FlattenSeq
  <2> HIDE DEF F
  <2>4. \A i \in 1 .. n : F[i] = IF i = 1 THEN s[i] ELSE F[i - 1] \o s[i]
    BY <2>2
  <2>5. Joins(s, n, F)
    <3>1. F[1] = s[1]
      BY <1>3, <2>4
    <3>2. ASSUME NEW j \in 2 .. n PROVE F[j] = F[j - 1] \o s[j]
      <4>1. j \in 1 .. n /\ j # 1
        OBVIOUS
      <4> QED
        BY <2>4, <4>1
    <3> QED
      BY <3>1, <3>2 DEF Joins
  <2>6. n \in Nat \ {0}
    BY <1>3
  <2>7. F[n] \in Seq(E) /\ Collects(F[n], n, s)
    BY <2>5, <2>6, JoinedRange
  <2> QED
    BY <2>3, <2>7
<1> QED
  BY <1>2, <1>3

----------------------------------------------------------------------------
(* The invariant holds at first and is kept.                               *)

LEMMA InitLoad ==
    ASSUME LoadInit
    PROVE  LoadInv
<1>1. call.types \in Seq(NetworkType) /\ call.types # << >>
  BY CallAssumption DEF LoadInit
<1>2. 1 \in DOMAIN call.types /\ call.types[1] \in Range(call.types)
  BY <1>1 DEF Range
<1>3. LoadInputs
  BY <1>2 DEF LoadInit, LoadInputs
<1>4. Len(file) \in Nat /\ pos = 0
  BY <1>3, FileIsSequence DEF LoadInit
<1>5. ReadSoFar("node") = {} /\ ReadSoFar("way") = {}
  BY <1>4 DEF ReadSoFar
<1>6. DOMAIN << >> = {} /\ Range(<< >>) = {}
  BY DEF Range
<1>7. Reader
  BY <1>4, <1>5, <1>6 DEF Reader, LoadInit
<1>8. Data
  BY <1>6 DEF Data, LoadInit
<1>9. LoadEdges
  BY <1>6 DEF LoadEdges, LoadInit
<1>10. PanicsOnlyOnClippedWays
  BY DEF PanicsOnlyOnClippedWays, LoadInit
<1> QED
  BY <1>3, <1>7, <1>8, <1>9, <1>10 DEF LoadInv

\* What depends on the file and the call only.
LEMMA SameInput ==
    ASSUME UNCHANGED given
    PROVE  /\ Elements("node")' = Elements("node") /\ Elements("way")' = Elements("way")
           /\ NodeIds' = NodeIds /\ WayIds' = WayIds
           /\ FromFile' = FromFile
           /\ \A t : Kept(t)' = Kept(t)
           /\ type' = type => Chosen' = Chosen
BY DEF given, Elements, NodeIds, WayIds, FromFile, Kept, Chosen

LEMMA SameStretches ==
    ASSUME UNCHANGED <<given, type, nodes>>
    PROVE  /\ EdgeRecord' = EdgeRecord
           /\ \A w, i : Stretch(w, i)' = Stretch(w, i)
<1>1. type' = type /\ nodes' = nodes /\ WayIds' = WayIds
  BY SameInput
<1>2. \A x, y : calculate_distance(x, y)' = calculate_distance(x, y)
  BY <1>1 DEF calculate_distance
<1>3. \A w, x, y : PairEdges(w, x, y)' = PairEdges(w, x, y)
  BY <1>1, <1>2 DEF PairEdges
<1>4. \A w, i : Stretch(w, i)' = Stretch(w, i)
  BY <1>3 DEF Stretch
<1> QED
  BY <1>1, <1>4 DEF EdgeRecord, Speed

\* Reading changes nothing of the graph.
LEMMA ReadingKeepsGraph ==
    ASSUME Data, LoadEdges, UNCHANGED <<given, graph, poiSnaps, stage>>
    PROVE  Data' /\ LoadEdges'
<1> USE DEF graph
<1>1. Chosen' = Chosen /\ NodeIds' = NodeIds
  BY SameInput
<1>2. EdgeRecord' = EdgeRecord /\ \A w, i : Stretch(w, i)' = Stretch(w, i)
  BY SameStretches
<1>3. Data'
  BY <1>1 DEF Data, given, Refs
<1>4. LoadEdges'
  BY <1>1, <1>2 DEF LoadEdges, given
<1> QED
  BY <1>3, <1>4

LEMMA ReadNodeInv ==
    ASSUME LoadInv, NEW e \in Range(file), ReadNode(e)
    PROVE  LoadInv'
<1> USE DEF LoadInv
<1>1. UNCHANGED <<given, roads, graph, poiSnaps, stage>> /\ pos < Len(file)
      /\ e = file[pos + 1] /\ e.kind = "node" /\ pos' = pos + 1
      /\ allNodes' = Bind(allNodes, e.id, e.at)
      /\ poiIds' = PoisWith(e)
  BY DEF ReadNode
<1>2. LoadInputs'
  BY <1>1 DEF LoadInputs, given, graph
<1>3. Data' /\ LoadEdges'
  BY <1>1, ReadingKeepsGraph
<1>4. ReadSoFar("node")' = ReadSoFar("node") \cup {e}
  BY <1>1, FileIsSequence DEF ReadSoFar, given, Reader
<1>5. ReadSoFar("way")' = ReadSoFar("way")
  BY <1>1, FileIsSequence DEF ReadSoFar, given, Reader
<1>6. e \in Elements("node")
  BY <1>1 DEF Elements
<1>7. e.at \in Int
  BY <1>6, FileIsSequence
<1>8. /\ DOMAIN allNodes' = DOMAIN allNodes \cup {e.id}
      /\ \A n \in DOMAIN allNodes' : allNodes'[n] = IF n = e.id THEN e.at ELSE allNodes[n]
  BY <1>1 DEF Bind
<1>9. DOMAIN allNodes' = {n.id : n \in ReadSoFar("node")'}
  BY <1>4, <1>8 DEF Reader
<1>10. \A n \in DOMAIN allNodes' : allNodes'[n] \in Int
  BY <1>7, <1>8 DEF Reader
<1>11. poiIds' \subseteq DOMAIN allNodes'
  BY <1>1, <1>8 DEF Reader, PoisWith
<1>12. pos' \in 0 .. Len(file')
  BY <1>1, FileIsSequence DEF Reader, given
<1>13. /\ DOMAIN roads' = Range(call'.types)
       /\ \A t \in DOMAIN roads' :
            /\ roads'[t] \in Seq(Elements("way")')
            /\ Range(roads'[t]) =
                 {w \in ReadSoFar("way")' : way_passes_road_filter(w.tags, t)}
  BY <1>1, <1>5, SameInput DEF Reader, given
<1>14. Reader'
  BY <1>9, <1>10, <1>11, <1>12, <1>13 DEF Reader
<1>15. PanicsOnlyOnClippedWays'
  BY <1>1, <1>6 DEF PanicsOnlyOnClippedWays, ReadNode
<1> QED
  BY <1>2, <1>3, <1>14, <1>15

LEMMA ReadWayInv ==
    ASSUME LoadInv, NEW e \in Range(file), ReadWay(e)
    PROVE  LoadInv'
<1> USE DEF LoadInv
<1>1. UNCHANGED <<given, allNodes, poiIds, graph, poiSnaps, stage>> /\ pos < Len(file)
      /\ e = file[pos + 1] /\ e.kind = "way" /\ pos' = pos + 1
      /\ roads' = [t \in DOMAIN roads |-> RoadsWith(e, t)] /\ stage = "read"
  BY DEF ReadWay
<1>2. LoadInputs'
  BY <1>1 DEF LoadInputs, given, graph
<1>3. Data' /\ LoadEdges'
  BY <1>1, ReadingKeepsGraph
<1>4. ReadSoFar("way")' = ReadSoFar("way") \cup {e}
  BY <1>1, FileIsSequence DEF ReadSoFar, given, Reader
<1>5. ReadSoFar("node")' = ReadSoFar("node")
  BY <1>1, FileIsSequence DEF ReadSoFar, given, Reader
<1>6. e \in Elements("way")
  BY <1>1 DEF Elements
<1>7. ASSUME NEW t \in DOMAIN roads
      PROVE  /\ RoadsWith(e, t) \in Seq(Elements("way"))
             /\ Range(RoadsWith(e, t)) =
                  {w \in ReadSoFar("way") \cup {e} : way_passes_road_filter(w.tags, t)}
  <2> DEFINE Asked(i) == call.types[i] = t /\ way_passes_road_filter(e.tags, t)
             n == Len(call.types)
             s == [i \in DOMAIN call.types |-> IF Asked(i) THEN <<e>> ELSE << >>]
  <2>1. RoadsWith(e, t) = roads[t] \o FlattenSeq(s)
    BY DEF RoadsWith
  <2>2. n \in Nat \ {0} /\ DOMAIN call.types = 1 .. n
    BY TypesOfCall
  <2>3. PICK k \in 1 .. n : call.types[k] = t
    BY <2>2 DEF Reader, Range
  <2>4. <<e>> \in Seq(Elements("way")) /\ << >> \in Seq(Elements("way"))
    BY <1>6
  <2>5. s \in [1 .. n -> Seq(Elements("way"))]
    BY <2>2, <2>4
  <2>6. \A i \in 1 .. n : s[i] = IF Asked(i) THEN <<e>> ELSE << >>
    BY <2>2
  <2> HIDE DEF s, n
  <2>7. FlattenSeq(s) \in Seq(Elements("way")) /\ Collects(FlattenSeq(s), n, s)
    BY <2>2, <2>5, Flattened
  <2>8. Range(<<e>>) = {e} /\ Range(<< >>) = {}
    BY TupleRange DEF Range
  <2>9. \A i \in 1 .. n : Range(s[i]) = IF Asked(i) THEN {e} ELSE {}
    BY <2>6, <2>8
  <2>10. Range(FlattenSeq(s)) = IF way_passes_road_filter(e.tags, t) THEN {e} ELSE {}
    BY <2>3, <2>7, <2>9 DEF Collects
  <2>11. roads[t] \in Seq(Elements("way"))
    BY DEF Reader
  <2>12. Range(RoadsWith(e, t)) = Range(roads[t]) \cup Range(FlattenSeq(s))
    BY <2>1, <2>7, <2>11, RangeConcatenation
  <2>13. RoadsWith(e, t) \in Seq(Elements("way"))
    BY <2>1, <2>7, <2>11
  <2>14. Range(roads[t]) = {w \in ReadSoFar("way") : way_passes_road_filter(w.tags, t)}
    BY DEF Reader
  <2> QED
    BY <2>10, <2>12, <2>13, <2>14
<1>8. pos' \in 0 .. Len(file')
  BY <1>1, FileIsSequence DEF Reader, given
<1>9. /\ DOMAIN roads' = Range(call'.types)
      /\ \A t \in DOMAIN roads' :
           /\ roads'[t] \in Seq(Elements("way")')
           /\ Range(roads'[t]) =
                {w \in ReadSoFar("way")' : way_passes_road_filter(w.tags, t)}
  BY <1>1, <1>4, <1>7, SameInput DEF Reader, given
<1>10. Reader'
  BY <1>1, <1>5, <1>8, <1>9 DEF Reader
<1>11. PanicsOnlyOnClippedWays'
  BY <1>1 DEF PanicsOnlyOnClippedWays
<1> QED
  BY <1>2, <1>3, <1>10, <1>11

\* The graph is about to be built of all the chosen ways.
LEMMA StartsBuilding ==
    ASSUME LoadInputs, LoadEdges, UNCHANGED <<given, reading, edges, poiSnaps>>,
           stage = "read", Data, Reader,
           type' \in Range(call.types), stage' \in {"build", "error"},
           ways' \in Seq(Chosen'), Range(ways') = Chosen',
           \A n \in DOMAIN nodes' : nodes'[n] \in Int,
           DOMAIN nodes' = IF call.reader = "from_osm" THEN NodeIds
                           ELSE NodeIds \cap Refs(Chosen')
    PROVE  LoadInv'
<1> USE DEF given, reading
<1>1. LoadInputs'
  BY DEF LoadInputs
<1>2. Reader'
  BY SameInput DEF Reader, ReadSoFar
<1>3. Data'
  BY SameInput DEF Data, Refs
<1>4. edges' = << >> /\ Range(edges') = {}
  BY DEF LoadEdges, Range
<1>5. LoadEdges'
  BY <1>4 DEF LoadEdges
<1>6. PanicsOnlyOnClippedWays'
  BY DEF PanicsOnlyOnClippedWays
<1> QED
  BY <1>1, <1>2, <1>3, <1>5, <1>6 DEF LoadInv

LEMMA EmitInv ==
    ASSUME LoadInv, NEW t \in DOMAIN roads, Emit(t)
    PROVE  LoadInv'
<1> USE DEF LoadInv
<1>1. /\ stage = "read" /\ FromFile /\ pos = Len(file) /\ type' = t /\ ways' = roads[t]
      /\ nodes' = [n \in Needed(Range(roads[t])) |-> allNodes[n]]
      /\ stage' = "build" /\ UNCHANGED <<given, reading, edges, poiSnaps>>
  BY DEF Emit
<1>2. Chosen' = Kept(t)
  BY <1>1, SameInput DEF Chosen
<1>3. ReadSoFar("way") = Elements("way") /\ ReadSoFar("node") = Elements("node")
  BY <1>1, AllRead
<1>4. Range(roads[t]) = Kept(t)
  BY <1>3 DEF Reader, Kept
<1>5. ways' \in Seq(Chosen')
  BY <1>1, <1>2, <1>4, SeqOfRange DEF Reader
<1>6. DOMAIN nodes' = NodeIds \cap Refs(Chosen')
  BY <1>1, <1>2, <1>3, <1>4 DEF Needed, Reader, NodeIds
<1>7. \A n \in DOMAIN nodes' : nodes'[n] \in Int
  BY <1>1 DEF Needed, Reader
<1>8. call.reader # "from_osm" /\ t \in Range(call.types)
  BY <1>1 DEF FromFile, Reader
<1> QED
  BY <1>1, <1>2, <1>4, <1>5, <1>6, <1>7, <1>8, StartsBuilding

LEMMA ParseInv ==
    ASSUME LoadInv, Parse
    PROVE  LoadInv'
<1> USE DEF LoadInv
<1> DEFINE Sent(e) == e.kind = "way" /\ (call.reader = "overpass" => QuerySelects(e.tags, type))
           s == [i \in DOMAIN file |-> IF Sent(file[i]) THEN <<file[i]>> ELSE << >>]
           sent == FlattenSeq(s)
           held == {e \in Elements("node") :
                      call.reader = "overpass" => e.id \in Refs(Range(sent))}
           n == Len(file)
<1>1. /\ stage = "read" /\ ~FromFile /\ ways' = sent
      /\ nodes' = [m \in {e.id : e \in held} |-> (CHOOSE e \in held : e.id = m).at]
      /\ stage' \in {"build", "error"}
      /\ UNCHANGED <<given, reading, type, edges, poiSnaps>>
  BY DEF Parse
<1>2. n \in Nat /\ DOMAIN file = 1 .. n
  BY FileIsSequence
<1>3. Chosen' = Chosen
  BY <1>1, SameInput
<1>4. \A x : x \in Chosen <=> \E i \in 1 .. n : x = file[i] /\ Sent(file[i])
  BY <1>1, <1>2 DEF Chosen, Elements, Range
<1>5. s \in [1 .. n -> Seq(Chosen)]
  <2>1. ASSUME NEW i \in 1 .. n PROVE s[i] \in Seq(Chosen)
    <3>1. CASE Sent(file[i])
      <4>1. file[i] \in Chosen
        BY <1>4, <3>1
      <4> QED
        BY <1>2, <3>1, <4>1
    <3>2. CASE ~Sent(file[i])
      BY <1>2, <3>2
    <3> QED
      BY <3>1, <3>2
  <2> QED
    BY <1>2, <2>1
<1>6. \A i \in 1 .. n : s[i] = IF Sent(file[i]) THEN <<file[i]>> ELSE << >>
  BY <1>2
<1> HIDE DEF s, n, Sent
<1>7. sent \in Seq(Chosen) /\ Collects(sent, n, s)
  BY <1>2, <1>5, Flattened
<1>8. \A i \in 1 .. n : Range(s[i]) = IF Sent(file[i]) THEN {file[i]} ELSE {}
  <2>1. Range(<< >>) = {} /\ \A x : Range(<<x>>) = {x}
    BY TupleRange DEF Range
  <2> QED
    BY <1>6, <2>1
<1> HIDE DEF sent
<1>9. Range(sent) = Chosen
  <2>1. \A x : x \in Range(sent) <=> \E i \in 1 .. n : x \in Range(s[i])
    BY <1>7 DEF Collects
  <2>2. \A x : x \in Range(sent) <=> x \in Chosen
    <3> TAKE x
    <3>1. (\E i \in 1 .. n : x \in Range(s[i])) <=>
            \E i \in 1 .. n : x = file[i] /\ Sent(file[i])
      BY <1>8
    <3> QED
      BY <1>4, <2>1, <3>1
  <2> QED
    BY <2>2
<1>10. held = {e \in Elements("node") : call.reader = "overpass" => e.id \in Refs(Chosen)}
  BY <1>9
<1>11. call.reader \in {"from_osm", "overpass"}
  BY <1>1, CallAssumption DEF LoadInputs, FromFile
<1>12. {e.id : e \in held} =
         IF call.reader = "from_osm" THEN NodeIds ELSE NodeIds \cap Refs(Chosen)
  BY <1>10, <1>11 DEF NodeIds
<1>13. ASSUME NEW m \in {e.id : e \in held}
       PROVE  (CHOOSE e \in held : e.id = m).at \in Int
  <2>1. (CHOOSE e \in held : e.id = m) \in held
    OBVIOUS
  <2> QED
    BY <2>1, FileIsSequence
<1> HIDE DEF held
<1>14. \A m \in DOMAIN nodes' : nodes'[m] \in Int
  BY <1>1, <1>13
<1>15. DOMAIN nodes' = IF call.reader = "from_osm" THEN NodeIds
                       ELSE NodeIds \cap Refs(Chosen')
  BY <1>1, <1>3, <1>12
<1>16. type' \in Range(call.types) /\ ways' \in Seq(Chosen') /\ Range(ways') = Chosen'
  BY <1>1, <1>3, <1>7, <1>9 DEF LoadInputs
<1> QED
  BY <1>1, <1>14, <1>15, <1>16, StartsBuilding

LEMMA FailInv ==
    ASSUME LoadInv, Fail
    PROVE  LoadInv'
<1> USE DEF LoadInv
<1>1. stage = "read" /\ stage' = "error" /\ UNCHANGED <<given, reading, graph, poiSnaps>>
  BY DEF Fail
<1>2. LoadInputs'
  BY <1>1 DEF LoadInputs, given, graph
<1>3. Reader'
  <2>1. /\ file' = file /\ call' = call /\ pos' = pos /\ allNodes' = allNodes
        /\ poiIds' = poiIds /\ roads' = roads
    BY <1>1 DEF given, reading
  <2>2. \A k : ReadSoFar(k)' = ReadSoFar(k)
    BY <2>1 DEF ReadSoFar
  <2>3. Elements("way")' = Elements("way")
    BY <2>1 DEF Elements
  <2> QED
    BY <2>1, <2>2, <2>3 DEF Reader
<1>4. Data'
  BY <1>1 DEF Data, graph
<1>5. Chosen' = Chosen /\ EdgeRecord' = EdgeRecord /\ \A w, i : Stretch(w, i)' = Stretch(w, i)
  BY <1>1, SameInput, SameStretches DEF graph
<1>6. LoadEdges'
  BY <1>1, <1>5 DEF LoadEdges, graph
<1>7. PanicsOnlyOnClippedWays'
  BY <1>1 DEF PanicsOnlyOnClippedWays
<1> QED
  BY <1>2, <1>3, <1>4, <1>6, <1>7

\* The next way adds its stretches, or panics on a node that is missing.
LEMMA AddWayInv ==
    ASSUME LoadInv, AddWay
    PROVE  LoadInv'
<1> USE DEF LoadInv
<1> DEFINE w == Head(ways)
           pairs == [i \in 1 .. Len(w.refs) - 1 |-> PairEdges(w, w.refs[i], w.refs[i + 1])]
           n == IF Len(w.refs) = 0 THEN 0 ELSE Len(w.refs) - 1
           Clipped == Len(w.refs) > 1 /\ ~ Range(w.refs) \subseteq DOMAIN nodes
<1>1. /\ stage = "build" /\ ways # << >> /\ ways' = Tail(ways)
      /\ IF Clipped THEN stage' = "panic" /\ UNCHANGED edges
         ELSE edges' = edges \o FlattenSeq(pairs) /\ UNCHANGED stage
      /\ UNCHANGED <<given, reading, type, nodes, poiSnaps>>
  BY DEF AddWay
<1>2. ways \in Seq(Chosen)
  BY <1>1 DEF Data
<1>3. w \in Chosen /\ Tail(ways) \in Seq(Chosen)
  BY <1>1, <1>2
<1>4. w \in Elements("way") /\ Len(w.refs) \in Nat
  BY <1>3, ChosenAreWays, FileIsSequence
<1>5. Chosen' = Chosen /\ NodeIds' = NodeIds
  BY <1>1, SameInput
<1>6. EdgeRecord' = EdgeRecord /\ \A v, i : Stretch(v, i)' = Stretch(v, i)
  BY <1>1, SameStretches
<1>7. LoadInputs'
  BY <1>1 DEF LoadInputs, given
<1>8. Reader'
  BY <1>1, SameInput DEF Reader, ReadSoFar, given, reading
<1>9. Data'
  BY <1>1, <1>3, <1>5 DEF Data, given, Refs
<1>10. \A v \in Range(ways) : v = w \/ v \in Range(ways')
  <2>1. ASSUME NEW k \in 1 .. Len(ways) PROVE ways[k] = w \/ ways[k] \in Range(Tail(ways))
    <3>1. CASE k = 1
      BY <1>1, <1>2, <3>1
    <3>2. CASE k # 1
      <4>1. k - 1 \in 1 .. Len(Tail(ways)) /\ Tail(ways)[k - 1] = ways[k]
        BY <1>1, <1>2, <3>2
      <4>2. k - 1 \in DOMAIN Tail(ways)
        BY <1>3, <4>1
      <4> QED
        BY <4>1, <4>2 DEF Range
    <3> QED
      BY <3>1, <3>2
  <2>2. DOMAIN ways = 1 .. Len(ways)
    BY <1>2
  <2> HIDE DEF w
  <2> QED
    BY <1>1, <2>1, <2>2 DEF Range
<1>11. CASE Clipped
  <2>1. stage' = "panic" /\ edges' = edges
    BY <1>1, <1>11
  <2>2. LoadEdges'
    BY <1>5, <1>6, <2>1 DEF LoadEdges
  <2>3. PanicsOnlyOnClippedWays'
    <3>1. Refs(Chosen) = UNION {Range(v.refs) : v \in Chosen}
      BY DEF Refs
    <3>2. Range(w.refs) \subseteq Refs(Chosen)
      BY <1>3, <3>1
    <3>3. DOMAIN nodes = IF call.reader = "from_osm" THEN NodeIds
                         ELSE NodeIds \cap Refs(Chosen)
      BY <1>1 DEF Data
    <3>4. ~ Range(w.refs) \subseteq NodeIds /\ Len(w.refs) > 1
      BY <1>11, <3>2, <3>3
    <3>5. call.reader = "from_osm" \/ w \in Kept(type)
      <4>1. PICK v : v = w
        OBVIOUS
      <4>2. QuerySelects(v.tags, type) => way_passes_road_filter(v.tags, type)
        BY SelectedPass
      <4>3. v \in Chosen /\ v \in Elements("way")
        BY <1>3, <1>4, <4>1
      <4>4. call.reader # "overpass" /\ ~FromFile => call.reader = "from_osm"
        BY CallAssumption DEF LoadInputs, FromFile
      <4>5. call.reader = "from_osm" \/ v \in Kept(type)
        BY <4>2, <4>3, <4>4 DEF Chosen, Kept
      <4> QED
        BY <4>1, <4>5
    <3>6. call'.reader = call.reader /\ Kept(type)' = Kept(type)
      BY <1>1, SameInput DEF given
    <3>7. Elements("way")' = Elements("way") /\ NodeIds' = NodeIds
      BY <1>1, SameInput
    <3> HIDE DEF w
    <3> QED
      BY <1>4, <3>4, <3>5, <3>6, <3>7 DEF PanicsOnlyOnClippedWays, NodeIds
  <2> QED
    BY <1>7, <1>8, <1>9, <2>2, <2>3
<1>12. CASE ~Clipped
  <2>1. stage' = "build" /\ edges' = edges \o FlattenSeq(pairs)
    BY <1>1, <1>12
  <2>2. n \in Nat /\ 1 .. n = 1 .. Len(w.refs) - 1
    BY <1>4
  <2>3. \A i \in 1 .. n : pairs[i] = Stretch(w, i)
    BY <2>2 DEF Stretch
  <2>4. ASSUME NEW i \in 1 .. n PROVE pairs[i] \in Seq(EdgeRecord)
    <3>1. Len(w.refs) > 1
      BY <1>4
    <3>2. Range(w.refs) \subseteq DOMAIN nodes
      BY <1>12, <3>1
    <3>3. i \in DOMAIN w.refs /\ i + 1 \in DOMAIN w.refs
      BY <1>4, <2>2, FileIsSequence
    <3>4. w.refs[i] \in DOMAIN nodes /\ w.refs[i + 1] \in DOMAIN nodes
      BY <3>2, <3>3 DEF Range
    <3> DEFINE x == w.refs[i]
               y == w.refs[i + 1]
    <3>5. EdgeOf(w, x, y) \in EdgeRecord /\ EdgeOf(w, y, x) \in EdgeRecord
      BY <1>4, <3>4, EdgeIsRecord
    <3>6. pairs[i] \in Seq({EdgeOf(w, x, y), EdgeOf(w, y, x)})
      BY <2>3, PairEdgesAre DEF Stretch
    <3> QED
      BY <3>5, <3>6
  <2>5. pairs \in [1 .. n -> Seq(EdgeRecord)]
    BY <2>2, <2>4
  <2> HIDE DEF pairs, n
  <2>6. FlattenSeq(pairs) \in Seq(EdgeRecord) /\ Collects(FlattenSeq(pairs), n, pairs)
    BY <2>2, <2>5, Flattened
  <2>7. edges \in Seq(EdgeRecord)
    BY DEF LoadEdges
  <2>8. edges' \in Seq(EdgeRecord)
    BY <2>1, <2>6, <2>7
  <2>9. Range(edges') = Range(edges) \cup Range(FlattenSeq(pairs))
    BY <2>1, <2>6, <2>7, RangeConcatenation
  <2>10. \A e : e \in Range(FlattenSeq(pairs)) <=> \E i \in 1 .. n : e \in Range(pairs[i])
    BY <2>6 DEF Collects
  <2> HIDE DEF w
  <2>11. \A e \in Range(edges') : \E v \in Chosen : \E i \in 1 .. Len(v.refs) - 1 :
           e \in Range(Stretch(v, i))
    BY <1>3, <2>2, <2>3, <2>9, <2>10 DEF LoadEdges
  <2>12. \A i \in 1 .. Len(w.refs) - 1 : Range(Stretch(w, i)) \subseteq Range(edges')
    BY <2>2, <2>3, <2>9, <2>10
  <2>13. \A v \in Chosen : v \in Range(ways') \/ \A i \in 1 .. Len(v.refs) - 1 :
                                Range(Stretch(v, i)) \subseteq Range(edges')
    BY <1>1, <1>10, <2>9, <2>12 DEF LoadEdges
  <2>14. LoadEdges'
    BY <1>5, <1>6, <2>1, <2>8, <2>11, <2>13 DEF LoadEdges
  <2>15. PanicsOnlyOnClippedWays'
    BY <2>1 DEF PanicsOnlyOnClippedWays
  <2> QED
    BY <1>7, <1>8, <1>9, <2>14, <2>15
<1> QED
  BY <1>11, <1>12

\* The ways are done; then the index is built.
LEMMA BuiltInv ==
    ASSUME LoadInv, Built
    PROVE  LoadInv'
<1> USE DEF LoadInv
<1>1. /\ stage = "build" /\ ways = << >> /\ stage' \in {"index", "simplify"}
      /\ UNCHANGED <<given, reading, graph, poiSnaps>>
  BY DEF Built
<1>2. LoadInputs'
  BY <1>1 DEF LoadInputs, given, graph
<1>3. Reader'
  BY <1>1, SameInput DEF Reader, ReadSoFar, given, reading
<1>4. Chosen' = Chosen /\ EdgeRecord' = EdgeRecord /\ NodeIds' = NodeIds
      /\ \A w, i : Stretch(w, i)' = Stretch(w, i)
  BY <1>1, SameInput, SameStretches DEF graph
<1>5. Data'
  BY <1>1, <1>4 DEF Data, graph, given, Refs
<1>6. LoadEdges'
  BY <1>1, <1>4 DEF LoadEdges, graph
<1>7. PanicsOnlyOnClippedWays'
  BY <1>1 DEF PanicsOnlyOnClippedWays
<1> QED
  BY <1>2, <1>3, <1>5, <1>6, <1>7

LEMMA IndexInv ==
    ASSUME LoadInv, Index
    PROVE  LoadInv'
<1> USE DEF LoadInv
<1>1. stage = "index" /\ stage' = "done" /\ UNCHANGED <<given, reading, graph>>
  BY DEF Index
<1>2. LoadInputs'
  BY <1>1 DEF LoadInputs, given, graph
<1>3. Reader'
  BY <1>1, SameInput DEF Reader, ReadSoFar, given, reading
<1>4. Chosen' = Chosen /\ EdgeRecord' = EdgeRecord /\ NodeIds' = NodeIds
      /\ \A w, i : Stretch(w, i)' = Stretch(w, i)
  BY <1>1, SameInput, SameStretches DEF graph
<1>5. poiSnaps' # NoSnaps => Range(poiSnaps') \subseteq DOMAIN nodes
  BY DEF Index, Range
<1>6. Data'
  BY <1>1, <1>4, <1>5 DEF Data, graph, given, Refs
<1>7. LoadEdges'
  BY <1>1, <1>4 DEF LoadEdges, graph
<1>8. PanicsOnlyOnClippedWays'
  BY <1>1 DEF PanicsOnlyOnClippedWays
<1> QED
  BY <1>2, <1>3, <1>6, <1>7, <1>8

LEMMA StutterInv ==
    ASSUME LoadInv, UNCHANGED loadVars
    PROVE  LoadInv'
<1> USE DEF LoadInv
<1>1. UNCHANGED <<given, reading, graph, poiSnaps, stage>>
  BY DEF loadVars, given, reading, graph
<1>2. LoadInputs'
  BY <1>1 DEF LoadInputs, given, graph
<1>3. Reader'
  BY <1>1, SameInput DEF Reader, ReadSoFar, given, reading
<1>4. Data' /\ LoadEdges'
  BY <1>1, ReadingKeepsGraph
<1>5. PanicsOnlyOnClippedWays'
  BY <1>1, SameInput DEF PanicsOnlyOnClippedWays, NodeIds, given, graph
<1> QED
  BY <1>2, <1>3, <1>4, <1>5

\* What a load knows at each point: the reader holds what it has read, the graph
\* is built of the ways chosen and their nodes, and the edges are those of the
\* ways done (pbf.rs:40-168, graph.rs:186-308).
THEOREM LoadInvariance == LoadSpec => []LoadInv
<1>1. ASSUME LoadInv, [LoadNext]_loadVars PROVE LoadInv'
  <2>1. ASSUME NEW e \in Range(file), ReadNode(e) PROVE LoadInv'
    BY <1>1, <2>1, ReadNodeInv
  <2>2. ASSUME NEW e \in Range(file), ReadWay(e) PROVE LoadInv'
    BY <1>1, <2>2, ReadWayInv
  <2>3. ASSUME NEW t \in DOMAIN roads, Emit(t) PROVE LoadInv'
    BY <1>1, <2>3, EmitInv
  <2>4. CASE Parse
    BY <1>1, <2>4, ParseInv
  <2>5. CASE Fail
    BY <1>1, <2>5, FailInv
  <2>6. CASE AddWay
    BY <1>1, <2>6, AddWayInv
  <2>7. CASE Built
    BY <1>1, <2>7, BuiltInv
  <2>8. CASE Index
    BY <1>1, <2>8, IndexInv
  <2>9. CASE UNCHANGED loadVars
    BY <1>1, <2>9, StutterInv
  <2> QED
    BY <1>1, <2>1, <2>2, <2>3, <2>4, <2>5, <2>6, <2>7, <2>8, <2>9 DEF LoadNext
<1> QED
  BY <1>1, InitLoad, PTL DEF LoadSpec

----------------------------------------------------------------------------
(* What follows.                                                           *)

LEMMA LoadInvImpliesTypes == LoadInv => LoadTypeOK
<1> SUFFICES ASSUME LoadInv PROVE LoadTypeOK
  OBVIOUS
<1> USE DEF LoadInv
<1>1. \A i \in DOMAIN edges : edges[i] \in EdgeRecord
  BY DEF LoadEdges
<1>2. \A i \in DOMAIN edges :
        /\ {edges[i].from, edges[i].to} \subseteq DOMAIN nodes
        /\ edges[i].length \in Nat /\ edges[i].speed \in Nat
  BY <1>1 DEF EdgeRecord, Speed
<1>3. DOMAIN allNodes \subseteq {n.id : n \in Elements("node")}
  <2>1. ReadSoFar("node") \subseteq Elements("node")
    BY FileIsSequence DEF ReadSoFar, Elements, Range, Reader
  <2> QED
    BY <2>1 DEF Reader
<1>4. \A t \in DOMAIN roads : Range(roads[t]) \subseteq Elements("way")
  BY RangeOfSeq DEF Reader
<1> QED
  BY <1>2, <1>3, <1>4, TypesOfCall DEF LoadTypeOK, Reader, Data, LoadInputs

LEMMA LoadInvImpliesUsable == LoadInv => EdgesUsable
<1> SUFFICES ASSUME LoadInv, NEW e \in Range(edges), NEW t \in NetworkType
             PROVE  travel_time(e, t) # Infinite
  BY DEF EdgesUsable
<1>1. e \in EdgeRecord
  BY RangeOfSeq DEF LoadInv, LoadEdges
<1>2. e.length \in Nat /\ e.speed \in Nat \ {0}
  BY <1>1 DEF EdgeRecord, Speed
<1>3. ASSUME NEW s \in Nat \ {0} PROVE calculate_travel_time(e.length, s) # Infinite
  BY <1>2 DEF calculate_travel_time, Infinite
<1>4. 5 * Kph \in Nat \ {0} /\ 15 * Kph \in Nat \ {0}
  BY DEF Kph
<1> QED
  BY <1>2, <1>3, <1>4 DEF travel_time

\* The directions in which a stretch can be travelled.
Directed(w, i) ==
    \A a, b : (\E e \in Range(Stretch(w, i)) : e.from = a /\ e.to = b) <=>
        \/ /\ a = w.refs[i] /\ b = w.refs[i + 1]
           /\ type = "walk" \/ assess_path_directionality(w.tags) # "reverse"
        \/ /\ a = w.refs[i + 1] /\ b = w.refs[i]
           /\ type = "walk" \/ assess_path_directionality(w.tags) # "forward"

\* A stretch has an edge, and only edges between its two nodes.
LEMMA StretchEdges ==
    ASSUME NEW w, NEW i
    PROVE  LET x == w.refs[i]
               y == w.refs[i + 1]
           IN  /\ \A e \in Range(Stretch(w, i)) :
                    e.way = w.id /\ ((e.from = x /\ e.to = y) \/ (e.from = y /\ e.to = x))
               /\ \E e \in Range(Stretch(w, i)) : TRUE
               /\ Directed(w, i)
<1> DEFINE x == w.refs[i]
           y == w.refs[i + 1]
           d == assess_path_directionality(w.tags)
           F == EdgeOf(w, x, y)
           B == EdgeOf(w, y, x)
           R == Range(Stretch(w, i))
<1>1. \A e : e \in R <=>
        \/ e = F /\ (type = "walk" \/ d # "reverse")
        \/ e = B /\ (type = "walk" \/ d # "forward")
  BY PairEdgesAre DEF Stretch
<1>2. F.way = w.id /\ F.from = x /\ F.to = y /\ B.way = w.id /\ B.from = y /\ B.to = x
  BY DEF EdgeOf
<1> HIDE DEF x, y, d, F, B, R
<1>3. \A e \in R : e.way = w.id /\ ((e.from = x /\ e.to = y) \/ (e.from = y /\ e.to = x))
  BY <1>1, <1>2
<1>4. \E e \in R : TRUE
  BY <1>1
<1>5. \A a, b : (\E e \in R : e.from = a /\ e.to = b) <=>
        \/ a = x /\ b = y /\ (type = "walk" \/ d # "reverse")
        \/ a = y /\ b = x /\ (type = "walk" \/ d # "forward")
  BY <1>1, <1>2
<1>6. Directed(w, i)
  BY <1>5 DEF Directed, x, y, d, R
<1> QED
  BY <1>3, <1>4, <1>6 DEF x, y, R

\* A finished graph has all the stretches of the ways chosen, and no others.
LEMMA ReadyEdges ==
    ASSUME LoadInv, Ready
    PROVE  /\ \A e \in Range(edges) : \E w \in Chosen : \E i \in 1 .. Len(w.refs) - 1 :
                e \in Range(Stretch(w, i))
           /\ \A w \in Chosen : \A i \in 1 .. Len(w.refs) - 1 :
                Range(Stretch(w, i)) \subseteq Range(edges)
<1>1. ways = << >> /\ Range(<< >>) = {}
  BY DEF LoadInv, Ready, Data, Range
<1> QED
  BY <1>1 DEF LoadInv, Ready, LoadEdges

\* The directions that a way's tags give it.
LEMMA DirectionsAre ==
    ASSUME NEW tags
    PROVE  LET d == assess_path_directionality(tags)
           IN  /\ d = "reverse" <=> Tag(tags, "oneway", {"-1", "reverse"})
               /\ d # "forward" <=>
                    \/ Tag(tags, "oneway", {"-1", "reverse"})
                    \/ ~ (\/ Tag(tags, "oneway", {"yes", "true", "1", "-1", "reverse"})
                          \/ Tag(tags, "junction", {"roundabout"}))
<1> DEFINE back == Tag(tags, "oneway", {"-1", "reverse"})
           ahead == Tag(tags, "oneway", {"yes", "true", "1"})
           round == Tag(tags, "junction", {"roundabout"})
<1>1. Tag(tags, "oneway", {"yes", "true", "1", "-1", "reverse"}) <=> back \/ ahead
  BY DEF Tag
<1>2. assess_path_directionality(tags) =
        IF back THEN "reverse" ELSE IF ahead \/ round THEN "forward" ELSE "both"
  BY DEF assess_path_directionality
<1> HIDE DEF back, ahead, round
<1>3. CASE back
  BY <1>1, <1>2, <1>3 DEF back
<1>4. CASE ~back /\ (ahead \/ round)
  BY <1>1, <1>2, <1>4 DEF back, round
<1>5. CASE ~back /\ ~(ahead \/ round)
  BY <1>1, <1>2, <1>5 DEF back, round
<1> QED
  BY <1>3, <1>4, <1>5

LEMMA LoadInvImpliesDirections == LoadInv => DirectionsKept
<1> DEFINE Oneway(w) == \/ Tag(w.tags, "oneway", {"yes", "true", "1", "-1", "reverse"})
                        \/ Tag(w.tags, "junction", {"roundabout"})
           Along(w, a, b) ==
             \E i \in 1 .. Len(w.refs) - 1 : w.refs[i] = a /\ w.refs[i + 1] = b
           Backward(w) == Tag(w.tags, "oneway", {"-1", "reverse"})
           Runs(w, a, b) == \E e \in Range(edges) : e.way = w.id /\ e.from = a /\ e.to = b
<1> SUFFICES ASSUME LoadInv, Ready, NEW w \in Elements("way"),
                    w.id \in {e.way : e \in Range(edges)},
                    NEW a \in Range(w.refs), NEW b \in Range(w.refs)
             PROVE  Runs(w, a, b) <=>
                      \/ Along(w, a, b) /\ (type = "walk" \/ ~Backward(w))
                      \/ Along(w, b, a) /\ (type = "walk" \/ Backward(w) \/ ~Oneway(w))
  BY DEF DirectionsKept
<1> DEFINE I == 1 .. Len(w.refs) - 1
           d == assess_path_directionality(w.tags)
<1>1. LoadInputs
  BY DEF LoadInv
<1>2. ASSUME NEW e \in Range(edges), e.way = w.id
      PROVE  w \in Chosen /\ \E i \in I : e \in Range(Stretch(w, i))
  <2>1. PICK v \in Chosen : \E i \in 1 .. Len(v.refs) - 1 : e \in Range(Stretch(v, i))
    BY ReadyEdges
  <2>2. PICK i \in 1 .. Len(v.refs) - 1 : e \in Range(Stretch(v, i))
    BY <2>1
  <2>3. e.way = v.id
    BY <2>2, StretchEdges
  <2>4. v \in Elements("way")
    BY ChosenAreWays
  <2>5. v = w
    BY <1>1, <1>2, <2>3, <2>4, IdsAreUnique
  <2> QED
    BY <2>2, <2>5
<1>3. w \in Chosen
  BY <1>2
<1>4. \A i \in I : Range(Stretch(w, i)) \subseteq Range(edges)
  BY <1>3, ReadyEdges
<1>5. Runs(w, a, b) <=> \E i \in I : \E e \in Range(Stretch(w, i)) : e.from = a /\ e.to = b
  <2>1. ASSUME NEW i \in I, NEW e \in Range(Stretch(w, i)) PROVE e.way = w.id
    BY StretchEdges
  <2> QED
    BY <1>2, <1>4, <2>1
<1>6. ASSUME NEW i \in I
      PROVE  (\E e \in Range(Stretch(w, i)) : e.from = a /\ e.to = b) <=>
               \/ a = w.refs[i] /\ b = w.refs[i + 1] /\ (type = "walk" \/ d # "reverse")
               \/ a = w.refs[i + 1] /\ b = w.refs[i] /\ (type = "walk" \/ d # "forward")
  <2>1. Directed(w, i)
    BY StretchEdges
  <2> QED
    BY <2>1 DEF Directed
<1>7. (d = "reverse" <=> Backward(w)) /\ (d # "forward" <=> Backward(w) \/ ~Oneway(w))
  BY DirectionsAre
<1> HIDE DEF Runs, d, I, Backward, Oneway
<1>8. Along(w, a, b) <=> \E i \in I : a = w.refs[i] /\ b = w.refs[i + 1]
  BY DEF I
<1>9. Along(w, b, a) <=> \E i \in I : a = w.refs[i + 1] /\ b = w.refs[i]
  BY DEF I
<1> HIDE DEF Along
<1> QED
  BY <1>5, <1>6, <1>7, <1>8, <1>9

\* Without a value that only contains a pattern, the query selects what the
\* filter accepts (overpass.rs:23-65, filters.rs:19-88).
LEMMA FiltersAgree ==
    ASSUME LoadInputs, NEW w, ~PartlyMatched(w.tags, type),
           way_passes_road_filter(w.tags, type)
    PROVE  QuerySelects(w.tags, type)
<1>1. type \in NetworkType
  BY TypesOfCall
<1>2. \A k \in DOMAIN Patterns(type) :
        \/ k \in DOMAIN Excluded(type) /\ Patterns(type)[k] = Excluded(type)[k]
        \/ k = "area" /\ Patterns(type)[k] = {"yes"}
        \/ /\ k = "highway" /\ type \in {"walk", "bike"} /\ k \in DOMAIN Excluded(type)
           /\ Patterns(type)[k] = Excluded(type)[k] \cup {"motor"}
  <2>1. CASE type = "drive"
    <3>1. /\ DOMAIN Patterns(type) =
               {"highway", "area", "motor_vehicle", "motorcar", "service"}
          /\ DOMAIN Excluded(type) = {"highway", "motor_vehicle", "motorcar", "service"}
          /\ Patterns(type)["area"] = {"yes"}
      BY <2>1 DEF Patterns, Excluded
    <3>2. Patterns(type)["highway"] = Excluded(type)["highway"]
      BY <2>1 DEF Patterns, Excluded
    <3>3. Patterns(type)["service"] = Excluded(type)["service"]
      BY <2>1 DEF Patterns, Excluded
    <3>4. /\ Patterns(type)["motorcar"] = Excluded(type)["motorcar"]
          /\ Patterns(type)["motor_vehicle"] = Excluded(type)["motor_vehicle"]
      BY <2>1 DEF Patterns, Excluded
    <3> QED
      BY <3>1, <3>2, <3>3, <3>4
  <2>2. CASE type = "drive_service"
    BY <2>2 DEF Patterns, Excluded
  <2>3. CASE type = "walk"
    BY <2>3 DEF Patterns, Excluded
  <2>4. CASE type = "bike"
    <3>1. NoRoad \cup {"footway", "motor", "steps"} =
            (NoRoad \cup {"footway", "steps"}) \cup {"motor"}
      OBVIOUS
    <3>2. /\ DOMAIN Patterns(type) = {"highway", "area", "bicycle", "service"}
          /\ DOMAIN Excluded(type) = {"highway", "bicycle", "service"}
      BY <2>4 DEF Patterns, Excluded
    <3>3. Patterns(type)["highway"] = Excluded(type)["highway"] \cup {"motor"}
      BY <2>4, <3>1 DEF Patterns, Excluded
    <3>4. /\ Patterns(type)["area"] = {"yes"}
          /\ Patterns(type)["bicycle"] = Excluded(type)["bicycle"]
          /\ Patterns(type)["service"] = Excluded(type)["service"]
      BY <2>4 DEF Patterns, Excluded
    <3> QED
      BY <2>4, <3>2, <3>3, <3>4
  <2>5. CASE type = "all"
    BY <2>5 DEF Patterns, Excluded
  <2>6. CASE type = "all_private"
    BY <2>6 DEF Patterns, Excluded
  <2> QED
    BY <1>1, <2>1, <2>2, <2>3, <2>4, <2>5, <2>6 DEF NetworkType
<1>3. /\ "highway" \in DOMAIN w.tags
      /\ "area" \in DOMAIN w.tags => w.tags["area"] # "yes"
      /\ \A k \in DOMAIN Excluded(type) \cap DOMAIN w.tags :
           w.tags[k] \notin Excluded(type)[k]
      /\ type \in {"walk", "bike"} => w.tags["highway"] # "motor"
  BY DEF way_passes_road_filter, StartsWith
<1>4. ASSUME NEW k \in DOMAIN Patterns(type) \cap DOMAIN w.tags,
             NEW p \in Patterns(type)[k]
      PROVE  w.tags[k] # p
  BY <1>2, <1>3
<1>5. \A k \in DOMAIN Patterns(type) \cap DOMAIN w.tags :
        \A p \in Patterns(type)[k] : <<p, w.tags[k]>> \notin Within
  BY DEF PartlyMatched
<1> QED
  BY <1>3, <1>4, <1>5 DEF QuerySelects, Found

LEMMA LoadInvImpliesSameGraph == LoadInv => SameGraphFromEverySource
<1> DEFINE partly == call.reader = "overpass" /\
                       \E w \in Elements("way") : PartlyMatched(w.tags, type)
           joined == UNION {{{w.refs[i], w.refs[i + 1]} : i \in 1 .. Len(w.refs) - 1} :
                             w \in Kept(type)}
<1> SUFFICES ASSUME LoadInv, Ready, call.reader # "from_osm"
             PROVE  /\ {e.way : e \in Range(edges)} \subseteq {w.id : w \in Kept(type)}
                    /\ partly \/ {{e.from, e.to} : e \in Range(edges)} = joined
                    /\ partly \/ DOMAIN nodes = NodeIds \cap Refs(Kept(type))
  BY DEF SameGraphFromEverySource, NodeIds
<1>1. LoadInputs
  BY DEF LoadInv
<1>2. FromFile \/ call.reader = "overpass"
  BY <1>1, CallAssumption DEF LoadInputs, FromFile
<1>3. Chosen \subseteq Kept(type)
  <2>1. ASSUME NEW w \in Elements("way"), QuerySelects(w.tags, type)
        PROVE  way_passes_road_filter(w.tags, type)
    BY <1>1, <2>1, SelectedPass
  <2> QED
    BY <1>2, <2>1 DEF Chosen, Kept
<1>4. ASSUME ~partly PROVE Chosen = Kept(type)
  <2>1. ASSUME call.reader = "overpass", ~FromFile, NEW w \in Kept(type)
        PROVE  w \in Chosen
    <3>1. w \in Elements("way") /\ way_passes_road_filter(w.tags, type)
      BY DEF Kept
    <3>2. ~PartlyMatched(w.tags, type)
      BY <1>4, <2>1, <3>1
    <3>3. QuerySelects(w.tags, type)
      BY <1>1, <3>1, <3>2, FiltersAgree
    <3> QED
      BY <2>1, <3>1, <3>3 DEF Chosen
  <2>2. FromFile => Chosen = Kept(type)
    BY DEF Chosen
  <2> QED
    BY <1>2, <1>3, <2>1, <2>2
<1> HIDE DEF partly
<1>5. ASSUME NEW e \in Range(edges)
      PROVE  \E w \in Chosen : e.way = w.id /\ \E i \in 1 .. Len(w.refs) - 1 :
               {e.from, e.to} = {w.refs[i], w.refs[i + 1]}
  <2>1. PICK w \in Chosen : \E i \in 1 .. Len(w.refs) - 1 : e \in Range(Stretch(w, i))
    BY ReadyEdges
  <2>2. PICK i \in 1 .. Len(w.refs) - 1 : e \in Range(Stretch(w, i))
    BY <2>1
  <2> DEFINE x == w.refs[i]
             y == w.refs[i + 1]
  <2>3. e.way = w.id /\ ((e.from = x /\ e.to = y) \/ (e.from = y /\ e.to = x))
    BY <2>2, StretchEdges
  <2> HIDE DEF x, y
  <2>4. {e.from, e.to} = {x, y}
    BY <2>3
  <2> QED
    BY <2>3, <2>4 DEF x, y
<1>6. ASSUME NEW w \in Chosen, NEW i \in 1 .. Len(w.refs) - 1
      PROVE  \E e \in Range(edges) : {e.from, e.to} = {w.refs[i], w.refs[i + 1]}
  <2> DEFINE x == w.refs[i]
             y == w.refs[i + 1]
  <2>1. PICK e \in Range(Stretch(w, i)) : TRUE
    BY StretchEdges
  <2>2. (e.from = x /\ e.to = y) \/ (e.from = y /\ e.to = x)
    BY StretchEdges
  <2>3. e \in Range(edges)
    BY ReadyEdges
  <2> HIDE DEF x, y
  <2>4. {e.from, e.to} = {x, y}
    BY <2>2
  <2> QED
    BY <2>3, <2>4 DEF x, y
<1>7. {e.way : e \in Range(edges)} \subseteq {w.id : w \in Kept(type)}
  BY <1>3, <1>5
<1>8. ASSUME ~partly PROVE {{e.from, e.to} : e \in Range(edges)} = joined
  <2>1. ASSUME NEW e \in Range(edges) PROVE {e.from, e.to} \in joined
    <3>1. PICK w \in Chosen : \E i \in 1 .. Len(w.refs) - 1 :
            {e.from, e.to} = {w.refs[i], w.refs[i + 1]}
      BY <1>5
    <3>2. PICK i \in 1 .. Len(w.refs) - 1 : {e.from, e.to} = {w.refs[i], w.refs[i + 1]}
      BY <3>1
    <3>3. w \in Kept(type)
      BY <1>4, <1>8
    <3>4. PICK pr : pr = {e.from, e.to}
      OBVIOUS
    <3>5. pr \in {{w.refs[j], w.refs[j + 1]} : j \in 1 .. Len(w.refs) - 1}
      BY <3>2, <3>4
    <3>6. pr \in joined
      BY <3>3, <3>5
    <3> QED
      BY <3>4, <3>6
  <2>2. ASSUME NEW l \in joined PROVE l \in {{e.from, e.to} : e \in Range(edges)}
    <3>1. PICK w \in Kept(type) :
            l \in {{w.refs[i], w.refs[i + 1]} : i \in 1 .. Len(w.refs) - 1}
      OBVIOUS
    <3>2. PICK i \in 1 .. Len(w.refs) - 1 : l = {w.refs[i], w.refs[i + 1]}
      BY <3>1
    <3>3. w \in Chosen
      BY <1>4, <1>8
    <3> QED
      BY <1>6, <3>2, <3>3
  <2> HIDE DEF joined
  <2> QED
    BY <2>1, <2>2
<1>9. ASSUME ~partly PROVE DOMAIN nodes = NodeIds \cap Refs(Kept(type))
  BY <1>4, <1>9 DEF LoadInv, Ready, Data
<1> QED
  BY <1>7, <1>8, <1>9

----------------------------------------------------------------------------
(* The properties of a load.                                               *)

\* What a load keeps has the types stated: in particular an edge joins nodes of
\* the graph, and a POI is snapped to one (graph.rs:186-308, pbf.rs:40-168).
THEOREM LoadTypeCorrect == LoadSpec => []LoadTypeOK
BY LoadInvariance, LoadInvImpliesTypes, PTL

\* Every edge of every graph can be travelled in a finite time by each profile,
\* whatever the tags say (graph.rs:25-73).
THEOREM EdgesAreUsable == LoadSpec => []EdgesUsable
BY LoadInvariance, LoadInvImpliesUsable, PTL

\* create_graph panics on clipped files only, for a way that it was to keep
\* (graph.rs:213).
THEOREM OnlyClippedWaysPanic == LoadSpec => []PanicsOnlyOnClippedWays
<1>1. LoadInv => PanicsOnlyOnClippedWays
  BY DEF LoadInv
<1> QED
  BY <1>1, LoadInvariance, PTL

\* A way in the graph runs in the directions its tags allow the profile, on all
\* of its stretches, and in no others (graph.rs:111-148, 236-295).
THEOREM DirectionsAreKept == LoadSpec => []DirectionsKept
BY LoadInvariance, LoadInvImpliesDirections, PTL

\* The graph of a profile is the same from a file read for it alone, from a file
\* read for several and from a query (filters.rs, overpass.rs:23-65).
THEOREM SourcesAgree == LoadSpec => []SameGraphFromEverySource
BY LoadInvariance, LoadInvImpliesSameGraph, PTL

=============================================================================
