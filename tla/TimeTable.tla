------------------------------ MODULE TimeTable ------------------------------
(***************************************************************************)
(* What compute_reachability promises (reachability.rs:17-26, 160-165):    *)
(* one answer, the table of the shortest travel times from start that are  *)
(* within the budget, and an empty table for a budget that is no number.   *)
(*                                                                         *)
(* The table is characterised without a search: it is closed under the     *)
(* usable edges, and each of its entries is justified from the start.      *)
(***************************************************************************)
EXTENDS RoadGraph

CONSTANT Pending        \* no answer yet

VARIABLES
    start,
    maxCost,
    answer

ttvars == <<cost, start, maxCost, answer>>

\* No usable edge within the budget leads from the table to an unlisted node or
\* to a later time than the edge gives.
Closed(d) ==
    \A e \in Edge :
        /\ Source[e] \in DOMAIN d
        /\ Usable(e)
        /\ d[Source[e]] + cost[e] <= maxCost
        => /\ Target[e] \in DOMAIN d
           /\ d[Target[e]] <= d[Source[e]] + cost[e]

\* Every group of entries is entered from outside by an edge that gives the
\* entry at its end exactly.
Justified(d) ==
    \A S \in SUBSET (DOMAIN d \ {start}) :
        S # {} => \E e \in Edge :
                    /\ Usable(e)
                    /\ Source[e] \in DOMAIN d \ S
                    /\ Target[e] \in S
                    /\ d[Target[e]] = d[Source[e]] + cost[e]

IsTimeTable(d) ==
    IF maxCost = Bad
      THEN d = << >>
      ELSE /\ DOMAIN d \subseteq Node
           /\ \A n \in DOMAIN d : d[n] \in Nat /\ d[n] <= maxCost
           /\ start \in DOMAIN d /\ d[start] = 0
           /\ Closed(d)
           /\ Justified(d)

TTInit == answer = Pending \/ IsTimeTable(answer)

Deliver ==
    /\ answer = Pending
    /\ answer' # Pending
    /\ IsTimeTable(answer')
    /\ UNCHANGED <<cost, start, maxCost>>

TTSpec == TTInit /\ [][Deliver]_ttvars

=============================================================================
