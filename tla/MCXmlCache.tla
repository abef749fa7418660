----------------------------- MODULE MCXmlCache -----------------------------
(***************************************************************************)
(* A Python process with one caller and a Rust process with two, two       *)
(* queries, and room for one of them in memory.                            *)
(***************************************************************************)
EXTENDS XmlCache

CONSTANTS py, rs, t1, t2, t3, q1, q2

MCHome == [t \in Task |-> IF t = t1 THEN py ELSE rs]
MCAsks == [t \in Task |-> IF t = t2 THEN {q1, q2} ELSE {q1}]
MCPath == [q \in Query |-> <<"file", q>>]

=============================================================================
