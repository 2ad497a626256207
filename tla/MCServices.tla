----------------------------- MODULE MCServices -----------------------------
(* Services with small components.  Where services_live has a smaller         *)
(* instance, it is because liveness is checked there.                         *)
EXTENDS Services

\* Three sectors: one that drags a second, as tech drags comm_services and
\* back, and one apart.
Spills == [tech |-> {"comm"}, comm |-> {"tech"}, health |-> {}]

\* p1's thread fails over from m1 to m2, p2's has m1 alone.
FailsOver == [p1 |-> <<"m1", "m2">>, p2 |-> <<"m1">>]

\* Two specialists of p1's ensemble call side by side, and p2's cycle.
PaysFor == [c \in Callers |-> IF c = "cycle" THEN "p2" ELSE "p1"]
=============================================================================
