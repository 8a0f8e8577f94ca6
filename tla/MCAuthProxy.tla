------------------------------ MODULE MCAuthProxy ------------------------------
(* AuthProxy for TLC: a project with two sites, a service on each, and one  *)
(* relay port that the second gets when the first is gone.                  *)
EXTENDS AuthProxy

CONSTANTS c1, o1, p1, s1, s2, port1

MCServices == {1, 2}
MCSites == {s1, s2}
MCSiteOf == [v \in MCServices |-> IF v = 1 THEN s1 ELSE s2]
MCProjectOf == [s \in MCSites |-> p1]
==============================================================================
