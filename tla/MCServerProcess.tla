--------------------------- MODULE MCServerProcess ---------------------------
(* ServerProcess for TLC: the members of its sets.                          *)
EXTENDS ServerProcess

CONSTANTS p1, r1, r2
=============================================================================
