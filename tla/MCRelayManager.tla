---------------------------- MODULE MCRelayManager ----------------------------
(* RelayManager for TLC: the members of its sets and their symmetry.        *)
EXTENDS RelayManager, TLC

CONSTANTS p1, p2, h1, h2, s1, s2, s3

Symmetry ==
  Permutations(Projects) \cup Permutations(Handlers) \cup Permutations(Sups)
==============================================================================
