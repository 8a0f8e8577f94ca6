---------------------------- MODULE MCSiteLiveness ----------------------------
(* SiteLiveness for TLC: the members of its sets.                           *)
EXTENDS SiteLiveness

CONSTANTS s1, h1
==============================================================================
