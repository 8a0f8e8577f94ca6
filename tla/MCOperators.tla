----------------------------- MODULE MCOperators ------------------------------
(* Operators for TLC: the members of its sets and their symmetry.           *)
EXTENDS Operators, TLC

CONSTANTS o1, o2, h1, h2, t1, t2, v1, v2

Symmetry ==
  Permutations(Operators) \cup Permutations(Handlers) \cup Permutations(Tokens)
    \cup Permutations(Roles)

(* Bound: the operators who have a grant, at once.                          *)
OneGrantee == \A a, b \in Operators : access[a] # None /\ access[b] # None => a = b

(* Bound: nothing more happens once two removals have overlapped.           *)
UntilOverlap == ~overlapped
==============================================================================
