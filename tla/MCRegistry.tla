------------------------------ MODULE MCRegistry ------------------------------
(* An instance of Registry for TLC: a project with two sites and a service *)
(* each, and a project without; the first range has room for two services, *)
(* the second shares its end, the third is apart.                          *)
EXTENDS Registry, TLC

CONSTANTS p1, p2, s1, s2, v1, v2, h1, h2

MCProjects == {p1, p2}
MCSites == {s1, s2}
MCServices == {v1, v2}
MCProjectOf == [s \in MCSites |-> p1]
MCSiteOf == [v \in MCServices |-> IF v = v1 THEN s1 ELSE s2]
Symmetry ==
  {f @@ g : f \in Permutations({h1, h2}),
            g \in {[x \in {s1, s2, v1, v2} |-> x],
                   (s1 :> s2) @@ (s2 :> s1) @@ (v1 :> v2) @@ (v2 :> v1)}}
MCRanges == {[min |-> 1, max |-> 3], [min |-> 3, max |-> 4], [min |-> 5, max |-> 6]}
=============================================================================
