--------------------------- MODULE MCReleasePlane ---------------------------
EXTENDS ReleasePlane, TLC
CONSTANTS r0, r1, r2, t1, t2
(* candidates for a root release r0 *)
ThePrior == [r \in Releases |-> IF r = r0 THEN None ELSE r0]

(* the threads do not differ, nor do the candidates *)
Symmetry == Permutations({t1, t2}) \cup Permutations(Releases \ {r0})
=============================================================================
