---------------------------- MODULE MCContainer ----------------------------
(* A container and two children; two runs; two tasks.                  *)
EXTENDS Container, TLC
CONSTANTS c2, c3, r1, r2, t1, t2, k1
Alike == Permutations(Cont \ {Root}) \cup Permutations(Run) \cup Permutations(Task)
=============================================================================
