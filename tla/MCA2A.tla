------------------------------- MODULE MCA2A -------------------------------
(* Constants of the A2A instance; the calls are alike, and so are the hosts. *)
EXTENDS A2A, TLC
CONSTANTS c1, c2, h1, h2
MCSymmetry == Permutations({c1, c2}) \cup Permutations({h1, h2})
=============================================================================
