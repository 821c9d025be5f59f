------------------------------ MODULE MCMemory ------------------------------
(* Three calls, any operation each, on one item of one of two users. *)
EXTENDS Memory, TLC
CONSTANTS c1, c2, c3, i1, ann, bob
MCOwner == [i \in Id |-> ann]
\* One of the calls passes an inactive item.
MCActive == [c \in Call |-> c # c3]
=============================================================================
