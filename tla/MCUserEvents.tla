---------------------------- MODULE MCUserEvents ----------------------------
(* A small instance of UserEvents for TLC. *)
EXTENDS UserEvents, TLC

CONSTANTS u1, s1, s2, s3

OneUser == [s \in Streams |-> u1]

Symmetry == Permutations(Streams)
=============================================================================
