-------------------------- MODULE MCAsyncOperations --------------------------
(* A small instance of AsyncOperations for TLC: one row, one consumer task. *)
EXTENDS AsyncOperations

CONSTANTS o1, s1
=============================================================================
