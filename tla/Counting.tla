------------------------------ MODULE Counting ------------------------------
(***************************************************************************)
(* The sum of a function's values, by counting: the value f[x] is the      *)
(* number of pairs <<x, i>> with i in 1..f[x].  CountingTheorems shows     *)
(* that this is the sum.                                                   *)
(***************************************************************************)
EXTENDS Naturals, FiniteSets

Units(f) == UNION {{x} \X (1..f[x]) : x \in DOMAIN f}

Total(f) == Cardinality(Units(f))
=============================================================================
