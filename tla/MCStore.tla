------------------------------ MODULE MCStore ------------------------------
(* Store with interchangeable fence ids and policies. *)
EXTENDS Store, TLC

Symmetry == Permutations(Fences) \cup Permutations(Policies)
=============================================================================
