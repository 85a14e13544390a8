------------------------------ MODULE MCEngine ------------------------------
(* Engine on a few interchangeable subjects, generation vectors and threads. *)
EXTENDS Engine, TLC

Symmetry == Permutations(Scopes) \cup Permutations(Gens) \cup Permutations(Callers)
=============================================================================
