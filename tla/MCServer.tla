------------------------------ MODULE MCServer ------------------------------
(* Connections are interchangeable. *)
EXTENDS Server, TLC

Symmetry == Permutations(Conns)
=============================================================================
