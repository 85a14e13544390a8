-------------------------- MODULE MCFenceRegistry --------------------------
(* FenceRegistry on two subjects and two generation vectors, which are
   interchangeable: no action and no property names one of them. *)
EXTENDS FenceRegistry, TLC

Symmetry == Permutations(Scopes) \cup Permutations(Gens)
=============================================================================
