----------------------------- MODULE MCSessions -----------------------------
(* Connections and identities are interchangeable. *)
EXTENDS Sessions, TLC

Symmetry == Permutations(Conns) \cup Permutations(Identities)
=============================================================================
