----------------------------- MODULE MCLocalizer -----------------------------
EXTENDS Localizer

(* Four hops and three constraints hold every shape of overlap; one hop with four
   exceeds MaxSets and five hops exceed MaxCandidates. *)
ProbeBound ==
  [n \in HopCounts |-> CASE n = 0 -> 1 [] n = 1 -> 4 [] n = 4 -> 3 [] OTHER -> 2]
=============================================================================
