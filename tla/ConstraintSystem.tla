-------------------------- MODULE ConstraintSystem --------------------------
(***************************************************************************)
(* The constraint system behind failure localization (localize/            *)
(* localizer.cpp): how it is built from hop probes, validated and reduced, *)
(* what a localization is, and the exhaustive reference solver.            *)
(*                                                                         *)
(* An ascending list of elements is a set.  The reduced system of an input *)
(* is the set of its kept constraint sets, and a mask over them is the set *)
(* of those whose bit is set; SetIndex and CandidateIndex give the bits    *)
(* where the code depends on their order or mixes the two.                 *)
(***************************************************************************)
EXTENDS Integers, Sequences, FiniteSets, SequencesExt

CONSTANTS
  MaxSets,        \* kMaxLocalizationSets
  MaxCandidates,  \* kMaxLocalizationCandidates
  ReferenceMax    \* kReferenceSolverMaxCandidates

ASSUME ConstraintAssumption == {MaxSets, MaxCandidates, ReferenceMax} \subseteq Nat

(* LocalizationResult without reason and node count. *)
Unanswered ==
  [status |-> "InvalidInput", elements |-> {}, optimal_size |-> 0, optimality_proven |-> FALSE,
   uniqueness_proven |-> FALSE, truncated |-> FALSE, found |-> 0, witness |-> 0]
-----------------------------------------------------------------------------
(* reduce() *)

Candidates(in) == (0..(in.element_count - 1)) \ in.proven_ok

Constraints(in) ==
  [i \in DOMAIN in.failure_sets |-> in.failure_sets[i] \cap Candidates(in)]

EmptySets(in) == {i \in DOMAIN in.failure_sets : Constraints(in)[i] = {}}

(* Duplicates and supersets of a kept set carry no constraint. *)
Reduce(in) ==
  LET raw == ToSet(Constraints(in)) \ {{}}
  IN {S \in raw : \A T \in raw : ~(T \subseteq S /\ T # S)}

(* Order of the kept sets: by size, then lexicographically. *)
LexLess(A, B) == A # B /\ Min(SymDiff(A, B)) \in A

BySizeThenLex(A, B) ==
  \/ Cardinality(A) < Cardinality(B)
  \/ Cardinality(A) = Cardinality(B) /\ LexLess(A, B)

SetIndex(F, S) == Cardinality({T \in F : BySizeThenLex(T, S)})

CandidateIndex(C, e) == Cardinality({c \in C : c < e})

(* The sets of F that H does not hit: F without cover[c] for every c in H. *)
Uncovered(F, H) == {S \in F : S \cap H = {}}
-----------------------------------------------------------------------------
(* validate_localization_input(), for lists that are ascending and in range. *)
ValidateInput(in) ==
  IF in.element_count = 0 THEN "Invalid"
  ELSE IF Len(in.failure_sets) > MaxSets THEN "Oversized"
  ELSE IF in.element_count - Cardinality(in.proven_ok) > MaxCandidates THEN "Unsupported"
  ELSE IF in.budget = 0 \/ in.max_solutions = 0 THEN "Invalid"
  ELSE "Ok"

Hops(p) == p.begin_hop..(p.end_hop - 1)

(* build_localization_input() *)
ProbesOutcome(limits, probes) ==
  IF limits.hop_count = 0 THEN "Invalid"
  ELSE IF Len(probes) > MaxSets THEN "Oversized"
  ELSE IF \E p \in ToSet(probes) : p.end_hop <= p.begin_hop \/ p.end_hop > limits.hop_count
  THEN "Invalid"
  ELSE "Ok"

BuildInput(limits, probes) ==
  LET ok == UNION {Hops(p) : p \in {q \in ToSet(probes) : q.success}}
      failed == {i \in DOMAIN probes : ~probes[i].success}
      nth(k) == CHOOSE i \in failed : Cardinality({j \in failed : j <= i}) = k
  IN [element_count |-> limits.hop_count, proven_ok |-> ok,
      failure_sets |-> [k \in 1..Cardinality(failed) |-> Hops(probes[nth(k)]) \ ok],
      budget |-> limits.budget, max_solutions |-> limits.max_solutions]

(* The input of a caller of the library, in which no element is known to work. *)
SetsInput(limits, sets) ==
  [element_count |-> limits.hop_count, proven_ok |-> {}, failure_sets |-> sets,
   budget |-> limits.budget, max_solutions |-> limits.max_solutions]
-----------------------------------------------------------------------------
(* The problem as localizer.hpp:17-36 states it. *)
Localizations(in) ==
  {H \in SUBSET Candidates(in) : \A S \in ToSet(in.failure_sets) : H \cap S # {}}

Minima(in) ==
  {H \in Localizations(in) : \A G \in Localizations(in) : Cardinality(H) <= Cardinality(G)}

LexLeast(H, Family) == H \in Family /\ \A G \in Family : G = H \/ LexLess(H, G)
-----------------------------------------------------------------------------
Infeasible(in) ==
  [Unanswered EXCEPT !.status = "ProvenInfeasible", !.witness = Min(EmptySets(in))]

NothingFailed ==
  [Unanswered EXCEPT !.status = "Resolved", !.optimality_proven = TRUE,
                     !.uniqueness_proven = TRUE, !.found = 1]

(* reference_localize(): every subset of a size, in lexicographic order.  The
   uniqueness flag is computed before the truncation flag is set. *)
Covering(in, k) == {H \in kSubset(k, Candidates(in)) : Uncovered(Reduce(in), H) = {}}

Reference(in) ==
  LET size == Min({k \in 1..Cardinality(Candidates(in)) : Covering(in, k) # {}})
      found == Min({Cardinality(Covering(in, size)), in.max_solutions})
  IN IF EmptySets(in) # {} THEN Infeasible(in)
     ELSE IF Reduce(in) = {} THEN NothingFailed
     ELSE IF Cardinality(Candidates(in)) > ReferenceMax
     THEN [Unanswered EXCEPT !.status = "Indeterminate"]
     ELSE [status |-> IF found > 1 THEN "Ambiguous" ELSE "Resolved",
           elements |-> CHOOSE H \in Covering(in, size) : LexLeast(H, Covering(in, size)),
           optimal_size |-> size, optimality_proven |-> TRUE, uniqueness_proven |-> found = 1,
           truncated |-> found >= in.max_solutions /\ in.max_solutions > 1,
           found |-> found, witness |-> 0]
=============================================================================
