------------------------------ MODULE Localizer ------------------------------
(***************************************************************************)
(* Failure localization (localize/localizer.cpp) as Engine::localize()     *)
(* uses it: lower bound, bounded proof of the minimum size, enumeration of *)
(* the minima with what is left of the budget, greedy fallback, and the    *)
(* verifier whose verdict decides what is published.                       *)
(*                                                                         *)
(* `pc' is the loop that the call is in.  The recursion of the enumerator  *)
(* needs no stack: its innermost call is determined by the candidates      *)
(* taken so far (`current') and the next candidate it looks at (`next').   *)
(***************************************************************************)
EXTENDS FeasibilityOracle

CONSTANTS
  HopCounts,      \* the path lengths that are asked about
  Budgets,        \* policy.max_localization_search_nodes
  SolutionCaps,   \* policy.max_localization_solutions
  OracleBudget,   \* node budget of the verifier's oracle
  MaxProbes       \* bound on the constraints of a request, for each path length

ASSUME LocalizerAssumption ==
  /\ HopCounts \cup Budgets \cup SolutionCaps \subseteq Nat
  /\ OracleBudget \in Nat
  /\ MaxProbes \in [HopCounts -> Nat]

VARIABLES
  limits,    \* hop count, search budget and solution cap of the request
  probes,    \* the hop probes of the request
  sets,      \* or the constraint sets of a caller of the library
  pc,        \* "idle", or what localize() is doing
  packing,   \* disjoint_lower_bound(): elements used, sets packed, sets to look at
  size,      \* the size k whose feasibility is asked, then the proven minimum
  oracle,    \* the feasibility oracle of the search, later of the verifier
  enum,      \* the solution enumerator
  result,    \* the result under construction
  published  \* what localize() has answered to the request, at most one answer

request == <<limits, probes, sets>>
vars == <<limits, probes, sets, pc, packing, size, oracle, enum, result, published>>

Elements == 0..(limits.hop_count - 1)

(* The probes of a request: every range on the path, an empty one and one that
   leaves the path. *)
HopProbe ==
  LET n == limits.hop_count
      ranges == {r \in (0..n) \X (0..n) : r[1] < r[2]} \cup {<<0, 0>>, <<0, n + 1>>}
  IN {[begin_hop |-> r[1], end_hop |-> r[2], success |-> ok] : r \in ranges, ok \in BOOLEAN}

Request == IF sets = <<>> THEN BuildInput(limits, probes) ELSE SetsInput(limits, sets)

RequestOutcome ==
  IF sets = <<>> /\ ProbesOutcome(limits, probes) # "Ok" THEN ProbesOutcome(limits, probes)
  ELSE ValidateInput(Request)

C == Candidates(Request)
F == Reduce(Request)
-----------------------------------------------------------------------------
(* verify_localization() *)

(* Mutant of ReferenceAgrees: the verifier compares sizes only. *)
ReferenceAgreesOnSize(in, res) == Reference(in).optimal_size = res.optimal_size

ReferenceAgrees(in, res) ==
  LET ref == Reference(in)
  IN /\ ref.optimal_size = res.optimal_size
     /\ ref.elements = res.elements
     /\ (ref.status = "Ambiguous" <=> res.status = "Ambiguous") \/ res.truncated

(* The verifier asks an oracle of its own whether a smaller cover exists. *)
AsksOracle(in, res) ==
  res.optimality_proven /\ Cardinality(Candidates(in)) > ReferenceMax /\ res.optimal_size # 0

(* The oracle branch compares the candidates chosen with the mask of all sets. *)
OracleAgrees(in, res, o) ==
  /\ {SetIndex(Reduce(in), S) : S \in Reduce(in)}
       \subseteq {CandidateIndex(Candidates(in), e) : e \in res.elements}
  /\ AsksOracle(in, res) => ~o.ok /\ ~o.exhausted

(* Its field `valid', with o the oracle after its answer. *)
Verified(in, res, o) ==
  CASE res.status = "ProvenInfeasible" ->
         res.witness \in DOMAIN in.failure_sets /\ Constraints(in)[res.witness] = {}
    [] res.status = "InvalidInput" -> FALSE
    [] OTHER ->
         /\ res.elements \subseteq Candidates(in)
         /\ \A S \in ToSet(in.failure_sets) : S \cap res.elements # {}
         /\ res.optimality_proven =>
              IF Cardinality(Candidates(in)) <= ReferenceMax
              THEN ReferenceAgrees(in, res)
              ELSE OracleAgrees(in, res, o)

(* Engine::localize(): a result that fails the verifier is withdrawn. *)
Withdrawn(res) ==
  [res EXCEPT !.status = "Indeterminate", !.elements = {},
              !.optimality_proven = FALSE, !.uniqueness_proven = FALSE]

Answer(in, res, o) ==
  IF Verified(in, res, o) THEN [outcome |-> "Ok", confirmed |-> TRUE, result |-> res]
  ELSE [outcome |-> "Ok", confirmed |-> FALSE, result |-> Withdrawn(res)]

Refuse(outcome) == [outcome |-> outcome, confirmed |-> FALSE, result |-> Unanswered]

(* The solver has its result, and the verifier begins. *)
Conclude(res) ==
  /\ pc' = "verify"
  /\ result' = res
  /\ oracle' = IF AsksOracle(Request, res)
               THEN Enter(F, Oracle(OracleBudget), F, res.optimal_size - 1, 0)
               ELSE oracle
-----------------------------------------------------------------------------
NotStarted ==
  [current |-> {}, next |-> 0, nodes |-> 0, budget |-> 0, found |-> 0, first |-> {},
   truncated |-> FALSE]

Init ==
  /\ limits \in [hop_count : HopCounts, budget : Budgets, max_solutions : SolutionCaps]
  /\ probes = <<>>
  /\ sets = <<>>
  /\ pc = "idle"
  /\ packing = [used |-> {}, count |-> 0, todo |-> {}]
  /\ size = 0
  /\ oracle = Oracle(0)
  /\ enum = NotStarted
  /\ result = Unanswered
  /\ published = {}

AddProbe(p) ==
  /\ pc = "idle"
  /\ sets = <<>>
  /\ Len(probes) < MaxProbes[limits.hop_count]
  /\ probes' = Append(probes, p)
  /\ published' = {}
  /\ UNCHANGED <<limits, sets, pc, packing, size, oracle, enum, result>>

AddSet(S) ==
  /\ pc = "idle"
  /\ probes = <<>>
  /\ Len(sets) < MaxProbes[limits.hop_count]
  /\ sets' = Append(sets, S)
  /\ published' = {}
  /\ UNCHANGED <<limits, probes, pc, packing, size, oracle, enum, result>>

RefuseRequest ==
  /\ pc = "idle"
  /\ RequestOutcome # "Ok"
  /\ published' = {Refuse(RequestOutcome)}
  /\ UNCHANGED <<request, pc, packing, size, oracle, enum, result>>

(* localize() needs no search. *)
AnswerDirectly ==
  /\ pc = "idle"
  /\ RequestOutcome = "Ok"
  /\ EmptySets(Request) # {} \/ F = {}
  /\ Conclude(IF EmptySets(Request) # {} THEN Infeasible(Request) ELSE NothingFailed)
  /\ published' = {}
  /\ UNCHANGED <<request, packing, size, enum>>

StartSearch ==
  /\ pc = "idle"
  /\ RequestOutcome = "Ok"
  /\ EmptySets(Request) = {} /\ F # {}
  /\ pc' = "pack"
  /\ packing' = [used |-> {}, count |-> 0, todo |-> F]
  /\ size' = 0
  /\ oracle' = Oracle(limits.budget)
  /\ enum' = NotStarted
  /\ result' = Unanswered
  /\ published' = {}
  /\ UNCHANGED request
-----------------------------------------------------------------------------
(* disjoint_lower_bound(): a packing of disjoint sets, smallest mask first. *)
MaskLess(A, B) ==
  \/ Cardinality(A) < Cardinality(B)
  \/ Cardinality(A) = Cardinality(B) /\ A # B /\ Max(SymDiff(A, B)) \in B

(* Mutant of PackSet: sets that share an element are counted too. *)
PackEverySet(p, S) == [used |-> p.used \cup S, count |-> p.count + 1, todo |-> p.todo \ {S}]

PackSet(p, S) ==
  IF S \cap p.used # {} THEN [p EXCEPT !.todo = @ \ {S}]
  ELSE [used |-> p.used \cup S, count |-> p.count + 1, todo |-> p.todo \ {S}]

Pack ==
  /\ pc = "pack"
  /\ \E S \in packing.todo :
       /\ \A T \in packing.todo : T = S \/ MaskLess(S, T)
       /\ packing' = PackSet(packing, S)
  /\ UNCHANGED <<request, pc, size, oracle, enum, result, published>>

StartSize == IF packing.count = 0 THEN 1 ELSE packing.count

(* The sizes from the lower bound on, until one is feasible. *)
AskSize(k) ==
  /\ size' = k
  /\ oracle' = Enter(F, oracle, F, k, 0)

Packed ==
  /\ pc = "pack"
  /\ packing.todo = {}
  /\ pc' = "size"
  /\ AskSize(StartSize)
  /\ UNCHANGED <<request, packing, enum, result, published>>

(* The oracle is at work, for the solver or the verifier. *)
Asking == pc \in {"size", "ask", "verify"} /\ oracle.stack # <<>>

OracleTries ==
  /\ Asking
  /\ Trying(oracle)
  /\ oracle' = Try(F, oracle)
  /\ UNCHANGED <<request, pc, packing, size, enum, result, published>>

OracleReturns ==
  /\ Asking
  /\ ~Trying(oracle)
  /\ oracle' = Return(oracle)
  /\ UNCHANGED <<request, pc, packing, size, enum, result, published>>

SizeTooSmall ==
  /\ pc = "size"
  /\ oracle.stack = <<>>
  /\ ~oracle.ok /\ ~oracle.exhausted /\ size < MaxCandidates
  /\ AskSize(size + 1)
  /\ UNCHANGED <<request, pc, packing, enum, result, published>>

(* The greedy cover is published without a claim. *)
SizeUnproven ==
  /\ pc = "size"
  /\ oracle.stack = <<>>
  /\ ~oracle.ok
  /\ oracle.exhausted \/ size >= MaxCandidates
  /\ pc' = "greedy"
  /\ result' = [Unanswered EXCEPT !.status = "Indeterminate"]
  /\ UNCHANGED <<request, packing, size, oracle, enum, published>>

(* The enumerator gets what is left of the node budget; the oracle keeps counting
   against the whole budget. *)
SizeProven ==
  /\ pc = "size"
  /\ oracle.stack = <<>>
  /\ oracle.ok
  /\ pc' = "enumerate"
  /\ enum' = [NotStarted EXCEPT
                !.budget = IF limits.budget > oracle.nodes THEN limits.budget - oracle.nodes ELSE 1]
  /\ UNCHANGED <<request, packing, size, oracle, result, published>>
-----------------------------------------------------------------------------
(* SolutionEnumerator::run() *)

(* The constraints that the innermost call still has to cover, and its candidates:
   none when nothing is left of the size. *)
Open == Uncovered(F, enum.current)

Ahead ==
  IF Cardinality(enum.current) = size THEN {} ELSE {c \in C : c >= enum.next}

(* The innermost call returns to the loop that made it. *)
Backtrack(e) == [e EXCEPT !.current = @ \ {Max(@)}, !.next = Max(e.current) + 1]

FoundCover ==
  /\ pc = "enumerate"
  /\ ~enum.truncated
  /\ Open = {}
  /\ enum' = [Backtrack(enum) EXCEPT
                !.found = @ + 1,
                !.first = IF enum.found = 0 THEN enum.current ELSE @,
                !.truncated = enum.found + 1 >= limits.max_solutions]
  /\ UNCHANGED <<request, pc, packing, size, oracle, result, published>>

RunReturns ==
  /\ pc = "enumerate"
  /\ ~enum.truncated
  /\ Open # {} /\ Ahead = {} /\ enum.current # {}
  /\ enum' = Backtrack(enum)
  /\ UNCHANGED <<request, pc, packing, size, oracle, result, published>>

(* The loop looks at its next candidate.  One that covers nothing is skipped, any
   other is taken only if the oracle says that a cover follows. *)
LookAhead ==
  /\ pc = "enumerate"
  /\ ~enum.truncated
  /\ Open # {} /\ Ahead # {}
  /\ UNCHANGED <<request, packing, size, result, published>>

OutOfNodes ==
  /\ LookAhead
  /\ enum.nodes + 1 > enum.budget
  /\ enum' = [enum EXCEPT !.nodes = @ + 1, !.truncated = TRUE]
  /\ UNCHANGED <<pc, oracle>>

SkipCandidate ==
  /\ LookAhead
  /\ enum.nodes + 1 <= enum.budget
  /\ Rest(Open, Min(Ahead)) = Open
  /\ enum' = [enum EXCEPT !.nodes = @ + 1, !.next = Min(Ahead) + 1]
  /\ UNCHANGED <<pc, oracle>>

AskCandidate ==
  /\ LookAhead
  /\ enum.nodes + 1 <= enum.budget
  /\ Rest(Open, Min(Ahead)) # Open
  /\ enum' = [enum EXCEPT !.nodes = @ + 1]
  /\ pc' = "ask"
  /\ oracle' = Enter(F, oracle, Rest(Open, Min(Ahead)),
                     size - Cardinality(enum.current) - 1, Min(Ahead) + 1)

CandidateAnswered ==
  /\ pc = "ask"
  /\ oracle.stack = <<>>
  /\ pc' = "enumerate"
  /\ enum' = IF oracle.ok
             THEN [enum EXCEPT !.current = @ \cup {Min(Ahead)}, !.next = Min(Ahead) + 1]
             ELSE IF oracle.exhausted THEN [enum EXCEPT !.truncated = TRUE]
             ELSE [enum EXCEPT !.next = Min(Ahead) + 1]
  /\ UNCHANGED <<request, packing, size, oracle, result, published>>

(* The outermost call has returned. *)
Enumerated == enum.truncated \/ (Open # {} /\ Ahead = {} /\ enum.current = {})

CoverFound ==
  /\ pc = "enumerate"
  /\ Enumerated
  /\ enum.found > 0
  /\ Conclude([status |-> IF enum.found > 1 THEN "Ambiguous" ELSE "Resolved",
               elements |-> enum.first, optimal_size |-> size, optimality_proven |-> TRUE,
               uniqueness_proven |-> ~enum.truncated /\ enum.found = 1,
               truncated |-> enum.truncated, found |-> enum.found, witness |-> 0])
  /\ UNCHANGED <<request, packing, size, enum, published>>

(* The size is proven but no cover of that size was reached: the claim is revoked. *)
NoCoverFound ==
  /\ pc = "enumerate"
  /\ Enumerated
  /\ enum.found = 0
  /\ pc' = "greedy"
  /\ result' = [Unanswered EXCEPT !.status = "Indeterminate", !.optimal_size = size,
                                  !.truncated = enum.truncated]
  /\ UNCHANGED <<request, packing, size, oracle, enum, published>>
-----------------------------------------------------------------------------
(* greedy_localization(): most uncovered sets first, lowest index on a tie. *)
Gain(c) == Cardinality({S \in Uncovered(F, result.elements) : c \in S})

GreedyPick ==
  /\ pc = "greedy"
  /\ \E c \in C :
       /\ Gain(c) > 0
       /\ \A d \in C : Gain(d) < Gain(c) \/ (Gain(d) = Gain(c) /\ c <= d)
       /\ result' = [result EXCEPT !.elements = @ \cup {c}]
  /\ UNCHANGED <<request, pc, packing, size, oracle, enum, published>>

GreedyEnds ==
  /\ pc = "greedy"
  /\ \A c \in C : Gain(c) = 0
  /\ Conclude(result)
  /\ UNCHANGED <<request, packing, size, enum, published>>

Publish ==
  /\ pc = "verify"
  /\ oracle.stack = <<>>
  /\ pc' = "idle"
  /\ published' = {Answer(Request, result, oracle)}
  /\ UNCHANGED <<request, packing, size, oracle, enum, result>>

Next ==
  \/ \E p \in HopProbe : AddProbe(p)
  \/ \E S \in SUBSET Elements : AddSet(S)
  \/ RefuseRequest \/ AnswerDirectly \/ StartSearch
  \/ Pack \/ Packed
  \/ OracleTries \/ OracleReturns
  \/ SizeTooSmall \/ SizeUnproven \/ SizeProven
  \/ FoundCover \/ RunReturns \/ OutOfNodes \/ SkipCandidate \/ AskCandidate
  \/ CandidateAnswered \/ CoverFound \/ NoCoverFound
  \/ GreedyPick \/ GreedyEnds \/ Publish

Spec == Init /\ [][Next]_vars
-----------------------------------------------------------------------------
(* The node budget of the request is used up: the oracle's, which is all of it, or
   the enumerator's, which is what the proof of the size left. *)
BudgetSpent == oracle.nodes > limits.budget \/ enum.nodes > enum.budget

(* The enumeration of the minima ended before it could know that it had seen all. *)
CutShort(res) == res.truncated

(* A size that is reported is that of the minima; 0 reports none. *)
TrueSize(in, k) == k # 0 => \A H \in Minima(in) : Cardinality(H) = k

(* What a result says of a request is true. *)
Exact(in, res) ==
  /\ res.status = "ProvenInfeasible" <=> Localizations(in) = {}
  /\ res.status = "ProvenInfeasible" => in.failure_sets[res.witness] \cap Candidates(in) = {}
  /\ res.status = "Indeterminate" =>
       /\ res.elements \in Localizations(in)
       /\ ~res.optimality_proven /\ ~res.uniqueness_proven
       /\ BudgetSpent
  /\ res.optimality_proven =>
       /\ LexLeast(res.elements, Minima(in))
       /\ res.optimal_size = Cardinality(res.elements)
  /\ res.status = "Ambiguous" => Cardinality(Minima(in)) > 1
  /\ res.uniqueness_proven => Cardinality(Minima(in)) = 1
  /\ res.status = "Resolved" => res.uniqueness_proven \/ CutShort(res)
  /\ TrueSize(in, res.optimal_size)

(* What the search concludes and what is published is true, whatever the node budget
   and the solution cap cut off.  A proven optimum is the lexicographically least
   minimum, also when pruning by the shared, memoizing oracle was cut short;
   ambiguity and uniqueness are claimed only of systems that have them;
   infeasibility exactly when no localization exists, with a contradictory set as
   its witness.  The search is undecided only when its budget is spent, and then its
   answer still hits every set.  What the verifier rejects is published without
   elements and without a claim.
   Two sentences of the documentation hold with an exception.  README section 5
   (src/README.md:161) has Resolved mean a unique minimum: not when the enumeration
   is cut short behind its first cover (localizer.cpp:199 and 403), which is then
   Resolved with others unseen and uniqueness_proven false.  And optimal_size is "0
   when optimality was not proven" (localizer.hpp:99): not when the enumeration finds
   no cover (localizer.cpp:392) or the verifier rejects one, which take back the
   claim and leave the size; the size that is left is still the right one.  The
   enumeration is cut short only at the solution cap or at the end of a budget. *)
LocalizationExact ==
  /\ pc = "enumerate" /\ enum.truncated => enum.found >= limits.max_solutions \/ BudgetSpent
  /\ pc = "verify" => Exact(Request, result)
  /\ \A p \in {q \in published : q.outcome = "Ok"} :
       IF p.confirmed THEN Exact(Request, p.result)
       ELSE /\ p.result.status = "Indeterminate" /\ p.result.elements = {}
            /\ ~p.result.optimality_proven /\ ~p.result.uniqueness_proven
            /\ TrueSize(Request, p.result.optimal_size)
            /\ Localizations(Request) # {}

(* README section 5: "Every emitted result is re-validated by an independent
   verifier": what the solver answers is confirmed, so that a localization that
   was found is also published. *)
ResultsConfirmed == \A p \in published : p.outcome = "Ok" => p.confirmed

(* With the reference solver, the verifier confirms every answer of the search, and
   of all other answers that claim a proven optimum it accepts none: neither a
   larger or a later cover nor the right cover under a wrong size. *)
VerifierExact ==
  Cardinality(C) <= ReferenceMax =>
    /\ ResultsConfirmed
    /\ \A p \in {q \in published : q.result.optimality_proven} :
         \A H \in SUBSET C, k \in 0..limits.hop_count :
           Verified(Request, [p.result EXCEPT !.elements = H, !.optimal_size = k], oracle) =>
             H = p.result.elements /\ k = p.result.optimal_size
=============================================================================
