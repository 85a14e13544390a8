----------------------------- MODULE Classifier -----------------------------
(***************************************************************************)
(* The deterministic classifier (diagnosis/classifier.cpp) and the rules   *)
(* that read its result: evaluate_corroboration() for fencing and          *)
(* evaluate_restoration() (authority/authority.cpp) for restoring.  All    *)
(* are pure functions of the evidence retained for a scope, the local time *)
(* and the generation vector of the request.                               *)
(***************************************************************************)
EXTENDS Evidence, SequencesExt

CONSTANTS
  MinSources,           \* policy.min_corroborating_sources
  MinIncarnations,      \* policy.min_distinct_incarnations
  MinAttempts,          \* policy.min_total_attempts
  RequireExact,         \* policy.require_exact_quality
  RequireAgreement,     \* policy.require_full_generation_agreement
  RestoreSources,       \* policy.restore_min_sources
  RestoreIncarnations,  \* policy.restore_min_incarnations
  RestoreSuccesses      \* policy.restore_min_successes

(* validate_policy(), as far as the classifier depends on it: every other value is
   refused when the engine is built. *)
ValidPolicy ==
  /\ MinSources \in Nat /\ MinIncarnations \in Nat
  /\ 2 <= MinIncarnations /\ MinIncarnations <= MinSources
  /\ MinAttempts \in Nat \ {0}
  /\ {RequireExact, RequireAgreement} \subseteq BOOLEAN
  /\ {RestoreSources, RestoreIncarnations, RestoreSuccesses} \subseteq Nat \ {0}

ASSUME PolicyAssumption == ValidPolicy

(* The census: which positions of the evidence fall in which class.  An
   observation is in the first class that takes it: invalid, of other
   generations, stale, below the quality, usable. *)
Mismatched(ev, gens) ==
  {n \in DOMAIN ev : StructurallyValid(ev[n]) /\ ev[n].gens # gens}

Stale(ev, now, gens) ==
  {n \in DOMAIN ev : /\ StructurallyValid(ev[n])
                     /\ ev[n].gens = gens
                     /\ ~FreshAt(ev[n], now)}

(* Mutant of Usable: freshness is not looked at. *)
UsableEver(ev, now, gens) ==
  {n \in DOMAIN ev : /\ StructurallyValid(ev[n])
                     /\ ev[n].gens = gens
                     /\ RequireExact => ev[n].exact}

Usable(ev, now, gens) ==
  {n \in DOMAIN ev : /\ StructurallyValid(ev[n])
                     /\ ev[n].gens = gens
                     /\ FreshAt(ev[n], now)
                     /\ RequireExact => ev[n].exact}

OfKind(ev, now, gens, kind) == {n \in Usable(ev, now, gens) : ev[n].kind = kind}

CompleteFailures(ev, now, gens) ==
  {n \in OfKind(ev, now, gens, "Delivery") : IsComplete(ev[n])}

CleanSuccesses(ev, now, gens) ==
  {n \in OfKind(ev, now, gens, "Delivery") : IsClean(ev[n])}

(* max_loss_ppm > 0 *)
SomeLoss(ev, now, gens) ==
  \E n \in OfKind(ev, now, gens, "Delivery") : ev[n].loss > 0

SourcesOf(ev, P) == {ev[n].source : n \in P}

IncarnationsOf(ev, P) == {s.inc : s \in SourcesOf(ev, P)}

AttemptsOf(ev, P) == FoldLeft(LAMBDA sum, n : sum + ev[n].attempts, 0, SetToSeq(P))

Result(outcome, class) == [outcome |-> outcome, class |-> class]

(* The rules, in the order of the code. *)
Classify(ev, now, gens) ==
  LET Signalled(kind) == OfKind(ev, now, gens, kind) # {}
      failing == CompleteFailures(ev, now, gens) # {}
      clean == CleanSuccesses(ev, now, gens) # {}
  IN IF ev = <<>> THEN Result("NoEvidence", "NoEvidence")
     ELSE IF Usable(ev, now, gens) = {} THEN
       IF Stale(ev, now, gens) \cup Mismatched(ev, gens) # {}
       THEN Result("Stale", "Unknown") ELSE Result("Unknown", "Unknown")
     ELSE IF Signalled("Withdrawal") /\ ~clean THEN Result("Unsupported", "Unknown")
     ELSE IF Signalled("Partition") THEN Result("Ok", "Partitioned")
     ELSE IF Signalled("Congestion") THEN Result("Ok", "Congested")
     ELSE IF failing /\ clean THEN Result("Conflict", "Unknown")
     ELSE IF failing THEN Result("Ok", "Blackhole")
     ELSE IF SomeLoss(ev, now, gens) THEN Result("Ok", "Lossy")
     ELSE Result("Ok", "Healthy")

(* Mutant of Corroborated: evidence of other generations is ignored. *)
CorroboratedDespiteMismatch(ev, now, gens) ==
  LET failing == CompleteFailures(ev, now, gens)
  IN /\ Classify(ev, now, gens) = Result("Ok", "Blackhole")
     /\ Cardinality(SourcesOf(ev, failing)) >= MinSources
     /\ Cardinality(IncarnationsOf(ev, failing)) >= MinIncarnations
     /\ AttemptsOf(ev, failing) >= MinAttempts

(* Mutant of Corroborated: observations are counted instead of sources. *)
CorroboratedByCount(ev, now, gens) ==
  LET failing == CompleteFailures(ev, now, gens)
  IN /\ Classify(ev, now, gens) = Result("Ok", "Blackhole")
     /\ Cardinality(failing) >= MinSources
     /\ AttemptsOf(ev, failing) >= MinAttempts
     /\ RequireAgreement => Mismatched(ev, gens) = {}

(* evaluate_corroboration(). *)
Corroborated(ev, now, gens) ==
  LET failing == CompleteFailures(ev, now, gens)
  IN /\ Classify(ev, now, gens) = Result("Ok", "Blackhole")
     /\ Cardinality(SourcesOf(ev, failing)) >= MinSources
     /\ Cardinality(IncarnationsOf(ev, failing)) >= MinIncarnations
     /\ AttemptsOf(ev, failing) >= MinAttempts
     /\ RequireAgreement => Mismatched(ev, gens) = {}

(* Mutant of Restorable: the absence of a blackhole is taken for health. *)
RestorableUnlessBlackhole(ev, now, gens) ==
  LET clean == CleanSuccesses(ev, now, gens)
  IN /\ Classify(ev, now, gens).class # "Blackhole"
     /\ Cardinality(SourcesOf(ev, clean)) >= RestoreSources
     /\ Cardinality(IncarnationsOf(ev, clean)) >= RestoreIncarnations
     /\ AttemptsOf(ev, clean) >= RestoreSuccesses

(* evaluate_restoration(), the verdict `authorized'. *)
Restorable(ev, now, gens) ==
  LET clean == CleanSuccesses(ev, now, gens)
  IN /\ Classify(ev, now, gens) = Result("Ok", "Healthy")
     /\ Cardinality(SourcesOf(ev, clean)) >= RestoreSources
     /\ Cardinality(IncarnationsOf(ev, clean)) >= RestoreIncarnations
     /\ AttemptsOf(ev, clean) >= RestoreSuccesses
=============================================================================
