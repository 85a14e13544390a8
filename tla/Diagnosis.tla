----------------------------- MODULE Diagnosis ------------------------------
(***************************************************************************)
(* What evaluate() and restore() conclude from the live ledger: the        *)
(* classifier applied to evidence_for(scope) at the local time, for the    *)
(* generations a caller asks about.  The state is the ledger's; every      *)
(* verdict is a state function of it.                                      *)
(***************************************************************************)
EXTENDS EvidenceLedger, Classifier

CONSTANT Gens   \* generation vectors a caller may ask about

Verdict(s, g) == Classify(ItemsOf(s), clock, g)

Fenceable(s, g) == Corroborated(ItemsOf(s), clock, g)

Restored(s, g) == Restorable(ItemsOf(s), clock, g)

(* Everything admitted about a scope since the last reset, retained or not. *)
HeardOf(s) == {heard[n] : n \in {m \in 1..Len(heard) : heard[m].scope = s}}
-----------------------------------------------------------------------------
(* README section 3.1, the reference for rule 7: a scope is a blackhole exactly when
   some retained, exact, fresh, generation-matched observation is a complete
   failure, none is a clean success and no owner explains the loss. *)
BlackholeExact ==
  \A s \in Scopes, g \in Gens :
    LET counted == {e \in {ItemsOf(s)[n] : n \in DOMAIN ItemsOf(s)} :
                      /\ StructurallyValid(e)
                      /\ e.gens = g
                      /\ e.open <= clock /\ clock < e.close
                      /\ e.exact \/ ~RequireExact}
    IN Verdict(s, g).class = "Blackhole" <=>
         /\ \E e \in counted : e.kind = "Delivery" /\ IsComplete(e)
         /\ \A e \in counted : /\ e.kind \notin {"Withdrawal", "Partition", "Congestion"}
                               /\ ~(e.kind = "Delivery" /\ IsClean(e))

(* A scope is never fenceable under one generation vector and restorable under
   another at the same time, when the policy asks for full agreement: two callers
   with different views cannot make it flap. *)
SingleVerdict ==
  RequireAgreement =>
    \A s \in Scopes, g, h \in Gens : ~(Fenceable(s, g) /\ Restored(s, h))

(* Two of the observations come from instances of one source, before and after it
   restarted. *)
RestartedSource(obs) == \E d, e \in obs : d.source # e.source /\ d.source.id = e.source.id

(* README section 3.4: a corroborated blackhole rests on complete failures that
   enough sources really sent since the last reset, whatever was evicted since; one
   source instance repeating itself, or replaying, is one source.  The code counts
   source instances (a set of SourceRef, classifier.cpp:49 and 124), where the README
   (src/README.md:103) and policy.hpp:27 ask for distinct source ids.  So the number
   of ids has an exception: a source that restarted while its first report was fresh
   is counted twice, and can corroborate itself. *)
QuorumHeard ==
  \A s \in Scopes, g \in Gens : Fenceable(s, g) =>
    LET failing == {e \in HeardOf(s) : /\ e.kind = "Delivery" /\ IsComplete(e)
                                       /\ e.gens = g /\ FreshAt(e, clock)}
    IN /\ Cardinality({e.source : e \in failing}) >= MinSources
       /\ Cardinality({e.source.inc : e \in failing}) >= MinIncarnations
       /\ \/ Cardinality({e.source.id : e \in failing}) >= MinSources
          \/ RestartedSource(failing)

(* README section 3.7: a restoration rests on clean deliveries of enough sources that
   are still fresh, and on no retained complete failure of delivery and no partition
   or congestion signal under the same generations.  (A withdrawal does not stand
   against it: classify() passes over one where delivery succeeded.) *)
RestorationPositive ==
  \A s \in Scopes, g \in Gens : Restored(s, g) =>
    LET its == {ItemsOf(s)[n] : n \in 1..Len(ItemsOf(s))}
        now == {e \in its : e.gens = g /\ FreshAt(e, clock) /\ (e.exact \/ ~RequireExact)}
        delivered == {e \in now : e.kind = "Delivery" /\ IsClean(e)}
    IN /\ Cardinality({e.source : e \in delivered}) >= RestoreSources
       /\ \A e \in now : /\ ~(e.kind = "Delivery" /\ IsComplete(e))
                         /\ e.kind \notin {"Partition", "Congestion"}

(* README section 3.1: contradictory observations degrade to UNKNOWN.  While nothing
   was evicted, no blackhole is found although a clean success under the same
   generations was admitted and is still fresh, whatever came after it. *)
Contradicted(s, g) ==
  \E e \in HeardOf(s) :
    e.kind = "Delivery" /\ e.exact /\ e.gens = g /\ IsClean(e) /\ FreshAt(e, clock)

ContradictionKept ==
  stats.dropped = 0 =>
    \A s \in Scopes, g \in Gens : Contradicted(s, g) => Verdict(s, g).class # "Blackhole"
=============================================================================
