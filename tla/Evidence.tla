------------------------------ MODULE Evidence ------------------------------
(***************************************************************************)
(* Delivery evidence (domain/evidence.hpp, domain/evidence.cpp).  An       *)
(* observation is a record                                                 *)
(*   [source, scope, gens, seq, attempt, observed_at, open, close, kind,   *)
(*    exact, attempts, failures, loss]                                     *)
(* where a source is [id, boot, inc] (the same id after a restart is       *)
(* another source instance), attempt = 0 is the nil attempt id,            *)
(* [open, close) is the freshness window the source gives, loss is in      *)
(* units of which TotalLoss is the whole, and the kind "Delivery" stands   *)
(* for the three kinds that measure delivery (success, failure, loss),     *)
(* which the code treats alike.                                            *)
(***************************************************************************)
EXTENDS Integers, Sequences, FiniteSets

CONSTANTS
  TotalLoss,      \* kLossTotalPpm
  CompleteLoss    \* policy.complete_failure_ppm

ASSUME EvidenceAssumption ==
  /\ TotalLoss \in Nat \ {0}
  /\ CompleteLoss \in 1..TotalLoss

(* structurally_valid(), without the tests that an identifier is not nil. *)
StructurallyValid(e) ==
  /\ e.seq > 0
  /\ e.loss <= TotalLoss
  /\ e.failures <= e.attempts
  /\ e.observed_at # 0
  /\ e.open < e.close
  /\ e.observed_at < e.close
  /\ e.kind = "Delivery" => e.attempts > 0

FreshAt(e, now) == e.open <= now /\ now < e.close

IsComplete(e) == e.loss >= CompleteLoss /\ e.failures > 0 /\ e.failures = e.attempts

IsClean(e) == e.failures = 0 /\ e.attempts > 0 /\ e.loss = 0
=============================================================================
