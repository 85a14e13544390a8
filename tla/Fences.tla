------------------------------- MODULE Fences -------------------------------
(***************************************************************************)
(* Fencing intents and the rules of the fence registry                     *)
(* (authority/authority.hpp, authority/authority.cpp).  The registry is a  *)
(* std::map from a fence id to its record; the id is a hash of the         *)
(* intent's subject, generations, coordinator boot, issue time and the     *)
(* registry's issue_attempts counter, so an intent is its own identity     *)
(* here and the map is a set of records.  The operators are shared by      *)
(* FenceRegistry (the class) and Engine (its owner).                       *)
(***************************************************************************)
EXTENDS Integers, FiniteSets

CONSTANTS
  Scopes,     \* subjects a fence may name
  Gens,       \* generation vectors <path, topology, link_state, epoch>
  MaxFences,  \* policy.max_fences, the bound of the registry
  FenceTtl    \* policy.fence_ttl, in clock units

ASSUME FencesAssumption ==
  /\ MaxFences \in Nat \ {0}
  /\ FenceTtl \in Nat \ {0}

OpenStates == {"Intent", "Acknowledged", "EffectReported"}
TerminalStates == {"Revoked", "Expired", "FencedByRestart"}
FenceLifecycle == OpenStates \cup TerminalStates

FenceIntent ==
  [scope : Scopes, gens : Gens, boot : Nat, issued_at : Nat, serial : Nat]

FenceRecord ==
  [intent : FenceIntent, lifecycle : FenceLifecycle, effect_verified : BOOLEAN]

ExpiresAt(i) == i.issued_at + FenceTtl

IsOpen(r) == r.lifecycle \in OpenStates

OpenIn(R) == {r \in R : IsOpen(r)}

(* find(id): the record of an intent, as a set with at most one member. *)
Find(R, i) == {r \in R : r.intent = i}

(* open_for(scope): the open records of a subject, whatever their generations.
   The code returns the first one of the map. *)
OpenFor(R, scope) == {r \in OpenIn(R) : r.intent.scope = scope}

(* The guards of stage() and issue(), repeated by commit_staged(). *)
HasDuplicate(R, scope, gens) == \E r \in OpenFor(R, scope) : r.intent.gens = gens

AtCapacity(R) == Cardinality(R) >= MaxFences

(* Mutant of MintIntent: the intent is dated one lifetime back. *)
MintBackdated(scope, gens, boot, now, attempts) ==
  [scope |-> scope, gens |-> gens, boot |-> boot, issued_at |-> now - FenceTtl,
   serial |-> attempts]

MintIntent(scope, gens, boot, now, attempts) ==
  [scope |-> scope, gens |-> gens, boot |-> boot, issued_at |-> now, serial |-> attempts]

NewRecord(i) == [intent |-> i, lifecycle |-> "Intent", effect_verified |-> FALSE]

(* Mutant of CanCommitStaged: the duplicate check is not repeated. *)
CommitsAnyStaged(R, i) == Find(R, i) = {} /\ ~AtCapacity(R)

CanCommitStaged(R, i) ==
  /\ Find(R, i) = {}
  /\ ~HasDuplicate(R, i.scope, i.gens)
  /\ ~AtCapacity(R)

(* What acknowledge() and report_effect() do to an open record. *)
LapsedAt(r, now) == now >= ExpiresAt(r.intent)

Expired(r) == [r EXCEPT !.lifecycle = "Expired"]

Revoked(r) == [r EXCEPT !.lifecycle = "Revoked"]

Acknowledged(r) ==
  [r EXCEPT !.lifecycle = IF @ = "Intent" THEN "Acknowledged" ELSE @]

EffectReported(r, verified) ==
  [r EXCEPT !.lifecycle = "EffectReported", !.effect_verified = verified]

(* Mutant of Revalidated: a change of generations is not looked at. *)
RevalidatedByClock(r, now, current) == IF IsOpen(r) /\ LapsedAt(r, now) THEN Expired(r) ELSE r

(* Mutant of Revalidated: terminal records expire too. *)
RevalidatedAnyState(r, now, current) ==
  IF LapsedAt(r, now) THEN Expired(r)
  ELSE IF IsOpen(r) /\ r.intent.gens # current THEN Revoked(r)
  ELSE r

(* revalidate(now, current), the loop body: expiry is looked at first. *)
Revalidated(r, now, current) ==
  IF IsOpen(r) /\ LapsedAt(r, now) THEN Expired(r)
  ELSE IF IsOpen(r) /\ r.intent.gens # current THEN Revoked(r)
  ELSE r

Replace(R, old, new) == (R \ {old}) \cup {new}
=============================================================================
