---------------------------- MODULE FenceRegistry ----------------------------
(***************************************************************************)
(* The FenceRegistry class on its own: every public operation, called in   *)
(* any order.  The two-phase issue (stage, then commit_staged once the     *)
(* durable record is confirmed) leaves a window in which other intents may *)
(* be staged, committed, expired or revoked.                               *)
(***************************************************************************)
EXTENDS Fences

CONSTANTS
  Boots,       \* coordinator boots the owner passes in
  MaxTime,     \* bound on the wall clock
  MaxAttempts  \* bound on issue_attempts

ASSUME RegistryAssumption ==
  /\ Boots \subseteq Nat
  /\ MaxTime \in Nat
  /\ MaxAttempts \in Nat

VARIABLES
  clock,    \* the wall clock the owner reads; it may be set back
  records,  \* records_
  staged,   \* intents minted by stage() whose commit_staged() has not come yet
  stats     \* stats_ (FenceStats)

vars == <<clock, records, staged, stats>>

FenceStats ==
  [issue_attempts : Nat, issued : Nat, open : Int, revoked : Nat, expired : Nat,
   fenced_by_restart : Nat, duplicates_refused : Nat, capacity_refused : Nat]

Init ==
  /\ clock = 0
  /\ records = {}
  /\ staged = {}
  /\ stats = [issue_attempts |-> 0, issued |-> 0, open |-> 0, revoked |-> 0,
              expired |-> 0, fenced_by_restart |-> 0, duplicates_refused |-> 0,
              capacity_refused |-> 0]

(* An attempt whose subject, generations or owner identity is incomplete. *)
RefuseInvalid ==
  /\ stats.issue_attempts < MaxAttempts
  /\ stats' = [stats EXCEPT !.issue_attempts = @ + 1]
  /\ UNCHANGED <<clock, records, staged>>

RefuseDuplicate(scope, gens) ==
  /\ stats.issue_attempts < MaxAttempts
  /\ HasDuplicate(records, scope, gens)
  /\ stats' = [stats EXCEPT !.issue_attempts = @ + 1, !.duplicates_refused = @ + 1]
  /\ UNCHANGED <<clock, records, staged>>

RefuseCapacity(scope, gens) ==
  /\ stats.issue_attempts < MaxAttempts
  /\ ~HasDuplicate(records, scope, gens)
  /\ AtCapacity(records)
  /\ stats' = [stats EXCEPT !.issue_attempts = @ + 1, !.capacity_refused = @ + 1]
  /\ UNCHANGED <<clock, records, staged>>

Mint(scope, gens, boot) ==
  MintIntent(scope, gens, boot, clock, stats.issue_attempts + 1)

MayMint(scope, gens) ==
  /\ stats.issue_attempts < MaxAttempts
  /\ ~HasDuplicate(records, scope, gens)
  /\ ~AtCapacity(records)

(* issue(): minted and stored in one call. *)
Issue(scope, gens, boot) ==
  /\ MayMint(scope, gens)
  /\ records' = records \cup {NewRecord(Mint(scope, gens, boot))}
  /\ stats' = [stats EXCEPT !.issue_attempts = @ + 1, !.issued = @ + 1, !.open = @ + 1]
  /\ UNCHANGED <<clock, staged>>

(* stage(): minted, the registry unchanged. *)
Stage(scope, gens, boot) ==
  /\ MayMint(scope, gens)
  /\ staged' = staged \cup {Mint(scope, gens, boot)}
  /\ stats' = [stats EXCEPT !.issue_attempts = @ + 1]
  /\ UNCHANGED <<clock, records>>

(* commit_staged(): published only if the guards still hold. *)
CommitStaged(i) ==
  /\ staged' = staged \ {i}
  /\ IF CanCommitStaged(records, i)
       THEN /\ records' = records \cup {NewRecord(i)}
            /\ stats' = [stats EXCEPT !.issued = @ + 1, !.open = @ + 1]
       ELSE UNCHANGED <<records, stats>>
  /\ UNCHANGED clock

(* The owner gives a staged intent up: its durable record was refused. *)
AbandonStaged(i) ==
  /\ staged' = staged \ {i}
  /\ UNCHANGED <<clock, records, stats>>

ExpireOnUse(r) ==
  /\ IsOpen(r) /\ LapsedAt(r, clock)
  /\ records' = Replace(records, r, Expired(r))
  /\ stats' = [stats EXCEPT !.open = @ - 1, !.expired = @ + 1]

Acknowledge(r) ==
  /\ \/ ExpireOnUse(r)
     \/ /\ IsOpen(r) /\ ~LapsedAt(r, clock)
        /\ records' = Replace(records, r, Acknowledged(r))
        /\ UNCHANGED stats
  /\ UNCHANGED <<clock, staged>>

ReportEffect(r, verified) ==
  /\ \/ ExpireOnUse(r)
     \/ /\ IsOpen(r) /\ ~LapsedAt(r, clock)
        /\ records' = Replace(records, r, EffectReported(r, verified))
        /\ UNCHANGED stats
  /\ UNCHANGED <<clock, staged>>

(* Mutant of Revoke: the terminal counter is forgotten. *)
RevokeUncounted(r) ==
  /\ IsOpen(r)
  /\ records' = Replace(records, r, Revoked(r))
  /\ stats' = [stats EXCEPT !.open = @ - 1]
  /\ UNCHANGED <<clock, staged>>

Revoke(r) ==
  /\ IsOpen(r)
  /\ records' = Replace(records, r, Revoked(r))
  /\ stats' = [stats EXCEPT !.open = @ - 1, !.revoked = @ + 1]
  /\ UNCHANGED <<clock, staged>>

Revalidate(current) ==
  LET lapsed == {r \in OpenIn(records) : LapsedAt(r, clock)}
      moved == {r \in OpenIn(records) \ lapsed : r.intent.gens # current}
  IN /\ records' = {Revalidated(r, clock, current) : r \in records}
     /\ stats' = [stats EXCEPT !.open = @ - Cardinality(lapsed) - Cardinality(moved),
                               !.expired = @ + Cardinality(lapsed),
                               !.revoked = @ + Cardinality(moved)]
     /\ UNCHANGED <<clock, staged>>

FencedByRestart(r) == IF IsOpen(r) THEN [r EXCEPT !.lifecycle = "FencedByRestart"] ELSE r

FenceAll ==
  /\ OpenIn(records) # {}
  /\ records' = {FencedByRestart(r) : r \in records}
  /\ stats' = [stats EXCEPT !.open = @ - Cardinality(OpenIn(records)),
                            !.fenced_by_restart = @ + Cardinality(OpenIn(records))]
  /\ UNCHANGED <<clock, staged>>

(* clear(): the records go, the cumulative counters stay. *)
Clear ==
  /\ records' = {}
  /\ UNCHANGED <<clock, staged, stats>>

SetClock(t) ==
  /\ clock' = t
  /\ UNCHANGED <<records, staged, stats>>

Next ==
  \/ RefuseInvalid
  \/ \E scope \in Scopes, gens \in Gens :
       \/ RefuseDuplicate(scope, gens)
       \/ RefuseCapacity(scope, gens)
       \/ \E boot \in Boots : Issue(scope, gens, boot) \/ Stage(scope, gens, boot)
  \/ \E i \in staged : CommitStaged(i) \/ AbandonStaged(i)
  \/ \E r \in records :
       \/ Acknowledge(r)
       \/ \E verified \in BOOLEAN : ReportEffect(r, verified)
       \/ Revoke(r)
  \/ \E gens \in Gens : Revalidate(gens)
  \/ FenceAll
  \/ Clear
  \/ \E t \in 0..MaxTime : SetClock(t)

Spec == Init /\ [][Next]_vars
-----------------------------------------------------------------------------
(* The records are fence records, the counters are counters. *)
TypeOK ==
  /\ clock \in Nat
  /\ records \subseteq FenceRecord
  /\ staged \subseteq FenceIntent
  /\ stats \in FenceStats

(* authority.hpp: "Refuses with Duplicate when an open intent already exists for
   the same subject under the same generation vector".  It must survive the
   window between stage() and commit_staged(), in which a second intent of the
   same subject may be staged and committed. *)
OneOpenPerSubject ==
  \A r, s \in OpenIn(records) :
    r.intent.scope = s.intent.scope /\ r.intent.gens = s.intent.gens => r = s

(* FenceStats::accounting_closed, second line: every intent issued is counted
   as open or under exactly one terminal state, whichever of the five paths
   closed it.  stats_.open never counts fewer fences than records_ holds open;
   it may count more, for clear() forgets the records and keeps the count. *)
LifecycleAccounting ==
  /\ stats.issued = stats.open + stats.revoked + stats.expired + stats.fenced_by_restart
  /\ stats.open >= Cardinality(OpenIn(records))

(* A terminal record is never reopened or rewritten, even if the wall clock is
   set back behind its expiry. *)
TerminalIsFinal ==
  [][~Clear => \A r \in records : ~IsOpen(r) => r \in records']_vars
=============================================================================
