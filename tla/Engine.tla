------------------------------- MODULE Engine -------------------------------
(***************************************************************************)
(* The coordinator (service/engine.cpp): diagnosis, fencing, restoration   *)
(* and restart over one durable store.  One mutex serialises the calls, so *)
(* `call' is the critical section in progress; its steps end at the points *)
(* where the process may die with something new on disk (a durable commit) *)
(* or where the wall clock is read again.  localize() is the one call that *)
(* leaves the mutex and takes it a second time.                            *)
(*                                                                         *)
(* A diagnosis is an input: what the classifier makes of the evidence is   *)
(* modelled in Classifier.  A durable commit succeeds or is refused        *)
(* (journal bound, I/O error); how the bytes survive is modelled in Store. *)
(***************************************************************************)
EXTENDS Fences

CONSTANTS
  Callers,     \* threads that may be in localize()
  MaxTime,     \* bound on the wall clock
  MaxBoots,    \* bound on the number of opens
  MaxAttempts  \* bound on issue_attempts of one process

ASSUME EngineAssumption ==
  /\ MaxTime \in Nat
  /\ MaxBoots \in Nat
  /\ MaxAttempts \in Nat

VARIABLES
  clock,        \* the wall clock; it may be set back
  boot,         \* the boot identity of the store; 0 before the first open
  storeOpen,    \* Store::opened_
  opened,       \* Engine::opened_
  records,      \* fences_.records_
  stats,        \* the issue counters of fences_.stats_
  durable,      \* the fence states a replay of the store would yield
  interrupted,  \* intents with a durable interruption record
  lineage,      \* intents named by a durable decision record
  call,         \* the critical section in progress
  inflight      \* per caller: the decision held between localize()'s two sections

volatile == <<storeOpen, opened, records, stats, call, inflight>>
vars == <<clock, boot, durable, interrupted, lineage, volatile>>

Stages == {"None", "Observation", "Eligibility", "Authorization", "Intent"}

(* What a decision depends on: no evidence; evidence of anything that neither
   fences nor restores; a blackhole without and with corroboration; healthy with
   the restoration thresholds met. *)
Diagnoses == {"NoEvidence", "Inconclusive", "Uncorroborated", "Corroborated", "Restorable"}

StageOf(diag) ==
  CASE diag = "NoEvidence" -> "None"
    [] diag = "Uncorroborated" -> "Eligibility"
    [] diag = "Corroborated" -> "Authorization"
    [] OTHER -> "Observation"

Idle == [pc |-> "idle", todo |-> {}, intent |-> {}]

EvalCall ==
  [pc : {"revoking", "intent", "withdraw", "decide"},
   op : {"evaluate", "localize", "restore"}, caller : Callers,
   scope : Scopes, gens : Gens, at : Nat, stage : Stages,
   todo : SUBSET FenceIntent, intent : SUBSET FenceIntent]

OpenCall ==
  [pc : {"boot", "fencing"}, todo : SUBSET FenceIntent, intent : SUBSET FenceIntent]

IssueStats ==
  [issue_attempts : Nat, issued : Nat, duplicates_refused : Nat, capacity_refused : Nat]

NewStats ==
  [issue_attempts |-> 0, issued |-> 0, duplicates_refused |-> 0, capacity_refused |-> 0]

Init ==
  /\ clock = 0
  /\ boot = 0
  /\ storeOpen = FALSE
  /\ opened = FALSE
  /\ records = {}
  /\ stats = NewStats
  /\ durable = {}
  /\ interrupted = {}
  /\ lineage = {}
  /\ call = Idle
  /\ inflight = [c \in Callers |-> {}]

(* commit_fence_state(): the state of one fence replaces the earlier one. *)
Upsert(D, r) == {d \in D : d.intent # r.intent} \cup {r}

CommitFenceState(r, ok) == durable' = IF ok THEN Upsert(durable, r) ELSE durable
-----------------------------------------------------------------------------
(* open(): boot record, then every open fence of the past is fenced, an
   interruption first.  A refused commit fails the open and leaves the store
   open: a further open() is refused until the process restarts. *)

BeginOpen ==
  /\ call = Idle
  /\ ~opened /\ ~storeOpen
  /\ boot < MaxBoots
  /\ boot' = boot + 1
  /\ storeOpen' = TRUE
  /\ call' = [pc |-> "boot", todo |-> {}, intent |-> {}]
  /\ UNCHANGED <<clock, opened, records, stats, durable, interrupted, lineage, inflight>>

(* Mutant of CommitBoot: open() skips the fences of the past. *)
BootWithoutFencing(ok) ==
  /\ call.pc = "boot"
  /\ call' = IF ok THEN [pc |-> "fencing", todo |-> {}, intent |-> {}] ELSE Idle
  /\ UNCHANGED <<clock, boot, storeOpen, opened, records, stats, durable,
                 interrupted, lineage, inflight>>

CommitBoot(ok) ==
  /\ call.pc = "boot"
  /\ call' = IF ok THEN [pc |-> "fencing",
                         todo |-> {d.intent : d \in OpenIn(durable)},
                         intent |-> {}]
                   ELSE Idle
  /\ UNCHANGED <<clock, boot, storeOpen, opened, records, stats, durable,
                 interrupted, lineage, inflight>>

CommitInterruption(i, ok) ==
  /\ call.pc = "fencing"
  /\ i \in call.todo /\ call.intent = {}
  /\ interrupted' = IF ok THEN interrupted \cup {i} ELSE interrupted
  /\ call' = IF ok THEN [call EXCEPT !.intent = {i}] ELSE Idle
  /\ UNCHANGED <<clock, boot, storeOpen, opened, records, stats, durable, lineage, inflight>>

(* Mutant of CommitRestartFence: the fence is closed before its interruption is on disk. *)
RestartFenceFirst(d, ok) ==
  /\ call.pc = "fencing"
  /\ d.intent \in call.todo
  /\ CommitFenceState([d EXCEPT !.lifecycle = "FencedByRestart"], ok)
  /\ call' = IF ok THEN [call EXCEPT !.todo = @ \ {d.intent}, !.intent = {}] ELSE Idle
  /\ UNCHANGED <<clock, boot, storeOpen, opened, records, stats, interrupted, lineage, inflight>>

CommitRestartFence(d, ok) ==
  /\ call.pc = "fencing"
  /\ d.intent \in call.intent
  /\ CommitFenceState([d EXCEPT !.lifecycle = "FencedByRestart"], ok)
  /\ call' = IF ok THEN [call EXCEPT !.todo = @ \ {d.intent}, !.intent = {}] ELSE Idle
  /\ UNCHANGED <<clock, boot, storeOpen, opened, records, stats, interrupted, lineage, inflight>>

FinishOpen ==
  /\ call.pc = "fencing"
  /\ call.todo = {}
  /\ opened' = TRUE
  /\ records' = {}
  /\ call' = Idle
  /\ UNCHANGED <<clock, boot, storeOpen, stats, durable, interrupted, lineage, inflight>>

(* Mutant of Close: the registry is not cleared. *)
CloseKeepsFences ==
  /\ call = Idle
  /\ opened
  /\ opened' = FALSE
  /\ storeOpen' = FALSE
  /\ UNCHANGED <<clock, boot, records, stats, durable, interrupted, lineage, call, inflight>>

Close ==
  /\ call = Idle
  /\ opened
  /\ opened' = FALSE
  /\ storeOpen' = FALSE
  /\ records' = {}
  /\ UNCHANGED <<clock, boot, stats, durable, interrupted, lineage, call, inflight>>

(* The process dies, inside a critical section or not. *)
Crash ==
  /\ storeOpen' = FALSE
  /\ opened' = FALSE
  /\ records' = {}
  /\ stats' = NewStats
  /\ call' = Idle
  /\ inflight' = [c \in Callers |-> {}]
  /\ UNCHANGED <<clock, boot, durable, interrupted, lineage>>

SetClock(t) ==
  /\ clock' = t
  /\ UNCHANGED <<boot, durable, interrupted, lineage, volatile>>
-----------------------------------------------------------------------------
(* evaluate(), localize() and restore() start alike: every open fence is
   revalidated against the generations of this call, then the terminal states
   are committed one by one; a refused commit is counted and passed over. *)

Begin(op, c, scope, gens) ==
  /\ call = Idle
  /\ opened
  /\ inflight[c] = {}
  /\ records' = {Revalidated(r, clock, gens) : r \in records}
  /\ call' = [pc |-> "revoking", op |-> op, caller |-> c, scope |-> scope, gens |-> gens,
              at |-> 0, stage |-> "None", intent |-> {},
              todo |-> {r.intent : r \in {s \in records : Revalidated(s, clock, gens) # s}}]
  /\ UNCHANGED <<clock, boot, storeOpen, opened, stats, durable, interrupted, lineage, inflight>>

CommitRevocation(r, ok) ==
  /\ call.pc = "revoking"
  /\ r.intent \in call.todo
  /\ CommitFenceState(r, ok)
  /\ call' = [call EXCEPT !.todo = @ \ {r.intent}]
  /\ UNCHANGED <<clock, boot, storeOpen, opened, records, stats, interrupted, lineage, inflight>>

Diagnosing == call.pc = "revoking" /\ call.todo = {}

Decide(stage, intent) ==
  call' = [call EXCEPT !.pc = "decide", !.at = clock, !.stage = stage, !.intent = intent]

(* No corroborated blackhole: nothing is staged. *)
DiagnoseOnly(diag) ==
  /\ Diagnosing /\ call.op # "restore"
  /\ diag # "Corroborated"
  /\ Decide(StageOf(diag), {})
  /\ UNCHANGED <<clock, boot, storeOpen, opened, records, stats, durable,
                 interrupted, lineage, inflight>>

Authorizing ==
  /\ Diagnosing /\ call.op # "restore"
  /\ stats.issue_attempts < MaxAttempts

(* stage() answers Duplicate: the decision carries the open fence of the scope. *)
StageDuplicate(r) ==
  /\ Authorizing
  /\ HasDuplicate(records, call.scope, call.gens)
  /\ r \in OpenFor(records, call.scope)
  /\ stats' = [stats EXCEPT !.issue_attempts = @ + 1, !.duplicates_refused = @ + 1]
  /\ Decide("Intent", {r.intent})
  /\ UNCHANGED <<clock, boot, storeOpen, opened, records, durable, interrupted,
                 lineage, inflight>>

StageExhausted ==
  /\ Authorizing
  /\ ~HasDuplicate(records, call.scope, call.gens)
  /\ AtCapacity(records)
  /\ stats' = [stats EXCEPT !.issue_attempts = @ + 1, !.capacity_refused = @ + 1]
  /\ Decide("Authorization", {})
  /\ UNCHANGED <<clock, boot, storeOpen, opened, records, durable, interrupted,
                 lineage, inflight>>

StageIntent ==
  /\ Authorizing
  /\ ~HasDuplicate(records, call.scope, call.gens)
  /\ ~AtCapacity(records)
  /\ stats' = [stats EXCEPT !.issue_attempts = @ + 1]
  /\ call' = [call EXCEPT !.pc = "intent", !.at = clock, !.stage = "Authorization",
                !.intent = {MintIntent(call.scope, call.gens, boot, clock,
                                       stats.issue_attempts + 1)}]
  /\ UNCHANGED <<clock, boot, storeOpen, opened, records, durable, interrupted,
                 lineage, inflight>>

(* Mutant of CommitIntent: the intent is published whether or not its record is durable. *)
PublishUncommitted(i, ok) ==
  /\ call.pc = "intent"
  /\ i \in call.intent
  /\ CommitFenceState(NewRecord(i), ok)
  /\ records' = records \cup {NewRecord(i)}
  /\ stats' = [stats EXCEPT !.issued = @ + 1]
  /\ call' = [call EXCEPT !.pc = "decide", !.stage = "Intent"]
  /\ UNCHANGED <<clock, boot, storeOpen, opened, interrupted, lineage, inflight>>

(* The intent is made durable, then published in memory. *)
CommitIntent(i, ok) ==
  /\ call.pc = "intent"
  /\ i \in call.intent
  /\ CommitFenceState(NewRecord(i), ok)
  /\ LET published == ok /\ CanCommitStaged(records, i)
     IN /\ records' = IF published THEN records \cup {NewRecord(i)} ELSE records
        /\ stats' = IF published THEN [stats EXCEPT !.issued = @ + 1] ELSE stats
        /\ call' = [call EXCEPT !.pc = "decide",
                                !.stage = IF published THEN "Intent" ELSE @,
                                !.intent = IF published THEN @ ELSE {}]
  /\ UNCHANGED <<clock, boot, storeOpen, opened, interrupted, lineage, inflight>>

(* restore() without an open fence, or refused by evaluate_restoration(). *)
RestoreUnfenced(diag) ==
  /\ Diagnosing /\ call.op = "restore"
  /\ diag = "Restorable" => OpenFor(records, call.scope) = {}
  /\ Decide(IF diag = "Restorable" THEN "Authorization"
            ELSE IF diag = "NoEvidence" THEN "None" ELSE "Observation", {})
  /\ UNCHANGED <<clock, boot, storeOpen, opened, records, stats, durable,
                 interrupted, lineage, inflight>>

RestoreFenced(r) ==
  /\ Diagnosing /\ call.op = "restore"
  /\ r \in OpenFor(records, call.scope)
  /\ call' = [call EXCEPT !.pc = "withdraw", !.at = clock, !.intent = {r.intent}]
  /\ UNCHANGED <<clock, boot, storeOpen, opened, records, stats, durable,
                 interrupted, lineage, inflight>>

(* Mutant of CommitWithdrawal: a refused revocation does not refuse the restoration. *)
AuthorizeRegardless(r, ok) ==
  /\ call.pc = "withdraw"
  /\ r.intent \in call.intent
  /\ CommitFenceState(Revoked(r), ok)
  /\ records' = IF ok THEN Replace(records, r, Revoked(r)) ELSE records
  /\ call' = [call EXCEPT !.pc = "decide", !.intent = {}, !.stage = "Authorization"]
  /\ UNCHANGED <<clock, boot, storeOpen, opened, stats, interrupted, lineage, inflight>>

(* Mutant of CommitWithdrawal: memory does not wait for the disk. *)
WithdrawInMemoryFirst(r, ok) ==
  /\ call.pc = "withdraw"
  /\ r.intent \in call.intent
  /\ CommitFenceState(Revoked(r), ok)
  /\ records' = Replace(records, r, Revoked(r))
  /\ call' = [call EXCEPT !.pc = "decide", !.intent = {}, !.stage = "Authorization"]
  /\ UNCHANGED <<clock, boot, storeOpen, opened, stats, interrupted, lineage, inflight>>

(* The revocation is durable before the fence is withdrawn in memory. *)
CommitWithdrawal(r, ok) ==
  /\ call.pc = "withdraw"
  /\ r.intent \in call.intent
  /\ CommitFenceState(Revoked(r), ok)
  /\ records' = IF ok THEN Replace(records, r, Revoked(r)) ELSE records
  /\ call' = [call EXCEPT !.pc = "decide", !.intent = {},
                          !.stage = IF ok THEN "Authorization" ELSE "Eligibility"]
  /\ UNCHANGED <<clock, boot, storeOpen, opened, stats, interrupted, lineage, inflight>>

(* commit_decision(); a refusal revokes the intent the decision carries, in
   memory only. *)
CommitDecision(ok) ==
  /\ call.pc = "decide"
  /\ lineage' = IF ok THEN lineage \cup call.intent ELSE lineage
  /\ records' = IF ok THEN records
                ELSE {IF IsOpen(r) /\ r.intent \in call.intent THEN Revoked(r) ELSE r
                        : r \in records}
  /\ inflight' = IF call.op = "localize"
                 THEN [inflight EXCEPT ![call.caller] = {IF ok THEN call.intent ELSE {}}]
                 ELSE inflight
  /\ call' = Idle
  /\ UNCHANGED <<clock, boot, storeOpen, opened, stats, durable, interrupted>>

(* The second section of localize(): the enriched decision is committed again,
   whatever happened to its fence, or to the engine, since the first. *)
FinishLocalize(c, intent, ok) ==
  /\ call = Idle
  /\ intent \in inflight[c]
  /\ ok => storeOpen
  /\ lineage' = IF ok THEN lineage \cup intent ELSE lineage
  /\ inflight' = [inflight EXCEPT ![c] = {}]
  /\ UNCHANGED <<clock, boot, storeOpen, opened, records, stats, durable, interrupted, call>>
-----------------------------------------------------------------------------
(* acknowledge_fence() and report_effect(): the record changes in memory, then
   its state is committed; an expiry met on the way is not. *)

ExpireOnUse(r) ==
  /\ call = Idle /\ opened
  /\ IsOpen(r) /\ LapsedAt(r, clock)
  /\ records' = Replace(records, r, Expired(r))
  /\ UNCHANGED <<clock, boot, storeOpen, opened, stats, durable, interrupted, lineage,
                 call, inflight>>

(* Mutant of UpdateOpen: a terminal record takes a late report. *)
UpdateAny(r, new, ok) ==
  /\ call = Idle /\ opened
  /\ ~LapsedAt(r, clock)
  /\ records' = Replace(records, r, new)
  /\ CommitFenceState(new, ok)
  /\ UNCHANGED <<clock, boot, storeOpen, opened, stats, interrupted, lineage, call, inflight>>

UpdateOpen(r, new, ok) ==
  /\ call = Idle /\ opened
  /\ IsOpen(r) /\ ~LapsedAt(r, clock)
  /\ records' = Replace(records, r, new)
  /\ CommitFenceState(new, ok)
  /\ UNCHANGED <<clock, boot, storeOpen, opened, stats, interrupted, lineage, call, inflight>>

AcknowledgeFence(r, ok) == UpdateOpen(r, Acknowledged(r), ok)

ReportEffect(r, verified, ok) == UpdateOpen(r, EffectReported(r, verified), ok)
-----------------------------------------------------------------------------
CallStep(ok) ==
  \/ CommitBoot(ok)
  \/ \E i \in call.todo : CommitInterruption(i, ok)
  \/ \E d \in durable : CommitRestartFence(d, ok)
  \/ \E r \in records : CommitRevocation(r, ok) \/ CommitWithdrawal(r, ok)
  \/ \E i \in call.intent : CommitIntent(i, ok)
  \/ CommitDecision(ok)

DiagnosisStep ==
  \/ \E diag \in Diagnoses : DiagnoseOnly(diag) \/ RestoreUnfenced(diag)
  \/ \E r \in records : StageDuplicate(r) \/ RestoreFenced(r)
  \/ StageExhausted
  \/ StageIntent

Request ==
  \/ BeginOpen
  \/ Close
  \/ \E c \in Callers, op \in {"evaluate", "localize", "restore"}, scope \in Scopes, gens \in Gens :
       Begin(op, c, scope, gens)
  \/ \E c \in Callers, ok \in BOOLEAN : \E intent \in inflight[c] : FinishLocalize(c, intent, ok)
  \/ \E r \in records :
       \/ ExpireOnUse(r)
       \/ \E ok \in BOOLEAN :
            \/ AcknowledgeFence(r, ok)
            \/ \E verified \in BOOLEAN : ReportEffect(r, verified, ok)

Next ==
  \/ Request
  \/ \E ok \in BOOLEAN : CallStep(ok)
  \/ FinishOpen
  \/ DiagnosisStep
  \/ Crash
  \/ \E t \in 0..MaxTime : SetClock(t)

Spec == Init /\ [][Next]_vars
-----------------------------------------------------------------------------
TypeOK ==
  /\ clock \in Nat
  /\ boot \in Nat
  /\ storeOpen \in BOOLEAN
  /\ opened \in BOOLEAN
  /\ records \subseteq FenceRecord
  /\ stats \in IssueStats
  /\ durable \subseteq FenceRecord
  /\ interrupted \subseteq FenceIntent
  /\ lineage \subseteq FenceIntent
  /\ call \in {Idle} \cup EvalCall \cup OpenCall
  /\ inflight \in [Callers -> SUBSET (SUBSET FenceIntent)]

(* Every open fence has the same generations: a call revalidates the fences of
   all scopes against the generations it was given, before it may add one. *)
UniformGens ==
  \A r, s \in OpenIn(records) : r.intent.gens = s.intent.gens

(* A scope has at most one open fence, of any generations.  The duplicate check
   compares scope and generations, while open_for() and restore() look at the
   scope only and take the first match: they are right because of this. *)
OneOpenPerScope ==
  \A r, s \in OpenIn(records) : r.intent.scope = s.intent.scope => r = s

(* README section 6: "a fencing intent is not allowed to exist in memory without its
   durable record"; the durable state is open too and never ahead of memory. *)
MemoryBackedByDisk ==
  \A r \in OpenIn(records) : \E d \in OpenIn(durable) :
    /\ d.intent = r.intent
    /\ d.lifecycle = "EffectReported" => r.lifecycle = "EffectReported"
    /\ d.lifecycle = "Acknowledged" => r.lifecycle # "Intent"

(* README section 3.8: pre-restart authority does not survive.  Once the engine is
   open, no fence of an earlier boot is open, in memory or on disk, however many
   crashes and failed opens went before. *)
NoPriorAuthority ==
  opened => \A r \in OpenIn(records) \cup OpenIn(durable) : r.intent.boot = boot

(* README section 6, step 6: each fence closed by a restart has its interruption on
   disk, also when the process dies between the two records. *)
InterruptionRecorded ==
  \A d \in durable : d.lifecycle = "FencedByRestart" => d.intent \in interrupted

(* A decision about to be published at stage INTENT carries a fence of its own
   scope, generations and boot that is open in memory and on disk, also when the
   fence is an older one found by the duplicate check. *)
DecisionIntentBacked ==
  call.pc = "decide" /\ call.intent # {} =>
    \A i \in call.intent :
      /\ call.stage = "Intent"
      /\ i.scope = call.scope /\ i.gens = call.gens /\ i.boot = boot
      /\ \E r \in OpenIn(records) : r.intent = i
      /\ \E d \in OpenIn(durable) : d.intent = i

(* A restoration that is authorized leaves no open fence on its scope, although
   restore() withdraws the first match only. *)
RestoredMeansUnfenced ==
  call.pc = "decide" /\ call.op = "restore" /\ call.stage = "Authorization" =>
    OpenFor(records, call.scope) = {}

(* A fence named by a durable decision, or by a decision on its way through
   localize(), has a durable fence record: lineage never dangles. *)
HasDurableRecord(i) == \E d \in durable : d.intent = i

LineageHasFence ==
  /\ \A i \in lineage : HasDurableRecord(i)
  /\ \A c \in Callers : \A I \in inflight[c] : \A i \in I : HasDurableRecord(i)

(* A durable terminal state is final: no late acknowledgement, effect report,
   withdrawal or restart rewrites it. *)
DurableTerminalFinal ==
  [][\A d \in durable : ~IsOpen(d) => d \in durable']_vars

(* A fence is withdrawn by restore() only once its revocation is on disk
   (engine.cpp: "without a durable revocation record, authority is not withdrawn in
   memory either"). *)
WithdrawnOnDiskFirst ==
  [][\A r \in OpenIn(records) :
       call.pc = "withdraw" /\ r \notin records' /\ opened' =>
         Revoked(r) \in records' /\ Revoked(r) \in durable']_vars
-----------------------------------------------------------------------------
(* The engine as an authority: what memory holds open is in force, what a replay of
   the store would find open is on record. *)
IntentsOf(R) == {r.intent : r \in R}

Authority ==
  INSTANCE FencingAuthority
    WITH serving <- opened,
         inForce <- IntentsOf(OpenIn(records)),
         onRecord <- IntentsOf(OpenIn(durable)),
         ended <- IntentsOf(durable \ OpenIn(durable))

(* The engine implements FencingAuthority: through refused commits, crashes at every
   commit, expiry, restart and the second section of localize(), each step is a
   grant, an end, a lapse, a start or a stop of serving, or none of them. *)
AuthorityRefined == Authority!Spec
=============================================================================
