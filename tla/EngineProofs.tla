---------------------------- MODULE EngineProofs ----------------------------
(***************************************************************************)
(* Proofs about Engine, for any set of subjects, generation vectors and    *)
(* callers and any bounds.                                                 *)
(***************************************************************************)
EXTENDS Engine, TLAPS

(* The record updates keep a fence record a fence record, of the same intent. *)
LEMMA RecordUpdates ==
  ASSUME NEW r \in FenceRecord
  PROVE  /\ Expired(r) \in FenceRecord /\ Expired(r).intent = r.intent /\ ~IsOpen(Expired(r))
         /\ Revoked(r) \in FenceRecord /\ Revoked(r).intent = r.intent /\ ~IsOpen(Revoked(r))
         /\ Acknowledged(r) \in FenceRecord /\ Acknowledged(r).intent = r.intent
         /\ IsOpen(r) => IsOpen(Acknowledged(r))
         /\ \A v \in BOOLEAN : /\ EffectReported(r, v) \in FenceRecord
                               /\ EffectReported(r, v).intent = r.intent
                               /\ IsOpen(EffectReported(r, v))
         /\ [r EXCEPT !.lifecycle = "FencedByRestart"] \in FenceRecord
  BY DEF FenceRecord, FenceLifecycle, OpenStates, TerminalStates, IsOpen, Expired, Revoked,
         Acknowledged, EffectReported

(* So does revalidation, which closes a record or leaves it alone. *)
LEMMA RevalidatedType ==
  ASSUME NEW r \in FenceRecord, NEW t, NEW g
  PROVE  /\ Revalidated(r, t, g) \in FenceRecord
         /\ Revalidated(r, t, g).intent = r.intent
         /\ IsOpen(Revalidated(r, t, g)) =>
              /\ Revalidated(r, t, g) = r
              /\ IsOpen(r)
              /\ r.intent.gens = g
         /\ Revalidated(r, t, g) # r => IsOpen(r)
  BY RecordUpdates DEF Revalidated

(* A minted intent has what it was minted from, *)
LEMMA IntentType ==
  ASSUME NEW scope \in Scopes, NEW gens \in Gens, NEW b \in Nat, NEW t \in Nat, NEW n \in Nat
  PROVE  /\ MintIntent(scope, gens, b, t, n) \in FenceIntent
         /\ MintIntent(scope, gens, b, t, n).scope = scope
         /\ MintIntent(scope, gens, b, t, n).gens = gens
         /\ MintIntent(scope, gens, b, t, n).boot = b
         /\ MintIntent(scope, gens, b, t, n).serial = n
  BY DEF MintIntent, FenceIntent

(* and the record that begins with it is open. *)
LEMMA NewRecordType ==
  ASSUME NEW i \in FenceIntent
  PROVE  NewRecord(i) \in FenceRecord /\ NewRecord(i).intent = i /\ IsOpen(NewRecord(i))
  BY DEF NewRecord, FenceRecord, FenceLifecycle, OpenStates, IsOpen

(* The steps of Next, named once so that a proof may go through them. *)
LEMMA NextCases ==
  ASSUME Next
  PROVE  \/ BeginOpen
         \/ Close
         \/ \E c \in Callers, op \in {"evaluate", "localize", "restore"},
               scope \in Scopes, gens \in Gens : Begin(op, c, scope, gens)
         \/ \E c \in Callers, ok \in BOOLEAN : \E intent \in inflight[c] :
               FinishLocalize(c, intent, ok)
         \/ \E r \in records : ExpireOnUse(r)
         \/ \E r \in records, ok \in BOOLEAN : AcknowledgeFence(r, ok)
         \/ \E r \in records, ok \in BOOLEAN, verified \in BOOLEAN :
               ReportEffect(r, verified, ok)
         \/ \E ok \in BOOLEAN : CommitBoot(ok)
         \/ \E i \in call.todo, ok \in BOOLEAN : CommitInterruption(i, ok)
         \/ \E d \in durable, ok \in BOOLEAN : CommitRestartFence(d, ok)
         \/ \E r \in records, ok \in BOOLEAN : CommitRevocation(r, ok)
         \/ \E r \in records, ok \in BOOLEAN : CommitWithdrawal(r, ok)
         \/ \E i \in call.intent, ok \in BOOLEAN : CommitIntent(i, ok)
         \/ \E ok \in BOOLEAN : CommitDecision(ok)
         \/ FinishOpen
         \/ \E diag \in Diagnoses : DiagnoseOnly(diag)
         \/ \E diag \in Diagnoses : RestoreUnfenced(diag)
         \/ \E r \in records : StageDuplicate(r)
         \/ \E r \in records : RestoreFenced(r)
         \/ StageExhausted
         \/ StageIntent
         \/ Crash
         \/ \E t \in 0..MaxTime : SetClock(t)
  BY DEF Next, Request, CallStep, DiagnosisStep

LEMMA RefusalCounted ==
  ASSUME NEW st \in IssueStats
  PROVE  /\ [st EXCEPT !.issue_attempts = @ + 1, !.duplicates_refused = @ + 1] \in IssueStats
         /\ [st EXCEPT !.issue_attempts = @ + 1, !.capacity_refused = @ + 1] \in IssueStats
<1>1. ASSUME NEW a \in Nat, NEW b \in Nat
      PROVE  /\ [st EXCEPT !.issue_attempts = a, !.duplicates_refused = b] \in IssueStats
             /\ [st EXCEPT !.issue_attempts = a, !.capacity_refused = b] \in IssueStats
  BY DEF IssueStats
<1>2. /\ st.issue_attempts + 1 \in Nat
      /\ st.duplicates_refused + 1 \in Nat
      /\ st.capacity_refused + 1 \in Nat
  BY DEF IssueStats
<1> QED BY <1>1, <1>2

(* An attempt moves the serial of the next intent on by one. *)
LEMMA AttemptCounted ==
  ASSUME NEW st \in IssueStats
  PROVE  /\ [st EXCEPT !.issue_attempts = @ + 1, !.duplicates_refused = @ + 1].issue_attempts
              >= st.issue_attempts
         /\ [st EXCEPT !.issue_attempts = @ + 1, !.capacity_refused = @ + 1].issue_attempts
              >= st.issue_attempts
         /\ [st EXCEPT !.issue_attempts = @ + 1].issue_attempts >= st.issue_attempts
  BY DEF IssueStats

(* The initial states and every step keep the state well typed. *)
LEMMA TypeInit == Init => TypeOK
<1> SUFFICES ASSUME Init PROVE TypeOK
  OBVIOUS
<1>1. stats \in IssueStats
  BY DEF Init, NewStats, IssueStats
<1>2. inflight \in [Callers -> SUBSET (SUBSET FenceIntent)]
  BY DEF Init
<1> QED BY <1>1, <1>2 DEF Init, TypeOK

LEMMA TypeStep == TypeOK /\ [Next]_vars => TypeOK'
<1> SUFFICES ASSUME TypeOK, [Next]_vars PROVE TypeOK'
  OBVIOUS
<1> USE DEF TypeOK
<1>1. CASE BeginOpen
  BY <1>1 DEF BeginOpen, OpenCall, Idle
<1>2. CASE Close
  BY <1>2 DEF Close
<1>3. ASSUME NEW c \in Callers, NEW op \in {"evaluate", "localize", "restore"},
             NEW scope \in Scopes, NEW gens \in Gens, Begin(op, c, scope, gens)
      PROVE  TypeOK'
  <2>1. records' \subseteq FenceRecord
    BY <1>3, RevalidatedType DEF Begin
  <2>2. {r.intent : r \in {s \in records : Revalidated(s, clock, gens) # s}} \subseteq FenceIntent
    BY DEF FenceRecord
  <2>3. call' \in EvalCall
    BY <1>3, <2>2 DEF Begin, EvalCall, Stages
  <2> QED BY <1>3, <2>1, <2>3 DEF Begin
<1>4. ASSUME NEW c \in Callers, NEW ok \in BOOLEAN, NEW intent \in inflight[c],
             FinishLocalize(c, intent, ok)
      PROVE  TypeOK'
  BY <1>4 DEF FinishLocalize
<1>5. ASSUME NEW r \in records, ExpireOnUse(r) PROVE TypeOK'
  BY <1>5, RecordUpdates DEF ExpireOnUse, Replace
<1>6. ASSUME NEW r \in records, NEW ok \in BOOLEAN, AcknowledgeFence(r, ok) PROVE TypeOK'
  BY <1>6, RecordUpdates DEF AcknowledgeFence, UpdateOpen, Replace, CommitFenceState, Upsert
<1>7. ASSUME NEW r \in records, NEW ok \in BOOLEAN, NEW verified \in BOOLEAN,
             ReportEffect(r, verified, ok)
      PROVE  TypeOK'
  BY <1>7, RecordUpdates DEF ReportEffect, UpdateOpen, Replace, CommitFenceState, Upsert
<1>8. ASSUME NEW ok \in BOOLEAN, CommitBoot(ok) PROVE TypeOK'
  <2>1. {d.intent : d \in OpenIn(durable)} \subseteq FenceIntent
    BY DEF OpenIn, FenceRecord
  <2> QED BY <1>8, <2>1 DEF CommitBoot, OpenCall
<1>9. ASSUME NEW i \in call.todo, NEW ok \in BOOLEAN, CommitInterruption(i, ok) PROVE TypeOK'
  <2>1. call \in OpenCall
    BY <1>9 DEF CommitInterruption, EvalCall, Idle
  <2> QED BY <1>9, <2>1 DEF CommitInterruption, OpenCall
<1>10. ASSUME NEW d \in durable, NEW ok \in BOOLEAN, CommitRestartFence(d, ok) PROVE TypeOK'
  <2>1. call \in OpenCall
    BY <1>10 DEF CommitRestartFence, EvalCall, Idle
  <2>2. durable' \subseteq FenceRecord
    BY <1>10, RecordUpdates DEF CommitRestartFence, CommitFenceState, Upsert
  <2> QED BY <1>10, <2>1, <2>2 DEF CommitRestartFence, OpenCall
<1>11. ASSUME NEW r \in records, NEW ok \in BOOLEAN, CommitRevocation(r, ok) PROVE TypeOK'
  <2>1. call \in EvalCall
    BY <1>11 DEF CommitRevocation, OpenCall, Idle
  <2>2. call' \in EvalCall
    BY <1>11, <2>1 DEF CommitRevocation, EvalCall
  <2>3. durable' \subseteq FenceRecord
    BY <1>11 DEF CommitRevocation, CommitFenceState, Upsert
  <2> QED BY <1>11, <2>2, <2>3 DEF CommitRevocation
<1>12. ASSUME NEW r \in records, NEW ok \in BOOLEAN, CommitWithdrawal(r, ok) PROVE TypeOK'
  <2>1. call \in EvalCall
    BY <1>12 DEF CommitWithdrawal, OpenCall, Idle
  <2>2. call' \in EvalCall
    BY <1>12, <2>1 DEF CommitWithdrawal, EvalCall, Stages
  <2>3. durable' \subseteq FenceRecord /\ records' \subseteq FenceRecord
    BY <1>12, RecordUpdates DEF CommitWithdrawal, CommitFenceState, Upsert, Replace
  <2> QED BY <1>12, <2>2, <2>3 DEF CommitWithdrawal
<1>13. ASSUME NEW i \in call.intent, NEW ok \in BOOLEAN, CommitIntent(i, ok) PROVE TypeOK'
  <2>1. call \in EvalCall
    BY <1>13 DEF CommitIntent, OpenCall, Idle
  <2>2. i \in FenceIntent
    BY <2>1 DEF EvalCall
  <2>3. call' \in EvalCall
    BY <1>13, <2>1 DEF CommitIntent, EvalCall, Stages
  <2>4. durable' \subseteq FenceRecord /\ records' \subseteq FenceRecord
    BY <1>13, <2>2, NewRecordType DEF CommitIntent, CommitFenceState, Upsert
  <2> QED BY <1>13, <2>3, <2>4 DEF CommitIntent, IssueStats
<1>14. ASSUME NEW ok \in BOOLEAN, CommitDecision(ok) PROVE TypeOK'
  <2>1. call \in EvalCall
    BY <1>14 DEF CommitDecision, OpenCall, Idle
  <2>2. records' \subseteq FenceRecord
    BY <1>14, RecordUpdates DEF CommitDecision
  <2>3. lineage' \subseteq FenceIntent /\ inflight' \in [Callers -> SUBSET (SUBSET FenceIntent)]
    BY <1>14, <2>1 DEF CommitDecision, EvalCall
  <2> QED BY <1>14, <2>2, <2>3 DEF CommitDecision
<1>15. CASE FinishOpen
  BY <1>15 DEF FinishOpen
<1>16. ASSUME NEW diag \in Diagnoses, DiagnoseOnly(diag) PROVE TypeOK'
  <2>1. call \in EvalCall
    BY <1>16 DEF DiagnoseOnly, Diagnosing, OpenCall, Idle
  <2>2. StageOf(diag) \in Stages
    BY DEF StageOf, Stages, Diagnoses
  <2>3. call' \in EvalCall
    BY <1>16, <2>1, <2>2 DEF DiagnoseOnly, Decide, EvalCall
  <2> QED BY <1>16, <2>3 DEF DiagnoseOnly
<1>17. ASSUME NEW diag \in Diagnoses, RestoreUnfenced(diag) PROVE TypeOK'
  <2>1. call \in EvalCall
    BY <1>17 DEF RestoreUnfenced, Diagnosing, OpenCall, Idle
  <2>2. call' \in EvalCall
    BY <1>17, <2>1 DEF RestoreUnfenced, Decide, EvalCall, Stages
  <2> QED BY <1>17, <2>2 DEF RestoreUnfenced
<1>18. ASSUME NEW r \in records, StageDuplicate(r) PROVE TypeOK'
  <2>1. call \in EvalCall
    BY <1>18 DEF StageDuplicate, Authorizing, Diagnosing, OpenCall, Idle
  <2>2. r.intent \in FenceIntent
    BY DEF FenceRecord
  <2>3. call' \in EvalCall
    BY <1>18, <2>1, <2>2 DEF StageDuplicate, Decide, EvalCall, Stages
  <2>4. stats' \in IssueStats
    BY <1>18, RefusalCounted DEF StageDuplicate
  <2> QED BY <1>18, <2>3, <2>4 DEF StageDuplicate
<1>19. ASSUME NEW r \in records, RestoreFenced(r) PROVE TypeOK'
  <2>1. call \in EvalCall
    BY <1>19 DEF RestoreFenced, Diagnosing, OpenCall, Idle
  <2>2. r.intent \in FenceIntent
    BY DEF FenceRecord
  <2>3. call' \in EvalCall
    BY <1>19, <2>1, <2>2 DEF RestoreFenced, EvalCall
  <2> QED BY <1>19, <2>3 DEF RestoreFenced
<1>20. CASE StageExhausted
  <2>1. call \in EvalCall
    BY <1>20 DEF StageExhausted, Authorizing, Diagnosing, OpenCall, Idle
  <2>2. call' \in EvalCall
    BY <1>20, <2>1 DEF StageExhausted, Decide, EvalCall, Stages
  <2>3. stats' \in IssueStats
    BY <1>20, RefusalCounted DEF StageExhausted
  <2> QED BY <1>20, <2>2, <2>3 DEF StageExhausted
<1>21. CASE StageIntent
  <2>1. call \in EvalCall
    BY <1>21 DEF StageIntent, Authorizing, Diagnosing, OpenCall, Idle
  <2>2. MintIntent(call.scope, call.gens, boot, clock, stats.issue_attempts + 1) \in FenceIntent
    BY <2>1, IntentType DEF EvalCall, IssueStats
  <2>3. call' \in EvalCall
    BY <1>21, <2>1, <2>2 DEF StageIntent, EvalCall, Stages
  <2> QED BY <1>21, <2>3 DEF StageIntent, IssueStats
<1>22. CASE Crash
  BY <1>22 DEF Crash, NewStats, IssueStats, Idle
<1>23. ASSUME NEW t \in 0..MaxTime, SetClock(t) PROVE TypeOK'
  BY <1>23, EngineAssumption DEF SetClock, volatile
<1>24. CASE UNCHANGED vars
  BY <1>24 DEF vars, volatile
<1> QED
  BY <1>1, <1>2, <1>3, <1>4, <1>5, <1>6, <1>7, <1>8, <1>9, <1>10, <1>11, <1>12, <1>13, <1>14,
     <1>15, <1>16, <1>17, <1>18, <1>19, <1>20, <1>21, <1>22, <1>23, <1>24, NextCases

(* Every reachable state is well typed, for every value of the constants. *)
THEOREM TypeCorrect == Spec => []TypeOK
  BY TypeInit, TypeStep, PTL DEF Spec
-----------------------------------------------------------------------------
(***************************************************************************)
(* The inductive invariant.  The properties of Engine are not inductive by *)
(* themselves: they hold because of what a call has already established    *)
(* when it reaches a step, which the parts below say phase by phase.       *)
(***************************************************************************)
EvalPhase == call.pc \in {"revoking", "intent", "withdraw", "decide"}

OpenPhase == call.pc \in {"boot", "fencing"}

PhaseInv ==
  /\ EvalPhase => opened
  /\ OpenPhase => ~opened /\ \A d \in durable : d.intent.boot < boot

(* After revalidation, every open fence has the generations of the call. *)
CallGensInv ==
  EvalPhase => \A r \in OpenIn(records) : r.intent.gens = call.gens

RevokingInv ==
  call.pc = "revoking" => \A d \in durable : d.intent \in call.todo => IsOpen(d)

StagedInv ==
  call.pc = "intent" =>
    /\ call.op # "restore"
    /\ \A r \in OpenIn(records) : r.intent.scope # call.scope
    /\ \A i, j \in call.intent : i = j
    /\ \A i \in call.intent :
         /\ i.scope = call.scope /\ i.gens = call.gens
         /\ i.boot = boot /\ i.serial = stats.issue_attempts
         /\ \A r \in records \cup durable : r.intent # i

WithdrawInv ==
  call.pc = "withdraw" =>
    /\ call.op = "restore"
    /\ \A i \in call.intent : /\ i.scope = call.scope
                              /\ \E r \in OpenIn(records) : r.intent = i

FencingInv ==
  call.pc = "fencing" =>
    /\ \A d \in durable : IsOpen(d) <=> d.intent \in call.todo
    /\ call.intent \subseteq interrupted
    /\ call.intent \subseteq call.todo

(* The parts that depend on the call in progress. *)
CallInv ==
  /\ PhaseInv
  /\ CallGensInv
  /\ RevokingInv
  /\ StagedInv
  /\ WithdrawInv
  /\ FencingInv
  /\ DecisionIntentBacked
  /\ RestoredMeansUnfenced

(* Ids are unique; the boot and the serial make a new id differ from all. *)
RecordsInv ==
  /\ ~opened => records = {}
  /\ \A r, s \in records : r.intent = s.intent => r = s
  /\ \A r \in records : /\ r.intent.boot = boot
                        /\ r.intent.serial <= stats.issue_attempts
                        /\ r.lifecycle # "FencedByRestart"

DurableInv ==
  /\ \A d, e \in durable : d.intent = e.intent => d = e
  /\ \A d \in durable : /\ d.intent.boot <= boot
                        /\ opened /\ d.intent.boot = boot =>
                             d.intent.serial <= stats.issue_attempts

(* The parts that do not. *)
StateInv ==
  /\ RecordsInv
  /\ DurableInv
  /\ UniformGens
  /\ OneOpenPerScope
  /\ MemoryBackedByDisk
  /\ NoPriorAuthority
  /\ InterruptionRecorded
  /\ LineageHasFence

IInv == TypeOK /\ StateInv /\ CallInv

LEMMA InvInit == Init => IInv
<1> SUFFICES ASSUME Init PROVE IInv
  OBVIOUS
<1>1. StateInv
  BY DEF Init, StateInv, RecordsInv, DurableInv, UniformGens, OneOpenPerScope, MemoryBackedByDisk,
         NoPriorAuthority, InterruptionRecorded, LineageHasFence, OpenIn
<1>2. CallInv
  BY DEF Init, Idle, CallInv, PhaseInv, EvalPhase, OpenPhase, CallGensInv, RevokingInv, StagedInv,
         WithdrawInv, FencingInv, DecisionIntentBacked, RestoredMeansUnfenced
<1> QED BY <1>1, <1>2, TypeInit DEF IInv

(* A step that ends a call leaves nothing to show about it. *)
LEMMA CallOver ==
  ASSUME call' = Idle
  PROVE  CallInv'
  BY DEF Idle, CallInv, PhaseInv, EvalPhase, OpenPhase, CallGensInv, RevokingInv, StagedInv,
         WithdrawInv, FencingInv, DecisionIntentBacked, RestoredMeansUnfenced

(* A step that leaves memory, disk and boot alone and counts no attempt back
   keeps the parts that do not depend on the call. *)
LEMMA StateKept ==
  ASSUME IInv, TypeOK',
         UNCHANGED <<boot, opened, records, durable, interrupted, lineage>>,
         stats'.issue_attempts >= stats.issue_attempts,
         \A c \in Callers : inflight'[c] \subseteq inflight[c]
  PROVE  StateInv'
<1>1. RecordsInv'
  <2>1. \A r \in records : r.intent.serial \in Nat
    BY DEF IInv, TypeOK, FenceRecord, FenceIntent
  <2> QED BY <2>1 DEF IInv, StateInv, RecordsInv, TypeOK, IssueStats
<1>2. DurableInv'
  <2>1. \A d \in durable : d.intent.serial \in Nat
    BY DEF IInv, TypeOK, FenceRecord, FenceIntent
  <2> QED BY <2>1 DEF IInv, StateInv, DurableInv, TypeOK, IssueStats
<1>3. (UniformGens /\ OneOpenPerScope /\ MemoryBackedByDisk /\ NoPriorAuthority
        /\ InterruptionRecorded)'
  BY DEF IInv, StateInv, UniformGens, OneOpenPerScope, MemoryBackedByDisk, NoPriorAuthority,
         InterruptionRecorded
<1>4. LineageHasFence'
  BY DEF IInv, StateInv, LineageHasFence, HasDurableRecord
<1> QED BY <1>1, <1>2, <1>3, <1>4 DEF StateInv

(* A step that changes fences in memory only, and only to close them. *)
LEMMA MemoryClosed ==
  ASSUME IInv,
         UNCHANGED <<boot, opened, stats, durable, interrupted>>,
         \A s \in records' : \E r \in records : /\ s.intent = r.intent
                                                /\ IsOpen(s) => s = r
                                                /\ s.lifecycle # "FencedByRestart",
         \A r, s \in records' : r.intent = s.intent => r = s,
         LineageHasFence'
  PROVE  StateInv'
<1>1. RecordsInv'
  BY DEF IInv, StateInv, RecordsInv
<1>2. \A s \in OpenIn(records)' : s \in OpenIn(records)
  BY DEF OpenIn
<1>3. (UniformGens /\ OneOpenPerScope /\ MemoryBackedByDisk /\ NoPriorAuthority)'
  BY <1>2 DEF IInv, StateInv, UniformGens, OneOpenPerScope, MemoryBackedByDisk, NoPriorAuthority,
              OpenIn
<1>4. (DurableInv /\ InterruptionRecorded)'
  BY DEF IInv, StateInv, DurableInv, InterruptionRecorded
<1> QED BY <1>1, <1>3, <1>4 DEF StateInv

(* Committing a state of a fence this boot issued, or one closed by the restart
   after its interruption. *)
LEMMA DiskUpdated ==
  ASSUME IInv, NEW new \in FenceRecord,
         durable' = Upsert(durable, new),
         UNCHANGED <<boot, opened, interrupted>>,
         stats'.issue_attempts = stats.issue_attempts,
         new.intent.boot <= boot,
         opened => new.intent.boot = boot /\ new.intent.serial <= stats.issue_attempts,
         new.lifecycle = "FencedByRestart" => new.intent \in interrupted
  PROVE  /\ DurableInv' /\ InterruptionRecorded'
         /\ opened => \A d \in OpenIn(durable') : d.intent.boot = boot
         /\ \A i \in FenceIntent : HasDurableRecord(i) => HasDurableRecord(i)'
<1>1. new \in durable' /\ \A d \in durable' : d = new \/ (d \in durable /\ d.intent # new.intent)
  BY DEF Upsert
<1>2. DurableInv'
  BY <1>1 DEF IInv, StateInv, DurableInv
<1>3. InterruptionRecorded'
  BY <1>1 DEF IInv, StateInv, InterruptionRecorded
<1>4. opened => \A d \in OpenIn(durable') : d.intent.boot = boot
  BY <1>1 DEF IInv, StateInv, NoPriorAuthority, OpenIn
<1>5. \A i \in FenceIntent : HasDurableRecord(i) => HasDurableRecord(i)'
  BY DEF HasDurableRecord, Upsert
<1> QED BY <1>2, <1>3, <1>4, <1>5

(* Lineage keeps pointing at durable records while those are only replaced. *)
LEMMA LineageKept ==
  ASSUME IInv, UNCHANGED <<lineage, inflight>>,
         \A i \in FenceIntent : HasDurableRecord(i) => HasDurableRecord(i)'
  PROVE  LineageHasFence'
  BY DEF IInv, TypeOK, StateInv, LineageHasFence

(* An open fence goes to a later open state, in memory and perhaps on disk. *)
LEMMA UpdateOpenStep ==
  ASSUME IInv, NEW r \in records, NEW new \in FenceRecord, NEW ok \in BOOLEAN,
         new.intent = r.intent, IsOpen(new), new.lifecycle # "Intent",
         r.lifecycle = "EffectReported" => new.lifecycle = "EffectReported",
         UpdateOpen(r, new, ok)
  PROVE  StateInv'
<1>1. /\ IsOpen(r) /\ opened
      /\ records' = (records \ {r}) \cup {new}
      /\ durable' = IF ok THEN Upsert(durable, new) ELSE durable
      /\ UNCHANGED <<boot, opened, stats, interrupted, lineage, inflight>>
  BY DEF UpdateOpen, Replace, CommitFenceState
<1>2. new.lifecycle # "FencedByRestart"
  BY DEF IsOpen, OpenStates
<1>3. RecordsInv'
  BY <1>1, <1>2 DEF IInv, StateInv, RecordsInv
<1>4. \A s \in OpenIn(records)' : s = new \/ (s \in OpenIn(records) /\ s.intent # new.intent)
  BY <1>1 DEF OpenIn, IInv, StateInv, RecordsInv
<1>5. UniformGens' /\ OneOpenPerScope'
  BY <1>1, <1>4 DEF IInv, StateInv, UniformGens, OneOpenPerScope, OpenIn
<1>6. MemoryBackedByDisk'
  <2>1. PICK d \in OpenIn(durable) :
          /\ d.intent = r.intent
          /\ d.lifecycle = "EffectReported" => r.lifecycle = "EffectReported"
    BY <1>1 DEF IInv, StateInv, MemoryBackedByDisk, OpenIn
  <2>2. CASE ok
    BY <1>1, <1>4, <2>2 DEF IInv, StateInv, MemoryBackedByDisk, OpenIn, Upsert
  <2>3. CASE ~ok
    BY <1>1, <1>4, <2>1, <2>3 DEF IInv, StateInv, MemoryBackedByDisk, OpenIn
  <2> QED BY <2>2, <2>3
<1>7. /\ r.intent.boot = boot /\ r.intent.serial <= stats.issue_attempts
      /\ r.intent.boot \in Nat
  BY DEF IInv, TypeOK, StateInv, RecordsInv
<1>8. /\ DurableInv' /\ InterruptionRecorded'
      /\ \A d \in OpenIn(durable') : d.intent.boot = boot
      /\ LineageHasFence'
  <2>1. CASE ok
    BY <1>1, <1>2, <1>7, <2>1, DiskUpdated, LineageKept
  <2>2. CASE ~ok
    BY <1>1, <2>2, LineageKept DEF IInv, StateInv, DurableInv, InterruptionRecorded, NoPriorAuthority,
                      HasDurableRecord
  <2> QED BY <2>1, <2>2
<1>9. NoPriorAuthority'
  BY <1>1, <1>4, <1>7, <1>8 DEF IInv, StateInv, NoPriorAuthority, OpenIn
<1> QED BY <1>3, <1>5, <1>6, <1>8, <1>9 DEF StateInv

(* Every step keeps the parts that do not depend on the call. *)
LEMMA StateStep ==
  ASSUME IInv, TypeOK', [Next]_vars
  PROVE  StateInv'
<1> USE DEF IInv
<1>1. CASE BeginOpen
  <2>1. records = {} /\ records' = {} /\ OpenIn(records)' = {}
    BY <1>1 DEF BeginOpen, StateInv, RecordsInv, OpenIn
  <2>2. \A d \in durable : d.intent.boot \in Nat
    BY DEF TypeOK, FenceRecord, FenceIntent
  <2>3. DurableInv'
    BY <1>1, <2>2 DEF BeginOpen, StateInv, DurableInv, TypeOK
  <2>4. (InterruptionRecorded /\ LineageHasFence)'
    BY <1>1 DEF BeginOpen, StateInv, InterruptionRecorded, LineageHasFence, HasDurableRecord
  <2> QED BY <1>1, <2>1, <2>3, <2>4 DEF BeginOpen, StateInv, RecordsInv, UniformGens,
               OneOpenPerScope, MemoryBackedByDisk, NoPriorAuthority
<1>2. ASSUME Close \/ Crash PROVE StateInv'
  <2>1. /\ ~opened' /\ records' = {} /\ OpenIn(records)' = {}
        /\ UNCHANGED <<boot, durable, interrupted, lineage>>
        /\ \A c \in Callers : inflight'[c] \subseteq inflight[c]
    BY <1>2 DEF Close, Crash, OpenIn
  <2>2. (DurableInv /\ InterruptionRecorded /\ LineageHasFence)'
    BY <2>1 DEF StateInv, DurableInv, InterruptionRecorded, LineageHasFence, HasDurableRecord
  <2> QED BY <2>1, <2>2 DEF StateInv, RecordsInv, UniformGens, OneOpenPerScope, MemoryBackedByDisk,
               NoPriorAuthority
<1>3. ASSUME NEW c \in Callers, NEW op \in {"evaluate", "localize", "restore"},
             NEW scope \in Scopes, NEW gens \in Gens, Begin(op, c, scope, gens)
      PROVE  StateInv'
  <2>1. \A r \in records : /\ r \in FenceRecord
                           /\ Revalidated(r, clock, gens).intent = r.intent
                           /\ IsOpen(Revalidated(r, clock, gens)) =>
                                Revalidated(r, clock, gens) = r
                           /\ Revalidated(r, clock, gens).lifecycle # "FencedByRestart"
    BY RevalidatedType DEF TypeOK, StateInv, RecordsInv, Revalidated, Expired, Revoked, FenceRecord
  <2>2. records' = {Revalidated(r, clock, gens) : r \in records}
    BY <1>3 DEF Begin
  <2>3. \A r, s \in records' : r.intent = s.intent => r = s
    BY <2>1, <2>2 DEF StateInv, RecordsInv
  <2>4. LineageHasFence'
    BY <1>3 DEF Begin, StateInv, LineageHasFence, HasDurableRecord
  <2> QED BY <1>3, <2>1, <2>2, <2>3, <2>4, MemoryClosed DEF Begin
<1>4. ASSUME NEW c \in Callers, NEW ok \in BOOLEAN, NEW intent \in inflight[c],
             FinishLocalize(c, intent, ok)
      PROVE  StateInv'
  <2>1. LineageHasFence'
    BY <1>4 DEF FinishLocalize, StateInv, LineageHasFence, HasDurableRecord, TypeOK
  <2> QED BY <1>4, <2>1 DEF FinishLocalize, StateInv, RecordsInv, DurableInv, UniformGens,
               OneOpenPerScope, MemoryBackedByDisk, NoPriorAuthority, InterruptionRecorded
<1>5. ASSUME NEW r \in records, ExpireOnUse(r) PROVE StateInv'
  <2>1. /\ Expired(r).intent = r.intent /\ ~IsOpen(Expired(r))
        /\ Expired(r).lifecycle # "FencedByRestart"
    BY RecordUpdates DEF TypeOK, Expired, FenceRecord
  <2>2. records' = (records \ {r}) \cup {Expired(r)}
    BY <1>5 DEF ExpireOnUse, Replace
  <2>3. LineageHasFence'
    BY <1>5 DEF ExpireOnUse, StateInv, LineageHasFence, HasDurableRecord
  <2> QED BY <1>5, <2>1, <2>2, <2>3, MemoryClosed DEF ExpireOnUse, StateInv, RecordsInv
<1>6. ASSUME NEW r \in records, NEW ok \in BOOLEAN, AcknowledgeFence(r, ok) PROVE StateInv'
  <2>1. r \in FenceRecord /\ IsOpen(r)
    BY <1>6 DEF TypeOK, AcknowledgeFence, UpdateOpen
  <2>2. /\ Acknowledged(r).lifecycle # "Intent"
        /\ r.lifecycle = "EffectReported" => Acknowledged(r).lifecycle = "EffectReported"
    BY <2>1 DEF Acknowledged, FenceRecord
  <2> QED BY <1>6, <2>1, <2>2, RecordUpdates, UpdateOpenStep DEF AcknowledgeFence
<1>7. ASSUME NEW r \in records, NEW ok \in BOOLEAN, NEW verified \in BOOLEAN,
             ReportEffect(r, verified, ok)
      PROVE  StateInv'
  <2>1. r \in FenceRecord
    BY DEF TypeOK
  <2>2. EffectReported(r, verified).lifecycle = "EffectReported"
    BY <2>1 DEF EffectReported, FenceRecord
  <2> QED BY <1>7, <2>1, <2>2, RecordUpdates, UpdateOpenStep DEF ReportEffect
<1>8. ASSUME NEW ok \in BOOLEAN, CommitBoot(ok) PROVE StateInv'
  BY <1>8, StateKept DEF CommitBoot, TypeOK, IssueStats
<1>9. ASSUME NEW i \in call.todo, NEW ok \in BOOLEAN, CommitInterruption(i, ok) PROVE StateInv'
  <2>1. (InterruptionRecorded /\ LineageHasFence)'
    BY <1>9 DEF CommitInterruption, StateInv, InterruptionRecorded, LineageHasFence, HasDurableRecord
  <2> QED BY <1>9, <2>1 DEF CommitInterruption, StateInv, RecordsInv, DurableInv, UniformGens,
               OneOpenPerScope, MemoryBackedByDisk, NoPriorAuthority
<1>10. ASSUME NEW d \in durable, NEW ok \in BOOLEAN, CommitRestartFence(d, ok) PROVE StateInv'
  <2>1. CASE ~ok
    BY <1>10, <2>1, StateKept DEF CommitRestartFence, CommitFenceState, TypeOK, IssueStats
  <2>2. CASE ok
    <3> DEFINE new == [d EXCEPT !.lifecycle = "FencedByRestart"]
    <3>1. new \in FenceRecord /\ new.intent = d.intent
      BY RecordUpdates DEF TypeOK, FenceRecord
    <3>2. /\ ~opened /\ records = {} /\ OpenIn(records)' = {}
          /\ d.intent \in interrupted /\ d.intent.boot <= boot
      BY <1>10 DEF CommitRestartFence, CallInv, PhaseInv, OpenPhase, FencingInv, StateInv, RecordsInv,
                   DurableInv, OpenIn
    <3>3. durable' = Upsert(durable, new)
      BY <1>10, <2>2 DEF CommitRestartFence, CommitFenceState
    <3> HIDE DEF new
    <3>4. /\ DurableInv' /\ InterruptionRecorded'
          /\ \A i \in FenceIntent : HasDurableRecord(i) => HasDurableRecord(i)'
      BY <1>10, <3>1, <3>2, <3>3, DiskUpdated DEF CommitRestartFence
    <3>5. LineageHasFence'
      BY <1>10, <3>4, LineageKept DEF CommitRestartFence
    <3> QED BY <1>10, <3>2, <3>4, <3>5 DEF CommitRestartFence, StateInv, RecordsInv, UniformGens,
                 OneOpenPerScope, MemoryBackedByDisk, NoPriorAuthority
  <2> QED BY <2>1, <2>2
<1>11. ASSUME NEW r \in records, NEW ok \in BOOLEAN, CommitRevocation(r, ok) PROVE StateInv'
  <2>1. CASE ~ok
    BY <1>11, <2>1, StateKept DEF CommitRevocation, CommitFenceState, TypeOK, IssueStats
  <2>2. CASE ok
    <3>1. /\ r \in FenceRecord /\ r.intent.boot = boot /\ r.intent.boot \in Nat
          /\ r.intent.serial <= stats.issue_attempts /\ r.lifecycle # "FencedByRestart"
      BY DEF TypeOK, StateInv, RecordsInv
    <3>2. durable' = Upsert(durable, r) /\ opened
      BY <1>11, <2>2 DEF CommitRevocation, CommitFenceState, CallInv, PhaseInv, EvalPhase
    <3>3. /\ DurableInv' /\ InterruptionRecorded'
          /\ \A d \in OpenIn(durable') : d.intent.boot = boot
          /\ \A i \in FenceIntent : HasDurableRecord(i) => HasDurableRecord(i)'
      BY <1>11, <3>1, <3>2, DiskUpdated DEF CommitRevocation
    <3>4. LineageHasFence'
      BY <1>11, <3>3, LineageKept DEF CommitRevocation
    <3>5. MemoryBackedByDisk'
      <4> SUFFICES ASSUME NEW s \in OpenIn(records)
                   PROVE  \E d \in OpenIn(durable') :
                            /\ d.intent = s.intent
                            /\ d.lifecycle = "EffectReported" => s.lifecycle = "EffectReported"
                            /\ d.lifecycle = "Acknowledged" => s.lifecycle # "Intent"
        BY <1>11 DEF CommitRevocation, MemoryBackedByDisk
      <4>1. CASE s.intent = r.intent
        <5>1. s = r
          BY <4>1 DEF StateInv, RecordsInv, OpenIn
        <5> QED BY <3>2, <5>1 DEF OpenIn, IsOpen, OpenStates, Upsert
      <4>2. CASE s.intent # r.intent
        BY <3>2, <4>2 DEF StateInv, MemoryBackedByDisk, OpenIn, Upsert
      <4> QED BY <4>1, <4>2
    <3> QED BY <1>11, <3>2, <3>3, <3>4, <3>5 DEF CommitRevocation, StateInv, RecordsInv, UniformGens,
                 OneOpenPerScope, NoPriorAuthority
  <2> QED BY <2>1, <2>2
<1>12. ASSUME NEW r \in records, NEW ok \in BOOLEAN, CommitWithdrawal(r, ok) PROVE StateInv'
  <2>1. CASE ~ok
    BY <1>12, <2>1, StateKept DEF CommitWithdrawal, CommitFenceState, TypeOK, IssueStats
  <2>2. CASE ok
    <3>1. /\ Revoked(r) \in FenceRecord /\ Revoked(r).intent = r.intent /\ ~IsOpen(Revoked(r))
          /\ Revoked(r).lifecycle # "FencedByRestart"
          /\ r.intent.boot = boot /\ r.intent.boot \in Nat
          /\ r.intent.serial <= stats.issue_attempts
      BY RecordUpdates, ZenonT(30) DEF TypeOK, StateInv, RecordsInv, Revoked, FenceRecord
    <3>2. durable' = Upsert(durable, Revoked(r)) /\ opened
      BY <1>12, <2>2 DEF CommitWithdrawal, CommitFenceState, CallInv, PhaseInv, EvalPhase
    <3>3. records' = (records \ {r}) \cup {Revoked(r)}
      BY <1>12, <2>2 DEF CommitWithdrawal, Replace
    <3>4. RecordsInv'
      BY <1>12, <3>1, <3>2, <3>3 DEF CommitWithdrawal, StateInv, RecordsInv
    <3>5. \A s \in OpenIn(records') : s \in OpenIn(records) /\ s.intent # r.intent
      BY <3>1, <3>3 DEF OpenIn, StateInv, RecordsInv
    <3>6. UniformGens' /\ OneOpenPerScope'
      BY <3>5 DEF StateInv, UniformGens, OneOpenPerScope
    <3>7. MemoryBackedByDisk'
      BY <3>1, <3>2, <3>5 DEF StateInv, MemoryBackedByDisk, Upsert, OpenIn
    <3>8. /\ DurableInv' /\ InterruptionRecorded'
          /\ \A d \in OpenIn(durable') : d.intent.boot = boot
          /\ \A i \in FenceIntent : HasDurableRecord(i) => HasDurableRecord(i)'
      BY <1>12, <3>1, <3>2, DiskUpdated DEF CommitWithdrawal
    <3>9. LineageHasFence'
      BY <1>12, <3>8, LineageKept DEF CommitWithdrawal
    <3>10. NoPriorAuthority'
      BY <1>12, <3>2, <3>5, <3>8 DEF CommitWithdrawal, StateInv, NoPriorAuthority
    <3> QED BY <3>4, <3>6, <3>7, <3>8, <3>9, <3>10 DEF StateInv
  <2> QED BY <2>1, <2>2
<1>13. ASSUME NEW i \in call.intent, NEW ok \in BOOLEAN, CommitIntent(i, ok) PROVE StateInv'
  <2> DEFINE new == NewRecord(i)
  <2>1. call \in EvalCall
    BY <1>13 DEF CommitIntent, TypeOK, OpenCall, Idle
  <2>2. i \in FenceIntent
    BY <2>1 DEF EvalCall
  <2>3. new \in FenceRecord /\ new.intent = i /\ IsOpen(new) /\ new.lifecycle = "Intent"
    BY <2>2, NewRecordType DEF NewRecord
  <2>4. /\ opened /\ i.scope = call.scope /\ i.gens = call.gens
        /\ i.boot = boot /\ i.serial = stats.issue_attempts
        /\ \A r \in records \cup durable : r.intent # i
        /\ \A r \in OpenIn(records) : r.intent.scope # i.scope /\ r.intent.gens = i.gens
    BY <1>13 DEF CommitIntent, CallInv, PhaseInv, EvalPhase, CallGensInv, StagedInv
  <2>5. /\ UNCHANGED <<boot, opened, interrupted, lineage, inflight>>
        /\ durable' = IF ok THEN Upsert(durable, new) ELSE durable
        /\ records' = records \/ (ok /\ records' = records \cup {new})
    BY <1>13 DEF CommitIntent, CommitFenceState
  <2>6. stats'.issue_attempts = stats.issue_attempts
    BY <1>13 DEF CommitIntent, TypeOK, IssueStats
  <2> HIDE DEF new
  <2>7. /\ i.serial <= stats.issue_attempts /\ i.boot <= boot
    BY <2>4 DEF TypeOK, IssueStats
  <2>8. \A s \in OpenIn(records') : s \in OpenIn(records) \/ (s = new /\ ok)
    BY <2>5 DEF OpenIn
  <2>9. RecordsInv'
    BY <2>3, <2>4, <2>5, <2>6, <2>7 DEF StateInv, RecordsInv
  <2>10. UniformGens' /\ OneOpenPerScope'
    BY <2>3, <2>4, <2>8 DEF StateInv, UniformGens, OneOpenPerScope
  <2>11. MemoryBackedByDisk'
    <3> SUFFICES ASSUME NEW s \in OpenIn(records')
                 PROVE  \E d \in OpenIn(durable') :
                          /\ d.intent = s.intent
                          /\ d.lifecycle = "EffectReported" => s.lifecycle = "EffectReported"
                          /\ d.lifecycle = "Acknowledged" => s.lifecycle # "Intent"
      BY DEF MemoryBackedByDisk
    <3>1. CASE s \in OpenIn(records)
      BY <2>3, <2>4, <2>5, <3>1 DEF StateInv, MemoryBackedByDisk, OpenIn, Upsert
    <3>2. CASE s = new /\ ok
      BY <2>3, <2>5, <3>2 DEF OpenIn, Upsert
    <3> QED BY <2>8, <3>1, <3>2
  <2>12. /\ DurableInv' /\ InterruptionRecorded'
         /\ \A d \in OpenIn(durable') : d.intent.boot = boot
         /\ \A j \in FenceIntent : HasDurableRecord(j) => HasDurableRecord(j)'
    <3>1. CASE ok
      BY <2>3, <2>4, <2>5, <2>6, <2>7, <3>1, DiskUpdated
    <3>2. CASE ~ok
      BY <2>4, <2>5, <2>6, <3>2 DEF StateInv, DurableInv, InterruptionRecorded, NoPriorAuthority,
                                    HasDurableRecord
    <3> QED BY <3>1, <3>2
  <2>13. LineageHasFence'
    BY <2>5, <2>12, LineageKept
  <2>14. NoPriorAuthority'
    BY <2>3, <2>4, <2>5, <2>8, <2>12 DEF StateInv, NoPriorAuthority
  <2> QED BY <2>9, <2>10, <2>11, <2>12, <2>13, <2>14 DEF StateInv
<1>14. ASSUME NEW ok \in BOOLEAN, CommitDecision(ok) PROVE StateInv'
  <2>1. \A i \in call.intent : HasDurableRecord(i)
    BY <1>14 DEF CommitDecision, CallInv, DecisionIntentBacked, HasDurableRecord, OpenIn
  <2>2. \A i : HasDurableRecord(i)' <=> HasDurableRecord(i)
    BY <1>14 DEF CommitDecision, HasDurableRecord
  <2>3. LineageHasFence'
    <3>1. \A i \in lineage' : i \in lineage \/ i \in call.intent
      BY <1>14 DEF CommitDecision
    <3>2. \A c \in Callers : \A I \in inflight'[c] : I \in inflight[c] \/ I \subseteq call.intent
      BY <1>14 DEF CommitDecision, TypeOK
    <3> QED BY <2>1, <2>2, <3>1, <3>2 DEF StateInv, LineageHasFence
  <2>4. \A r \in records : /\ r \in FenceRecord /\ Revoked(r).intent = r.intent
                           /\ ~IsOpen(Revoked(r))
                           /\ Revoked(r).lifecycle # "FencedByRestart"
    BY RecordUpdates DEF TypeOK, Revoked, FenceRecord
  <2>5. \/ records' = records
        \/ records' = {IF IsOpen(r) /\ r.intent \in call.intent THEN Revoked(r) ELSE r
                         : r \in records}
    BY <1>14 DEF CommitDecision
  <2>6. /\ \A s \in records' : \E r \in records : /\ s.intent = r.intent
                                                  /\ IsOpen(s) => s = r
                                                  /\ s.lifecycle # "FencedByRestart"
        /\ \A r, s \in records' : r.intent = s.intent => r = s
    BY <2>4, <2>5 DEF StateInv, RecordsInv
  <2> QED BY <1>14, <2>3, <2>6, MemoryClosed DEF CommitDecision
<1>15. CASE FinishOpen
  <2>1. /\ OpenIn(records)' = {} /\ OpenIn(durable)' = {}
        /\ \A d \in durable : d.intent.boot < boot /\ d.intent.boot \in Nat
    BY <1>15 DEF FinishOpen, CallInv, FencingInv, PhaseInv, OpenPhase, OpenIn, TypeOK, FenceRecord,
                 FenceIntent
  <2>2. (DurableInv /\ InterruptionRecorded /\ LineageHasFence)'
    BY <1>15, <2>1 DEF FinishOpen, StateInv, DurableInv, InterruptionRecorded, LineageHasFence,
                       HasDurableRecord, TypeOK
  <2> QED BY <1>15, <2>1, <2>2 DEF FinishOpen, StateInv, RecordsInv, UniformGens, OneOpenPerScope,
               MemoryBackedByDisk, NoPriorAuthority
<1>16. ASSUME NEW diag \in Diagnoses, DiagnoseOnly(diag) PROVE StateInv'
  BY <1>16, StateKept DEF DiagnoseOnly, TypeOK, IssueStats
<1>17. ASSUME NEW diag \in Diagnoses, RestoreUnfenced(diag) PROVE StateInv'
  BY <1>17, StateKept DEF RestoreUnfenced, TypeOK, IssueStats
<1>18. ASSUME NEW r \in records, StageDuplicate(r) PROVE StateInv'
  <2>1. stats'.issue_attempts >= stats.issue_attempts
    BY <1>18, AttemptCounted DEF StageDuplicate, TypeOK
  <2> QED BY <1>18, <2>1, StateKept DEF StageDuplicate
<1>19. ASSUME NEW r \in records, RestoreFenced(r) PROVE StateInv'
  BY <1>19, StateKept DEF RestoreFenced, TypeOK, IssueStats
<1>20. CASE StageExhausted
  <2>1. stats'.issue_attempts >= stats.issue_attempts
    BY <1>20, AttemptCounted DEF StageExhausted, TypeOK
  <2> QED BY <1>20, <2>1, StateKept DEF StageExhausted
<1>21. CASE StageIntent
  <2>1. stats'.issue_attempts >= stats.issue_attempts
    BY <1>21, AttemptCounted DEF StageIntent, TypeOK
  <2> QED BY <1>21, <2>1, StateKept DEF StageIntent
<1>22. ASSUME NEW t \in 0..MaxTime, SetClock(t) PROVE StateInv'
  BY <1>22, StateKept DEF SetClock, volatile, TypeOK, IssueStats
<1>23. CASE UNCHANGED vars
  BY <1>23, StateKept DEF vars, volatile, TypeOK, IssueStats
<1> QED
  BY <1>1, <1>2, <1>3, <1>4, <1>5, <1>6, <1>7, <1>8, <1>9, <1>10, <1>11, <1>12, <1>13, <1>14,
     <1>15, <1>16, <1>17, <1>18, <1>19, <1>20, <1>21, <1>22, <1>23, NextCases

(* The parts a phase of a call does not have hold of it trivially. *)
LEMMA OpenPhaseInv ==
  ASSUME OpenPhase', PhaseInv', FencingInv'
  PROVE  CallInv'
  BY DEF OpenPhase, EvalPhase, CallInv, CallGensInv, RevokingInv, StagedInv, WithdrawInv,
         DecisionIntentBacked, RestoredMeansUnfenced

LEMMA EvalPhaseInv ==
  ASSUME EvalPhase', opened', CallGensInv', RevokingInv', StagedInv', WithdrawInv',
         DecisionIntentBacked', RestoredMeansUnfenced'
  PROVE  CallInv'
  BY DEF OpenPhase, EvalPhase, CallInv, PhaseInv, FencingInv

(* Every step keeps the parts that depend on the call. *)
LEMMA CallInvStep ==
  ASSUME IInv, TypeOK', [Next]_vars
  PROVE  CallInv'
<1> USE DEF IInv
<1>1. CASE BeginOpen
  <2>1. \A d \in durable : d.intent.boot \in Nat
    BY DEF TypeOK, FenceRecord, FenceIntent
  <2>2. OpenPhase' /\ PhaseInv' /\ FencingInv'
    BY <1>1, <2>1 DEF BeginOpen, OpenPhase, EvalPhase, PhaseInv, FencingInv, StateInv, DurableInv,
                      TypeOK
  <2> QED BY <2>2, OpenPhaseInv
<1>2. ASSUME Close \/ Crash PROVE CallInv'
  BY <1>2, CallOver DEF Close, Crash
<1>3. ASSUME NEW c \in Callers, NEW op \in {"evaluate", "localize", "restore"},
             NEW scope \in Scopes, NEW gens \in Gens, Begin(op, c, scope, gens)
      PROVE  CallInv'
  <2>1. call'.pc = "revoking" /\ call'.gens = gens /\ opened'
    BY <1>3 DEF Begin
  <2>2. CallGensInv'
    BY <1>3, <2>1, RevalidatedType DEF Begin, CallGensInv, OpenIn, TypeOK
  <2>3. RevokingInv'
    <3> SUFFICES ASSUME NEW r \in records, NEW d \in durable, d.intent = r.intent,
                        Revalidated(r, clock, gens) # r
                 PROVE  IsOpen(d)
      BY <1>3 DEF Begin, RevokingInv
    <3>1. r \in OpenIn(records)
      BY RevalidatedType DEF TypeOK, OpenIn
    <3> QED BY <3>1 DEF StateInv, MemoryBackedByDisk, DurableInv, OpenIn
  <2> QED BY <2>1, <2>2, <2>3, EvalPhaseInv DEF EvalPhase, StagedInv, WithdrawInv,
               DecisionIntentBacked, RestoredMeansUnfenced
<1>4. ASSUME NEW c \in Callers, NEW ok \in BOOLEAN, NEW intent \in inflight[c],
             FinishLocalize(c, intent, ok)
      PROVE  CallInv'
  BY <1>4, CallOver DEF FinishLocalize
<1>5. ASSUME NEW r \in records, ExpireOnUse(r) PROVE CallInv'
  BY <1>5, CallOver DEF ExpireOnUse
<1>6. ASSUME NEW r \in records, NEW ok \in BOOLEAN, AcknowledgeFence(r, ok) PROVE CallInv'
  BY <1>6, CallOver DEF AcknowledgeFence, UpdateOpen
<1>7. ASSUME NEW r \in records, NEW ok \in BOOLEAN, NEW verified \in BOOLEAN,
             ReportEffect(r, verified, ok)
      PROVE  CallInv'
  BY <1>7, CallOver DEF ReportEffect, UpdateOpen
<1>8. ASSUME NEW ok \in BOOLEAN, CommitBoot(ok) PROVE CallInv'
  <2>1. CASE ~ok
    BY <1>8, <2>1, CallOver DEF CommitBoot
  <2>2. CASE ok
    <3>1. PhaseInv' /\ OpenPhase'
      BY <1>8, <2>2 DEF CommitBoot, CallInv, PhaseInv, OpenPhase, EvalPhase
    <3>2. FencingInv'
      BY <1>8, <2>2 DEF CommitBoot, FencingInv, OpenIn, StateInv, DurableInv
    <3> QED BY <3>1, <3>2, OpenPhaseInv
  <2> QED BY <2>1, <2>2
<1>9. ASSUME NEW i \in call.todo, NEW ok \in BOOLEAN, CommitInterruption(i, ok) PROVE CallInv'
  <2>1. CASE ~ok
    BY <1>9, <2>1, CallOver DEF CommitInterruption
  <2>2. CASE ok
    <3>1. call \in OpenCall
      BY <1>9 DEF CommitInterruption, TypeOK, EvalCall, Idle
    <3>2. call'.pc = "fencing" /\ call'.todo = call.todo /\ call'.intent = {i}
      BY <1>9, <2>2, <3>1 DEF CommitInterruption, OpenCall
    <3>3. PhaseInv' /\ OpenPhase'
      BY <1>9, <3>2 DEF CommitInterruption, CallInv, PhaseInv, OpenPhase, EvalPhase
    <3>4. FencingInv'
      BY <1>9, <2>2, <3>2 DEF CommitInterruption, CallInv, FencingInv
    <3> QED BY <3>3, <3>4, OpenPhaseInv
  <2> QED BY <2>1, <2>2
<1>10. ASSUME NEW d \in durable, NEW ok \in BOOLEAN, CommitRestartFence(d, ok) PROVE CallInv'
  <2>1. CASE ~ok
    BY <1>10, <2>1, CallOver DEF CommitRestartFence
  <2>2. CASE ok
    <3> DEFINE new == [d EXCEPT !.lifecycle = "FencedByRestart"]
    <3>1. call \in OpenCall
      BY <1>10 DEF CommitRestartFence, TypeOK, EvalCall, Idle
    <3>2. call'.pc = "fencing" /\ call'.todo = call.todo \ {d.intent} /\ call'.intent = {}
      BY <1>10, <2>2, <3>1 DEF CommitRestartFence, OpenCall
    <3>3. new.intent = d.intent /\ ~IsOpen(new)
      BY DEF TypeOK, FenceRecord, IsOpen, OpenStates
    <3>4. durable' = Upsert(durable, new)
      BY <1>10, <2>2 DEF CommitRestartFence, CommitFenceState
    <3> HIDE DEF new
    <3>5. \A e \in durable' : e = new \/ (e \in durable /\ e.intent # d.intent)
      BY <3>3, <3>4 DEF Upsert
    <3>6. PhaseInv' /\ OpenPhase'
      BY <1>10, <3>2, <3>3, <3>5 DEF CommitRestartFence, CallInv, PhaseInv, OpenPhase, EvalPhase
    <3>7. FencingInv'
      BY <1>10, <3>2, <3>3, <3>5 DEF CommitRestartFence, CallInv, FencingInv
    <3> QED BY <3>6, <3>7, OpenPhaseInv
  <2> QED BY <2>1, <2>2
<1>11. ASSUME NEW r \in records, NEW ok \in BOOLEAN, CommitRevocation(r, ok) PROVE CallInv'
  <2>1. call \in EvalCall
    BY <1>11 DEF CommitRevocation, TypeOK, OpenCall, Idle
  <2>2. /\ call'.pc = "revoking" /\ call'.gens = call.gens /\ call'.todo = call.todo \ {r.intent}
        /\ opened' /\ UNCHANGED records
    BY <1>11, <2>1 DEF CommitRevocation, EvalCall, CallInv, PhaseInv, EvalPhase
  <2>3. CallGensInv'
    BY <1>11, <2>2 DEF CommitRevocation, CallInv, CallGensInv, EvalPhase
  <2>4. RevokingInv'
    BY <1>11, <2>2 DEF CommitRevocation, CallInv, RevokingInv, CommitFenceState, Upsert
  <2> QED BY <2>2, <2>3, <2>4, EvalPhaseInv DEF EvalPhase, StagedInv, WithdrawInv,
               DecisionIntentBacked, RestoredMeansUnfenced
<1>12. ASSUME NEW r \in records, NEW ok \in BOOLEAN, CommitWithdrawal(r, ok) PROVE CallInv'
  <2>1. call \in EvalCall
    BY <1>12 DEF CommitWithdrawal, TypeOK, OpenCall, Idle
  <2>2. /\ call'.pc = "decide" /\ call'.intent = {} /\ opened'
        /\ call'.gens = call.gens /\ call'.scope = call.scope
        /\ call'.stage = IF ok THEN "Authorization" ELSE "Eligibility"
    BY <1>12, <2>1 DEF CommitWithdrawal, EvalCall, CallInv, PhaseInv, EvalPhase
  <2>3. /\ IsOpen(r) /\ r.intent.scope = call.scope
        /\ \A s \in OpenIn(records) : s.intent.gens = call.gens
    BY <1>12 DEF CommitWithdrawal, CallInv, WithdrawInv, CallGensInv, EvalPhase, StateInv, RecordsInv,
                 OpenIn
  <2>4. \A s \in OpenIn(records') : s \in OpenIn(records) /\ (ok => s # r)
    BY <1>12, <2>3, RecordUpdates DEF CommitWithdrawal, Replace, OpenIn, TypeOK
  <2>5. CallGensInv'
    BY <2>2, <2>3, <2>4 DEF CallGensInv
  <2>6. RestoredMeansUnfenced'
    BY <2>2, <2>3, <2>4 DEF RestoredMeansUnfenced, OpenFor, StateInv, OneOpenPerScope, OpenIn
  <2> QED BY <2>2, <2>5, <2>6, EvalPhaseInv DEF EvalPhase, RevokingInv, StagedInv, WithdrawInv,
               DecisionIntentBacked
<1>13. ASSUME NEW i \in call.intent, NEW ok \in BOOLEAN, CommitIntent(i, ok) PROVE CallInv'
  <2>1. call \in EvalCall
    BY <1>13 DEF CommitIntent, TypeOK, OpenCall, Idle
  <2>2. /\ call'.pc = "decide" /\ opened' /\ call'.gens = call.gens /\ call'.scope = call.scope
        /\ call'.op # "restore"
        /\ \/ call'.intent = {}
           \/ /\ ok /\ call'.intent = call.intent /\ call'.stage = "Intent"
              /\ records' = records \cup {NewRecord(i)}
        /\ records' \subseteq records \cup {NewRecord(i)}
    BY <1>13, <2>1 DEF CommitIntent, EvalCall, CallInv, PhaseInv, EvalPhase, StagedInv
  <2>3. i \in FenceIntent /\ NewRecord(i).intent = i /\ IsOpen(NewRecord(i))
    BY <2>1, NewRecordType DEF EvalCall
  <2>4. /\ \A r \in OpenIn(records) : r.intent.gens = call.gens
        /\ \A j \in call.intent : j.scope = call.scope /\ j.gens = call.gens /\ j.boot = boot
        /\ call.intent = {i}
    BY <1>13 DEF CommitIntent, CallInv, CallGensInv, StagedInv, EvalPhase
  <2>5. CallGensInv'
    BY <2>2, <2>3, <2>4 DEF CallGensInv, OpenIn
  <2>6. DecisionIntentBacked'
    BY <1>13, <2>2, <2>3, <2>4 DEF DecisionIntentBacked, CommitIntent, CommitFenceState, Upsert, OpenIn
  <2> QED BY <2>2, <2>5, <2>6, EvalPhaseInv DEF EvalPhase, RevokingInv, StagedInv, WithdrawInv,
               RestoredMeansUnfenced
<1>14. ASSUME NEW ok \in BOOLEAN, CommitDecision(ok) PROVE CallInv'
  BY <1>14, CallOver DEF CommitDecision
<1>15. CASE FinishOpen
  BY <1>15, CallOver DEF FinishOpen
<1>16. ASSUME NEW stage \in Stages, NEW intent \in SUBSET FenceIntent, Diagnosing,
              Decide(stage, intent), UNCHANGED <<opened, records, durable, boot>>,
              \A i \in intent : /\ stage = "Intent" /\ i.scope = call.scope
                                /\ \E r \in OpenIn(records) : r.intent = i,
              call.op = "restore" /\ stage = "Authorization" => OpenFor(records, call.scope) = {}
       PROVE  CallInv'
  <2>1. call \in EvalCall
    BY <1>16 DEF Diagnosing, TypeOK, OpenCall, Idle
  <2>2. /\ call'.pc = "decide" /\ call'.gens = call.gens /\ call'.scope = call.scope
        /\ call'.op = call.op /\ call'.stage = stage /\ call'.intent = intent /\ opened'
    BY <1>16, <2>1 DEF Diagnosing, Decide, EvalCall, CallInv, PhaseInv, EvalPhase
  <2>3. CallGensInv' /\ \A r \in OpenIn(records) : r.intent.gens = call.gens
    BY <1>16, <2>2 DEF Diagnosing, CallInv, CallGensInv, EvalPhase
  <2>4. DecisionIntentBacked'
    <3> SUFFICES ASSUME NEW i \in intent
                 PROVE  /\ i.gens = call.gens /\ i.boot = boot
                        /\ \E d \in OpenIn(durable) : d.intent = i
      BY <1>16, <2>2 DEF DecisionIntentBacked
    <3>1. PICK r \in OpenIn(records) : r.intent = i
      BY <1>16
    <3> QED BY <2>3, <3>1 DEF StateInv, RecordsInv, MemoryBackedByDisk, OpenIn
  <2>5. RestoredMeansUnfenced'
    BY <1>16, <2>2 DEF RestoredMeansUnfenced
  <2> QED BY <2>2, <2>3, <2>4, <2>5, EvalPhaseInv DEF EvalPhase, RevokingInv, StagedInv, WithdrawInv
<1>17. ASSUME NEW diag \in Diagnoses, DiagnoseOnly(diag) PROVE CallInv'
  <2>1. StageOf(diag) \in Stages
    BY DEF StageOf, Stages, Diagnoses
  <2> QED BY <1>16, <1>17, <2>1 DEF DiagnoseOnly
<1>18. ASSUME NEW diag \in Diagnoses, RestoreUnfenced(diag) PROVE CallInv'
  <2> DEFINE stage == IF diag = "Restorable" THEN "Authorization"
                      ELSE IF diag = "NoEvidence" THEN "None" ELSE "Observation"
  <2>1. stage \in Stages /\ (stage = "Authorization" => diag = "Restorable")
    BY DEF Stages
  <2>2. Decide(stage, {}) /\ (diag = "Restorable" => OpenFor(records, call.scope) = {})
    BY <1>18 DEF RestoreUnfenced
  <2> HIDE DEF stage
  <2> QED BY <1>16, <1>18, <2>1, <2>2 DEF RestoreUnfenced
<1>19. ASSUME NEW r \in records, StageDuplicate(r) PROVE CallInv'
  <2>1. /\ r \in OpenIn(records) /\ r.intent.scope = call.scope /\ r.intent \in FenceIntent
        /\ "Intent" \in Stages
    BY <1>19 DEF StageDuplicate, OpenFor, TypeOK, FenceRecord, Stages
  <2> QED BY <1>16, <1>19, <2>1 DEF StageDuplicate, Authorizing
<1>20. CASE StageExhausted
  BY <1>16, <1>20 DEF StageExhausted, Authorizing, Stages
<1>21. ASSUME NEW r \in records, RestoreFenced(r) PROVE CallInv'
  <2>1. call \in EvalCall
    BY <1>21 DEF RestoreFenced, Diagnosing, TypeOK, OpenCall, Idle
  <2>2. /\ call'.pc = "withdraw" /\ call'.gens = call.gens /\ call'.scope = call.scope
        /\ call'.op = "restore" /\ call'.intent = {r.intent} /\ opened' /\ UNCHANGED records
    BY <1>21, <2>1 DEF RestoreFenced, Diagnosing, EvalCall, CallInv, PhaseInv, EvalPhase
  <2>3. CallGensInv'
    BY <1>21, <2>2 DEF RestoreFenced, Diagnosing, CallInv, CallGensInv, EvalPhase
  <2>4. WithdrawInv'
    BY <1>21, <2>2 DEF RestoreFenced, WithdrawInv, OpenFor
  <2> QED BY <2>2, <2>3, <2>4, EvalPhaseInv DEF EvalPhase, RevokingInv, StagedInv,
               DecisionIntentBacked, RestoredMeansUnfenced
<1>22. CASE StageIntent
  <2> DEFINE i == MintIntent(call.scope, call.gens, boot, clock, stats.issue_attempts + 1)
  <2>1. call \in EvalCall
    BY <1>22 DEF StageIntent, Authorizing, Diagnosing, TypeOK, OpenCall, Idle
  <2>2. /\ call'.pc = "intent" /\ call'.gens = call.gens /\ call'.scope = call.scope
        /\ call'.op # "restore" /\ call'.intent = {i} /\ opened'
        /\ UNCHANGED <<records, durable, boot, opened>>
    BY <1>22, <2>1 DEF StageIntent, Authorizing, Diagnosing, EvalCall, CallInv, PhaseInv, EvalPhase
  <2>3. /\ i.scope = call.scope /\ i.gens = call.gens /\ i.boot = boot
        /\ i.serial = stats.issue_attempts + 1
    BY DEF MintIntent
  <2> HIDE DEF i
  <2>4. CallGensInv' /\ \A r \in OpenIn(records) : r.intent.gens = call.gens
    BY <1>22, <2>2 DEF StageIntent, Authorizing, Diagnosing, CallInv, CallGensInv, EvalPhase
  <2>5. stats'.issue_attempts = stats.issue_attempts + 1 /\ stats.issue_attempts \in Nat
    BY <1>22 DEF StageIntent, TypeOK, IssueStats
  <2>6. \A r \in records \cup durable : r.intent # i
    <3>1. \A r \in records \cup durable : r.intent.serial \in Nat
      BY DEF TypeOK, FenceRecord, FenceIntent
    <3> QED BY <2>2, <2>3, <2>5, <3>1 DEF StateInv, RecordsInv, DurableInv
  <2>7. \A r \in OpenIn(records) : r.intent.scope # call.scope
    BY <1>22, <2>4 DEF StageIntent, HasDuplicate, OpenFor
  <2>8. StagedInv'
    BY <2>2, <2>3, <2>5, <2>6, <2>7 DEF StagedInv
  <2> QED BY <2>2, <2>4, <2>8, EvalPhaseInv DEF EvalPhase, RevokingInv, WithdrawInv,
               DecisionIntentBacked, RestoredMeansUnfenced
<1>23. ASSUME UNCHANGED <<boot, durable, interrupted, volatile>> PROVE CallInv'
  BY <1>23 DEF volatile, CallInv, PhaseInv, EvalPhase, OpenPhase, CallGensInv, RevokingInv, StagedInv,
               WithdrawInv, FencingInv, DecisionIntentBacked, RestoredMeansUnfenced
<1>24. ASSUME NEW t \in 0..MaxTime, SetClock(t) PROVE CallInv'
  BY <1>23, <1>24 DEF SetClock
<1>25. CASE UNCHANGED vars
  BY <1>23, <1>25 DEF vars
<1> QED
  BY <1>1, <1>2, <1>3, <1>4, <1>5, <1>6, <1>7, <1>8, <1>9, <1>10, <1>11, <1>12, <1>13, <1>14,
     <1>15, <1>17, <1>18, <1>19, <1>20, <1>21, <1>22, <1>24, <1>25, NextCases

(* The invariant is inductive. *)
LEMMA InvStep == IInv /\ [Next]_vars => IInv'
  BY TypeStep, StateStep, CallInvStep DEF IInv

LEMMA Invariance == Spec => []IInv
  BY InvInit, InvStep, PTL DEF Spec
-----------------------------------------------------------------------------
(* At any time a scope has at most one open fence and all open fences have the
   same generations, so that open_for() and restore(), which look at the scope
   alone, cannot pick the wrong fence. *)
THEOREM FencesUnambiguous == Spec => [](UniformGens /\ OneOpenPerScope)
  BY Invariance, PTL DEF IInv, StateInv

(* A fence open in memory has an open durable record that is not ahead of it,
   whichever commits were refused: disk first on issue, memory first on update. *)
THEOREM DiskBeforeMemory == Spec => []MemoryBackedByDisk
  BY Invariance, PTL DEF IInv, StateInv

(* No fence of an earlier boot is open once open() has returned. *)
THEOREM RestartFences == Spec => []NoPriorAuthority
  BY Invariance, PTL DEF IInv, StateInv

(* Each fence that a restart closed has its interruption on disk, also when the
   process died between the two records. *)
THEOREM InterruptionsComplete == Spec => []InterruptionRecorded
  BY Invariance, PTL DEF IInv, StateInv

(* A decision about to be published at stage INTENT names a fence of its own
   scope and generations that is open in memory and on disk. *)
THEOREM IntentsBacked == Spec => []DecisionIntentBacked
  BY Invariance, PTL DEF IInv, CallInv

(* A restoration that is authorized leaves its scope unfenced. *)
THEOREM RestorationComplete == Spec => []RestoredMeansUnfenced
  BY Invariance, PTL DEF IInv, CallInv

(* No durable decision, and none in localize()'s window, names a fence without a
   durable record. *)
THEOREM LineageSound == Spec => []LineageHasFence
  BY Invariance, PTL DEF IInv, StateInv

(* A step never rewrites a durable terminal state. *)
LEMMA TerminalStep ==
  ASSUME IInv, [Next]_vars, NEW d \in durable, ~IsOpen(d)
  PROVE  d \in durable'
<1> USE DEF IInv
<1>1. ASSUME NEW r, NEW ok, CommitFenceState(r, ok), d.intent # r.intent PROVE d \in durable'
  BY <1>1 DEF CommitFenceState, Upsert
<1>2. ASSUME NEW r \in OpenIn(records) PROVE d.intent # r.intent
  BY <1>2 DEF StateInv, MemoryBackedByDisk, DurableInv, OpenIn
<1>3. ASSUME NEW r \in records, NEW ok \in BOOLEAN, AcknowledgeFence(r, ok) PROVE d \in durable'
  <2>1. r \in OpenIn(records) /\ CommitFenceState(Acknowledged(r), ok)
    BY <1>3 DEF AcknowledgeFence, UpdateOpen, OpenIn
  <2>2. Acknowledged(r).intent = r.intent
    BY RecordUpdates DEF TypeOK
  <2> QED BY <1>1, <1>2, <2>1, <2>2
<1>4. ASSUME NEW r \in records, NEW ok \in BOOLEAN, NEW verified \in BOOLEAN,
             ReportEffect(r, verified, ok)
      PROVE  d \in durable'
  <2>1. r \in OpenIn(records) /\ CommitFenceState(EffectReported(r, verified), ok)
    BY <1>4 DEF ReportEffect, UpdateOpen, OpenIn
  <2>2. EffectReported(r, verified).intent = r.intent
    BY RecordUpdates DEF TypeOK
  <2> QED BY <1>1, <1>2, <2>1, <2>2
<1>5. ASSUME NEW e \in durable, NEW ok \in BOOLEAN, CommitRestartFence(e, ok) PROVE d \in durable'
  <2>1. e.intent \in call.todo /\ d.intent \notin call.todo
    BY <1>5 DEF CommitRestartFence, CallInv, FencingInv
  <2>2. [e EXCEPT !.lifecycle = "FencedByRestart"].intent = e.intent
    BY DEF TypeOK, FenceRecord
  <2> QED BY <1>1, <1>5, <2>1, <2>2 DEF CommitRestartFence
<1>6. ASSUME NEW r \in records, NEW ok \in BOOLEAN, CommitRevocation(r, ok) PROVE d \in durable'
  BY <1>1, <1>6 DEF CommitRevocation, CallInv, RevokingInv
<1>7. ASSUME NEW r \in records, NEW ok \in BOOLEAN, CommitWithdrawal(r, ok) PROVE d \in durable'
  <2>1. r \in OpenIn(records)
    BY <1>7 DEF CommitWithdrawal, CallInv, WithdrawInv, StateInv, RecordsInv, OpenIn
  <2> QED BY <1>1, <1>2, <1>7, <2>1, RecordUpdates DEF CommitWithdrawal, TypeOK
<1>8. ASSUME NEW i \in call.intent, NEW ok \in BOOLEAN, CommitIntent(i, ok) PROVE d \in durable'
  <2>1. NewRecord(i).intent = i /\ d.intent # i
    BY <1>8 DEF CommitIntent, CallInv, StagedInv, NewRecord
  <2> QED BY <1>1, <1>8, <2>1 DEF CommitIntent
<1>9. CASE UNCHANGED durable
  BY <1>9
<1> QED
  BY <1>3, <1>4, <1>5, <1>6, <1>7, <1>8, <1>9, NextCases
     DEF BeginOpen, Close, Begin, FinishLocalize, ExpireOnUse, CommitBoot, CommitInterruption,
         CommitDecision, FinishOpen, DiagnoseOnly, RestoreUnfenced, StageDuplicate, RestoreFenced,
         StageExhausted, StageIntent, Crash, SetClock, vars

(* Once a terminal fence state is on disk, no late acknowledgement, effect
   report, revalidation, restoration or restart replaces it. *)
THEOREM TerminalFinal == Spec => DurableTerminalFinal
<1>1. IInv /\ [Next]_vars => [\A d \in durable : ~IsOpen(d) => d \in durable']_vars
  BY TerminalStep
<1> QED BY <1>1, Invariance, PTL DEF Spec, DurableTerminalFinal

(* While a restoration is being committed, only its own commit takes an open fence
   out of the records of a living engine. *)
LEMMA WithdrawStep ==
  ASSUME TypeOK, [Next]_vars, NEW r \in OpenIn(records),
         call.pc = "withdraw", r \notin records', opened'
  PROVE  Revoked(r) \in records' /\ Revoked(r) \in durable'
<1>1. call # Idle /\ r \in records
  BY DEF Idle, OpenIn
<1>2. ASSUME NEW s \in records, NEW ok \in BOOLEAN, CommitWithdrawal(s, ok)
      PROVE  Revoked(r) \in records' /\ Revoked(r) \in durable'
  <2>1. ok /\ s = r
    BY <1>1, <1>2 DEF CommitWithdrawal, Replace
  <2> QED BY <1>2, <2>1 DEF CommitWithdrawal, CommitFenceState, Replace, Upsert
<1>3. UNCHANGED records => FALSE
  BY <1>1
<1> QED
  BY <1>1, <1>2, <1>3, NextCases
     DEF BeginOpen, Close, Begin, FinishLocalize, ExpireOnUse, AcknowledgeFence, ReportEffect,
         UpdateOpen, CommitBoot, CommitInterruption, CommitRestartFence, CommitRevocation,
         CommitIntent, CommitDecision, FinishOpen, DiagnoseOnly, RestoreUnfenced,
         StageDuplicate, RestoreFenced, StageExhausted, StageIntent, Authorizing, Diagnosing,
         Crash, SetClock, volatile, vars

(* restore() withdraws a fence in memory only with its revocation on disk. *)
THEOREM WithdrawalDurable == Spec => WithdrawnOnDiskFirst
<1>1. TypeOK /\ [Next]_vars =>
        [\A r \in OpenIn(records) :
           call.pc = "withdraw" /\ r \notin records' /\ opened' =>
             Revoked(r) \in records' /\ Revoked(r) \in durable']_vars
  BY WithdrawStep
<1> QED BY <1>1, TypeCorrect, PTL DEF Spec, WithdrawnOnDiskFirst
-----------------------------------------------------------------------------
(* Engine implements FencingAuthority: the initial states map to initial states and
   every step maps to a step or to a stutter, for every value of the constants. *)

(* What a call still has to put on record is on record as granted, and no longer
   in force. *)
TodoInv ==
  call.pc = "revoking" =>
    \A i \in call.todo : /\ HasDurableRecord(i)
                         /\ \A r \in records : r.intent = i => ~IsOpen(r)

(* Revalidation fills the list, each commit takes one off, no other step that
   leaves it in place touches memory or disk. *)
LEMMA TodoStep ==
  ASSUME IInv, TodoInv, [Next]_vars
  PROVE  TodoInv'
<1> USE DEF TodoInv
<1>1. ASSUME NEW op, NEW c, NEW scope, NEW gens, Begin(op, c, scope, gens)
      PROVE  TodoInv'
  <2>1. /\ records' = {Revalidated(r, clock, gens) : r \in records}
        /\ call'.todo = {r.intent : r \in {s \in records : Revalidated(s, clock, gens) # s}}
        /\ UNCHANGED durable
    BY <1>1 DEF Begin
  <2> SUFFICES ASSUME NEW i \in call'.todo
               PROVE  HasDurableRecord(i)' /\ \A r \in records' : r.intent = i => ~IsOpen(r)
    OBVIOUS
  <2>2. PICK s \in records : Revalidated(s, clock, gens) # s /\ s.intent = i
    BY <2>1
  <2>3. s \in OpenIn(records)
    BY <2>2, RevalidatedType DEF IInv, TypeOK, OpenIn
  <2>4. HasDurableRecord(i)'
    BY <2>1, <2>2, <2>3 DEF IInv, StateInv, MemoryBackedByDisk, HasDurableRecord, OpenIn
  <2>5. ASSUME NEW r \in records', r.intent = i PROVE ~IsOpen(r)
    <3>1. PICK q \in records : r = Revalidated(q, clock, gens)
      BY <2>1
    <3>2. q.intent = i
      BY <2>5, <3>1, RevalidatedType DEF IInv, TypeOK
    <3>3. q = s
      BY <2>2, <3>2 DEF IInv, StateInv, RecordsInv
    <3> QED BY <2>2, <3>1, <3>3, RevalidatedType DEF IInv, TypeOK
  <2> QED BY <2>4, <2>5
<1>2. ASSUME NEW r \in records, NEW ok \in BOOLEAN, CommitRevocation(r, ok)
      PROVE  TodoInv'
  <2>1. /\ call'.todo \subseteq call.todo
        /\ durable' = IF ok THEN Upsert(durable, r) ELSE durable
        /\ UNCHANGED records
        /\ call.pc = "revoking"
    BY <1>2 DEF CommitRevocation, CommitFenceState, TypeOK, IInv, EvalCall, OpenCall, Idle
  <2>2. \A i : HasDurableRecord(i) => HasDurableRecord(i)'
    BY <2>1 DEF HasDurableRecord, Upsert
  <2> QED BY <2>1, <2>2
<1>3. ASSUME call' = call, UNCHANGED <<records, durable>> PROVE TodoInv'
  BY <1>3 DEF HasDurableRecord
<1>4. CASE call'.pc # "revoking"
  BY <1>4
<1>5. ASSUME NEW r \in records, NEW ok \in BOOLEAN, CommitWithdrawal(r, ok)
      PROVE  call'.pc # "revoking"
  BY <1>5 DEF CommitWithdrawal, IInv, TypeOK, EvalCall, OpenCall, Idle
<1>6. ASSUME NEW i \in call.intent, NEW ok \in BOOLEAN, CommitIntent(i, ok)
      PROVE  call'.pc # "revoking"
  BY <1>6 DEF CommitIntent, IInv, TypeOK, EvalCall, OpenCall, Idle
<1>7. ASSUME NEW stage, NEW intent, Decide(stage, intent), Diagnosing
      PROVE  call'.pc # "revoking"
  BY <1>7 DEF Decide, Diagnosing, IInv, TypeOK, EvalCall, OpenCall, Idle
<1>8. ASSUME StageIntent \/ \E r \in records : RestoreFenced(r)
      PROVE  call'.pc # "revoking"
  BY <1>8 DEF StageIntent, Authorizing, RestoreFenced, Diagnosing, IInv, TypeOK, EvalCall, OpenCall, Idle
<1>9. ASSUME NEW i \in call.todo, NEW ok \in BOOLEAN, CommitInterruption(i, ok)
      PROVE  call'.pc # "revoking"
  BY <1>9 DEF CommitInterruption, IInv, TypeOK, EvalCall, OpenCall, Idle
<1>10. ASSUME NEW d \in durable, NEW ok \in BOOLEAN, CommitRestartFence(d, ok)
      PROVE  call'.pc # "revoking"
  BY <1>10 DEF CommitRestartFence, IInv, TypeOK, EvalCall, OpenCall, Idle
<1>11. ASSUME call' = Idle PROVE call'.pc # "revoking"
  BY <1>11 DEF Idle
<1>12. ASSUME NEW t, SetClock(t) PROVE TodoInv'
  BY <1>3, <1>12 DEF SetClock, volatile
<1>13. CASE UNCHANGED vars
  BY <1>3, <1>13 DEF vars, volatile
<1>14. ASSUME BeginOpen \/ \E ok \in BOOLEAN : CommitBoot(ok) PROVE call'.pc # "revoking"
  BY <1>14 DEF BeginOpen, CommitBoot, Idle
<1>15. ASSUME \/ Close
              \/ \E c \in Callers, ok \in BOOLEAN : \E intent \in inflight[c] :
                   FinishLocalize(c, intent, ok)
              \/ \E r \in records : ExpireOnUse(r)
              \/ \E r \in records, ok \in BOOLEAN : AcknowledgeFence(r, ok)
              \/ \E r \in records, ok \in BOOLEAN, verified \in BOOLEAN :
                   ReportEffect(r, verified, ok)
              \/ \E ok \in BOOLEAN : CommitDecision(ok)
              \/ FinishOpen
              \/ Crash
       PROVE  call' = Idle
  BY <1>15 DEF Close, FinishLocalize, ExpireOnUse, AcknowledgeFence, ReportEffect, UpdateOpen,
               CommitDecision, FinishOpen, Crash
<1>16. ASSUME \/ \E diag \in Diagnoses : DiagnoseOnly(diag) \/ RestoreUnfenced(diag)
              \/ \E r \in records : StageDuplicate(r)
              \/ StageExhausted
       PROVE  call'.pc # "revoking"
  BY <1>7, <1>16 DEF DiagnoseOnly, RestoreUnfenced, StageDuplicate, StageExhausted, Authorizing
<1> QED
  BY <1>1, <1>2, <1>4, <1>5, <1>6, <1>8, <1>9, <1>10, <1>11, <1>12, <1>13, <1>14, <1>15, <1>16,
     NextCases

LEMMA TodoInvariance == Spec => []TodoInv
<1>1. Init => TodoInv
  BY DEF Init, Idle, TodoInv
<1> QED BY <1>1, TodoStep, Invariance, PTL DEF Spec
-----------------------------------------------------------------------------
(* What a change of memory or disk means for the authorities. *)

InForce == IntentsOf(OpenIn(records))
OnRecord == IntentsOf(OpenIn(durable))
Ended == IntentsOf(durable \ OpenIn(durable))

LEMMA IsInForce == \A i : i \in InForce <=> \E r \in records : IsOpen(r) /\ r.intent = i
  BY DEF InForce, IntentsOf, OpenIn

LEMMA IsOnRecord == \A i : i \in OnRecord <=> \E d \in durable : IsOpen(d) /\ d.intent = i
  BY DEF OnRecord, IntentsOf, OpenIn

LEMMA IsEnded == \A i : i \in Ended <=> \E d \in durable : ~IsOpen(d) /\ d.intent = i
  BY DEF Ended, IntentsOf, OpenIn

(* A step that opens nothing in memory and leaves the disk alone is a lapse. *)
LEMMA LapseStep ==
  ASSUME UNCHANGED <<opened, durable>>, InForce' \subseteq InForce
  PROVE  Authority!Lapse
  BY DEF Authority!Lapse, InForce

(* A step that changes neither which fences are open nor which have ended. *)
LEMMA StutterStep ==
  ASSUME opened' = opened, InForce' = InForce, OnRecord' = OnRecord, Ended' = Ended
  PROVE  UNCHANGED Authority!vars
  BY DEF Authority!vars, InForce, OnRecord, Ended

(* A terminal state replaces an open one on disk. *)
LEMMA EndStep ==
  ASSUME IInv, NEW d \in durable, IsOpen(d), NEW new, new.intent = d.intent, ~IsOpen(new),
         durable' = Upsert(durable, new), opened' = opened,
         InForce' = InForce \ {d.intent}
  PROVE  Authority!End(d.intent) /\ d.intent \in OnRecord
<1>1. d.intent \in OnRecord
  BY IsOnRecord
<1>2. OnRecord' = OnRecord \ {d.intent}
  <2>1. ASSUME NEW i PROVE i \in OnRecord' <=> i \in OnRecord \ {d.intent}
    <3>1. i \in OnRecord' <=> \E e \in durable' : IsOpen(e) /\ e.intent = i
      BY IsOnRecord DEF OnRecord, IntentsOf, OpenIn
    <3> QED BY <3>1, IsOnRecord DEF Upsert
  <2> QED BY <2>1
<1>3. Ended' = Ended \cup {d.intent}
  <2>1. ASSUME NEW i PROVE i \in Ended' <=> i \in Ended \cup {d.intent}
    <3>1. i \in Ended' <=> \E e \in durable' : ~IsOpen(e) /\ e.intent = i
      BY DEF Ended, IntentsOf, OpenIn
    <3>2. ASSUME NEW e \in durable, ~IsOpen(e) PROVE e.intent # d.intent
      BY <3>2 DEF IInv, StateInv, DurableInv
    <3> QED BY <3>1, <3>2, IsEnded DEF Upsert
  <2> QED BY <2>1
<1> QED BY <1>1, <1>2, <1>3 DEF Authority!End, InForce, OnRecord, Ended

(* An open state replaces an open one on disk. *)
LEMMA RewriteStep ==
  ASSUME IInv, NEW d \in durable, IsOpen(d), NEW new, new.intent = d.intent, IsOpen(new),
         durable' = Upsert(durable, new)
  PROVE  OnRecord' = OnRecord /\ Ended' = Ended
<1>1. ASSUME NEW i PROVE i \in OnRecord' <=> i \in OnRecord
  <2>1. i \in OnRecord' <=> \E e \in durable' : IsOpen(e) /\ e.intent = i
    BY DEF OnRecord, IntentsOf, OpenIn
  <2> QED BY <2>1, IsOnRecord DEF Upsert
<1>2. ASSUME NEW i PROVE i \in Ended' <=> i \in Ended
  <2>1. i \in Ended' <=> \E e \in durable' : ~IsOpen(e) /\ e.intent = i
    BY DEF Ended, IntentsOf, OpenIn
  <2>2. ASSUME NEW e \in durable, ~IsOpen(e) PROVE e.intent # d.intent
    BY <2>2 DEF IInv, StateInv, DurableInv
  <2> QED BY <2>1, <2>2, IsEnded DEF Upsert
<1> QED BY <1>1, <1>2

(* An open fence in memory is open on disk. *)
LEMMA Backed ==
  ASSUME IInv, NEW r \in records, IsOpen(r)
  PROVE  \E d \in durable : IsOpen(d) /\ d.intent = r.intent
  BY DEF IInv, StateInv, MemoryBackedByDisk, OpenIn

-----------------------------------------------------------------------------
(* The capacity test of stage() still holds when the intent is published, for the
   call keeps the lock. *)
RoomInv == call.pc = "intent" => ~AtCapacity(records)

LEMMA RoomStep ==
  ASSUME IInv, RoomInv, [Next]_vars
  PROVE  RoomInv'
<1> USE DEF RoomInv
<1>1. CASE StageIntent
  BY <1>1 DEF StageIntent, AtCapacity
<1>2. ASSUME UNCHANGED <<call, records>> PROVE RoomInv'
  BY <1>2 DEF AtCapacity
<1>3. ASSUME NEW t, SetClock(t) PROVE RoomInv'
  BY <1>2, <1>3 DEF SetClock, volatile
<1>4. CASE UNCHANGED vars
  BY <1>2, <1>4 DEF vars, volatile
<1>5. ASSUME \/ Close
             \/ \E c \in Callers, ok \in BOOLEAN : \E intent \in inflight[c] :
                  FinishLocalize(c, intent, ok)
             \/ \E r \in records : ExpireOnUse(r)
             \/ \E r \in records, ok \in BOOLEAN : AcknowledgeFence(r, ok)
             \/ \E r \in records, ok \in BOOLEAN, verified \in BOOLEAN :
                  ReportEffect(r, verified, ok)
             \/ \E ok \in BOOLEAN : CommitDecision(ok)
             \/ FinishOpen
             \/ Crash
      PROVE  call'.pc # "intent"
  BY <1>5 DEF Close, FinishLocalize, ExpireOnUse, AcknowledgeFence, ReportEffect, UpdateOpen,
              CommitDecision, FinishOpen, Crash, Idle
<1>6. ASSUME \/ BeginOpen
             \/ \E ok \in BOOLEAN : CommitBoot(ok)
             \/ \E c \in Callers, op \in {"evaluate", "localize", "restore"},
                   scope \in Scopes, gens \in Gens : Begin(op, c, scope, gens)
      PROVE  call'.pc # "intent"
  BY <1>6 DEF BeginOpen, CommitBoot, Begin, Idle
<1>7. ASSUME NEW i \in call.todo, NEW ok \in BOOLEAN, CommitInterruption(i, ok)
      PROVE  call'.pc # "intent"
  BY <1>7 DEF CommitInterruption, IInv, TypeOK, EvalCall, OpenCall, Idle
<1>8. ASSUME NEW d \in durable, NEW ok \in BOOLEAN, CommitRestartFence(d, ok)
      PROVE  call'.pc # "intent"
  BY <1>8 DEF CommitRestartFence, IInv, TypeOK, EvalCall, OpenCall, Idle
<1>9. ASSUME NEW r \in records, NEW ok \in BOOLEAN,
             CommitRevocation(r, ok) \/ CommitWithdrawal(r, ok) \/ RestoreFenced(r)
      PROVE  call'.pc # "intent"
  BY <1>9 DEF CommitRevocation, CommitWithdrawal, RestoreFenced, Diagnosing, IInv, TypeOK, EvalCall,
              OpenCall, Idle
<1>10. ASSUME NEW i \in call.intent, NEW ok \in BOOLEAN, CommitIntent(i, ok)
       PROVE  call'.pc # "intent"
  BY <1>10 DEF CommitIntent, IInv, TypeOK, EvalCall, OpenCall, Idle
<1>11. ASSUME NEW stage, NEW intent, Decide(stage, intent), Diagnosing
       PROVE  call'.pc # "intent"
  BY <1>11 DEF Decide, Diagnosing, IInv, TypeOK, EvalCall, OpenCall, Idle
<1>12. ASSUME \/ \E diag \in Diagnoses : DiagnoseOnly(diag) \/ RestoreUnfenced(diag)
              \/ \E r \in records : StageDuplicate(r)
              \/ StageExhausted
       PROVE  call'.pc # "intent"
  BY <1>11, <1>12 DEF DiagnoseOnly, RestoreUnfenced, StageDuplicate, StageExhausted, Authorizing
<1> QED
  BY <1>1, <1>3, <1>4, <1>5, <1>6, <1>7, <1>8, <1>9, <1>10, <1>12, NextCases

LEMMA RoomInvariance == Spec => []RoomInv
<1>1. Init => RoomInv
  BY DEF Init, Idle, RoomInv
<1> QED BY <1>1, RoomStep, Invariance, PTL DEF Spec
-----------------------------------------------------------------------------
(* Each step of the engine is a step of the authority, or a stutter. *)

LEMMA UpdateRefines ==
  ASSUME IInv, NEW r \in records, NEW new, NEW ok \in BOOLEAN, new.intent = r.intent,
         IsOpen(new), UpdateOpen(r, new, ok)
  PROVE  UNCHANGED Authority!vars
<1>1. /\ IsOpen(r) /\ opened' = opened
      /\ records' = (records \ {r}) \cup {new}
      /\ durable' = IF ok THEN Upsert(durable, new) ELSE durable
  BY DEF UpdateOpen, Replace, CommitFenceState
<1>2. InForce' = InForce
  <2>1. ASSUME NEW i PROVE i \in InForce' <=> i \in InForce
    <3>1. i \in InForce' <=> \E s \in records' : IsOpen(s) /\ s.intent = i
      BY DEF InForce, IntentsOf, OpenIn
    <3> QED BY <1>1, <3>1, IsInForce
  <2> QED BY <2>1
<1>3. CASE ok
  <2>1. PICK d \in durable : IsOpen(d) /\ d.intent = r.intent
    BY <1>1, Backed
  <2>2. OnRecord' = OnRecord /\ Ended' = Ended
    BY <1>1, <1>3, <2>1, RewriteStep
  <2> QED BY <1>1, <1>2, <2>2, StutterStep
<1>4. CASE ~ok
  <2>1. OnRecord' = OnRecord /\ Ended' = Ended
    BY <1>1, <1>4 DEF OnRecord, Ended
  <2> QED BY <1>1, <1>2, <2>1, StutterStep
<1> QED BY <1>3, <1>4

LEMMA BeginRefines ==
  ASSUME IInv, NEW op, NEW c, NEW scope, NEW gens, Begin(op, c, scope, gens)
  PROVE  Authority!Lapse
<1>1. /\ records' = {Revalidated(r, clock, gens) : r \in records}
      /\ UNCHANGED <<opened, durable>>
  BY DEF Begin
<1>2. ASSUME NEW i \in InForce' PROVE i \in InForce
  <2>1. PICK s \in records' : IsOpen(s) /\ s.intent = i
    BY <1>2 DEF InForce, IntentsOf, OpenIn
  <2>2. PICK r \in records : s = Revalidated(r, clock, gens)
    BY <1>1, <2>1
  <2>3. s = r
    BY <2>1, <2>2, RevalidatedType DEF IInv, TypeOK
  <2> QED BY <2>1, <2>3, IsInForce
<1> QED BY <1>1, <1>2, LapseStep

LEMMA ExpireRefines ==
  ASSUME IInv, NEW r \in records, ExpireOnUse(r)
  PROVE  Authority!Lapse
<1>1. /\ records' = (records \ {r}) \cup {Expired(r)}
      /\ UNCHANGED <<opened, durable>>
  BY DEF ExpireOnUse, Replace
<1>2. ~IsOpen(Expired(r))
  BY RecordUpdates DEF IInv, TypeOK
<1>3. ASSUME NEW i \in InForce' PROVE i \in InForce
  <2>1. PICK s \in records' : IsOpen(s) /\ s.intent = i
    BY <1>3 DEF InForce, IntentsOf, OpenIn
  <2> QED BY <1>1, <1>2, <2>1, IsInForce
<1> QED BY <1>1, <1>3, LapseStep

LEMMA DecisionRefines ==
  ASSUME IInv, NEW ok \in BOOLEAN, CommitDecision(ok)
  PROVE  Authority!Lapse
<1>1. /\ \A s \in records' : IsOpen(s) => s \in records
      /\ UNCHANGED <<opened, durable>>
  BY RecordUpdates DEF CommitDecision, IInv, TypeOK
<1>2. ASSUME NEW i \in InForce' PROVE i \in InForce
  <2>1. PICK s \in records' : IsOpen(s) /\ s.intent = i
    BY <1>2 DEF InForce, IntentsOf, OpenIn
  <2> QED BY <1>1, <2>1, IsInForce
<1> QED BY <1>1, <1>2, LapseStep

LEMMA RestartRefines ==
  ASSUME IInv, NEW d \in durable, NEW ok \in BOOLEAN, CommitRestartFence(d, ok)
  PROVE  (\E i \in OnRecord : Authority!End(i)) \/ UNCHANGED Authority!vars
<1>1. /\ call.pc = "fencing" /\ d.intent \in call.intent
      /\ durable' = IF ok THEN Upsert(durable, [d EXCEPT !.lifecycle = "FencedByRestart"])
                          ELSE durable
      /\ UNCHANGED <<opened, records>>
  BY DEF CommitRestartFence, CommitFenceState
<1>2. IsOpen(d) /\ ~opened
  BY <1>1 DEF IInv, CallInv, FencingInv, PhaseInv, OpenPhase
<1>3. InForce = {} /\ InForce' = {}
  BY <1>1, <1>2 DEF IInv, StateInv, RecordsInv, InForce, IntentsOf, OpenIn
<1>4. CASE ok
  <2> DEFINE new == [d EXCEPT !.lifecycle = "FencedByRestart"]
  <2>1. new.intent = d.intent /\ ~IsOpen(new)
    BY DEF IInv, TypeOK, FenceRecord, IsOpen, OpenStates
  <2>2. durable' = Upsert(durable, new)
    BY <1>1, <1>4
  <2> HIDE DEF new
  <2> QED BY <1>1, <1>2, <1>3, <2>1, <2>2, EndStep
<1>5. CASE ~ok
  BY <1>1, <1>5, StutterStep DEF InForce, OnRecord, Ended
<1> QED BY <1>4, <1>5

LEMMA RevocationRefines ==
  ASSUME IInv, TodoInv, NEW r \in records, NEW ok \in BOOLEAN, CommitRevocation(r, ok)
  PROVE  (\E i \in OnRecord : Authority!End(i)) \/ UNCHANGED Authority!vars
<1>1. /\ call.pc = "revoking" /\ r.intent \in call.todo
      /\ durable' = IF ok THEN Upsert(durable, r) ELSE durable
      /\ UNCHANGED <<opened, records>>
  BY DEF CommitRevocation, CommitFenceState
<1>2. ~IsOpen(r) /\ r.intent \notin InForce
  BY <1>1, IsInForce DEF TodoInv
<1>3. PICK d \in durable : d.intent = r.intent /\ IsOpen(d)
  BY <1>1 DEF TodoInv, HasDurableRecord, IInv, CallInv, RevokingInv
<1>4. InForce' = InForce /\ InForce = InForce \ {d.intent}
  BY <1>1, <1>2, <1>3 DEF InForce
<1>5. CASE ok
  BY <1>1, <1>2, <1>3, <1>4, <1>5, EndStep
<1>6. CASE ~ok
  BY <1>1, <1>4, <1>6, StutterStep DEF OnRecord, Ended
<1> QED BY <1>5, <1>6

LEMMA WithdrawalRefines ==
  ASSUME IInv, NEW r \in records, NEW ok \in BOOLEAN, CommitWithdrawal(r, ok)
  PROVE  (\E i \in OnRecord : Authority!End(i)) \/ UNCHANGED Authority!vars
<1>1. /\ call.pc = "withdraw" /\ r.intent \in call.intent
      /\ durable' = IF ok THEN Upsert(durable, Revoked(r)) ELSE durable
      /\ records' = IF ok THEN (records \ {r}) \cup {Revoked(r)} ELSE records
      /\ opened' = opened
  BY DEF CommitWithdrawal, CommitFenceState, Replace
<1>2. IsOpen(r)
  BY <1>1 DEF IInv, CallInv, WithdrawInv, StateInv, RecordsInv, OpenIn
<1>3. Revoked(r).intent = r.intent /\ ~IsOpen(Revoked(r))
  BY RecordUpdates DEF IInv, TypeOK
<1>4. PICK d \in durable : IsOpen(d) /\ d.intent = r.intent
  BY <1>2, Backed
<1>5. CASE ok
  <2>1. InForce' = InForce \ {d.intent}
    <3>1. ASSUME NEW i PROVE i \in InForce' <=> i \in InForce \ {d.intent}
      <4>1. i \in InForce' <=> \E s \in records' : IsOpen(s) /\ s.intent = i
        BY DEF InForce, IntentsOf, OpenIn
      <4>2. ASSUME NEW s \in records, s.intent = r.intent PROVE s = r
        BY <4>2 DEF IInv, StateInv, RecordsInv
      <4> QED BY <1>1, <1>3, <1>4, <1>5, <4>1, <4>2, IsInForce
    <3> QED BY <3>1
  <2> QED BY <1>1, <1>3, <1>4, <1>5, <2>1, EndStep
<1>6. CASE ~ok
  BY <1>1, <1>6, StutterStep DEF InForce, OnRecord, Ended
<1> QED BY <1>5, <1>6

LEMMA IntentRefines ==
  ASSUME IInv, RoomInv, NEW i \in call.intent, NEW ok \in BOOLEAN, CommitIntent(i, ok)
  PROVE  (i \in OnRecord' /\ Authority!Grant(i)) \/ UNCHANGED Authority!vars
<1>1. /\ call.pc = "intent"
      /\ durable' = IF ok THEN Upsert(durable, NewRecord(i)) ELSE durable
      /\ opened' = opened
      /\ records' = IF ok /\ CanCommitStaged(records, i) THEN records \cup {NewRecord(i)}
                                                         ELSE records
  BY DEF CommitIntent, CommitFenceState
<1>2. /\ opened
      /\ \A r \in OpenIn(records) : r.intent.scope # i.scope
      /\ \A r \in records \cup durable : r.intent # i
  BY <1>1 DEF IInv, CallInv, PhaseInv, EvalPhase, StagedInv
<1>3. CanCommitStaged(records, i)
  BY <1>1, <1>2 DEF CanCommitStaged, RoomInv, Find, HasDuplicate, OpenFor
<1>4. NewRecord(i).intent = i /\ IsOpen(NewRecord(i))
  BY DEF NewRecord, IsOpen, OpenStates
<1>5. CASE ok
  <2>1. records' = records \cup {NewRecord(i)} /\ durable' = durable \cup {NewRecord(i)}
    BY <1>1, <1>2, <1>3, <1>4, <1>5 DEF Upsert
  <2>2. InForce' = InForce \cup {i} /\ OnRecord' = OnRecord \cup {i} /\ Ended' = Ended
    BY <1>4, <2>1 DEF InForce, OnRecord, Ended, IntentsOf, OpenIn
  <2>3. i \notin OnRecord \cup Ended
    BY <1>2, IsOnRecord, IsEnded
  <2>4. \A j \in InForce : j.scope # i.scope
    BY <1>2 DEF InForce, IntentsOf
  <2>5. Authority!Grant(i)
    BY <1>1, <1>2, <2>2, <2>3, <2>4 DEF Authority!Grant, InForce, OnRecord, Ended
  <2> QED BY <2>2, <2>5
<1>6. CASE ~ok
  BY <1>1, <1>6, StutterStep DEF InForce, OnRecord, Ended
<1> QED BY <1>5, <1>6

LEMMA LifecycleRefines ==
  ASSUME IInv, FinishOpen \/ Close \/ Crash
  PROVE  Authority!StartServing \/ Authority!StopServing \/ Authority!Lapse
<1>1. CASE FinishOpen
  <2>1. /\ ~opened /\ opened' = TRUE /\ records' = {} /\ durable' = durable
        /\ call.pc = "fencing" /\ call.todo = {}
    BY <1>1 DEF FinishOpen, IInv, CallInv, PhaseInv, OpenPhase
  <2>2. OnRecord = {} /\ OnRecord' = OnRecord /\ Ended' = Ended
    BY <2>1 DEF OnRecord, Ended, IntentsOf, OpenIn, IInv, CallInv, FencingInv
  <2>3. InForce = {} /\ InForce' = {}
    BY <2>1 DEF InForce, IntentsOf, OpenIn, IInv, StateInv, RecordsInv
  <2> QED BY <2>1, <2>2, <2>3 DEF Authority!StartServing, InForce, OnRecord, Ended
<1>2. CASE Close \/ Crash
  <2>1. opened' = FALSE /\ records' = {} /\ durable' = durable
    BY <1>2 DEF Close, Crash
  <2>2. InForce' = {} /\ OnRecord' = OnRecord /\ Ended' = Ended
    BY <2>1 DEF InForce, OnRecord, Ended, IntentsOf, OpenIn
  <2>3. CASE opened
    BY <2>1, <2>2, <2>3 DEF Authority!StopServing, InForce, OnRecord, Ended
  <2>4. CASE ~opened
    BY <2>1, <2>2, <2>4, LapseStep DEF IInv, TypeOK
  <2> QED BY <2>3, <2>4
<1> QED BY <1>1, <1>2

LEMMA RefinementStep ==
  IInv /\ TodoInv /\ RoomInv /\ [Next]_vars => [Authority!Next]_(Authority!vars)
<1> SUFFICES ASSUME IInv, TodoInv, RoomInv, [Next]_vars
             PROVE  Authority!Next \/ UNCHANGED Authority!vars
  OBVIOUS
<1>1. ASSUME UNCHANGED <<opened, records, durable>> PROVE UNCHANGED Authority!vars
  BY <1>1, StutterStep DEF InForce, OnRecord, Ended
<1>2. /\ Authority!StartServing \/ Authority!StopServing \/ Authority!Lapse => Authority!Next
      /\ \A i : i \in OnRecord /\ Authority!End(i) => Authority!Next
      /\ \A i : i \in OnRecord' /\ Authority!Grant(i) => Authority!Next
  BY DEF Authority!Next, OnRecord
<1>3. ASSUME NEW r \in records, NEW ok \in BOOLEAN, AcknowledgeFence(r, ok)
      PROVE  UNCHANGED Authority!vars
  <2>1. IsOpen(r) /\ UpdateOpen(r, Acknowledged(r), ok)
    BY <1>3 DEF AcknowledgeFence, UpdateOpen
  <2> QED BY <2>1, RecordUpdates, UpdateRefines DEF IInv, TypeOK
<1>4. ASSUME NEW r \in records, NEW ok \in BOOLEAN, NEW verified \in BOOLEAN,
             ReportEffect(r, verified, ok)
      PROVE  UNCHANGED Authority!vars
  <2>1. UpdateOpen(r, EffectReported(r, verified), ok)
    BY <1>4 DEF ReportEffect
  <2> QED BY <2>1, RecordUpdates, UpdateRefines DEF IInv, TypeOK
<1>5. ASSUME \/ BeginOpen
             \/ \E c \in Callers, ok \in BOOLEAN : \E intent \in inflight[c] :
                  FinishLocalize(c, intent, ok)
             \/ \E ok \in BOOLEAN : CommitBoot(ok)
             \/ \E i \in call.todo, ok \in BOOLEAN : CommitInterruption(i, ok)
             \/ \E diag \in Diagnoses : DiagnoseOnly(diag) \/ RestoreUnfenced(diag)
             \/ \E r \in records : StageDuplicate(r) \/ RestoreFenced(r)
             \/ StageExhausted
             \/ StageIntent
             \/ \E t \in 0..MaxTime : SetClock(t)
             \/ UNCHANGED vars
      PROVE  UNCHANGED <<opened, records, durable>>
  BY <1>5 DEF BeginOpen, FinishLocalize, CommitBoot, CommitInterruption, DiagnoseOnly, RestoreUnfenced,
              StageDuplicate, RestoreFenced, StageExhausted, StageIntent, SetClock, vars, volatile
<1> QED
  BY <1>1, <1>2, <1>3, <1>4, <1>5, BeginRefines, ExpireRefines, DecisionRefines, RestartRefines,
     RevocationRefines, WithdrawalRefines, IntentRefines, LifecycleRefines, NextCases

(* The engine implements FencingAuthority, for every set of subjects, generations and
   callers: authority comes into force only together with its durable record, a
   subject has one at a time, none returns once it has ended, and open() returns
   only when no earlier grant is left on record. *)
THEOREM EngineImplementsAuthority == Spec => AuthorityRefined
<1>1. Init => Authority!Init
  BY DEF Init, Authority!Init, IntentsOf, OpenIn
<1> QED
  BY <1>1, RefinementStep, Invariance, TodoInvariance, RoomInvariance, PTL
     DEF Spec, AuthorityRefined, Authority!Spec
=============================================================================
