-------------------------------- MODULE Store --------------------------------
(***************************************************************************)
(* The durable store (persist/store.cpp, journal.cpp, snapshot.cpp): an    *)
(* append-only journal, a snapshot that replaces its prefix, and the open  *)
(* that recovers from both.  A record on disk is a whole item; `have' and  *)
(* `need' count its bytes in coarse units, so that a short write, a torn   *)
(* tail and the length test of the scanner are told apart.  have = 0 is a  *)
(* fragment of a header.  CRCs and magic numbers are taken to detect what  *)
(* they are meant to detect.                                               *)
(*                                                                         *)
(* Faults names the failures that happen besides a crash between two calls *)
(* or inside an append, which leaves any prefix of the record:             *)
(*   "write"   a short write is reported to a process that lives on;       *)
(*   "fsync"   all bytes are written, the fsync is refused;                *)
(*   "zero"    a crash leaves zeros where the record was to be;            *)
(*   "rotate"  a crash or an error between snapshot and journal rotation.  *)
(***************************************************************************)
EXTENDS Integers, Sequences, FiniteSets

CONSTANTS
  Fences,           \* fence ids
  Policies,         \* policy fingerprints; each process is started with one
  Faults,           \* the failures of the platform, see above
  OtherSize,        \* units of a record that is not a fence state
  FenceSize,        \* units of a fence state record
  MaxJournalBytes,  \* config.max_journal_bytes, in units
  MaxRecords,       \* config.max_journal_records
  MaxPriorFences,   \* config.max_prior_fences
  MaxLineage,       \* config.max_lineage_records
  MaxSeq            \* bound on the records of one history

ASSUME StoreAssumption ==
  /\ Faults \subseteq {"write", "fsync", "zero", "rotate"}
  /\ {OtherSize, FenceSize, MaxJournalBytes, MaxRecords, MaxPriorFences, MaxLineage}
       \subseteq Nat \ {0}
  /\ MaxSeq \in Nat

VARIABLES
  journal,   \* the journal file
  snapshot,  \* the snapshot file: at most one [seq, state]
  policy,    \* policy_ of the running process
  opened,    \* opened_
  writable,  \* journal_ has a file
  state,     \* state_
  lastSeq,   \* last_seq_
  bytes,     \* journal_bytes_
  closing,   \* the fence whose interruption open() has just committed
  pc,        \* the step of open() or checkpoint() that comes next
  serving,   \* open() has answered Ok
  promised,  \* history: state_ at the last acknowledged commit
  epochs     \* history: the epochs that have served

disk == <<journal, snapshot>>
memory == <<opened, writable, state, lastSeq, bytes, closing, pc, serving>>
vars == <<disk, policy, memory, promised, epochs>>

(* DurableState; the lineage is its length. *)
EmptyState ==
  [epoch |-> 0, policy |-> "none", fences |-> {}, decisions |-> 0, interruptions |-> 0,
   seen |-> 0, dropped |-> 0, kept |-> 0]

FenceState == [id : Fences, epoch : Nat, open : BOOLEAN]

BootRecord(e) == [type |-> "Boot", epoch |-> e]
PolicyRecord(p) == [type |-> "Policy", policy |-> p]
DecisionRecord == [type |-> "Decision"]
FenceRecord(f) == [type |-> "Fence", fence |-> f]
InterruptionRecord == [type |-> "Interruption"]
CheckpointRecord(n) == [type |-> "Checkpoint", seq |-> n]
ZeroRecord == [type |-> "Zero"]

SizeOf(rec) == IF rec.type = "Fence" THEN FenceSize ELSE OtherSize

Item(seq, rec, have) == [seq |-> seq, rec |-> rec, have |-> have, need |-> SizeOf(rec)]

Closed(f) == [f EXCEPT !.open = FALSE]
-----------------------------------------------------------------------------
(* apply_record() and the commit functions change the state alike. *)

PushLineage(st) ==
  [st EXCEPT !.seen = @ + 1,
             !.dropped = IF st.kept >= MaxLineage THEN @ + 1 ELSE @,
             !.kept = IF @ >= MaxLineage THEN @ ELSE @ + 1]

Known(st, f) == \E g \in st.fences : g.id = f.id

NoRoom(st, f) == ~Known(st, f) /\ Cardinality(st.fences) >= MaxPriorFences

WithFence(st, f) == [st EXCEPT !.fences = {g \in @ : g.id # f.id} \cup {f}]

Applied(st, rec) ==
  CASE rec.type = "Boot" -> [st EXCEPT !.epoch = rec.epoch]
    [] rec.type = "Policy" -> [st EXCEPT !.policy = rec.policy]
    [] rec.type = "Decision" -> PushLineage([st EXCEPT !.decisions = @ + 1])
    [] rec.type = "Fence" -> PushLineage(WithFence(st, rec.fence))
    [] rec.type = "Interruption" -> PushLineage([st EXCEPT !.interruptions = @ + 1])
    [] rec.type = "Checkpoint" -> st

ApplyOutcome(st, seq, rec) ==
  CASE rec.type = "Boot" /\ rec.epoch <= st.epoch /\ st.epoch # 0 -> "Corrupt"
    [] rec.type = "Checkpoint" /\ rec.seq > seq -> "Corrupt"
    [] rec.type = "Fence" /\ NoRoom(st, rec.fence) -> "Exhausted"
    [] OTHER -> "Ok"

Bytes(j) ==
  LET Sum[n \in 0..Len(j)] == IF n = 0 THEN 0 ELSE Sum[n - 1] + j[n].have
  IN Sum[Len(j)]

(* scan_journal() with its visitor.  `records' counts the records replayed; the
   scan stops at a refusal, at a torn tail or at a zero tail. *)
Stop(acc, outcome) == [acc EXCEPT !.stop = TRUE, !.outcome = outcome]

ScanItem(acc, n, j, first) ==
  LET e == j[n]
      rest == SubSeq(j, n, Len(j))
      applied == ApplyOutcome(acc.state, e.seq, e.rec)
  IN IF acc.stop THEN acc
     ELSE IF e.rec = ZeroRecord THEN
       Stop(acc, IF \A i \in 1..Len(rest) : rest[i].rec = ZeroRecord THEN "Ok" ELSE "Corrupt")
     ELSE IF e.have = 0 THEN [Stop(acc, "Ok") EXCEPT !.torn = TRUE]
     ELSE IF e.seq # first + acc.records THEN Stop(acc, "Corrupt")
     ELSE IF e.need > Bytes(rest) THEN [Stop(acc, "Ok") EXCEPT !.torn = TRUE]
     ELSE IF e.have < e.need THEN Stop(acc, "Corrupt")
     ELSE IF acc.records >= MaxRecords THEN Stop(acc, "Exhausted")
     ELSE IF applied # "Ok" THEN Stop(acc, applied)
     ELSE [acc EXCEPT !.state = Applied(@, e.rec), !.records = @ + 1]

Scan(j, first, st) ==
  LET start == [outcome |-> "Ok", stop |-> FALSE, torn |-> FALSE, records |-> 0, state |-> st]
      Replay[n \in 0..Len(j)] ==
        IF n = 0 THEN start ELSE ScanItem(Replay[n - 1], n, j, first)
  IN IF Bytes(j) > MaxJournalBytes THEN Stop(start, "Oversized") ELSE Replay[Len(j)]

Latest == CHOOSE s \in snapshot : TRUE

SnapshotSeq == IF snapshot = {} THEN 0 ELSE Latest.seq

WithinBound == SnapshotSeq + Len(journal) < MaxSeq

(* Without a snapshot the replay starts from the state the object holds, which
   is empty in a new process only. *)
Recovered(held) ==
  Scan(journal, SnapshotSeq + 1, IF snapshot = {} THEN held ELSE Latest.state)
-----------------------------------------------------------------------------
Init ==
  /\ journal = <<>>
  /\ snapshot = {}
  /\ policy \in Policies
  /\ opened = FALSE
  /\ writable = FALSE
  /\ state = EmptyState
  /\ lastSeq = 0
  /\ bytes = 0
  /\ closing = {}
  /\ pc = "idle"
  /\ serving = FALSE
  /\ promised = EmptyState
  /\ epochs = {}

(* append_commit(): the record is on disk and synced, or it is refused and may
   have left bytes behind. *)
AppendOk(rec) ==
  /\ writable
  /\ bytes < MaxJournalBytes
  /\ journal' = Append(journal, Item(lastSeq + 1, rec, SizeOf(rec)))
  /\ bytes' = bytes + SizeOf(rec)
  /\ lastSeq' = lastSeq + 1

AppendRefused(rec) ==
  /\ UNCHANGED lastSeq
  /\ \/ UNCHANGED <<journal, bytes>>
     \/ /\ writable /\ bytes < MaxJournalBytes
        /\ \/ /\ "write" \in Faults
              /\ \E have \in 1..(SizeOf(rec) - 1) :
                   journal' = Append(journal, Item(lastSeq + 1, rec, have))
              /\ UNCHANGED bytes
           \/ /\ "fsync" \in Faults
              /\ journal' = Append(journal, Item(lastSeq + 1, rec, SizeOf(rec)))
              /\ bytes' = bytes + SizeOf(rec)

Commit(rec, ok) == IF ok THEN AppendOk(rec) ELSE AppendRefused(rec)
-----------------------------------------------------------------------------
(* open(): scan, reclaim a torn tail, then boot record, policy, prior fences. *)

(* Mutant of Open: a torn tail is not cut off. *)
OpenKeepsTear ==
  /\ ~opened
  /\ WithinBound
  /\ LET scan == Recovered(state)
     IN /\ scan.outcome = "Ok"
        /\ state' = [scan.state EXCEPT !.epoch = @ + 1]
        /\ lastSeq' = SnapshotSeq + scan.records
        /\ bytes' = Bytes(journal)
  /\ opened' = TRUE
  /\ writable' = TRUE
  /\ pc' = "boot"
  /\ UNCHANGED <<disk, policy, serving, closing, promised, epochs>>

(* Mutant of Open: the epoch is not advanced. *)
OpenSameEpoch ==
  /\ ~opened
  /\ WithinBound
  /\ LET scan == Recovered(state)
     IN /\ scan.outcome = "Ok"
        /\ journal' = IF scan.torn THEN SubSeq(journal, 1, scan.records) ELSE journal
        /\ state' = scan.state
        /\ lastSeq' = SnapshotSeq + scan.records
        /\ bytes' = Bytes(journal')
  /\ opened' = TRUE
  /\ writable' = TRUE
  /\ pc' = "boot"
  /\ UNCHANGED <<snapshot, policy, serving, closing, promised, epochs>>

Open ==
  /\ ~opened
  /\ WithinBound
  /\ LET scan == Recovered(state)
     IN /\ scan.outcome = "Ok"
        /\ journal' = IF scan.torn THEN SubSeq(journal, 1, scan.records) ELSE journal
        /\ state' = [scan.state EXCEPT !.epoch = @ + 1]
        /\ lastSeq' = SnapshotSeq + scan.records
        /\ bytes' = Bytes(journal')
  /\ opened' = TRUE
  /\ writable' = TRUE
  /\ pc' = "boot"
  /\ UNCHANGED <<snapshot, policy, serving, closing, promised, epochs>>

OpenRefused ==
  /\ ~opened
  /\ Recovered(state).outcome # "Ok"
  /\ state' = Recovered(state).state
  /\ UNCHANGED <<disk, policy, opened, writable, lastSeq, bytes, pc, serving, closing, promised, epochs>>

(* Mutant of CommitBoot: a policy record is written for an empty store only. *)
BootTrustsPolicy(ok) ==
  /\ pc = "boot"
  /\ Commit(BootRecord(state.epoch), ok)
  /\ pc' = IF ~ok THEN "failed" ELSE IF state.policy = "none" THEN "policy" ELSE "fences"
  /\ UNCHANGED <<snapshot, policy, opened, writable, state, serving, closing, promised, epochs>>

CommitBoot(ok) ==
  /\ pc = "boot"
  /\ Commit(BootRecord(state.epoch), ok)
  /\ pc' = IF ~ok THEN "failed" ELSE IF state.policy # policy THEN "policy" ELSE "fences"
  /\ UNCHANGED <<snapshot, policy, opened, writable, state, serving, closing, promised, epochs>>

CommitPolicy(ok) ==
  /\ pc = "policy"
  /\ Commit(PolicyRecord(policy), ok)
  /\ state' = IF ok THEN Applied(state, PolicyRecord(policy)) ELSE state
  /\ pc' = IF ok THEN "fences" ELSE "failed"
  /\ UNCHANGED <<snapshot, policy, opened, writable, serving, closing, promised, epochs>>

OpenFences == {f \in state.fences : f.open}

(* The loop marks the fence in memory, then commits its interruption and its
   terminal state. *)
CommitInterruption(f, ok) ==
  /\ pc = "fences"
  /\ Commit(InterruptionRecord, ok)
  /\ LET marked == WithFence(state, Closed(f))
     IN state' = IF ok THEN Applied(marked, InterruptionRecord) ELSE marked
  /\ closing' = {Closed(f)}
  /\ pc' = IF ok THEN "close" ELSE "failed"
  /\ UNCHANGED <<snapshot, policy, opened, writable, serving, promised, epochs>>

CommitRestartFence(f, ok) ==
  /\ pc = "close"
  /\ Commit(FenceRecord(f), ok)
  /\ state' = IF ok THEN Applied(state, FenceRecord(f)) ELSE state
  /\ closing' = {}
  /\ pc' = IF ok THEN "fences" ELSE "failed"
  /\ UNCHANGED <<snapshot, policy, opened, writable, serving, promised, epochs>>

(* Mutant of FinishOpen: open() answers before the fences of the past are closed. *)
FinishOpenEarly ==
  /\ pc = "fences"
  /\ pc' = "idle"
  /\ serving' = TRUE
  /\ promised' = state
  /\ epochs' = epochs \cup {state.epoch}
  /\ UNCHANGED <<disk, policy, opened, writable, state, lastSeq, bytes, closing>>

FinishOpen ==
  /\ pc = "fences"
  /\ OpenFences = {}
  /\ pc' = "idle"
  /\ serving' = TRUE
  /\ promised' = state
  /\ epochs' = epochs \cup {state.epoch}
  /\ UNCHANGED <<disk, policy, opened, writable, state, lastSeq, bytes, closing>>
-----------------------------------------------------------------------------
(* commit_decision(), and commit_fence_state() for a new fence and for one that
   is closed.  A fence beyond max_prior_fences is refused after its append. *)

Ready == serving /\ pc = "idle" /\ WithinBound

(* Mutant of CommitRecord: a refused append is acknowledged. *)
CommitUnsynced(rec, ok) ==
  /\ Ready
  /\ Commit(rec, ok)
  /\ state' = IF rec.type = "Fence" /\ NoRoom(state, rec.fence) THEN state ELSE Applied(state, rec)
  /\ promised' = state'
  /\ UNCHANGED <<snapshot, policy, opened, writable, pc, closing, serving, epochs>>

(* Mutant of CommitRecord: the commit path forgets the lineage that the replay path rebuilds. *)
CommitWithoutLineage(rec, ok) ==
  /\ Ready
  /\ Commit(rec, ok)
  /\ state' = IF ok /\ rec.type = "Fence" /\ ~NoRoom(state, rec.fence)
              THEN WithFence(state, rec.fence) ELSE state
  /\ promised' = IF ok THEN state' ELSE promised
  /\ UNCHANGED <<snapshot, policy, opened, writable, pc, closing, serving, epochs>>

CommitRecord(rec, ok) ==
  /\ Ready
  /\ Commit(rec, ok)
  /\ state' = IF ok /\ ~(rec.type = "Fence" /\ NoRoom(state, rec.fence))
              THEN Applied(state, rec) ELSE state
  /\ promised' = IF ok THEN state' ELSE promised
  /\ UNCHANGED <<snapshot, policy, opened, writable, pc, closing, serving, epochs>>

NewFences == {f \in [id : Fences, epoch : {state.epoch}, open : {TRUE}] : ~Known(state, f)}

ClientRecords ==
  {DecisionRecord} \cup {FenceRecord(f) : f \in NewFences \cup {Closed(g) : g \in OpenFences}}
-----------------------------------------------------------------------------
(* checkpoint(): the snapshot is renamed into place, the journal is closed and
   truncated, a checkpoint record opens the new one. *)

WriteSnapshot ==
  /\ Ready
  /\ snapshot' = {[seq |-> lastSeq, state |-> state]}
  /\ pc' = "rotate"
  /\ UNCHANGED <<journal, policy, opened, writable, state, lastSeq, bytes, serving, closing, promised, epochs>>

Rotate ==
  /\ pc = "rotate"
  /\ journal' = <<>>
  /\ writable' = TRUE
  /\ bytes' = 0
  /\ pc' = "mark"
  /\ UNCHANGED <<snapshot, policy, opened, state, lastSeq, serving, closing, promised, epochs>>

RotateFails ==
  /\ pc = "rotate"
  /\ "rotate" \in Faults
  /\ writable' = FALSE
  /\ pc' = "idle"
  /\ UNCHANGED <<disk, policy, opened, state, lastSeq, bytes, serving, closing, promised, epochs>>

CommitCheckpoint(ok) ==
  /\ pc = "mark"
  /\ Commit(CheckpointRecord(SnapshotSeq), ok)
  /\ pc' = "idle"
  /\ UNCHANGED <<snapshot, policy, opened, writable, state, serving, closing, promised, epochs>>

(* close(), as the engine calls it: only once open() has succeeded. *)
Close ==
  /\ serving /\ pc = "idle"
  /\ opened' = FALSE
  /\ writable' = FALSE
  /\ serving' = FALSE
  /\ UNCHANGED <<disk, policy, state, lastSeq, bytes, closing, pc, promised, epochs>>

(* The records an append may be writing when the process dies. *)
InProgress ==
  IF ~writable \/ bytes >= MaxJournalBytes THEN {}
  ELSE CASE pc = "boot" -> {BootRecord(state.epoch)}
         [] pc = "policy" -> {PolicyRecord(policy)}
         [] pc = "fences" /\ OpenFences # {} -> {InterruptionRecord}
         [] pc = "close" -> {FenceRecord(f) : f \in closing}
         [] pc = "mark" -> {CheckpointRecord(SnapshotSeq)}
         [] Ready -> ClientRecords
         [] OTHER -> {}

ZeroItem(size) == [seq |-> 0, rec |-> ZeroRecord, have |-> size, need |-> size]

(* The process dies, between two calls or inside an append; another one takes
   its place, perhaps with another policy. *)
Crash ==
  /\ pc = "rotate" => "rotate" \in Faults
  /\ \/ UNCHANGED journal
     \/ \E rec \in InProgress :
          \/ \E have \in 0..SizeOf(rec) : journal' = Append(journal, Item(lastSeq + 1, rec, have))
          \/ "zero" \in Faults /\ journal' = Append(journal, ZeroItem(SizeOf(rec)))
  /\ policy' \in Policies
  /\ opened' = FALSE
  /\ writable' = FALSE
  /\ state' = EmptyState
  /\ lastSeq' = 0
  /\ bytes' = 0
  /\ closing' = {}
  /\ pc' = "idle"
  /\ serving' = FALSE
  /\ UNCHANGED <<snapshot, promised, epochs>>
-----------------------------------------------------------------------------
OpenStep(ok) ==
  \/ CommitBoot(ok)
  \/ CommitPolicy(ok)
  \/ \E f \in OpenFences : CommitInterruption(f, ok)
  \/ \E f \in closing : CommitRestartFence(f, ok)

Next ==
  \/ Open
  \/ OpenRefused
  \/ \E ok \in BOOLEAN : OpenStep(ok) \/ CommitCheckpoint(ok)
  \/ FinishOpen
  \/ \E rec \in ClientRecords, ok \in BOOLEAN : CommitRecord(rec, ok)
  \/ WriteSnapshot
  \/ Rotate
  \/ RotateFails
  \/ Close
  \/ Crash

Spec == Init /\ [][Next]_vars
-----------------------------------------------------------------------------
(* What a new process would recover from the disk now. *)
OnDisk == Recovered(EmptyState)

(* append_commit() tests the size before it appends, the scanner afterwards. *)
Overshot == Bytes(journal) > MaxJournalBytes

(* The record at which a scan of the journal ended is one more than max_journal_records,
   or a fence for which the state rebuilt so far has no room. *)
Exceeded(scan) ==
  \/ scan.records >= MaxRecords
  \/ LET rec == journal[scan.records + 1].rec
     IN rec.type = "Fence" /\ NoRoom(scan.state, rec.fence)

(* Whatever a crash leaves behind, a new process recovers from it: a torn append
   is reclaimed, and nothing the store itself wrote is taken for corruption.  What no
   process opens again is a journal beyond one of the limits: the byte limit, which
   append_commit() tests before it appends, so that the last record may exceed it and
   no other; the number of records; and a fence that was refused after its append.
   Between the rename of the snapshot and the rotation no crash is assumed. *)
DiskRecoverable ==
  pc # "rotate" =>
    /\ OnDisk.outcome \in {"Ok", "Oversized", "Exhausted"}
    /\ OnDisk.outcome = "Oversized" <=> Overshot
    /\ OnDisk.outcome = "Exhausted" => Exceeded(OnDisk)
    /\ Overshot => Bytes(journal) - journal[Len(journal)].have < MaxJournalBytes

(* What was acknowledged is among what a new process finds; a fence acknowledged as
   closed is not found open. *)
Found(st) ==
  /\ st.epoch >= promised.epoch
  /\ st.decisions >= promised.decisions
  /\ st.interruptions >= promised.interruptions
  /\ \A f \in promised.fences : \E g \in st.fences : g.id = f.id /\ (g.open => f.open)

(* README section 6: "Nothing is reported durable before the fsync returns": what was
   acknowledged is recovered, through crashes, torn tails and checkpoints. *)
PromisesKept == pc # "rotate" /\ OnDisk.outcome = "Ok" => Found(OnDisk.state)

(* src/README.md:214-215, "It never silently truncates or skips", and its limit: when
   writes are cut short, fsyncs refused and tails zeroed, the next open loses an
   acknowledged record without refusing only behind the fragment of a short write
   that the process lived through and appended to. *)
LossBehindFragment ==
  serving /\ pc = "idle" =>
    LET found == OnDisk
    IN found.outcome = "Ok" /\ ~Found(found.state) =>
         \E n \in 1..(Len(journal) - 1) : journal[n].have < journal[n].need

(* The state kept in memory by the commit functions and the state rebuilt by
   apply_record() are the same: total counts, fences and the accounting of the
   bounded lineage, also across a checkpoint that folds the journal away. *)
ReplayMatchesMemory ==
  serving /\ pc = "idle" /\ OnDisk.outcome = "Ok" => OnDisk.state = state

(* Whenever a store begins to serve, its epoch is larger than every epoch that
   served before, whatever the platform did to the journal. *)
EpochsIncrease ==
  [][~serving /\ serving' => \A e \in epochs : e < state'.epoch]_vars

(* README section 3.8, failing closed: while the store serves, the disk holds no
   open fence of an earlier epoch, or no process will open it again, whichever
   appends were refused, cut short or zeroed. *)
PriorFenced ==
  serving /\ pc # "rotate" /\ OnDisk.outcome = "Ok" =>
    \A f \in OnDisk.state.fences : f.open => f.epoch = state.epoch

(* README section 6, step 5: a store that serves has its own policy on disk, also
   when an earlier process with another policy died between boot record and
   policy record. *)
PolicyOnDisk ==
  serving /\ pc # "rotate" /\ OnDisk.outcome = "Ok" => OnDisk.state.policy = policy
=============================================================================
