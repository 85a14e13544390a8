# Blackhole Guard in TLA+

Blackhole Guard watches deliveries in a network fabric, decides which scopes are
blackholes, issues *fencing intents* for them, and withdraws those intents when
positive evidence of restoration arrives.  Its decisions are durable and its authority
does not survive a restart.  This directory models that code, model-checks it with TLC
and proves the central statements about it with TLAPS.  Paths below are relative to the
repository; `src/` is its implementation, `include/blackhole/` its headers.

## 1. Inventory

| Component | State | Operations | Correct when |
|---|---|---|---|
| evidence ledger (`evidence/ledger.cpp`) | per scope: retained observations, per-source cursors; counters | `admit`, `reset`, `evidence_for` | every observation is accounted for, nothing is admitted twice, only the oldest is evicted |
| classifier (`diagnosis/classifier.cpp`) | none | `classify`, `evaluate_corroboration` | ambiguity never becomes a blackhole; a fence needs a real quorum |
| restoration rule (`authority/authority.cpp`) | none | `evaluate_restoration` | restores on positive, fresh evidence only |
| fence registry (`authority/authority.cpp`) | records by fence id, `FenceStats` | `issue`, `stage`, `commit_staged`, `acknowledge`, `report_effect`, `revoke`, `revalidate`, `fence_all`, `clear` | one open fence per subject, bounded, terminal states final, counters closed |
| engine (`service/engine.cpp`) | registry, ledger, store, one mutex | `open`, `close`, `submit`, `evaluate`, `localize`, `restore`, `acknowledge_fence`, `report_effect`, `checkpoint` | memory never claims more than the disk; a restart withdraws everything |
| durable store (`persist/store.cpp`, `journal.cpp`, `snapshot.cpp`, `records.cpp`) | journal file, snapshot file, replayed state, sequence number | `open`, `commit_*`, `checkpoint`, `close` | what was acknowledged is recovered, what was torn is not |
| session table (`protocol/session.cpp`) | session id -> identity, last sequence | `establish`, `validate`, `release`, `clear` | requests are served once, in order, over one connection |
| server (`service/server.cpp`) | accept thread, connection threads, slots, flags | `start`, `stop`, `accept_loop`, `serve_connection`, `dispatch_frame` | bounded threads, nobody blocks anybody, `stop()` leaves nothing behind |
| client (`service/client.cpp`) | socket, session, next sequence | `connect_loopback`, `hello`, the calls, `goodbye`, `close` | in step with the server |
| localizer (`localize/localizer.cpp`) | none between calls; memo and node count of a search | `build_localization_input`, `localize`, `greedy_localization`, `reference_localize`, `verify_localization` | claims a minimum, its uniqueness or infeasibility only when it is true, and the verifier confirms what is true |
| frame codec (`protocol/frame.cpp`) | a receive buffer, a sticky failure | `feed`, `next`, `finish` | however the stream is cut, the frames that come out are those that were sent |
| message codecs, canonical encoding, hashes, ids, nonces, paths, tools | none | encoding and decoding | - |

**Interaction.** The engine owns ledger, registry and store and takes one mutex for
every call; `localize()` alone gives it up and takes it again.  Every change of a fence
is committed to the store: a new intent and a restoration *before* the registry changes,
an acknowledgement, effect report or expiry *after*.  The server owns threads that call
the engine; the session table is shared by all connections, and each connection has a
frame decoder of its own.

**What is hard here.** A process that dies between any two durable records, or inside
one; commits that are refused halfway through a call; two readings of a clock that may
be set back; an intent that is staged while the registry moves on; a decision that is
committed a second time after the lock was released; evidence that is duplicated,
reordered, wrapped and evicted; a search that runs out of budget in a subtree; threads that run before their slot is published; clients
whose answer was lost.  `PROJECT.json` lists these as hazards, each with the line where
it bites and the properties that would notice.

## 2. Modules

| Module | Models | Notes |
|---|---|---|
| `Fences` | fence intents, records and the guards of the registry | operators shared by the next two; an intent is its own id (the code hashes exactly its fields) |
| `FenceRegistry` | class `FenceRegistry` | every public operation in any order; `staged` holds the intents between `stage()` and `commit_staged()` |
| `Engine` | `Engine` over an abstract store | `call` is the critical section in progress; a step ends where something new is on disk or the clock is read again; `inflight` is the decision `localize()` carries between its two sections |
| `FencingAuthority` | what the coordinator promises: authorities are granted, lapse and end | abstract; `Engine` is shown to implement it (`AuthorityRefined`) |
| `Store` | `Store`, `Journal`, `scan_journal`, the snapshot | the journal is a sequence of items with the bytes they need and have, so torn, short and zeroed records differ |
| `Evidence`, `EvidenceLedger` | observations; `EvidenceLedger::admit`, `reset`, `evidence_for` | `heard` is the history of admitted observations |
| `Classifier` | `classify`, `evaluate_corroboration`, `evaluate_restoration` | pure operators over sequences of observations |
| `Diagnosis` | ledger and classifier together | what `evaluate()` and `restore()` would conclude in every state of the ledger |
| `Sessions` | `SessionTable`, `dispatch_frame`, `Client` | streams are FIFO queues of whole frames; `served` is a history |
| `ConstraintSystem` | `build_localization_input`, `validate_localization_input`, `reduce`, `reference_localize` | pure operators; also what a localization and a minimum are |
| `FeasibilityOracle` | class `FeasibilityOracle` | the recursion of `covers()` is a stack of frames, one step per call and per return |
| `Localizer` | `localize`, `greedy_localization`, `verify_localization` as `Engine::localize()` uses them | one call of `localize()` at a time, in steps; the recursion of the enumerator is determined by the candidates taken so far |
| `FrameDecoder` | `FrameDecoder::feed` and `next`, the receive loop of `serve_connection`, the send of the answer | a byte is a unit that knows the frame and offset it was written for |
| `Server` | threads of `Server` | one step per access to shared state or blocking call |
| `FenceRegistryProofs`, `EngineProofs`, `DiagnosisProofs`, `SessionsProofs`, `ServerProofs`, `FrameDecoderProofs`, `StoreProofs`, `LocalizerProofs` | - | the theorems, one module per component |
| `MC*` | - | symmetry and sets of observations for TLC |

A definition keeps the name of the function it models where TLA+ allows it; the "map" in
`PROJECT.json` gives the lines.  Definitions commented "Mutant of X" are deliberately
wrong variants of X: no specification uses them, each shows that one property notices
one plausible mistake.

Abstractions worth knowing:

* `Engine` takes the diagnosis as an input with five values, those that lead to
  different control flow; `Diagnosis` says which evidence yields which.
* `Engine` assumes that a refused commit leaves nothing on disk.  `Store` shows when
  that is so and when it is not.  Without I/O faults there is one exception: a fence
  beyond `max_prior_fences` (`store.cpp:579`) is refused when its record is already
  appended, and the next replay refuses the journal.  With I/O faults there are the
  short write and the refused fsync (`store.cpp:524`), after which the record may be on
  disk; the next append reuses its number, so a replay that meets both refuses the
  journal, and only a crash before that append lets the refused record be replayed
  (section 4, and the conclusions of `store_faults`).
* In `Engine` the fences on disk are unbounded; the bounds of the store are in `Store`.
* In `Store` a fence is its id, epoch and whether it is open, a lineage its length,
  sizes are small units; checksums detect every damaged record.  A short write that a
  living process survives leaves at least a whole header; a crash may leave less.  After a
  refused fsync `bytes` counts the appended record at once; `journal_bytes_` does so with
  the next commit that succeeds.
* In `Sessions` the id of a session is the counter that the code hashes.  Identities of
  clients are model values.  The engine's answer to a request is not modelled.  A
  connection ends when its client closes it; the ends that the server begins (`stop()`, a
  refused frame, a failed send) run the same tear-down and are in `Server` and
  `FrameDecoder`.
* In `ConstraintSystem` an ascending list is a set and a mask over constraint sets is the
  set of those sets; bit positions are computed only where the code depends on their order
  or mixes two kinds of them.  Lists that are not ascending, which
  `validate_localization_input` refuses, are not enumerated.
* The oracle of the verifier starts where the verifier does, and the rest of the verdict is
  computed when that oracle has answered; nothing can come between them.
* In `FrameDecoder` checksums detect every damaged frame, and a header read at a wrong
  place has no magic number.  The stop flag that also ends the loop is in `Server`.  How
  much of an answer the socket takes is not modelled: `net_send_all` may return at any time,
  and must return only when the peer reads or is gone.
* In `Server` a socket is identified with its connection: reuse of descriptor numbers is
  out of the model.

## 3. Runs

All bounds are constants of the configurations.  A passing run explores its whole state
space.

| Run | Bounds | Shows |
|---|---|---|
| `fence_registry` | 2 subjects, 2 generation vectors, room for 2 records, 3 attempts, clock 0..1 with lifetime 1 | `OneOpenPerSubject`, `LifecycleAccounting`, `TerminalIsFinal` although `commit_staged()` may come after any other operation and the clock may go back.  Three attempts are what it takes for two staged intents to race into a registry with one place left |
| `engine_fencing` | 2 scopes, 2 generation vectors, 1 caller, 2 attempts, 1 boot | `OneOpenPerScope`, `MemoryBackedByDisk`, `DecisionIntentBacked`, `RestoredMeansUnfenced`, `WithdrawnOnDiskFirst` with every commit refused or followed by a crash.  Two attempts give two fences of different scopes or generations |
| `engine_restart` | 1 scope, 2 generation vectors, 2 callers, a registry of 1 record, 2 attempts per process, 2 opens | `NoPriorAuthority`, `InterruptionRecorded`, `LineageHasFence`, `DurableTerminalFinal` across crashes and failed opens, with two `localize()` calls in flight, one of them across a close and reopen, and a registry that is full; and that every behaviour is one of `FencingAuthority` (`AuthorityRefined`).  A restart meets one fence of the past here; that several are closed one by one is part of the proofs |
| `store_recovery` | 3 fences for 2 places, 2 policies, journal of 12 units and 5 records, records of 2 and 3 units, 8 records in a history | `DiskRecoverable`, `PromisesKept`, `ReplayMatchesMemory`, `PolicyOnDisk` when a crash may stop every append at every unit.  The sizes and limits let the last record overshoot the byte limit, be one too many, or be a fence without a place: then, and only then, `open()` refuses; no crash between snapshot and rotation (section 4) |
| `store_faults` | records of 2 and 4 units, so that a fragment and its follower fit into what the first claims, 5 records per journal, 1 prior fence, 6 records; short writes, refused fsyncs, zero tails, failed rotations | the store may refuse to open, but `PriorFenced` and `EpochsIncrease` hold: it never serves beside an open fence of the past or under a used epoch.  `LossBehindFragment`: an acknowledged record is lost only behind the fragment of a short write that the process lived through |
| `diagnosis` | 3 scopes for 2 places, 3 source instances of 2 ids, 2 generation vectors, 3 observations per scope, half space 2; 4 observations heard, of the set `MCObservations`; 2 sources and 2 incarnations to fence, 1 to restore | the ledger's `AccountingClosed`, `NoReplay`, `OldestEvicted` for every order with duplicates, regressions, wraps and late arrivals; the verdict's `BlackholeExact`, `SingleVerdict`, `QuorumHeard` (with its exception for a source that restarted, which the run reaches), `RestorationPositive`, `ContradictionKept`.  A fence needs two observations, a contradiction or a second view two more |
| `localizer` | 0, 1, 4 or 5 hops; up to 3 constraints over 4 hops, 4 over one hop, which are more than supported, and 2 over five hops, which exceed the supported candidates; budgets of 2 nodes, which ends some proofs of the size and some enumerations before and after their first cover, and ample; solution caps 1 and 2 | `LocalizationExact`: what the search concludes and what is published against the definition in `localizer.hpp`, also when the budget ends in the middle, with the two exceptions of section 4, both of which the run reaches; `VerifierExact`: the verifier confirms each answer and no other cover or size.  Four hops and three sets hold every shape of overlap |
| `frame_decoder` | 3 frames with up to 2 units of payload, headers of 2 units, receives of up to 5 | `StreamIntact` under every segmentation, with every defect and a peer that hangs up at any unit; under fairness `FramesDecided`, unless the peer leaves an answer unread for good |
| `sessions` | 3 connections, 2 identities, 2 places in the table, 3 calls | `ServedInSequence`, `HonestInStep`, `SessionsBound` with arbitrary tokens, lost answers, reconnections and calls after a goodbye.  Three calls allow hello, request, replay, and three clients that compete for two places |
| `server` | 3 connections, 1 served at a time, 1 session; stalled peers, failing `accept()`, failing self-connect | `ThreadsBounded`, `StopQuiescent`; under fairness `NobodyBlocked` and `StopReturns` |
| `store_rotate`, `localizer_oracle` | | violations, see section 4 |

`MaxSeq`, `MaxSeen`, `MaxCalls`, `MaxIds`, `MaxAttempts`, `MaxBoots` and `MaxTime` bound
counters that grow without limit in the code.  When they are spent the corresponding
action is disabled; crashes, closes and changes of the clock never are, so no run ends in
a deadlock, except `frame_decoder`, where a connection really ends.

**Fairness** is assumed in `server` and `frame_decoder`.  In `server` (`FairSpec`) the
accept thread, the thread of each connection and the caller of `stop()` keep running
(weak fairness), and `accept()` does not fail for ever while a connection is queued (strong fairness on `Accept`).
The operating system schedules threads, so the first is what the code may rely on; the
loop retries a failed `accept()`, which is of use only under the second.  Peers are not
fair: they may stop reading, keep their session or stay away.  In `frame_decoder` the
receive loop of one connection keeps running (weak fairness on `Loop`), its peer need
not send, read or close.  Inside the loop `net_send_all` blocks without a timeout while
the peer does not read, so it is not under this fairness: `SendReturns` is strongly fair
while the peer reads or is gone, because an answer is finite and each return to reading
takes some of it.

## 4. Where the code differs from what it says

Checked, as runs whose property TLC finds violated:

* `store_rotate`: `checkpoint()` puts the snapshot in place and then truncates the
  journal.  After a crash in between, `open()` expects the journal to start behind the
  snapshot, meets the old records and refuses the store: the scanner's test of the
  sequence numbers (`journal.cpp:169`) comes before the branch of the replay visitor that
  tolerates records "already folded into the snapshot" (`store.cpp:163`).
* `localizer_oracle`: with more than 18 candidates the verifier cannot use the reference
  solver and asks its oracle instead.  There it compares a mask over *candidates* with the
  mask of all constraint *sets* (`localizer.cpp:612`), so it rejects correct minima, and
  `Engine::localize()` publishes Indeterminate with INTERNAL_INVARIANT_VIOLATION.  The
  test with 64 candidates (`tests/breakit_test.cpp:198`) has candidate 0 explain set 0,
  where the two masks agree.  The run lowers the limit of the reference solver to
  2 instead of raising the candidates above 18.

Part of the models, without a run of their own; where a property is concerned, the
exception is in its formula and its comment:

* after a short write the process may go on appending behind the fragment.  When fragment
  and followers are together shorter than the first record claims, the next open takes
  them for one torn record and truncates acknowledged records, while the README promises
  that the store "never silently truncates or skips".  `LossBehindFragment` says that this
  is the only way;
* a full scope drops its oldest observation although it is still fresh.  A success that
  contradicts the failures can go that way, and the failures that remain are a
  corroborated blackhole.  `ContradictionKept` holds as long as nothing is evicted;
* `feed()` takes its buffer to hold "at most one incomplete frame" (`frame.cpp:63`), but
  what it is fed may hold several complete ones: a peer that pipelines legal frames may
  be refused as Oversized, depending on how its bytes arrive.  `frame.hpp:107` says
  "feed arbitrary byte chunks".  `StreamIntact` names pipelining as the only exception;
* README section 5 (`src/README.md:161`) has `Resolved` mean "optimal size proven, unique
  minimum".  When the enumeration is cut short behind its first cover, by `max_solutions`
  of 1 or by the node budget (`localizer.cpp:199-205`), a system with several minima is
  Resolved (`localizer.cpp:403`), with `solutions_truncated` set and uniqueness not claimed.
  `LocalizationExact` names this exception (`CutShort`);
* `localizer.hpp:99` says that `optimal_size` is "0 when optimality was not proven".  When
  the enumeration is cut before its first solution, or the verifier rejects the result, the
  claim is taken back and the size stays.  `LocalizationExact` states what is left of the
  sentence: a size that is not 0 is that of the minima (`TrueSize`), claimed or not;
* an answer is sent without a timeout (`net.cpp:149`), so a peer that pipelines and does not
  read leaves frames in the buffer undecided for ever.  `FramesDecided` names this exception
  (`Stalled`);
* `min_attempts_per_source` and `restore_consecutive_clean` of the policy are validated,
  stored and read by no rule;
* a connection thread starts before its slot is published; a `stop()` that collects the
  live sockets in between misses it, and waits for ever if its peer does not read.
  `StopReturns` names this and a failed self-connect as the only two exceptions;
* a zero tail of the journal is accepted and, unlike a torn tail, not cut off; the boot
  record goes behind it and the next open finds corruption;
* the byte bound of the journal is tested before an append, so the file may exceed it by
  its last record, and the next open refuses the file; the number of records is not tested
  by an append at all, and a fence without a place is refused after its record is durable.
  These are the exceptions in `DiskRecoverable`;
* an intent whose durable record is refused was counted as an attempt and is counted as
  nothing else, so the first identity of `FenceStats::accounting_closed` fails;
* `evaluate()` reads the clock for expiry and again for the decision, which may carry a
  fence that has lapsed in between;
* corroboration counts source references (`set<SourceRef>`, `classifier.cpp:49` and `124`),
  while `src/README.md:103` asks for ">= 2 distinct source ids" and `policy.hpp:27` for
  distinct `EvidenceSourceId`s: a source that restarts while its first report is fresh is
  two sources, and the run `diagnosis` reaches a fence that rests on one id alone.
  `QuorumHeard` names this as the exception (`RestartedSource`): without a restarted source
  the number of ids is reached too.  For incarnations the code is stricter than
  `policy.hpp:28`, which counts pairs of boot and incarnation: it counts incarnations;
* a withdrawal beside a fresh success is not UNKNOWN, and HEALTHY is also the default
  for a report with failures but a loss of 0 ppm;
* Goodbye is answered but ends nothing: the session stays until the connection closes.  A
  client that said goodbye is out of step with it (`HonestInStep`), so none of its own
  requests is served.

## 5. Proofs

The theorems hold for every choice of the constants that satisfies the named
assumptions (`FencesAssumption`, `RegistryAssumption`, `EngineAssumption`, `EvidenceAssumption`,
`LedgerAssumption`, `ObservationAssumption`, `PolicyAssumption`, `SessionsAssumption`,
`ServerAssumption`, `FrameAssumption`, `StoreAssumption`,
`ConstraintAssumption`, `LocalizerAssumption`), which TLC evaluates for the values used in the runs.
They say what the code checks or fixes by its types: limits are positive, sizes and
sequence numbers natural, policies pass `validate_policy()`.  No bound of a run is assumed:
the number of connections, observations, frames, fences and restarts is arbitrary.

`EngineProofs`:

| Theorem | States |
|---|---|
| `TypeCorrect` | `TypeOK` |
| `FencesUnambiguous` | all open fences agree on their generations; a scope has at most one (`OneOpenPerScope`) |
| `DiskBeforeMemory` | `MemoryBackedByDisk` |
| `RestartFences` | `NoPriorAuthority` |
| `InterruptionsComplete` | `InterruptionRecorded` |
| `IntentsBacked` | `DecisionIntentBacked` |
| `RestorationComplete` | `RestoredMeansUnfenced` |
| `LineageSound` | `LineageHasFence` |
| `TerminalFinal` | `DurableTerminalFinal`, an action property |
| `WithdrawalDurable` | `WithdrawnOnDiskFirst`, an action property |

None of the invariants is inductive.  The invariant behind them is
`IInv == TypeOK /\ StateInv /\ CallInv`.  `StateInv` is about what is there between
calls: records and durable states have one entry per intent, belong to boots up to the
present one, carry serials the counter has passed (so that a new intent is new), and an
open record is open on disk.  `CallInv` says, phase by phase, what the call in progress
knows: while it revokes, which fences are still to be committed; with a staged intent,
that no open fence has its scope or other generations and no record its serial; while it
withdraws, which fence; while `open()` fences, that every open durable fence is still on
the list and the one in hand has its interruption.  `OneOpenPerScope`, for example, is
preserved because `Begin` leaves only fences of the call's own generations open, which
`CallInv` remembers until the intent is published.  `TypeStep`, `StateStep` and
`CallInvStep` go through the actions of `Next` one by one.

It also proves `EngineImplementsAuthority`: `Engine` implements
`FencingAuthority` when *in force* is what memory holds open, *on record* what a replay of
the store would find open, and *ended* what it would find closed.  Most steps map to a
stutter or to `Lapse`; `CommitIntent` is `Grant`, a commit of a terminal state is `End`,
`FinishOpen` is `StartServing`.  Two more invariants are needed.  `TodoInv`: what a call
still has to put on record is no longer in force, so that `End` finds it withdrawn.
`RoomInv`: between staging and publication the registry does not fill up, so a durable
intent is also published and the two sides of `Grant` happen together.

`FenceRegistryProofs` proves `SubjectsUnambiguous` (`OneOpenPerSubject`),
`AccountingCloses` (`LifecycleAccounting`) and `TerminalRecordsFinal` (`TerminalIsFinal`),
the first two from `RegistryInv`, which adds types and that the open records are finitely
many.  `StepShape` shows that every operation publishes one intent on a free subject,
rewrites one open record, or opens nothing, and moves the counters accordingly;
cardinalities do the rest.

`DiagnosisProofs` proves for every policy that `validate_policy()` accepts, and for every
evidence whatsoever, that the ordered rules of `classify()` amount to the reference
definition of a blackhole (`AmbiguityNeverPromoted`, `BlackholeExact`), and that no
evidence is fenceable under one generation vector and restorable under another
(`NoFlapping`, `SingleVerdict`).  The ledger and what the verdict has to do with its
history follow from

    LedgerInv == LedgerType /\ RetainedWasHeard /\ HeardIsRetained /\ Unheard
                   /\ CursorAtLast /\ LapsCounted /\ AccountingClosed

What is retained was heard, in the order in which it was heard; what was heard is retained
unless something was evicted; the cursor of a source stands at the last of its observations,
and counts the descents of its sequence numbers.  From it: `LedgerAccounts`
(`AccountingClosed`), `ReplaysRefused` (`NoReplay`: a number admitted n + 1 times has n
descents between, which are counted as laps), `QuorumsAreHeard` (for the ids by `IdsOfInstances`:
where no source restarted, ids and instances correspond one to one), `RestorationsArePositive`
and `ContradictionsAreKept`; `EvictionInOrder` (`OldestEvicted`) is an action property of
the insertion into a scope.  Where an argument needs induction over positions it goes by the
least counterexample (`LeastNatural`, from the well-foundedness of strict inclusion between
finite sets).  The proof corrected one property: `RestorationPositive` used to deny every
fresh failure, but a *withdrawal* that carries failures does not keep `classify()` from
Healthy (see the end of section 4), so the property speaks of deliveries, and the run hears
such a withdrawal too.

`SessionsProofs` proves `SessionsStayBound` (`SessionsBound`), `RequestsInSequence`
(`ServedInSequence`) and `ClientStaysInStep` (`HonestInStep`) from

    SessionsInv == ServerType /\ StreamType /\ Bound /\ Counted /\ ServedInSequence /\ InStep

`Bound`: table and connections point at each other, one to one.  `Counted`: the `last` of a
live session is the number of requests in the history that were served under it; together
with `validate()` letting through only `last + 1` this yields the sequence 1, 2, 3...
`InStep` follows one client through a call: with a hello or a request in flight the queue
holds exactly that frame and the counters differ by it, with the answer in flight they
agree already, and nothing another connection does disturbs this.

`ServerProofs` proves `ThreadsStayBounded` (`ThreadsBounded`) and `StopLeavesNothing`
(`StopQuiescent`) from `ServerInv == ServerType /\ WakeSeen /\ Accounted /\ Room /\ Phases`.
`Accounted` is its heart: a thread that has not been joined has a slot, is in the hands of
`stop()`, or is the one that was started and not published yet; `Phases` keeps the last two
from overlapping, and `Room` says that a place found free stays free, because only the
accept thread adds slots.

`FrameDecoderProofs` proves `FramesIntact` (`StreamIntact`) for every header size, frame
limit and receive chunk, from `DecoderInv == DecoderType /\ InOrder /\ StreamInv /\ Refusal`.
`StreamInv`: buffer and wire together are one contiguous stream that begins with the frame
the decoder expects and, until the peer hangs up, ends with the last frame sent.  The
lemmas say how a stream is cut and joined: `FirstFrame` (the first units of a stream are its first frame),
`FrameTaken`, `FrameAdded`, `PrefixRead`, `Halves`.  `Refusal` is the other half of the
property: `Overrun` shows that a buffer beyond the limit holds more than one frame, which
makes pipelining the only exception.

`StoreProofs` is about journals and snapshots of any length and any number of crashes, opens
and checkpoints.  Its hypotheses on `Faults` say which failures of the platform are excluded:

| Theorem | States | Excluded |
|---|---|---|
| `EpochsNeverReused` | `EpochsIncrease`, an action property | nothing |
| `NoPriorFenceOnDisk` | `PriorFenced` | nothing |
| `ServesUnderItsPolicy` | `PolicyOnDisk` | nothing |
| `LossOnlyBehindFragment` | `LossBehindFragment` | nothing |
| `AcknowledgedIsRecovered` | `PromisesKept` | short writes that the process survives |
| `MemoryIsReplayed` | `ReplayMatchesMemory` | such writes, refused fsyncs |
| `CrashIsRecoverable` | `DiskRecoverable` | all but the crash |

The last three hypotheses are needed: with any one of the failures they exclude TLC finds
a violation of the property, when records are of 2 and 4 units.

The first layer of the proof replaces the scan by what it computes.  `ScanEnds`: whatever a
journal holds, `scan_journal()` replays its first b records (`Replays`) and either reaches
the end or stops at item b + 1 for one of four reasons (`TornAt`, `ZeroFrom`, `ExhaustedAt`,
`CorruptAt`).  `Accepts(j, c, first, st, s)` is what an answer Ok means, without the
limits; `AcceptsUnique`, `AcceptsCut` and `AcceptsAppend` say that it is a function of the
journal, and what cutting a torn tail and appending one item do to it.  The invariants then
speak of `DiskState(c, s)`, every answer that a new process could accept from the present
disk; they hold vacuously when no process would open it, which is how "the store may refuse
but never lies" becomes inductive.

* `EpochInv`: every epoch that served is at most that of the snapshot, or has a whole boot
  record that no scan answering Ok can stop before.
* `StoreInv == StoreType /\ Phases /\ FrontInv /\ SeqInv /\ OpenInv /\ ServeInv`.
  `FrontInv`: an object that was closed or refused and is opened again without a snapshot
  would replay on top of what it holds; the boot record at the front of the journal makes
  that attempt fail.  `SeqInv`: a journal whose records are folded into the snapshot starts
  with too small a number to be accepted behind it.  `OpenInv`: step by step of `open()`,
  the disk holds what is in memory, but for the epoch before the boot record is committed
  and for the fence that is marked and not yet committed.  `ServeInv`: while the store serves, every
  state the disk may yield has its policy and no open fence of the past, and without a
  fragment inside the journal it is the state in memory, or one refused record more.
* `WholeInv` (only the last item is partial, only while no process has the journal open) and
  `KeptInv` (every state the disk may yield has all that was acknowledged) hold when no
  process survives a short write.
* `CleanInv`, when the crash is the only failure: the numbers have no gap, no item is
  zeroed, no record is refused by the state before it but for lack of room, and only the last
  record exceeds the byte limit, because `append_commit()` knows the size of the file.

`LocalizerProofs` proves `LocalizationTheorem` (`LocalizationExact`) and `VerifierTheorem`
(`VerifierExact`) for every path length, number of constraints, budget and cap.  It assumes
nothing of the limits but that they are natural numbers: that a request passed
`validate_localization_input` is enough.  Each layer is a predicate on a set K of candidates
and a set G of constraint sets, and the last puts them together:

* `ReduceExact`: the reduced system has the localizations of the request, because every
  constraint set that was dropped contains one that was kept.
* `OracleInv`: `Coverable(K, mask, k, lo)` is what `covers()` is asked.  The memo holds true
  answers only; every frame waits for the question that the frame above it asks, and the
  candidates it has given up yield no cover.  Nothing is claimed of the answer of a search
  that was cut (`exhausted`), which is why it must be neither memoized nor believed.
* `EnumInv`: `found` is the number of covers of the proven size that the enumerator has
  *passed* in lexicographic order, and the first that it found is the least of all.  Covers
  are passed by backtracking, by pruning and by skipping a candidate: pruning loses none
  because a No of the oracle is true, skipping because a cover of the least size has no
  element that hits nothing the others leave.
* `PackInv` and `NoSmaller`: every cover has at least one element in each packed set, these
  are disjoint, so no cover is smaller than the packing; and every size below the one that
  is asked has been refuted.  Since all candidates together cover everything, the loop over
  the sizes ends without an answer only when the budget is spent.
* `Sound`: the result is exact, and the verifier accepts it if the reference solver is
  within reach, which computes the least of the minima.  The greedy phase keeps `TrueSize`,
  so that a size whose claim was taken back is still the right one.

`LocalizerInv` says which of them holds in which phase of the call: the oracle is shared by
the size proof and the enumeration, so its memo must stay true across both, and with a spent
budget a later phase may rely on nothing but what an earlier one has established.

Only model-checked: the liveness properties `NobodyBlocked`, `StopReturns` and
`FramesDecided`, because liveness under fairness is out of the prover's reach.  Every
invariant and every action property of the passing runs is stated by a theorem.  The two violations of
section 4 are counterexamples and need none.

## 6. Not modelled

* Message and record codecs, canonical encoding, hashing, identifiers, nonces and path
  handling: pure functions or platform calls without control flow that another component
  depends on.  The models take a decoded message for what was encoded.
* `FrameDecoder::finish`, which the server never calls, and the client's decoder, which
  runs the same code over answers.
* The socket layer below accept, wait, send and shutdown.
* The command-line tool and the examples.

Statistics other than the
counters named above, node counts, reason codes, confidence and fingerprints are left out because no
control flow depends on them.

## 7. Plan

1. Done: `Fences`, `FenceRegistry`, `Engine`, `Store`, `EvidenceLedger`, `Classifier`,
   `Diagnosis`, `Sessions`, `Server`, `ConstraintSystem`, `FeasibilityOracle`, `Localizer`,
   `FrameDecoder`; `FencingAuthority` and
   its refinement by `Engine`; the theorems of section 5.
2. `Store` as a refinement of the commit step that `Engine` assumes; `Sessions` composed
   with `Engine`.
