--------------------------- MODULE EvidenceLedger ---------------------------
(***************************************************************************)
(* The live evidence ledger (evidence/ledger.cpp): bounded retention per   *)
(* scope, one sequencing cursor per source instance, counters that must    *)
(* account for every observation.                                          *)
(***************************************************************************)
EXTENDS Evidence, SequencesExt

CONSTANTS
  Observations,         \* the evidence that may be submitted, in any order and repeatedly
  Scopes,
  MaxTrackedScopes,     \* policy.max_tracked_scopes
  MaxSourcesPerScope,   \* policy.max_sources_per_scope
  MaxEvidencePerScope,  \* policy.max_evidence_per_scope
  MaxClockSkew,         \* policy.max_clock_skew
  HalfSpace,            \* kSequenceHalfSpace
  MaxRollovers,         \* kMaxRolloversPerSource
  MaxTime,              \* bound on the wall clock
  MaxSeen               \* bound on the number of observations

ASSUME LedgerAssumption ==
  /\ {MaxTrackedScopes, MaxSourcesPerScope, MaxEvidencePerScope} \subseteq Nat \ {0}
  /\ {MaxClockSkew, HalfSpace, MaxRollovers, MaxTime, MaxSeen} \subseteq Nat

(* Unsigned fields of the wire form. *)
ASSUME ObservationAssumption ==
  \A e \in Observations :
    {e.seq, e.attempt, e.observed_at, e.attempts, e.failures, e.loss} \subseteq Nat

VARIABLES
  clock,    \* the local wall clock
  items,    \* scopes_: per tracked scope, the retained observations
  cursors,  \* scopes_: per tracked scope, the cursor of each source
  stats,    \* retained_, seen_, dropped_, admitted_, rejected_
  heard     \* history: every observation admitted since the last reset

vars == <<clock, items, cursors, stats, heard>>

NewStats == [retained |-> 0, seen |-> 0, dropped |-> 0, admitted |-> 0, rejected |-> 0]

NewCursor ==
  [last_seq |-> 0, last_attempt |-> 0, rollovers |-> 0, observed |-> 0, accepted |-> 0, rejected |-> 0]

NoEntries == [s \in {} |-> NewCursor]

Init ==
  /\ clock = 1
  /\ items = [s \in {} |-> <<>>]
  /\ cursors = [s \in {} |-> NoEntries]
  /\ stats = NewStats
  /\ heard = <<>>

(* An entry of a map replaced or added. *)
With(f, key, value) == [k \in DOMAIN f \cup {key} |-> IF k = key THEN value ELSE f[k]]

ItemsOf(scope) == IF scope \in DOMAIN items THEN items[scope] ELSE <<>>

CursorsOf(scope) == IF scope \in DOMAIN cursors THEN cursors[scope] ELSE NoEntries

CursorOf(e) ==
  IF e.source \in DOMAIN CursorsOf(e.scope) THEN cursors[e.scope][e.source] ELSE NewCursor

TablesFull(e) ==
  \/ e.scope \notin DOMAIN items /\ Cardinality(DOMAIN items) >= MaxTrackedScopes
  \/ /\ e.source \notin DOMAIN CursorsOf(e.scope)
     /\ Cardinality(DOMAIN CursorsOf(e.scope)) >= MaxSourcesPerScope

(* The tests before a cursor is looked at. *)
Inadmissible(e) ==
  \/ ~StructurallyValid(e)
  \/ e.observed_at > clock + MaxClockSkew
  \/ ~FreshAt(e, clock)
  \/ TablesFull(e)

(* Mutant of IsDuplicate: an equal sequence number is no duplicate. *)
IsDuplicateAttempt(e, c) == e.attempt # 0 /\ e.attempt = c.last_attempt

IsDuplicate(e, c) == e.seq = c.last_seq \/ (e.attempt # 0 /\ e.attempt = c.last_attempt)

LooksLikeWrap(e, c) ==
  c.last_seq >= HalfSpace /\ e.seq < HalfSpace /\ c.rollovers < MaxRollovers

OutOfOrder(e, c) ==
  c.accepted > 0 /\ (IsDuplicate(e, c) \/ (e.seq < c.last_seq /\ ~LooksLikeWrap(e, c)))

(* The retained observation that gives way: the oldest by observed_at, then by
   sequence; the first of equals. *)
Older(a, b) ==
  \/ a.observed_at < b.observed_at
  \/ a.observed_at = b.observed_at /\ a.seq < b.seq

(* Mutant of Victim: the last arrival gives way. *)
VictimLast(its) == Len(its)

Victim(its) ==
  CHOOSE n \in 1..Len(its) :
    /\ \A m \in 1..Len(its) : ~Older(its[m], its[n])
    /\ \A m \in 1..(n - 1) : Older(its[n], its[m])

Refuse(e) ==
  /\ Inadmissible(e)
  /\ stats' = [stats EXCEPT !.seen = @ + 1, !.rejected = @ + 1]
  /\ UNCHANGED <<clock, items, cursors, heard>>

RefuseOutOfOrder(e) ==
  /\ ~Inadmissible(e)
  /\ OutOfOrder(e, CursorOf(e))
  /\ stats' = [stats EXCEPT !.seen = @ + 1, !.rejected = @ + 1]
  /\ cursors' = [cursors EXCEPT ![e.scope][e.source].observed = @ + 1,
                                ![e.scope][e.source].rejected = @ + 1]
  /\ UNCHANGED <<clock, items, heard>>

Advanced(c, e) ==
  [c EXCEPT !.last_seq = e.seq,
            !.last_attempt = IF e.attempt = 0 THEN @ ELSE e.attempt,
            !.rollovers = IF c.accepted > 0 /\ e.seq < c.last_seq THEN @ + 1 ELSE @,
            !.observed = @ + 1,
            !.accepted = @ + 1]

(* Mutant of Accept: an eviction is not counted. *)
AcceptUncountedDrop(e) ==
  /\ ~Inadmissible(e)
  /\ ~OutOfOrder(e, CursorOf(e))
  /\ LET its == ItemsOf(e.scope)
         full == Len(its) >= MaxEvidencePerScope
     IN items' = With(items, e.scope,
                      Append(IF full THEN RemoveAt(its, Victim(its)) ELSE its, e))
  /\ stats' = [stats EXCEPT !.seen = @ + 1, !.admitted = @ + 1, !.retained = @ + 1]
  /\ cursors' = With(cursors, e.scope,
                     With(CursorsOf(e.scope), e.source, Advanced(CursorOf(e), e)))
  /\ heard' = Append(heard, e)
  /\ UNCHANGED clock

(* Mutant of Accept: only the latest word of a source is kept. *)
AcceptReplacing(e) ==
  /\ ~Inadmissible(e)
  /\ ~OutOfOrder(e, CursorOf(e))
  /\ items' = With(items, e.scope,
                   Append(SelectSeq(ItemsOf(e.scope), LAMBDA i : i.source # e.source), e))
  /\ stats' = [stats EXCEPT !.seen = @ + 1, !.admitted = @ + 1, !.retained = @ + 1]
  /\ cursors' = With(cursors, e.scope,
                     With(CursorsOf(e.scope), e.source, Advanced(CursorOf(e), e)))
  /\ heard' = Append(heard, e)
  /\ UNCHANGED clock

Accept(e) ==
  /\ ~Inadmissible(e)
  /\ ~OutOfOrder(e, CursorOf(e))
  /\ LET its == ItemsOf(e.scope)
         full == Len(its) >= MaxEvidencePerScope
     IN /\ items' = With(items, e.scope,
                         Append(IF full THEN RemoveAt(its, Victim(its)) ELSE its, e))
        /\ stats' = [stats EXCEPT !.seen = @ + 1,
                                  !.admitted = @ + 1,
                                  !.retained = IF full THEN @ ELSE @ + 1,
                                  !.dropped = IF full THEN @ + 1 ELSE @]
  /\ cursors' = With(cursors, e.scope,
                     With(CursorsOf(e.scope), e.source, Advanced(CursorOf(e), e)))
  /\ heard' = Append(heard, e)
  /\ UNCHANGED clock

(* reset(), called when the engine opens and closes. *)
Reset ==
  /\ items' = [s \in {} |-> <<>>]
  /\ cursors' = [s \in {} |-> NoEntries]
  /\ stats' = NewStats
  /\ heard' = <<>>
  /\ UNCHANGED clock

SetClock(t) ==
  /\ clock' = t
  /\ UNCHANGED <<items, cursors, stats, heard>>

Admit(e) == Refuse(e) \/ RefuseOutOfOrder(e) \/ Accept(e)

Next ==
  \/ stats.seen < MaxSeen /\ \E e \in Observations : Admit(e)
  \/ Reset
  \/ \E t \in 1..MaxTime : SetClock(t)

Spec == Init /\ [][Next]_vars
-----------------------------------------------------------------------------
(* The slots in use: a scope and a position among its retained observations. *)
Slots == UNION {{s} \X (1..Len(items[s])) : s \in DOMAIN items}

(* ledger.hpp, accounting_closed() of the ledger and of each cursor: every
   observation is admitted or rejected, every admitted one is retained or
   dropped; and the counters agree with what the tables really hold. *)
AccountingClosed ==
  /\ stats.seen = stats.admitted + stats.rejected
  /\ stats.admitted = stats.retained + stats.dropped
  /\ stats.retained = Cardinality(Slots)
  /\ stats.admitted = Len(heard)
  /\ \A s \in DOMAIN cursors : \A c \in DOMAIN cursors[s] :
       cursors[s][c].observed = cursors[s][c].accepted + cursors[s][c].rejected

(* What a source was heard to say about a scope, as positions of the history;
   those that carry one sequence number; and those whose number is below that of
   the one before, where a lap ends. *)
Mine(s, c) == {n \in 1..Len(heard) : heard[n].scope = s /\ heard[n].source = c}

Numbered(s, c, q) == {n \in Mine(s, c) : heard[n].seq = q}

Wraps(s, c) ==
  {n \in Mine(s, c) :
     \E m \in Mine(s, c) : /\ m < n
                           /\ \A k \in Mine(s, c) : k <= m \/ n <= k
                           /\ heard[n].seq < heard[m].seq}

(* No replay: a sequence number of a source is admitted for a scope once per lap
   of its counter, and a source has at most MaxRollovers laps, whatever it sends
   again and in whatever order, also after its observations were evicted. *)
NoReplay ==
  \A s \in DOMAIN cursors : \A c \in DOMAIN cursors[s] :
    LET laps == cursors[s][c].rollovers
    IN /\ laps <= MaxRollovers
       /\ laps = Cardinality(Wraps(s, c))
       /\ \A q \in {heard[n].seq : n \in Mine(s, c)} :
            Cardinality(Numbered(s, c, q)) <= laps + 1

(* An observation leaves the ledger only to make room for another of its own
   scope, and never while an older one of that scope stays behind. *)
OldestEvicted ==
  [][\A s \in DOMAIN items \cap DOMAIN items' : \A n \in 1..Len(items[s]) :
       items[s][n] \notin {items'[s][m] : m \in 1..Len(items'[s])} =>
         /\ Len(items[s]) = MaxEvidencePerScope
         /\ \A m \in 1..Len(items[s]) : ~Older(items[s][m], items[s][n])]_vars
=============================================================================
