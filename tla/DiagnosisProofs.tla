-------------------------- MODULE DiagnosisProofs ---------------------------
(***************************************************************************)
(* What the ledger and the classifier promise for every set of             *)
(* observations, policy, time and pair of generation vectors.  The first   *)
(* part is about one evidence sequence, whatever it holds; the second      *)
(* about the ledger, by an inductive invariant; the third combines them.   *)
(***************************************************************************)
EXTENDS Diagnosis, FiniteSetTheorems, SequenceTheorems, TLAPS

(* Results are equal when outcome and classification are. *)
LEMMA ResultClass ==
  ASSUME NEW o, NEW c
  PROVE  Result(o, c).outcome = o /\ Result(o, c).class = c
BY DEF Result

(* Rule 7 of classify(): the verdict is BLACKHOLE exactly when there is a complete
   failure, no clean success and no owner signal among the usable evidence. *)
LEMMA BlackholeRule ==
  ASSUME NEW ev, NEW now, NEW g
  PROVE  Classify(ev, now, g).class = "Blackhole" <=>
           /\ CompleteFailures(ev, now, g) # {}
           /\ CleanSuccesses(ev, now, g) = {}
           /\ OfKind(ev, now, g, "Withdrawal") = {}
           /\ OfKind(ev, now, g, "Partition") = {}
           /\ OfKind(ev, now, g, "Congestion") = {}
<1>1. ev = <<>> => CompleteFailures(ev, now, g) = {}
  BY DEF CompleteFailures, OfKind, Usable
<1>2. Usable(ev, now, g) = {} => CompleteFailures(ev, now, g) = {}
  BY DEF CompleteFailures, OfKind
<1> QED
  BY <1>1, <1>2, Zenon DEF Classify, Result

(* A restorable scope has a usable clean success. *)
LEMMA RestorableHasSuccess ==
  ASSUME NEW ev, NEW now, NEW g, Restorable(ev, now, g)
  PROVE  CleanSuccesses(ev, now, g) # {}
<1> SUFFICES ASSUME CleanSuccesses(ev, now, g) = {} PROVE FALSE
  OBVIOUS
<1>1. SourcesOf(ev, CleanSuccesses(ev, now, g)) = {}
  BY DEF SourcesOf
<1>2. Cardinality(SourcesOf(ev, CleanSuccesses(ev, now, g))) = 0
  BY <1>1, FS_EmptySet
<1>3. RestoreSources \in Nat \ {0}
  BY PolicyAssumption DEF ValidPolicy
<1>4. Cardinality(SourcesOf(ev, CleanSuccesses(ev, now, g))) >= RestoreSources
  BY DEF Restorable
<1> QED
  BY <1>2, <1>3, <1>4

(* Under full agreement nothing is both fenceable and restorable. *)
LEMMA VerdictsExclusive ==
  ASSUME NEW ev, NEW now, NEW g, NEW h, RequireAgreement,
         Corroborated(ev, now, g), Restorable(ev, now, h)
  PROVE  FALSE
<1>1. CASE g = h
  <2>1. Classify(ev, now, g) = Result("Ok", "Blackhole")
    BY DEF Corroborated
  <2>2. Classify(ev, now, g) = Result("Ok", "Healthy")
    BY <1>1 DEF Restorable
  <2>3. Result("Ok", "Blackhole").class # Result("Ok", "Healthy").class
    BY ResultClass
  <2> QED
    BY <2>1, <2>2, <2>3
<1>2. CASE g # h
  <2>1. PICK n \in CleanSuccesses(ev, now, h) : TRUE
    BY RestorableHasSuccess
  <2>2. n \in DOMAIN ev /\ StructurallyValid(ev[n]) /\ ev[n].gens = h
    BY <2>1 DEF CleanSuccesses, OfKind, Usable
  <2>3. n \in Mismatched(ev, g)
    BY <2>2, <1>2 DEF Mismatched
  <2>4. Mismatched(ev, g) = {}
    BY DEF Corroborated
  <2> QED
    BY <2>3, <2>4
<1> QED
  BY <1>1, <1>2

(* README section 3.1: in every state of the ledger, a scope classifies as a
   blackhole exactly under the reference condition. *)
THEOREM AmbiguityNeverPromoted == Spec => []BlackholeExact
<1>1. BlackholeExact
  <2> SUFFICES ASSUME NEW s \in Scopes, NEW g \in Gens
               PROVE  LET counted == {e \in {ItemsOf(s)[n] : n \in DOMAIN ItemsOf(s)} :
                                        /\ StructurallyValid(e)
                                        /\ e.gens = g
                                        /\ e.open <= clock /\ clock < e.close
                                        /\ e.exact \/ ~RequireExact}
                      IN Verdict(s, g).class = "Blackhole" <=>
                           /\ \E e \in counted : e.kind = "Delivery" /\ IsComplete(e)
                           /\ \A e \in counted :
                                /\ e.kind \notin {"Withdrawal", "Partition", "Congestion"}
                                /\ ~(e.kind = "Delivery" /\ IsClean(e))
    BY Zenon DEF BlackholeExact
  <2> DEFINE ev == ItemsOf(s)
             U == Usable(ev, clock, g)
             counted == {e \in {ev[n] : n \in DOMAIN ev} :
                           /\ StructurallyValid(e)
                           /\ e.gens = g
                           /\ e.open <= clock /\ clock < e.close
                           /\ e.exact \/ ~RequireExact}
  <2>1. counted = {ev[n] : n \in U}
    BY DEF Usable, FreshAt
  <2>2. CompleteFailures(ev, clock, g) # {}
          <=> \E e \in counted : e.kind = "Delivery" /\ IsComplete(e)
    BY <2>1 DEF CompleteFailures, OfKind
  <2>3. CleanSuccesses(ev, clock, g) = {}
          <=> \A e \in counted : ~(e.kind = "Delivery" /\ IsClean(e))
    BY <2>1 DEF CleanSuccesses, OfKind
  <2>4. \A k : OfKind(ev, clock, g, k) = {} <=> \A e \in counted : e.kind # k
    BY <2>1 DEF OfKind
  <2>5. Verdict(s, g).class = "Blackhole" <=>
           /\ CompleteFailures(ev, clock, g) # {}
           /\ CleanSuccesses(ev, clock, g) = {}
           /\ OfKind(ev, clock, g, "Withdrawal") = {}
           /\ OfKind(ev, clock, g, "Partition") = {}
           /\ OfKind(ev, clock, g, "Congestion") = {}
    BY BlackholeRule DEF Verdict
  <2> HIDE DEF counted, ev
  <2>6. Verdict(s, g).class = "Blackhole" <=>
           /\ \E e \in counted : e.kind = "Delivery" /\ IsComplete(e)
           /\ \A e \in counted : /\ e.kind \notin {"Withdrawal", "Partition", "Congestion"}
                                 /\ ~(e.kind = "Delivery" /\ IsClean(e))
    BY <2>2, <2>3, <2>4, <2>5
  <2> QED
    BY <2>6 DEF counted, ev
<1> QED
  BY <1>1, PTL

(* README sections 3.4 and 3.7: with full generation agreement, no state of the
   ledger makes a scope fenceable for one caller and restorable for another. *)
THEOREM NoFlapping == Spec => []SingleVerdict
<1>1. SingleVerdict
  BY VerdictsExclusive DEF SingleVerdict, Fenceable, Restored
<1> QED
  BY <1>1, PTL
-----------------------------------------------------------------------------
(***************************************************************************)
(* The ledger's inductive invariant.                                       *)
(***************************************************************************)
Cursor == [last_seq : Nat, last_attempt : Nat, rollovers : Nat,
           observed : Nat, accepted : Nat, rejected : Nat]

Stats == [retained : Nat, seen : Nat, dropped : Nat, admitted : Nat, rejected : Nat]

LedgerType ==
  /\ heard \in Seq(Observations)
  /\ stats \in Stats
  /\ IsFiniteSet(Slots)
  /\ DOMAIN cursors = DOMAIN items
  /\ \A s \in DOMAIN items : items[s] \in Seq(Observations)
  /\ \A s \in DOMAIN cursors : \A c \in DOMAIN cursors[s] : cursors[s][c] \in Cursor

(* What a scope retains was heard about that scope and is well formed, and no scope
   retains more than its limit. *)
RetainedWasHeard ==
  \A s \in DOMAIN items :
    /\ Len(items[s]) <= MaxEvidencePerScope
    /\ \A n \in 1..Len(items[s]) : items[s][n] \in HeardOf(s) /\ StructurallyValid(items[s][n])

(* Until the first eviction, what was heard about a scope is retained. *)
HeardIsRetained ==
  stats.dropped = 0 =>
    \A m \in 1..Len(heard) :
      LET s == heard[m].scope
      IN s \in DOMAIN items /\ \E n \in 1..Len(items[s]) : items[s][n] = heard[m]

(* A source without a cursor was not heard; the cursor of another stands at the last
   observation heard from it. *)
Unheard == \A s, c : c \notin DOMAIN CursorsOf(s) => Mine(s, c) = {}

CursorAtLast ==
  \A s \in DOMAIN cursors : \A c \in DOMAIN cursors[s] :
    /\ cursors[s][c].accepted > 0
    /\ \E n \in Mine(s, c) : /\ \A m \in Mine(s, c) : m <= n
                             /\ heard[n].seq = cursors[s][c].last_seq

(* The laps of a source are counted, and a number above the cursor was used in
   every lap but the present one at most. *)
LapsCounted ==
  \A s \in DOMAIN cursors : \A c \in DOMAIN cursors[s] :
    LET laps == cursors[s][c].rollovers
    IN /\ laps <= MaxRollovers
       /\ laps = Cardinality(Wraps(s, c))
       /\ \A q \in Nat :
            /\ Cardinality(Numbered(s, c, q)) <= laps + 1
            /\ q > cursors[s][c].last_seq => Cardinality(Numbered(s, c, q)) <= laps

LedgerInv ==
  /\ LedgerType
  /\ RetainedWasHeard
  /\ HeardIsRetained
  /\ Unheard
  /\ CursorAtLast
  /\ LapsCounted
  /\ AccountingClosed
-----------------------------------------------------------------------------
(* A set of naturals has a least element: of the intervals that end in a member, one
   is minimal under inclusion. *)
LEMMA LeastNatural ==
  ASSUME NEW S, S \subseteq Nat, S # {}
  PROVE  \E m \in S : \A n \in S : m <= n
<1> DEFINE T == {0..n : n \in S}
<1>1. T \subseteq FiniteSubsetsOf(Nat)
  <2>1. \A n \in S : 0..n \in SUBSET Nat /\ IsFiniteSet(0..n)
    BY FS_Interval
  <2> QED
    BY <2>1 DEF FiniteSubsetsOf
<1>2. T # {}
  OBVIOUS
<1>3. PICK x \in T : \A y \in T : ~(<<y, x>> \in StrictSubsetOrdering(Nat))
  <2> HIDE DEF T
  <2>1. IsWellFoundedOn(StrictSubsetOrdering(Nat), FiniteSubsetsOf(Nat))
    BY FS_StrictSubsetOrderingWellFounded
  <2> QED
    BY <2>1, <1>1, <1>2, WFMin
<1>4. PICK m \in S : x = 0..m
  BY <1>3
<1>5. ASSUME NEW n \in S, n < m PROVE FALSE
  <2>1. 0..n \subseteq 0..m /\ 0..n # 0..m /\ 0..n \in SUBSET Nat /\ 0..m \in SUBSET Nat
    <3>1. m \in 0..m /\ m \notin 0..n
      BY <1>5
    <3> QED
      BY <3>1, <1>5
  <2>2. <<0..n, 0..m>> \in StrictSubsetOrdering(Nat)
    BY <2>1 DEF StrictSubsetOrdering
  <2> QED
    BY <2>2, <1>3, <1>4
<1> QED
  BY <1>5

(* The fields of an observation that are compared. *)
LEMMA ObservationFields ==
  ASSUME NEW e \in Observations
  PROVE  /\ e.seq \in Nat /\ e.attempt \in Nat /\ e.observed_at \in Nat
         /\ e.attempts \in Nat /\ e.failures \in Nat /\ e.loss \in Nat
BY ObservationAssumption

(* A full scope has an observation to evict: none is older, none before it is its
   equal. *)
LEMMA VictimExists ==
  ASSUME NEW its \in Seq(Observations), Len(its) > 0
  PROVE  /\ Victim(its) \in 1..Len(its)
         /\ \A m \in 1..Len(its) : ~Older(its[m], its[Victim(its)])
<1>1. \A n \in 1..Len(its) : its[n].observed_at \in Nat /\ its[n].seq \in Nat
  BY ElementOfSeq, ObservationFields
<1> DEFINE O == {its[n].observed_at : n \in 1..Len(its)}
<1>2. PICK o \in O : \A x \in O : o <= x
  <2>1. O \subseteq Nat
    BY <1>1
  <2>2. its[1].observed_at \in O
    OBVIOUS
  <2> QED
    BY <2>1, <2>2, LeastNatural
<1> DEFINE Oldest == {n \in 1..Len(its) : its[n].observed_at = o}
           Q == {its[n].seq : n \in Oldest}
<1>3. PICK q \in Q : \A x \in Q : q <= x
  <2>1. Q \subseteq Nat
    BY <1>1
  <2>2. Q # {}
    BY <1>2
  <2> QED
    BY <2>1, <2>2, LeastNatural
<1> DEFINE P == {n \in Oldest : its[n].seq = q}
<1>4. PICK p \in P : \A x \in P : p <= x
  <2>1. P \subseteq Nat /\ P # {}
    BY <1>3
  <2> QED
    BY <2>1, LeastNatural
<1>5. p \in 1..Len(its) /\ its[p].observed_at = o /\ its[p].seq = q
  BY <1>4
<1>6. ASSUME NEW m \in 1..Len(its)
      PROVE  /\ ~Older(its[m], its[p])
             /\ m < p => Older(its[p], its[m])
  <2>1. /\ o <= its[m].observed_at
        /\ its[m].observed_at = o => q <= its[m].seq
        /\ its[m].observed_at = o /\ its[m].seq = q => p <= m
    BY <1>2, <1>3, <1>4
  <2>2. o \in Nat /\ q \in Nat /\ its[m].observed_at \in Nat /\ its[m].seq \in Nat
    BY <1>1, <1>5
  <2> HIDE DEF O, Q, P, Oldest
  <2> QED
    BY <2>1, <2>2, <1>5 DEF Older
<1>7. /\ \A m \in 1..Len(its) : ~Older(its[m], its[p])
      /\ \A m \in 1..(p - 1) : Older(its[p], its[m])
  <2>1. \A m \in 1..(p - 1) : m \in 1..Len(its) /\ m < p
    BY <1>5
  <2> QED
    BY <1>6, <2>1
<1> QED
  BY <1>5, <1>7 DEF Victim

(* Removing one element: what is left, and where it was. *)
LEMMA RemoveAtProperties ==
  ASSUME NEW its \in Seq(Observations), NEW v \in 1..Len(its)
  PROVE  /\ RemoveAt(its, v) \in Seq(Observations)
         /\ Len(RemoveAt(its, v)) = Len(its) - 1
         /\ \A n \in 1..(Len(its) - 1) :
              RemoveAt(its, v)[n] = IF n < v THEN its[n] ELSE its[n + 1]
<1> DEFINE a == SubSeq(its, 1, v - 1)
           b == SubSeq(its, v + 1, Len(its))
<1>1. a \in Seq(Observations) /\ Len(a) = v - 1 /\ \A n \in 1..(v - 1) : a[n] = its[n]
  OBVIOUS
<1>2. /\ b \in Seq(Observations) /\ Len(b) = Len(its) - v
      /\ \A n \in 1..(Len(its) - v) : b[n] = its[n + v]
  OBVIOUS
<1>3. RemoveAt(its, v) = a \o b
  BY DEF RemoveAt
<1> HIDE DEF a, b
<1>4. a \o b \in Seq(Observations) /\ Len(a \o b) = Len(its) - 1
  <2>1. a \o b \in Seq(Observations) /\ Len(a \o b) = Len(a) + Len(b)
    BY <1>1, <1>2, ConcatProperties
  <2> QED
    BY <2>1, <1>1, <1>2, LenProperties
<1>5. \A n \in 1..(Len(its) - 1) : (a \o b)[n] = IF n < v THEN its[n] ELSE its[n + 1]
  BY <1>1, <1>2
<1> QED
  BY <1>3, <1>4, <1>5

(* The ledger starts empty, and reset() leaves it as it started. *)
LEMMA EmptyLedger ==
  ASSUME items = [s \in {} |-> <<>>], cursors = [s \in {} |-> NoEntries],
         stats = NewStats, heard = <<>>
  PROVE  LedgerInv
<1>1. Len(heard) = 0 /\ heard \in Seq(Observations)
  OBVIOUS
<1>2. DOMAIN items = {} /\ DOMAIN cursors = {}
  OBVIOUS
<1>3. Slots = {} /\ IsFiniteSet(Slots) /\ Cardinality(Slots) = 0
  <2>1. Slots = {}
    BY <1>2 DEF Slots
  <2> QED
    BY <2>1, FS_EmptySet
<1>4. stats \in Stats
  BY DEF NewStats, Stats
<1>5. LedgerType
  BY <1>1, <1>2, <1>3, <1>4 DEF LedgerType
<1>6. \A s, c : Mine(s, c) = {}
  BY <1>1 DEF Mine
<1>7. HeardIsRetained
  BY <1>1 DEF HeardIsRetained
<1>8. AccountingClosed
  BY <1>1, <1>2, <1>3 DEF AccountingClosed, NewStats
<1> QED
  BY <1>2, <1>5, <1>6, <1>7, <1>8
     DEF LedgerInv, RetainedWasHeard, Unheard, CursorAtLast, LapsCounted

LEMMA EmptyLedgerAfter ==
  ASSUME Reset
  PROVE  LedgerInv'
<1>1. Len(heard') = 0 /\ heard' \in Seq(Observations)
  BY DEF Reset
<1>2. DOMAIN items' = {} /\ DOMAIN cursors' = {}
  BY DEF Reset
<1>3. Slots' = {} /\ IsFiniteSet(Slots') /\ Cardinality(Slots') = 0
  <2>1. Slots' = {}
    BY <1>2 DEF Slots
  <2> QED
    BY <2>1, FS_EmptySet
<1>4. stats' \in Stats
  BY DEF Reset, NewStats, Stats
<1>5. LedgerType'
  BY <1>1, <1>2, <1>3, <1>4 DEF LedgerType
<1>6. \A s, c : Mine(s, c)' = {}
  BY <1>1 DEF Mine
<1>7. HeardIsRetained'
  BY <1>1 DEF HeardIsRetained
<1>8. AccountingClosed'
  BY <1>1, <1>2, <1>3 DEF AccountingClosed, NewStats, Reset
<1> QED
  BY <1>2, <1>5, <1>6, <1>7, <1>8
     DEF LedgerInv, RetainedWasHeard, Unheard, CursorAtLast, LapsCounted

(* What the invariant says of the history and the items does not depend on the
   counters. *)
LEMMA TablesKept ==
  ASSUME LedgerInv, UNCHANGED <<items, heard>>
  PROVE  /\ RetainedWasHeard'
         /\ stats'.dropped = stats.dropped => HeardIsRetained'
         /\ Slots' = Slots
         /\ \A s, c : Mine(s, c)' = Mine(s, c) /\ Wraps(s, c)' = Wraps(s, c)
         /\ \A s, c, q : Numbered(s, c, q)' = Numbered(s, c, q)
<1>1. RetainedWasHeard'
  BY DEF LedgerInv, RetainedWasHeard, HeardOf
<1>2. stats'.dropped = stats.dropped => HeardIsRetained'
  BY DEF LedgerInv, HeardIsRetained
<1>3. Slots' = Slots
  BY DEF Slots
<1>4. \A s, c : Mine(s, c)' = Mine(s, c)
  BY DEF Mine
<1>5. \A s, c : Wraps(s, c)' = Wraps(s, c)
  BY <1>4 DEF Wraps
<1>6. \A s, c, q : Numbered(s, c, q)' = Numbered(s, c, q)
  BY <1>4 DEF Numbered
<1> QED
  BY <1>1, <1>2, <1>3, <1>4, <1>5, <1>6

(* The counters of a refusal. *)
LEMMA RefusalCounted ==
  ASSUME stats \in Stats,
         stats' = [stats EXCEPT !.seen = @ + 1, !.rejected = @ + 1]
  PROVE  /\ stats' \in Stats
         /\ stats'.seen = stats.seen + 1 /\ stats'.rejected = stats.rejected + 1
         /\ stats'.dropped = stats.dropped /\ stats'.retained = stats.retained
         /\ stats'.admitted = stats.admitted
<1>1. stats.seen + 1 \in Nat /\ stats.rejected + 1 \in Nat
  BY DEF Stats
<1>2. ASSUME NEW a \in Nat, NEW b \in Nat
      PROVE  [stats EXCEPT !.seen = a, !.rejected = b] \in Stats
  BY <1>2 DEF Stats
<1>3. stats' \in Stats
  BY <1>1, <1>2
<1> QED
  BY <1>3 DEF Stats

LEMMA RefuseKeeps ==
  ASSUME LedgerInv, NEW e \in Observations, Refuse(e)
  PROVE  LedgerInv'
<1>1. UNCHANGED <<items, cursors, heard>>
  BY DEF Refuse
<1>2. /\ stats' \in Stats
      /\ stats'.seen = stats.seen + 1 /\ stats'.rejected = stats.rejected + 1
      /\ stats'.dropped = stats.dropped /\ stats'.retained = stats.retained
      /\ stats'.admitted = stats.admitted
  BY RefusalCounted DEF LedgerInv, LedgerType, Refuse
<1>3. LedgerType'
  BY <1>1, <1>2, TablesKept DEF LedgerInv, LedgerType
<1>4. Unheard'
  BY <1>1, TablesKept DEF LedgerInv, Unheard, CursorsOf
<1>5. CursorAtLast'
  BY <1>1, TablesKept DEF LedgerInv, CursorAtLast
<1>6. LapsCounted'
  BY <1>1, TablesKept DEF LedgerInv, LapsCounted
<1>7. AccountingClosed'
  BY <1>1, <1>2, TablesKept, SMTT(15) DEF LedgerInv, LedgerType, Stats, AccountingClosed
<1> QED
  BY <1>1, <1>2, <1>3, <1>4, <1>5, <1>6, <1>7, TablesKept DEF LedgerInv

(* Only a source that has a cursor can be out of order. *)
LEMMA OutOfOrderHasCursor ==
  ASSUME LedgerInv, NEW e \in Observations, OutOfOrder(e, CursorOf(e))
  PROVE  /\ e.scope \in DOMAIN cursors
         /\ e.source \in DOMAIN cursors[e.scope]
         /\ CursorOf(e) = cursors[e.scope][e.source]
<1>1. NewCursor.accepted = 0
  BY DEF NewCursor
<1>2. e.source \in DOMAIN CursorsOf(e.scope)
  BY <1>1 DEF OutOfOrder, CursorOf
<1>3. DOMAIN NoEntries = {}
  BY DEF NoEntries
<1> QED
  BY <1>2, <1>3 DEF CursorsOf, CursorOf

(* An out-of-order refusal counts in one cursor and leaves its position alone. *)
LEMMA RefusedCursor ==
  ASSUME LedgerInv, NEW e \in Observations, RefuseOutOfOrder(e)
  PROVE  /\ DOMAIN cursors' = DOMAIN cursors
         /\ \A s \in DOMAIN cursors : DOMAIN cursors'[s] = DOMAIN cursors[s]
         /\ \A s \in DOMAIN cursors : \A c \in DOMAIN cursors[s] :
              /\ cursors'[s][c] \in Cursor
              /\ cursors'[s][c].last_seq = cursors[s][c].last_seq
              /\ cursors'[s][c].rollovers = cursors[s][c].rollovers
              /\ cursors'[s][c].accepted = cursors[s][c].accepted
              /\ cursors'[s][c].observed = cursors'[s][c].accepted + cursors'[s][c].rejected
<1> DEFINE old == cursors[e.scope][e.source]
           new == [old EXCEPT !.observed = @ + 1, !.rejected = @ + 1]
<1>1. e.scope \in DOMAIN cursors /\ e.source \in DOMAIN cursors[e.scope]
  BY OutOfOrderHasCursor DEF RefuseOutOfOrder
<1>2. \A s \in DOMAIN cursors : \A c \in DOMAIN cursors[s] :
        /\ cursors[s][c] \in Cursor
        /\ cursors[s][c].observed = cursors[s][c].accepted + cursors[s][c].rejected
  BY DEF LedgerInv, LedgerType, AccountingClosed
<1>3. /\ new \in Cursor
      /\ new.last_seq = old.last_seq /\ new.rollovers = old.rollovers
      /\ new.accepted = old.accepted
      /\ new.observed = new.accepted + new.rejected
  <2>1. old \in Cursor /\ old.observed = old.accepted + old.rejected
    BY <1>1, <1>2
  <2> HIDE DEF old
  <2>2. old.observed + 1 \in Nat /\ old.rejected + 1 \in Nat /\ old.accepted \in Nat
    BY <2>1 DEF Cursor
  <2>3. ASSUME NEW a \in Nat, NEW b \in Nat
        PROVE  [old EXCEPT !.observed = a, !.rejected = b] \in Cursor
    BY <2>1, <2>3 DEF Cursor
  <2>4. new \in Cursor
    BY <2>2, <2>3
  <2>5. /\ new.last_seq = old.last_seq /\ new.rollovers = old.rollovers
        /\ new.accepted = old.accepted
        /\ new.observed = old.observed + 1 /\ new.rejected = old.rejected + 1
    BY <2>1 DEF Cursor
  <2>6. old.rejected \in Nat /\ old.observed \in Nat
    BY <2>1 DEF Cursor
  <2> QED
    BY <2>1, <2>2, <2>4, <2>5, <2>6
<1>4. cursors' = [cursors EXCEPT ![e.scope] = [cursors[e.scope] EXCEPT ![e.source] = new]]
  BY <1>1 DEF RefuseOutOfOrder
<1> HIDE DEF new
<1>5. /\ DOMAIN cursors' = DOMAIN cursors
      /\ \A s \in DOMAIN cursors : DOMAIN cursors'[s] = DOMAIN cursors[s]
      /\ \A s \in DOMAIN cursors : \A c \in DOMAIN cursors[s] :
           cursors'[s][c] = IF s = e.scope /\ c = e.source THEN new ELSE cursors[s][c]
  BY <1>1, <1>4
<1>6. ASSUME NEW s \in DOMAIN cursors, NEW c \in DOMAIN cursors[s]
      PROVE  /\ cursors'[s][c] \in Cursor
             /\ cursors'[s][c].last_seq = cursors[s][c].last_seq
             /\ cursors'[s][c].rollovers = cursors[s][c].rollovers
             /\ cursors'[s][c].accepted = cursors[s][c].accepted
             /\ cursors'[s][c].observed = cursors'[s][c].accepted + cursors'[s][c].rejected
  <2>1. CASE s = e.scope /\ c = e.source
    BY <2>1, <1>3, <1>5
  <2>2. CASE ~(s = e.scope /\ c = e.source)
    BY <2>2, <1>2, <1>5
  <2> QED
    BY <2>1, <2>2
<1> QED
  BY <1>5, <1>6

LEMMA RefuseOutOfOrderKeeps ==
  ASSUME LedgerInv, NEW e \in Observations, RefuseOutOfOrder(e)
  PROVE  LedgerInv'
<1>1. UNCHANGED <<items, heard>>
  BY DEF RefuseOutOfOrder
<1>2. /\ stats' \in Stats
      /\ stats'.seen = stats.seen + 1 /\ stats'.rejected = stats.rejected + 1
      /\ stats'.dropped = stats.dropped /\ stats'.retained = stats.retained
      /\ stats'.admitted = stats.admitted
  BY RefusalCounted DEF LedgerInv, LedgerType, RefuseOutOfOrder
<1>3. LedgerType'
  BY <1>1, <1>2, TablesKept, RefusedCursor DEF LedgerInv, LedgerType
<1>4. Unheard'
  <2>1. \A s : DOMAIN CursorsOf(s)' = DOMAIN CursorsOf(s)
    BY RefusedCursor DEF CursorsOf
  <2> QED
    BY <2>1, <1>1, TablesKept DEF LedgerInv, Unheard
<1>5. CursorAtLast'
  <2>1. \A s, c : Mine(s, c)' = Mine(s, c)
    BY <1>1, TablesKept
  <2> QED
    BY <1>1, <2>1, RefusedCursor DEF LedgerInv, CursorAtLast
<1>6. LapsCounted'
  <2>1. /\ \A s, c : Wraps(s, c)' = Wraps(s, c)
        /\ \A s, c, q : Numbered(s, c, q)' = Numbered(s, c, q)
    BY <1>1, TablesKept
  <2> QED
    BY <2>1, RefusedCursor DEF LedgerInv, LapsCounted
<1>7. AccountingClosed'
  <2>1. Slots' = Slots
    BY <1>1, TablesKept
  <2> QED
    BY <1>1, <1>2, <2>1, RefusedCursor, SMTT(15) DEF LedgerInv, LedgerType, Stats, AccountingClosed
<1> QED
  BY <1>1, <1>2, <1>3, <1>4, <1>5, <1>6, <1>7, TablesKept DEF LedgerInv

(* What acceptance does to what a scope retains: a new entry at the end, every other
   entry kept, but for the victim of a full scope. *)
LEMMA AcceptItems ==
  ASSUME LedgerInv, NEW e \in Observations, Accept(e)
  PROVE  LET its == ItemsOf(e.scope)
             full == Len(its) >= MaxEvidencePerScope
             new == items'[e.scope]
         IN /\ DOMAIN items' = DOMAIN items \cup {e.scope}
            /\ \A s \in DOMAIN items \ {e.scope} : items'[s] = items[s]
            /\ its \in Seq(Observations) /\ Len(its) <= MaxEvidencePerScope
            /\ new \in Seq(Observations)
            /\ Len(new) = IF full THEN Len(its) ELSE Len(its) + 1
            /\ new[Len(new)] = e
            /\ full => /\ Victim(its) \in 1..Len(its)
                       /\ \A m \in 1..Len(its) : ~Older(its[m], its[Victim(its)])
                       /\ \A n \in 1..(Len(its) - 1) :
                            new[n] = IF n < Victim(its) THEN its[n] ELSE its[n + 1]
            /\ ~full => \A n \in 1..Len(its) : new[n] = its[n]
<1> DEFINE its == ItemsOf(e.scope)
           full == Len(its) >= MaxEvidencePerScope
           kept == IF full THEN RemoveAt(its, Victim(its)) ELSE its
<1>1. items' = With(items, e.scope, Append(kept, e))
  BY DEF Accept
<1>2. its \in Seq(Observations) /\ Len(its) <= MaxEvidencePerScope
  BY LedgerAssumption DEF ItemsOf, LedgerInv, LedgerType, RetainedWasHeard
<1>3. MaxEvidencePerScope \in Nat \ {0} /\ Len(its) \in Nat
  BY <1>2, LedgerAssumption
<1> HIDE DEF its
<1>4. CASE full
  <2>1. Len(its) > 0
    BY <1>3, <1>4
  <2>2. /\ Victim(its) \in 1..Len(its)
        /\ \A m \in 1..Len(its) : ~Older(its[m], its[Victim(its)])
    BY <1>2, <2>1, VictimExists
  <2>3. /\ kept \in Seq(Observations) /\ Len(kept) = Len(its) - 1
        /\ \A n \in 1..(Len(its) - 1) :
              kept[n] = IF n < Victim(its) THEN its[n] ELSE its[n + 1]
    BY <1>2, <1>4, <2>2, RemoveAtProperties
  <2> HIDE DEF kept
  <2>4. /\ Append(kept, e) \in Seq(Observations) /\ Len(Append(kept, e)) = Len(its)
        /\ Append(kept, e)[Len(its)] = e
        /\ \A n \in 1..(Len(its) - 1) : Append(kept, e)[n] = kept[n]
    BY <1>3, <2>1, <2>3
  <2> QED
    BY <1>1, <1>2, <1>4, <2>2, <2>3, <2>4 DEF With, its
<1>5. CASE ~full
  <2>1. /\ Append(its, e) \in Seq(Observations) /\ Len(Append(its, e)) = Len(its) + 1
        /\ Append(its, e)[Len(its) + 1] = e
        /\ \A n \in 1..Len(its) : Append(its, e)[n] = its[n]
    BY <1>2, <1>3
  <2>2. kept = its
    BY <1>5
  <2> QED
    BY <1>1, <1>2, <1>5, <2>1, <2>2 DEF With, its
<1> QED
  BY <1>4, <1>5

(* What acceptance does to the history. *)
LEMMA AcceptHeard ==
  ASSUME LedgerInv, NEW e \in Observations, Accept(e)
  PROVE  /\ heard \in Seq(Observations) /\ Len(heard) \in Nat
         /\ heard' \in Seq(Observations) /\ Len(heard') = Len(heard) + 1
         /\ heard'[Len(heard) + 1] = e
         /\ \A n \in 1..Len(heard) : heard'[n] = heard[n]
<1>1. heard \in Seq(Observations) /\ heard' = Append(heard, e)
  BY DEF LedgerInv, LedgerType, Accept
<1> QED
  BY <1>1

(* ... to the part of it that one source said about one scope. *)
LEMMA AcceptMine ==
  ASSUME LedgerInv, NEW e \in Observations, Accept(e), NEW s, NEW c
  PROVE  LET N == Len(heard) + 1
             its == s = e.scope /\ c = e.source
         IN /\ Mine(s, c) \subseteq 1..Len(heard)
            /\ Mine(s, c)' = IF its THEN Mine(s, c) \cup {N} ELSE Mine(s, c)
            /\ \A q : Numbered(s, c, q)' = IF its /\ q = e.seq THEN Numbered(s, c, q) \cup {N}
                                           ELSE Numbered(s, c, q)
<1>1. Mine(s, c) \subseteq 1..Len(heard)
  BY DEF Mine
<1>2. Mine(s, c)' = IF s = e.scope /\ c = e.source
                    THEN Mine(s, c) \cup {Len(heard) + 1} ELSE Mine(s, c)
  <2>1. 1..Len(heard') = (1..Len(heard)) \cup {Len(heard) + 1}
    BY AcceptHeard
  <2> QED
    BY <2>1, AcceptHeard DEF Mine
<1>3. ASSUME NEW q
      PROVE  Numbered(s, c, q)' = IF s = e.scope /\ c = e.source /\ q = e.seq
                                  THEN Numbered(s, c, q) \cup {Len(heard) + 1}
                                  ELSE Numbered(s, c, q)
  <2>1. \A n \in Mine(s, c) : heard'[n] = heard[n]
    BY <1>1, AcceptHeard
  <2>2. heard'[Len(heard) + 1] = e
    BY AcceptHeard
  <2>3. Len(heard) + 1 \notin Mine(s, c)
    BY <1>1, AcceptHeard
  <2> QED
    BY <1>2, <2>1, <2>2, <2>3 DEF Numbered
<1> QED
  BY <1>1, <1>2, <1>3

(* ... and to the cursors. *)
LEMMA AcceptCursors ==
  ASSUME LedgerInv, NEW e \in Observations, Accept(e)
  PROVE  LET new == Advanced(CursorOf(e), e)
         IN /\ DOMAIN cursors' = DOMAIN cursors \cup {e.scope}
            /\ DOMAIN cursors'[e.scope] = DOMAIN CursorsOf(e.scope) \cup {e.source}
            /\ cursors'[e.scope][e.source] = new
            /\ \A c \in DOMAIN CursorsOf(e.scope) \ {e.source} :
                 cursors'[e.scope][c] = CursorsOf(e.scope)[c]
            /\ \A s \in DOMAIN cursors \ {e.scope} : cursors'[s] = cursors[s]
BY DEF Accept, With

LEMMA AdvancedCursor ==
  ASSUME NEW k \in Cursor, NEW e \in Observations
  PROVE  LET new == Advanced(k, e)
         IN /\ new \in Cursor
            /\ new.last_seq = e.seq
            /\ new.accepted = k.accepted + 1 /\ new.observed = k.observed + 1
            /\ new.rejected = k.rejected
            /\ new.rollovers = IF k.accepted > 0 /\ e.seq < k.last_seq THEN k.rollovers + 1
                               ELSE k.rollovers
<1>1. e.seq \in Nat /\ e.attempt \in Nat
  BY ObservationFields
<1>2. k.rollovers + 1 \in Nat /\ k.observed + 1 \in Nat /\ k.accepted + 1 \in Nat
  BY DEF Cursor
<1> DEFINE att == IF e.attempt = 0 THEN k.last_attempt ELSE e.attempt
           rol == IF k.accepted > 0 /\ e.seq < k.last_seq THEN k.rollovers + 1 ELSE k.rollovers
<1>3. att \in Nat /\ rol \in Nat
  BY <1>1, <1>2 DEF Cursor
<1>4. Advanced(k, e) = [k EXCEPT !.last_seq = e.seq, !.last_attempt = att, !.rollovers = rol,
                                 !.observed = k.observed + 1, !.accepted = k.accepted + 1]
  BY DEF Advanced, Cursor
<1> HIDE DEF att, rol
<1>5. Advanced(k, e) \in Cursor
  BY <1>1, <1>2, <1>3, <1>4 DEF Cursor
<1>6. LET new == Advanced(k, e)
      IN /\ new \in Cursor
         /\ new.last_seq = e.seq
         /\ new.accepted = k.accepted + 1 /\ new.observed = k.observed + 1
         /\ new.rejected = k.rejected
         /\ new.rollovers = rol
  BY <1>5, <1>4 DEF Cursor
<1> QED
  BY <1>6 DEF rol

(* Where laps end: nothing changes for another source; for the observation's own, a
   lap ends when its number is below the last one. *)
LEMMA WrapsOfOthers ==
  ASSUME LedgerInv, NEW e \in Observations, Accept(e), NEW s, NEW c,
         ~(s = e.scope /\ c = e.source)
  PROVE  Wraps(s, c)' = Wraps(s, c)
<1>1. Mine(s, c)' = Mine(s, c)
  BY AcceptMine
<1>2. \A n \in Mine(s, c) : heard'[n] = heard[n]
  BY AcceptMine, AcceptHeard
<1> QED
  BY <1>1, <1>2 DEF Wraps

LEMMA WrapsOfFirst ==
  ASSUME LedgerInv, NEW e \in Observations, Accept(e), Mine(e.scope, e.source) = {}
  PROVE  Wraps(e.scope, e.source) = {} /\ Wraps(e.scope, e.source)' = {}
<1>1. Mine(e.scope, e.source)' = {Len(heard) + 1}
  <2>1. Mine(e.scope, e.source)' = Mine(e.scope, e.source) \cup {Len(heard) + 1}
    BY AcceptMine
  <2> QED
    BY <2>1
<1>2. Wraps(e.scope, e.source)' = {}
  BY <1>1, AcceptHeard DEF Wraps
<1> QED
  BY <1>2 DEF Wraps

LEMMA WrapsOfNext ==
  ASSUME LedgerInv, NEW e \in Observations, Accept(e),
         NEW last \in Mine(e.scope, e.source),
         \A m \in Mine(e.scope, e.source) : m <= last
  PROVE  Wraps(e.scope, e.source)' =
           IF e.seq < heard[last].seq THEN Wraps(e.scope, e.source) \cup {Len(heard) + 1}
           ELSE Wraps(e.scope, e.source)
<1> DEFINE M == Mine(e.scope, e.source)
           N == Len(heard) + 1
<1>1. M \subseteq 1..Len(heard) /\ Mine(e.scope, e.source)' = M \cup {N}
  BY AcceptMine
<1>2. \A n \in M : n < N /\ n \in Nat /\ heard'[n] = heard[n]
  BY <1>1, AcceptHeard
<1>3. heard'[N] = e /\ N \in Nat
  BY AcceptHeard
<1>4. Wraps(e.scope, e.source)' =
        {n \in M \cup {N} : \E m \in M \cup {N} : /\ m < n
                                                  /\ \A k \in M \cup {N} : k <= m \/ n <= k
                                                  /\ heard'[n].seq < heard'[m].seq}
  BY <1>1 DEF Wraps
<1>5. ASSUME NEW n \in M
      PROVE  n \in Wraps(e.scope, e.source)' <=> n \in Wraps(e.scope, e.source)
  <2>1. \A m \in M \cup {N} : m < n => m \in M
    BY <1>2, <1>3
  <2>2. \A m \in M : (\A k \in M \cup {N} : k <= m \/ n <= k) <=> (\A k \in M : k <= m \/ n <= k)
    BY <1>2, <1>3
  <2>3. heard'[n] = heard[n] /\ \A m \in M : heard'[m] = heard[m]
    BY <1>2
  <2>4. n \in Wraps(e.scope, e.source)' <=>
          \E m \in M : m < n /\ (\A k \in M : k <= m \/ n <= k) /\ heard[n].seq < heard[m].seq
    BY <1>4, <2>1, <2>2, <2>3
  <2> QED
    BY <2>4 DEF Wraps
<1>6. N \in Wraps(e.scope, e.source)' <=> e.seq < heard[last].seq
  <2>1. \A m \in M : (\A k \in M \cup {N} : k <= m \/ N <= k) <=> m = last
    BY <1>2, <1>3
  <2>2. N \in Wraps(e.scope, e.source)' <=>
          \E m \in M : m = last /\ e.seq < heard[m].seq
    BY <1>2, <1>3, <1>4, <2>1
  <2> QED
    BY <2>2
<1>7. Wraps(e.scope, e.source) \subseteq M
  BY DEF Wraps
<1>8. Wraps(e.scope, e.source)' \subseteq M \cup {N}
  BY <1>4
<1>9. N \notin M
  BY <1>1, <1>3
<1> HIDE DEF M, N
<1>10. Wraps(e.scope, e.source)' =
           IF e.seq < heard[last].seq THEN Wraps(e.scope, e.source) \cup {N}
           ELSE Wraps(e.scope, e.source)
  BY <1>5, <1>6, <1>7, <1>8, <1>9
<1> QED
  BY <1>10 DEF N

(* The cursor an observation meets: none and nothing heard, or one that stands at the
   last observation and that the observation passes or wraps around. *)
LEMMA MetCursor ==
  ASSUME LedgerInv, NEW e \in Observations, Accept(e)
  PROVE  /\ CursorOf(e) \in Cursor
         /\ CursorOf(e).observed = CursorOf(e).accepted + CursorOf(e).rejected
         /\ \/ /\ e.source \notin DOMAIN CursorsOf(e.scope)
               /\ CursorOf(e) = NewCursor
               /\ Mine(e.scope, e.source) = {}
            \/ /\ e.scope \in DOMAIN cursors /\ e.source \in DOMAIN cursors[e.scope]
               /\ CursorOf(e) = cursors[e.scope][e.source]
               /\ CursorOf(e).accepted > 0
               /\ e.seq # CursorOf(e).last_seq
               /\ e.seq < CursorOf(e).last_seq => CursorOf(e).rollovers < MaxRollovers
<1>1. NewCursor \in Cursor /\ NewCursor.observed = NewCursor.accepted + NewCursor.rejected
  BY DEF NewCursor, Cursor
<1>2. CASE e.source \notin DOMAIN CursorsOf(e.scope)
  <2>1. CursorOf(e) = NewCursor /\ Mine(e.scope, e.source) = {}
    BY <1>2 DEF CursorOf, LedgerInv, Unheard
  <2> QED
    BY <1>1, <1>2, <2>1
<1>3. CASE e.source \in DOMAIN CursorsOf(e.scope)
  <2>1. e.scope \in DOMAIN cursors /\ e.source \in DOMAIN cursors[e.scope]
    BY <1>3 DEF CursorsOf, NoEntries
  <2>2. CursorOf(e) = cursors[e.scope][e.source]
    BY <1>3 DEF CursorOf
  <2>3. /\ CursorOf(e) \in Cursor
        /\ CursorOf(e).observed = CursorOf(e).accepted + CursorOf(e).rejected
        /\ CursorOf(e).accepted > 0
    BY <2>1, <2>2 DEF LedgerInv, LedgerType, AccountingClosed, CursorAtLast
  <2>4. /\ e.seq # CursorOf(e).last_seq
        /\ e.seq < CursorOf(e).last_seq => CursorOf(e).rollovers < MaxRollovers
    BY <2>3 DEF Accept, OutOfOrder, IsDuplicate, LooksLikeWrap
  <2> QED
    BY <2>1, <2>2, <2>3, <2>4
<1> QED
  BY <1>2, <1>3

(* The counters of an acceptance. *)
LEMMA AcceptCounted ==
  ASSUME LedgerInv, NEW e \in Observations, Accept(e)
  PROVE  LET full == Len(ItemsOf(e.scope)) >= MaxEvidencePerScope
         IN /\ stats \in Stats /\ stats' \in Stats
            /\ stats'.seen = stats.seen + 1 /\ stats'.admitted = stats.admitted + 1
            /\ stats'.rejected = stats.rejected
            /\ stats'.retained = IF full THEN stats.retained ELSE stats.retained + 1
            /\ stats'.dropped = IF full THEN stats.dropped + 1 ELSE stats.dropped
<1> DEFINE full == Len(ItemsOf(e.scope)) >= MaxEvidencePerScope
           ret == IF full THEN stats.retained ELSE stats.retained + 1
           dro == IF full THEN stats.dropped + 1 ELSE stats.dropped
<1>1. stats \in Stats
  BY DEF LedgerInv, LedgerType
<1>2. /\ stats.seen + 1 \in Nat /\ stats.admitted + 1 \in Nat
      /\ stats.retained + 1 \in Nat /\ stats.dropped + 1 \in Nat
      /\ stats.retained \in Nat /\ stats.dropped \in Nat
  BY <1>1 DEF Stats
<1>3. ret \in Nat /\ dro \in Nat
  BY <1>2
<1>4. stats' = [stats EXCEPT !.seen = stats.seen + 1, !.admitted = stats.admitted + 1,
                             !.retained = ret, !.dropped = dro]
  BY <1>1 DEF Accept, Stats
<1> HIDE DEF ret, dro
<1>5. stats' \in Stats
  BY <1>1, <1>2, <1>3, <1>4 DEF Stats
<1>6. /\ stats'.seen = stats.seen + 1 /\ stats'.admitted = stats.admitted + 1
      /\ stats'.rejected = stats.rejected
      /\ stats'.retained = ret /\ stats'.dropped = dro
  BY <1>1, <1>4 DEF Stats
<1> QED
  BY <1>1, <1>5, <1>6 DEF ret, dro

(* A slot is taken unless the scope was full. *)
LEMMA AcceptSlots ==
  ASSUME LedgerInv, NEW e \in Observations, Accept(e)
  PROVE  LET full == Len(ItemsOf(e.scope)) >= MaxEvidencePerScope
         IN /\ IsFiniteSet(Slots')
            /\ Cardinality(Slots') = IF full THEN Cardinality(Slots) ELSE Cardinality(Slots) + 1
<1> DEFINE its == ItemsOf(e.scope)
           full == Len(its) >= MaxEvidencePerScope
           D == DOMAIN items
           Others == UNION {{s} \X (1..Len(items[s])) : s \in D \ {e.scope}}
<1>1. /\ DOMAIN items' = D \cup {e.scope}
      /\ \A s \in D \ {e.scope} : items'[s] = items[s]
      /\ Len(items'[e.scope]) = IF full THEN Len(its) ELSE Len(its) + 1
      /\ its \in Seq(Observations) /\ Len(its) \in Nat
  <2>1. /\ DOMAIN items' = D \cup {e.scope}
        /\ \A s \in D \ {e.scope} : items'[s] = items[s]
        /\ Len(items'[e.scope]) = IF full THEN Len(its) ELSE Len(its) + 1
        /\ its \in Seq(Observations)
    BY AcceptItems
  <2> HIDE DEF its
  <2>2. Len(its) \in Nat
    BY <2>1
  <2> QED
    BY <2>1, <2>2
<1>2. Slots = Others \cup ({e.scope} \X (1..Len(its)))
  <2>1. e.scope \in D => its = items[e.scope]
    BY DEF ItemsOf
  <2>2. e.scope \notin D => its = <<>> /\ 1..Len(its) = {}
    BY DEF ItemsOf
  <2> QED
    BY <2>1, <2>2 DEF Slots
<1>3. Slots' = Others \cup ({e.scope} \X (1..Len(items'[e.scope])))
  BY <1>1 DEF Slots
<1>4. IsFiniteSet(Slots)
  BY DEF LedgerInv, LedgerType
<1> HIDE DEF its, Others
<1>5. CASE full
  <2>1. Slots' = Slots
    BY <1>1, <1>2, <1>3, <1>5
  <2> QED
    BY <2>1, <1>4, <1>5 DEF its
<1>6. CASE ~full
  <2>1. 1..Len(items'[e.scope]) = (1..Len(its)) \cup {Len(its) + 1}
    BY <1>1, <1>6
  <2>2. Slots' = Slots \cup {<<e.scope, Len(its) + 1>>}
    BY <2>1, <1>2, <1>3
  <2>3. <<e.scope, Len(its) + 1>> \notin Slots
    <3>1. <<e.scope, Len(its) + 1>> \notin Others
      BY DEF Others
    <3> QED
      BY <3>1, <1>1, <1>2
  <2> QED
    BY <2>2, <2>3, <1>4, <1>6, FS_AddElement DEF its
<1> QED
  BY <1>5, <1>6 DEF its

(* Every cursor after an acceptance: the observation's own advanced, the others as
   they were. *)
LEMMA CursorsAfter ==
  ASSUME LedgerInv, NEW e \in Observations, Accept(e),
         NEW s \in DOMAIN cursors', NEW c \in DOMAIN cursors'[s]
  PROVE  \/ /\ s = e.scope /\ c = e.source
            /\ cursors'[s][c] = Advanced(CursorOf(e), e)
         \/ /\ ~(s = e.scope /\ c = e.source)
            /\ s \in DOMAIN cursors /\ c \in DOMAIN cursors[s]
            /\ cursors'[s][c] = cursors[s][c]
<1>1. CASE s # e.scope
  BY <1>1, AcceptCursors
<1>2. CASE s = e.scope /\ c = e.source
  BY <1>2, AcceptCursors
<1>3. CASE s = e.scope /\ c # e.source
  <2>1. c \in DOMAIN CursorsOf(s) /\ cursors'[s][c] = CursorsOf(s)[c]
    BY <1>3, AcceptCursors
  <2>2. s \in DOMAIN cursors
    BY <2>1 DEF CursorsOf, NoEntries
  <2>3. CursorsOf(s) = cursors[s]
    BY <2>2 DEF CursorsOf
  <2> QED
    BY <1>3, <2>1, <2>2, <2>3
<1> QED
  BY <1>1, <1>2, <1>3

LEMMA AcceptKeepsTables ==
  ASSUME LedgerInv, NEW e \in Observations, Accept(e)
  PROVE  LedgerType' /\ RetainedWasHeard' /\ HeardIsRetained'
<1> DEFINE its == ItemsOf(e.scope)
           full == Len(its) >= MaxEvidencePerScope
           new == items'[e.scope]
<1>1. /\ DOMAIN items' = DOMAIN items \cup {e.scope}
      /\ \A s \in DOMAIN items \ {e.scope} : items'[s] = items[s]
      /\ its \in Seq(Observations) /\ Len(its) <= MaxEvidencePerScope
      /\ new \in Seq(Observations)
      /\ Len(new) = IF full THEN Len(its) ELSE Len(its) + 1
      /\ new[Len(new)] = e
  BY AcceptItems
<1>2. /\ full => /\ Victim(its) \in 1..Len(its)
                 /\ \A n \in 1..(Len(its) - 1) :
                      new[n] = IF n < Victim(its) THEN its[n] ELSE its[n + 1]
      /\ ~full => \A n \in 1..Len(its) : new[n] = its[n]
  BY AcceptItems
<1>3. \A s : HeardOf(s) \subseteq HeardOf(s)'
  BY AcceptHeard DEF HeardOf
<1>4. e \in HeardOf(e.scope)' /\ StructurallyValid(e)
  <2>1. Len(heard) + 1 \in 1..Len(heard') /\ heard'[Len(heard) + 1] = e
    BY AcceptHeard
  <2> QED
    BY <2>1 DEF HeardOf, Accept, Inadmissible
<1>5. \A n \in 1..Len(its) : its[n] \in HeardOf(e.scope) /\ StructurallyValid(its[n])
  BY DEF ItemsOf, LedgerInv, RetainedWasHeard
<1>6. MaxEvidencePerScope \in Nat \ {0}
  BY LedgerAssumption
<1> HIDE DEF its, new
<1>7. Len(its) \in Nat /\ Len(new) \in Nat
  BY <1>1
<1>8. LedgerType'
  <2>1. \A s \in DOMAIN items' : items'[s] \in Seq(Observations)
    <3>1. \A s \in DOMAIN items : items[s] \in Seq(Observations)
      BY DEF LedgerInv, LedgerType
    <3> QED
      BY <3>1, <1>1 DEF new
  <2>2. \A s \in DOMAIN cursors' : \A c \in DOMAIN cursors'[s] : cursors'[s][c] \in Cursor
    <3>1. Advanced(CursorOf(e), e) \in Cursor
      BY MetCursor, AdvancedCursor
    <3>2. \A s \in DOMAIN cursors : \A c \in DOMAIN cursors[s] : cursors[s][c] \in Cursor
      BY DEF LedgerInv, LedgerType
    <3> QED
      BY <3>1, <3>2, CursorsAfter
  <2>3. DOMAIN cursors' = DOMAIN items'
    BY <1>1, AcceptCursors DEF LedgerInv, LedgerType
  <2> QED
    BY <2>1, <2>2, <2>3, AcceptHeard, AcceptCounted, AcceptSlots DEF LedgerType
<1>9. RetainedWasHeard'
  <2>1. Len(new) <= MaxEvidencePerScope
    BY <1>1, <1>6, <1>7
  <2>2. ASSUME NEW n \in 1..Len(new)
        PROVE  new[n] \in HeardOf(e.scope)' /\ StructurallyValid(new[n])
    <3>1. CASE n = Len(new)
      BY <3>1, <1>1, <1>4
    <3>2. CASE n < Len(new)
      <4>1. \E m \in 1..Len(its) : new[n] = its[m]
        <5>1. CASE full
          <6>1. n \in 1..(Len(its) - 1) /\ n \in 1..Len(its) /\ n + 1 \in 1..Len(its)
            BY <1>1, <1>7, <3>2, <5>1
          <6>2. new[n] = its[n] \/ new[n] = its[n + 1]
            BY <6>1, <5>1, <1>2
          <6> QED
            BY <6>1, <6>2
        <5>2. CASE ~full
          <6>1. n \in 1..Len(its)
            BY <1>1, <1>7, <3>2, <5>2
          <6> QED
            BY <6>1, <5>2, <1>2
        <5> QED
          BY <5>1, <5>2
      <4> QED
        BY <4>1, <1>3, <1>5
    <3> QED
      BY <3>1, <3>2, <1>7
  <2>3. ASSUME NEW s \in DOMAIN items \ {e.scope}
        PROVE  /\ Len(items[s]) <= MaxEvidencePerScope
               /\ \A n \in 1..Len(items[s]) :
                    items[s][n] \in HeardOf(s)' /\ StructurallyValid(items[s][n])
    BY <1>3 DEF LedgerInv, RetainedWasHeard
  <2> QED
    BY <2>1, <2>2, <2>3, <1>1 DEF RetainedWasHeard, new
<1>10. HeardIsRetained'
  <2> SUFFICES ASSUME stats'.dropped = 0, NEW m \in 1..Len(heard')
               PROVE  LET s == heard'[m].scope
                      IN s \in DOMAIN items' /\ \E n \in 1..Len(items'[s]) : items'[s][n] = heard'[m]
    BY DEF HeardIsRetained
  <2>1. ~full /\ stats.dropped = 0
    BY AcceptCounted DEF its, Stats
  <2>2. Len(new) = Len(its) + 1 /\ \A n \in 1..Len(its) : new[n] = its[n]
    BY <2>1, <1>1, <1>2
  <2>3. CASE m = Len(heard) + 1
    <3>1. heard'[m] = e
      BY <2>3, AcceptHeard
    <3>2. new[Len(new)] = e /\ Len(new) \in 1..Len(new)
      BY <1>1, <1>7, <2>2
    <3> QED
      BY <3>1, <3>2, <1>1 DEF new
  <2>4. CASE m \in 1..Len(heard)
    <3>1. heard'[m] = heard[m]
      BY <2>4, AcceptHeard
    <3>2. /\ heard[m].scope \in DOMAIN items
          /\ \E n \in 1..Len(items[heard[m].scope]) : items[heard[m].scope][n] = heard[m]
      BY <2>1, <2>4 DEF LedgerInv, HeardIsRetained
    <3>3. CASE heard[m].scope = e.scope
      <4>1. its = items[e.scope]
        BY <3>2, <3>3 DEF its, ItemsOf
      <4>2. \E n \in 1..Len(new) : new[n] = heard[m]
        BY <3>2, <3>3, <4>1, <2>2, <1>7
      <4> QED
        BY <3>1, <3>3, <4>2, <1>1 DEF new
    <3>4. CASE heard[m].scope # e.scope
      BY <3>1, <3>2, <3>4, <1>1
    <3> QED
      BY <3>3, <3>4
  <2> QED
    BY <2>3, <2>4, AcceptHeard
<1> QED
  BY <1>8, <1>9, <1>10

LEMMA AcceptKeepsCursors ==
  ASSUME LedgerInv, NEW e \in Observations, Accept(e)
  PROVE  Unheard' /\ CursorAtLast' /\ AccountingClosed'
<1>1. Unheard'
  <2> SUFFICES ASSUME NEW s, NEW c, c \notin DOMAIN CursorsOf(s)'
               PROVE  Mine(s, c)' = {}
    BY DEF Unheard
  <2>1. ~(s = e.scope /\ c = e.source)
    BY AcceptCursors DEF CursorsOf
  <2>2. c \notin DOMAIN CursorsOf(s)
    <3>1. CASE s = e.scope
      BY <3>1, AcceptCursors DEF CursorsOf
    <3>2. CASE s # e.scope
      BY <3>2, AcceptCursors DEF CursorsOf
    <3> QED
      BY <3>1, <3>2
  <2>3. Mine(s, c) = {}
    BY <2>2 DEF LedgerInv, Unheard
  <2> QED
    BY <2>1, <2>3, AcceptMine
<1>2. CursorAtLast'
  <2> SUFFICES ASSUME NEW s \in DOMAIN cursors', NEW c \in DOMAIN cursors'[s]
               PROVE  /\ cursors'[s][c].accepted > 0
                      /\ \E n \in Mine(s, c)' : /\ \A m \in Mine(s, c)' : m <= n
                                                /\ heard'[n].seq = cursors'[s][c].last_seq
    BY DEF CursorAtLast
  <2>1. CASE s = e.scope /\ c = e.source
    <3>1. cursors'[s][c].last_seq = e.seq /\ cursors'[s][c].accepted > 0
      <4>1. cursors'[s][c] = Advanced(CursorOf(e), e)
        BY <2>1, CursorsAfter
      <4>2. CursorOf(e) \in Cursor
        BY MetCursor
      <4>3. /\ Advanced(CursorOf(e), e).last_seq = e.seq
            /\ Advanced(CursorOf(e), e).accepted = CursorOf(e).accepted + 1
        BY <4>2, AdvancedCursor
      <4> QED
        BY <4>1, <4>2, <4>3 DEF Cursor
    <3>2. Mine(s, c)' = Mine(s, c) \cup {Len(heard) + 1} /\ Mine(s, c) \subseteq 1..Len(heard)
      BY <2>1, AcceptMine
    <3>3. \A m \in Mine(s, c)' : m <= Len(heard) + 1
      BY <3>2, AcceptHeard
    <3> QED
      BY <3>1, <3>2, <3>3, AcceptHeard
  <2>2. CASE ~(s = e.scope /\ c = e.source)
    <3>1. s \in DOMAIN cursors /\ c \in DOMAIN cursors[s] /\ cursors'[s][c] = cursors[s][c]
      BY <2>2, CursorsAfter
    <3>2. /\ cursors[s][c].accepted > 0
          /\ \E n \in Mine(s, c) : /\ \A m \in Mine(s, c) : m <= n
                                   /\ heard[n].seq = cursors[s][c].last_seq
      BY <3>1 DEF LedgerInv, CursorAtLast
    <3>3. Mine(s, c)' = Mine(s, c) /\ \A n \in Mine(s, c) : heard'[n] = heard[n]
      BY <2>2, AcceptMine, AcceptHeard
    <3> QED
      BY <3>1, <3>2, <3>3
  <2> QED
    BY <2>1, <2>2
<1>3. AccountingClosed'
  <2>1. ASSUME NEW s \in DOMAIN cursors', NEW c \in DOMAIN cursors'[s]
        PROVE  cursors'[s][c].observed = cursors'[s][c].accepted + cursors'[s][c].rejected
    <3>1. CASE s = e.scope /\ c = e.source
      <4>1. cursors'[s][c] = Advanced(CursorOf(e), e)
        BY <3>1, CursorsAfter
      <4>2. /\ CursorOf(e) \in Cursor
            /\ CursorOf(e).observed = CursorOf(e).accepted + CursorOf(e).rejected
        BY MetCursor
      <4>3. /\ Advanced(CursorOf(e), e).accepted = CursorOf(e).accepted + 1
            /\ Advanced(CursorOf(e), e).observed = CursorOf(e).observed + 1
            /\ Advanced(CursorOf(e), e).rejected = CursorOf(e).rejected
        BY <4>2, AdvancedCursor
      <4> QED
        BY <4>1, <4>2, <4>3 DEF Cursor
    <3>2. CASE ~(s = e.scope /\ c = e.source)
      BY <3>2, CursorsAfter DEF LedgerInv, AccountingClosed
    <3> QED
      BY <3>1, <3>2
  <2>2. /\ stats'.seen = stats'.admitted + stats'.rejected
        /\ stats'.admitted = stats'.retained + stats'.dropped
        /\ stats'.retained = Cardinality(Slots')
        /\ stats'.admitted = Len(heard')
    <3> DEFINE full == Len(ItemsOf(e.scope)) >= MaxEvidencePerScope
    <3>1. /\ stats.seen = stats.admitted + stats.rejected
          /\ stats.admitted = stats.retained + stats.dropped
          /\ stats.retained = Cardinality(Slots)
          /\ stats.admitted = Len(heard)
      BY DEF LedgerInv, AccountingClosed
    <3>2. /\ stats \in Stats /\ stats' \in Stats
          /\ stats'.seen = stats.seen + 1 /\ stats'.admitted = stats.admitted + 1
          /\ stats'.rejected = stats.rejected
          /\ stats'.retained = IF full THEN stats.retained ELSE stats.retained + 1
          /\ stats'.dropped = IF full THEN stats.dropped + 1 ELSE stats.dropped
      BY AcceptCounted
    <3>3. Cardinality(Slots') = IF full THEN Cardinality(Slots) ELSE Cardinality(Slots) + 1
      BY AcceptSlots
    <3>4. Len(heard') = Len(heard) + 1
      BY AcceptHeard
    <3>5. /\ stats.seen \in Nat /\ stats.admitted \in Nat /\ stats.rejected \in Nat
          /\ stats.retained \in Nat /\ stats.dropped \in Nat
      BY <3>2 DEF Stats
    <3> HIDE DEF full
    <3>6. stats'.seen = stats'.admitted + stats'.rejected
      <4>1. /\ stats'.seen = stats.seen + 1 /\ stats'.admitted = stats.admitted + 1
            /\ stats'.rejected = stats.rejected /\ stats.seen = stats.admitted + stats.rejected
        BY <3>1, <3>2
      <4> QED
        BY <4>1, <3>5
    <3>7. stats'.admitted = stats'.retained + stats'.dropped
      BY <3>1, <3>2, <3>5
    <3>8. stats'.retained = Cardinality(Slots')
      BY <3>1, <3>2, <3>3
    <3>9. stats'.admitted = Len(heard')
      BY <3>1, <3>2, <3>4
    <3> QED
      BY <3>6, <3>7, <3>8, <3>9
  <2> QED
    BY <2>1, <2>2 DEF AccountingClosed
<1> QED
  BY <1>1, <1>2, <1>3

(* The heart of the argument: an observation that passes the cursor uses its number
   for the first time in this lap, and one that wraps begins a new lap. *)
LEMMA AcceptKeepsLaps ==
  ASSUME LedgerInv, NEW e \in Observations, Accept(e)
  PROVE  LapsCounted'
<1> SUFFICES ASSUME NEW s \in DOMAIN cursors', NEW c \in DOMAIN cursors'[s]
             PROVE  /\ cursors'[s][c].rollovers <= MaxRollovers
                    /\ cursors'[s][c].rollovers = Cardinality(Wraps(s, c)')
                    /\ \A q \in Nat :
                         /\ Cardinality(Numbered(s, c, q)') <= cursors'[s][c].rollovers + 1
                         /\ q > cursors'[s][c].last_seq =>
                              Cardinality(Numbered(s, c, q)') <= cursors'[s][c].rollovers
  BY DEF LapsCounted
<1> DEFINE N == Len(heard) + 1
           old == CursorOf(e)
           new == Advanced(old, e)
<1>1. CASE ~(s = e.scope /\ c = e.source)
  <2>1. s \in DOMAIN cursors /\ c \in DOMAIN cursors[s] /\ cursors'[s][c] = cursors[s][c]
    BY <1>1, CursorsAfter
  <2>2. Wraps(s, c)' = Wraps(s, c)
    BY <1>1, WrapsOfOthers
  <2>3. \A q : Numbered(s, c, q)' = Numbered(s, c, q)
    <3> SUFFICES ASSUME NEW q PROVE Numbered(s, c, q)' = Numbered(s, c, q)
      OBVIOUS
    <3>1. \A m \in Mine(s, c) : heard'[m] = heard[m]
      BY AcceptMine, AcceptHeard
    <3> QED
      BY <1>1, <3>1, AcceptMine DEF Numbered
  <2> QED
    BY <2>1, <2>2, <2>3 DEF LedgerInv, LapsCounted
<1>2. CASE s = e.scope /\ c = e.source
  <2>1. cursors'[s][c] = new
    BY <1>2, CursorsAfter
  <2>2. old \in Cursor /\ e.seq \in Nat /\ MaxRollovers \in Nat
    BY MetCursor, ObservationFields, LedgerAssumption
  <2>3. /\ new \in Cursor /\ new.last_seq = e.seq
        /\ new.rollovers = IF old.accepted > 0 /\ e.seq < old.last_seq
                           THEN old.rollovers + 1 ELSE old.rollovers
    BY <2>2, AdvancedCursor
  <2>4. Mine(s, c) \subseteq 1..Len(heard) /\ IsFiniteSet(Mine(s, c)) /\ N \notin Mine(s, c)
    <3>1. Mine(s, c) \subseteq 1..Len(heard) /\ IsFiniteSet(1..Len(heard))
      BY AcceptMine, AcceptHeard, FS_Interval
    <3> QED
      BY <3>1, FS_Subset, AcceptHeard
  <2>5. \A q : /\ IsFiniteSet(Numbered(s, c, q)) /\ N \notin Numbered(s, c, q)
               /\ Cardinality(Numbered(s, c, q)) \in Nat
    <3>1. \A q : Numbered(s, c, q) \subseteq Mine(s, c)
      BY DEF Numbered
    <3> QED
      BY <3>1, <2>4, FS_Subset, FS_CardinalityType
  <2>6. \A q : Cardinality(Numbered(s, c, q)') =
                 IF q = e.seq THEN Cardinality(Numbered(s, c, q)) + 1
                 ELSE Cardinality(Numbered(s, c, q))
    <3>1. \A q : Numbered(s, c, q)' = IF q = e.seq THEN Numbered(s, c, q) \cup {N}
                                      ELSE Numbered(s, c, q)
      BY <1>2, AcceptMine
    <3> QED
      BY <3>1, <2>5, FS_AddElement
  <2>7. CASE e.source \notin DOMAIN CursorsOf(e.scope)
    <3>1. old = NewCursor /\ Mine(s, c) = {}
      BY <2>7, <1>2, MetCursor DEF CursorsOf
    <3>2. new.rollovers = 0
      BY <3>1, <2>3 DEF NewCursor
    <3>3. Wraps(s, c)' = {}
      BY <1>2, <3>1, WrapsOfFirst
    <3>4. \A q : Numbered(s, c, q) = {}
      BY <3>1 DEF Numbered
    <3>5. \A q : Cardinality(Numbered(s, c, q)') = IF q = e.seq THEN 1 ELSE 0
      BY <3>4, <2>6, FS_EmptySet
    <3>6. Cardinality(Wraps(s, c)') = 0
      BY <3>3, FS_EmptySet
    <3> QED
      BY <2>1, <2>2, <2>3, <3>2, <3>5, <3>6
  <2>8. CASE e.source \in DOMAIN CursorsOf(e.scope)
    <3>1. /\ s \in DOMAIN cursors /\ c \in DOMAIN cursors[s] /\ old = cursors[s][c]
          /\ old.accepted > 0 /\ e.seq # old.last_seq
          /\ e.seq < old.last_seq => old.rollovers < MaxRollovers
      BY <2>8, <1>2, MetCursor
    <3> HIDE DEF old, new
    <3>2. /\ old.rollovers <= MaxRollovers
          /\ old.rollovers = Cardinality(Wraps(s, c))
          /\ \A q \in Nat :
               /\ Cardinality(Numbered(s, c, q)) <= old.rollovers + 1
               /\ q > old.last_seq => Cardinality(Numbered(s, c, q)) <= old.rollovers
      BY <3>1 DEF LedgerInv, LapsCounted
    <3>3. PICK last \in Mine(s, c) : /\ \A m \in Mine(s, c) : m <= last
                                     /\ heard[last].seq = old.last_seq
      BY <3>1 DEF LedgerInv, CursorAtLast
    <3>4. Wraps(s, c)' = IF e.seq < old.last_seq THEN Wraps(s, c) \cup {N} ELSE Wraps(s, c)
      BY <3>3, <1>2, WrapsOfNext
    <3>5. IsFiniteSet(Wraps(s, c)) /\ N \notin Wraps(s, c) /\ Cardinality(Wraps(s, c)) \in Nat
      <4>1. Wraps(s, c) \subseteq Mine(s, c)
        BY DEF Wraps
      <4> QED
        BY <4>1, <2>4, FS_Subset, FS_CardinalityType
    <3>6. Cardinality(Wraps(s, c)') = IF e.seq < old.last_seq THEN Cardinality(Wraps(s, c)) + 1
                                      ELSE Cardinality(Wraps(s, c))
      BY <3>4, <3>5, FS_AddElement
    <3>7. /\ old.rollovers \in Nat /\ old.last_seq \in Nat
          /\ new.rollovers = IF e.seq < old.last_seq THEN old.rollovers + 1 ELSE old.rollovers
      BY <2>2, <2>3, <3>1 DEF Cursor
    <3>8. new.rollovers <= MaxRollovers /\ new.rollovers = Cardinality(Wraps(s, c)')
      BY <2>2, <3>1, <3>2, <3>6, <3>7
    <3>9. ASSUME NEW q \in Nat
          PROVE  /\ Cardinality(Numbered(s, c, q)') <= new.rollovers + 1
                 /\ q > e.seq => Cardinality(Numbered(s, c, q)') <= new.rollovers
      <4>1. /\ Cardinality(Numbered(s, c, q)) <= old.rollovers + 1
            /\ q > old.last_seq => Cardinality(Numbered(s, c, q)) <= old.rollovers
            /\ Cardinality(Numbered(s, c, q)) \in Nat
        BY <3>2, <2>5
      <4>2. Cardinality(Numbered(s, c, q)') =
              IF q = e.seq THEN Cardinality(Numbered(s, c, q)) + 1
              ELSE Cardinality(Numbered(s, c, q))
        BY <2>6
      <4> QED
        BY <4>1, <4>2, <2>2, <3>1, <3>7
    <3> QED
      BY <2>1, <2>3, <3>8, <3>9
  <2> QED
    BY <2>7, <2>8
<1> QED
  BY <1>1, <1>2

(* A step that leaves the ledger alone. *)
LEMMA IdleKeeps ==
  ASSUME LedgerInv, UNCHANGED <<items, cursors, stats, heard>>
  PROVE  LedgerInv'
<1>1. Slots' = Slots
  BY TablesKept
<1>2. /\ \A s, c : Mine(s, c)' = Mine(s, c) /\ Wraps(s, c)' = Wraps(s, c)
      /\ \A s, c, q : Numbered(s, c, q)' = Numbered(s, c, q)
  BY TablesKept
<1>3. RetainedWasHeard' /\ HeardIsRetained'
  BY TablesKept
<1>4. LedgerType' /\ AccountingClosed'
  BY <1>1 DEF LedgerInv, LedgerType, AccountingClosed
<1>5. Unheard'
  BY <1>2 DEF LedgerInv, Unheard, CursorsOf
<1>6. CursorAtLast'
  BY <1>2 DEF LedgerInv, CursorAtLast
<1>7. LapsCounted'
  BY <1>2 DEF LedgerInv, LapsCounted
<1> QED
  BY <1>3, <1>4, <1>5, <1>6, <1>7 DEF LedgerInv

(* The invariant holds in every state of the ledger. *)
LEMMA LedgerInvariance == Spec => []LedgerInv
<1>1. Init => LedgerInv
  BY EmptyLedger DEF Init
<1>2. LedgerInv /\ [Next]_vars => LedgerInv'
  <2> SUFFICES ASSUME LedgerInv, [Next]_vars PROVE LedgerInv'
    OBVIOUS
  <2>1. CASE \E e \in Observations : Admit(e)
    <3>1. PICK e \in Observations : Refuse(e) \/ RefuseOutOfOrder(e) \/ Accept(e)
      BY <2>1 DEF Admit
    <3>2. Accept(e) => LedgerInv'
      BY AcceptKeepsTables, AcceptKeepsCursors, AcceptKeepsLaps DEF LedgerInv
    <3> QED
      BY <3>1, <3>2, RefuseKeeps, RefuseOutOfOrderKeeps
  <2>2. CASE Reset
    BY <2>2, EmptyLedgerAfter
  <2>3. CASE \E t \in 1..MaxTime : SetClock(t)
    BY <2>3, IdleKeeps DEF SetClock
  <2>4. CASE UNCHANGED vars
    BY <2>4, IdleKeeps DEF vars
  <2> QED
    BY <2>1, <2>2, <2>3, <2>4 DEF Next
<1> QED
  BY <1>1, <1>2, PTL DEF Spec

(* The counters of the ledger and of every cursor close, and agree with the tables,
   in every state (accounting_closed() in evidence/ledger.hpp). *)
THEOREM LedgerAccounts == Spec => []AccountingClosed
<1>1. LedgerInv => AccountingClosed
  BY DEF LedgerInv
<1> QED
  BY <1>1, LedgerInvariance, PTL

(* No sequence number of a source is admitted twice in a lap of its counter, and a
   source has at most MaxRollovers laps (EvidenceLedger::admit). *)
THEOREM ReplaysRefused == Spec => []NoReplay
<1>1. LedgerInv => NoReplay
  <2> SUFFICES ASSUME LedgerInv, NEW s \in DOMAIN cursors, NEW c \in DOMAIN cursors[s]
               PROVE  LET laps == cursors[s][c].rollovers
                      IN /\ laps <= MaxRollovers
                         /\ laps = Cardinality(Wraps(s, c))
                         /\ \A q \in {heard[n].seq : n \in Mine(s, c)} :
                              Cardinality(Numbered(s, c, q)) <= laps + 1
    BY DEF NoReplay
  <2>1. \A n \in Mine(s, c) : heard[n].seq \in Nat
    <3>1. \A n \in Mine(s, c) : heard[n] \in Observations
      BY ElementOfSeq DEF LedgerInv, LedgerType, Mine
    <3> QED
      BY <3>1, ObservationFields
  <2> QED
    BY <2>1 DEF LedgerInv, LapsCounted
<1> QED
  BY <1>1, LedgerInvariance, PTL

(* Only the oldest observation of a full scope is ever evicted
   (EvidenceLedger::evict_oldest). *)
THEOREM EvictionInOrder == Spec => OldestEvicted
<1> DEFINE A == \A s \in DOMAIN items \cap DOMAIN items' : \A n \in 1..Len(items[s]) :
                  items[s][n] \notin {items'[s][m] : m \in 1..Len(items'[s])} =>
                    /\ Len(items[s]) = MaxEvidencePerScope
                    /\ \A m \in 1..Len(items[s]) : ~Older(items[s][m], items[s][n])
<1>1. LedgerInv /\ [Next]_vars => [A]_vars
  <2> SUFFICES ASSUME LedgerInv, Next,
                      NEW s \in DOMAIN items \cap DOMAIN items', NEW n \in 1..Len(items[s]),
                      items[s][n] \notin {items'[s][m] : m \in 1..Len(items'[s])}
               PROVE  /\ Len(items[s]) = MaxEvidencePerScope
                      /\ \A m \in 1..Len(items[s]) : ~Older(items[s][m], items[s][n])
    OBVIOUS
  <2>1. items' # items
    OBVIOUS
  <2>2. PICK e \in Observations : Accept(e)
    <3>1. ~Reset
      BY DEF Reset
    <3> QED
      BY <2>1, <3>1 DEF Next, Admit, Refuse, RefuseOutOfOrder, SetClock
  <2> DEFINE its == ItemsOf(e.scope)
             new == items'[e.scope]
             full == Len(its) >= MaxEvidencePerScope
  <2>3. /\ \A r \in DOMAIN items \ {e.scope} : items'[r] = items[r]
        /\ its \in Seq(Observations) /\ Len(its) <= MaxEvidencePerScope
        /\ new \in Seq(Observations)
        /\ Len(new) = IF full THEN Len(its) ELSE Len(its) + 1
        /\ full => /\ Victim(its) \in 1..Len(its)
                   /\ \A m \in 1..Len(its) : ~Older(its[m], its[Victim(its)])
                   /\ \A m \in 1..(Len(its) - 1) :
                        new[m] = IF m < Victim(its) THEN its[m] ELSE its[m + 1]
        /\ ~full => \A m \in 1..Len(its) : new[m] = its[m]
    BY <2>2, AcceptItems
  <2>4. s = e.scope
    <3> SUFFICES ASSUME s # e.scope PROVE FALSE
      OBVIOUS
    <3>1. items'[s] = items[s]
      BY <2>3
    <3> QED
      BY <3>1
  <2>5. its = items[e.scope]
    BY <2>4 DEF ItemsOf
  <2>6. n \in 1..Len(its) /\ \A m \in 1..Len(new) : its[n] # new[m]
    BY <2>4, <2>5
  <2>7. MaxEvidencePerScope \in Nat \ {0}
    BY LedgerAssumption
  <2> HIDE DEF its, new
  <2>8. Len(its) \in Nat /\ Len(new) \in Nat
    BY <2>3
  <2>9. full
    BY <2>3, <2>6, <2>8
  <2>10. Len(its) = MaxEvidencePerScope
    BY <2>3, <2>7, <2>8, <2>9
  <2>11. n = Victim(its)
    <3>1. n < Victim(its) => n \in 1..(Len(its) - 1) /\ n \in 1..Len(new) /\ new[n] = its[n]
      BY <2>3, <2>6, <2>8, <2>9
    <3>2. n > Victim(its) => /\ n - 1 \in 1..(Len(its) - 1) /\ n - 1 \in 1..Len(new)
                             /\ new[n - 1] = its[n]
      BY <2>3, <2>6, <2>8, <2>9
    <3>3. n \in Int /\ Victim(its) \in Int
      BY <2>3, <2>6, <2>9
    <3> QED
      BY <2>6, <3>1, <3>2, <3>3
  <2> QED
    BY <2>4, <2>5, <2>3, <2>9, <2>10, <2>11 DEF its
<1> QED
  BY <1>1, LedgerInvariance, PTL DEF Spec, OldestEvicted
-----------------------------------------------------------------------------
(* The image of a finite set under a function is finite. *)
LEMMA FiniteImage ==
  ASSUME NEW S, IsFiniteSet(S), NEW f
  PROVE  IsFiniteSet({f[x] : x \in S})
<1> DEFINE T == {f[x] : x \in S}
           g == [x \in S |-> f[x]]
<1>1. g \in Surjection(S, T)
  BY DEF Surjection
<1> QED
  BY <1>1, FS_Surjection

(* So are the observations at finitely many positions, their sources, and the
   incarnations of those. *)
LEMMA FiniteSources ==
  ASSUME NEW E, IsFiniteSet(E)
  PROVE  IsFiniteSet({e.source : e \in E}) /\ IsFiniteSet({e.source.inc : e \in E})
<1> DEFINE f == [e \in E |-> e.source]
           h == [e \in E |-> e.source.inc]
<1>1. {e.source : e \in E} = {f[e] : e \in E} /\ {e.source.inc : e \in E} = {h[e] : e \in E}
  OBVIOUS
<1>2. IsFiniteSet({f[e] : e \in E})
  <2> HIDE DEF f
  <2> QED
    BY FiniteImage
<1>3. IsFiniteSet({h[e] : e \in E})
  <2> HIDE DEF h
  <2> QED
    BY FiniteImage
<1> HIDE DEF f, h
<1> QED
  BY <1>1, <1>2, <1>3, Zenon

LEMMA FiniteHeard ==
  ASSUME LedgerInv, NEW s
  PROVE  /\ IsFiniteSet(HeardOf(s))
         /\ IsFiniteSet({ItemsOf(s)[n] : n \in 1..Len(ItemsOf(s))})
<1>1. heard \in Seq(Observations) /\ ItemsOf(s) \in Seq(Observations)
  BY DEF LedgerInv, LedgerType, ItemsOf
<1>2. IsFiniteSet(1..Len(heard)) /\ IsFiniteSet(1..Len(ItemsOf(s)))
  <2>1. Len(heard) \in Nat /\ Len(ItemsOf(s)) \in Nat
    BY <1>1
  <2> QED
    BY <2>1, FS_Interval
<1>3. IsFiniteSet({m \in 1..Len(heard) : heard[m].scope = s})
  BY <1>2, FS_Subset
<1> QED
  BY <1>2, <1>3, FiniteImage DEF HeardOf

(* What a scope retains, as a set, was heard and is well formed. *)
LEMMA RetainedOf ==
  ASSUME LedgerInv, NEW s
  PROVE  \A n \in DOMAIN ItemsOf(s) :
           /\ n \in 1..Len(ItemsOf(s))
           /\ ItemsOf(s)[n] \in HeardOf(s) /\ StructurallyValid(ItemsOf(s)[n])
<1>1. ItemsOf(s) \in Seq(Observations)
  BY DEF LedgerInv, LedgerType, ItemsOf
<1>2. DOMAIN ItemsOf(s) = 1..Len(ItemsOf(s))
  BY <1>1
<1>3. CASE s \in DOMAIN items
  BY <1>2, <1>3 DEF LedgerInv, RetainedWasHeard, ItemsOf
<1>4. CASE s \notin DOMAIN items
  <2>1. 1..Len(ItemsOf(s)) = {}
    BY <1>4 DEF ItemsOf
  <2> QED
    BY <1>2, <2>1
<1> QED
  BY <1>3, <1>4

(* Where no source restarted, there are as many ids as instances. *)
LEMMA IdsOfInstances ==
  ASSUME NEW obs, IsFiniteSet({e.source : e \in obs}), ~RestartedSource(obs)
  PROVE  Cardinality({e.source.id : e \in obs}) = Cardinality({e.source : e \in obs})
<1> DEFINE S == {e.source : e \in obs}
           D == {e.source.id : e \in obs}
           f == [x \in S |-> x.id]
<1>1. f \in [S -> D]
  OBVIOUS
<1>2. \A x, y \in S : f[x] = f[y] => x = y
  BY DEF RestartedSource
<1>3. \A z \in D : \E x \in S : f[x] = z
  OBVIOUS
<1>4. ExistsBijection(S, D)
  <2> HIDE DEF S, D, f
  <2> QED
    BY <1>1, <1>2, <1>3 DEF ExistsBijection, Bijection, Injection, Surjection, IsInjective
<1> HIDE DEF S, D
<1>5. IsFiniteSet(S)
  BY DEF S
<1>6. Cardinality(D) = Cardinality(S)
  BY <1>4, <1>5, FS_Bijection
<1> QED
  BY <1>6 DEF S, D

(* README section 3.4: whatever was evicted since, a corroborated blackhole rests on
   failures that enough source instances and incarnations really sent; and enough
   source ids, unless classify() counted a source that restarted twice. *)
THEOREM QuorumsAreHeard == Spec => []QuorumHeard
<1>1. LedgerInv => QuorumHeard
  <2> SUFFICES ASSUME LedgerInv, NEW s \in Scopes, NEW g \in Gens, Fenceable(s, g)
               PROVE  LET failing == {e \in HeardOf(s) : /\ e.kind = "Delivery" /\ IsComplete(e)
                                                         /\ e.gens = g /\ FreshAt(e, clock)}
                      IN /\ Cardinality({e.source : e \in failing}) >= MinSources
                         /\ Cardinality({e.source.inc : e \in failing}) >= MinIncarnations
                         /\ \/ Cardinality({e.source.id : e \in failing}) >= MinSources
                            \/ RestartedSource(failing)
    BY DEF QuorumHeard
  <2> DEFINE failing == {e \in HeardOf(s) : /\ e.kind = "Delivery" /\ IsComplete(e)
                                            /\ e.gens = g /\ FreshAt(e, clock)}
             ev == ItemsOf(s)
             P == CompleteFailures(ev, clock, g)
             S == {e.source : e \in failing}
             I == {e.source.inc : e \in failing}
  <2>1. /\ Cardinality(SourcesOf(ev, P)) >= MinSources
        /\ Cardinality(IncarnationsOf(ev, P)) >= MinIncarnations
    BY DEF Fenceable, Corroborated
  <2>2. \A n \in P : ev[n] \in failing
    BY RetainedOf DEF CompleteFailures, OfKind, Usable
  <2>3. IsFiniteSet(S) /\ IsFiniteSet(I)
    <3>1. IsFiniteSet(failing)
      BY FiniteHeard, FS_Subset
    <3> HIDE DEF failing
    <3> QED
      BY <3>1, FiniteSources
  <2> HIDE DEF P, failing
  <2>4. SourcesOf(ev, P) \subseteq S /\ IncarnationsOf(ev, P) \subseteq I
    BY <2>2 DEF SourcesOf, IncarnationsOf
  <2> HIDE DEF S, I
  <2>5. /\ Cardinality(SourcesOf(ev, P)) <= Cardinality(S)
        /\ Cardinality(IncarnationsOf(ev, P)) <= Cardinality(I)
        /\ Cardinality(SourcesOf(ev, P)) \in Nat /\ Cardinality(S) \in Nat
        /\ Cardinality(IncarnationsOf(ev, P)) \in Nat /\ Cardinality(I) \in Nat
    BY <2>3, <2>4, FS_Subset, FS_CardinalityType
  <2>6. Cardinality(S) >= MinSources /\ Cardinality(I) >= MinIncarnations
    BY <2>1, <2>5, PolicyAssumption DEF ValidPolicy
  <2>7. Cardinality({e.source.id : e \in failing}) >= MinSources \/ RestartedSource(failing)
    BY <2>3, <2>6, IdsOfInstances DEF S
  <2> QED
    BY <2>6, <2>7 DEF S, I, failing
<1> QED
  BY <1>1, LedgerInvariance, PTL

(* A restorable scope is healthy: no failure, no partition, no congestion among the
   usable evidence. *)
LEMMA HealthyRule ==
  ASSUME NEW ev, NEW now, NEW g, Restorable(ev, now, g)
  PROVE  /\ CompleteFailures(ev, now, g) = {}
         /\ OfKind(ev, now, g, "Partition") = {}
         /\ OfKind(ev, now, g, "Congestion") = {}
<1>1. Classify(ev, now, g).class = "Healthy"
  BY ResultClass DEF Restorable
<1>2. CleanSuccesses(ev, now, g) # {}
  BY RestorableHasSuccess
<1> QED
  BY <1>1, <1>2, Zenon DEF Classify, Result

(* README section 3.7: a restoration rests on fresh clean deliveries of enough sources,
   and nothing retained stands against it (evaluate_restoration()). *)
THEOREM RestorationsArePositive == Spec => []RestorationPositive
<1>1. LedgerInv => RestorationPositive
  <2> SUFFICES ASSUME LedgerInv, NEW s \in Scopes, NEW g \in Gens, Restored(s, g)
               PROVE  LET its == {ItemsOf(s)[n] : n \in 1..Len(ItemsOf(s))}
                          now == {e \in its : e.gens = g /\ FreshAt(e, clock)
                                              /\ (e.exact \/ ~RequireExact)}
                          delivered == {e \in now : e.kind = "Delivery" /\ IsClean(e)}
                      IN /\ Cardinality({e.source : e \in delivered}) >= RestoreSources
                         /\ \A e \in now : /\ ~(e.kind = "Delivery" /\ IsComplete(e))
                                           /\ e.kind \notin {"Partition", "Congestion"}
    BY DEF RestorationPositive
  <2> DEFINE ev == ItemsOf(s)
             its == {ev[n] : n \in 1..Len(ev)}
             now == {e \in its : e.gens = g /\ FreshAt(e, clock) /\ (e.exact \/ ~RequireExact)}
             delivered == {e \in now : e.kind = "Delivery" /\ IsClean(e)}
             P == CleanSuccesses(ev, clock, g)
             S == {e.source : e \in delivered}
  <2>1. Cardinality(SourcesOf(ev, P)) >= RestoreSources
    BY DEF Restored, Restorable
  <2>2. \A n \in P : ev[n] \in delivered
    BY RetainedOf DEF CleanSuccesses, OfKind, Usable
  <2>3. IsFiniteSet(S)
    <3>1. IsFiniteSet(its)
      BY FiniteHeard
    <3>2. IsFiniteSet(delivered)
      BY <3>1, FS_Subset
    <3> HIDE DEF delivered
    <3> QED
      BY <3>2, FiniteSources
  <2>4. \A e \in now : /\ ~(e.kind = "Delivery" /\ IsComplete(e))
                       /\ e.kind \notin {"Partition", "Congestion"}
    <3> SUFFICES ASSUME NEW n \in 1..Len(ev), ev[n] \in now
                 PROVE  /\ ~(ev[n].kind = "Delivery" /\ IsComplete(ev[n]))
                        /\ ev[n].kind \notin {"Partition", "Congestion"}
      OBVIOUS
    <3>1. n \in Usable(ev, clock, g)
      <4>1. ev \in Seq(Observations)
        BY DEF LedgerInv, LedgerType, ItemsOf
      <4>2. n \in DOMAIN ev
        BY <4>1
      <4> QED
        BY <4>2, RetainedOf DEF Usable
    <3> QED
      BY <3>1, HealthyRule DEF Restored, CompleteFailures, OfKind
  <2> HIDE DEF P, delivered
  <2>5. SourcesOf(ev, P) \subseteq S
    BY <2>2 DEF SourcesOf
  <2> HIDE DEF S
  <2>6. /\ Cardinality(SourcesOf(ev, P)) <= Cardinality(S)
        /\ Cardinality(SourcesOf(ev, P)) \in Nat /\ Cardinality(S) \in Nat
    BY <2>3, <2>5, FS_Subset, FS_CardinalityType
  <2>7. Cardinality(S) >= RestoreSources
    BY <2>1, <2>6, PolicyAssumption DEF ValidPolicy
  <2> QED
    BY <2>4, <2>7 DEF S, delivered
<1> QED
  BY <1>1, LedgerInvariance, PTL

(* README section 3.1: while nothing was evicted, a fresh clean success once heard
   stands against a blackhole, whatever came after it. *)
THEOREM ContradictionsAreKept == Spec => []ContradictionKept
<1>1. LedgerInv => ContradictionKept
  <2> SUFFICES ASSUME LedgerInv, stats.dropped = 0, NEW s \in Scopes, NEW g \in Gens,
                      NEW e \in HeardOf(s),
                      e.kind = "Delivery" /\ e.exact /\ e.gens = g /\ IsClean(e),
                      FreshAt(e, clock)
               PROVE  Verdict(s, g).class # "Blackhole"
    BY DEF ContradictionKept, Contradicted
  <2>1. PICK m \in 1..Len(heard) : heard[m].scope = s /\ e = heard[m]
    BY DEF HeardOf
  <2>2. PICK n \in 1..Len(ItemsOf(s)) : ItemsOf(s)[n] = e
    BY <2>1 DEF LedgerInv, HeardIsRetained, ItemsOf
  <2>3. n \in DOMAIN ItemsOf(s)
    <3>1. ItemsOf(s) \in Seq(Observations)
      BY DEF LedgerInv, LedgerType, ItemsOf
    <3> QED
      BY <2>2, <3>1
  <2>4. n \in CleanSuccesses(ItemsOf(s), clock, g)
    BY <2>2, <2>3, RetainedOf DEF CleanSuccesses, OfKind, Usable
  <2> QED
    BY <2>4, BlackholeRule DEF Verdict
<1> QED
  BY <1>1, LedgerInvariance, PTL
=============================================================================
