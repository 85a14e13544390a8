---------------------------- MODULE StoreProofs ----------------------------
(***************************************************************************)
(* What the durable store guarantees for every history of appends, crashes,*)
(* opens and checkpoints.  The argument has four layers:                   *)
(*                                                                         *)
(*   the scan: whatever a journal holds, scan_journal() replays a prefix   *)
(*     of it and stops for one of four reasons (ScanEnds).  `Replays' says *)
(*     that the first b records lead from one state to another, `Accepts'  *)
(*     that a scan would answer Ok after c records;                        *)
(*   EpochInv: every epoch that served has a whole boot record in the      *)
(*     journal or is below the snapshot's, whatever the platform does;     *)
(*   StoreInv: what any process would accept from the disk (`DiskState')   *)
(*     agrees with what open() and the serving store hold in memory;       *)
(*   WholeInv, KeptInv and CleanInv: what more is true when short writes   *)
(*     are not survived, and when the crash is the only failure.           *)
(***************************************************************************)
EXTENDS Store, FiniteSetTheorems, SequenceTheorems, WellFoundedInduction, TLAPS

(* The types, and the items of the journal: zeroed, whole, or else cut short. *)
DurableState ==
  [epoch : Nat, policy : Policies \cup {"none"}, fences : SUBSET FenceState, decisions : Nat,
   interruptions : Nat, seen : Nat, dropped : Nat, kept : Nat]

Record ==
  {BootRecord(e) : e \in Nat} \cup {PolicyRecord(p) : p \in Policies}
    \cup {DecisionRecord, InterruptionRecord, ZeroRecord}
    \cup {FenceRecord(f) : f \in FenceState} \cup {CheckpointRecord(n) : n \in Nat}

ItemType ==
  {e \in [seq : Nat, rec : Record, have : Nat, need : Nat \ {0}] : e.have <= e.need}

Zero(e) == e.rec = ZeroRecord

Whole(e) == ~Zero(e) /\ e.have = e.need

-----------------------------------------------------------------------------
(* The induction principle of the proofs below. *)
LEMMA LeastNatural ==
  ASSUME NEW S, S \subseteq Nat, S # {}
  PROVE  \E m \in S : \A n \in S : m <= n
<1> DEFINE T == {0..n : n \in S}
<1>1. T \subseteq FiniteSubsetsOf(Nat)
  <2>1. \A n \in S : 0..n \in SUBSET Nat /\ IsFiniteSet(0..n)
    BY FS_Interval
  <2> QED
    BY <2>1 DEF FiniteSubsetsOf
<1>2. T # {}
  OBVIOUS
<1>3. PICK x \in T : \A y \in T : ~(<<y, x>> \in StrictSubsetOrdering(Nat))
  <2> HIDE DEF T
  <2>1. IsWellFoundedOn(StrictSubsetOrdering(Nat), FiniteSubsetsOf(Nat))
    BY FS_StrictSubsetOrderingWellFounded
  <2> QED
    BY <2>1, <1>1, <1>2, WFMin
<1>4. PICK m \in S : x = 0..m
  BY <1>3
<1>5. ASSUME NEW n \in S, n < m PROVE FALSE
  <2>1. 0..n \subseteq 0..m /\ 0..n # 0..m /\ 0..n \in SUBSET Nat /\ 0..m \in SUBSET Nat
    <3>1. m \in 0..m /\ m \notin 0..n
      BY <1>5
    <3> QED
      BY <3>1, <1>5
  <2>2. <<0..n, 0..m>> \in StrictSubsetOrdering(Nat)
    BY <2>1 DEF StrictSubsetOrdering
  <2> QED
    BY <2>2, <1>3, <1>4
<1> QED
  BY <1>5

(* A set of numbers that holds 0 and with m - 1 also m holds all up to L. *)
LEMMA Induction ==
  ASSUME NEW L \in Nat, NEW S, 0 \in S, \A m \in 1..L : m - 1 \in S => m \in S
  PROVE  \A m \in 0..L : m \in S
<1> SUFFICES ASSUME NEW x \in 0..L, x \notin S PROVE FALSE
  OBVIOUS
<1> DEFINE B == {m \in 0..L : m \notin S}
<1>1. PICK m \in B : \A n \in B : m <= n
  <2>1. B \subseteq Nat /\ B # {}
    OBVIOUS
  <2> HIDE DEF B
  <2> QED
    BY <2>1, LeastNatural
<1>2. m \in 1..L /\ m - 1 \in 0..L /\ ~(m <= m - 1)
  OBVIOUS
<1>3. m - 1 \in S
  BY <1>1, <1>2
<1> QED
  BY <1>2, <1>3

-----------------------------------------------------------------------------
(* Bytes(j): the recursive function it is defined with exists. *)
Sums(j) == CHOOSE f : f = [n \in 0..Len(j) |-> IF n = 0 THEN 0 ELSE f[n - 1] + j[n].have]

LEMMA SumsExist ==
  ASSUME NEW j \in Seq(ItemType)
  PROVE  Sums(j) = [n \in 0..Len(j) |-> IF n = 0 THEN 0 ELSE Sums(j)[n - 1] + j[n].have]
<1> DEFINE Good(m) == \E f : f = [n \in 0..m |-> IF n = 0 THEN 0 ELSE f[n - 1] + j[n].have]
           S == {m \in 0..Len(j) : Good(m)}
<1>1. 0 \in S
  <2> DEFINE f == [n \in 0..0 |-> 0]
  <2>1. f = [n \in 0..0 |-> IF n = 0 THEN 0 ELSE f[n - 1] + j[n].have]
    OBVIOUS
  <2> HIDE DEF f
  <2>2. Good(0)
    BY <2>1
  <2> QED
    BY <2>2
<1>2. ASSUME NEW m \in 1..Len(j), m - 1 \in S PROVE m \in S
  <2>1. PICK f : f = [n \in 0..(m - 1) |-> IF n = 0 THEN 0 ELSE f[n - 1] + j[n].have]
    BY <1>2
  <2> DEFINE g == [n \in 0..m |-> IF n = m THEN f[m - 1] + j[m].have ELSE f[n]]
  <2>2. \A n \in 0..m : g[n] = IF n = 0 THEN 0 ELSE g[n - 1] + j[n].have
    <3> SUFFICES ASSUME NEW n \in 0..m
                 PROVE  g[n] = IF n = 0 THEN 0 ELSE g[n - 1] + j[n].have
      OBVIOUS
    <3>1. CASE n = m
      <4>1. n - 1 \in 0..m /\ n - 1 # m /\ n # 0
        BY <3>1
      <4> QED
        BY <3>1, <4>1
    <3>2. CASE n # m /\ n # 0
      <4>1. n - 1 \in 0..m /\ n - 1 # m /\ n \in 0..(m - 1) /\ n # 0
        BY <3>2
      <4>2. f[n] = f[n - 1] + j[n].have
        BY <2>1, <4>1
      <4> QED
        BY <3>2, <4>1, <4>2
    <3>3. CASE n = 0 /\ n # m
      <4>1. n \in 0..(m - 1)
        BY <3>3
      <4> QED
        BY <2>1, <3>3, <4>1
    <3> QED
      BY <3>1, <3>2, <3>3
  <2>3. g = [n \in 0..m |-> IF n = 0 THEN 0 ELSE g[n - 1] + j[n].have]
    BY <2>2
  <2> HIDE DEF g
  <2>4. Good(m)
    BY <2>3
  <2> QED
    BY <2>4
<1>3. Len(j) \in S
  <2> HIDE DEF S
  <2>1. PICK L \in Nat : L = Len(j)
    OBVIOUS
  <2>2. \A m \in 1..L : m - 1 \in S => m \in S
    BY <1>2, <2>1
  <2>3. \A m \in 0..L : m \in S
    BY <1>1, <2>2, Induction
  <2> QED
    BY <2>1, <2>3
<1>4. \E f : f = [n \in 0..Len(j) |-> IF n = 0 THEN 0 ELSE f[n - 1] + j[n].have]
  BY <1>3
<1> QED
  BY <1>4 DEF Sums

LEMMA BytesSums ==
  ASSUME NEW j \in Seq(ItemType)
  PROVE  \E f \in [0..Len(j) -> Nat] :
           /\ f[0] = 0
           /\ \A n \in 1..Len(j) : f[n] = f[n - 1] + j[n].have
           /\ Bytes(j) = f[Len(j)]
<1> DEFINE f == Sums(j)
<1>1. f = [n \in 0..Len(j) |-> IF n = 0 THEN 0 ELSE f[n - 1] + j[n].have]
  BY SumsExist
<1>2. Bytes(j) = f[Len(j)]
  BY DEF Bytes, Sums
<1> HIDE DEF f
<1>3. f[0] = 0 /\ \A n \in 1..Len(j) : f[n] = f[n - 1] + j[n].have
  BY <1>1
<1>4. \A n \in 0..Len(j) : f[n] \in Nat
  <2>0. PICK L \in Nat : L = Len(j)
    OBVIOUS
  <2> DEFINE S == {m \in 0..Len(j) : f[m] \in Nat}
  <2>1. 0 \in S
    BY <1>3
  <2>2. ASSUME NEW m \in 1..Len(j), m - 1 \in S PROVE m \in S
    <3>1. j[m] \in ItemType
      OBVIOUS
    <3>2. j[m].have \in Nat
      BY <3>1 DEF ItemType
    <3> QED
      BY <2>2, <3>2, <1>3
  <2>4. \A m \in 1..L : m - 1 \in S => m \in S
    BY <2>0, <2>2
  <2> HIDE DEF S
  <2>3. \A n \in 0..L : n \in S
    BY <2>1, <2>4, Induction
  <2> QED
    BY <2>0, <2>3 DEF S
<1>5. f \in [0..Len(j) -> Nat]
  BY <1>1, <1>4
<1> QED
  BY <1>2, <1>3, <1>5

LEMMA BytesNat ==
  ASSUME NEW j \in Seq(ItemType)
  PROVE  Bytes(j) \in Nat
<1>1. PICK f \in [0..Len(j) -> Nat] :
           /\ f[0] = 0
           /\ \A n \in 1..Len(j) : f[n] = f[n - 1] + j[n].have
           /\ Bytes(j) = f[Len(j)]
  BY BytesSums
<1> QED
  BY <1>1

LEMMA BytesEmpty == Bytes(<<>>) = 0
<1>1. <<>> \in Seq(ItemType) /\ Len(<<>>) = 0
  OBVIOUS
<1>2. PICK f \in [0..Len(<<>>) -> Nat] : f[0] = 0 /\ Bytes(<<>>) = f[Len(<<>>)]
  BY <1>1, BytesSums
<1> QED
  BY <1>1, <1>2

LEMMA BytesAppend ==
  ASSUME NEW j \in Seq(ItemType), NEW x \in ItemType
  PROVE  Bytes(Append(j, x)) = Bytes(j) + x.have
<1>0. Append(j, x) \in Seq(ItemType)
  BY AppendProperties
<1>1. PICK k \in Seq(ItemType) : k = Append(j, x)
  BY <1>0, Zenon
<1>2. PICK L \in Nat : L = Len(j) /\ Len(k) = L + 1
  BY <1>1
<1>3. k[L + 1] = x /\ \A n \in 1..L : k[n] = j[n]
  BY <1>1, <1>2
<1>4. PICK f \in [0..Len(j) -> Nat] :
           /\ f[0] = 0
           /\ \A n \in 1..Len(j) : f[n] = f[n - 1] + j[n].have
           /\ Bytes(j) = f[Len(j)]
  BY BytesSums
<1>5. PICK g \in [0..Len(k) -> Nat] :
           /\ g[0] = 0
           /\ \A n \in 1..Len(k) : g[n] = g[n - 1] + k[n].have
           /\ Bytes(k) = g[Len(k)]
  BY BytesSums
<1>6. g[L] = f[L]
  <2> DEFINE S == {n \in 0..L : g[n] = f[n]}
  <2>1. 0 \in S
    BY <1>4, <1>5
  <2>2. ASSUME NEW m \in 1..L, m - 1 \in S PROVE m \in S
    <3>1. m \in 1..Len(k) /\ m \in 1..Len(j)
      BY <1>2
    <3>2. g[m] = g[m - 1] + k[m].have /\ f[m] = f[m - 1] + j[m].have
      BY <1>4, <1>5, <3>1
    <3>3. g[m - 1] = f[m - 1]
      BY <2>2
    <3> QED
      BY <1>3, <3>2, <3>3
  <2> HIDE DEF S
  <2>3. \A m \in 0..L : m \in S
    BY <2>1, <2>2, Induction
  <2>4. L \in S
    BY <2>3
  <2> QED
    BY <2>4 DEF S
<1>7. g[L + 1] = g[L] + x.have
  <2>1. L + 1 \in 1..Len(k) /\ (L + 1) - 1 = L
    BY <1>2
  <2>2. g[L + 1] = g[(L + 1) - 1] + k[L + 1].have
    BY <2>1, <1>5
  <2> QED
    BY <2>1, <2>2, <1>3
<1> QED
  BY <1>1, <1>2, <1>4, <1>5, <1>6, <1>7

(* What the scanner finds from position n on: no less than the item there. *)
LEMMA BytesRest ==
  ASSUME NEW j \in Seq(ItemType), NEW n \in 1..Len(j)
  PROVE  /\ Bytes(SubSeq(j, n, Len(j))) \in Nat
         /\ Bytes(SubSeq(j, n, Len(j))) >= j[n].have
         /\ n = Len(j) => Bytes(SubSeq(j, n, Len(j))) = j[n].have
<1>1. PICK r \in Seq(ItemType) : /\ r = SubSeq(j, n, Len(j)) /\ Len(r) = Len(j) - n + 1
                                 /\ r[1] = j[n]
  <2>1. PICK a \in Int, b \in Int : a = n /\ b = Len(j)
    OBVIOUS
  <2>2. \A i \in a..b : j[i] \in ItemType
    BY <2>1
  <2>3. /\ SubSeq(j, a, b) \in Seq(ItemType)
        /\ Len(SubSeq(j, a, b)) = IF a <= b THEN b - a + 1 ELSE 0
        /\ \A i \in 1..(b - a + 1) : SubSeq(j, a, b)[i] = j[a + i - 1]
    BY <2>2, SubSeqProperties
  <2>4. a <= b /\ 1 \in 1..(b - a + 1) /\ a + 1 - 1 = n
    BY <2>1
  <2>5. SubSeq(j, a, b)[1] = j[n] /\ Len(SubSeq(j, a, b)) = Len(j) - n + 1
    BY <2>1, <2>3, <2>4
  <2> QED
    BY <2>1, <2>3, <2>5
<1>2. PICK L \in Nat : L = Len(r) /\ L >= 1 /\ (n = Len(j) => L = 1)
  <2>1. Len(j) \in Nat /\ n \in Nat /\ n <= Len(j)
    OBVIOUS
  <2>2. PICK L \in Nat : L = Len(j) - n + 1 /\ L >= 1 /\ (n = Len(j) => L = 1)
    BY <2>1
  <2> QED
    BY <2>2, <1>1
<1>3. PICK f \in [0..Len(r) -> Nat] :
           /\ f[0] = 0
           /\ \A i \in 1..Len(r) : f[i] = f[i - 1] + r[i].have
           /\ Bytes(r) = f[Len(r)]
  BY BytesSums
<1>4. \A i \in 1..L : r[i].have \in Nat
  <2>1. \A i \in 1..L : r[i] \in ItemType
    BY <1>2
  <2> QED
    BY <2>1 DEF ItemType
<1>5. f[1] = j[n].have
  <2>1. 1 \in 1..L /\ 1 - 1 = 0
    BY <1>2
  <2>2. f[1] = f[0] + r[1].have
    BY <1>2, <1>3, <2>1
  <2> QED
    BY <1>1, <1>3, <1>4, <2>1, <2>2
<1>6. f[L] >= f[1]
  <2> DEFINE S == {i \in 0..L : i = 0 \/ f[i] >= f[1]}
  <2>1. 0 \in S
    OBVIOUS
  <2>2. ASSUME NEW m \in 1..L, m - 1 \in S PROVE m \in S
    <3>1. CASE m = 1
      <4>0. 1 \in 0..Len(r)
        BY <1>2
      <4>1. f[1] \in Nat
        BY <4>0, <1>3
      <4> QED
        BY <3>1, <4>1
    <3>2. CASE m # 1
      <4>1. f[m] = f[m - 1] + r[m].have /\ f[m - 1] \in Nat /\ f[1] \in Nat
        BY <1>2, <1>3
      <4>2. f[m - 1] >= f[1] /\ r[m].have \in Nat
        BY <2>2, <3>2, <1>4
      <4> QED
        BY <4>1, <4>2
    <3> QED
      BY <3>1, <3>2
  <2> HIDE DEF S
  <2>3. \A m \in 0..L : m \in S
    BY <2>1, <2>2, Induction
  <2>4. L \in S
    BY <2>3
  <2> QED
    BY <2>4, <1>2 DEF S
<1>7. f[L] \in Nat /\ Bytes(r) = f[L]
  BY <1>2, <1>3
<1> QED
  BY <1>1, <1>2, <1>5, <1>6, <1>7
-----------------------------------------------------------------------------
(* The replay: one record after the other, each whole, in sequence and accepted. *)

Step(e, q, s, t) ==
  Whole(e) /\ e.seq = q /\ ApplyOutcome(s, e.seq, e.rec) = "Ok" /\ t = Applied(s, e.rec)

Replays(j, b, first, st, s) ==
  \E g \in [0..b -> DurableState] :
    /\ g[0] = st
    /\ g[b] = s
    /\ \A i \in 1..b : Step(j[i], first + i - 1, g[i - 1], g[i])

LEMMA Applying ==
  ASSUME NEW st \in DurableState, NEW rec \in Record, rec # ZeroRecord
  PROVE  Applied(st, rec) \in DurableState
<1>1. CASE rec \in {BootRecord(e) : e \in Nat}
  BY <1>1 DEF BootRecord, Applied, DurableState
<1>2. CASE rec \in {PolicyRecord(p) : p \in Policies}
  BY <1>2 DEF PolicyRecord, Applied, DurableState
<1>3. \A x \in DurableState : PushLineage(x) \in DurableState
  <2> SUFFICES ASSUME NEW x \in DurableState PROVE PushLineage(x) \in DurableState
    OBVIOUS
  <2>2. x.seen + 1 \in Nat /\ x.dropped \in Nat /\ x.dropped + 1 \in Nat
          /\ x.kept \in Nat /\ x.kept + 1 \in Nat
    BY DEF DurableState
  <2>3. CASE x.kept >= MaxLineage
    <3>1. PushLineage(x) = [x EXCEPT !.seen = x.seen + 1, !.dropped = x.dropped + 1,
                                     !.kept = x.kept]
      BY <2>3 DEF PushLineage
    <3>2. [x EXCEPT !.seen = x.seen + 1, !.dropped = x.dropped + 1, !.kept = x.kept] \in DurableState
      BY <2>2 DEF DurableState
    <3> QED
      BY <3>1, <3>2
  <2>4. CASE ~(x.kept >= MaxLineage)
    <3>1. PushLineage(x) = [x EXCEPT !.seen = x.seen + 1, !.dropped = x.dropped,
                                     !.kept = x.kept + 1]
      BY <2>4 DEF PushLineage
    <3>2. [x EXCEPT !.seen = x.seen + 1, !.dropped = x.dropped, !.kept = x.kept + 1] \in DurableState
      BY <2>2 DEF DurableState
    <3> QED
      BY <3>1, <3>2
  <2> QED
    BY <2>3, <2>4
<1>4. CASE rec = DecisionRecord
  <2>1. [st EXCEPT !.decisions = @ + 1] \in DurableState
    BY DEF DurableState
  <2> QED
    BY <1>3, <1>4, <2>1 DEF DecisionRecord, Applied
<1>5. CASE rec = InterruptionRecord
  <2>1. [st EXCEPT !.interruptions = @ + 1] \in DurableState
    BY DEF DurableState
  <2> QED
    BY <1>3, <1>5, <2>1 DEF InterruptionRecord, Applied
<1>6. CASE rec \in {FenceRecord(f) : f \in FenceState}
  <2>1. PICK f \in FenceState : rec = FenceRecord(f)
    BY <1>6
  <2>2. WithFence(st, f) \in DurableState
    BY DEF WithFence, DurableState
  <2> QED
    BY <1>3, <2>1, <2>2 DEF FenceRecord, Applied
<1>7. CASE rec \in {CheckpointRecord(n) : n \in Nat}
  BY <1>7 DEF CheckpointRecord, Applied
<1> QED
  BY <1>1, <1>2, <1>4, <1>5, <1>6, <1>7 DEF Record

LEMMA ReplaysNone ==
  ASSUME NEW j, NEW first \in Nat, NEW st \in DurableState
  PROVE  Replays(j, 0, first, st, st)
<1> DEFINE g == [i \in 0..0 |-> st]
<1>1. g \in [0..0 -> DurableState] /\ g[0] = st /\ \A i \in 1..0 : FALSE
  OBVIOUS
<1> HIDE DEF g
<1> QED
  BY <1>1 DEF Replays

LEMMA ReplaysType ==
  ASSUME NEW j, NEW b \in Nat, NEW first \in Nat, NEW st, NEW s, Replays(j, b, first, st, s)
  PROVE  st \in DurableState /\ s \in DurableState
<1>1. 0 \in 0..b /\ b \in 0..b
  OBVIOUS
<1> QED
  BY <1>1 DEF Replays

LEMMA ReplaysMore ==
  ASSUME NEW j, NEW b \in Nat, NEW first \in Nat, NEW st, NEW s, NEW t \in DurableState,
         Replays(j, b, first, st, s), Step(j[b + 1], first + b, s, t)
  PROVE  Replays(j, b + 1, first, st, t)
<1>1. PICK g \in [0..b -> DurableState] :
    /\ g[0] = st
    /\ g[b] = s
    /\ \A i \in 1..b : Step(j[i], first + i - 1, g[i - 1], g[i])
  BY DEF Replays
<1> DEFINE h == [i \in 0..(b + 1) |-> IF i = b + 1 THEN t ELSE g[i]]
<1>2. \A i \in 0..b : h[i] = g[i]
  OBVIOUS
<1>3. h \in [0..(b + 1) -> DurableState] /\ h[b + 1] = t
  OBVIOUS
<1> HIDE DEF h
<1>4. \A i \in 1..(b + 1) : Step(j[i], first + i - 1, h[i - 1], h[i])
  <2> SUFFICES ASSUME NEW i \in 1..(b + 1) PROVE Step(j[i], first + i - 1, h[i - 1], h[i])
    OBVIOUS
  <2>1. CASE i = b + 1
    <3>1. i - 1 = b /\ b \in 0..b /\ first + i - 1 = first + b
      BY <2>1
    <3>2. h[i - 1] = s /\ h[i] = t
      BY <3>1, <2>1, <1>1, <1>2, <1>3
    <3> QED
      BY <3>1, <3>2, <2>1
  <2>2. CASE i # b + 1
    <3>1. i \in 1..b /\ i \in 0..b /\ i - 1 \in 0..b
      BY <2>2
    <3> QED
      BY <3>1, <1>1, <1>2
  <2> QED
    BY <2>1, <2>2
<1>5. h[0] = st
  <2>1. 0 \in 0..b
    OBVIOUS
  <2> QED
    BY <1>1, <1>2, <2>1
<1> QED
  BY <1>3, <1>4, <1>5 DEF Replays

(* Only the records replayed matter. *)
LEMMA ReplaysSame ==
  ASSUME NEW j, NEW k, NEW b \in Nat, NEW first \in Nat, NEW st, NEW s,
         Replays(j, b, first, st, s), \A i \in 1..b : k[i] = j[i]
  PROVE  Replays(k, b, first, st, s)
BY DEF Replays

LEMMA ReplaysPrefix ==
  ASSUME NEW j, NEW b \in Nat, NEW first \in Nat, NEW st, NEW s,
         Replays(j, b, first, st, s), NEW c \in 0..b
  PROVE  \E t \in DurableState :
           /\ Replays(j, c, first, st, t)
           /\ c < b => \E u : Step(j[c + 1], first + c, t, u)
<1>1. PICK g \in [0..b -> DurableState] :
    /\ g[0] = st
    /\ g[b] = s
    /\ \A i \in 1..b : Step(j[i], first + i - 1, g[i - 1], g[i])
  BY DEF Replays
<1> DEFINE h == [i \in 0..c |-> g[i]]
<1>2. h \in [0..c -> DurableState] /\ \A i \in 0..c : h[i] = g[i]
  OBVIOUS
<1>3. 0 \in 0..c /\ c \in 0..c /\ \A i \in 1..c : i \in 1..b /\ i \in 0..c /\ i - 1 \in 0..c
  OBVIOUS
<1> HIDE DEF h
<1>4. Replays(j, c, first, st, g[c])
  <2>1. \A i \in 1..c : Step(j[i], first + i - 1, h[i - 1], h[i])
    BY <1>1, <1>2, <1>3
  <2>2. h[0] = st /\ h[c] = g[c]
    BY <1>1, <1>2, <1>3
  <2> QED
    BY <1>2, <2>1, <2>2 DEF Replays
<1>5. ASSUME c < b PROVE Step(j[c + 1], first + c, g[c], g[c + 1])
  <2>1. c + 1 \in 1..b /\ (c + 1) - 1 = c /\ first + (c + 1) - 1 = first + c
    BY <1>5
  <2>2. Step(j[c + 1], first + (c + 1) - 1, g[(c + 1) - 1], g[c + 1])
    BY <1>1, <2>1
  <2> QED
    BY <2>1, <2>2
<1>6. g[c] \in DurableState
  OBVIOUS
<1> QED
  BY <1>4, <1>5, <1>6

LEMMA ReplaysUnique ==
  ASSUME NEW j, NEW b \in Nat, NEW first \in Nat, NEW st, NEW s, NEW t,
         Replays(j, b, first, st, s), Replays(j, b, first, st, t)
  PROVE  s = t
<1>1. PICK g \in [0..b -> DurableState] :
    /\ g[0] = st
    /\ g[b] = s
    /\ \A i \in 1..b : Step(j[i], first + i - 1, g[i - 1], g[i])
  BY DEF Replays
<1>2. PICK h \in [0..b -> DurableState] :
    /\ h[0] = st
    /\ h[b] = t
    /\ \A i \in 1..b : Step(j[i], first + i - 1, h[i - 1], h[i])
  BY DEF Replays
<1> DEFINE S == {i \in 0..b : g[i] = h[i]}
<1>3. 0 \in S
  BY <1>1, <1>2
<1>4. ASSUME NEW m \in 1..b, m - 1 \in S PROVE m \in S
  <2>1. g[m - 1] = h[m - 1]
    BY <1>4
  <2>2. g[m] = Applied(g[m - 1], j[m].rec) /\ h[m] = Applied(h[m - 1], j[m].rec)
    BY <1>1, <1>2 DEF Step
  <2> QED
    BY <2>1, <2>2
<1> HIDE DEF S
<1>5. \A m \in 0..b : m \in S
  BY <1>3, <1>4, Induction
<1>6. b \in S
  BY <1>5
<1> QED
  BY <1>6, <1>1, <1>2 DEF S

(* A replayed record never takes the epoch back. *)
LEMMA StepEpoch ==
  ASSUME NEW e \in ItemType, NEW q, NEW s \in DurableState, NEW t, Step(e, q, s, t)
  PROVE  /\ t.epoch \in Nat /\ t.epoch >= s.epoch
         /\ \A x \in Nat : e.rec = BootRecord(x) => t.epoch = x
<1>1. e.rec \in Record /\ e.rec # ZeroRecord /\ s.epoch \in Nat
  BY DEF ItemType, DurableState, Step, Whole, Zero
<1>2. CASE e.rec \in {BootRecord(x) : x \in Nat}
  <2>1. PICK x \in Nat : e.rec = BootRecord(x)
    BY <1>2
  <2>2. e.rec.type = "Boot" /\ e.rec.epoch = x
    BY <2>1 DEF BootRecord
  <2>3. t.epoch = x
    BY <2>2 DEF Step, Applied, DurableState
  <2>4. ~(x <= s.epoch /\ s.epoch # 0)
    BY <2>2 DEF Step, ApplyOutcome
  <2>5. \A y \in Nat : e.rec = BootRecord(y) => y = x
    BY <2>1 DEF BootRecord
  <2> QED
    BY <1>1, <2>3, <2>4, <2>5
<1>3. CASE e.rec \notin {BootRecord(x) : x \in Nat}
  <2>1. e.rec.type \in {"Policy", "Decision", "Interruption", "Fence", "Checkpoint"}
    BY <1>1, <1>3 DEF Record, PolicyRecord, DecisionRecord, InterruptionRecord, FenceRecord,
                      CheckpointRecord
  <2>2. t.epoch = s.epoch
    BY <2>1 DEF Step, Applied, PushLineage, WithFence, DurableState
  <2> QED
    BY <1>1, <1>3, <2>2
<1> QED
  BY <1>2, <1>3

LEMMA ReplaysEpoch ==
  ASSUME NEW j \in Seq(ItemType), NEW b \in 0..Len(j), NEW first \in Nat, NEW st, NEW s,
         Replays(j, b, first, st, s)
  PROVE  /\ s.epoch >= st.epoch
         /\ \A p \in 1..b, x \in Nat : j[p].rec = BootRecord(x) => s.epoch >= x
<1>0. b \in Nat
  OBVIOUS
<1>1. PICK g \in [0..b -> DurableState] :
    /\ g[0] = st
    /\ g[b] = s
    /\ \A i \in 1..b : Step(j[i], first + i - 1, g[i - 1], g[i])
  BY DEF Replays
<1>2. \A i \in 1..b : j[i] \in ItemType
  OBVIOUS
<1>3. \A i \in 0..b : g[i].epoch \in Nat
  BY DEF DurableState
<1>4. ASSUME NEW i \in 1..b
      PROVE  /\ g[i].epoch >= g[i - 1].epoch
             /\ \A x \in Nat : j[i].rec = BootRecord(x) => g[i].epoch = x
  <2>1. Step(j[i], first + i - 1, g[i - 1], g[i]) /\ j[i] \in ItemType /\ g[i - 1] \in DurableState
    BY <1>1, <1>2
  <2> QED
    BY <2>1, StepEpoch
<1> DEFINE S == {i \in 0..b : /\ g[i].epoch >= g[0].epoch
                              /\ \A p \in 1..i, x \in Nat :
                                   j[p].rec = BootRecord(x) => g[i].epoch >= x}
<1>5. 0 \in S
  BY <1>3
<1>6. ASSUME NEW m \in 1..b, m - 1 \in S PROVE m \in S
  <2>1. g[m].epoch \in Nat /\ g[m - 1].epoch \in Nat /\ g[0].epoch \in Nat
    BY <1>3
  <2>2. g[m].epoch >= g[m - 1].epoch
    BY <1>4
  <2>3. g[m].epoch >= g[0].epoch
    BY <1>6, <2>1, <2>2
  <2>4. ASSUME NEW p \in 1..m, NEW x \in Nat, j[p].rec = BootRecord(x) PROVE g[m].epoch >= x
    <3>1. CASE p = m
      BY <3>1, <2>1, <2>4, <1>4
    <3>2. CASE p # m
      <4>1. p \in 1..(m - 1)
        BY <3>2
      <4>2. g[m - 1].epoch >= x
        BY <1>6, <2>4, <4>1
      <4> QED
        BY <4>2, <2>1, <2>2
    <3> QED
      BY <3>1, <3>2
  <2> QED
    BY <2>3, <2>4
<1> HIDE DEF S
<1>7. \A m \in 0..b : m \in S
  BY <1>0, <1>5, <1>6, Induction
<1>8. b \in S
  BY <1>7
<1> QED
  BY <1>8, <1>1 DEF S
-----------------------------------------------------------------------------
(* scan_journal(): the states of its loop, and how one item moves it. *)

Run(b, s) == [outcome |-> "Ok", stop |-> FALSE, torn |-> FALSE, records |-> b, state |-> s]

Ended(o, torn, b, s) ==
  [outcome |-> o, stop |-> TRUE, torn |-> torn, records |-> b, state |-> s]

(* The bytes of j from item n on. *)
RestBytes(j, n) == Bytes(SubSeq(j, n, Len(j)))

TornAt(j, n, first) ==
  /\ ~Zero(j[n])
  /\ j[n].have = 0 \/ (j[n].seq = first + n - 1 /\ j[n].need > RestBytes(j, n))

ZeroFrom(j, n) == \A i \in n..Len(j) : Zero(j[i])

ExhaustedAt(j, n, first, s) ==
  /\ Whole(j[n]) /\ j[n].seq = first + n - 1
  /\ n - 1 >= MaxRecords \/ ApplyOutcome(s, j[n].seq, j[n].rec) = "Exhausted"

CorruptAt(j, n, first, s) ==
  \/ Zero(j[n]) /\ ~ZeroFrom(j, n)
  \/ ~Zero(j[n]) /\ j[n].have # 0 /\ j[n].seq # first + n - 1
  \/ ~Zero(j[n]) /\ j[n].have # 0 /\ j[n].have < j[n].need /\ ~(j[n].need > RestBytes(j, n))
  \/ Whole(j[n]) /\ ApplyOutcome(s, j[n].seq, j[n].rec) = "Corrupt"

LEMMA RestItems ==
  ASSUME NEW j \in Seq(ItemType), NEW n \in 1..Len(j)
  PROVE  (\A i \in 1..Len(SubSeq(j, n, Len(j))) : SubSeq(j, n, Len(j))[i].rec = ZeroRecord)
           <=> ZeroFrom(j, n)
<1>1. PICK a \in Int, b \in Int : a = n /\ b = Len(j)
  OBVIOUS
<1>2. \A i \in a..b : j[i] \in ItemType
  BY <1>1
<1>3. /\ Len(SubSeq(j, a, b)) = IF a <= b THEN b - a + 1 ELSE 0
      /\ \A i \in 1..(b - a + 1) : SubSeq(j, a, b)[i] = j[a + i - 1]
  BY <1>2, SubSeqProperties
<1>4. PICK r : r = SubSeq(j, a, b)
  OBVIOUS
<1>5. Len(r) = b - a + 1 /\ \A i \in 1..Len(r) : r[i] = j[a + i - 1]
  BY <1>1, <1>3, <1>4
<1>6. \A i \in 1..Len(r) : a + i - 1 \in n..Len(j)
  BY <1>1, <1>5
<1>7. \A i \in n..Len(j) : i - a + 1 \in 1..Len(r) /\ a + (i - a + 1) - 1 = i
  BY <1>1, <1>5
<1>8. ZeroFrom(j, n) => \A i \in 1..Len(r) : r[i].rec = ZeroRecord
  BY <1>5, <1>6 DEF ZeroFrom, Zero
<1>9. ASSUME \A i \in 1..Len(r) : r[i].rec = ZeroRecord PROVE ZeroFrom(j, n)
  <2> SUFFICES ASSUME NEW i \in n..Len(j) PROVE j[i].rec = ZeroRecord
    BY DEF ZeroFrom, Zero
  <2>1. PICK k \in 1..Len(r) : a + k - 1 = i
    BY <1>7
  <2> QED
    BY <1>5, <1>9, <2>1
<1> QED
  BY <1>1, <1>4, <1>8, <1>9

Fields == {"outcome", "stop", "torn", "records", "state"}

LEMMA RunStops ==
  ASSUME NEW o, NEW b, NEW s
  PROVE  Stop(Run(b,s), o) = Ended(o, FALSE, b, s)
<1>1. PICK r : r = Run(b, s)
  OBVIOUS
<1>2. /\ DOMAIN r = Fields /\ r = [x \in Fields |-> r[x]]
      /\ r.torn = FALSE /\ r.records = b /\ r.state = s
  BY <1>1 DEF Run, Fields
<1>3. PICK q : q = Stop(r, o)
  OBVIOUS
<1>4. /\ DOMAIN q = Fields /\ q = [x \in Fields |-> q[x]]
      /\ q.outcome = o /\ q.stop = TRUE /\ q.torn = FALSE /\ q.records = b /\ q.state = s
  BY <1>2, <1>3 DEF Stop, Fields
<1> QED
  BY <1>1, <1>3, <1>4 DEF Ended, Fields

LEMMA EndedTorn ==
  ASSUME NEW o, NEW b, NEW s
  PROVE  [Ended(o, FALSE, b, s) EXCEPT !.torn = TRUE] = Ended(o, TRUE, b, s)
<1>1. PICK r : r = Ended(o, FALSE, b, s)
  OBVIOUS
<1>2. /\ DOMAIN r = Fields /\ r = [x \in Fields |-> r[x]]
      /\ r.outcome = o /\ r.stop = TRUE /\ r.records = b /\ r.state = s
  BY <1>1 DEF Ended, Fields
<1>3. PICK q : q = [r EXCEPT !.torn = TRUE]
  OBVIOUS
<1>4. /\ DOMAIN q = Fields /\ q = [x \in Fields |-> q[x]]
      /\ q.outcome = o /\ q.stop = TRUE /\ q.torn = TRUE /\ q.records = b /\ q.state = s
  BY <1>2, <1>3 DEF Fields
<1> QED
  BY <1>1, <1>3, <1>4 DEF Ended, Fields

LEMMA RunMoves ==
  ASSUME NEW rec, NEW b, NEW s
  PROVE  [Run(b, s) EXCEPT !.state = Applied(@, rec), !.records = @ + 1]
           = Run(b + 1, Applied(s, rec))
<1>1. PICK r : r = Run(b, s)
  OBVIOUS
<1>2. /\ DOMAIN r = Fields /\ r = [x \in Fields |-> r[x]]
      /\ r.outcome = "Ok" /\ r.stop = FALSE /\ r.torn = FALSE /\ r.records = b /\ r.state = s
  BY <1>1 DEF Run, Fields
<1>3. PICK q : q = [r EXCEPT !.state = Applied(@, rec), !.records = @ + 1]
  OBVIOUS
<1>4. /\ DOMAIN q = Fields /\ q = [x \in Fields |-> q[x]]
      /\ q.outcome = "Ok" /\ q.stop = FALSE /\ q.torn = FALSE 
      /\ q.records = b + 1 /\ q.state = Applied(s, rec)
  BY <1>2, <1>3 DEF Fields
<1> QED
  BY <1>1, <1>3, <1>4 DEF Run, Fields

LEMMA ScanFixed ==
  ASSUME NEW o, NEW torn, NEW b, NEW s, NEW n, NEW j, NEW first
  PROVE  ScanItem(Ended(o, torn, b, s), n, j, first) = Ended(o, torn, b, s)
<1>1. Ended(o, torn, b, s).stop
  BY DEF Ended
<1> QED
  BY <1>1 DEF ScanItem

LEMMA ScanMoves ==
  ASSUME NEW j \in Seq(ItemType), NEW n \in 1..Len(j), NEW first \in Nat,
         NEW s \in DurableState
  PROVE  LET next == ScanItem(Run(n - 1, s), n, j, first)
         IN \/ Step(j[n], first + n - 1, s, Applied(s, j[n].rec))
                 /\ n - 1 < MaxRecords /\ next = Run(n, Applied(s, j[n].rec))
            \/ TornAt(j, n, first) /\ next = Ended("Ok", TRUE, n - 1, s)
            \/ ZeroFrom(j, n) /\ next = Ended("Ok", FALSE, n - 1, s)
            \/ ExhaustedAt(j, n, first, s) /\ next = Ended("Exhausted", FALSE, n - 1, s)
            \/ CorruptAt(j, n, first, s) /\ next = Ended("Corrupt", FALSE, n - 1, s)
<1> DEFINE e == j[n]
           rest == Bytes(SubSeq(j, n, Len(j)))
           acc == Run(n - 1, s)
           next == ScanItem(acc, n, j, first)
           applied == ApplyOutcome(s, e.seq, e.rec)
<1>1. /\ e.seq \in Nat /\ e.rec \in Record /\ e.have \in Nat /\ e.need \in Nat \ {0}
      /\ e.have <= e.need
  BY DEF ItemType
<1>2. rest \in Nat /\ rest >= e.have
  BY BytesRest
<1>3. MaxRecords \in Nat
  BY StoreAssumption
<1>4. first + (n - 1) = first + n - 1 /\ n - 1 \in Nat /\ (n - 1) + 1 = n
  OBVIOUS
<1>5. ~acc.stop /\ acc.records = n - 1 /\ acc.state = s
  BY DEF Run
<1>6. \A o : Stop(acc, o) = Ended(o, FALSE, n - 1, s)
  BY RunStops
<1>7. [Stop(acc, "Ok") EXCEPT !.torn = TRUE] = Ended("Ok", TRUE, n - 1, s)
  <2>1. Stop(acc, "Ok") = Ended("Ok", FALSE, n - 1, s)
    BY <1>6
  <2>2. [Ended("Ok", FALSE, n - 1, s) EXCEPT !.torn = TRUE] = Ended("Ok", TRUE, n - 1, s)
    BY EndedTorn
  <2> QED
    BY <2>1, <2>2, Zenon
<1>8. [acc EXCEPT !.state = Applied(@, e.rec), !.records = @ + 1]
           = Run((n - 1) + 1, Applied(s, e.rec))
  BY RunMoves
<1>9. next = IF Zero(e) THEN Ended(IF ZeroFrom(j, n) THEN "Ok" ELSE "Corrupt", FALSE, n - 1, s)
             ELSE IF e.have = 0 THEN Ended("Ok", TRUE, n - 1, s)
             ELSE IF e.seq # first + (n - 1) THEN Ended("Corrupt", FALSE, n - 1, s)
             ELSE IF e.need > rest THEN Ended("Ok", TRUE, n - 1, s)
             ELSE IF e.have < e.need THEN Ended("Corrupt", FALSE, n - 1, s)
             ELSE IF n - 1 >= MaxRecords THEN Ended("Exhausted", FALSE, n - 1, s)
             ELSE IF applied # "Ok" THEN Ended(applied, FALSE, n - 1, s)
             ELSE Run((n - 1) + 1, Applied(s, e.rec))
  <2> HIDE DEF acc
  <2> QED
    BY <1>5, <1>6, <1>7, <1>8, RestItems DEF ScanItem, Zero
<1>10. applied \in {"Ok", "Corrupt", "Exhausted"}
  BY DEF ApplyOutcome
<1>11. CASE Zero(e)
  BY <1>9, <1>11 DEF CorruptAt
<1>12. CASE ~Zero(e) /\ (e.have = 0 \/ (e.seq = first + (n - 1) /\ e.need > rest))
  <2>1. next = Ended("Ok", TRUE, n - 1, s)
    BY <1>9, <1>12
  <2> QED
    BY <2>1, <1>12, <1>4 DEF TornAt, RestBytes
<1>13. CASE ~Zero(e) /\ e.have # 0 /\ e.seq # first + (n - 1)
  BY <1>4, <1>9, <1>13 DEF CorruptAt
<1>14. CASE ~Zero(e) /\ e.have # 0 /\ e.seq = first + (n - 1) /\ ~(e.need > rest) /\ e.have < e.need
  <2>1. 0 < e.have
    BY <1>1, <1>14
  <2>2. next = Ended("Corrupt", FALSE, n - 1, s)
    BY <1>9, <1>14
  <2> QED
    BY <2>1, <2>2, <1>14 DEF CorruptAt, RestBytes
<1>15. CASE ~Zero(e) /\ e.have # 0 /\ e.seq = first + (n - 1) /\ ~(e.need > rest) /\ ~(e.have < e.need)
  <2>1. Whole(e)
    BY <1>1, <1>15 DEF Whole
  <2>2. CASE n - 1 >= MaxRecords
    BY <2>1, <2>2, <1>4, <1>9, <1>15 DEF ExhaustedAt
  <2>3. CASE ~(n - 1 >= MaxRecords) /\ applied = "Exhausted"
    BY <2>1, <2>3, <1>4, <1>9, <1>15 DEF ExhaustedAt
  <2>4. CASE ~(n - 1 >= MaxRecords) /\ applied = "Corrupt"
    BY <2>1, <2>4, <1>9, <1>15 DEF CorruptAt
  <2>5. CASE ~(n - 1 >= MaxRecords) /\ applied = "Ok"
    <3>1. next = Run(n, Applied(s, e.rec)) /\ n - 1 < MaxRecords
      BY <2>5, <1>3, <1>4, <1>9, <1>15
    <3>2. Step(e, first + n - 1, s, Applied(s, e.rec))
      BY <2>1, <2>5, <1>4, <1>15 DEF Step
    <3> QED
      BY <3>1, <3>2
  <2> QED
    BY <2>2, <2>3, <2>4, <2>5, <1>10
<1> QED
  BY <1>11, <1>12, <1>13, <1>14, <1>15

(* The loop of Scan, as the function it is defined with. *)
Scans(j, first, st) ==
  CHOOSE a : a = [n \in 0..Len(j) |-> IF n = 0 THEN Run(0, st)
                                      ELSE ScanItem(a[n - 1], n, j, first)]

LEMMA ScansExist ==
  ASSUME NEW j \in Seq(ItemType), NEW first, NEW st
  PROVE  Scans(j, first, st)
           = [n \in 0..Len(j) |-> IF n = 0 THEN Run(0, st)
                                  ELSE ScanItem(Scans(j, first, st)[n - 1], n, j, first)]
<1> DEFINE Good(m) == \E f : f = [n \in 0..m |-> IF n = 0 THEN Run(0, st)
                                                  ELSE ScanItem(f[n - 1], n, j, first)]
           S == {m \in 0..Len(j) : Good(m)}
<1>1. 0 \in S
  <2> DEFINE f == [n \in 0..0 |-> Run(0, st)]
  <2>1. f = [n \in 0..0 |-> IF n = 0 THEN Run(0, st) ELSE ScanItem(f[n - 1], n, j, first)]
    OBVIOUS
  <2> HIDE DEF f
  <2>2. Good(0)
    BY <2>1
  <2> QED
    BY <2>2
<1>2. ASSUME NEW m \in 1..Len(j), m - 1 \in S PROVE m \in S
  <2>1. PICK f : f = [n \in 0..(m - 1) |-> IF n = 0 THEN Run(0, st)
                                            ELSE ScanItem(f[n - 1], n, j, first)]
    BY <1>2
  <2> DEFINE g == [n \in 0..m |-> IF n = m THEN ScanItem(f[m - 1], m, j, first) ELSE f[n]]
  <2>2. \A n \in 0..m : g[n] = IF n = 0 THEN Run(0, st) ELSE ScanItem(g[n - 1], n, j, first)
    <3> SUFFICES ASSUME NEW n \in 0..m
                 PROVE  g[n] = IF n = 0 THEN Run(0, st) ELSE ScanItem(g[n - 1], n, j, first)
      OBVIOUS
    <3>1. CASE n = m
      <4>1. n - 1 \in 0..m /\ n - 1 # m /\ n # 0
        BY <3>1
      <4> QED
        BY <3>1, <4>1
    <3>2. CASE n # m /\ n # 0
      <4>1. n - 1 \in 0..m /\ n - 1 # m /\ n \in 0..(m - 1) /\ n # 0
        BY <3>2
      <4>2. f[n] = ScanItem(f[n - 1], n, j, first)
        BY <2>1, <4>1
      <4> QED
        BY <3>2, <4>1, <4>2
    <3>3. CASE n = 0 /\ n # m
      <4>1. n \in 0..(m - 1)
        BY <3>3
      <4> QED
        BY <2>1, <3>3, <4>1
    <3> QED
      BY <3>1, <3>2, <3>3
  <2>3. g = [n \in 0..m |-> IF n = 0 THEN Run(0, st) ELSE ScanItem(g[n - 1], n, j, first)]
    BY <2>2
  <2> HIDE DEF g
  <2>4. Good(m)
    BY <2>3
  <2> QED
    BY <2>4
<1>3. Len(j) \in S
  <2> HIDE DEF S
  <2>1. PICK L \in Nat : L = Len(j)
    OBVIOUS
  <2>2. \A m \in 1..L : m - 1 \in S => m \in S
    BY <1>2, <2>1
  <2>3. \A m \in 0..L : m \in S
    BY <1>1, <2>2, Induction
  <2> QED
    BY <2>1, <2>3
<1>4. \E f : f = [n \in 0..Len(j) |-> IF n = 0 THEN Run(0, st)
                                       ELSE ScanItem(f[n - 1], n, j, first)]
  BY <1>3
<1> QED
  BY <1>4 DEF Scans

(* Whatever the journal holds, the scan replays some prefix of b records, and r is its
   answer to what comes next. *)
Ending(j, first, s, b, r) ==
  \/ TornAt(j, b + 1, first) /\ r = Ended("Ok", TRUE, b, s)
  \/ ZeroFrom(j, b + 1) /\ r = Ended("Ok", FALSE, b, s)
  \/ ExhaustedAt(j, b + 1, first, s) /\ r = Ended("Exhausted", FALSE, b, s)
  \/ CorruptAt(j, b + 1, first, s) /\ r = Ended("Corrupt", FALSE, b, s)

ScanResult(j, n, first, st, b, s, r) ==
  /\ Replays(j, b, first, st, s)
  /\ b <= MaxRecords
  /\ \/ b = n /\ r = Run(b, s)
     \/ b < n /\ Ending(j, first, s, b, r)

LEMMA ScanSteps ==
  ASSUME NEW j \in Seq(ItemType), NEW first \in Nat, NEW st \in DurableState,
         NEW n \in 1..Len(j), NEW b \in 0..(n - 1), NEW s \in DurableState, NEW r,
         ScanResult(j, n - 1, first, st, b, s, r)
  PROVE  \E c \in 0..n, t \in DurableState :
           ScanResult(j, n, first, st, c, t, ScanItem(r, n, j, first))
<1> DEFINE next == ScanItem(r, n, j, first)
<1>1. b \in 0..n /\ n \in 0..n /\ n - 1 \in Nat /\ b \in Nat
  OBVIOUS
<1>2. CASE b < n - 1 /\ Ending(j, first, s, b, r)
  <2>1. next = r
    <3>1. PICK o, torn : r = Ended(o, torn, b, s)
      BY <1>2 DEF Ending
    <3> QED
      BY <3>1, ScanFixed
  <2>2. b < n
    BY <1>2
  <2>3. ScanResult(j, n, first, st, b, s, next)
    BY <1>2, <2>1, <2>2 DEF ScanResult
  <2> QED
    BY <1>1, <2>3
<1>3. CASE b = n - 1 /\ r = Run(b, s)
  <2>0. b + 1 = n /\ b < n /\ first + n - 1 = first + b
    BY <1>3
  <2>1. Replays(j, b, first, st, s)
    BY DEF ScanResult
  <2>2. \/ Step(j[n], first + n - 1, s, Applied(s, j[n].rec))
                 /\ n - 1 < MaxRecords /\ next = Run(n, Applied(s, j[n].rec))
        \/ TornAt(j, n, first) /\ next = Ended("Ok", TRUE, n - 1, s)
        \/ ZeroFrom(j, n) /\ next = Ended("Ok", FALSE, n - 1, s)
        \/ ExhaustedAt(j, n, first, s) /\ next = Ended("Exhausted", FALSE, n - 1, s)
        \/ CorruptAt(j, n, first, s) /\ next = Ended("Corrupt", FALSE, n - 1, s)
    BY <1>3, ScanMoves
  <2>3. CASE /\ Step(j[n], first + n - 1, s, Applied(s, j[n].rec)) /\ n - 1 < MaxRecords
             /\ next = Run(n, Applied(s, j[n].rec))
    <3> DEFINE t == Applied(s, j[n].rec)
    <3>1. t \in DurableState
      <4>1. j[n].rec \in Record /\ j[n].rec # ZeroRecord
        BY <2>3 DEF Step, Whole, Zero, ItemType
      <4> QED
        BY <4>1, Applying
    <3>2. Step(j[b + 1], first + b, s, t)
      BY <2>0, <2>3
    <3> HIDE DEF t
    <3>3. Replays(j, b + 1, first, st, t)
      BY <1>1, <2>1, <3>1, <3>2, ReplaysMore
    <3>4. next = Run(n, t)
      BY <2>3 DEF t
    <3>6. n <= MaxRecords
      BY <2>3, StoreAssumption
    <3>5. ScanResult(j, n, first, st, n, t, next)
      BY <2>0, <3>3, <3>4, <3>6 DEF ScanResult
    <3> QED
      BY <1>1, <3>1, <3>5
  <2>4. CASE Ending(j, first, s, b, next)
    <3>1. ScanResult(j, n, first, st, b, s, next)
      <4>1. b <= MaxRecords
        BY DEF ScanResult
      <4> QED
        BY <2>0, <2>1, <2>4, <4>1 DEF ScanResult
    <3> QED
      BY <1>1, <3>1
  <2>5. ASSUME ~Ending(j, first, s, b, next)
        PROVE  /\ Step(j[n], first + n - 1, s, Applied(s, j[n].rec)) /\ n - 1 < MaxRecords
               /\ next = Run(n, Applied(s, j[n].rec))
    <3>1. n - 1 = b
      BY <1>3
    <3> HIDE DEF next
    <3> QED
      BY <2>0, <2>2, <2>5, <3>1 DEF Ending
  <2> QED
    BY <2>3, <2>4, <2>5
<1> QED
  BY <1>2, <1>3 DEF ScanResult

LEMMA ScanEnds ==
  ASSUME NEW j \in Seq(ItemType), NEW first \in Nat, NEW st \in DurableState,
         ~(Bytes(j) > MaxJournalBytes)
  PROVE  \E b \in 0..Len(j), s \in DurableState :
           ScanResult(j, Len(j), first, st, b, s, Scan(j, first, st))
<1> DEFINE a == Scans(j, first, st)
<1>1. a = [n \in 0..Len(j) |-> IF n = 0 THEN Run(0, st) ELSE ScanItem(a[n - 1], n, j, first)]
  BY ScansExist
<1>2. Scan(j, first, st) = a[Len(j)]
  BY DEF Scan, Scans, Run
<1> HIDE DEF a
<1>0. PICK L \in Nat : L = Len(j)
  OBVIOUS
<1>3. a[0] = Run(0, st) /\ \A n \in 1..L : a[n] = ScanItem(a[n - 1], n, j, first)
  BY <1>0, <1>1
<1> DEFINE S == {n \in 0..L : \E b \in 0..n, s \in DurableState :
                                ScanResult(j, n, first, st, b, s, a[n])}
<1>4. 0 \in S
  <2>1. ScanResult(j, 0, first, st, 0, st, a[0])
    BY <1>3, ReplaysNone, StoreAssumption DEF ScanResult
  <2>2. 0 \in 0..0 /\ 0 \in 0..L
    OBVIOUS
  <2> QED
    BY <2>1, <2>2
<1>5. ASSUME NEW n \in 1..L, n - 1 \in S PROVE n \in S
  <2>1. PICK b \in 0..(n - 1), s \in DurableState :
          ScanResult(j, n - 1, first, st, b, s, a[n - 1])
    BY <1>5
  <2>2. \E c \in 0..n, t \in DurableState :
           ScanResult(j, n, first, st, c, t, ScanItem(a[n - 1], n, j, first))
    BY <1>0, <2>1, ScanSteps
  <2> QED
    BY <1>3, <2>2
<1>6. L \in S
  <2> HIDE DEF S
  <2>1. \A n \in 0..L : n \in S
    BY <1>4, <1>5, Induction
  <2> QED
    BY <2>1
<1> QED
  BY <1>0, <1>2, <1>6

LEMMA ScanOversized ==
  ASSUME NEW j \in Seq(ItemType), NEW first, NEW st, Bytes(j) > MaxJournalBytes
  PROVE  Scan(j, first, st) = Ended("Oversized", FALSE, 0, st)
<1>1. Scan(j, first, st) = Stop(Run(0, st), "Oversized")
  BY DEF Scan, Run
<1> QED
  BY <1>1, RunStops
-----------------------------------------------------------------------------
(* Types, and the phases of open() and checkpoint(). *)

OpenPhases == {"boot", "policy", "fences", "close"}

StoreType ==
  /\ journal \in Seq(ItemType)
  /\ snapshot = {} \/ \E n \in Nat, s \in DurableState : snapshot = {[seq |-> n, state |-> s]}
  /\ policy \in Policies
  /\ state \in DurableState
  /\ lastSeq \in Nat
  /\ bytes \in Nat
  /\ closing \in SUBSET FenceState
  /\ promised \in DurableState
  /\ epochs \in SUBSET Nat

Phases ==
  /\ pc \in OpenPhases \cup {"idle", "rotate", "mark", "failed"}
  /\ serving => opened /\ pc \in {"idle", "rotate", "mark"}
  /\ opened /\ ~serving => pc \in OpenPhases \cup {"failed"}
  /\ ~opened => pc = "idle" /\ ~writable

(* Where the replay begins: the snapshot's state, or else the one that is held. *)
Start(held) == IF snapshot = {} THEN held ELSE Latest.state

LEMMA EmptyType == EmptyState \in DurableState /\ EmptyState.epoch = 0
BY DEF EmptyState, DurableState

LEMMA SnapshotType ==
  ASSUME StoreType
  PROVE  SnapshotSeq \in Nat /\ \A held \in DurableState : Start(held) \in DurableState
<1>1. CASE snapshot = {}
  BY <1>1 DEF SnapshotSeq, Start
<1>2. CASE snapshot # {}
  <2>1. PICK n \in Nat, s \in DurableState : snapshot = {[seq |-> n, state |-> s]}
    BY <1>2 DEF StoreType
  <2>2. Latest = [seq |-> n, state |-> s]
    BY <2>1 DEF Latest
  <2>3. SnapshotSeq = n
    BY <1>2, <2>2 DEF SnapshotSeq
  <2>4. \A held \in DurableState : Start(held) = s
    BY <1>2, <2>2 DEF Start
  <2> QED
    BY <2>3, <2>4
<1> QED
  BY <1>1, <1>2

LEMMA RecoveredScan ==
  ASSUME NEW held
  PROVE  Recovered(held) = Scan(journal, SnapshotSeq + 1, Start(held))
BY DEF Recovered, Start

(* What open() starts from and what it finds. *)
LEMMA Recovering ==
  ASSUME StoreType, NEW held \in DurableState, ~Overshot
  PROVE  \E b \in 0..Len(journal), s \in DurableState :
           ScanResult(journal, Len(journal), SnapshotSeq + 1, Start(held), b, s, Recovered(held))
<1>1. journal \in Seq(ItemType) /\ SnapshotSeq + 1 \in Nat /\ Start(held) \in DurableState
  BY SnapshotType DEF StoreType
<1>2. ~(Bytes(journal) > MaxJournalBytes)
  BY DEF Overshot
<1>3. \E b \in 0..Len(journal), s \in DurableState :
         ScanResult(journal, Len(journal), SnapshotSeq + 1, Start(held), b, s,
                    Scan(journal, SnapshotSeq + 1, Start(held)))
  BY <1>1, <1>2, ScanEnds
<1> QED
  BY <1>3, RecoveredScan

LEMMA RecoveringOvershot ==
  ASSUME StoreType, NEW held \in DurableState, Overshot
  PROVE  Recovered(held) = Ended("Oversized", FALSE, 0, Start(held))
<1>1. journal \in Seq(ItemType) /\ Bytes(journal) > MaxJournalBytes
  BY DEF StoreType, Overshot
<1> QED
  BY <1>1, ScanOversized, RecoveredScan

LEMMA RecoveredState ==
  ASSUME StoreType, NEW held \in DurableState
  PROVE  Recovered(held).state \in DurableState /\ Recovered(held).records \in Nat
<1>1. CASE Overshot
  BY <1>1, RecoveringOvershot, SnapshotType DEF Ended
<1>2. CASE ~Overshot
  <2>1. PICK b \in 0..Len(journal), s \in DurableState :
           ScanResult(journal, Len(journal), SnapshotSeq + 1, Start(held), b, s, Recovered(held))
    BY <1>2, Recovering
  <2>2. Recovered(held).state = s /\ Recovered(held).records = b
    BY <2>1 DEF ScanResult, Ending, Run, Ended
  <2> QED
    BY <2>2
<1> QED
  BY <1>1, <1>2

LEMMA Sized ==
  ASSUME NEW rec
  PROVE  SizeOf(rec) \in Nat \ {0}
BY StoreAssumption DEF SizeOf

LEMMA Itemized ==
  ASSUME NEW n \in Nat, NEW rec \in Record, NEW have \in 0..SizeOf(rec)
  PROVE  Item(n, rec, have) \in ItemType
<1>1. SizeOf(rec) \in Nat \ {0} /\ have \in Nat /\ have <= SizeOf(rec)
  BY Sized
<1> QED
  BY <1>1 DEF Item, ItemType

(* What an append leaves on the disk. *)
LEMMA Committed ==
  ASSUME StoreType, NEW rec \in Record, NEW ok \in BOOLEAN, Commit(rec, ok)
  PROVE  /\ lastSeq' \in Nat /\ bytes' \in Nat /\ journal' \in Seq(ItemType)
         /\ ok => /\ journal' = Append(journal, Item(lastSeq + 1, rec, SizeOf(rec)))
                  /\ lastSeq' = lastSeq + 1 /\ bytes' = bytes + SizeOf(rec)
                  /\ bytes < MaxJournalBytes /\ writable
         /\ ~ok => /\ lastSeq' = lastSeq
                   /\ \/ journal' = journal /\ bytes' = bytes
                      \/ \E have \in 1..SizeOf(rec) :
                           /\ journal' = Append(journal, Item(lastSeq + 1, rec, have))
                           /\ IF have < SizeOf(rec) THEN "write" \in Faults ELSE "fsync" \in Faults
<1>1. SizeOf(rec) \in Nat \ {0} /\ lastSeq + 1 \in Nat /\ bytes + SizeOf(rec) \in Nat
      /\ journal \in Seq(ItemType) /\ lastSeq \in Nat /\ bytes \in Nat
  BY Sized DEF StoreType
<1>2. \A have \in 0..SizeOf(rec) : Append(journal, Item(lastSeq + 1, rec, have)) \in Seq(ItemType)
  <2> SUFFICES ASSUME NEW have \in 0..SizeOf(rec)
               PROVE  Append(journal, Item(lastSeq + 1, rec, have)) \in Seq(ItemType)
    OBVIOUS
  <2>1. Item(lastSeq + 1, rec, have) \in ItemType
    BY <1>1, Itemized
  <2> QED
    BY <1>1, <2>1, AppendProperties
<1>3. CASE ok
  <2>1. SizeOf(rec) \in 0..SizeOf(rec)
    BY <1>1
  <2>2. AppendOk(rec)
    BY <1>3 DEF Commit
  <2> QED
    BY <1>1, <1>2, <1>3, <2>1, <2>2 DEF AppendOk
<1>4. CASE ~ok
  <2>1. AppendRefused(rec)
    BY <1>4 DEF Commit
  <2>2. CASE UNCHANGED <<journal, bytes>>
    BY <1>1, <1>4, <2>1, <2>2 DEF AppendRefused
  <2>3. CASE /\ writable /\ "write" \in Faults
             /\ \E have \in 1..(SizeOf(rec) - 1) :
                   journal' = Append(journal, Item(lastSeq + 1, rec, have))
             /\ UNCHANGED bytes
    <3>1. PICK have \in 1..(SizeOf(rec) - 1) :
                   journal' = Append(journal, Item(lastSeq + 1, rec, have))
      BY <2>3
    <3>2. have \in 0..SizeOf(rec) /\ have \in 1..SizeOf(rec) /\ have < SizeOf(rec)
      BY <1>1
    <3> QED
      BY <1>1, <1>2, <1>4, <2>1, <2>3, <3>1, <3>2 DEF AppendRefused
  <2>4. CASE /\ writable /\ "fsync" \in Faults
             /\ journal' = Append(journal, Item(lastSeq + 1, rec, SizeOf(rec)))
             /\ bytes' = bytes + SizeOf(rec)
    <3>2. SizeOf(rec) \in 0..SizeOf(rec) /\ SizeOf(rec) \in 1..SizeOf(rec) /\ ~(SizeOf(rec) < SizeOf(rec))
      BY <1>1
    <3> QED
      BY <1>1, <1>2, <1>4, <2>1, <2>4, <3>2 DEF AppendRefused
  <2> QED
    BY <2>1, <2>2, <2>3, <2>4 DEF AppendRefused
<1> QED
  BY <1>3, <1>4

LEMMA Records ==
  ASSUME StoreType
  PROVE  /\ BootRecord(state.epoch) \in Record /\ PolicyRecord(policy) \in Record
         /\ InterruptionRecord \in Record /\ CheckpointRecord(SnapshotSeq) \in Record
         /\ \A f \in FenceState : FenceRecord(f) \in Record
BY SnapshotType DEF StoreType, DurableState, Record

LEMMA NotZero ==
  /\ \A e : BootRecord(e) # ZeroRecord
  /\ \A q : PolicyRecord(q) # ZeroRecord
  /\ InterruptionRecord # ZeroRecord /\ DecisionRecord # ZeroRecord
  /\ \A f : FenceRecord(f) # ZeroRecord
  /\ \A n : CheckpointRecord(n) # ZeroRecord
BY DEF BootRecord, PolicyRecord, InterruptionRecord, DecisionRecord, FenceRecord,
       CheckpointRecord, ZeroRecord

LEMMA ClosedType ==
  ASSUME NEW f \in FenceState
  PROVE  Closed(f) \in FenceState /\ Closed(f).id = f.id /\ ~Closed(f).open
BY DEF Closed, FenceState

(* What clients commit. *)
LEMMA ClientRecord ==
  ASSUME StoreType, NEW rec \in ClientRecords
  PROVE  /\ rec \in Record /\ rec # ZeroRecord
         /\ \/ rec = DecisionRecord
            \/ \E f \in FenceState :
                 /\ rec = FenceRecord(f)
                 /\ \/ f.epoch = state.epoch /\ f.open /\ ~Known(state, f)
                    \/ ~f.open /\ Known(state, f)
<1>1. CASE rec = DecisionRecord
  BY <1>1, NotZero DEF Record
<1>2. CASE \E f \in NewFences : rec = FenceRecord(f)
  <2>1. PICK f \in NewFences : rec = FenceRecord(f)
    BY <1>2
  <2>2. f \in FenceState /\ f.epoch = state.epoch /\ f.open /\ ~Known(state, f)
    BY DEF NewFences, FenceState, StoreType, DurableState
  <2> QED
    BY <2>1, <2>2, NotZero DEF Record
<1>3. CASE \E g \in OpenFences : rec = FenceRecord(Closed(g))
  <2>1. PICK g \in OpenFences : rec = FenceRecord(Closed(g))
    BY <1>3
  <2>2. g \in FenceState /\ g \in state.fences
    BY DEF OpenFences, StoreType, DurableState
  <2>3. Closed(g) \in FenceState /\ Closed(g).id = g.id /\ ~Closed(g).open
    BY <2>2, ClosedType
  <2>4. Known(state, Closed(g))
    BY <2>2, <2>3 DEF Known
  <2> QED
    BY <2>1, <2>3, <2>4, NotZero DEF Record
<1> QED
  BY <1>1, <1>2, <1>3 DEF ClientRecords

LEMMA WithFenceType ==
  ASSUME NEW st \in DurableState, NEW f \in FenceState
  PROVE  WithFence(st, f) \in DurableState /\ WithFence(st, f).epoch = st.epoch
BY DEF WithFence, DurableState

LEMMA NextCases ==
  ASSUME [Next]_vars
  PROVE  \/ Open \/ OpenRefused \/ FinishOpen \/ WriteSnapshot \/ Rotate \/ RotateFails
         \/ Close \/ Crash \/ UNCHANGED vars
         \/ \E ok \in BOOLEAN : CommitBoot(ok) \/ CommitPolicy(ok) \/ CommitCheckpoint(ok)
         \/ \E ok \in BOOLEAN, f \in OpenFences : CommitInterruption(f, ok)
         \/ \E ok \in BOOLEAN, f \in closing : CommitRestartFence(f, ok)
         \/ \E ok \in BOOLEAN, rec \in ClientRecords : CommitRecord(rec, ok)
BY DEF Next, OpenStep

LEMMA PrefixType ==
  ASSUME NEW j \in Seq(ItemType), NEW b \in 0..Len(j)
  PROVE  /\ SubSeq(j, 1, b) \in Seq(ItemType) /\ Len(SubSeq(j, 1, b)) = b
         /\ \A i \in 1..b : SubSeq(j, 1, b)[i] = j[i]
<1>1. \A i \in 1..b : j[i] \in ItemType
  OBVIOUS
<1>2. 1 \in Int /\ b \in Int
  OBVIOUS
<1>3. /\ SubSeq(j, 1, b) \in Seq(ItemType)
      /\ Len(SubSeq(j, 1, b)) = IF 1 <= b THEN b - 1 + 1 ELSE 0
      /\ \A i \in 1..(b - 1 + 1) : SubSeq(j, 1, b)[i] = j[1 + i - 1]
  BY <1>1, <1>2, SubSeqProperties
<1>4. b - 1 + 1 = b /\ (~(1 <= b) => b = 0) /\ \A i \in 1..b : 1 + i - 1 = i
  OBVIOUS
<1> QED
  BY <1>3, <1>4

(* open() found b records to replay; what it cut off was a torn tail. *)
LEMMA Opened ==
  ASSUME StoreType, Open
  PROVE  /\ ~Overshot
         /\ \E b \in 0..Len(journal), s \in DurableState :
              /\ Replays(journal, b, SnapshotSeq + 1, Start(state), s)
              /\ state' = [s EXCEPT !.epoch = s.epoch + 1]
              /\ lastSeq' = SnapshotSeq + b
              /\ \/ b = Len(journal) /\ journal' = journal
                 \/ b < Len(journal) /\ TornAt(journal, b + 1, SnapshotSeq + 1) /\ journal' = SubSeq(journal, 1, b)
                 \/ b < Len(journal) /\ ZeroFrom(journal, b + 1) /\ journal' = journal
<1>1. ~Overshot
  <2>1. Recovered(state).outcome = "Ok"
    BY DEF Open
  <2>2. state \in DurableState
    BY DEF StoreType
  <2>3. ASSUME Overshot PROVE FALSE
    <3>1. Recovered(state) = Ended("Oversized", FALSE, 0, Start(state))
      BY <2>2, <2>3, RecoveringOvershot
    <3> QED
      BY <2>1, <3>1 DEF Ended
  <2> QED
    BY <2>3
<1>2. PICK b \in 0..Len(journal), s \in DurableState :
        ScanResult(journal, Len(journal), SnapshotSeq + 1, Start(state), b, s, Recovered(state))
  BY <1>1, Recovering DEF StoreType
<1>3. PICK scan : scan = Recovered(state)
  OBVIOUS
<1>4. /\ scan.outcome = "Ok"
      /\ journal' = IF scan.torn THEN SubSeq(journal, 1, scan.records) ELSE journal
      /\ state' = [scan.state EXCEPT !.epoch = @ + 1]
      /\ lastSeq' = SnapshotSeq + scan.records
  BY <1>3 DEF Open
<1>5. CASE b = Len(journal) /\ scan = Run(b, s)
  <2>1. ~scan.torn /\ scan.records = b /\ scan.state = s
    BY <1>5 DEF Run
  <2> QED
    BY <1>1, <1>2, <1>4, <1>5, <2>1 DEF ScanResult
<1>6. CASE b < Len(journal) /\ TornAt(journal, b + 1, SnapshotSeq + 1) /\ scan = Ended("Ok", TRUE, b, s)
  <2>1. scan.torn /\ scan.records = b /\ scan.state = s
    BY <1>6 DEF Ended
  <2> QED
    BY <1>1, <1>2, <1>4, <1>6, <2>1 DEF ScanResult
<1>7. CASE b < Len(journal) /\ ZeroFrom(journal, b + 1) /\ scan = Ended("Ok", FALSE, b, s)
  <2>1. ~scan.torn /\ scan.records = b /\ scan.state = s
    BY <1>7 DEF Ended
  <2> QED
    BY <1>1, <1>2, <1>4, <1>7, <2>1 DEF ScanResult
<1>8. scan # Ended("Exhausted", FALSE, b, s) /\ scan # Ended("Corrupt", FALSE, b, s)
  BY <1>4 DEF Ended
<1> QED
  BY <1>2, <1>3, <1>5, <1>6, <1>7, <1>8 DEF ScanResult, Ending

(* What a crash leaves of the append it interrupts. *)
LEMMA CrashShape ==
  ASSUME StoreType, Crash
  PROVE  \/ journal' = journal
         \/ \E x \in ItemType : journal' = Append(journal, x)
<1>0. lastSeq + 1 \in Nat
  BY DEF StoreType
<1>1. \A rec \in InProgress : rec \in Record
  BY Records, ClientRecord DEF InProgress, StoreType
<1>2. ASSUME NEW rec \in InProgress, NEW have \in 0..SizeOf(rec)
      PROVE  Item(lastSeq + 1, rec, have) \in ItemType
  BY <1>0, <1>1, Itemized
<1>3. ASSUME NEW rec \in InProgress
      PROVE  ZeroItem(SizeOf(rec)) \in ItemType
  <2>1. SizeOf(rec) \in Nat \ {0}
    BY Sized
  <2> QED
    BY <2>1 DEF ZeroItem, ItemType, Record
<1> QED
  BY <1>2, <1>3 DEF Crash

LEMMA TypeInit == Init => StoreType /\ Phases
<1> SUFFICES ASSUME Init PROVE StoreType /\ Phases
  OBVIOUS
<1>1. <<>> \in Seq(ItemType)
  OBVIOUS
<1> QED
  BY <1>1, EmptyType DEF Init, StoreType, Phases

LEMMA TypeStep ==
  ASSUME StoreType, Phases, [Next]_vars
  PROVE  StoreType' /\ Phases'
<1>1. CASE Open
  <2>1. PICK b \in 0..Len(journal), s \in DurableState :
              /\ state' = [s EXCEPT !.epoch = s.epoch + 1]
              /\ lastSeq' = SnapshotSeq + b
              /\ journal' = journal \/ journal' = SubSeq(journal, 1, b)
    BY <1>1, Opened
  <2>2. journal \in Seq(ItemType)
    BY DEF StoreType
  <2>3. journal' \in Seq(ItemType)
    BY <2>1, <2>2, PrefixType
  <2>4. bytes' \in Nat
    BY <1>1, <2>3, BytesNat DEF Open
  <2>5. state' \in DurableState
    BY <2>1 DEF DurableState
  <2>6. lastSeq' \in Nat
    BY <2>1, SnapshotType
  <2> QED
    BY <1>1, <2>3, <2>4, <2>5, <2>6 DEF Open, StoreType, Phases, OpenPhases
<1>2. CASE OpenRefused
  <2>1. Recovered(state).state \in DurableState
    BY RecoveredState DEF StoreType
  <2> QED
    BY <1>2, <2>1 DEF OpenRefused, StoreType, Phases, OpenPhases, disk
<1>3. CASE FinishOpen
  <2>1. state.epoch \in Nat
    BY DEF StoreType, DurableState
  <2> QED
    BY <1>3, <2>1 DEF FinishOpen, StoreType, Phases, OpenPhases, disk
<1>4. CASE WriteSnapshot
  <2>1. \E n \in Nat, s \in DurableState : snapshot' = {[seq |-> n, state |-> s]}
    BY <1>4 DEF WriteSnapshot, StoreType
  <2>2. StoreType'
    BY <1>4, <2>1 DEF WriteSnapshot, StoreType
  <2> QED
    BY <1>4, <2>2 DEF WriteSnapshot, Ready, Phases, OpenPhases
<1>5. CASE Rotate
  <2>1. <<>> \in Seq(ItemType)
    OBVIOUS
  <2> QED
    BY <1>5, <2>1 DEF Rotate, StoreType, Phases, OpenPhases
<1>6. CASE RotateFails
  BY <1>6 DEF RotateFails, StoreType, Phases, OpenPhases, disk
<1>7. CASE Close
  BY <1>7 DEF Close, StoreType, Phases, OpenPhases, disk
<1>8. CASE Crash
  <2>1. journal' \in Seq(ItemType)
    <3>1. journal \in Seq(ItemType)
      BY DEF StoreType
    <3> QED
      BY <1>8, <3>1, CrashShape, AppendProperties
  <2>2. StoreType'
    BY <1>8, <2>1, EmptyType DEF Crash, StoreType
  <2> QED
    BY <1>8, <2>2 DEF Crash, Phases, OpenPhases
<1>9. CASE UNCHANGED vars
  BY <1>9 DEF vars, disk, memory, StoreType, Phases, OpenPhases
<1>10. ASSUME NEW ok \in BOOLEAN, CommitBoot(ok) PROVE StoreType' /\ Phases'
  <2>1. lastSeq' \in Nat /\ bytes' \in Nat /\ journal' \in Seq(ItemType)
    BY <1>10, Records, Committed DEF CommitBoot
  <2> QED
    BY <1>10, <2>1 DEF CommitBoot, StoreType, Phases, OpenPhases
<1>11. ASSUME NEW ok \in BOOLEAN, CommitPolicy(ok) PROVE StoreType' /\ Phases'
  <2>1. lastSeq' \in Nat /\ bytes' \in Nat /\ journal' \in Seq(ItemType)
    BY <1>11, Records, Committed DEF CommitPolicy
  <2>2. state' \in DurableState
    BY <1>11, Records, NotZero, Applying DEF CommitPolicy, StoreType
  <2> QED
    BY <1>11, <2>1, <2>2 DEF CommitPolicy, StoreType, Phases, OpenPhases
<1>12. ASSUME NEW ok \in BOOLEAN, CommitCheckpoint(ok) PROVE StoreType' /\ Phases'
  <2>1. lastSeq' \in Nat /\ bytes' \in Nat /\ journal' \in Seq(ItemType)
    BY <1>12, Records, Committed DEF CommitCheckpoint
  <2> QED
    BY <1>12, <2>1 DEF CommitCheckpoint, StoreType, Phases, OpenPhases
<1>13. ASSUME NEW ok \in BOOLEAN, NEW f \in OpenFences, CommitInterruption(f, ok)
       PROVE  StoreType' /\ Phases'
  <2>1. lastSeq' \in Nat /\ bytes' \in Nat /\ journal' \in Seq(ItemType)
    BY <1>13, Records, Committed DEF CommitInterruption
  <2>2. f \in FenceState
    BY DEF OpenFences, StoreType, DurableState
  <2>3. Closed(f) \in FenceState
    BY <2>2, ClosedType
  <2>4. WithFence(state, Closed(f)) \in DurableState
    BY <2>3, WithFenceType DEF StoreType
  <2>5. Applied(WithFence(state, Closed(f)), InterruptionRecord) \in DurableState
    BY <2>4, Records, NotZero, Applying
  <2>6. state' \in DurableState
    BY <1>13, <2>4, <2>5 DEF CommitInterruption
  <2> QED
    BY <1>13, <2>1, <2>3, <2>6 DEF CommitInterruption, StoreType, Phases, OpenPhases
<1>14. ASSUME NEW ok \in BOOLEAN, NEW f \in closing, CommitRestartFence(f, ok)
       PROVE  StoreType' /\ Phases'
  <2>0. f \in FenceState
    BY DEF StoreType
  <2>1. lastSeq' \in Nat /\ bytes' \in Nat /\ journal' \in Seq(ItemType)
    BY <1>14, <2>0, Records, Committed DEF CommitRestartFence
  <2>2. Applied(state, FenceRecord(f)) \in DurableState
    BY <2>0, Records, NotZero, Applying DEF StoreType
  <2>3. state' \in DurableState
    BY <1>14, <2>2 DEF CommitRestartFence, StoreType
  <2> QED
    BY <1>14, <2>1, <2>3 DEF CommitRestartFence, StoreType, Phases, OpenPhases
<1>15. ASSUME NEW ok \in BOOLEAN, NEW rec \in ClientRecords, CommitRecord(rec, ok)
       PROVE  StoreType' /\ Phases'
  <2>0. rec \in Record /\ rec # ZeroRecord
    BY ClientRecord
  <2>1. lastSeq' \in Nat /\ bytes' \in Nat /\ journal' \in Seq(ItemType)
    BY <1>15, <2>0, Committed DEF CommitRecord
  <2>2. Applied(state, rec) \in DurableState
    BY <2>0, Applying DEF StoreType
  <2>3. state' \in DurableState
    BY <1>15, <2>2 DEF CommitRecord, StoreType
  <2>4. promised' \in DurableState
    BY <1>15, <2>3 DEF CommitRecord, StoreType
  <2> QED
    BY <1>15, <2>1, <2>3, <2>4 DEF CommitRecord, Ready, StoreType, Phases, OpenPhases
<1> QED
  BY <1>1, <1>2, <1>3, <1>4, <1>5, <1>6, <1>7, <1>8, <1>9, <1>10, <1>11, <1>12, <1>13, <1>14,
     <1>15, NextCases
-----------------------------------------------------------------------------
(* Epochs.  The boot record of an epoch that has served stays where every scan that
   does not refuse the journal must come by. *)

Intact(j) == \A i \in 1..Len(j) : Zero(j[i]) \/ Whole(j[i])

BootAt(j, e) ==
  \E p \in 1..Len(j) : /\ Whole(j[p]) /\ j[p].rec = BootRecord(e)
                       /\ \A i \in 1..p : Zero(j[i]) \/ Whole(j[i])

EpochInv ==
  /\ \A e \in epochs : e <= Start(EmptyState).epoch \/ BootAt(journal, e)
  /\ pc = "boot" => Intact(journal)
  /\ pc \in OpenPhases => \A e \in epochs : e < state.epoch
  /\ pc \in OpenPhases \ {"boot"} => BootAt(journal, state.epoch)
  /\ serving => \A e \in epochs : e <= state.epoch
  /\ pc = "rotate" => Start(EmptyState).epoch = state.epoch

LEMMA Appended ==
  ASSUME NEW j \in Seq(ItemType), NEW x \in ItemType
  PROVE  /\ Append(j, x) \in Seq(ItemType) /\ Len(Append(j, x)) = Len(j) + 1
         /\ \A i \in 1..Len(j) : Append(j, x)[i] = j[i]
         /\ Append(j, x)[Len(j) + 1] = x
BY AppendProperties

LEMMA BootKept ==
  ASSUME NEW j \in Seq(ItemType), NEW x \in ItemType, NEW e, BootAt(j, e)
  PROVE  BootAt(Append(j, x), e)
<1>1. PICK k : k = Append(j, x)
  OBVIOUS
<1>2. Len(k) = Len(j) + 1 /\ \A i \in 1..Len(j) : k[i] = j[i]
  BY <1>1, Appended
<1>3. PICK p \in 1..Len(j) : /\ Whole(j[p]) /\ j[p].rec = BootRecord(e)
                             /\ \A i \in 1..p : Zero(j[i]) \/ Whole(j[i])
  BY DEF BootAt
<1>4. p \in 1..Len(k) /\ \A i \in 1..p : i \in 1..Len(j)
  BY <1>2
<1>5. k[p] = j[p] /\ \A i \in 1..p : k[i] = j[i]
  BY <1>2, <1>4
<1>6. BootAt(k, e)
  BY <1>3, <1>4, <1>5 DEF BootAt
<1> QED
  BY <1>1, <1>6

LEMMA BootAdded ==
  ASSUME NEW j \in Seq(ItemType), NEW n \in Nat, NEW e \in Nat, Intact(j)
  PROVE  BootAt(Append(j, Item(n, BootRecord(e), SizeOf(BootRecord(e)))), e)
<1>0. PICK x \in ItemType : /\ x = Item(n, BootRecord(e), SizeOf(BootRecord(e)))
                            /\ x.rec = BootRecord(e) /\ x.have = x.need
  <2>1. BootRecord(e) \in Record
    BY DEF Record
  <2>2. SizeOf(BootRecord(e)) \in 0..SizeOf(BootRecord(e))
    BY Sized
  <2>3. Item(n, BootRecord(e), SizeOf(BootRecord(e))) \in ItemType
    BY <2>1, <2>2, Itemized
  <2> QED
    BY <2>3 DEF Item
<1>1. PICK k : k = Append(j, x)
  OBVIOUS
<1>2. Len(k) = Len(j) + 1 /\ k[Len(j) + 1] = x /\ \A i \in 1..Len(j) : k[i] = j[i]
  BY <1>1, Appended
<1>3. Whole(x)
  BY <1>0, NotZero DEF Whole, Zero
<1>4. \A i \in 1..(Len(j) + 1) : Zero(k[i]) \/ Whole(k[i])
  <2> SUFFICES ASSUME NEW i \in 1..(Len(j) + 1) PROVE Zero(k[i]) \/ Whole(k[i])
    OBVIOUS
  <2>1. CASE i = Len(j) + 1
    BY <2>1, <1>2, <1>3
  <2>2. CASE i # Len(j) + 1
    <3>1. i \in 1..Len(j)
      BY <2>2
    <3> QED
      BY <3>1, <1>2 DEF Intact
  <2> QED
    BY <2>1, <2>2
<1>5. Len(j) + 1 \in 1..Len(k)
  BY <1>2
<1>6. BootAt(k, e)
  BY <1>0, <1>2, <1>3, <1>4, <1>5 DEF BootAt
<1> QED
  BY <1>0, <1>1, <1>6

(* A scan does not end at a whole record. *)
LEMMA WholeNotTorn ==
  ASSUME NEW j \in Seq(ItemType), NEW n \in 1..Len(j), Whole(j[n])
  PROVE  ~ZeroFrom(j, n) /\ \A first : ~TornAt(j, n, first)
<1>1. j[n].have \in Nat /\ j[n].need \in Nat \ {0} /\ j[n].have = j[n].need /\ ~Zero(j[n])
  BY DEF ItemType, Whole
<1>2. Bytes(SubSeq(j, n, Len(j))) \in Nat /\ Bytes(SubSeq(j, n, Len(j))) >= j[n].have
  BY BytesRest
<1>3. \A first : ~TornAt(j, n, first)
  <2> DEFINE r == Bytes(SubSeq(j, n, Len(j)))
  <2>1. r \in Nat /\ r >= j[n].have
    BY <1>2
  <2> HIDE DEF r
  <2>2. ~(j[n].need > r) /\ j[n].have # 0
    BY <1>1, <2>1
  <2> QED
    BY <2>2 DEF TornAt, RestBytes, r
<1>4. n \in n..Len(j)
  OBVIOUS
<1> QED
  BY <1>1, <1>3, <1>4 DEF ZeroFrom

LEMMA BootPassed ==
  ASSUME NEW j \in Seq(ItemType), NEW e, BootAt(j, e), NEW b \in 0..Len(j), NEW first,
         b < Len(j) => TornAt(j, b + 1, first) \/ ZeroFrom(j, b + 1)
  PROVE  /\ BootAt(SubSeq(j, 1, b), e)
         /\ \E p \in 1..b : j[p].rec = BootRecord(e)
<1>1. PICK p \in 1..Len(j) : /\ Whole(j[p]) /\ j[p].rec = BootRecord(e)
                             /\ \A i \in 1..p : Zero(j[i]) \/ Whole(j[i])
  BY DEF BootAt
<1>2. p <= b
  <2> SUFFICES ASSUME b < p PROVE FALSE
    OBVIOUS
  <2>1. b + 1 \in 1..p /\ b + 1 \in 1..Len(j) /\ b < Len(j)
    OBVIOUS
  <2>2. CASE Whole(j[b + 1])
    BY <2>1, <2>2, WholeNotTorn
  <2>3. CASE Zero(j[b + 1])
    <3>1. ZeroFrom(j, b + 1)
      BY <2>1, <2>3 DEF TornAt
    <3>2. p \in (b + 1)..Len(j)
      BY <2>1
    <3> QED
      BY <1>1, <3>1, <3>2 DEF ZeroFrom, Whole
  <2> QED
    BY <1>1, <2>1, <2>2, <2>3
<1>3. PICK k : k = SubSeq(j, 1, b)
  OBVIOUS
<1>4. Len(k) = b /\ \A i \in 1..b : k[i] = j[i]
  BY <1>3, PrefixType
<1>5. p \in 1..b /\ \A i \in 1..p : i \in 1..b
  BY <1>2
<1>6. BootAt(k, e)
  BY <1>1, <1>4, <1>5 DEF BootAt
<1> QED
  BY <1>1, <1>3, <1>5, <1>6

LEMMA ReplayedIntact ==
  ASSUME NEW j, NEW b \in Nat, NEW first \in Nat, NEW st, NEW s, Replays(j, b, first, st, s)
  PROVE  \A i \in 1..b : Whole(j[i]) /\ j[i].seq = first + i - 1
BY DEF Replays, Step

LEMMA Grown ==
  ASSUME StoreType, NEW rec \in Record, NEW ok \in BOOLEAN, Commit(rec, ok)
  PROVE  \A e : BootAt(journal, e) => BootAt(journal', e)
<1> SUFFICES ASSUME NEW e, BootAt(journal, e) PROVE BootAt(journal', e)
  OBVIOUS
<1>0. journal \in Seq(ItemType) /\ lastSeq + 1 \in Nat /\ SizeOf(rec) \in Nat
  BY Sized DEF StoreType
<1>1. \/ journal' = journal
      \/ \E have \in 0..SizeOf(rec) : journal' = Append(journal, Item(lastSeq + 1, rec, have))
  BY <1>0, Committed
<1>2. ASSUME NEW have \in 0..SizeOf(rec), journal' = Append(journal, Item(lastSeq + 1, rec, have))
      PROVE  BootAt(journal', e)
  <2>1. Item(lastSeq + 1, rec, have) \in ItemType
    BY <1>0, Itemized
  <2> QED
    BY <1>0, <1>2, <2>1, BootKept
<1> QED
  BY <1>1, <1>2

LEMMA FenceEpoch ==
  ASSUME NEW st \in DurableState, NEW f \in FenceState
  PROVE  Applied(st, FenceRecord(f)).epoch = st.epoch
<1>1. WithFence(st, f) \in DurableState /\ WithFence(st, f).epoch = st.epoch
  BY WithFenceType
<1>2. Applied(st, FenceRecord(f)) = PushLineage(WithFence(st, f))
  BY DEF Applied, FenceRecord
<1> QED
  BY <1>1, <1>2 DEF PushLineage, DurableState

(* An append that leaves the phases of serving and their epochs alone. *)
LEMMA EpochCommit ==
  ASSUME StoreType, Phases, EpochInv, NEW rec \in Record, NEW ok \in BOOLEAN, Commit(rec, ok),
         snapshot' = snapshot, epochs' = epochs, serving' = serving, state'.epoch = state.epoch,
         pc' \in (OpenPhases \ {"boot"}) \cup {"failed", "idle"},
         pc' \in OpenPhases => pc \in OpenPhases \ {"boot"}
  PROVE  EpochInv'
<1>1. \A e : BootAt(journal, e) => BootAt(journal', e)
  BY Grown
<1>2. Start(EmptyState)' = Start(EmptyState)
  BY DEF Start, Latest, EmptyState
<1>3. \A e \in epochs' : e <= Start(EmptyState)'.epoch \/ BootAt(journal', e)
  BY <1>1, <1>2 DEF EpochInv
<1>4. pc' # "boot" /\ pc' # "rotate"
  BY DEF OpenPhases
<1>5. ASSUME pc' \in OpenPhases
      PROVE  /\ \A e \in epochs' : e < state'.epoch
             /\ BootAt(journal', state'.epoch)
  <2>1. pc \in OpenPhases /\ pc \in OpenPhases \ {"boot"}
    BY <1>5
  <2> QED
    BY <1>1, <2>1 DEF EpochInv
<1>6. serving' => \A e \in epochs' : e <= state'.epoch
  BY DEF EpochInv
<1> QED
  BY <1>3, <1>4, <1>5, <1>6 DEF EpochInv

LEMMA EpochStep ==
  ASSUME StoreType, Phases, EpochInv, [Next]_vars
  PROVE  EpochInv'
<1>0. /\ journal \in Seq(ItemType) /\ state \in DurableState /\ state.epoch \in Nat
      /\ epochs \in SUBSET Nat /\ lastSeq + 1 \in Nat
  BY DEF StoreType, DurableState
<1>1. CASE Open
  <2>1. PICK b \in 0..Len(journal), s \in DurableState :
              /\ Replays(journal, b, SnapshotSeq + 1, Start(state), s)
              /\ state' = [s EXCEPT !.epoch = s.epoch + 1]
              /\ \/ b = Len(journal) /\ journal' = journal
                 \/ b < Len(journal) /\ TornAt(journal, b + 1, SnapshotSeq + 1) /\ journal' = SubSeq(journal, 1, b)
                 \/ b < Len(journal) /\ ZeroFrom(journal, b + 1) /\ journal' = journal
    BY <1>1, Opened
  <2>2. /\ snapshot' = snapshot /\ epochs' = epochs /\ serving' = serving /\ pc' = "boot"
        /\ ~opened /\ ~serving
    BY <1>1 DEF Open, Phases
  <2>3. SnapshotSeq + 1 \in Nat /\ b \in Nat
    BY SnapshotType
  <2>4. \A i \in 1..b : Whole(journal[i])
    BY <2>1, <2>3, ReplayedIntact
  <2>5. Intact(journal')
    <3>1. CASE b = Len(journal) /\ journal' = journal
      BY <2>4, <3>1 DEF Intact
    <3>2. CASE journal' = SubSeq(journal, 1, b)
      BY <1>0, <2>4, <3>2, PrefixType DEF Intact
    <3>3. CASE b < Len(journal) /\ ZeroFrom(journal, b + 1) /\ journal' = journal
      <4>1. \A i \in 1..Len(journal) : i \in 1..b \/ i \in (b + 1)..Len(journal)
        BY <2>3
      <4> QED
        BY <2>4, <3>3, <4>1 DEF Intact, ZeroFrom
    <3> QED
      BY <2>1, <3>1, <3>2, <3>3
  <2>6. Start(EmptyState)' = Start(EmptyState) /\ Start(EmptyState).epoch \in Nat
    BY <2>2, SnapshotType, EmptyType DEF Start, Latest, EmptyState, DurableState
  <2>7. s.epoch \in Nat /\ state'.epoch = s.epoch + 1
    BY <2>1 DEF DurableState
  <2>8. s.epoch >= Start(state).epoch /\ \A p \in 1..b, x \in Nat : journal[p].rec = BootRecord(x) => s.epoch >= x
    BY <1>0, <2>1, <2>3, ReplaysEpoch
  <2>9. s.epoch >= Start(EmptyState).epoch
    <3>1. CASE snapshot = {}
      BY <3>1, <2>7, EmptyType DEF Start
    <3>2. CASE snapshot # {}
      BY <3>2, <2>8 DEF Start
    <3> QED
      BY <3>1, <3>2
  <2>10. ASSUME NEW e \in epochs
         PROVE  /\ e < state'.epoch
                /\ e <= Start(EmptyState)'.epoch \/ BootAt(journal', e)
    <3>0. e \in Nat
      BY <1>0
    <3>1. CASE e <= Start(EmptyState).epoch
      BY <3>0, <3>1, <2>6, <2>7, <2>9
    <3>2. CASE BootAt(journal, e)
      <4>1. b < Len(journal) => TornAt(journal, b + 1, SnapshotSeq + 1) \/ ZeroFrom(journal, b + 1)
        BY <2>1
      <4>2. BootAt(SubSeq(journal, 1, b), e) /\ \E p \in 1..b : journal[p].rec = BootRecord(e)
        BY <1>0, <3>2, <4>1, BootPassed
      <4>3. s.epoch >= e
        BY <3>0, <2>8, <4>2
      <4>4. BootAt(journal', e)
        BY <2>1, <3>2, <4>2
      <4> QED
        BY <3>0, <2>7, <4>3, <4>4
    <3> QED
      BY <3>1, <3>2 DEF EpochInv
  <2> QED
    BY <2>2, <2>5, <2>10 DEF EpochInv, OpenPhases
<1>2. CASE OpenRefused
  <2>1. /\ snapshot' = snapshot /\ journal' = journal /\ epochs' = epochs /\ serving' = serving
        /\ pc' = pc /\ pc = "idle" /\ ~serving
    BY <1>2 DEF OpenRefused, disk, Phases
  <2>2. Start(EmptyState)' = Start(EmptyState)
    BY <2>1 DEF Start, Latest, EmptyState
  <2> QED
    BY <2>1, <2>2 DEF EpochInv, OpenPhases
<1>3. CASE FinishOpen
  <2>1. /\ snapshot' = snapshot /\ journal' = journal /\ state' = state /\ pc' = "idle"
        /\ epochs' = epochs \cup {state.epoch} /\ pc = "fences"
    BY <1>3 DEF FinishOpen, disk
  <2>2. Start(EmptyState)' = Start(EmptyState)
    BY <2>1 DEF Start, Latest, EmptyState
  <2>3. /\ \A e \in epochs : e < state.epoch
        /\ BootAt(journal, state.epoch)
    BY <2>1 DEF EpochInv, OpenPhases
  <2>4. \A e \in epochs' : e <= Start(EmptyState)'.epoch \/ BootAt(journal', e)
    BY <2>1, <2>2, <2>3 DEF EpochInv
  <2>5. \A e \in epochs' : e <= state'.epoch
    BY <1>0, <2>1, <2>3
  <2> QED
    BY <2>1, <2>4, <2>5 DEF EpochInv, OpenPhases
<1>4. CASE WriteSnapshot
  <2>1. /\ snapshot' = {[seq |-> lastSeq, state |-> state]} /\ pc' = "rotate" /\ state' = state
        /\ epochs' = epochs /\ journal' = journal /\ serving' = serving /\ serving
    BY <1>4 DEF WriteSnapshot, Ready
  <2>2. Start(EmptyState)' = state
    <3>1. Latest' = [seq |-> lastSeq, state |-> state]
      BY <2>1 DEF Latest
    <3>2. snapshot' # {}
      BY <2>1
    <3> QED
      BY <3>1, <3>2 DEF Start
  <2>3. \A e \in epochs : e <= state.epoch
    BY <2>1 DEF EpochInv
  <2> QED
    BY <2>1, <2>2, <2>3 DEF EpochInv, OpenPhases
<1>5. CASE Rotate
  <2>1. /\ snapshot' = snapshot /\ pc' = "mark" /\ state' = state /\ pc = "rotate"
        /\ epochs' = epochs /\ serving' = serving /\ serving
    BY <1>5 DEF Rotate, Phases, OpenPhases
  <2>2. Start(EmptyState)' = Start(EmptyState)
    BY <2>1 DEF Start, Latest, EmptyState
  <2>3. \A e \in epochs : e <= state.epoch /\ Start(EmptyState).epoch = state.epoch
    BY <2>1 DEF EpochInv
  <2> QED
    BY <2>1, <2>2, <2>3 DEF EpochInv, OpenPhases
<1>6. CASE RotateFails \/ Close
  <2>1. /\ snapshot' = snapshot /\ journal' = journal /\ pc' = "idle" /\ state' = state
        /\ epochs' = epochs /\ (serving' => serving)
    BY <1>6 DEF RotateFails, Close, disk
  <2>2. Start(EmptyState)' = Start(EmptyState)
    BY <2>1 DEF Start, Latest, EmptyState
  <2> QED
    BY <2>1, <2>2 DEF EpochInv, OpenPhases
<1>7. CASE Crash
  <2>1. snapshot' = snapshot /\ pc' = "idle" /\ epochs' = epochs /\ ~serving'
    BY <1>7 DEF Crash
  <2>2. Start(EmptyState)' = Start(EmptyState)
    BY <2>1 DEF Start, Latest, EmptyState
  <2>3. \A e : BootAt(journal, e) => BootAt(journal', e)
    <3>1. journal' = journal \/ \E x \in ItemType : journal' = Append(journal, x)
      BY <1>7, CrashShape
    <3> QED
      BY <1>0, <3>1, BootKept
  <2> QED
    BY <2>1, <2>2, <2>3 DEF EpochInv, OpenPhases
<1>8. CASE UNCHANGED vars
  <2>1. /\ snapshot' = snapshot /\ journal' = journal /\ pc' = pc /\ state' = state
        /\ epochs' = epochs /\ serving' = serving
    BY <1>8 DEF vars, disk, memory
  <2>2. Start(EmptyState)' = Start(EmptyState)
    BY <2>1 DEF Start, Latest, EmptyState
  <2> QED
    BY <2>1, <2>2 DEF EpochInv, OpenPhases
<1>9. ASSUME NEW ok \in BOOLEAN, CommitBoot(ok) PROVE EpochInv'
  <2>1. /\ snapshot' = snapshot /\ epochs' = epochs /\ serving' = serving /\ state' = state
        /\ pc = "boot" /\ pc' = (IF ~ok THEN "failed" ELSE IF state.policy # policy THEN "policy" ELSE "fences")
        /\ Commit(BootRecord(state.epoch), ok) /\ BootRecord(state.epoch) \in Record
    BY <1>9, Records DEF CommitBoot
  <2>2. CASE ~ok
    BY <2>1, <2>2, EpochCommit DEF OpenPhases
  <2>3. CASE ok
    <3>1. journal' = Append(journal, Item(lastSeq + 1, BootRecord(state.epoch), SizeOf(BootRecord(state.epoch))))
      BY <2>1, <2>3, Committed
    <3>2. Intact(journal)
      BY <2>1 DEF EpochInv
    <3>3. BootAt(journal', state.epoch)
      BY <1>0, <3>1, <3>2, BootAdded
    <3>4. \A e : BootAt(journal, e) => BootAt(journal', e)
      BY <2>1, Grown
    <3>5. Start(EmptyState)' = Start(EmptyState)
      BY <2>1 DEF Start, Latest, EmptyState
    <3>6. pc' \in OpenPhases \ {"boot"} /\ pc' # "rotate" /\ ~serving'
      BY <2>1, <2>3 DEF OpenPhases, Phases
    <3>7. \A e \in epochs : e < state.epoch
      BY <2>1 DEF EpochInv, OpenPhases
    <3> QED
      BY <2>1, <3>3, <3>4, <3>5, <3>6, <3>7 DEF EpochInv
  <2> QED
    BY <2>2, <2>3
<1>10. ASSUME NEW ok \in BOOLEAN, CommitPolicy(ok) PROVE EpochInv'
  <2>1. state'.epoch = state.epoch
    BY <1>0, <1>10 DEF CommitPolicy, Applied, PolicyRecord, DurableState
  <2>2. /\ Commit(PolicyRecord(policy), ok) /\ PolicyRecord(policy) \in Record
        /\ snapshot' = snapshot /\ epochs' = epochs /\ serving' = serving
        /\ pc = "policy" /\ pc' \in {"fences", "failed"}
    BY <1>10, Records DEF CommitPolicy
  <2> QED
    BY <2>1, <2>2, EpochCommit DEF OpenPhases
<1>11. ASSUME NEW ok \in BOOLEAN, CommitCheckpoint(ok) PROVE EpochInv'
  <2>1. /\ Commit(CheckpointRecord(SnapshotSeq), ok) /\ CheckpointRecord(SnapshotSeq) \in Record
        /\ snapshot' = snapshot /\ epochs' = epochs /\ serving' = serving /\ state' = state
        /\ pc' = "idle"
    BY <1>11, Records DEF CommitCheckpoint
  <2> QED
    BY <2>1, EpochCommit DEF OpenPhases
<1>12. ASSUME NEW ok \in BOOLEAN, NEW f \in OpenFences, CommitInterruption(f, ok) PROVE EpochInv'
  <2>0. Closed(f) \in FenceState
    BY <1>0, ClosedType DEF OpenFences, DurableState
  <2>1. WithFence(state, Closed(f)) \in DurableState /\ WithFence(state, Closed(f)).epoch = state.epoch
    BY <1>0, <2>0, WithFenceType
  <2>2. state'.epoch = state.epoch
    BY <1>12, <2>1 DEF CommitInterruption, Applied, InterruptionRecord, PushLineage, DurableState
  <2>3. /\ Commit(InterruptionRecord, ok) /\ InterruptionRecord \in Record
        /\ snapshot' = snapshot /\ epochs' = epochs /\ serving' = serving
        /\ pc = "fences" /\ pc' \in {"close", "failed"}
    BY <1>12, Records DEF CommitInterruption
  <2> QED
    BY <2>2, <2>3, EpochCommit DEF OpenPhases
<1>13. ASSUME NEW ok \in BOOLEAN, NEW f \in closing, CommitRestartFence(f, ok) PROVE EpochInv'
  <2>0. f \in FenceState
    BY DEF StoreType
  <2>1. Applied(state, FenceRecord(f)).epoch = state.epoch
    BY <1>0, <2>0, FenceEpoch
  <2>2. state'.epoch = state.epoch
    BY <1>13, <2>1 DEF CommitRestartFence
  <2>3. /\ Commit(FenceRecord(f), ok) /\ FenceRecord(f) \in Record
        /\ snapshot' = snapshot /\ epochs' = epochs /\ serving' = serving
        /\ pc = "close" /\ pc' \in {"fences", "failed"}
    BY <1>13, <2>0, Records DEF CommitRestartFence
  <2> QED
    BY <2>2, <2>3, EpochCommit DEF OpenPhases
<1>14. ASSUME NEW ok \in BOOLEAN, NEW rec \in ClientRecords, CommitRecord(rec, ok) PROVE EpochInv'
  <2>0. rec \in Record
    BY ClientRecord
  <2>1. Applied(state, rec).epoch = state.epoch
    <3>1. CASE rec = DecisionRecord
      BY <1>0, <3>1 DEF Applied, DecisionRecord, PushLineage, DurableState
    <3>2. CASE rec # DecisionRecord
      <4>1. PICK f \in FenceState : rec = FenceRecord(f)
        BY <3>2, ClientRecord
      <4> QED
        BY <1>0, <4>1, FenceEpoch
    <3> QED
      BY <3>1, <3>2
  <2>2. state'.epoch = state.epoch
    BY <1>14, <2>1 DEF CommitRecord
  <2>3. /\ Commit(rec, ok)
        /\ snapshot' = snapshot /\ epochs' = epochs /\ serving' = serving
        /\ pc = "idle" /\ pc' = pc
    BY <1>14 DEF CommitRecord, Ready
  <2> QED
    BY <2>0, <2>2, <2>3, EpochCommit DEF OpenPhases
<1> QED
  BY <1>1, <1>2, <1>3, <1>4, <1>5, <1>6, <1>7, <1>8, <1>9, <1>10, <1>11, <1>12, <1>13, <1>14,
     NextCases

LEMMA EpochInvariance == Spec => [](StoreType /\ Phases /\ EpochInv)
<1>1. Init => StoreType /\ Phases /\ EpochInv
  <2>1. Init => EpochInv
    BY DEF Init, EpochInv, OpenPhases
  <2> QED
    BY <2>1, TypeInit
<1>2. StoreType /\ Phases /\ EpochInv /\ [Next]_vars => (StoreType /\ Phases /\ EpochInv)'
  BY TypeStep, EpochStep
<1> QED
  BY <1>1, <1>2, PTL DEF Spec

(* README section 6: whatever the platform does to appends, fsyncs, tails and rotations,
   a store that begins to serve does so under an epoch larger than every epoch that
   served before. *)
THEOREM EpochsNeverReused == Spec => EpochsIncrease
<1>1. StoreType /\ Phases /\ EpochInv /\ [Next]_vars
        => [~serving /\ serving' => \A e \in epochs : e < state'.epoch]_vars
  <2> SUFFICES ASSUME StoreType, Phases, EpochInv, [Next]_vars, ~serving, serving'
               PROVE  \A e \in epochs : e < state'.epoch
    OBVIOUS
  <2>1. FinishOpen
    BY NextCases DEF Open, OpenRefused, WriteSnapshot, Rotate, RotateFails, Close, Crash, vars,
       memory, CommitBoot, CommitPolicy, CommitCheckpoint, CommitInterruption,
       CommitRestartFence, CommitRecord
  <2> QED
    BY <2>1 DEF FinishOpen, EpochInv, OpenPhases
<1> QED
  BY <1>1, EpochInvariance, PTL DEF Spec, EpochsIncrease

-----------------------------------------------------------------------------
(* What a scan accepts: it replays c records and ends at the end of the journal, at a
   torn item or at a tail of zeros. *)
Accepts(j, c, first, st, s) ==
  /\ c \in 0..Len(j)
  /\ Replays(j, c, first, st, s)
  /\ c < Len(j) => TornAt(j, c + 1, first) \/ ZeroFrom(j, c + 1)

(* The scan of a journal answers Ok only for what it accepts. *)
LEMMA ScanAccepts ==
  ASSUME StoreType, NEW held \in DurableState, Recovered(held).outcome = "Ok"
  PROVE  Accepts(journal, Recovered(held).records, SnapshotSeq + 1, Start(held), Recovered(held).state)
<1>1. ~Overshot
  <2>1. SUFFICES ASSUME Overshot PROVE FALSE
    OBVIOUS
  <2>2. Recovered(held) = Ended("Oversized", FALSE, 0, Start(held))
    BY <2>1, RecoveringOvershot
  <2> QED
    BY <2>2 DEF Ended
<1>2. PICK b \in 0..Len(journal), s \in DurableState :
        ScanResult(journal, Len(journal), SnapshotSeq + 1, Start(held), b, s, Recovered(held))
  BY <1>1, Recovering
<1>3. PICK r : r = Recovered(held)
  OBVIOUS
<1>4. Replays(journal, b, SnapshotSeq + 1, Start(held), s)
  BY <1>2 DEF ScanResult
<1>5. r.records = b /\ r.state = s
      /\ (b < Len(journal) => TornAt(journal, b + 1, SnapshotSeq + 1) \/ ZeroFrom(journal, b + 1))
  <2>1. CASE b = Len(journal) /\ r = Run(b, s)
    BY <2>1 DEF Run
  <2>2. CASE b < Len(journal) /\ Ending(journal, SnapshotSeq + 1, s, b, r)
    <3>1. r.outcome = "Ok"
      BY <1>3
    <3> QED
      BY <2>2, <3>1 DEF Ending, Ended
  <2> QED
    BY <1>2, <1>3, <2>1, <2>2 DEF ScanResult
<1> QED
  BY <1>3, <1>4, <1>5 DEF Accepts

LEMMA AcceptsUnique ==
  ASSUME NEW j \in Seq(ItemType), NEW first \in Nat, NEW st, NEW c, NEW s, NEW d, NEW t,
         Accepts(j, c, first, st, s), Accepts(j, d, first, st, t)
  PROVE  c = d /\ s = t
<1>0. Len(j) \in Nat
  OBVIOUS
<1>1. c \in 0..Len(j) /\ d \in 0..Len(j) /\ c \in Nat /\ d \in Nat
  BY <1>0 DEF Accepts
<1>2. ASSUME NEW x \in 0..Len(j), NEW y \in 0..Len(j), NEW u, NEW v,
             Accepts(j, x, first, st, u), Accepts(j, y, first, st, v)
      PROVE  ~(x < y)
  <2>1. SUFFICES ASSUME x < y PROVE FALSE
    OBVIOUS
  <2>2. x + 1 \in 1..y /\ x + 1 \in 1..Len(j) /\ x < Len(j) /\ y \in Nat
    BY <2>1, <1>0
  <2>3. Whole(j[x + 1])
    BY <1>2, <2>2, ReplayedIntact DEF Accepts
  <2>4. ~ZeroFrom(j, x + 1) /\ ~TornAt(j, x + 1, first)
    BY <2>2, <2>3, WholeNotTorn
  <2> QED
    BY <1>2, <2>2, <2>4 DEF Accepts
<1>3. c = d
  BY <1>1, <1>2
<1> QED
  BY <1>1, <1>3, ReplaysUnique DEF Accepts

(* A journal cut behind what was replayed. *)
LEMMA AcceptsCut ==
  ASSUME NEW j \in Seq(ItemType), NEW first \in Nat, NEW st, NEW b \in 0..Len(j), NEW s,
         Replays(j, b, first, st, s), NEW c, NEW t, Accepts(SubSeq(j, 1, b), c, first, st, t)
  PROVE  c = b /\ t = s
<1>1. PICK k : k = SubSeq(j, 1, b)
  OBVIOUS
<1>2. k \in Seq(ItemType) /\ Len(k) = b /\ b \in Nat /\ \A i \in 1..b : k[i] = j[i]
  BY <1>1, PrefixType
<1>3. Replays(k, b, first, st, s)
  BY <1>2, ReplaysSame
<1>4. Accepts(k, b, first, st, s)
  BY <1>2, <1>3 DEF Accepts
<1> QED
  BY <1>1, <1>2, <1>4, AcceptsUnique

LEMMA RestAppended ==
  ASSUME NEW j \in Seq(ItemType), NEW x \in ItemType, NEW n \in 1..Len(j)
  PROVE  RestBytes(Append(j, x), n) = RestBytes(j, n) + x.have
<1>1. PICK k : k = Append(j, x)
  OBVIOUS
<1>2. k \in Seq(ItemType) /\ Len(k) = Len(j) + 1 /\ (\A i \in 1..Len(j) : k[i] = j[i]) /\ k[Len(j) + 1] = x
  BY <1>1, Appended
<1>3. PICK r : r = SubSeq(j, n, Len(j))
  OBVIOUS
<1>4. PICK q : q = SubSeq(k, n, Len(k))
  OBVIOUS
<1>5. r \in Seq(ItemType) /\ Len(r) = Len(j) - n + 1 /\ \A i \in 1..Len(r) : r[i] = j[n + i - 1]
  <2>1. PICK a, b \in Int : a = n /\ b = Len(j)
    OBVIOUS
  <2>2. \A i \in a..b : j[i] \in ItemType
    BY <2>1, ElementOfSeq
  <2>3. r = SubSeq(j, a, b)
    BY <2>1, <1>3
  <2> QED
    BY <2>1, <2>2, <2>3, SubSeqProperties
<1>6. q \in Seq(ItemType) /\ Len(q) = Len(k) - n + 1 /\ \A i \in 1..Len(q) : q[i] = k[n + i - 1]
  <2>1. PICK a, b \in Int : a = n /\ b = Len(k)
    BY <1>2
  <2>2. \A i \in a..b : k[i] \in ItemType
    BY <2>1, <1>2, ElementOfSeq
  <2>3. q = SubSeq(k, a, b)
    BY <2>1, <1>4
  <2> QED
    BY <2>1, <2>2, <2>3, <1>2, SubSeqProperties
<1>7. PICK p : p = Append(r, x)
  OBVIOUS
<1>8. p \in Seq(ItemType) /\ Len(p) = Len(r) + 1 /\ (\A i \in 1..Len(r) : p[i] = r[i]) /\ p[Len(r) + 1] = x
  BY <1>5, <1>7, Appended
<1>9. q = p
  <2>1. Len(q) = Len(p)
    BY <1>2, <1>5, <1>6, <1>8
  <2>2. ASSUME NEW i \in 1..Len(q) PROVE q[i] = p[i]
    <3>1. CASE i = Len(r) + 1
      <4>1. q[i] = k[n + i - 1] /\ n + i - 1 = Len(j) + 1
        BY <1>5, <1>6, <3>1
      <4> QED
        BY <4>1, <1>2, <1>8, <3>1
    <3>2. CASE i \in 1..Len(r)
      <4>1. q[i] = k[n + i - 1] /\ n + i - 1 \in 1..Len(j)
        BY <1>5, <1>6, <3>2
      <4> QED
        BY <4>1, <1>2, <1>5, <1>8, <3>2
    <3>3. i = Len(r) + 1 \/ i \in 1..Len(r)
      <4>1. Len(r) \in Nat /\ Len(q) = Len(r) + 1
        BY <1>5, <1>8, <2>1
      <4> QED
        BY <4>1
    <3> QED
      BY <3>1, <3>2, <3>3
  <2> QED
    BY <2>1, <2>2, <1>6, <1>8, SeqEqual
<1>10. Bytes(p) = Bytes(r) + x.have
  BY <1>5, <1>7, BytesAppend
<1> QED
  BY <1>1, <1>3, <1>4, <1>9, <1>10 DEF RestBytes

(* What a scan accepts after an append: what it accepted before, or one record more. *)
LEMMA AcceptsAppend ==
  ASSUME NEW j \in Seq(ItemType), NEW x \in ItemType, NEW first \in Nat, NEW st, NEW c, NEW s,
         Accepts(Append(j, x), c, first, st, s)
  PROVE  \/ /\ c = Len(j) + 1
            /\ \E t \in DurableState :
                 Accepts(j, Len(j), first, st, t) /\ Step(x, first + Len(j), t, s)
         \/ /\ Accepts(j, c, first, st, s)
            /\ c < Len(j) => TornAt(j, c + 1, first) \/ (Zero(x) /\ ZeroFrom(j, c + 1))
            /\ c = Len(j) => \/ Zero(x)
                             \/ x.have = 0
                             \/ x.seq = first + Len(j) /\ x.have < x.need
<1>1. PICK k : k = Append(j, x)
  OBVIOUS
<1>2. /\ k \in Seq(ItemType) /\ Len(k) = Len(j) + 1 /\ (\A i \in 1..Len(j) : k[i] = j[i])
      /\ k[Len(j) + 1] = x /\ Len(j) \in Nat
  BY <1>1, Appended
<1>3. /\ c \in 0..Len(k) /\ c \in Nat /\ Replays(k, c, first, st, s)
      /\ c < Len(k) => TornAt(k, c + 1, first) \/ ZeroFrom(k, c + 1)
  BY <1>1, <1>2 DEF Accepts
<1>4. CASE c = Len(j) + 1
  <2>1. Len(j) \in 0..c /\ Len(j) < c
    BY <1>2, <1>4
  <2>2. PICK t \in DurableState :
           /\ Replays(k, Len(j), first, st, t)
           /\ \E u : Step(k[Len(j) + 1], first + Len(j), t, u)
    BY <1>3, <2>1, ReplaysPrefix
  <2>3. PICK u : Step(x, first + Len(j), t, u)
    BY <1>2, <2>2
  <2>4. u \in DurableState
    BY <2>3, Applying DEF Step, Whole, Zero, ItemType
  <2>5. Replays(k, Len(j) + 1, first, st, u)
    BY <1>2, <2>2, <2>3, <2>4, ReplaysMore
  <2>6. u = s
    BY <1>2, <1>3, <1>4, <2>5, ReplaysUnique
  <2>7. Replays(j, Len(j), first, st, t)
    BY <1>2, <2>2, ReplaysSame
  <2>8. Accepts(j, Len(j), first, st, t)
    BY <1>2, <2>7 DEF Accepts
  <2> QED
    BY <1>4, <2>3, <2>6, <2>8
<1>5. CASE c # Len(j) + 1
  <2>1. c \in 0..Len(j) /\ c < Len(k) /\ c + 1 \in 1..Len(k)
    BY <1>2, <1>3, <1>5
  <2>2. Replays(j, c, first, st, s)
    BY <1>2, <1>3, <2>1, ReplaysSame
  <2>3. CASE c = Len(j)
    <3>1. TornAt(k, c + 1, first) \/ Zero(x)
      <4>1. ZeroFrom(k, c + 1) => Zero(k[c + 1])
        BY <1>2, <2>1, <2>3 DEF ZeroFrom
      <4> QED
        BY <1>2, <1>3, <2>1, <2>3, <4>1
    <3>2. RestBytes(k, c + 1) = x.have
      BY <1>2, <2>1, <2>3, BytesRest DEF RestBytes
    <3>3. Zero(x) \/ x.have = 0 \/ (x.seq = first + Len(j) /\ x.have < x.need)
      <4>1. x.have \in Nat /\ x.need \in Nat /\ x.seq \in Nat
        BY DEF ItemType
      <4>2. CASE Zero(x)
        BY <4>2
      <4>3. CASE TornAt(k, c + 1, first)
        BY <4>1, <4>3, <3>2, <1>2, <2>3 DEF TornAt
      <4> QED
        BY <3>1, <4>2, <4>3
    <3>4. Accepts(j, c, first, st, s)
      BY <2>1, <2>2, <2>3 DEF Accepts
    <3> QED
      BY <2>3, <3>3, <3>4
  <2>4. CASE c < Len(j)
    <3>0. c + 1 \in 1..Len(j) /\ k[c + 1] = j[c + 1]
      BY <1>2, <2>1, <2>4
    <3>1. CASE TornAt(k, c + 1, first)
      <4>1. RestBytes(k, c + 1) = RestBytes(j, c + 1) + x.have
        BY <1>1, <3>0, RestAppended
      <4>2. RestBytes(j, c + 1) \in Nat
        BY <3>0, BytesRest DEF RestBytes
      <4>3. x.have \in Nat /\ j[c + 1] \in ItemType
        BY <3>0, ElementOfSeq DEF ItemType
      <4>4. j[c + 1].need \in Nat /\ j[c + 1].have \in Nat
        BY <4>3 DEF ItemType
      <4>5. TornAt(j, c + 1, first)
        BY <3>0, <3>1, <4>1, <4>2, <4>3, <4>4 DEF TornAt
      <4> QED
        BY <2>1, <2>2, <2>4, <4>5 DEF Accepts
    <3>2. CASE ZeroFrom(k, c + 1)
      <4>1. ZeroFrom(j, c + 1) /\ Zero(x)
        BY <1>2, <2>1, <3>2 DEF ZeroFrom
      <4> QED
        BY <2>1, <2>2, <2>4, <4>1 DEF Accepts
    <3> QED
      BY <1>3, <2>1, <3>1, <3>2
  <2> QED
    BY <2>1, <2>3, <2>4
<1> QED
  BY <1>4, <1>5

-----------------------------------------------------------------------------
(* What the appends leave in the journal. *)

LEMMA Appending ==
  ASSUME StoreType, NEW rec \in Record, rec # ZeroRecord, NEW ok \in BOOLEAN, Commit(rec, ok)
  PROVE  \/ ~ok /\ journal' = journal /\ lastSeq' = lastSeq /\ bytes' = bytes
         \/ \E x \in ItemType :
              /\ journal' = Append(journal, x)
              /\ x.rec = rec /\ x.seq = lastSeq + 1 /\ x.have # 0 /\ ~Zero(x)
              /\ ok => /\ Whole(x) /\ lastSeq' = lastSeq + 1
                       /\ bytes' = bytes + x.have /\ bytes < MaxJournalBytes
              /\ ~ok => /\ lastSeq' = lastSeq
                        /\ IF x.have < x.need THEN "write" \in Faults ELSE "fsync" \in Faults
<1>0. lastSeq + 1 \in Nat /\ SizeOf(rec) \in Nat \ {0}
  BY Sized DEF StoreType
<1>1. ASSUME NEW have \in 1..SizeOf(rec)
      PROVE  /\ Item(lastSeq + 1, rec, have) \in ItemType
             /\ Item(lastSeq + 1, rec, have).rec = rec
             /\ Item(lastSeq + 1, rec, have).seq = lastSeq + 1
             /\ Item(lastSeq + 1, rec, have).have = have /\ have # 0
             /\ Item(lastSeq + 1, rec, have).need = SizeOf(rec)
             /\ ~Zero(Item(lastSeq + 1, rec, have))
             /\ have = SizeOf(rec) => Whole(Item(lastSeq + 1, rec, have))
  <2>1. have \in 0..SizeOf(rec)
    BY <1>0
  <2>2. Item(lastSeq + 1, rec, have) \in ItemType
    BY <1>0, <2>1, Itemized
  <2> QED
    BY <1>0, <2>2 DEF Item, Zero, Whole
<1>2. CASE ok
  <2>1. SizeOf(rec) \in 1..SizeOf(rec)
    BY <1>0
  <2>2. /\ journal' = Append(journal, Item(lastSeq + 1, rec, SizeOf(rec)))
        /\ lastSeq' = lastSeq + 1 /\ bytes' = bytes + SizeOf(rec) /\ bytes < MaxJournalBytes
    BY <1>2, Committed
  <2> QED
    BY <1>1, <1>2, <2>1, <2>2
<1>3. CASE ~ok
  <2>1. /\ lastSeq' = lastSeq
        /\ \/ journal' = journal /\ bytes' = bytes
           \/ \E have \in 1..SizeOf(rec) :
                /\ journal' = Append(journal, Item(lastSeq + 1, rec, have))
                /\ IF have < SizeOf(rec) THEN "write" \in Faults ELSE "fsync" \in Faults
    BY <1>3, Committed
  <2> QED
    BY <1>1, <1>3, <2>1
<1> QED
  BY <1>2, <1>3

LEMMA Interrupted ==
  ASSUME StoreType, NEW rec \in InProgress
  PROVE  /\ writable /\ bytes < MaxJournalBytes
         /\ \/ pc = "boot" /\ rec = BootRecord(state.epoch)
            \/ pc = "policy" /\ rec = PolicyRecord(policy)
            \/ pc = "fences" /\ rec = InterruptionRecord
            \/ pc = "close" /\ \E f \in closing : rec = FenceRecord(f)
            \/ pc = "mark" /\ rec = CheckpointRecord(SnapshotSeq)
            \/ serving /\ pc = "idle" /\ rec \in ClientRecords
<1>1. writable /\ ~(bytes >= MaxJournalBytes)
  BY DEF InProgress
<1>3. writable /\ bytes < MaxJournalBytes
  BY <1>1, StoreAssumption DEF StoreType
<1>4. CASE pc = "boot"
  BY <1>1, <1>3, <1>4 DEF InProgress, Ready
<1>5. CASE pc = "policy"
  BY <1>1, <1>3, <1>5 DEF InProgress, Ready
<1>6. CASE pc = "fences"
  BY <1>1, <1>3, <1>6 DEF InProgress, Ready
<1>7. CASE pc = "close"
  BY <1>1, <1>3, <1>7 DEF InProgress, Ready
<1>8. CASE pc = "mark"
  BY <1>1, <1>3, <1>8 DEF InProgress, Ready
<1>9. CASE pc \notin {"boot", "policy", "fences", "close", "mark"}
  BY <1>1, <1>3, <1>9 DEF InProgress, Ready
<1> QED
  BY <1>4, <1>5, <1>6, <1>7, <1>8, <1>9

LEMMA CrashLeaves ==
  ASSUME StoreType, Crash, journal' # journal
  PROVE  \E rec \in InProgress, x \in ItemType :
           /\ journal' = Append(journal, x)
           /\ rec \in Record /\ rec # ZeroRecord
           /\ \/ Zero(x) /\ "zero" \in Faults /\ ~(x.have < x.need)
              \/ x.rec = rec /\ x.seq = lastSeq + 1 /\ ~Zero(x)
<1>1. PICK rec \in InProgress :
        \/ \E have \in 0..SizeOf(rec) : journal' = Append(journal, Item(lastSeq + 1, rec, have))
        \/ "zero" \in Faults /\ journal' = Append(journal, ZeroItem(SizeOf(rec)))
  BY DEF Crash
<1>2. rec \in Record /\ rec # ZeroRecord
  <2>1. /\ BootRecord(state.epoch) \in Record /\ PolicyRecord(policy) \in Record
        /\ InterruptionRecord \in Record /\ CheckpointRecord(SnapshotSeq) \in Record
        /\ \A f \in closing : FenceRecord(f) \in Record
    BY Records DEF StoreType
  <2>2. \A r \in ClientRecords : r \in Record /\ r # ZeroRecord
    BY ClientRecord
  <2> QED
    BY <2>1, <2>2, NotZero, Interrupted
<1>3. SizeOf(rec) \in Nat \ {0} /\ lastSeq + 1 \in Nat
  BY Sized DEF StoreType
<1>4. CASE \E have \in 0..SizeOf(rec) : journal' = Append(journal, Item(lastSeq + 1, rec, have))
  <2>1. PICK have \in 0..SizeOf(rec) : journal' = Append(journal, Item(lastSeq + 1, rec, have))
    BY <1>4
  <2>2. Item(lastSeq + 1, rec, have) \in ItemType
    BY <1>2, <1>3, Itemized
  <2>3. /\ Item(lastSeq + 1, rec, have).rec = rec /\ Item(lastSeq + 1, rec, have).seq = lastSeq + 1
        /\ ~Zero(Item(lastSeq + 1, rec, have))
    BY <1>2 DEF Item, Zero
  <2> QED
    BY <1>2, <2>1, <2>2, <2>3
<1>5. CASE "zero" \in Faults /\ journal' = Append(journal, ZeroItem(SizeOf(rec)))
  <2>1. /\ ZeroItem(SizeOf(rec)) \in ItemType /\ Zero(ZeroItem(SizeOf(rec)))
        /\ ~(ZeroItem(SizeOf(rec)).have < ZeroItem(SizeOf(rec)).need)
    BY <1>3 DEF ZeroItem, ItemType, Zero, Record
  <2> QED
    BY <1>2, <1>5, <2>1
<1> QED
  BY <1>1, <1>4, <1>5

(* The commits of open() after the boot record, those of the clients and the mark of a
   checkpoint leave the epoch alone. *)
LaterCommit(rec, ok) ==
  /\ rec \in Record /\ rec # ZeroRecord /\ ok \in BOOLEAN
  /\ Commit(rec, ok)
  /\ snapshot' = snapshot /\ opened' = opened /\ serving' = serving /\ epochs' = epochs
  /\ state'.epoch = state.epoch
  /\ pc' \in (OpenPhases \ {"boot"}) \cup {"failed", "idle"}
  /\ pc' \in OpenPhases => pc \in OpenPhases \ {"boot"}
  /\ serving \/ pc \in OpenPhases \ {"boot"}
  /\ serving => pc \in {"idle", "mark"} /\ (~ok => state' = state)

LEMMA LaterPolicy ==
  ASSUME StoreType, Phases, NEW ok \in BOOLEAN, CommitPolicy(ok)
  PROVE  LaterCommit(PolicyRecord(policy), ok)
<1>1. state \in DurableState
  BY DEF StoreType
<1>2. state'.epoch = state.epoch
  BY <1>1 DEF CommitPolicy, Applied, PolicyRecord, DurableState
<1>3. PolicyRecord(policy) \in Record /\ PolicyRecord(policy) # ZeroRecord
  BY Records, NotZero
<1>4. ~serving
  BY DEF CommitPolicy, Phases
<1>5. /\ Commit(PolicyRecord(policy), ok)
      /\ snapshot' = snapshot /\ opened' = opened /\ serving' = serving /\ epochs' = epochs
      /\ pc = "policy" /\ pc' \in {"fences", "failed"}
  BY DEF CommitPolicy
<1> QED
  BY <1>2, <1>3, <1>4, <1>5 DEF LaterCommit, OpenPhases

LEMMA LaterInterruption ==
  ASSUME StoreType, Phases, NEW ok \in BOOLEAN, NEW f \in OpenFences, CommitInterruption(f, ok)
  PROVE  LaterCommit(InterruptionRecord, ok)
<1>1. state \in DurableState /\ f \in FenceState
  BY DEF StoreType, OpenFences, DurableState
<1>2. WithFence(state, Closed(f)) \in DurableState /\ WithFence(state, Closed(f)).epoch = state.epoch
  BY <1>1, ClosedType, WithFenceType
<1>3. state'.epoch = state.epoch
  BY <1>2 DEF CommitInterruption, Applied, InterruptionRecord, PushLineage, DurableState
<1>4. InterruptionRecord \in Record /\ InterruptionRecord # ZeroRecord
  BY Records, NotZero
<1>5. ~serving
  BY DEF CommitInterruption, Phases
<1>6. /\ Commit(InterruptionRecord, ok)
      /\ snapshot' = snapshot /\ opened' = opened /\ serving' = serving /\ epochs' = epochs
      /\ pc = "fences" /\ pc' \in {"close", "failed"}
  BY DEF CommitInterruption
<1> QED
  BY <1>3, <1>4, <1>5, <1>6 DEF LaterCommit, OpenPhases

LEMMA LaterFence ==
  ASSUME StoreType, Phases, NEW ok \in BOOLEAN, NEW f \in closing, CommitRestartFence(f, ok)
  PROVE  LaterCommit(FenceRecord(f), ok)
<1>1. state \in DurableState /\ f \in FenceState
  BY DEF StoreType
<1>2. Applied(state, FenceRecord(f)).epoch = state.epoch
  BY <1>1, FenceEpoch
<1>3. state'.epoch = state.epoch
  BY <1>2 DEF CommitRestartFence
<1>4. FenceRecord(f) \in Record /\ FenceRecord(f) # ZeroRecord
  BY <1>1, Records, NotZero
<1>5. ~serving
  BY DEF CommitRestartFence, Phases
<1>6. /\ Commit(FenceRecord(f), ok)
      /\ snapshot' = snapshot /\ opened' = opened /\ serving' = serving /\ epochs' = epochs
      /\ pc = "close" /\ pc' \in {"fences", "failed"}
  BY DEF CommitRestartFence
<1> QED
  BY <1>3, <1>4, <1>5, <1>6 DEF LaterCommit, OpenPhases

LEMMA LaterMark ==
  ASSUME StoreType, Phases, NEW ok \in BOOLEAN, CommitCheckpoint(ok)
  PROVE  LaterCommit(CheckpointRecord(SnapshotSeq), ok)
<1>1. CheckpointRecord(SnapshotSeq) \in Record /\ CheckpointRecord(SnapshotSeq) # ZeroRecord
  BY Records, NotZero
<1>2. /\ Commit(CheckpointRecord(SnapshotSeq), ok)
      /\ snapshot' = snapshot /\ opened' = opened /\ serving' = serving /\ epochs' = epochs
      /\ pc = "mark" /\ pc' = "idle" /\ state' = state
  BY DEF CommitCheckpoint
<1>3. serving
  BY <1>2 DEF Phases, OpenPhases
<1> QED
  BY <1>1, <1>2, <1>3 DEF LaterCommit, OpenPhases

LEMMA LaterRecord ==
  ASSUME StoreType, Phases, NEW ok \in BOOLEAN, NEW rec \in ClientRecords, CommitRecord(rec, ok)
  PROVE  LaterCommit(rec, ok)
<1>1. state \in DurableState
  BY DEF StoreType
<1>2. rec \in Record /\ rec # ZeroRecord
  BY ClientRecord
<1>3. Applied(state, rec).epoch = state.epoch
  <2>1. CASE rec = DecisionRecord
    BY <1>1, <2>1 DEF Applied, DecisionRecord, PushLineage, DurableState
  <2>2. CASE rec # DecisionRecord
    BY <1>1, <2>2, ClientRecord, FenceEpoch
  <2> QED
    BY <2>1, <2>2
<1>4. state'.epoch = state.epoch /\ (~ok => state' = state)
  BY <1>3 DEF CommitRecord
<1>5. /\ Commit(rec, ok)
      /\ snapshot' = snapshot /\ opened' = opened /\ serving' = serving /\ epochs' = epochs
      /\ pc = "idle" /\ pc' = pc /\ serving
  BY DEF CommitRecord, Ready
<1> QED
  BY <1>2, <1>4, <1>5 DEF LaterCommit, OpenPhases

(* The steps as most invariants see them. *)
LEMMA NextKinds ==
  ASSUME StoreType, Phases, [Next]_vars
  PROVE  \/ Open \/ OpenRefused \/ FinishOpen \/ WriteSnapshot \/ Rotate \/ RotateFails
         \/ Close \/ Crash \/ UNCHANGED vars
         \/ \E ok \in BOOLEAN : CommitBoot(ok)
         \/ \E rec, ok : LaterCommit(rec, ok)
<1>1. ASSUME NEW ok \in BOOLEAN, CommitPolicy(ok) \/ CommitCheckpoint(ok)
      PROVE  \E rec, o : LaterCommit(rec, o)
  BY <1>1, LaterPolicy, LaterMark
<1>2. ASSUME NEW ok \in BOOLEAN, NEW f \in OpenFences, CommitInterruption(f, ok)
      PROVE  \E rec, o : LaterCommit(rec, o)
  BY <1>2, LaterInterruption
<1>3. ASSUME NEW ok \in BOOLEAN, NEW f \in closing, CommitRestartFence(f, ok)
      PROVE  \E rec, o : LaterCommit(rec, o)
  BY <1>3, LaterFence
<1>4. ASSUME NEW ok \in BOOLEAN, NEW rec \in ClientRecords, CommitRecord(rec, ok)
      PROVE  \E r, o : LaterCommit(r, o)
  BY <1>4, LaterRecord
<1> QED
  BY <1>1, <1>2, <1>3, <1>4, NextCases

-----------------------------------------------------------------------------
(* The front of the journal.  Without a snapshot the journal begins with a boot record,
   or with zeros; an object that holds a state is refused by either, so that only an
   object that holds the empty state, or one with a snapshot, opens. *)

Blocked ==
  /\ journal # <<>>
  /\ \/ Zero(journal[1]) /\ ~ZeroFrom(journal, 1)
     \/ Whole(journal[1]) /\ \E e \in Nat : /\ 1 <= e /\ e <= state.epoch
                                            /\ journal[1].rec = BootRecord(e)

BootFront ==
  \/ ZeroFrom(journal, 1)
  \/ Whole(journal[1]) /\ \E e \in Nat : /\ 1 <= e /\ e <= state.epoch
                                         /\ journal[1].rec = BootRecord(e)

FrontInv ==
  /\ snapshot = {} /\ journal # <<>> =>
       Zero(journal[1]) \/ \E e \in Nat : 1 <= e /\ journal[1].rec = BootRecord(e)
  /\ snapshot = {} /\ ~opened /\ state # EmptyState => Blocked
  /\ snapshot = {} /\ (serving \/ pc \in OpenPhases \ {"boot"}) => Blocked
  /\ pc = "boot" => 1 <= state.epoch
  /\ snapshot = {} /\ pc = "boot" /\ journal # <<>> => BootFront
  /\ pc = "rotate" => snapshot # {}

LEMMA SeqFront ==
  ASSUME NEW j \in Seq(ItemType)
  PROVE  /\ Len(j) \in Nat /\ (j # <<>> <=> Len(j) > 0)
         /\ \A i \in 1..Len(j) : j[i] \in ItemType
BY ElementOfSeq

LEMMA BlockedKept ==
  ASSUME StoreType, Blocked, NEW x \in ItemType, journal' = Append(journal, x),
         state'.epoch = state.epoch
  PROVE  Blocked'
<1>1. PICK j : j = journal
  OBVIOUS
<1>2. j \in Seq(ItemType) /\ Len(j) \in Nat /\ Len(j) > 0
  BY <1>1, SeqFront DEF StoreType, Blocked
<1>3. PICK k : k = journal'
  OBVIOUS
<1>4. k \in Seq(ItemType) /\ Len(k) = Len(j) + 1 /\ \A i \in 1..Len(j) : k[i] = j[i]
  BY <1>1, <1>2, <1>3, Appended
<1>5. k # <<>> /\ k[1] = j[1]
  BY <1>2, <1>4, SeqFront
<1>6. ~ZeroFrom(j, 1) => ~ZeroFrom(k, 1)
  BY <1>2, <1>4 DEF ZeroFrom
<1> QED
  BY <1>1, <1>3, <1>5, <1>6 DEF Blocked

(* Such a front refuses the state that is held. *)
LEMMA BlockedRefuses ==
  ASSUME StoreType, Blocked, NEW c, NEW s
  PROVE  ~Accepts(journal, c, SnapshotSeq + 1, state, s)
<1> SUFFICES ASSUME Accepts(journal, c, SnapshotSeq + 1, state, s) PROVE FALSE
  OBVIOUS
<1>1. PICK j : j = journal
  OBVIOUS
<1>2. j \in Seq(ItemType) /\ Len(j) \in Nat /\ Len(j) > 0 /\ state \in DurableState
  BY <1>1, SeqFront DEF StoreType, Blocked
<1>3. PICK first \in Nat : first = SnapshotSeq + 1
  BY SnapshotType
<1>4. /\ c \in 0..Len(j) /\ Replays(j, c, first, state, s)
      /\ c < Len(j) => TornAt(j, c + 1, first) \/ ZeroFrom(j, c + 1)
  BY <1>1, <1>3 DEF Accepts
<1>5. \/ Zero(j[1]) /\ ~ZeroFrom(j, 1)
      \/ Whole(j[1]) /\ \E e \in Nat : 1 <= e /\ e <= state.epoch /\ j[1].rec = BootRecord(e)
  BY <1>1 DEF Blocked
<1>6. CASE c = 0
  <2>1. TornAt(j, 1, first) \/ ZeroFrom(j, 1)
    BY <1>2, <1>4, <1>6
  <2>2. CASE Zero(j[1]) /\ ~ZeroFrom(j, 1)
    BY <2>1, <2>2 DEF TornAt
  <2>3. CASE Whole(j[1])
    <3>1. 1 \in 1..Len(j)
      BY <1>2
    <3> QED
      BY <1>2, <2>1, <2>3, <3>1, WholeNotTorn
  <2> QED
    BY <1>5, <2>2, <2>3
<1>7. CASE c # 0
  <2>1. 0 \in 0..c /\ 0 < c /\ c \in Nat
    BY <1>2, <1>4, <1>7
  <2>2. PICK t \in DurableState :
           Replays(j, 0, first, state, t) /\ \E u : Step(j[0 + 1], first + 0, t, u)
    BY <1>4, <2>1, ReplaysPrefix
  <2>3. t = state
    BY <1>2, <2>2, ReplaysNone, ReplaysUnique
  <2>4. Whole(j[1]) /\ ApplyOutcome(state, j[1].seq, j[1].rec) = "Ok"
    BY <2>2, <2>3 DEF Step
  <2>5. PICK e \in Nat : 1 <= e /\ e <= state.epoch /\ j[1].rec = BootRecord(e)
    BY <1>5, <2>4 DEF Whole
  <2>6. state.epoch \in Nat /\ state.epoch # 0
    BY <1>2, <2>5 DEF DurableState
  <2>7. ApplyOutcome(state, j[1].seq, j[1].rec) = "Corrupt"
    BY <2>5, <2>6 DEF ApplyOutcome, BootRecord
  <2> QED
    BY <2>4, <2>7
<1> QED
  BY <1>6, <1>7

(* What a replay from the first record has passed blocks its result. *)
LEMMA ReplayBlocks ==
  ASSUME StoreType, FrontInv, snapshot = {}, NEW b \in 1..Len(journal), NEW st, NEW s,
         Replays(journal, b, SnapshotSeq + 1, st, s)
  PROVE  /\ journal # <<>> /\ Whole(journal[1])
         /\ \E e \in Nat : 1 <= e /\ e <= s.epoch /\ journal[1].rec = BootRecord(e)
<1>1. journal \in Seq(ItemType) /\ SnapshotSeq + 1 \in Nat /\ b \in Nat /\ b \in 0..Len(journal)
      /\ 1 \in 1..b
  BY SnapshotType DEF StoreType
<1>2. Whole(journal[1])
  BY <1>1, ReplayedIntact
<1>3. journal # <<>>
  BY <1>1, SeqFront
<1>4. PICK e \in Nat : 1 <= e /\ journal[1].rec = BootRecord(e)
  BY <1>2, <1>3 DEF FrontInv, Whole
<1>5. s.epoch >= e
  BY <1>1, <1>4, ReplaysEpoch
<1>6. s.epoch \in Nat
  <2>1. s \in DurableState
    BY <1>1, ReplaysType
  <2> QED
    BY <2>1 DEF DurableState
<1> QED
  BY <1>2, <1>3, <1>4, <1>5, <1>6

(* An object that opens starts from what a new process would start from. *)
LEMMA OpensAfresh ==
  ASSUME StoreType, Phases, FrontInv, Open
  PROVE  Start(state) = Start(EmptyState)
<1>1. Recovered(state).outcome = "Ok" /\ state \in DurableState /\ ~opened
  BY DEF Open, StoreType
<1>2. CASE snapshot = {} /\ state # EmptyState
  <2>1. Blocked
    BY <1>1, <1>2 DEF FrontInv
  <2>2. Start(state) = state
    BY <1>2 DEF Start
  <2>3. Accepts(journal, Recovered(state).records, SnapshotSeq + 1, Start(state), Recovered(state).state)
    BY <1>1, ScanAccepts
  <2> QED
    BY <2>1, <2>2, <2>3, BlockedRefuses
<1>3. CASE ~(snapshot = {} /\ state # EmptyState)
  BY <1>3 DEF Start
<1> QED
  BY <1>2, <1>3

LEMMA FrontOpen ==
  ASSUME StoreType, Phases, FrontInv, Open
  PROVE  FrontInv'
<1>1. PICK b \in 0..Len(journal), s \in DurableState :
              /\ Replays(journal, b, SnapshotSeq + 1, Start(state), s)
              /\ state' = [s EXCEPT !.epoch = s.epoch + 1]
              /\ \/ b = Len(journal) /\ journal' = journal
                 \/ b < Len(journal) /\ journal' = SubSeq(journal, 1, b)
                 \/ b < Len(journal) /\ ZeroFrom(journal, b + 1) /\ journal' = journal
  BY Opened
<1>2. /\ snapshot' = snapshot /\ opened' /\ pc' = "boot" /\ ~serving'
  BY DEF Open, Phases
<1>3. 1 <= state'.epoch
  BY <1>1 DEF DurableState
<1>4. journal' # <<>> => journal # <<>> /\ journal'[1] = journal[1]
  <2>1. CASE journal' = journal
    BY <2>1
  <2>2. CASE journal' = SubSeq(journal, 1, b)
    <3>1. PICK k : k = SubSeq(journal, 1, b)
      OBVIOUS
    <3>2. journal \in Seq(ItemType)
      BY DEF StoreType
    <3>3. k \in Seq(ItemType) /\ Len(k) = b /\ \A i \in 1..b : k[i] = journal[i]
      BY <3>1, <3>2, PrefixType
    <3>4. ASSUME k # <<>> PROVE journal # <<>> /\ k[1] = journal[1]
      <4>1. b > 0 /\ 1 \in 1..b /\ Len(journal) > 0
        BY <3>2, <3>3, <3>4, SeqFront
      <4> QED
        BY <3>2, <3>3, <4>1, SeqFront
    <3> QED
      BY <2>2, <3>1, <3>4
  <2> QED
    BY <1>1, <2>1, <2>2
<1>5. ASSUME snapshot = {}, journal' # <<>> PROVE BootFront'
  <2>0. journal \in Seq(ItemType) /\ Len(journal) \in Nat /\ journal # <<>>
    BY <1>4, <1>5 DEF StoreType
  <2>1. CASE b = 0
    <3>1. journal' # SubSeq(journal, 1, b)
      <4>1. PICK k : k = SubSeq(journal, 1, b)
        OBVIOUS
      <4>2. k \in Seq(ItemType) /\ Len(k) = 0
        BY <2>0, <2>1, <4>1, PrefixType
      <4> QED
        BY <1>5, <4>1, <4>2, SeqFront
    <3>2. Len(journal) # 0
      BY <2>0, SeqFront
    <3>3. ZeroFrom(journal, 1) /\ journal' = journal
      BY <1>1, <2>1, <3>1, <3>2
    <3> QED
      BY <3>3 DEF BootFront
  <2>2. CASE b # 0
    <3>1. b \in 1..Len(journal)
      BY <2>2
    <3>2. /\ Whole(journal[1])
          /\ \E e \in Nat : 1 <= e /\ e <= s.epoch /\ journal[1].rec = BootRecord(e)
      BY <1>1, <1>5, <3>1, ReplayBlocks
    <3>3. PICK e \in Nat : 1 <= e /\ e <= s.epoch /\ journal[1].rec = BootRecord(e)
      BY <3>2
    <3>4. e <= state'.epoch
      BY <1>1, <3>3 DEF DurableState
    <3>5. journal'[1] = journal[1]
      BY <1>4, <1>5
    <3> QED
      BY <3>2, <3>3, <3>4, <3>5 DEF BootFront
  <2> QED
    BY <2>1, <2>2
<1> QED
  BY <1>2, <1>3, <1>4, <1>5 DEF FrontInv, OpenPhases

LEMMA FrontRefused ==
  ASSUME StoreType, Phases, FrontInv, OpenRefused
  PROVE  FrontInv'
<1>1. /\ snapshot' = snapshot /\ journal' = journal /\ pc' = pc /\ pc = "idle" /\ serving' = serving
      /\ opened' = opened /\ ~opened /\ ~serving /\ state' = Recovered(state).state
  BY DEF OpenRefused, disk, Phases
<1>2. ASSUME snapshot = {}, state' # EmptyState PROVE Blocked'
  <2>0. state \in DurableState /\ Start(state) = state /\ Start(state) \in DurableState
    BY <1>2 DEF Start, StoreType
  <2>1. CASE state' = state
    <3>1. Blocked
      BY <1>1, <1>2, <2>1 DEF FrontInv
    <3> QED
      BY <1>1, <2>1, <3>1 DEF Blocked
  <2>2. CASE state' # state
    <3>1. ~Overshot
      <4>1. Overshot => Recovered(state) = Ended("Oversized", FALSE, 0, Start(state))
        BY <2>0, RecoveringOvershot
      <4> QED
        BY <1>1, <2>0, <2>2, <4>1 DEF Ended
    <3>2. PICK b \in 0..Len(journal), s \in DurableState :
            ScanResult(journal, Len(journal), SnapshotSeq + 1, Start(state), b, s, Recovered(state))
      BY <2>0, <3>1, Recovering
    <3>3. Recovered(state).state = s
      BY <3>2 DEF ScanResult, Ending, Run, Ended
    <3>4. Replays(journal, b, SnapshotSeq + 1, state, s)
      BY <2>0, <3>2 DEF ScanResult
    <3>5. b # 0
      <4>1. SnapshotSeq + 1 \in Nat
        BY SnapshotType
      <4>2. ASSUME b = 0 PROVE s = state
        <5>1. Replays(journal, 0, SnapshotSeq + 1, state, s)
          BY <3>4, <4>2
        <5>2. Replays(journal, 0, SnapshotSeq + 1, state, state)
          BY <2>0, <4>1, ReplaysNone
        <5> QED
          BY <4>1, <5>1, <5>2, ReplaysUnique
      <4> QED
        BY <1>1, <2>2, <3>3, <4>2
    <3>6. b \in 1..Len(journal)
      BY <3>5
    <3>7. /\ journal # <<>> /\ Whole(journal[1])
          /\ \E e \in Nat : 1 <= e /\ e <= s.epoch /\ journal[1].rec = BootRecord(e)
      BY <1>2, <3>4, <3>6, ReplayBlocks
    <3> QED
      BY <1>1, <3>3, <3>7 DEF Blocked
  <2> QED
    BY <2>1, <2>2
<1> QED
  BY <1>1, <1>2 DEF FrontInv, OpenPhases

LEMMA FrontBoot ==
  ASSUME StoreType, Phases, FrontInv, NEW ok \in BOOLEAN, CommitBoot(ok)
  PROVE  FrontInv'
<1>1. /\ snapshot' = snapshot /\ opened' = opened /\ opened /\ serving' = serving /\ ~serving
      /\ state' = state /\ pc = "boot" /\ pc' \in {"failed", "policy", "fences"}
      /\ ~ok => pc' = "failed"
      /\ Commit(BootRecord(state.epoch), ok)
  BY DEF CommitBoot, Phases
<1>2. /\ journal \in Seq(ItemType) /\ state.epoch \in Nat /\ 1 <= state.epoch
      /\ BootRecord(state.epoch) \in Record /\ BootRecord(state.epoch) # ZeroRecord
  BY <1>1, Records, NotZero DEF StoreType, DurableState, FrontInv
<1>3. CASE ~ok /\ journal' = journal
  BY <1>1, <1>3 DEF FrontInv, OpenPhases
<1>4. ASSUME NEW x \in ItemType, journal' = Append(journal, x), x.rec = BootRecord(state.epoch),
             ok => Whole(x), ~Zero(x)
      PROVE  FrontInv'
  <2>1. PICK k : k = journal'
    OBVIOUS
  <2>2. /\ k \in Seq(ItemType) /\ Len(k) = Len(journal) + 1 /\ Len(journal) \in Nat
        /\ (\A i \in 1..Len(journal) : k[i] = journal[i]) /\ k[Len(journal) + 1] = x
    BY <1>2, <1>4, <2>1, Appended
  <2>3. CASE journal = <<>>
    <3>1. k[1] = x /\ k # <<>>
      <4>1. Len(journal) = 0
        BY <2>3
      <4> QED
        BY <2>2, <4>1, SeqFront
    <3>2. \E e \in Nat : 1 <= e /\ k[1].rec = BootRecord(e)
      BY <1>2, <1>4, <3>1
    <3>3. ok => Blocked'
      BY <1>1, <1>2, <1>4, <2>1, <3>1 DEF Blocked
    <3> QED
      BY <1>1, <2>1, <3>1, <3>2, <3>3 DEF FrontInv, OpenPhases
  <2>4. CASE journal # <<>>
    <3>1. k[1] = journal[1] /\ k # <<>> /\ Len(journal) > 0
      BY <1>2, <2>2, <2>4, SeqFront
    <3>2. ~ZeroFrom(k, 1)
      BY <1>4, <2>2 DEF ZeroFrom
    <3>3. ASSUME snapshot = {} PROVE Blocked'
      <4>1. BootFront
        BY <1>1, <2>4, <3>3 DEF FrontInv
      <4>2. ZeroFrom(journal, 1) => Zero(journal[1])
        BY <2>2, <3>1 DEF ZeroFrom
      <4> QED
        BY <1>1, <2>1, <3>1, <3>2, <4>1, <4>2 DEF BootFront, Blocked
    <3>4. snapshot = {} => Zero(k[1]) \/ \E e \in Nat : 1 <= e /\ k[1].rec = BootRecord(e)
      BY <2>4, <3>1 DEF FrontInv
    <3> QED
      BY <1>1, <2>1, <3>3, <3>4 DEF FrontInv, OpenPhases
  <2> QED
    BY <2>3, <2>4
<1> QED
  BY <1>1, <1>2, <1>3, <1>4, Appending

LEMMA FrontLater ==
  ASSUME StoreType, Phases, FrontInv, NEW rec, NEW ok, LaterCommit(rec, ok)
  PROVE  FrontInv'
<1>1. /\ rec \in Record /\ rec # ZeroRecord /\ ok \in BOOLEAN /\ Commit(rec, ok)
      /\ snapshot' = snapshot /\ opened' = opened /\ serving' = serving
      /\ state'.epoch = state.epoch
      /\ pc' # "boot" /\ pc' # "rotate"
      /\ serving \/ pc \in OpenPhases \ {"boot"}
  BY DEF LaterCommit, OpenPhases
<1>2. opened
  BY <1>1 DEF Phases, OpenPhases
<1>3. snapshot = {} => Blocked
  BY <1>1 DEF FrontInv
<1>4. CASE journal' = journal
  <2>1. snapshot = {} => Blocked'
    BY <1>1, <1>3, <1>4 DEF Blocked
  <2> QED
    BY <1>1, <1>2, <1>4, <2>1 DEF FrontInv
<1>5. ASSUME NEW x \in ItemType, journal' = Append(journal, x) PROVE FrontInv'
  <2>1. snapshot = {} => Blocked'
    BY <1>1, <1>3, <1>5, BlockedKept
  <2>2. Blocked' => Zero(journal'[1]) \/ \E e \in Nat : 1 <= e /\ journal'[1].rec = BootRecord(e)
    BY DEF Blocked
  <2> QED
    BY <1>1, <1>2, <2>1, <2>2 DEF FrontInv
<1> QED
  BY <1>1, <1>4, <1>5, Appending

LEMMA FrontCrash ==
  ASSUME StoreType, Phases, FrontInv, Crash
  PROVE  FrontInv'
<1>1. /\ snapshot' = snapshot /\ ~opened' /\ ~serving' /\ state' = EmptyState /\ pc' = "idle"
  BY DEF Crash
<1>2. EmptyState' = EmptyState
  BY DEF EmptyState
<1>3. CASE journal' = journal
  BY <1>1, <1>2, <1>3 DEF FrontInv, OpenPhases
<1>4. CASE journal' # journal
  <2>1. PICK rec \in InProgress, x \in ItemType :
           /\ journal' = Append(journal, x)
           /\ Zero(x) \/ x.rec = rec
    BY <1>4, CrashLeaves
  <2>2. PICK k : k = journal'
    OBVIOUS
  <2>3. /\ journal \in Seq(ItemType) /\ Len(journal) \in Nat
        /\ (\A i \in 1..Len(journal) : k[i] = journal[i]) /\ k[Len(journal) + 1] = x
    BY <2>1, <2>2, Appended DEF StoreType
  <2>4. ASSUME snapshot = {}
        PROVE  Zero(k[1]) \/ \E e \in Nat : 1 <= e /\ k[1].rec = BootRecord(e)
    <3>1. CASE journal # <<>>
      <4>1. k[1] = journal[1]
        BY <2>3, <3>1, SeqFront
      <4> QED
        BY <2>4, <3>1, <4>1 DEF FrontInv
    <3>2. CASE journal = <<>>
      <4>1. k[1] = x
        <5>1. Len(journal) = 0
          BY <3>2
        <5> QED
          BY <2>3, <5>1
      <4>2. ~Blocked
        BY <3>2 DEF Blocked
      <4>3. ~serving /\ pc \notin OpenPhases \ {"boot"}
        BY <2>4, <4>2 DEF FrontInv
      <4>4. pc # "mark" /\ pc # "policy" /\ pc # "fences" /\ pc # "close"
        BY <4>3 DEF Phases, OpenPhases
      <4>5. pc = "boot" /\ rec = BootRecord(state.epoch)
        BY <4>3, <4>4, Interrupted
      <4>6. state.epoch \in Nat /\ 1 <= state.epoch
        BY <4>5 DEF FrontInv, StoreType, DurableState
      <4> QED
        BY <2>1, <4>1, <4>5, <4>6
    <3> QED
      BY <3>1, <3>2
  <2> QED
    BY <1>1, <1>2, <2>2, <2>4 DEF FrontInv, OpenPhases
<1> QED
  BY <1>3, <1>4

LEMMA FrontStep ==
  ASSUME StoreType, Phases, FrontInv, [Next]_vars
  PROVE  FrontInv'
<1>0. EmptyState' = EmptyState
  BY DEF EmptyState
<1>1. CASE FinishOpen
  <2>1. /\ snapshot' = snapshot /\ journal' = journal /\ state' = state /\ pc' = "idle"
        /\ opened' = opened /\ opened /\ pc = "fences"
    BY <1>1 DEF FinishOpen, disk, Phases
  <2>2. snapshot = {} => Blocked
    BY <2>1 DEF FrontInv, OpenPhases
  <2>3. snapshot = {} => Blocked'
    BY <2>1, <2>2 DEF Blocked
  <2> QED
    BY <2>1, <2>3 DEF FrontInv, OpenPhases
<1>2. CASE WriteSnapshot
  BY <1>2 DEF WriteSnapshot, FrontInv
<1>3. CASE Rotate
  BY <1>3 DEF Rotate, FrontInv, OpenPhases
<1>4. CASE RotateFails
  <2>1. /\ snapshot' = snapshot /\ snapshot # {} /\ pc' = "idle"
    BY <1>4 DEF RotateFails, FrontInv, disk
  <2> QED
    BY <2>1 DEF FrontInv, OpenPhases
<1>5. CASE Close
  <2>1. /\ snapshot' = snapshot /\ journal' = journal /\ state' = state /\ pc' = pc
        /\ serving /\ ~serving' /\ pc = "idle"
    BY <1>5 DEF Close, disk
  <2>2. snapshot = {} => Blocked
    BY <2>1 DEF FrontInv
  <2>3. snapshot = {} => Blocked'
    BY <2>1, <2>2 DEF Blocked
  <2> QED
    BY <2>1, <2>3 DEF FrontInv, OpenPhases
<1>6. CASE UNCHANGED vars
  <2>1. /\ snapshot' = snapshot /\ journal' = journal /\ pc' = pc /\ state' = state
        /\ opened' = opened /\ serving' = serving
    BY <1>6 DEF vars, disk, memory
  <2> QED
    BY <1>0, <2>1 DEF FrontInv, Blocked, BootFront
<1> QED
  BY <1>1, <1>2, <1>3, <1>4, <1>5, <1>6, FrontOpen, FrontRefused, FrontBoot, FrontLater,
     FrontCrash, NextKinds

-----------------------------------------------------------------------------
(* Sequence numbers.  The journal never begins behind the record that follows the
   snapshot, and a checkpoint that would not advance the snapshot leaves it as it is. *)

Snapped == snapshot = {[seq |-> lastSeq, state |-> state]}

FrontSeq(j, first) == j # <<>> => Zero(j[1]) \/ j[1].seq <= first

SeqInv ==
  /\ opened => lastSeq >= SnapshotSeq
  /\ opened /\ journal = <<>> => lastSeq = SnapshotSeq
  /\ FrontSeq(journal, SnapshotSeq + 1)
  /\ pc \in OpenPhases \ {"boot"} => lastSeq > SnapshotSeq
  /\ serving /\ lastSeq = SnapshotSeq => Snapped
  /\ pc = "rotate" => Snapped

LEMMA SnappedSeq ==
  ASSUME Snapped
  PROVE  SnapshotSeq = lastSeq /\ Start(EmptyState) = state
<1>1. Latest = [seq |-> lastSeq, state |-> state] /\ snapshot # {}
  BY DEF Snapped, Latest
<1> QED
  BY <1>1 DEF SnapshotSeq, Start

LEMMA SnappedNext ==
  ASSUME Snapped'
  PROVE  SnapshotSeq' = lastSeq' /\ Start(EmptyState)' = state'
<1>1. Latest' = [seq |-> lastSeq', state |-> state'] /\ snapshot' # {}
  BY DEF Snapped, Latest
<1> QED
  BY <1>1 DEF SnapshotSeq, Start

LEMMA SameSnapshot ==
  ASSUME snapshot' = snapshot
  PROVE  /\ SnapshotSeq' = SnapshotSeq /\ Start(EmptyState)' = Start(EmptyState)
         /\ lastSeq' = lastSeq /\ state' = state /\ Snapped => Snapped'
BY DEF SnapshotSeq, Start, Latest, Snapped, EmptyState

LEMMA FrontSeqAppended ==
  ASSUME NEW j \in Seq(ItemType), NEW x \in ItemType, NEW first, FrontSeq(j, first),
         j = <<>> => Zero(x) \/ x.seq <= first
  PROVE  FrontSeq(Append(j, x), first) /\ Append(j, x) # <<>>
<1>1. PICK k : k = Append(j, x)
  OBVIOUS
<1>2. /\ k \in Seq(ItemType) /\ Len(k) = Len(j) + 1 /\ Len(j) \in Nat
      /\ (\A i \in 1..Len(j) : k[i] = j[i]) /\ k[Len(j) + 1] = x
  BY <1>1, Appended
<1>3. k # <<>>
  BY <1>2, SeqFront
<1>4. CASE j = <<>>
  <2>1. Len(j) = 0
    BY <1>4
  <2>2. k[1] = x
    BY <1>2, <2>1
  <2> QED
    BY <1>1, <1>3, <1>4, <2>2 DEF FrontSeq
<1>5. CASE j # <<>>
  <2>1. k[1] = j[1]
    BY <1>2, <1>5, SeqFront
  <2> QED
    BY <1>1, <1>3, <1>5, <2>1 DEF FrontSeq
<1> QED
  BY <1>4, <1>5

(* An append under an open journal. *)
LEMMA SeqCommit ==
  ASSUME StoreType, SeqInv, opened, NEW rec \in Record, rec # ZeroRecord, NEW ok \in BOOLEAN,
         Commit(rec, ok), snapshot' = snapshot, pc' # "rotate",
         pc' \in OpenPhases \ {"boot"} => ok \/ pc \in OpenPhases \ {"boot"},
         serving' => serving, serving' /\ ~ok => state' = state
  PROVE  SeqInv'
<1>1. /\ SnapshotSeq' = SnapshotSeq /\ SnapshotSeq \in Nat /\ lastSeq \in Nat
      /\ journal \in Seq(ItemType) /\ lastSeq >= SnapshotSeq
  BY SameSnapshot, SnapshotType DEF StoreType, SeqInv
<1>2. CASE ~ok /\ journal' = journal /\ lastSeq' = lastSeq
  <2>1. serving' /\ lastSeq' = SnapshotSeq' => Snapped'
    BY <1>1, <1>2, SameSnapshot DEF SeqInv
  <2> QED
    BY <1>1, <1>2, <2>1 DEF SeqInv
<1>3. ASSUME NEW x \in ItemType, journal' = Append(journal, x), x.seq = lastSeq + 1,
             ok => lastSeq' = lastSeq + 1, ~ok => lastSeq' = lastSeq
      PROVE  SeqInv'
  <2>1. journal = <<>> => x.seq <= SnapshotSeq + 1
    BY <1>1, <1>3 DEF SeqInv
  <2>2. FrontSeq(journal', SnapshotSeq' + 1) /\ journal' # <<>>
    BY <1>1, <1>3, <2>1, FrontSeqAppended DEF SeqInv
  <2>3. lastSeq' >= SnapshotSeq' /\ (ok => lastSeq' > SnapshotSeq')
    BY <1>1, <1>3
  <2>4. serving' /\ lastSeq' = SnapshotSeq' => Snapped'
    <3>1. CASE ok
      BY <1>1, <2>3, <3>1, <1>3
    <3>2. CASE ~ok
      BY <1>1, <1>3, <3>2, SameSnapshot DEF SeqInv
    <3> QED
      BY <3>1, <3>2
  <2>5. pc' \in OpenPhases \ {"boot"} => lastSeq' > SnapshotSeq'
    BY <1>1, <1>3, <2>3 DEF SeqInv
  <2> QED
    BY <2>2, <2>3, <2>4, <2>5 DEF SeqInv
<1> QED
  BY <1>2, <1>3, Appending

LEMMA SeqStep ==
  ASSUME StoreType, Phases, SeqInv, [Next]_vars
  PROVE  SeqInv'
<1>0. /\ SnapshotSeq \in Nat /\ lastSeq \in Nat /\ journal \in Seq(ItemType)
      /\ Len(journal) \in Nat
  BY SnapshotType DEF StoreType
<1>1. CASE Open
  <2>1. PICK b \in 0..Len(journal) :
          /\ lastSeq' = SnapshotSeq + b
          /\ \/ b = Len(journal) /\ journal' = journal
             \/ b < Len(journal) /\ journal' = SubSeq(journal, 1, b)
             \/ b < Len(journal) /\ journal' = journal
    BY <1>1, Opened
  <2>2. snapshot' = snapshot /\ pc' = "boot" /\ ~serving'
    BY <1>1 DEF Open, Phases
  <2>3. SnapshotSeq' = SnapshotSeq
    BY <2>2, SameSnapshot
  <2>4. /\ journal' = <<>> => b = 0
        /\ FrontSeq(journal', SnapshotSeq + 1)
    <3>1. CASE journal' = journal
      BY <1>0, <2>1, <3>1 DEF SeqInv
    <3>2. CASE journal' = SubSeq(journal, 1, b)
      <4>1. PICK k : k = SubSeq(journal, 1, b)
        OBVIOUS
      <4>2. k \in Seq(ItemType) /\ Len(k) = b /\ \A i \in 1..b : k[i] = journal[i]
        BY <1>0, <4>1, PrefixType
      <4>3. k = <<>> => b = 0
        BY <4>2, SeqFront
      <4>4. ASSUME k # <<>> PROVE journal # <<>> /\ k[1] = journal[1]
        <5>1. b > 0 /\ 1 \in 1..b /\ Len(journal) > 0
          BY <1>0, <4>2, <4>4, SeqFront
        <5> QED
          BY <1>0, <4>2, <5>1, SeqFront
      <4>5. FrontSeq(k, SnapshotSeq + 1)
        BY <4>4 DEF SeqInv, FrontSeq
      <4> QED
        BY <3>2, <4>1, <4>3, <4>5
    <3> QED
      BY <2>1, <3>1, <3>2
  <2>5. lastSeq' >= SnapshotSeq' /\ (journal' = <<>> => lastSeq' = SnapshotSeq')
    BY <1>0, <2>1, <2>3, <2>4
  <2> QED
    BY <2>2, <2>3, <2>4, <2>5 DEF SeqInv, OpenPhases
<1>2. CASE OpenRefused
  <2>1. /\ snapshot' = snapshot /\ journal' = journal /\ pc' = pc /\ pc = "idle"
        /\ serving' = serving /\ opened' = opened /\ ~opened /\ ~serving
    BY <1>2 DEF OpenRefused, disk, Phases
  <2> QED
    BY <2>1, SameSnapshot DEF SeqInv, OpenPhases
<1>3. CASE FinishOpen
  <2>1. /\ snapshot' = snapshot /\ journal' = journal /\ pc' = "idle" /\ lastSeq' = lastSeq
        /\ opened' = opened /\ pc = "fences"
    BY <1>3 DEF FinishOpen, disk
  <2>2. lastSeq > SnapshotSeq
    BY <2>1 DEF SeqInv, OpenPhases
  <2> QED
    BY <1>0, <2>1, <2>2, SameSnapshot DEF SeqInv, OpenPhases
<1>4. CASE WriteSnapshot
  <2>1. /\ snapshot' = {[seq |-> lastSeq, state |-> state]} /\ pc' = "rotate" /\ serving
        /\ journal' = journal /\ lastSeq' = lastSeq /\ opened' = opened /\ state' = state /\ opened
    BY <1>4 DEF WriteSnapshot, Ready, Phases
  <2>2. Snapped' /\ SnapshotSeq' = lastSeq
    BY <2>1, SnappedNext DEF Snapped
  <2>3. SnapshotSeq <= lastSeq
    BY <1>0, <2>1 DEF SeqInv
  <2>4. FrontSeq(journal', SnapshotSeq' + 1)
    <3>1. ASSUME journal # <<>>, ~Zero(journal[1]) PROVE journal[1].seq <= lastSeq + 1
      <4>1. journal[1].seq <= SnapshotSeq + 1
        BY <3>1 DEF SeqInv, FrontSeq
      <4>2. journal[1].seq \in Nat
        BY <1>0, <3>1, SeqFront DEF ItemType
      <4> QED
        BY <1>0, <2>3, <4>1, <4>2
    <3> QED
      BY <2>1, <2>2, <3>1 DEF FrontSeq
  <2> QED
    BY <1>0, <2>1, <2>2, <2>4 DEF SeqInv, OpenPhases
<1>5. CASE Rotate
  <2>1. /\ snapshot' = snapshot /\ journal' = <<>> /\ pc' = "mark" /\ pc = "rotate"
        /\ lastSeq' = lastSeq /\ state' = state
    BY <1>5 DEF Rotate
  <2>2. Snapped /\ Snapped'
    BY <2>1, SameSnapshot DEF SeqInv
  <2>3. SnapshotSeq' = lastSeq'
    BY <2>2, SnappedNext
  <2> QED
    BY <1>0, <2>1, <2>2, <2>3 DEF SeqInv, OpenPhases, FrontSeq
<1>6. CASE RotateFails
  <2>1. /\ snapshot' = snapshot /\ journal' = journal /\ pc' = "idle" /\ pc = "rotate"
        /\ lastSeq' = lastSeq /\ state' = state /\ opened' = opened
    BY <1>6 DEF RotateFails, disk
  <2>2. Snapped'
    BY <2>1, SameSnapshot DEF SeqInv
  <2> QED
    BY <2>1, <2>2, SameSnapshot DEF SeqInv, OpenPhases
<1>7. CASE Close
  <2>1. snapshot' = snapshot /\ journal' = journal /\ pc' = "idle" /\ ~serving' /\ ~opened'
    BY <1>7 DEF Close, disk
  <2> QED
    BY <2>1, SameSnapshot DEF SeqInv, OpenPhases
<1>8. CASE Crash
  <2>1. snapshot' = snapshot /\ pc' = "idle" /\ ~serving' /\ ~opened'
    BY <1>8 DEF Crash
  <2>2. SnapshotSeq' = SnapshotSeq
    BY <2>1, SameSnapshot
  <2>3. FrontSeq(journal', SnapshotSeq + 1)
    <3>1. CASE journal' = journal
      BY <3>1 DEF SeqInv
    <3>2. CASE journal' # journal
      <4>1. PICK rec \in InProgress, x \in ItemType :
           /\ journal' = Append(journal, x)
           /\ Zero(x) \/ x.seq = lastSeq + 1
        BY <1>8, <3>2, CrashLeaves
      <4>2. opened
        BY Interrupted DEF Phases
      <4>3. journal = <<>> => Zero(x) \/ x.seq <= SnapshotSeq + 1
        BY <1>0, <4>1, <4>2 DEF SeqInv
      <4>4. FrontSeq(journal, SnapshotSeq + 1)
        BY DEF SeqInv
      <4> QED
        BY <1>0, <4>1, <4>3, <4>4, FrontSeqAppended
    <3> QED
      BY <3>1, <3>2
  <2> QED
    BY <2>1, <2>2, <2>3 DEF SeqInv, OpenPhases
<1>9. CASE UNCHANGED vars
  <2>1. /\ snapshot' = snapshot /\ journal' = journal /\ pc' = pc /\ state' = state
        /\ opened' = opened /\ serving' = serving /\ lastSeq' = lastSeq
    BY <1>9 DEF vars, disk, memory
  <2> QED
    BY <2>1, SameSnapshot DEF SeqInv
<1>10. ASSUME NEW ok \in BOOLEAN, CommitBoot(ok) PROVE SeqInv'
  <2>1. /\ snapshot' = snapshot /\ serving' = serving /\ ~serving /\ opened
        /\ pc' \in {"failed", "policy", "fences"} /\ (~ok => pc' = "failed")
        /\ Commit(BootRecord(state.epoch), ok)
    BY <1>10 DEF CommitBoot, Phases
  <2>2. BootRecord(state.epoch) \in Record /\ BootRecord(state.epoch) # ZeroRecord
    BY Records, NotZero
  <2> QED
    BY <2>1, <2>2, SeqCommit DEF OpenPhases
<1>11. ASSUME NEW rec, NEW ok, LaterCommit(rec, ok) PROVE SeqInv'
  <2>1. opened
    BY <1>11 DEF LaterCommit, Phases, OpenPhases
  <2>2. /\ rec \in Record /\ rec # ZeroRecord /\ ok \in BOOLEAN /\ Commit(rec, ok)
        /\ snapshot' = snapshot /\ pc' # "rotate" /\ serving' = serving
        /\ pc' \in OpenPhases \ {"boot"} => pc \in OpenPhases \ {"boot"}
        /\ serving /\ ~ok => state' = state
    BY <1>11 DEF LaterCommit, OpenPhases
  <2> QED
    BY <2>1, <2>2, SeqCommit
<1> QED
  BY <1>1, <1>2, <1>3, <1>4, <1>5, <1>6, <1>7, <1>8, <1>9, <1>10, <1>11, NextKinds

-----------------------------------------------------------------------------
(* The commits of open(), field by field. *)

LEMMA StateEqual ==
  ASSUME NEW s \in DurableState, NEW t \in DurableState, s.epoch = t.epoch, s.policy = t.policy,
         s.fences = t.fences, s.decisions = t.decisions, s.interruptions = t.interruptions,
         s.seen = t.seen, s.dropped = t.dropped, s.kept = t.kept
  PROVE  s = t
BY DEF DurableState

LEMMA PushFields ==
  ASSUME NEW s \in DurableState
  PROVE  LET p == PushLineage(s)
         IN /\ p \in DurableState /\ p.epoch = s.epoch /\ p.policy = s.policy
            /\ p.fences = s.fences /\ p.decisions = s.decisions
            /\ p.interruptions = s.interruptions /\ p.seen = s.seen + 1
            /\ p.dropped = (IF s.kept >= MaxLineage THEN s.dropped + 1 ELSE s.dropped)
            /\ p.kept = (IF s.kept >= MaxLineage THEN s.kept ELSE s.kept + 1)
<1>1. CASE s.kept >= MaxLineage
  <2>1. PushLineage(s) = [s EXCEPT !.seen = s.seen + 1, !.dropped = s.dropped + 1, !.kept = s.kept]
    BY <1>1 DEF PushLineage
  <2>2. PICK p : p = PushLineage(s)
    OBVIOUS
  <2>3. s.seen + 1 \in Nat /\ s.dropped + 1 \in Nat /\ s.kept + 1 \in Nat
    BY DEF DurableState
  <2>4. p \in DurableState
    BY <2>1, <2>2, <2>3 DEF DurableState
  <2>5. p.epoch = s.epoch /\ p.policy = s.policy /\ p.fences = s.fences /\ p.decisions = s.decisions
        /\ p.interruptions = s.interruptions
    BY <2>1, <2>2 DEF DurableState
  <2>6. p.seen = s.seen + 1 /\ p.dropped = s.dropped + 1 /\ p.kept = s.kept
    BY <2>1, <2>2 DEF DurableState
  <2> QED
    BY <1>1, <2>2, <2>4, <2>5, <2>6
<1>2. CASE ~(s.kept >= MaxLineage)
  <2>1. PushLineage(s) = [s EXCEPT !.seen = s.seen + 1, !.dropped = s.dropped, !.kept = s.kept + 1]
    BY <1>2 DEF PushLineage
  <2>2. PICK p : p = PushLineage(s)
    OBVIOUS
  <2>3. s.seen + 1 \in Nat /\ s.dropped + 1 \in Nat /\ s.kept + 1 \in Nat
    BY DEF DurableState
  <2>4. p \in DurableState
    BY <2>1, <2>2, <2>3 DEF DurableState
  <2>5. p.epoch = s.epoch /\ p.policy = s.policy /\ p.fences = s.fences /\ p.decisions = s.decisions
        /\ p.interruptions = s.interruptions
    BY <2>1, <2>2 DEF DurableState
  <2>6. p.seen = s.seen + 1 /\ p.dropped = s.dropped /\ p.kept = s.kept + 1
    BY <2>1, <2>2 DEF DurableState
  <2> QED
    BY <1>2, <2>2, <2>4, <2>5, <2>6
<1> QED
  BY <1>1, <1>2

LEMMA FenceFields ==
  ASSUME NEW s \in DurableState, NEW f \in FenceState
  PROVE  LET p == WithFence(s, f)
         IN /\ p \in DurableState /\ p.epoch = s.epoch /\ p.policy = s.policy
            /\ p.fences = {g \in s.fences : g.id # f.id} \cup {f}
            /\ p.decisions = s.decisions /\ p.interruptions = s.interruptions /\ p.seen = s.seen
            /\ p.dropped = s.dropped /\ p.kept = s.kept
<1>1. WithFence(s, f) \in DurableState
  BY WithFenceType
<1> QED
  BY <1>1 DEF WithFence, DurableState

LEMMA AppliedFence ==
  ASSUME NEW s, NEW f
  PROVE  Applied(s, FenceRecord(f)) = PushLineage(WithFence(s, f))
BY DEF Applied, FenceRecord

LEMMA AppliedInterruption ==
  ASSUME NEW s \in DurableState
  PROVE  LET t == [s EXCEPT !.interruptions = s.interruptions + 1]
             p == Applied(s, InterruptionRecord)
         IN /\ t \in DurableState /\ p = PushLineage(t) /\ p \in DurableState
            /\ p.epoch = s.epoch /\ p.policy = s.policy /\ p.fences = s.fences
            /\ p.decisions = s.decisions /\ p.interruptions = s.interruptions + 1
            /\ p.seen = s.seen + 1
            /\ p.dropped = (IF s.kept >= MaxLineage THEN s.dropped + 1 ELSE s.dropped)
            /\ p.kept = (IF s.kept >= MaxLineage THEN s.kept ELSE s.kept + 1)
<1>1. PICK t : t = [s EXCEPT !.interruptions = s.interruptions + 1]
  OBVIOUS
<1>2. /\ t \in DurableState /\ t.epoch = s.epoch /\ t.policy = s.policy /\ t.fences = s.fences
      /\ t.decisions = s.decisions /\ t.interruptions = s.interruptions + 1 /\ t.seen = s.seen
      /\ t.dropped = s.dropped /\ t.kept = s.kept
  BY <1>1 DEF DurableState
<1>3. Applied(s, InterruptionRecord) = PushLineage(t)
  BY <1>1 DEF Applied, InterruptionRecord
<1>4. PICK p : p = PushLineage(t)
  OBVIOUS
<1>5. /\ p \in DurableState /\ p.epoch = t.epoch /\ p.policy = t.policy
      /\ p.fences = t.fences /\ p.decisions = t.decisions
      /\ p.interruptions = t.interruptions /\ p.seen = t.seen + 1
      /\ p.dropped = (IF t.kept >= MaxLineage THEN t.dropped + 1 ELSE t.dropped)
      /\ p.kept = (IF t.kept >= MaxLineage THEN t.kept ELSE t.kept + 1)
  BY <1>2, <1>4, PushFields
<1>6. /\ p.dropped = (IF s.kept >= MaxLineage THEN s.dropped + 1 ELSE s.dropped)
      /\ p.kept = (IF s.kept >= MaxLineage THEN s.kept ELSE s.kept + 1)
  BY <1>2, <1>5
<1> QED
  BY <1>1, <1>2, <1>3, <1>4, <1>5, <1>6

LEMMA AppliedDecision ==
  ASSUME NEW s \in DurableState
  PROVE  LET p == Applied(s, DecisionRecord)
         IN /\ p \in DurableState
            /\ p.epoch = s.epoch /\ p.policy = s.policy /\ p.fences = s.fences
            /\ p.decisions = s.decisions + 1 /\ p.interruptions = s.interruptions
<1>1. PICK t : t = [s EXCEPT !.decisions = s.decisions + 1]
  OBVIOUS
<1>2. /\ t \in DurableState /\ t.epoch = s.epoch /\ t.policy = s.policy /\ t.fences = s.fences
      /\ t.decisions = s.decisions + 1 /\ t.interruptions = s.interruptions
  BY <1>1 DEF DurableState
<1>3. Applied(s, DecisionRecord) = PushLineage(t)
  BY <1>1 DEF Applied, DecisionRecord
<1> QED
  BY <1>2, <1>3, PushFields

(* The interruption is applied to the marked state in memory, to the other one on disk. *)
LEMMA MarkedInterruption ==
  ASSUME NEW s \in DurableState, NEW f \in FenceState, Known(s, f)
  PROVE  /\ Known(Applied(s, InterruptionRecord), f)
         /\ Applied(WithFence(s, f), InterruptionRecord)
              = WithFence(Applied(s, InterruptionRecord), f)
         /\ Applied(WithFence(s, f), InterruptionRecord).policy = s.policy
<1>1. PICK m : m = WithFence(s, f)
  OBVIOUS
<1>2. /\ m \in DurableState /\ m.epoch = s.epoch /\ m.policy = s.policy
      /\ m.fences = {g \in s.fences : g.id # f.id} \cup {f}
      /\ m.decisions = s.decisions /\ m.interruptions = s.interruptions /\ m.seen = s.seen
      /\ m.dropped = s.dropped /\ m.kept = s.kept
  BY <1>1, FenceFields
<1>3. PICK a : a = Applied(m, InterruptionRecord)
  OBVIOUS
<1>4. /\ a \in DurableState
      /\ a.epoch = m.epoch /\ a.policy = m.policy /\ a.fences = m.fences
      /\ a.decisions = m.decisions /\ a.interruptions = m.interruptions + 1
      /\ a.seen = m.seen + 1
      /\ a.dropped = (IF m.kept >= MaxLineage THEN m.dropped + 1 ELSE m.dropped)
      /\ a.kept = (IF m.kept >= MaxLineage THEN m.kept ELSE m.kept + 1)
  BY <1>2, <1>3, AppliedInterruption
<1>5. PICK b : b = Applied(s, InterruptionRecord)
  OBVIOUS
<1>6. /\ b \in DurableState
      /\ b.epoch = s.epoch /\ b.policy = s.policy /\ b.fences = s.fences
      /\ b.decisions = s.decisions /\ b.interruptions = s.interruptions + 1
      /\ b.seen = s.seen + 1
      /\ b.dropped = (IF s.kept >= MaxLineage THEN s.dropped + 1 ELSE s.dropped)
      /\ b.kept = (IF s.kept >= MaxLineage THEN s.kept ELSE s.kept + 1)
  BY <1>5, AppliedInterruption
<1>7. PICK c : c = WithFence(b, f)
  OBVIOUS
<1>8. /\ c \in DurableState /\ c.epoch = b.epoch /\ c.policy = b.policy
      /\ c.fences = {g \in b.fences : g.id # f.id} \cup {f}
      /\ c.decisions = b.decisions /\ c.interruptions = b.interruptions /\ c.seen = b.seen
      /\ c.dropped = b.dropped /\ c.kept = b.kept
  BY <1>6, <1>7, FenceFields
<1>9. a = c
  <2>1. a.fences = c.fences
    BY <1>2, <1>4, <1>6, <1>8
  <2>2. a.dropped = c.dropped /\ a.kept = c.kept
    BY <1>2, <1>4, <1>6, <1>8
  <2>3. a.epoch = c.epoch /\ a.policy = c.policy /\ a.decisions = c.decisions
        /\ a.interruptions = c.interruptions /\ a.seen = c.seen
    BY <1>2, <1>4, <1>6, <1>8
  <2> QED
    BY <1>4, <1>8, <2>1, <2>2, <2>3, StateEqual
<1>10. Known(b, f)
  BY <1>6 DEF Known
<1> QED
  BY <1>1, <1>2, <1>3, <1>4, <1>5, <1>7, <1>9, <1>10

(* Committing the terminal state of a fence that is already marked. *)
LEMMA MarkedFence ==
  ASSUME NEW s \in DurableState, NEW f \in FenceState
  PROVE  /\ Applied(WithFence(s, f), FenceRecord(f)) = Applied(s, FenceRecord(f))
         /\ Applied(s, FenceRecord(f)) \in DurableState
         /\ Applied(s, FenceRecord(f)).policy = s.policy
<1>1. PICK m : m = WithFence(s, f)
  OBVIOUS
<1>2. /\ m \in DurableState /\ m.epoch = s.epoch /\ m.policy = s.policy
      /\ m.fences = {g \in s.fences : g.id # f.id} \cup {f}
      /\ m.decisions = s.decisions /\ m.interruptions = s.interruptions /\ m.seen = s.seen
      /\ m.dropped = s.dropped /\ m.kept = s.kept
  BY <1>1, FenceFields
<1>3. PICK n : n = WithFence(m, f)
  OBVIOUS
<1>4. /\ n \in DurableState /\ n.epoch = m.epoch /\ n.policy = m.policy
      /\ n.fences = {g \in m.fences : g.id # f.id} \cup {f}
      /\ n.decisions = m.decisions /\ n.interruptions = m.interruptions /\ n.seen = m.seen
      /\ n.dropped = m.dropped /\ n.kept = m.kept
  BY <1>2, <1>3, FenceFields
<1>5. n.fences = m.fences
  BY <1>2, <1>4
<1>6. n = m
  BY <1>2, <1>4, <1>5, StateEqual
<1>7. PushLineage(m) \in DurableState /\ PushLineage(m).policy = m.policy
  BY <1>2, PushFields
<1> QED
  BY <1>1, <1>2, <1>3, <1>6, <1>7, AppliedFence

LEMMA AppliedPolicy ==
  ASSUME NEW s \in DurableState, NEW p \in Policies
  PROVE  LET t == Applied(s, PolicyRecord(p))
         IN /\ t \in DurableState /\ t.epoch = s.epoch /\ t.policy = p /\ t.fences = s.fences
            /\ t.decisions = s.decisions /\ t.interruptions = s.interruptions
<1>1. Applied(s, PolicyRecord(p)) = [s EXCEPT !.policy = p]
  BY DEF Applied, PolicyRecord
<1> QED
  BY <1>1 DEF DurableState

LEMMA AppliedBoot ==
  ASSUME NEW s \in DurableState, NEW e \in Nat
  PROVE  /\ Applied(s, BootRecord(e)) = [s EXCEPT !.epoch = e]
         /\ [s EXCEPT !.epoch = e] \in DurableState
BY DEF Applied, BootRecord, DurableState

-----------------------------------------------------------------------------
(* What open() knows of the disk: a new process that finds the journal acceptable
   recovers what is in memory, but for the boot record before its commit and for the
   fence that is marked and not yet committed. *)

DiskState(c, s) == Accepts(journal, c, SnapshotSeq + 1, Start(EmptyState), s)

Reaches(c) == c = Len(journal) /\ lastSeq = SnapshotSeq + c

ClosingInv ==
  \E f \in FenceState :
    /\ closing = {f} /\ ~f.open
    /\ \A c, s : DiskState(c, s) => Reaches(c) /\ Known(s, f) /\ state = WithFence(s, f)

OpenInv ==
  /\ pc = "boot" => \A c, s : DiskState(c, s) => /\ ZeroFrom(journal, c + 1)
                                                 /\ lastSeq = SnapshotSeq + c
                                                 /\ state = [s EXCEPT !.epoch = s.epoch + 1]
  /\ pc \in {"policy", "fences"} => \A c, s : DiskState(c, s) => Reaches(c) /\ s = state
  /\ pc = "close" => ClosingInv
  /\ pc \in {"fences", "close"} \/ serving => state.policy = policy

LEMMA DiskType ==
  ASSUME StoreType
  PROVE  /\ journal \in Seq(ItemType) /\ SnapshotSeq \in Nat /\ SnapshotSeq + 1 \in Nat
         /\ Start(EmptyState) \in DurableState
         /\ \A c, s : DiskState(c, s) =>
              c \in Nat /\ c \in 0..Len(journal) /\ s \in DurableState
<1>1. /\ journal \in Seq(ItemType) /\ SnapshotSeq \in Nat /\ SnapshotSeq + 1 \in Nat
      /\ Start(EmptyState) \in DurableState /\ Len(journal) \in Nat
  BY SnapshotType, EmptyType DEF StoreType
<1>2. ASSUME NEW c, NEW s, DiskState(c, s)
      PROVE  c \in Nat /\ c \in 0..Len(journal) /\ s \in DurableState
  <2>1. c \in Nat /\ c \in 0..Len(journal)
    BY <1>1, <1>2 DEF DiskState, Accepts
  <2>2. Replays(journal, c, SnapshotSeq + 1, Start(EmptyState), s)
    BY <1>2 DEF DiskState, Accepts
  <2> QED
    BY <1>1, <2>1, <2>2, ReplaysType
<1> QED
  BY <1>1, <1>2

(* What a new process finds after an append. *)
LEMMA DiskAppend ==
  ASSUME StoreType, snapshot' = snapshot, NEW x \in ItemType, journal' = Append(journal, x),
         NEW c, NEW s, DiskState(c, s)'
  PROVE  \/ /\ c = Len(journal) + 1 /\ x.seq = SnapshotSeq + c /\ Whole(x)
            /\ \E t \in DurableState :
                 /\ DiskState(Len(journal), t)
                 /\ ApplyOutcome(t, x.seq, x.rec) = "Ok" /\ s = Applied(t, x.rec)
         \/ /\ DiskState(c, s)
            /\ c < Len(journal) => TornAt(journal, c + 1, SnapshotSeq + 1)
                                     \/ (Zero(x) /\ ZeroFrom(journal, c + 1))
            /\ c = Len(journal) => \/ Zero(x)
                                   \/ x.have = 0
                                   \/ x.seq = SnapshotSeq + 1 + c /\ x.have < x.need
<1>1. /\ journal \in Seq(ItemType) /\ SnapshotSeq \in Nat /\ SnapshotSeq + 1 \in Nat
      /\ Len(journal) \in Nat
  BY DiskType
<1>2. Accepts(Append(journal, x), c, SnapshotSeq + 1, Start(EmptyState), s)
  BY SameSnapshot DEF DiskState
<1>3. \/ /\ c = Len(journal) + 1
         /\ \E t \in DurableState :
              /\ Accepts(journal, Len(journal), SnapshotSeq + 1, Start(EmptyState), t)
              /\ Step(x, SnapshotSeq + 1 + Len(journal), t, s)
      \/ /\ Accepts(journal, c, SnapshotSeq + 1, Start(EmptyState), s)
         /\ c < Len(journal) => \/ TornAt(journal, c + 1, SnapshotSeq + 1)
                                \/ Zero(x) /\ ZeroFrom(journal, c + 1)
         /\ c = Len(journal) => \/ Zero(x)
                                \/ x.have = 0
                                \/ x.seq = SnapshotSeq + 1 + Len(journal) /\ x.have < x.need
  BY <1>1, <1>2, AcceptsAppend
<1>4. SnapshotSeq + 1 + Len(journal) = SnapshotSeq + (Len(journal) + 1)
  BY <1>1
<1> QED
  BY <1>3, <1>4 DEF DiskState, Step

(* A commit that succeeds behind a journal without a tear is what the disk ends with. *)
LEMMA DiskGrows ==
  ASSUME StoreType, NEW rec \in Record, rec # ZeroRecord, Commit(rec, TRUE), snapshot' = snapshot,
         \A c, s : DiskState(c, s) => ZeroFrom(journal, c + 1)
  PROVE  \A c, s : DiskState(c, s)' =>
           /\ Reaches(c)'
           /\ \E t \in DurableState :
                /\ DiskState(Len(journal), t)
                /\ ApplyOutcome(t, lastSeq + 1, rec) = "Ok" /\ s = Applied(t, rec)
<1>1. PICK x \in ItemType :
              /\ journal' = Append(journal, x)
              /\ x.rec = rec /\ x.seq = lastSeq + 1 /\ x.have # 0 /\ ~Zero(x)
              /\ Whole(x) /\ lastSeq' = lastSeq + 1
  BY Appending
<1>2. journal \in Seq(ItemType) /\ Len(journal) \in Nat /\ SnapshotSeq \in Nat
  BY DiskType
<1>3. Len(journal') = Len(journal) + 1
  <2>1. PICK k : k = Append(journal, x)
    OBVIOUS
  <2>2. Len(k) = Len(journal) + 1
    BY <1>2, <2>1, Appended
  <2> QED
    BY <1>1, <2>1, <2>2
<1>4. x.have = x.need /\ x.need \in Nat
  BY <1>1 DEF Whole, ItemType
<1> SUFFICES ASSUME NEW c, NEW s, DiskState(c, s)'
             PROVE  /\ Reaches(c)'
                    /\ \E t \in DurableState :
                         /\ DiskState(Len(journal), t)
                         /\ ApplyOutcome(t, lastSeq + 1, rec) = "Ok" /\ s = Applied(t, rec)
  OBVIOUS
<1>5. CASE /\ c = Len(journal) + 1 /\ x.seq = SnapshotSeq + c
           /\ \E t \in DurableState :
                /\ DiskState(Len(journal), t)
                /\ ApplyOutcome(t, x.seq, x.rec) = "Ok" /\ s = Applied(t, x.rec)
  <2>1. Reaches(c)'
    BY <1>1, <1>3, <1>5, SameSnapshot DEF Reaches
  <2> QED
    BY <1>1, <1>5, <2>1
<1>6. CASE /\ DiskState(c, s)
           /\ c < Len(journal) => TornAt(journal, c + 1, SnapshotSeq + 1)
           /\ c # Len(journal)
  <2>1. ZeroFrom(journal, c + 1)
    BY <1>6
  <2>2. c \in Nat /\ c \in 0..Len(journal) /\ c < Len(journal) /\ c + 1 \in (c + 1)..Len(journal)
    BY <1>2, <1>6, DiskType
  <2>3. Zero(journal[c + 1])
    BY <2>1, <2>2 DEF ZeroFrom
  <2> QED
    BY <1>6, <2>2, <2>3 DEF TornAt
<1>7. ~(x.have < x.need)
  BY <1>4
<1> QED
  BY <1>1, <1>5, <1>6, <1>7, DiskAppend

LEMMA TailOpen ==
  ASSUME StoreType, pc \in {"policy", "fences", "close"}, OpenInv
  PROVE  \A c, s : DiskState(c, s) => ZeroFrom(journal, c + 1)
<1>1. Len(journal) \in Nat
  BY DiskType
<1>2. \A c, s : DiskState(c, s) => c = Len(journal)
  BY DEF OpenInv, ClosingInv, Reaches
<1>3. ZeroFrom(journal, Len(journal) + 1)
  BY <1>1 DEF ZeroFrom
<1> QED
  BY <1>2, <1>3

LEMMA OpenInvOpen ==
  ASSUME StoreType, Phases, FrontInv, Open
  PROVE  OpenInv'
<1>1. PICK b \in 0..Len(journal), s \in DurableState :
              /\ Replays(journal, b, SnapshotSeq + 1, Start(state), s)
              /\ state' = [s EXCEPT !.epoch = s.epoch + 1]
              /\ lastSeq' = SnapshotSeq + b
              /\ \/ b = Len(journal) /\ journal' = journal
                 \/ b < Len(journal) /\ TornAt(journal, b + 1, SnapshotSeq + 1) /\ journal' = SubSeq(journal, 1, b)
                 \/ b < Len(journal) /\ ZeroFrom(journal, b + 1) /\ journal' = journal
  BY Opened
<1>2. snapshot' = snapshot /\ pc' = "boot" /\ ~serving'
  BY DEF Open, Phases
<1>3. /\ journal \in Seq(ItemType) /\ SnapshotSeq + 1 \in Nat /\ Len(journal) \in Nat
      /\ Start(state) = Start(EmptyState)
  BY DiskType, OpensAfresh
<1>4. ASSUME NEW c, NEW t, DiskState(c, t)'
      PROVE  c = b /\ t = s /\ ZeroFrom(journal', b + 1)
  <2>1. Accepts(journal', c, SnapshotSeq + 1, Start(EmptyState), t)
    BY <1>2, <1>4, SameSnapshot DEF DiskState
  <2>2. CASE journal' = journal /\ (b < Len(journal) => ZeroFrom(journal, b + 1))
    <3>1. Accepts(journal, b, SnapshotSeq + 1, Start(EmptyState), s)
      BY <1>1, <1>3, <2>2 DEF Accepts
    <3>2. c = b /\ t = s
      BY <1>3, <2>1, <2>2, <3>1, AcceptsUnique
    <3>3. ZeroFrom(journal, b + 1)
      <4>1. CASE b = Len(journal)
        BY <1>3, <4>1 DEF ZeroFrom
      <4>2. CASE b # Len(journal)
        BY <1>3, <2>2, <4>2
      <4> QED
        BY <4>1, <4>2
    <3> QED
      BY <2>2, <3>2, <3>3
  <2>3. CASE journal' = SubSeq(journal, 1, b)
    <3>1. c = b /\ t = s
      BY <1>1, <1>3, <2>1, <2>3, AcceptsCut
    <3>2. PICK k : k = SubSeq(journal, 1, b)
      OBVIOUS
    <3>3. Len(k) = b /\ b \in Nat
      BY <1>3, <3>2, PrefixType
    <3>4. ZeroFrom(k, b + 1)
      BY <3>3 DEF ZeroFrom
    <3> QED
      BY <2>3, <3>1, <3>2, <3>4
  <2> QED
    BY <1>1, <1>3, <2>2, <2>3
<1>5. \A c, t : DiskState(c, t)' => /\ ZeroFrom(journal', c + 1)
                                     /\ lastSeq' = SnapshotSeq' + c
                                     /\ state' = [t EXCEPT !.epoch = t.epoch + 1]
  <2>1. SnapshotSeq' = SnapshotSeq
    BY <1>2, SameSnapshot
  <2> QED
    BY <1>1, <1>4, <2>1
<1> QED
  BY <1>2, <1>5 DEF OpenInv

LEMMA OpenInvBoot ==
  ASSUME StoreType, Phases, OpenInv, NEW ok \in BOOLEAN, CommitBoot(ok)
  PROVE  OpenInv'
<1>1. /\ snapshot' = snapshot /\ state' = state /\ policy' = policy /\ serving' = serving /\ ~serving
      /\ pc = "boot" /\ Commit(BootRecord(state.epoch), ok)
      /\ pc' = (IF ~ok THEN "failed" ELSE IF state.policy # policy THEN "policy" ELSE "fences")
  BY DEF CommitBoot, Phases
<1>2. CASE ~ok
  BY <1>1, <1>2 DEF OpenInv
<1>3. CASE ok
  <2>1. BootRecord(state.epoch) \in Record /\ BootRecord(state.epoch) # ZeroRecord
    BY Records, NotZero
  <2>2. Commit(BootRecord(state.epoch), TRUE)
    BY <1>1, <1>3
  <2>3. \A c, s : DiskState(c, s) => ZeroFrom(journal, c + 1)
    BY <1>1 DEF OpenInv
  <2>4. ASSUME NEW c, NEW s, DiskState(c, s)' PROVE Reaches(c)' /\ s = state
    <3>1. PICK t \in DurableState :
            DiskState(Len(journal), t) /\ s = Applied(t, BootRecord(state.epoch))
      BY <1>1, <2>1, <2>2, <2>3, <2>4, DiskGrows
    <3>2. Reaches(c)'
      BY <1>1, <2>1, <2>2, <2>3, <2>4, DiskGrows
    <3>3. state = [t EXCEPT !.epoch = t.epoch + 1]
      BY <1>1, <3>1 DEF OpenInv
    <3>4. state.epoch = t.epoch + 1 /\ state.epoch \in Nat
      BY <3>1, <3>3 DEF DurableState
    <3>5. s = [t EXCEPT !.epoch = state.epoch]
      BY <3>1, <3>4, AppliedBoot
    <3> QED
      BY <3>2, <3>3, <3>4, <3>5
  <2>5. pc' \in {"policy", "fences"} /\ (pc' = "fences" => state'.policy = policy')
    BY <1>1, <1>3
  <2> QED
    BY <1>1, <2>4, <2>5 DEF OpenInv
<1> QED
  BY <1>2, <1>3

LEMMA OpenInvPolicy ==
  ASSUME StoreType, Phases, OpenInv, NEW ok \in BOOLEAN, CommitPolicy(ok)
  PROVE  OpenInv'
<1>1. /\ snapshot' = snapshot /\ policy' = policy /\ serving' = serving /\ ~serving
      /\ pc = "policy" /\ Commit(PolicyRecord(policy), ok)
      /\ pc' = (IF ok THEN "fences" ELSE "failed")
      /\ ok => state' = Applied(state, PolicyRecord(policy))
  BY DEF CommitPolicy, Phases
<1>2. CASE ~ok
  BY <1>1, <1>2 DEF OpenInv
<1>3. CASE ok
  <2>1. PolicyRecord(policy) \in Record /\ PolicyRecord(policy) # ZeroRecord
    BY Records, NotZero
  <2>2. Commit(PolicyRecord(policy), TRUE)
    BY <1>1, <1>3
  <2>3. \A c, s : DiskState(c, s) => ZeroFrom(journal, c + 1)
    BY <1>1, TailOpen
  <2>4. ASSUME NEW c, NEW s, DiskState(c, s)' PROVE Reaches(c)' /\ s = state'
    <3>0. snapshot' = snapshot
      BY <1>1
    <3>1. PICK t \in DurableState :
            DiskState(Len(journal), t) /\ s = Applied(t, PolicyRecord(policy))
      BY <3>0, <2>1, <2>2, <2>3, <2>4, DiskGrows
    <3>2. Reaches(c)'
      BY <1>1, <2>1, <2>2, <2>3, <2>4, DiskGrows
    <3>3. t = state
      BY <1>1, <3>1 DEF OpenInv
    <3> QED
      BY <1>1, <1>3, <3>1, <3>2, <3>3
  <2>5. state'.policy = policy'
    BY <1>1, <1>3, AppliedPolicy DEF StoreType
  <2> QED
    BY <1>1, <1>3, <2>4, <2>5 DEF OpenInv
<1> QED
  BY <1>2, <1>3

LEMMA OpenInvInterruption ==
  ASSUME StoreType, Phases, OpenInv, NEW ok \in BOOLEAN, NEW f \in OpenFences,
         CommitInterruption(f, ok)
  PROVE  OpenInv'
<1>1. /\ snapshot' = snapshot /\ policy' = policy /\ serving' = serving /\ ~serving
      /\ pc = "fences" /\ Commit(InterruptionRecord, ok)
      /\ pc' = (IF ok THEN "close" ELSE "failed") /\ closing' = {Closed(f)}
      /\ ok => state' = Applied(WithFence(state, Closed(f)), InterruptionRecord)
  BY DEF CommitInterruption, Phases
<1>2. CASE ~ok
  BY <1>1, <1>2 DEF OpenInv
<1>3. CASE ok
  <2>0. PICK g : g = Closed(f)
    OBVIOUS
  <2>1. InterruptionRecord \in Record /\ InterruptionRecord # ZeroRecord
    BY Records, NotZero
  <2>2. Commit(InterruptionRecord, TRUE)
    BY <1>1, <1>3
  <2>3. \A c, s : DiskState(c, s) => ZeroFrom(journal, c + 1)
    BY <1>1, TailOpen
  <2>4. state \in DurableState /\ f \in state.fences /\ f \in FenceState
    BY DEF StoreType, OpenFences, DurableState
  <2>5. g \in FenceState /\ ~g.open /\ Known(state, g)
    BY <2>0, <2>4, ClosedType DEF Known
  <2>6. /\ Known(Applied(state, InterruptionRecord), g)
        /\ state' = WithFence(Applied(state, InterruptionRecord), g)
        /\ state'.policy = state.policy
    BY <1>1, <1>3, <2>0, <2>4, <2>5, MarkedInterruption
  <2>7. ASSUME NEW c, NEW s, DiskState(c, s)'
        PROVE  Reaches(c)' /\ Known(s, g) /\ state' = WithFence(s, g)
    <3>0. snapshot' = snapshot
      BY <1>1
    <3>1. /\ Reaches(c)'
          /\ \E t \in DurableState :
               /\ DiskState(Len(journal), t)
               /\ ApplyOutcome(t, lastSeq + 1, InterruptionRecord) = "Ok"
               /\ s = Applied(t, InterruptionRecord)
      BY <2>1, <2>2, <2>3, <2>7, <3>0, DiskGrows
    <3>2. PICK t \in DurableState : DiskState(Len(journal), t) /\ s = Applied(t, InterruptionRecord)
      BY <3>1
    <3>3. t = state
      BY <1>1, <3>2 DEF OpenInv
    <3> QED
      BY <2>6, <3>1, <3>2, <3>3
  <2>8. ClosingInv'
    BY <1>1, <2>0, <2>5, <2>7 DEF ClosingInv, Known, WithFence
  <2>9. state'.policy = policy'
    BY <1>1, <2>6 DEF OpenInv
  <2> QED
    BY <1>1, <1>3, <2>8, <2>9 DEF OpenInv
<1> QED
  BY <1>2, <1>3

LEMMA OpenInvFence ==
  ASSUME StoreType, Phases, OpenInv, NEW ok \in BOOLEAN, NEW f \in closing,
         CommitRestartFence(f, ok)
  PROVE  OpenInv'
<1>1. /\ snapshot' = snapshot /\ policy' = policy /\ serving' = serving /\ ~serving
      /\ pc = "close" /\ Commit(FenceRecord(f), ok)
      /\ pc' = (IF ok THEN "fences" ELSE "failed")
      /\ ok => state' = Applied(state, FenceRecord(f))
  BY DEF CommitRestartFence, Phases
<1>2. CASE ~ok
  BY <1>1, <1>2 DEF OpenInv
<1>3. CASE ok
  <2>0. f \in FenceState /\ state \in DurableState
    BY DEF StoreType
  <2>1. FenceRecord(f) \in Record /\ FenceRecord(f) # ZeroRecord
    BY <2>0, Records, NotZero
  <2>2. Commit(FenceRecord(f), TRUE)
    BY <1>1, <1>3
  <2>3. \A c, s : DiskState(c, s) => ZeroFrom(journal, c + 1)
    BY <1>1, TailOpen
  <2>4. ASSUME NEW c, NEW s, DiskState(c, s)' PROVE Reaches(c)' /\ s = state'
    <3>0. snapshot' = snapshot
      BY <1>1
    <3>1. PICK t \in DurableState :
            DiskState(Len(journal), t) /\ s = Applied(t, FenceRecord(f))
      BY <3>0, <2>1, <2>2, <2>3, <2>4, DiskGrows
    <3>2. Reaches(c)'
      BY <1>1, <2>1, <2>2, <2>3, <2>4, DiskGrows
    <3>3. state = WithFence(t, f)
      BY <1>1, <3>1 DEF OpenInv, ClosingInv
    <3>4. Applied(state, FenceRecord(f)) = Applied(t, FenceRecord(f))
      BY <2>0, <3>1, <3>3, MarkedFence
    <3> QED
      BY <1>1, <1>3, <3>1, <3>2, <3>4
  <2>5. state'.policy = policy'
    <3>1. state'.policy = state.policy
      BY <1>1, <1>3, <2>0, MarkedFence
    <3> QED
      BY <1>1, <3>1 DEF OpenInv
  <2> QED
    BY <1>1, <1>3, <2>4, <2>5 DEF OpenInv
<1> QED
  BY <1>2, <1>3

LEMMA ClientApplied ==
  ASSUME StoreType, NEW rec \in ClientRecords, NEW s \in DurableState
  PROVE  /\ Applied(s, rec) \in DurableState
         /\ Applied(s, rec).policy = s.policy /\ Applied(s, rec).epoch = s.epoch
<1>1. CASE rec = DecisionRecord
  BY <1>1, AppliedDecision
<1>2. CASE \E f \in FenceState : rec = FenceRecord(f)
  BY <1>2, MarkedFence, FenceEpoch
<1> QED
  BY <1>1, <1>2, ClientRecord

LEMMA OpenInvStep ==
  ASSUME StoreType, Phases, FrontInv, OpenInv, [Next]_vars
  PROVE  OpenInv'
<1>1. CASE OpenRefused
  BY <1>1 DEF OpenRefused, Phases, OpenInv
<1>2. CASE FinishOpen
  <2>1. state' = state /\ policy' = policy /\ pc = "fences" /\ pc' = "idle"
    BY <1>2 DEF FinishOpen
  <2> QED
    BY <2>1 DEF OpenInv
<1>3. CASE WriteSnapshot \/ Rotate \/ RotateFails
  <2>1. state' = state /\ policy' = policy /\ serving' = serving /\ pc' \in {"rotate", "mark", "idle"}
    BY <1>3 DEF WriteSnapshot, Rotate, RotateFails
  <2> QED
    BY <2>1 DEF OpenInv
<1>4. CASE Close \/ Crash
  <2>1. ~serving' /\ pc' = "idle"
    BY <1>4 DEF Close, Crash
  <2> QED
    BY <2>1 DEF OpenInv
<1>5. CASE UNCHANGED vars
  <2>1. /\ snapshot' = snapshot /\ journal' = journal /\ pc' = pc /\ state' = state
        /\ policy' = policy /\ serving' = serving /\ lastSeq' = lastSeq /\ closing' = closing
    BY <1>5 DEF vars, disk, memory
  <2>2. \A c, s : (DiskState(c, s)' <=> DiskState(c, s)) /\ (Reaches(c)' <=> Reaches(c))
    BY <2>1, SameSnapshot DEF DiskState, Reaches
  <2>3. ClosingInv => ClosingInv'
    BY <2>1, <2>2 DEF ClosingInv
  <2>4. SnapshotSeq' = SnapshotSeq
    BY <2>1, SameSnapshot
  <2> QED
    BY <2>1, <2>2, <2>3, <2>4 DEF OpenInv
<1>6. ASSUME NEW ok \in BOOLEAN, CommitCheckpoint(ok) PROVE OpenInv'
  <2>1. state' = state /\ policy' = policy /\ serving' = serving /\ pc' = "idle"
    BY <1>6 DEF CommitCheckpoint
  <2> QED
    BY <2>1 DEF OpenInv
<1>7. ASSUME NEW ok \in BOOLEAN, NEW rec \in ClientRecords, CommitRecord(rec, ok) PROVE OpenInv'
  <2>1. /\ policy' = policy /\ serving' = serving /\ serving /\ pc' = pc /\ pc = "idle"
        /\ state' = state \/ state' = Applied(state, rec)
    BY <1>7 DEF CommitRecord, Ready
  <2>2. state'.policy = state.policy
    BY <2>1, ClientApplied DEF StoreType
  <2> QED
    BY <2>1, <2>2 DEF OpenInv
<1> QED
  BY <1>1, <1>2, <1>3, <1>4, <1>5, <1>6, <1>7, OpenInvOpen, OpenInvBoot, OpenInvPolicy,
     OpenInvInterruption, OpenInvFence, NextCases

-----------------------------------------------------------------------------
(* What a store that serves knows of the disk. *)

(* The policy and the open fences are those of the process that serves. *)
Agrees(s) ==
  s.policy = state.policy /\ \A f \in s.fences : f.open => f.epoch = state.epoch

Unbroken(j) == \A n \in 1..(Len(j) - 1) : ~(j[n].have < j[n].need)

(* The disk holds what is in memory, or one record more that was refused. *)
Live(c, s) ==
  \/ s = state /\ lastSeq = SnapshotSeq + c
  \/ "fsync" \in Faults /\ c = Len(journal) /\ lastSeq + 1 = SnapshotSeq + c /\ Found(s)

ServeInv ==
  serving =>
    /\ promised = state
    /\ Agrees(state)
    /\ \A c, s : DiskState(c, s) => Agrees(s)
    /\ Unbroken(journal) => \A c, s : DiskState(c, s) => Live(c, s)

(* What a client's record does to a state. *)
LEMMA HarmlessFence ==
  ASSUME NEW f \in FenceState, f.open => f.epoch = state.epoch, NEW s \in DurableState, Agrees(s)
  PROVE  Agrees(Applied(s, FenceRecord(f)))
<1>1. PICK w : w = WithFence(s, f)
  OBVIOUS
<1>2. /\ w \in DurableState /\ w.fences = {g \in s.fences : g.id # f.id} \cup {f}
      /\ w.policy = s.policy
  BY <1>1, FenceFields
<1>3. PushLineage(w).fences = w.fences /\ PushLineage(w).policy = w.policy
  BY <1>2, PushFields
<1>4. Applied(s, FenceRecord(f)) = PushLineage(w)
  BY <1>1, AppliedFence
<1> QED
  BY <1>2, <1>3, <1>4 DEF Agrees

LEMMA HarmlessClient ==
  ASSUME StoreType, NEW rec \in ClientRecords, NEW s \in DurableState, Agrees(s)
  PROVE  Agrees(Applied(s, rec))
<1>1. CASE rec = DecisionRecord
  <2>1. Applied(s, rec).fences = s.fences /\ Applied(s, rec).policy = s.policy
    BY <1>1, AppliedDecision
  <2> QED
    BY <2>1 DEF Agrees
<1>2. CASE \E f \in FenceState : rec = FenceRecord(f) /\ (f.open => f.epoch = state.epoch)
  BY <1>2, HarmlessFence
<1> QED
  BY <1>1, <1>2, ClientRecord

LEMMA FoundSelf ==
  ASSUME promised \in DurableState
  PROVE  Found(promised)
<1>1. promised.epoch \in Nat /\ promised.decisions \in Nat /\ promised.interruptions \in Nat
  BY DEF DurableState
<1> QED
  BY <1>1 DEF Found

(* One record more is found behind what was acknowledged. *)
LEMMA FoundFence ==
  ASSUME promised \in DurableState, NEW s \in DurableState, Found(s), NEW f \in FenceState,
         f.open => ~Known(s, f)
  PROVE  Found(Applied(s, FenceRecord(f)))
<1>1. PICK w : w = WithFence(s, f)
  OBVIOUS
<1>2. /\ w \in DurableState /\ w.fences = {g \in s.fences : g.id # f.id} \cup {f}
      /\ w.epoch = s.epoch /\ w.decisions = s.decisions /\ w.interruptions = s.interruptions
  BY <1>1, FenceFields
<1>3. PICK p : p = Applied(s, FenceRecord(f))
  OBVIOUS
<1>4. p = PushLineage(w)
  BY <1>1, <1>3, AppliedFence
<1>5. /\ p.fences = w.fences /\ p.epoch = s.epoch /\ p.decisions = s.decisions
      /\ p.interruptions = s.interruptions
  BY <1>2, <1>4, PushFields
<1>6. ASSUME NEW h \in promised.fences
      PROVE  \E g \in p.fences : g.id = h.id /\ (g.open => h.open)
  <2>1. PICK g \in s.fences : g.id = h.id /\ (g.open => h.open)
    BY <1>6 DEF Found
  <2>2. CASE g.id # f.id
    BY <1>2, <1>5, <2>1, <2>2
  <2>3. CASE g.id = f.id
    <3>1. ~f.open
      BY <2>1, <2>3 DEF Known
    <3>2. f \in p.fences
      BY <1>2, <1>5
    <3> QED
      BY <2>1, <2>3, <3>1, <3>2
  <2> QED
    BY <2>2, <2>3
<1>7. Found(p)
  BY <1>5, <1>6 DEF Found
<1> QED
  BY <1>3, <1>7

LEMMA FoundDecision ==
  ASSUME promised \in DurableState, NEW s \in DurableState, Found(s)
  PROVE  Found(Applied(s, DecisionRecord))
<1>1. PICK p : p = Applied(s, DecisionRecord)
  OBVIOUS
<1>2. /\ p.fences = s.fences /\ p.epoch = s.epoch /\ p.decisions = s.decisions + 1
      /\ p.interruptions = s.interruptions
  BY <1>1, AppliedDecision
<1>3. s.decisions \in Nat /\ promised.decisions \in Nat
  BY DEF DurableState
<1>4. p.decisions >= promised.decisions
  BY <1>2, <1>3 DEF Found
<1>5. Found(p)
  BY <1>2, <1>4 DEF Found
<1> QED
  BY <1>1, <1>5

LEMMA FoundInterruption ==
  ASSUME promised \in DurableState, NEW s \in DurableState, Found(s)
  PROVE  Found(Applied(s, InterruptionRecord))
<1>1. PICK p : p = Applied(s, InterruptionRecord)
  OBVIOUS
<1>2. /\ p.fences = s.fences /\ p.epoch = s.epoch /\ p.decisions = s.decisions
      /\ p.interruptions = s.interruptions + 1
  BY <1>1, AppliedInterruption
<1>3. s.interruptions \in Nat /\ promised.interruptions \in Nat
  BY DEF DurableState
<1>4. p.interruptions >= promised.interruptions
  BY <1>2, <1>3 DEF Found
<1>5. Found(p)
  BY <1>2, <1>4 DEF Found
<1> QED
  BY <1>1, <1>5

LEMMA FoundClient ==
  ASSUME StoreType, promised = state, NEW rec \in ClientRecords
  PROVE  Found(Applied(state, rec))
<1>1. state \in DurableState /\ promised \in DurableState /\ Found(state)
  BY FoundSelf DEF StoreType
<1>2. CASE rec = DecisionRecord
  BY <1>1, <1>2, FoundDecision
<1>3. CASE \E f \in FenceState : rec = FenceRecord(f) /\ (f.open => ~Known(state, f))
  BY <1>1, <1>3, FoundFence
<1> QED
  BY <1>2, <1>3, ClientRecord

LEMMA AppliedCheckpoint ==
  ASSUME NEW s, NEW n
  PROVE  Applied(s, CheckpointRecord(n)) = s
BY DEF Applied, CheckpointRecord

LEMMA UnbrokenAppend ==
  ASSUME NEW j \in Seq(ItemType), NEW x \in ItemType, Unbroken(Append(j, x))
  PROVE  Unbroken(j) /\ \A n \in 1..Len(j) : \A first : ~TornAt(j, n, first)
<1>1. PICK k : k = Append(j, x)
  OBVIOUS
<1>2. Len(k) = Len(j) + 1 /\ Len(j) \in Nat /\ \A i \in 1..Len(j) : k[i] = j[i]
  BY <1>1, Appended
<1>3. \A n \in 1..Len(j) : ~(j[n].have < j[n].need)
  BY <1>1, <1>2 DEF Unbroken
<1>4. ASSUME NEW n \in 1..Len(j), NEW first PROVE ~TornAt(j, n, first)
  <2>1. j[n] \in ItemType
    BY ElementOfSeq
  <2>2. j[n].have \in Nat /\ j[n].need \in Nat \ {0} /\ RestBytes(j, n) \in Nat
        /\ RestBytes(j, n) >= j[n].have
    BY <2>1, BytesRest DEF ItemType, RestBytes
  <2> QED
    BY <1>3, <2>2 DEF TornAt
<1> QED
  BY <1>2, <1>3, <1>4 DEF Unbroken

(* An append of a store that serves. *)
LEMMA ServeAppend ==
  ASSUME StoreType, ServeInv, serving, NEW rec \in Record, rec # ZeroRecord, NEW ok \in BOOLEAN,
         Commit(rec, ok), snapshot' = snapshot, promised' = state',
         state'.epoch = state.epoch, state'.policy = state.policy,
         \A s \in DurableState : Agrees(s) => Agrees(Applied(s, rec)),
         Found(Applied(state, rec)),
         ~ok => state' = state,
         ok => state' = Applied(state, rec)
                 \/ (state' = state /\ ApplyOutcome(state, lastSeq + 1, rec) # "Ok")
  PROVE  ServeInv'
<1>0. /\ journal \in Seq(ItemType) /\ Len(journal) \in Nat /\ SnapshotSeq \in Nat /\ lastSeq \in Nat
      /\ state \in DurableState /\ promised = state
  BY DiskType DEF StoreType, ServeInv
<1>1. /\ SnapshotSeq' = SnapshotSeq /\ \A s : Agrees(s)' <=> Agrees(s)
  BY SameSnapshot DEF Agrees
<1>2. Agrees(state')
  BY <1>0 DEF ServeInv
<1>3. CASE ~ok /\ journal' = journal /\ lastSeq' = lastSeq
  <2>1. \A c, s : DiskState(c, s)' <=> DiskState(c, s)
    BY <1>3, SameSnapshot DEF DiskState
  <2>2. state' = state /\ promised' = promised
    BY <1>0, <1>3
  <2>3. \A c, s : Live(c, s) => Live(c, s)'
    BY <1>1, <1>3, <2>2 DEF Live, Found
  <2> QED
    BY <1>1, <1>2, <1>3, <2>1, <2>2, <2>3 DEF ServeInv
<1>4. ASSUME NEW x \in ItemType,
              journal' = Append(journal, x),
              x.rec = rec, x.seq = lastSeq + 1, x.have # 0, ~Zero(x),
              ok => Whole(x) /\ lastSeq' = lastSeq + 1,
              ~ok => lastSeq' = lastSeq,
              ~ok /\ Whole(x) => "fsync" \in Faults
      PROVE  ServeInv'
  <2>1. ASSUME NEW c, NEW s, DiskState(c, s)' PROVE Agrees(s)'
    <3>1. CASE DiskState(c, s)
      BY <1>1, <3>1 DEF ServeInv
    <3>2. CASE \E t \in DurableState : DiskState(Len(journal), t) /\ s = Applied(t, rec)
      BY <1>1, <3>2 DEF ServeInv
    <3> QED
      BY <1>4, <2>1, <3>1, <3>2, DiskAppend
  <2>2. Len(journal') = Len(journal) + 1
    <3>1. PICK k : k = Append(journal, x)
      OBVIOUS
    <3>2. Len(k) = Len(journal) + 1
      BY <1>0, <3>1, Appended
    <3> QED
      BY <1>4, <3>1, <3>2
  <2>3. ASSUME Unbroken(journal'), NEW c, NEW s, DiskState(c, s)' PROVE Live(c, s)'
    <3>1. Unbroken(journal) /\ \A n \in 1..Len(journal) : \A first : ~TornAt(journal, n, first)
      BY <1>0, <1>4, <2>3, UnbrokenAppend
    <3>2. CASE /\ c = Len(journal) + 1 /\ x.seq = SnapshotSeq + c /\ Whole(x)
               /\ \E t \in DurableState :
                    /\ DiskState(Len(journal), t)
                    /\ ApplyOutcome(t, x.seq, x.rec) = "Ok" /\ s = Applied(t, x.rec)
      <4>1. PICK t \in DurableState :
                    /\ DiskState(Len(journal), t)
                    /\ ApplyOutcome(t, x.seq, x.rec) = "Ok" /\ s = Applied(t, x.rec)
        BY <3>2
      <4>2. Live(Len(journal), t)
        BY <3>1, <4>1 DEF ServeInv
      <4>3. lastSeq + 1 = SnapshotSeq + (Len(journal) + 1)
        BY <1>4, <3>2
      <4>4. t = state
        BY <1>0, <4>2, <4>3 DEF Live
      <4>5. s = Applied(state, rec) /\ ApplyOutcome(state, lastSeq + 1, rec) = "Ok"
        BY <1>4, <4>1, <4>4
      <4>6. CASE ok
        <5>1. state' = s
          BY <4>5, <4>6
        <5>2. lastSeq' = SnapshotSeq' + c
          BY <1>1, <1>4, <3>2, <4>6
        <5> QED
          BY <5>1, <5>2 DEF Live
      <4>7. CASE ~ok
        <5>1. promised' = promised
          BY <1>0, <4>7
        <5>2. Found(s)'
          BY <4>5, <5>1 DEF Found
        <5>3. lastSeq' + 1 = SnapshotSeq' + c /\ "fsync" \in Faults /\ c = Len(journal')
          BY <1>1, <1>4, <2>2, <3>2, <4>7
        <5> QED
          BY <5>2, <5>3 DEF Live
      <4> QED
        BY <4>6, <4>7
    <3>3. CASE /\ DiskState(c, s)
               /\ c < Len(journal) => TornAt(journal, c + 1, SnapshotSeq + 1)
               /\ c = Len(journal) => x.seq = SnapshotSeq + 1 + c /\ x.have < x.need
      <4>1. c \in Nat /\ c \in 0..Len(journal)
        BY <3>3, DiskType
      <4>2. c = Len(journal)
        <5>1. SUFFICES ASSUME c < Len(journal) PROVE FALSE
          BY <1>0, <4>1
        <5>2. c + 1 \in 1..Len(journal)
          BY <1>0, <4>1, <5>1
        <5> QED
          BY <3>1, <3>3, <5>1, <5>2
      <4>3. x.seq = SnapshotSeq + 1 + c /\ x.have < x.need
        BY <3>3, <4>2
      <4>4. ~ok
        <5>1. x.have \in Nat
          BY DEF ItemType
        <5> QED
          BY <1>4, <4>3, <5>1 DEF Whole
      <4>5. Live(c, s)
        BY <3>1, <3>3 DEF ServeInv
      <4>6. lastSeq + 1 # SnapshotSeq + c
        BY <1>0, <1>4, <4>1, <4>3
      <4>7. s = state /\ lastSeq = SnapshotSeq + c
        BY <4>5, <4>6 DEF Live
      <4> QED
        BY <1>1, <1>4, <4>4, <4>7 DEF Live
    <3> QED
      BY <1>4, <2>3, <3>2, <3>3, DiskAppend
  <2> QED
    BY <1>1, <1>2, <2>1, <2>3 DEF ServeInv
<1>5. ASSUME NEW x \in ItemType, Whole(x) PROVE ~(x.have < x.need)
  BY <1>5 DEF Whole, ItemType
<1> QED
  BY <1>3, <1>4, <1>5, Appending

LEMMA ServeSnapshot ==
  ASSUME StoreType, Phases, SeqInv, ServeInv, WriteSnapshot
  PROVE  ServeInv'
<1>1. /\ snapshot' = {[seq |-> lastSeq, state |-> state]} /\ journal' = journal /\ serving /\ opened
      /\ state' = state /\ promised' = promised /\ lastSeq' = lastSeq /\ serving' = serving
  BY DEF WriteSnapshot, Ready, Phases
<1>2. \A s : Agrees(s)' <=> Agrees(s)
  BY <1>1 DEF Agrees
<1>3. CASE lastSeq = SnapshotSeq
  <2>1. snapshot' = snapshot
    BY <1>1, <1>3 DEF SeqInv, Snapped
  <2>2. \A c, s : (DiskState(c, s)' <=> DiskState(c, s)) /\ (Live(c, s)' <=> Live(c, s))
    BY <1>1, <2>1, SameSnapshot DEF DiskState, Live, Found
  <2> QED
    BY <1>1, <1>2, <2>2 DEF ServeInv
<1>4. CASE lastSeq # SnapshotSeq
  <2>0. /\ journal \in Seq(ItemType) /\ Len(journal) \in Nat /\ SnapshotSeq \in Nat /\ lastSeq \in Nat
        /\ state \in DurableState /\ lastSeq + 1 \in Nat
    BY DiskType DEF StoreType
  <2>1. lastSeq > SnapshotSeq
    BY <1>1, <1>4, <2>0 DEF SeqInv
  <2>2. SnapshotSeq' = lastSeq /\ Start(EmptyState)' = state
    BY <1>1, SnappedNext DEF Snapped
  <2>3. ASSUME NEW c, NEW s, DiskState(c, s)' PROVE c = 0 /\ s = state
    <3>1. Accepts(journal, c, lastSeq + 1, state, s)
      BY <1>1, <2>2, <2>3 DEF DiskState
    <3>2. c \in 0..Len(journal) /\ c \in Nat /\ Replays(journal, c, lastSeq + 1, state, s)
      BY <2>0, <3>1 DEF Accepts
    <3>3. c = 0
      <4>1. SUFFICES ASSUME c # 0 PROVE FALSE
        OBVIOUS
      <4>2. 1 \in 1..c /\ 1 \in 1..Len(journal) /\ Len(journal) > 0
        BY <2>0, <3>2, <4>1
      <4>3. Whole(journal[1]) /\ journal[1].seq = lastSeq + 1 + 1 - 1
        BY <2>0, <3>2, <4>2, ReplayedIntact
      <4>4. journal # <<>> /\ journal[1].seq \in Nat
        BY <2>0, <4>2, SeqFront DEF ItemType
      <4>5. journal[1].seq <= SnapshotSeq + 1
        BY <4>3, <4>4 DEF SeqInv, FrontSeq, Whole
      <4> QED
        BY <2>0, <2>1, <4>3, <4>4, <4>5
    <3>4. Replays(journal, 0, lastSeq + 1, state, s)
      BY <3>2, <3>3
    <3>5. Replays(journal, 0, lastSeq + 1, state, state)
      BY <2>0, ReplaysNone
    <3> QED
      BY <2>0, <3>3, <3>4, <3>5, ReplaysUnique
  <2>4. \A c, s : DiskState(c, s)' => Live(c, s)'
    BY <1>1, <2>0, <2>2, <2>3 DEF Live
  <2> QED
    BY <1>1, <1>2, <2>3, <2>4 DEF ServeInv
<1> QED
  BY <1>3, <1>4

LEMMA ServeRotate ==
  ASSUME StoreType, Phases, SeqInv, ServeInv, Rotate
  PROVE  ServeInv'
<1>1. /\ snapshot' = snapshot /\ journal' = <<>> /\ pc = "rotate"
      /\ state' = state /\ promised' = promised /\ lastSeq' = lastSeq /\ serving' = serving
  BY DEF Rotate
<1>2. \A s : Agrees(s)' <=> Agrees(s)
  BY <1>1 DEF Agrees
<1>3. SnapshotSeq' = lastSeq' /\ Start(EmptyState)' = state /\ lastSeq' \in Nat
      /\ state \in DurableState
  BY <1>1, SameSnapshot, SnappedNext DEF SeqInv, StoreType
<1>4. ASSUME NEW c, NEW s, DiskState(c, s)' PROVE c = 0 /\ s = state
  <2>1. Accepts(<<>>, c, lastSeq' + 1, state, s)
    BY <1>1, <1>3, <1>4 DEF DiskState
  <2>2. c \in 0..0 /\ Replays(<<>>, c, lastSeq' + 1, state, s)
    <3>1. Len(<<>>) = 0
      OBVIOUS
    <3> QED
      BY <2>1, <3>1 DEF Accepts
  <2>3. c = 0
    BY <2>2
  <2>4. Replays(<<>>, 0, lastSeq' + 1, state, s) /\ lastSeq' + 1 \in Nat
    <3>1. lastSeq' + 1 \in Nat
      BY <1>1 DEF StoreType
    <3> QED
      BY <2>2, <2>3, <3>1
  <2>5. Replays(<<>>, 0, lastSeq' + 1, state, state)
    BY <1>3, <2>4, ReplaysNone
  <2> QED
    BY <2>3, <2>4, <2>5, ReplaysUnique
<1>5. \A c, s : DiskState(c, s)' => Live(c, s)'
  BY <1>1, <1>3, <1>4 DEF Live
<1> QED
  BY <1>1, <1>2, <1>4, <1>5 DEF ServeInv

LEMMA ServeFinish ==
  ASSUME StoreType, OpenInv, FinishOpen
  PROVE  ServeInv'
<1>1. /\ snapshot' = snapshot /\ journal' = journal /\ pc = "fences" /\ OpenFences = {}
      /\ state' = state /\ promised' = state /\ lastSeq' = lastSeq
  BY DEF FinishOpen, disk
<1>2. Agrees(state)
  BY <1>1 DEF OpenFences, Agrees
<1>3. \A c, s : DiskState(c, s) => Reaches(c) /\ s = state
  BY <1>1 DEF OpenInv
<1>4. \A c, s : DiskState(c, s)' => s = state' /\ lastSeq' = SnapshotSeq' + c
  BY <1>1, <1>3, SameSnapshot DEF DiskState, Reaches
<1>5. \A s : Agrees(s)' <=> Agrees(s)
  BY <1>1 DEF Agrees
<1>6. \A c, s : DiskState(c, s)' => Live(c, s)'
  BY <1>4 DEF Live
<1> QED
  BY <1>1, <1>2, <1>4, <1>5, <1>6 DEF ServeInv

LEMMA ServeClient ==
  ASSUME StoreType, Phases, ServeInv, NEW rec \in ClientRecords, NEW ok \in BOOLEAN,
         CommitRecord(rec, ok)
  PROVE  ServeInv'
<1>1. /\ serving /\ snapshot' = snapshot /\ Commit(rec, ok) /\ state \in DurableState
      /\ state' = (IF ok /\ ~(rec.type = "Fence" /\ NoRoom(state, rec.fence))
                   THEN Applied(state, rec) ELSE state)
      /\ promised' = IF ok THEN state' ELSE promised
  BY DEF CommitRecord, Ready, StoreType
<1>2. promised = state
  BY <1>1 DEF ServeInv
<1>3. promised' = state' /\ (~ok => state' = state)
  BY <1>1, <1>2
<1>4. rec \in Record /\ rec # ZeroRecord
  BY ClientRecord
<1>5. state'.epoch = state.epoch /\ state'.policy = state.policy
  BY <1>1, ClientApplied
<1>6. rec.type = "Fence" /\ NoRoom(state, rec.fence) => ApplyOutcome(state, lastSeq + 1, rec) # "Ok"
  BY DEF ApplyOutcome
<1>7. ok => state' = Applied(state, rec)
              \/ (state' = state /\ ApplyOutcome(state, lastSeq + 1, rec) # "Ok")
  BY <1>1, <1>6
<1>8. \A s \in DurableState : Agrees(s) => Agrees(Applied(s, rec))
  BY HarmlessClient
<1>9. Found(Applied(state, rec))
  BY <1>2, FoundClient
<1> QED
  BY <1>1, <1>3, <1>4, <1>5, <1>7, <1>8, <1>9, ServeAppend

LEMMA ServeMark ==
  ASSUME StoreType, Phases, ServeInv, NEW ok \in BOOLEAN, CommitCheckpoint(ok)
  PROVE  ServeInv'
<1>1. /\ snapshot' = snapshot /\ Commit(CheckpointRecord(SnapshotSeq), ok) /\ state' = state
      /\ promised' = promised /\ pc = "mark"
  BY DEF CommitCheckpoint
<1>2. serving
  BY <1>1 DEF Phases, OpenPhases
<1>3. promised = state /\ Found(state)
  BY <1>2, FoundSelf DEF ServeInv, StoreType
<1>4. PICK rec : rec = CheckpointRecord(SnapshotSeq)
  OBVIOUS
<1>5. rec \in Record /\ rec # ZeroRecord /\ \A s : Applied(s, rec) = s
  BY <1>4, Records, NotZero, AppliedCheckpoint
<1>6. /\ Commit(rec, ok) /\ promised' = state' /\ state'.epoch = state.epoch
      /\ state'.policy = state.policy
  BY <1>1, <1>3, <1>4
<1>7. Found(Applied(state, rec)) /\ state' = Applied(state, rec)
      /\ \A s \in DurableState : Agrees(s) => Agrees(Applied(s, rec))
  BY <1>1, <1>3, <1>5
<1> QED
  BY <1>1, <1>2, <1>5, <1>6, <1>7, ServeAppend

LEMMA ServeStep ==
  ASSUME StoreType, Phases, SeqInv, OpenInv, ServeInv, [Next]_vars
  PROVE  ServeInv'
<1>1. CASE Open \/ OpenRefused \/ Close \/ Crash
  <2>1. ~serving'
    BY <1>1 DEF Open, OpenRefused, Close, Crash, Phases
  <2> QED
    BY <2>1 DEF ServeInv
<1>2. CASE RotateFails \/ UNCHANGED vars
  <2>1. /\ snapshot' = snapshot /\ journal' = journal /\ state' = state /\ promised' = promised
        /\ lastSeq' = lastSeq /\ serving' = serving
    BY <1>2 DEF RotateFails, vars, disk, memory
  <2>2. \A c, s : (DiskState(c, s)' <=> DiskState(c, s)) /\ (Live(c, s)' <=> Live(c, s))
    BY <2>1, SameSnapshot DEF DiskState, Live, Found
  <2>3. \A s : Agrees(s)' <=> Agrees(s)
    BY <2>1 DEF Agrees
  <2> QED
    BY <2>1, <2>2, <2>3 DEF ServeInv
<1>3. ASSUME NEW ok \in BOOLEAN, CommitBoot(ok) \/ CommitPolicy(ok) PROVE ServeInv'
  <2>1. ~serving'
    BY <1>3 DEF CommitBoot, CommitPolicy, Phases
  <2> QED
    BY <2>1 DEF ServeInv
<1>4. ASSUME NEW ok \in BOOLEAN, NEW f, CommitInterruption(f, ok) \/ CommitRestartFence(f, ok)
      PROVE  ServeInv'
  <2>1. ~serving'
    BY <1>4 DEF CommitInterruption, CommitRestartFence, Phases
  <2> QED
    BY <2>1 DEF ServeInv
<1> QED
  BY <1>1, <1>2, <1>3, <1>4, ServeSnapshot, ServeRotate, ServeFinish, ServeClient, ServeMark,
     NextCases

(* The invariant of the store, whatever the platform does. *)
StoreInv == StoreType /\ Phases /\ FrontInv /\ SeqInv /\ OpenInv /\ ServeInv

LEMMA StoreInvariance == Spec => []StoreInv
<1>1. Init => StoreInv
  <2>1. ASSUME Init PROVE SeqInv /\ FrontInv /\ OpenInv /\ ServeInv
    <3>1. /\ journal = <<>> /\ snapshot = {} /\ ~opened /\ state = EmptyState /\ pc = "idle"
          /\ ~serving
      BY <2>1 DEF Init
    <3>2. FrontInv /\ OpenInv /\ ServeInv
      BY <3>1 DEF FrontInv, OpenPhases, OpenInv, ServeInv
    <3>3. SeqInv
      BY <3>1 DEF SeqInv, FrontSeq, OpenPhases
    <3> QED
      BY <3>2, <3>3
  <2> QED
    BY <2>1, TypeInit DEF StoreInv
<1>2. StoreInv /\ [Next]_vars => StoreInv'
  BY TypeStep, FrontStep, SeqStep, OpenInvStep, ServeStep DEF StoreInv
<1> QED
  BY <1>1, <1>2, PTL DEF Spec

(* What OnDisk answers with Ok is among what the invariants speak of. *)
LEMMA OnDiskFound ==
  ASSUME StoreType, OnDisk.outcome = "Ok"
  PROVE  DiskState(OnDisk.records, OnDisk.state)
BY ScanAccepts, EmptyType DEF OnDisk, DiskState

(* README section 3.8: while the store serves, the disk holds no open fence of an earlier
   epoch, or no process opens it again, whichever appends were refused, cut short or
   zeroed, and whether or not a checkpoint was cut in two. *)
THEOREM NoPriorFenceOnDisk == Spec => []PriorFenced
<1>1. StoreInv => PriorFenced
  <2>1. ASSUME StoreInv, serving, OnDisk.outcome = "Ok" PROVE Agrees(OnDisk.state)
    BY <2>1, OnDiskFound DEF StoreInv, ServeInv
  <2> QED
    BY <2>1 DEF PriorFenced, Agrees
<1> QED
  BY <1>1, StoreInvariance, PTL

(* README section 6, step 5: a store that serves has its own policy on disk, or no process
   opens it again, also when an earlier process with another policy died between boot
   record and policy record, and whatever the platform does to later appends. *)
THEOREM ServesUnderItsPolicy == Spec => []PolicyOnDisk
<1>1. StoreInv => PolicyOnDisk
  <2>1. ASSUME StoreInv, serving, OnDisk.outcome = "Ok" PROVE OnDisk.state.policy = policy
    BY <2>1, OnDiskFound DEF StoreInv, ServeInv, OpenInv, Agrees
  <2> QED
    BY <2>1 DEF PolicyOnDisk
<1> QED
  BY <1>1, StoreInvariance, PTL

(* src/README.md:214-215: an acknowledged record is lost without a refusal only behind
   the fragment of a short write that the process lived through and appended to. *)
THEOREM LossOnlyBehindFragment == Spec => []LossBehindFragment
<1>1. StoreInv => LossBehindFragment
  <2>1. SUFFICES ASSUME StoreInv, serving, OnDisk.outcome = "Ok", ~Found(OnDisk.state)
                 PROVE  \E n \in 1..(Len(journal) - 1) : journal[n].have < journal[n].need
    BY DEF LossBehindFragment
  <2>2. DiskState(OnDisk.records, OnDisk.state)
    BY <2>1, OnDiskFound DEF StoreInv
  <2>3. Found(state)
    BY <2>1, FoundSelf DEF StoreInv, StoreType, ServeInv
  <2>4. ~Live(OnDisk.records, OnDisk.state)
    BY <2>1, <2>3 DEF Live
  <2>5. ~Unbroken(journal)
    BY <2>1, <2>2, <2>4 DEF StoreInv, ServeInv
  <2> QED
    BY <2>5 DEF Unbroken
<1> QED
  BY <1>1, StoreInvariance, PTL

-----------------------------------------------------------------------------
(* Without short writes that a process survives, only the last item is ever partial, and
   only until the next open. *)

WholeInv ==
  \A n \in 1..Len(journal) :
    journal[n].have < journal[n].need => n = Len(journal) /\ ~opened /\ ~Zero(journal[n])

LEMMA WholeAppended ==
  ASSUME StoreType, WholeInv, opened, NEW x \in ItemType, journal' = Append(journal, x),
         x.have < x.need => ~opened' /\ ~Zero(x)
  PROVE  WholeInv'
<1>1. PICK j : j = journal
  OBVIOUS
<1>2. PICK k : k = journal'
  OBVIOUS
<1>3. /\ Len(k) = Len(j) + 1 /\ Len(j) \in Nat /\ (\A i \in 1..Len(j) : k[i] = j[i])
      /\ k[Len(j) + 1] = x
  BY <1>1, <1>2, Appended DEF StoreType
<1>4. \A n \in 1..Len(j) : ~(j[n].have < j[n].need)
  BY <1>1 DEF WholeInv
<1>5. \A n \in 1..Len(k) : k[n].have < k[n].need => n = Len(k) /\ k[n] = x
  <2> SUFFICES ASSUME NEW n \in 1..Len(k), k[n].have < k[n].need PROVE n = Len(k) /\ k[n] = x
    OBVIOUS
  <2>1. n \in 1..Len(j) \/ n = Len(j) + 1
    BY <1>3
  <2> QED
    BY <1>3, <1>4, <2>1
<1> QED
  BY <1>2, <1>5 DEF WholeInv

LEMMA WholeStep ==
  ASSUME "write" \notin Faults, StoreType, Phases, WholeInv, [Next]_vars
  PROVE  WholeInv'
<1>1. CASE Open
  <2>1. PICK b \in 0..Len(journal), s \in DurableState :
              /\ Replays(journal, b, SnapshotSeq + 1, Start(state), s)
              /\ \/ b = Len(journal) /\ journal' = journal
                 \/ b < Len(journal) /\ journal' = SubSeq(journal, 1, b)
                 \/ b < Len(journal) /\ ZeroFrom(journal, b + 1) /\ journal' = journal
    BY <1>1, Opened
  <2>2. journal \in Seq(ItemType) /\ SnapshotSeq + 1 \in Nat /\ b \in Nat /\ Len(journal) \in Nat
    BY DiskType
  <2>3. \A n \in 1..b : ~(journal[n].have < journal[n].need)
    <3> SUFFICES ASSUME NEW n \in 1..b PROVE ~(journal[n].have < journal[n].need)
      OBVIOUS
    <3>1. Whole(journal[n])
      BY <2>1, <2>2, ReplayedIntact
    <3>2. journal[n] \in ItemType
      BY <2>2, SeqFront
    <3> QED
      BY <3>1, <3>2 DEF Whole, ItemType
  <2>4. \A n \in 1..Len(journal') : ~(journal'[n].have < journal'[n].need)
    <3>1. CASE journal' = journal /\ (b < Len(journal) => ZeroFrom(journal, b + 1))
      <4> SUFFICES ASSUME NEW n \in 1..Len(journal), journal[n].have < journal[n].need PROVE FALSE
        BY <3>1
      <4>1. ~Zero(journal[n]) /\ n \notin 1..b
        BY <2>3 DEF WholeInv
      <4>2. b < Len(journal) /\ n \in (b + 1)..Len(journal)
        BY <2>2, <4>1
      <4> QED
        BY <3>1, <4>1, <4>2 DEF ZeroFrom
    <3>2. CASE journal' = SubSeq(journal, 1, b)
      <4>1. PICK k : k = SubSeq(journal, 1, b)
        OBVIOUS
      <4>2. Len(k) = b /\ \A i \in 1..b : k[i] = journal[i]
        BY <2>2, <4>1, PrefixType
      <4> QED
        BY <2>3, <3>2, <4>1, <4>2
    <3> QED
      BY <2>1, <2>2, <3>1, <3>2
  <2> QED
    BY <2>4 DEF WholeInv
<1>2. CASE OpenRefused \/ FinishOpen \/ WriteSnapshot \/ RotateFails \/ Close \/ UNCHANGED vars
  <2>1. journal' = journal /\ (opened' => opened)
    BY <1>2 DEF OpenRefused, FinishOpen, WriteSnapshot, RotateFails, Close, vars, disk, memory
  <2> QED
    BY <2>1 DEF WholeInv
<1>3. CASE Rotate
  <2>1. journal' = <<>>
    BY <1>3 DEF Rotate
  <2> QED
    BY <2>1 DEF WholeInv
<1>4. CASE Crash
  <2>1. ~opened'
    BY <1>4 DEF Crash
  <2>2. CASE journal' = journal
    BY <2>1, <2>2 DEF WholeInv
  <2>3. CASE journal' # journal
    <3>1. PICK rec \in InProgress, x \in ItemType :
           /\ journal' = Append(journal, x)
           /\ (Zero(x) /\ ~(x.have < x.need)) \/ ~Zero(x)
      BY <1>4, <2>3, CrashLeaves
    <3>2. opened
      BY Interrupted DEF Phases
    <3> QED
      BY <2>1, <3>1, <3>2, WholeAppended
  <2> QED
    BY <2>2, <2>3
<1>5. ASSUME NEW rec \in Record, rec # ZeroRecord, NEW ok \in BOOLEAN, Commit(rec, ok),
             opened, opened' = opened
      PROVE  WholeInv'
  <2>1. CASE journal' = journal
    BY <1>5, <2>1 DEF WholeInv
  <2>2. ASSUME NEW x \in ItemType, journal' = Append(journal, x), ok => Whole(x),
               ~ok => IF x.have < x.need THEN "write" \in Faults ELSE "fsync" \in Faults
        PROVE  WholeInv'
    <3>1. ~(x.have < x.need)
      <4>1. Whole(x) => ~(x.have < x.need)
        BY DEF Whole, ItemType
      <4> QED
        BY <2>2, <4>1
    <3> QED
      BY <1>5, <2>2, <3>1, WholeAppended
  <2> QED
    BY <1>5, <2>1, <2>2, Appending
<1>6. ASSUME NEW ok \in BOOLEAN, CommitBoot(ok) PROVE WholeInv'
  <2>1. Commit(BootRecord(state.epoch), ok) /\ opened /\ opened' = opened
    BY <1>6 DEF CommitBoot, Phases
  <2>2. BootRecord(state.epoch) \in Record /\ BootRecord(state.epoch) # ZeroRecord
    BY Records, NotZero
  <2> QED
    BY <1>5, <2>1, <2>2
<1>7. ASSUME NEW rec, NEW ok, LaterCommit(rec, ok) PROVE WholeInv'
  <2>1. opened
    BY <1>7 DEF LaterCommit, Phases, OpenPhases
  <2>2. rec \in Record /\ rec # ZeroRecord /\ ok \in BOOLEAN /\ Commit(rec, ok) /\ opened' = opened
    BY <1>7 DEF LaterCommit
  <2> QED
    BY <1>5, <2>1, <2>2
<1> QED
  BY <1>1, <1>2, <1>3, <1>4, <1>6, <1>7, NextKinds

LEMMA WholeUnbroken ==
  ASSUME StoreType, WholeInv
  PROVE  Unbroken(journal)
<1>1. Len(journal) \in Nat
  BY DEF StoreType
<1> QED
  BY <1>1 DEF WholeInv, Unbroken
-----------------------------------------------------------------------------
(* Without such writes a new process finds all that was ever acknowledged. *)

AllFound == \A c, s : DiskState(c, s) => Found(s)

KeptInv == serving \/ AllFound

LEMMA FoundBoot ==
  ASSUME promised \in DurableState, NEW s \in DurableState, Found(s), NEW e \in Nat, NEW q,
         ApplyOutcome(s, q, BootRecord(e)) = "Ok"
  PROVE  Found(Applied(s, BootRecord(e)))
<1>1. PICK p : p = Applied(s, BootRecord(e))
  OBVIOUS
<1>2. /\ p.fences = s.fences /\ p.epoch = e /\ p.decisions = s.decisions
      /\ p.interruptions = s.interruptions
  <2>1. p = [s EXCEPT !.epoch = e]
    BY <1>1, AppliedBoot
  <2> QED
    BY <2>1 DEF DurableState
<1>3. s.epoch \in Nat /\ promised.epoch \in Nat
  BY DEF DurableState
<1>4. ~(e <= s.epoch /\ s.epoch # 0)
  BY DEF ApplyOutcome, BootRecord
<1>5. p.epoch >= promised.epoch
  BY <1>2, <1>3, <1>4 DEF Found
<1>6. Found(p)
  BY <1>2, <1>5 DEF Found
<1> QED
  BY <1>1, <1>6

LEMMA FoundPolicy ==
  ASSUME NEW s \in DurableState, Found(s), NEW p \in Policies
  PROVE  Found(Applied(s, PolicyRecord(p)))
BY AppliedPolicy DEF Found

(* An append while the store does not serve. *)
LEMMA FoundAppend ==
  ASSUME StoreType, AllFound, snapshot' = snapshot, promised' = promised,
         NEW x \in ItemType, journal' = Append(journal, x),
         \A t \in DurableState :
           DiskState(Len(journal), t) /\ Whole(x) /\ x.seq = SnapshotSeq + (Len(journal) + 1)
             /\ ApplyOutcome(t, x.seq, x.rec) = "Ok" => Found(Applied(t, x.rec))
  PROVE  AllFound'
<1>1. \A s : Found(s)' <=> Found(s)
  BY DEF Found
<1>2. ASSUME NEW c, NEW s, DiskState(c, s)' PROVE Found(s)
  <2>1. CASE DiskState(c, s)
    BY <2>1 DEF AllFound
  <2>2. CASE /\ c = Len(journal) + 1 /\ x.seq = SnapshotSeq + c /\ Whole(x)
             /\ \E t \in DurableState :
                 /\ DiskState(Len(journal), t)
                 /\ ApplyOutcome(t, x.seq, x.rec) = "Ok" /\ s = Applied(t, x.rec)
    BY <2>2
  <2> QED
    BY <1>2, <2>1, <2>2, DiskAppend
<1> QED
  BY <1>1, <1>2 DEF AllFound

(* The records of open(). *)
LEMMA FoundOpening ==
  ASSUME StoreType, Phases, OpenInv, AllFound, NEW rec, NEW q, NEW t \in DurableState, DiskState(Len(journal), t),
         ApplyOutcome(t, q, rec) = "Ok",
         \/ rec = BootRecord(state.epoch)
         \/ rec = PolicyRecord(policy)
         \/ rec = InterruptionRecord
         \/ pc = "close" /\ \E f \in closing : rec = FenceRecord(f)
  PROVE  Found(Applied(t, rec))
<1>1. Found(t) /\ promised \in DurableState /\ policy \in Policies /\ state.epoch \in Nat
  BY DEF AllFound, StoreType, DurableState
<1>2. CASE rec = BootRecord(state.epoch)
  BY <1>1, <1>2, FoundBoot
<1>3. CASE rec = PolicyRecord(policy)
  BY <1>1, <1>3, FoundPolicy
<1>4. CASE rec = InterruptionRecord
  BY <1>1, <1>4, FoundInterruption
<1>5. CASE pc = "close" /\ \E f \in closing : rec = FenceRecord(f)
  <2>1. PICK f \in FenceState : rec = FenceRecord(f) /\ ~f.open
    BY <1>5 DEF OpenInv, ClosingInv
  <2> QED
    BY <1>1, <2>1, FoundFence
<1> QED
  BY <1>2, <1>3, <1>4, <1>5

LEMMA OpeningKeeps ==
  ASSUME StoreType, Phases, OpenInv, AllFound, NEW rec \in Record, rec # ZeroRecord,
         NEW ok \in BOOLEAN, Commit(rec, ok), snapshot' = snapshot, promised' = promised,
         \/ rec = BootRecord(state.epoch)
         \/ rec = PolicyRecord(policy)
         \/ rec = InterruptionRecord
         \/ pc = "close" /\ \E f \in closing : rec = FenceRecord(f)
  PROVE  AllFound'
<1>1. CASE journal' = journal
  <2>1. \A c, s : (DiskState(c, s)' <=> DiskState(c, s)) /\ (Found(s)' <=> Found(s))
    BY <1>1, SameSnapshot DEF DiskState, Found
  <2> QED
    BY <2>1 DEF AllFound
<1>2. ASSUME NEW x \in ItemType, journal' = Append(journal, x), x.rec = rec PROVE AllFound'
  <2>1. ASSUME NEW t \in DurableState, DiskState(Len(journal), t), ApplyOutcome(t, x.seq, rec) = "Ok"
        PROVE  Found(Applied(t, rec))
    BY <2>1, FoundOpening
  <2> QED
    BY <1>2, <2>1, FoundAppend
<1> QED
  BY <1>1, <1>2, Appending

LEMMA ServingKeeps ==
  ASSUME StoreType, WholeInv, ServeInv, KeptInv
  PROVE  AllFound
<1>1. CASE serving
  <2>1. \A c, s : DiskState(c, s) => Live(c, s)
    BY <1>1, WholeUnbroken DEF ServeInv
  <2>2. Found(state)
    BY <1>1, FoundSelf DEF ServeInv, StoreType
  <2> QED
    BY <2>1, <2>2 DEF Live, AllFound
<1> QED
  BY <1>1 DEF KeptInv

LEMMA OpenKeeps ==
  ASSUME StoreType, Phases, FrontInv, AllFound, Open
  PROVE  AllFound'
<1>1. PICK b \in 0..Len(journal), s \in DurableState :
              /\ Replays(journal, b, SnapshotSeq + 1, Start(state), s)
              /\ \/ journal' = journal
                 \/ /\ b < Len(journal) /\ TornAt(journal, b + 1, SnapshotSeq + 1)
                    /\ journal' = SubSeq(journal, 1, b)
  BY Opened
<1>2. snapshot' = snapshot /\ promised' = promised
  BY DEF Open
<1>3. /\ journal \in Seq(ItemType) /\ SnapshotSeq + 1 \in Nat /\ Len(journal) \in Nat
      /\ Start(state) = Start(EmptyState)
  BY DiskType, OpensAfresh
<1>4. \A t : Found(t)' <=> Found(t)
  BY <1>2 DEF Found
<1>5. ASSUME NEW c, NEW t, DiskState(c, t)' PROVE \E d : DiskState(d, t)
  <2>1. Accepts(journal', c, SnapshotSeq + 1, Start(EmptyState), t)
    BY <1>2, <1>5, SameSnapshot DEF DiskState
  <2>2. CASE journal' = journal
    BY <2>1, <2>2 DEF DiskState
  <2>3. CASE /\ b < Len(journal) /\ TornAt(journal, b + 1, SnapshotSeq + 1)
             /\ journal' = SubSeq(journal, 1, b)
    <3>1. c = b /\ t = s
      BY <1>1, <1>3, <2>1, <2>3, AcceptsCut
    <3>2. DiskState(b, s)
      BY <1>1, <1>3, <2>3 DEF Accepts, DiskState
    <3> QED
      BY <3>1, <3>2
  <2> QED
    BY <1>1, <2>2, <2>3
<1> QED
  BY <1>4, <1>5 DEF AllFound

LEMMA CrashKeeps ==
  ASSUME StoreType, Phases, OpenInv, WholeInv, ServeInv, AllFound, Crash
  PROVE  AllFound'
<1>0. snapshot' = snapshot /\ promised' = promised /\ Len(journal) \in Nat /\ SnapshotSeq \in Nat
      /\ lastSeq \in Nat
  BY DiskType DEF Crash, StoreType
<1>1. CASE journal' = journal
  <2>1. \A c, s : (DiskState(c, s)' <=> DiskState(c, s)) /\ (Found(s)' <=> Found(s))
    BY <1>0, <1>1, SameSnapshot DEF DiskState, Found
  <2> QED
    BY <2>1 DEF AllFound
<1>2. CASE journal' # journal
  <2>1. PICK rec \in InProgress, x \in ItemType :
          /\ journal' = Append(journal, x)
          /\ Zero(x) \/ (x.rec = rec /\ x.seq = lastSeq + 1)
    BY <1>2, CrashLeaves
  <2>2. ASSUME NEW t \in DurableState, DiskState(Len(journal), t), Whole(x),
               x.seq = SnapshotSeq + (Len(journal) + 1), ApplyOutcome(t, x.seq, x.rec) = "Ok"
        PROVE  Found(Applied(t, x.rec))
    <3>1. ~Zero(x)
      BY <2>2 DEF Whole
    <3>2. x.rec = rec /\ x.seq = lastSeq + 1
      BY <2>1, <3>1
    <3>3. CASE \/ rec = BootRecord(state.epoch)
               \/ rec = PolicyRecord(policy)
               \/ rec = InterruptionRecord
               \/ pc = "close" /\ \E f \in closing : rec = FenceRecord(f)
      BY <2>2, <3>2, <3>3, FoundOpening
    <3>4. CASE rec = CheckpointRecord(SnapshotSeq)
      BY <2>2, <3>2, <3>4, AppliedCheckpoint DEF AllFound
    <3>5. CASE serving /\ rec \in ClientRecords
      <4>1. Live(Len(journal), t) /\ promised = state
        BY <2>2, <3>5, WholeUnbroken DEF ServeInv
      <4>2. lastSeq + 1 = SnapshotSeq + (Len(journal) + 1)
        BY <2>2, <3>2
      <4>3. t = state
        BY <1>0, <4>1, <4>2 DEF Live
      <4> QED
        BY <3>2, <3>5, <4>1, <4>3, FoundClient
    <3> QED
      BY <3>3, <3>4, <3>5, Interrupted
  <2> QED
    BY <1>0, <2>1, <2>2, FoundAppend
<1> QED
  BY <1>1, <1>2

LEMMA KeptStep ==
  ASSUME StoreType, Phases, FrontInv, OpenInv, ServeInv, WholeInv, KeptInv, [Next]_vars
  PROVE  KeptInv'
<1>0. AllFound
  BY ServingKeeps
<1>1. CASE Open
  BY <1>0, <1>1, OpenKeeps DEF KeptInv
<1>2. CASE OpenRefused \/ Close \/ UNCHANGED vars
  <2>1. snapshot' = snapshot /\ journal' = journal /\ promised' = promised
    BY <1>2 DEF OpenRefused, Close, vars, disk
  <2>2. \A c, s : (DiskState(c, s)' <=> DiskState(c, s)) /\ (Found(s)' <=> Found(s))
    BY <2>1, SameSnapshot DEF DiskState, Found
  <2> QED
    BY <1>0, <2>2 DEF KeptInv, AllFound
<1>3. CASE Crash
  BY <1>0, <1>3, CrashKeeps DEF KeptInv
<1>4. CASE FinishOpen \/ WriteSnapshot \/ Rotate \/ RotateFails
  <2>1. serving'
    BY <1>4 DEF FinishOpen, WriteSnapshot, Ready, Rotate, RotateFails, Phases, OpenPhases
  <2> QED
    BY <2>1 DEF KeptInv
<1>5. ASSUME NEW ok \in BOOLEAN, CommitCheckpoint(ok) PROVE KeptInv'
  <2>1. serving'
    BY <1>5 DEF CommitCheckpoint, Phases, OpenPhases
  <2> QED
    BY <2>1 DEF KeptInv
<1>6. ASSUME NEW ok \in BOOLEAN, NEW rec, CommitRecord(rec, ok) PROVE KeptInv'
  <2>1. serving'
    BY <1>6 DEF CommitRecord, Ready
  <2> QED
    BY <2>1 DEF KeptInv
<1>7. ASSUME NEW ok \in BOOLEAN, CommitBoot(ok) PROVE KeptInv'
  <2>1. Commit(BootRecord(state.epoch), ok) /\ snapshot' = snapshot /\ promised' = promised
    BY <1>7 DEF CommitBoot
  <2>2. BootRecord(state.epoch) \in Record /\ BootRecord(state.epoch) # ZeroRecord
    BY Records, NotZero
  <2> QED
    BY <1>0, <2>1, <2>2, OpeningKeeps DEF KeptInv
<1>8. ASSUME NEW ok \in BOOLEAN, CommitPolicy(ok) PROVE KeptInv'
  <2>1. Commit(PolicyRecord(policy), ok) /\ snapshot' = snapshot /\ promised' = promised
    BY <1>8 DEF CommitPolicy
  <2>2. PolicyRecord(policy) \in Record /\ PolicyRecord(policy) # ZeroRecord
    BY Records, NotZero
  <2> QED
    BY <1>0, <2>1, <2>2, OpeningKeeps DEF KeptInv
<1>9. ASSUME NEW ok \in BOOLEAN, NEW f \in OpenFences, CommitInterruption(f, ok) PROVE KeptInv'
  <2>1. Commit(InterruptionRecord, ok) /\ snapshot' = snapshot /\ promised' = promised
    BY <1>9 DEF CommitInterruption
  <2>2. InterruptionRecord \in Record /\ InterruptionRecord # ZeroRecord
    BY Records, NotZero
  <2> QED
    BY <1>0, <2>1, <2>2, OpeningKeeps DEF KeptInv
<1>10. ASSUME NEW ok \in BOOLEAN, NEW f \in closing, CommitRestartFence(f, ok) PROVE KeptInv'
  <2>1. Commit(FenceRecord(f), ok) /\ snapshot' = snapshot /\ promised' = promised /\ pc = "close"
    BY <1>10 DEF CommitRestartFence
  <2>2. FenceRecord(f) \in Record /\ FenceRecord(f) # ZeroRecord
    BY <1>10, LaterFence DEF LaterCommit
  <2> QED
    BY <1>0, <2>1, <2>2, OpeningKeeps DEF KeptInv
<1> QED
  BY <1>1, <1>2, <1>3, <1>4, <1>5, <1>6, <1>7, <1>8, <1>9, <1>10, NextCases

(* The invariant of the store without short writes that a process survives. *)
LEMMA KeptInvariance ==
  ASSUME "write" \notin Faults
  PROVE  Spec => [](StoreInv /\ WholeInv /\ KeptInv)
<1>1. Init => WholeInv /\ KeptInv
  <2> SUFFICES ASSUME Init PROVE WholeInv /\ KeptInv
    OBVIOUS
  <2>1. journal = <<>> /\ snapshot = {} /\ promised = EmptyState
    BY DEF Init
  <2>2. StoreType
    BY TypeInit
  <2>3. WholeInv
    BY <2>1 DEF WholeInv
  <2>4. ASSUME NEW c, NEW s, DiskState(c, s) PROVE Found(s)
    <3>1. Start(EmptyState) = promised /\ promised \in DurableState
      BY <2>1, EmptyType DEF Start
    <3>2. Accepts(<<>>, c, SnapshotSeq + 1, promised, s) /\ SnapshotSeq + 1 \in Nat
      BY <2>1, <2>2, <2>4, <3>1, DiskType DEF DiskState
    <3>3. c = 0
      <4>1. Len(<<>>) = 0
        OBVIOUS
      <4> QED
        BY <3>2, <4>1 DEF Accepts
    <3>4. Replays(<<>>, 0, SnapshotSeq + 1, promised, s)
      BY <3>2, <3>3 DEF Accepts
    <3>5. Replays(<<>>, 0, SnapshotSeq + 1, promised, promised)
      BY <3>1, <3>2, ReplaysNone
    <3>6. s = promised
      BY <3>2, <3>4, <3>5, ReplaysUnique
    <3> QED
      BY <3>1, <3>6, FoundSelf
  <2> QED
    BY <2>3, <2>4 DEF KeptInv, AllFound
<1>2. StoreInv /\ WholeInv /\ KeptInv /\ [Next]_vars => (WholeInv /\ KeptInv)'
  BY WholeStep, KeptStep DEF StoreInv
<1> QED
  BY <1>1, <1>2, StoreInvariance, PTL DEF Spec

(* README section 6, "Nothing is reported durable before the fsync returns": what was
   acknowledged is recovered, through crashes, torn and zeroed tails, refused fsyncs and
   checkpoints that are cut in two, unless a process survives a short write. *)
THEOREM AcknowledgedIsRecovered ==
  ASSUME "write" \notin Faults
  PROVE  Spec => []PromisesKept
<1>1. StoreInv /\ WholeInv /\ KeptInv => PromisesKept
  <2> SUFFICES ASSUME StoreInv, WholeInv, KeptInv, OnDisk.outcome = "Ok" PROVE Found(OnDisk.state)
    BY DEF PromisesKept
  <2>1. AllFound
    BY ServingKeeps DEF StoreInv
  <2> QED
    BY <2>1, OnDiskFound DEF AllFound, StoreInv
<1> QED
  BY <1>1, KeptInvariance, PTL

(* While no append is refused by the disk, the state in memory and the state that
   apply_record() rebuilds are the same whenever the store serves, also across a
   checkpoint and whatever crashes and rotations that fail came before. *)
THEOREM MemoryIsReplayed ==
  ASSUME {"write", "fsync"} \cap Faults = {}
  PROVE  Spec => []ReplayMatchesMemory
<1>1. "write" \notin Faults /\ "fsync" \notin Faults
  OBVIOUS
<1>2. StoreInv /\ WholeInv => ReplayMatchesMemory
  <2> SUFFICES ASSUME StoreInv, WholeInv, serving, OnDisk.outcome = "Ok"
               PROVE  OnDisk.state = state
    BY DEF ReplayMatchesMemory
  <2>1. DiskState(OnDisk.records, OnDisk.state)
    BY OnDiskFound DEF StoreInv
  <2>2. Live(OnDisk.records, OnDisk.state)
    BY <2>1, WholeUnbroken DEF StoreInv, ServeInv
  <2> QED
    BY <1>1, <2>2 DEF Live
<1> QED
  BY <1>1, <1>2, KeptInvariance, PTL

-----------------------------------------------------------------------------
(* A platform whose only failure is the crash.  The journal is numbered without a gap,
   has no zeroed item, and no record of it is refused by the state before it for another
   reason than room. *)

Tidy(j, first, st) ==
  /\ \A n \in 1..Len(j) : ~Zero(j[n]) /\ j[n].seq = first + n - 1
  /\ \A n \in 1..Len(j) : \A s :
       Replays(j, n - 1, first, st, s) => ApplyOutcome(s, j[n].seq, j[n].rec) # "Corrupt"

(* append_commit() tests the size before it appends. *)
Limited(j) == Bytes(j) > MaxJournalBytes => Bytes(j) - j[Len(j)].have < MaxJournalBytes

CleanInv ==
  /\ Limited(journal)
  /\ opened => bytes = Bytes(journal)
  /\ pc # "rotate" => /\ Tidy(journal, SnapshotSeq + 1, Start(EmptyState))
                      /\ opened => lastSeq = SnapshotSeq + Len(journal)

LEMMA TidyEmpty ==
  ASSUME NEW first, NEW st
  PROVE  Tidy(<<>>, first, st) /\ Limited(<<>>)
<1>1. Len(<<>>) = 0
  OBVIOUS
<1>2. ~(Bytes(<<>>) > MaxJournalBytes)
  BY BytesEmpty, StoreAssumption
<1> QED
  BY <1>1, <1>2 DEF Tidy, Limited

LEMMA TidyPrefix ==
  ASSUME NEW j \in Seq(ItemType), NEW b \in 0..Len(j), NEW first \in Nat, NEW st, Tidy(j, first, st)
  PROVE  Tidy(SubSeq(j, 1, b), first, st)
<1>1. PICK k : k = SubSeq(j, 1, b)
  OBVIOUS
<1>2. Len(k) = b /\ b \in Nat /\ Len(j) \in Nat /\ \A i \in 1..b : k[i] = j[i]
  BY <1>1, PrefixType
<1>3. ASSUME NEW n \in 1..b, NEW s, Replays(k, n - 1, first, st, s)
      PROVE  ApplyOutcome(s, k[n].seq, k[n].rec) # "Corrupt"
  <2>1. n - 1 \in Nat /\ \A i \in 1..(n - 1) : j[i] = k[i]
    BY <1>2
  <2>2. Replays(j, n - 1, first, st, s)
    BY <1>3, <2>1, ReplaysSame
  <2>3. n \in 1..Len(j) /\ k[n] = j[n]
    BY <1>2
  <2> QED
    BY <2>2, <2>3 DEF Tidy
<1>4. \A n \in 1..b : ~Zero(k[n]) /\ k[n].seq = first + n - 1
  <2>1. \A n \in 1..b : n \in 1..Len(j) /\ k[n] = j[n]
    BY <1>2
  <2> QED
    BY <2>1 DEF Tidy
<1>5. Tidy(k, first, st)
  BY <1>2, <1>3, <1>4 DEF Tidy
<1> QED
  BY <1>1, <1>5

LEMMA TidyAppend ==
  ASSUME NEW j \in Seq(ItemType), NEW x \in ItemType, NEW first \in Nat, NEW st, Tidy(j, first, st),
         ~Zero(x), x.seq = first + Len(j),
         \A s : Replays(j, Len(j), first, st, s) => ApplyOutcome(s, x.seq, x.rec) # "Corrupt"
  PROVE  Tidy(Append(j, x), first, st)
<1>1. PICK k : k = Append(j, x)
  OBVIOUS
<1>2. /\ Len(k) = Len(j) + 1 /\ Len(j) \in Nat /\ (\A i \in 1..Len(j) : k[i] = j[i])
      /\ k[Len(j) + 1] = x
  BY <1>1, Appended
<1>3. \A n \in 1..Len(k) : n \in 1..Len(j) \/ n = Len(j) + 1
  BY <1>2
<1>4. ASSUME NEW n \in 1..Len(k) PROVE ~Zero(k[n]) /\ k[n].seq = first + n - 1
  <2>1. CASE n \in 1..Len(j)
    BY <1>2, <2>1 DEF Tidy
  <2>2. CASE n = Len(j) + 1
    BY <1>2, <2>2
  <2> QED
    BY <1>3, <2>1, <2>2
<1>5. ASSUME NEW n \in 1..Len(k), NEW s, Replays(k, n - 1, first, st, s)
      PROVE  ApplyOutcome(s, k[n].seq, k[n].rec) # "Corrupt"
  <2>1. n - 1 \in Nat /\ \A i \in 1..(n - 1) : j[i] = k[i]
    BY <1>2
  <2>2. Replays(j, n - 1, first, st, s)
    BY <1>5, <2>1, ReplaysSame
  <2>3. CASE n \in 1..Len(j)
    <3>1. k[n] = j[n]
      BY <1>2, <2>3
    <3> QED
      BY <2>2, <2>3, <3>1 DEF Tidy
  <2>4. CASE n = Len(j) + 1
    <3>1. n - 1 = Len(j) /\ k[n] = x
      BY <1>2, <2>4
    <3> QED
      BY <2>2, <3>1
  <2> QED
    BY <1>3, <2>3, <2>4
<1>6. Tidy(k, first, st)
  BY <1>4, <1>5 DEF Tidy
<1> QED
  BY <1>1, <1>6

LEMMA LimitedAppend ==
  ASSUME NEW j \in Seq(ItemType), NEW x \in ItemType, Bytes(j) < MaxJournalBytes
  PROVE  Limited(Append(j, x))
<1>1. PICK k : k = Append(j, x)
  OBVIOUS
<1>2. Len(k) = Len(j) + 1 /\ k[Len(j) + 1] = x
  BY <1>1, Appended
<1>3. Bytes(k) = Bytes(j) + x.have /\ Bytes(j) \in Nat /\ x.have \in Nat
  BY <1>1, BytesAppend, BytesNat DEF ItemType
<1>4. Bytes(k) - k[Len(k)].have < MaxJournalBytes
  <2>1. k[Len(k)] = x
    BY <1>2
  <2> QED
    BY <1>3, <2>1
<1>5. Limited(k)
  BY <1>4 DEF Limited
<1> QED
  BY <1>1, <1>5

LEMMA BytesPrefix ==
  ASSUME NEW j \in Seq(ItemType), NEW b \in 0..Len(j)
  PROVE  Bytes(SubSeq(j, 1, b)) <= Bytes(j)
<1>1. PICK k \in Seq(ItemType) : k = SubSeq(j, 1, b) /\ Len(k) = b /\ \A i \in 1..b : k[i] = j[i]
  BY PrefixType
<1>2. PICK L \in Nat : L = Len(j) /\ b \in 0..L
  OBVIOUS
<1>3. PICK f \in [0..L -> Nat] :
           f[0] = 0 /\ (\A n \in 1..L : f[n] = f[n - 1] + j[n].have) /\ Bytes(j) = f[L]
  BY <1>2, BytesSums
<1>4. PICK g \in [0..b -> Nat] :
           g[0] = 0 /\ (\A n \in 1..b : g[n] = g[n - 1] + k[n].have) /\ Bytes(k) = g[b]
  BY <1>1, BytesSums
<1>5. \A n \in 1..L : j[n].have \in Nat
  BY <1>2 DEF ItemType
<1> DEFINE S == {m \in 0..L : (m <= b => f[m] = g[m]) /\ (m >= b => f[m] >= g[b])}
<1>6. 0 \in S
  BY <1>2, <1>3, <1>4
<1>7. ASSUME NEW m \in 1..L, m - 1 \in S PROVE m \in S
  <2>0. m \in 0..L /\ m - 1 \in 0..L
    OBVIOUS
  <2>1. /\ m \in 0..L /\ f[m] = f[m - 1] + j[m].have /\ f[m - 1] \in Nat
        /\ j[m].have \in Nat /\ f[m] \in Nat
    BY <1>3, <1>5, <2>0
  <2>2. m - 1 <= b => f[m - 1] = g[m - 1]
    BY <1>7
  <2>3. m - 1 >= b => f[m - 1] >= g[b]
    BY <1>7
  <2>4. CASE m <= b
    <3>1. m \in 1..b /\ m - 1 <= b /\ m - 1 \in 0..b
      BY <1>2, <2>4
    <3>2. g[m] = g[m - 1] + k[m].have /\ k[m] = j[m]
      BY <1>1, <1>4, <3>1
    <3>3. f[m] = g[m]
      BY <2>1, <2>2, <3>1, <3>2
    <3>4. m >= b => f[m] >= g[b]
      <4>1. m >= b => m = b
        BY <1>2, <2>4
      <4> QED
        BY <2>1, <3>3, <4>1
    <3> QED
      BY <2>1, <3>3, <3>4
  <2>5. CASE ~(m <= b)
    <3>1. m - 1 >= b
      BY <1>2, <2>5
    <3>2. g[b] \in Nat
      BY <1>2, <1>4
    <3>3. f[m - 1] >= g[b]
      BY <2>3, <3>1
    <3>4. PICK v \in Nat, h \in Nat : v = f[m - 1] /\ h = j[m].have
      BY <2>1
    <3>5. f[m] = v + h /\ v >= g[b]
      BY <2>1, <3>3, <3>4
    <3>6. f[m] >= g[b]
      BY <3>2, <3>5
    <3> QED
      BY <2>1, <2>5, <3>6
  <2> QED
    BY <2>4, <2>5
<1> HIDE DEF S
<1>8. L \in S
  <2>1. \A m \in 0..L : m \in S
    BY <1>6, <1>7, Induction
  <2> QED
    BY <2>1
<1>9. f[L] >= g[b]
  BY <1>2, <1>8 DEF S
<1> QED
  BY <1>1, <1>3, <1>4, <1>9

LEMMA CleanOpen ==
  ASSUME StoreType, Phases, FrontInv, CleanInv, Open
  PROVE  CleanInv'
<1>1. ~Overshot
  BY Opened
<1>2. PICK b \in 0..Len(journal) :
              /\ lastSeq' = SnapshotSeq + b
              /\ \/ b = Len(journal) /\ journal' = journal
                 \/ b < Len(journal) /\ journal' = SubSeq(journal, 1, b)
                 \/ b < Len(journal) /\ ZeroFrom(journal, b + 1) /\ journal' = journal
  BY Opened
<1>3. snapshot' = snapshot /\ pc' = "boot" /\ pc = "idle" /\ opened' /\ bytes' = Bytes(journal)'
  BY DEF Open, Phases
<1>4. /\ journal \in Seq(ItemType) /\ SnapshotSeq + 1 \in Nat /\ Len(journal) \in Nat /\ b \in Nat
      /\ Bytes(journal) \in Nat
  BY DiskType, BytesNat
<1>5. Tidy(journal, SnapshotSeq + 1, Start(EmptyState))
  BY <1>3 DEF CleanInv
<1>6. ~(b < Len(journal) /\ ZeroFrom(journal, b + 1))
  <2> SUFFICES ASSUME b < Len(journal), ZeroFrom(journal, b + 1) PROVE FALSE
    OBVIOUS
  <2>1. b + 1 \in 1..Len(journal) /\ b + 1 \in (b + 1)..Len(journal)
    BY <1>4
  <2> QED
    BY <1>5, <2>1 DEF Tidy, ZeroFrom
<1>7. CASE b = Len(journal) /\ journal' = journal
  BY <1>3, <1>2, <1>5, <1>7, SameSnapshot DEF CleanInv
<1>8. CASE journal' = SubSeq(journal, 1, b)
  <2>1. PICK k : k = SubSeq(journal, 1, b)
    OBVIOUS
  <2>2. Len(k) = b /\ Tidy(k, SnapshotSeq + 1, Start(EmptyState)) /\ k \in Seq(ItemType)
    BY <1>4, <1>5, <2>1, PrefixType, TidyPrefix
  <2>3. Bytes(k) <= Bytes(journal) /\ Bytes(k) \in Nat
    BY <1>4, <2>1, <2>2, BytesPrefix, BytesNat
  <2>4. Limited(k)
    BY <1>1, <1>4, <2>3, StoreAssumption DEF Limited, Overshot
  <2> QED
    BY <1>2, <1>3, <1>8, <2>1, <2>2, <2>4, SameSnapshot DEF CleanInv
<1> QED
  BY <1>2, <1>6, <1>7, <1>8

(* An append behind a tidy journal. *)
LEMMA CleanAppend ==
  ASSUME StoreType, CleanInv, opened, pc # "rotate", snapshot' = snapshot, NEW x \in ItemType,
         journal' = Append(journal, x), ~Zero(x), x.seq = lastSeq + 1, bytes < MaxJournalBytes,
         \A s : DiskState(Len(journal), s) => ApplyOutcome(s, x.seq, x.rec) # "Corrupt",
         opened' => bytes' = bytes + x.have /\ lastSeq' = lastSeq + 1
  PROVE  CleanInv'
<1>1. /\ journal \in Seq(ItemType) /\ SnapshotSeq + 1 \in Nat /\ Len(journal) \in Nat
      /\ SnapshotSeq \in Nat
  BY DiskType
<1>2. /\ Tidy(journal, SnapshotSeq + 1, Start(EmptyState)) /\ lastSeq = SnapshotSeq + Len(journal)
      /\ bytes = Bytes(journal)
  BY DEF CleanInv
<1>3. x.seq = SnapshotSeq + 1 + Len(journal)
  BY <1>1, <1>2
<1>4. ASSUME NEW s, Replays(journal, Len(journal), SnapshotSeq + 1, Start(EmptyState), s)
      PROVE  ApplyOutcome(s, x.seq, x.rec) # "Corrupt"
  <2>1. DiskState(Len(journal), s)
    BY <1>1, <1>4 DEF DiskState, Accepts
  <2> QED
    BY <2>1
<1>5. PICK k : k = Append(journal, x)
  OBVIOUS
<1>6. /\ Tidy(k, SnapshotSeq + 1, Start(EmptyState)) /\ Limited(k) /\ Len(k) = Len(journal) + 1
      /\ Bytes(k) = Bytes(journal) + x.have
  BY <1>1, <1>2, <1>3, <1>4, <1>5, TidyAppend, LimitedAppend, Appended, BytesAppend
<1>7. opened' => bytes' = Bytes(k) /\ lastSeq' = SnapshotSeq + Len(k)
  BY <1>1, <1>2, <1>6
<1> QED
  BY <1>5, <1>6, <1>7, SameSnapshot DEF CleanInv

(* What an append may be writing. *)
Written(rec) ==
  \/ pc = "boot" /\ rec = BootRecord(state.epoch)
  \/ rec = PolicyRecord(policy)
  \/ rec = InterruptionRecord
  \/ \E f \in FenceState : rec = FenceRecord(f)
  \/ pc = "mark" /\ rec = CheckpointRecord(SnapshotSeq)
  \/ rec = DecisionRecord

LEMMA WrittenApplies ==
  ASSUME StoreType, Phases, OpenInv, CleanInv, NEW rec, Written(rec), NEW s,
         DiskState(Len(journal), s)
  PROVE  ApplyOutcome(s, lastSeq + 1, rec) # "Corrupt"
<1>0. s \in DurableState /\ SnapshotSeq \in Nat /\ Len(journal) \in Nat
  BY DiskType
<1>1. CASE pc = "boot" /\ rec = BootRecord(state.epoch)
  <2>1. state = [s EXCEPT !.epoch = s.epoch + 1]
    BY <1>1 DEF OpenInv
  <2>2. state.epoch = s.epoch + 1 /\ s.epoch \in Nat
    BY <1>0, <2>1 DEF DurableState
  <2>3. ~(state.epoch <= s.epoch)
    BY <2>2
  <2> QED
    BY <1>1, <2>3 DEF ApplyOutcome, BootRecord
<1>2. CASE pc = "mark" /\ rec = CheckpointRecord(SnapshotSeq)
  <2>1. lastSeq = SnapshotSeq + Len(journal)
    BY <1>2 DEF CleanInv, Phases
  <2>2. ~(SnapshotSeq > lastSeq + 1)
    BY <1>0, <2>1
  <2> QED
    BY <1>2, <2>2 DEF ApplyOutcome, CheckpointRecord
<1>3. CASE \/ rec = PolicyRecord(policy)
           \/ rec = InterruptionRecord
           \/ \E f \in FenceState : rec = FenceRecord(f)
           \/ rec = DecisionRecord
  <2>1. rec.type \notin {"Boot", "Checkpoint"}
    BY <1>3 DEF PolicyRecord, InterruptionRecord, FenceRecord, DecisionRecord
  <2> QED
    BY <2>1 DEF ApplyOutcome
<1> QED
  BY <1>1, <1>2, <1>3 DEF Written

LEMMA CleanCommit ==
  ASSUME Faults = {}, StoreType, Phases, OpenInv, CleanInv, NEW rec \in Record, rec # ZeroRecord,
         Written(rec), NEW ok \in BOOLEAN, Commit(rec, ok), snapshot' = snapshot, opened' = opened,
         opened, pc # "rotate"
  PROVE  CleanInv'
<1>1. CASE journal' = journal /\ lastSeq' = lastSeq /\ bytes' = bytes
  BY <1>1, SameSnapshot DEF CleanInv
<1>2. ASSUME NEW x \in ItemType, journal' = Append(journal, x), x.rec = rec, x.seq = lastSeq + 1,
             ~Zero(x), lastSeq' = lastSeq + 1, bytes' = bytes + x.have, bytes < MaxJournalBytes
      PROVE  CleanInv'
  <2>1. \A s : DiskState(Len(journal), s) => ApplyOutcome(s, x.seq, x.rec) # "Corrupt"
    BY <1>2, WrittenApplies
  <2> QED
    BY <1>2, <2>1, CleanAppend
<1> QED
  BY <1>1, <1>2, Appending

LEMMA CleanCrash ==
  ASSUME Faults = {}, StoreType, Phases, OpenInv, CleanInv, Crash
  PROVE  CleanInv'
<1>1. snapshot' = snapshot /\ ~opened' /\ pc # "rotate"
  BY DEF Crash
<1>2. CASE journal' = journal
  BY <1>1, <1>2, SameSnapshot DEF CleanInv
<1>3. CASE journal' # journal
  <2>1. PICK rec \in InProgress, x \in ItemType :
          journal' = Append(journal, x) /\ x.rec = rec /\ x.seq = lastSeq + 1 /\ ~Zero(x)
    BY <1>3, CrashLeaves
  <2>2. /\ writable /\ bytes < MaxJournalBytes
        /\ \/ pc = "boot" /\ rec = BootRecord(state.epoch)
           \/ pc = "policy" /\ rec = PolicyRecord(policy)
           \/ pc = "fences" /\ rec = InterruptionRecord
           \/ pc = "close" /\ \E f \in closing : rec = FenceRecord(f)
           \/ pc = "mark" /\ rec = CheckpointRecord(SnapshotSeq)
           \/ serving /\ pc = "idle" /\ rec \in ClientRecords
    BY Interrupted
  <2>3. opened
    BY <2>2 DEF Phases
  <2>4. (\E f \in closing : rec = FenceRecord(f)) => \E f \in FenceState : rec = FenceRecord(f)
    BY DEF StoreType
  <2>5. rec \in ClientRecords => rec = DecisionRecord \/ \E f \in FenceState : rec = FenceRecord(f)
    BY ClientRecord
  <2>6. Written(rec)
    BY <2>2, <2>4, <2>5 DEF Written
  <2>7. \A s : DiskState(Len(journal), s) => ApplyOutcome(s, x.seq, x.rec) # "Corrupt"
    BY <2>1, <2>6, WrittenApplies
  <2> QED
    BY <1>1, <2>1, <2>2, <2>3, <2>7, CleanAppend
<1> QED
  BY <1>2, <1>3

LEMMA CleanStep ==
  ASSUME Faults = {}, StoreType, Phases, FrontInv, SeqInv, OpenInv, CleanInv, [Next]_vars
  PROVE  CleanInv'
<1>1. CASE OpenRefused \/ FinishOpen \/ Close \/ UNCHANGED vars
  <2>1. /\ snapshot' = snapshot /\ journal' = journal /\ lastSeq' = lastSeq /\ bytes' = bytes
        /\ (opened' => opened) /\ (pc' # "rotate" => pc # "rotate")
    BY <1>1 DEF OpenRefused, FinishOpen, Close, vars, disk, memory
  <2> QED
    BY <2>1, SameSnapshot DEF CleanInv
<1>2. CASE WriteSnapshot
  <2>1. journal' = journal /\ bytes' = bytes /\ opened' = opened /\ pc' = "rotate"
    BY <1>2 DEF WriteSnapshot
  <2> QED
    BY <2>1 DEF CleanInv
<1>3. CASE Rotate
  <2>1. /\ journal' = <<>> /\ bytes' = 0 /\ snapshot' = snapshot /\ lastSeq' = lastSeq
        /\ pc = "rotate" /\ state' = state
    BY <1>3 DEF Rotate
  <2>2. SnapshotSeq = lastSeq /\ lastSeq \in Nat
    BY <2>1, SnappedSeq DEF SeqInv, StoreType
  <2>3. PICK e : e = <<>>
    OBVIOUS
  <2>4. Len(e) = 0 /\ Bytes(e) = 0 /\ Limited(e) /\ Tidy(e, SnapshotSeq + 1, Start(EmptyState))
    BY <2>3, BytesEmpty, TidyEmpty
  <2>5. lastSeq = SnapshotSeq + Len(e)
    BY <2>2, <2>4
  <2> QED
    BY <2>1, <2>3, <2>4, <2>5, SameSnapshot DEF CleanInv
<1>4. CASE RotateFails
  BY <1>4 DEF RotateFails
<1>5. ASSUME NEW ok \in BOOLEAN, CommitBoot(ok) PROVE CleanInv'
  <2>1. /\ Commit(BootRecord(state.epoch), ok) /\ snapshot' = snapshot /\ opened' = opened
        /\ pc = "boot" /\ opened
    BY <1>5 DEF CommitBoot, Phases
  <2>2. BootRecord(state.epoch) \in Record /\ BootRecord(state.epoch) # ZeroRecord
    BY Records, NotZero
  <2>3. Written(BootRecord(state.epoch))
    BY <2>1 DEF Written
  <2> QED
    BY <2>1, <2>2, <2>3, CleanCommit
<1>6. ASSUME NEW rec, NEW ok, LaterCommit(rec, ok), Written(rec), pc # "rotate" PROVE CleanInv'
  <2>1. opened
    BY <1>6 DEF LaterCommit, Phases, OpenPhases
  <2>2. /\ rec \in Record /\ rec # ZeroRecord /\ ok \in BOOLEAN /\ Commit(rec, ok)
        /\ snapshot' = snapshot /\ opened' = opened
    BY <1>6 DEF LaterCommit
  <2> QED
    BY <1>6, <2>1, <2>2, CleanCommit
<1>7. ASSUME NEW ok \in BOOLEAN, CommitPolicy(ok) PROVE CleanInv'
  <2>1. Written(PolicyRecord(policy)) /\ pc # "rotate"
    BY <1>7 DEF CommitPolicy, Written
  <2> QED
    BY <1>6, <1>7, <2>1, LaterPolicy
<1>8. ASSUME NEW ok \in BOOLEAN, NEW f \in OpenFences, CommitInterruption(f, ok) PROVE CleanInv'
  <2>1. Written(InterruptionRecord) /\ pc # "rotate"
    BY <1>8 DEF CommitInterruption, Written
  <2> QED
    BY <1>6, <1>8, <2>1, LaterInterruption
<1>9. ASSUME NEW ok \in BOOLEAN, NEW f \in closing, CommitRestartFence(f, ok) PROVE CleanInv'
  <2>1. Written(FenceRecord(f)) /\ pc # "rotate"
    BY <1>9 DEF CommitRestartFence, Written, StoreType
  <2> QED
    BY <1>6, <1>9, <2>1, LaterFence
<1>10. ASSUME NEW ok \in BOOLEAN, CommitCheckpoint(ok) PROVE CleanInv'
  <2>1. Written(CheckpointRecord(SnapshotSeq)) /\ pc # "rotate"
    BY <1>10 DEF CommitCheckpoint, Written
  <2> QED
    BY <1>6, <1>10, <2>1, LaterMark
<1>11. ASSUME NEW ok \in BOOLEAN, NEW rec \in ClientRecords, CommitRecord(rec, ok) PROVE CleanInv'
  <2>1. Written(rec) /\ pc # "rotate"
    BY <1>11, ClientRecord DEF CommitRecord, Ready, Written
  <2> QED
    BY <1>6, <1>11, <2>1, LaterRecord
<1> QED
  BY <1>1, <1>2, <1>3, <1>4, <1>5, <1>7, <1>8, <1>9, <1>10, <1>11, CleanOpen, CleanCrash,
     NextCases

(* The scan of a tidy journal. *)
LEMMA CleanScan ==
  ASSUME StoreType, WholeInv, CleanInv, pc # "rotate"
  PROVE  /\ OnDisk.outcome \in {"Ok", "Oversized", "Exhausted"}
         /\ OnDisk.outcome = "Oversized" <=> Overshot
         /\ OnDisk.outcome = "Exhausted" => Exceeded(OnDisk)
<1>0. /\ journal \in Seq(ItemType) /\ Len(journal) \in Nat
      /\ Tidy(journal, SnapshotSeq + 1, Start(EmptyState))
  BY DiskType DEF CleanInv
<1>1. CASE Overshot
  <2>1. OnDisk = Ended("Oversized", FALSE, 0, Start(EmptyState))
    BY <1>1, RecoveringOvershot, EmptyType DEF OnDisk
  <2>2. OnDisk.outcome = "Oversized"
    BY <2>1 DEF Ended
  <2> QED
    BY <1>1, <2>2
<1>2. CASE ~Overshot
  <2>1. PICK b \in 0..Len(journal), s \in DurableState :
          ScanResult(journal, Len(journal), SnapshotSeq + 1, Start(EmptyState), b, s, OnDisk)
    BY <1>2, Recovering, EmptyType DEF OnDisk
  <2>2. Replays(journal, b, SnapshotSeq + 1, Start(EmptyState), s)
    BY <2>1 DEF ScanResult
  <2>3. CASE b = Len(journal) /\ OnDisk = Run(b, s)
    <3>1. OnDisk.outcome = "Ok"
      BY <2>3 DEF Run
    <3> QED
      BY <1>2, <3>1
  <2>4. CASE OnDisk = Ended("Ok", TRUE, b, s) \/ OnDisk = Ended("Ok", FALSE, b, s)
    <3>1. OnDisk.outcome = "Ok"
      BY <2>4 DEF Ended
    <3> QED
      BY <1>2, <3>1
  <2>5. CASE /\ b < Len(journal) /\ ExhaustedAt(journal, b + 1, SnapshotSeq + 1, s)
             /\ OnDisk = Ended("Exhausted", FALSE, b, s)
    <3>1. OnDisk.outcome = "Exhausted" /\ OnDisk.records = b /\ OnDisk.state = s
      BY <2>5 DEF Ended
    <3>2. PICK x : x = journal[b + 1]
      OBVIOUS
    <3>3. b + 1 - 1 >= MaxRecords \/ ApplyOutcome(s, x.seq, x.rec) = "Exhausted"
      BY <2>5, <3>2 DEF ExhaustedAt
    <3>4. b + 1 - 1 = b
      OBVIOUS
    <3>5. ApplyOutcome(s, x.seq, x.rec) = "Exhausted" => x.rec.type = "Fence" /\ NoRoom(s, x.rec.fence)
      BY DEF ApplyOutcome
    <3>6. Exceeded(OnDisk)
      BY <3>1, <3>2, <3>3, <3>4, <3>5 DEF Exceeded
    <3> QED
      BY <1>2, <3>1, <3>6
  <2>6. ASSUME b < Len(journal), CorruptAt(journal, b + 1, SnapshotSeq + 1, s) PROVE FALSE
    <3>1. PICK n \in 1..Len(journal) : n = b + 1 /\ n - 1 = b
      BY <1>0, <2>6
    <3>2. ~Zero(journal[n]) /\ journal[n].seq = SnapshotSeq + 1 + n - 1
      BY <1>0, <3>1 DEF Tidy
    <3>3. ApplyOutcome(s, journal[n].seq, journal[n].rec) # "Corrupt"
      BY <1>0, <2>2, <3>1 DEF Tidy
    <3>4. journal[n].have < journal[n].need => journal[n].need > RestBytes(journal, n)
      <4>1. ASSUME journal[n].have < journal[n].need PROVE journal[n].need > RestBytes(journal, n)
        <5>1. n = Len(journal)
          BY <4>1 DEF WholeInv
        <5>2. RestBytes(journal, n) = journal[n].have
          BY <1>0, <5>1, BytesRest DEF RestBytes
        <5>3. journal[n].have \in Nat /\ journal[n].need \in Nat
          BY <1>0, SeqFront DEF ItemType
        <5> QED
          BY <4>1, <5>2, <5>3
      <4> QED
        BY <4>1
    <3>5. CorruptAt(journal, n, SnapshotSeq + 1, s)
      BY <2>6, <3>1
    <3> QED
      BY <3>2, <3>3, <3>4, <3>5 DEF CorruptAt
  <2> QED
    BY <2>1, <2>3, <2>4, <2>5, <2>6 DEF ScanResult, Ending
<1> QED
  BY <1>1, <1>2

LEMMA CleanInvariance ==
  ASSUME Faults = {}
  PROVE  Spec => [](StoreInv /\ WholeInv /\ CleanInv)
<1>0. "write" \notin Faults
  OBVIOUS
<1>1. Init => CleanInv
  <2> SUFFICES ASSUME Init PROVE CleanInv
    OBVIOUS
  <2>1. journal = <<>> /\ ~opened
    BY DEF Init
  <2> QED
    BY <2>1, TidyEmpty DEF CleanInv
<1>2. StoreInv /\ CleanInv /\ [Next]_vars => CleanInv'
  BY CleanStep DEF StoreInv
<1> QED
  BY <1>0, <1>1, <1>2, KeptInvariance, PTL DEF Spec

(* Whatever a crash leaves behind, between two calls or inside an append, a new process
   recovers from it, unless the journal is beyond one of the limits: nothing the store
   itself wrote is taken for corruption.  The premise is that the crash is the only failure;
   with any other one open() does refuse what an earlier process left. *)
THEOREM CrashIsRecoverable ==
  ASSUME Faults = {}
  PROVE  Spec => []DiskRecoverable
<1>1. StoreInv /\ WholeInv /\ CleanInv => DiskRecoverable
  <2> SUFFICES ASSUME StoreInv, WholeInv, CleanInv, pc # "rotate"
               PROVE  /\ OnDisk.outcome \in {"Ok", "Oversized", "Exhausted"}
                      /\ OnDisk.outcome = "Oversized" <=> Overshot
                      /\ OnDisk.outcome = "Exhausted" => Exceeded(OnDisk)
                      /\ Overshot => Bytes(journal) - journal[Len(journal)].have < MaxJournalBytes
    BY DEF DiskRecoverable
  <2>1. Overshot => Bytes(journal) - journal[Len(journal)].have < MaxJournalBytes
    BY DEF CleanInv, Limited, Overshot
  <2> QED
    BY <2>1, CleanScan DEF StoreInv
<1> QED
  BY <1>1, CleanInvariance, PTL
=============================================================================
