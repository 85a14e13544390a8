--------------------------- MODULE LocalizerProofs ---------------------------
(***************************************************************************)
(* Failure localization answers exactly, for any number of elements and    *)
(* constraint sets and any budget.  The argument has five layers, each a   *)
(* predicate on a system of candidates K and constraint sets G:            *)
(*                                                                         *)
(*   the system: reduce() changes no localization (ReduceExact);           *)
(*   OracleInv: the frames of the oracle decide the question they were     *)
(*     pushed for, and the memo holds true answers only;                   *)
(*   EnumInv: the enumerator has counted exactly the minima that it has    *)
(*     passed in lexicographic order, by backtracking or by pruning;       *)
(*   PackInv and NoSmaller: the lower bound, and the sizes refuted so far; *)
(*   Sound: a result is exact and the verifier would accept it.            *)
(*                                                                         *)
(* LocalizerInv puts them together, one phase of the call at a time.       *)
(***************************************************************************)
EXTENDS Localizer, FiniteSetTheorems, SequenceTheorems, WellFoundedInduction, TLAPS

(* Well-founded induction, as the fact that a nonempty set of naturals has a least element. *)
LEMMA LeastNatural ==
  ASSUME NEW S, S \subseteq Nat, S # {}
  PROVE  \E m \in S : \A n \in S : m <= n
<1> DEFINE T == {0..n : n \in S}
<1>1. T \subseteq FiniteSubsetsOf(Nat)
  <2>1. \A n \in S : 0..n \in SUBSET Nat /\ IsFiniteSet(0..n)
    BY FS_Interval
  <2> QED
    BY <2>1 DEF FiniteSubsetsOf
<1>2. T # {}
  OBVIOUS
<1>3. PICK x \in T : \A y \in T : ~(<<y, x>> \in StrictSubsetOrdering(Nat))
  <2> HIDE DEF T
  <2>1. IsWellFoundedOn(StrictSubsetOrdering(Nat), FiniteSubsetsOf(Nat))
    BY FS_StrictSubsetOrderingWellFounded
  <2> QED
    BY <2>1, <1>1, <1>2, WFMin
<1>4. PICK m \in S : x = 0..m
  BY <1>3
<1>5. ASSUME NEW n \in S, n < m PROVE FALSE
  <2>1. 0..n \subseteq 0..m /\ 0..n # 0..m /\ 0..n \in SUBSET Nat /\ 0..m \in SUBSET Nat
    <3>1. m \in 0..m /\ m \notin 0..n
      BY <1>5
    <3> QED
      BY <3>1, <1>5
  <2>2. <<0..n, 0..m>> \in StrictSubsetOrdering(Nat)
    BY <2>1 DEF StrictSubsetOrdering
  <2> QED
    BY <2>2, <1>3, <1>4
<1> QED
  BY <1>5

(* Min and Max of sets of naturals. *)
LEMMA MinIsLeast ==
  ASSUME NEW S, S \subseteq Nat, S # {}
  PROVE  Min(S) \in S /\ \A y \in S : Min(S) <= y
<1>1. \E x \in S : \A y \in S : x <= y
  BY LeastNatural
<1> QED
  BY <1>1 DEF Min

(* Max, for finite sets. *)
LEMMA MaxIsGreatest ==
  ASSUME NEW S, S \subseteq Nat, IsFiniteSet(S), S # {}
  PROVE  Max(S) \in S /\ \A y \in S : y <= Max(S)
<1> DEFINE U == {{y \in S : y > x} : x \in S}
<1>1. U \subseteq FiniteSubsetsOf(S)
  <2>1. \A x \in S : {y \in S : y > x} \in SUBSET S /\ IsFiniteSet({y \in S : y > x})
    BY FS_Subset
  <2> QED
    BY <2>1 DEF FiniteSubsetsOf
<1>2. U # {}
  OBVIOUS
<1>3. PICK u \in U : \A v \in U : ~(<<v, u>> \in StrictSubsetOrdering(S))
  <2> HIDE DEF U
  <2>1. IsWellFoundedOn(StrictSubsetOrdering(S), FiniteSubsetsOf(S))
    BY FS_StrictSubsetOrderingWellFounded
  <2> QED
    BY <2>1, <1>1, <1>2, WFMin
<1>4. PICK x \in S : u = {y \in S : y > x}
  BY <1>3
<1>5. ASSUME NEW z \in S, z > x PROVE FALSE
  <2> DEFINE v == {y \in S : y > z}
  <2>0. \A y \in v : y \in S /\ y > x
    BY <1>5
  <2>1. v \subseteq u /\ z \in u /\ z \notin v /\ u \subseteq S
    <3>1. z \in Nat /\ ~(z > z)
      OBVIOUS
    <3> QED
      BY <2>0, <3>1, <1>4, <1>5
  <2>2. v \in U
    OBVIOUS
  <2>3. <<v, u>> \in StrictSubsetOrdering(S)
    BY <2>1 DEF StrictSubsetOrdering
  <2> QED
    BY <2>2, <2>3, <1>3
<1>6. \A y \in S : x >= y
  BY <1>5
<1> QED
  BY <1>6 DEF Max

-----------------------------------------------------------------------------
(* The system of an input. *)
InputType(in) ==
  /\ in.element_count \in Nat
  /\ DOMAIN in.failure_sets \subseteq Nat

(* The candidates are finitely many, and the kept sets are nonempty sets of them. *)
LEMMA CandidateFacts ==
  ASSUME NEW in, InputType(in)
  PROVE  /\ Candidates(in) \subseteq Nat
         /\ IsFiniteSet(Candidates(in))
         /\ Cardinality(Candidates(in)) \in Nat
         /\ Reduce(in) \subseteq SUBSET Candidates(in)
         /\ {} \notin Reduce(in)
<1>1. Candidates(in) \subseteq 0..(in.element_count - 1)
  BY DEF Candidates
<1>2. IsFiniteSet(0..(in.element_count - 1))
  BY FS_Interval DEF InputType
<1>3. IsFiniteSet(Candidates(in)) /\ Cardinality(Candidates(in)) \in Nat
  BY <1>1, <1>2, FS_Subset, FS_CardinalityType
<1>4. ToSet(Constraints(in)) \subseteq SUBSET Candidates(in)
  BY DEF ToSet, Constraints
<1> QED
  BY <1>1, <1>3, <1>4 DEF Reduce, InputType

(* Dropping duplicates and supersets changes no localization. *)
LEMMA ReduceExact ==
  ASSUME NEW in, InputType(in), EmptySets(in) = {}
  PROVE  Localizations(in) = {H \in SUBSET Candidates(in) : Uncovered(Reduce(in), H) = {}}
<1> DEFINE raw == ToSet(Constraints(in)) \ {{}}
           K == Candidates(in)
<1>0. raw = {in.failure_sets[i] \cap K : i \in DOMAIN in.failure_sets}
  BY DEF ToSet, Constraints, EmptySets
<1>1. Reduce(in) = {S \in raw : \A T \in raw : ~(T \subseteq S /\ T # S)}
  BY DEF Reduce
<1> HIDE DEF raw
<1>2. ASSUME NEW D \in raw PROVE \E T \in Reduce(in) : T \subseteq D
  <2> DEFINE U == {T \in raw : T \subseteq D}
  <2>1. U # {} /\ U \subseteq FiniteSubsetsOf(K)
    <3>1. D \in U
      BY <1>2
    <3>2. \A T \in U : T \in SUBSET K
      BY <1>0
    <3>3. \A T \in U : IsFiniteSet(T)
      BY <3>2, CandidateFacts, FS_Subset
    <3> QED
      BY <3>1, <3>2, <3>3 DEF FiniteSubsetsOf
  <2>2. PICK T \in U : \A V \in U : ~(<<V, T>> \in StrictSubsetOrdering(K))
    <3> HIDE DEF U, K
    <3>1. IsWellFoundedOn(StrictSubsetOrdering(K), FiniteSubsetsOf(K))
      BY FS_StrictSubsetOrderingWellFounded
    <3> QED
      BY <3>1, <2>1, WFMin
  <2>3. ASSUME NEW V \in raw, V \subseteq T, V # T PROVE FALSE
    <3>1. V \in U /\ T \in SUBSET K /\ V \in SUBSET K
      BY <2>2, <2>3, <1>0
    <3>2. <<V, T>> \in StrictSubsetOrdering(K)
      BY <3>1, <2>3 DEF StrictSubsetOrdering
    <3> QED
      BY <3>1, <3>2, <2>2
  <2> QED
    BY <2>2, <2>3, <1>1
<1>3. ASSUME NEW H \in SUBSET K
      PROVE  (\A S \in ToSet(in.failure_sets) : H \cap S # {}) <=> Uncovered(Reduce(in), H) = {}
  <2>1. ASSUME \A S \in ToSet(in.failure_sets) : H \cap S # {}, NEW S \in Reduce(in)
        PROVE  S \cap H # {}
    <3>1. PICK i \in DOMAIN in.failure_sets : S = in.failure_sets[i] \cap K
      BY <1>0, <1>1, <2>1
    <3>2. H \cap in.failure_sets[i] # {}
      BY <2>1 DEF ToSet
    <3> QED
      BY <3>1, <3>2, <1>3
  <2>2. ASSUME \A S \in Reduce(in) : S \cap H # {}, NEW S \in ToSet(in.failure_sets)
        PROVE  H \cap S # {}
    <3>1. S \cap K \in raw
      BY <1>0, <2>2 DEF ToSet
    <3>2. PICK T \in Reduce(in) : T \subseteq S \cap K
      BY <3>1, <1>2
    <3> QED
      BY <3>2, <2>2
  <2> QED
    BY <2>1, <2>2 DEF Uncovered
<1> QED
  BY <1>3 DEF Localizations

-----------------------------------------------------------------------------
(* A reduced system: candidates K and a family G of constraint sets. *)
System(K, G) == K \subseteq Nat /\ IsFiniteSet(K) /\ G \subseteq SUBSET K /\ {} \notin G

(* What covers() is asked: k candidates from lo on hit every set of mask. *)
Coverable(K, mask, k, lo) ==
  \E H \in SUBSET {c \in K : c >= lo} : Cardinality(H) <= k /\ Uncovered(mask, H) = {}

(* Subsets of a finite set are finite and no larger. *)
LEMMA FiniteParts ==
  ASSUME NEW K, IsFiniteSet(K), NEW H \in SUBSET K
  PROVE  IsFiniteSet(H) /\ Cardinality(H) \in Nat /\ Cardinality(H) <= Cardinality(K)
  BY FS_Subset, FS_CardinalityType

(* The three answers of covers() that need no search. *)
LEMMA NothingToCover ==
  ASSUME NEW K, NEW k \in Nat, NEW lo
  PROVE  Coverable(K, {}, k, lo)
<1>1. {} \in SUBSET {c \in K : c >= lo} /\ Cardinality({}) <= k /\ Uncovered({}, {}) = {}
  BY FS_EmptySet DEF Uncovered
<1> QED
  BY <1>1 DEF Coverable

(* Without candidates left to take, an open mask cannot be covered. *)
LEMMA NothingToTake ==
  ASSUME NEW K, IsFiniteSet(K), NEW mask, mask # {}, NEW lo
  PROVE  ~Coverable(K, mask, 0, lo)
<1> SUFFICES ASSUME NEW H \in SUBSET {c \in K : c >= lo}, Cardinality(H) <= 0,
                    Uncovered(mask, H) = {}
             PROVE  FALSE
  BY DEF Coverable
<1>1. IsFiniteSet(H) /\ Cardinality(H) \in Nat
  BY FiniteParts
<1>2. Cardinality(H) = 0
  BY <1>1
<1>3. H = {}
  BY <1>1, <1>2, FS_EmptySet
<1> QED
  BY <1>3 DEF Uncovered

(* The lowest uncovered set must be hit, and each of its candidates is tried. *)
LEMMA Branching ==
  ASSUME NEW K, IsFiniteSet(K), NEW mask \in SUBSET SUBSET K, NEW L \in mask,
         NEW k \in Nat, k > 0, NEW lo
  PROVE  Coverable(K, mask, k, lo)
           <=> \E c \in L : c >= lo /\ Coverable(K, Rest(mask, c), k - 1, lo)
<1> DEFINE P == {c \in K : c >= lo}
<1>1. ASSUME NEW H \in SUBSET P, Cardinality(H) <= k, Uncovered(mask, H) = {}
      PROVE  \E c \in L : c >= lo /\ Coverable(K, Rest(mask, c), k - 1, lo)
  <2>1. PICK c \in L : c \in H
    BY <1>1 DEF Uncovered
  <2>2. IsFiniteSet(H) /\ Cardinality(H) \in Nat
    BY <1>1, FiniteParts
  <2>3. Cardinality(H \ {c}) = Cardinality(H) - 1
    BY <2>1, <2>2, FS_RemoveElement
  <2>4. Cardinality(H \ {c}) <= k - 1
    BY <2>2, <2>3, <1>1
  <2>5. Uncovered(Rest(mask, c), H \ {c}) = {}
    BY <1>1 DEF Uncovered, Rest
  <2>6. H \ {c} \in SUBSET P
    OBVIOUS
  <2>7. Coverable(K, Rest(mask, c), k - 1, lo)
    BY <2>4, <2>5, <2>6 DEF Coverable
  <2>8. c >= lo
    BY <2>1
  <2> QED
    BY <2>1, <2>7, <2>8
<1>2. ASSUME NEW c \in L, c >= lo, NEW H \in SUBSET P, Cardinality(H) <= k - 1,
             Uncovered(Rest(mask, c), H) = {}
      PROVE  Coverable(K, mask, k, lo)
  <2>1. IsFiniteSet(H) /\ Cardinality(H) \in Nat
    BY FiniteParts
  <2>2. Cardinality(H \cup {c}) <= Cardinality(H) + 1 /\ Cardinality(H \cup {c}) \in Nat
    <3>1. Cardinality(H \cup {c}) = IF c \in H THEN Cardinality(H) ELSE Cardinality(H) + 1
      BY <2>1, FS_AddElement
    <3> QED
      BY <2>1, <3>1
  <2>3. Cardinality(H \cup {c}) <= k
    BY <2>1, <2>2, <1>2
  <2>4. H \cup {c} \in SUBSET P
    BY <1>2
  <2>5. Uncovered(mask, H \cup {c}) = {}
    BY <1>2 DEF Uncovered, Rest
  <2> QED
    BY <2>3, <2>4, <2>5 DEF Coverable
<1> QED
  BY <1>1, <1>2 DEF Coverable

(* The lowest bit of a mask that is not zero. *)
LEMMA LowestInMask ==
  ASSUME NEW G, IsFiniteSet(G), NEW mask, mask # {}
  PROVE  Lowest(G, mask) \in mask
<1> DEFINE I == {SetIndex(G, S) : S \in mask}
<1>1. I \subseteq Nat /\ I # {}
  <2>1. \A S \in mask : SetIndex(G, S) \in Nat
    BY FS_Subset, FS_CardinalityType DEF SetIndex
  <2> QED
    BY <2>1
<1>2. PICK m \in I : \A n \in I : m <= n
  <2> HIDE DEF I
  <2> QED
    BY <1>1, LeastNatural
<1>3. \E S \in mask : \A T \in mask : SetIndex(G, S) <= SetIndex(G, T)
  BY <1>2
<1> QED
  BY <1>3 DEF Lowest

-----------------------------------------------------------------------------
Key(G) == (SUBSET G) \X Nat \X Nat
Memo(G) == UNION {[D -> BOOLEAN] : D \in SUBSET Key(G)}
Frame(K, G) == [mask : SUBSET G, k : Nat, lo : Nat, todo : SUBSET K]
OracleType(K, G) ==
  [budget : Nat, nodes : Nat, exhausted : BOOLEAN, memo : Memo(G), stack : Seq(Frame(K, G)),
   ok : BOOLEAN]

MemoSound(K, memo) ==
  \A m \in DOMAIN memo : memo[m] <=> Coverable(K, m[1], m[2], m[3])

(* What holds between questions, and during one. *)
OracleBase(K, G, o) ==
  /\ o \in OracleType(K, G)
  /\ MemoSound(K, o.memo)
  /\ o.exhausted => ~o.ok /\ o.nodes > o.budget

Branches(G, f) == {c \in Lowest(G, f.mask) : c >= f.lo}

Refuted(K, f, c) == ~Coverable(K, Rest(f.mask, c), f.k - 1, f.lo)

FrameOK(G, f) == f.mask # {} /\ f.k > 0 /\ f.todo \subseteq Branches(G, f)

(* Frame f waits for the call of frame g. *)
Waits(K, G, f, g) ==
  /\ g.k = f.k - 1 /\ g.lo = f.lo
  /\ \E c \in Branches(G, f) : Rest(f.mask, c) = g.mask
  /\ \A c \in Branches(G, f) \ f.todo : Refuted(K, f, c) \/ Rest(f.mask, c) = g.mask

(* The innermost frame has the answer of its last call. *)
Informed(K, G, f, o) ==
  \/ o.exhausted
  \/ o.ok /\ Coverable(K, f.mask, f.k, f.lo)
  \/ ~o.ok /\ \A c \in Branches(G, f) \ f.todo : Refuted(K, f, c)

StackOK(K, G, s) ==
  /\ \A i \in 1..Len(s) : FrameOK(G, s[i])
  /\ \A i \in 1..(Len(s) - 1) : Waits(K, G, s[i], s[i + 1])

Asks(f, mask, k, lo) == f.mask = mask /\ f.k = k /\ f.lo = lo

OracleInv(K, G, o, mask, k, lo) ==
  /\ OracleBase(K, G, o)
  /\ StackOK(K, G, o.stack)
  /\ o.stack # <<>> => Informed(K, G, Top(o), o) /\ Asks(o.stack[1], mask, k, lo)
  /\ o.stack = <<>> /\ ~o.exhausted => (o.ok <=> Coverable(K, mask, k, lo))

(* What covers() looks up is a key of the memo. *)
LEMMA KeyType ==
  ASSUME NEW G, NEW mask \in SUBSET G, NEW k \in Nat, NEW lo \in Nat
  PROVE  <<mask, k, lo>> \in Key(G)
  BY DEF Key

(* A reduced system has finitely many constraint sets. *)
LEMMA SystemFinite ==
  ASSUME NEW K, NEW G, System(K, G)
  PROVE  IsFiniteSet(G)
<1>1. IsFiniteSet(SUBSET K)
  BY FS_SUBSET DEF System
<1> QED
  BY <1>1, FS_Subset DEF System

(* What a call leads to: an answer, or one more frame. *)
Pushed(K, G, o, e, mask, k, lo) ==
  /\ mask # {} /\ k > 0 /\ ~e.ok /\ ~e.exhausted
  /\ \E f \in Frame(K, G) :
       e.stack = Append(o.stack, f) /\ Asks(f, mask, k, lo) /\ f.todo = Branches(G, f)

Replied(K, o, e, mask, k, lo) ==
  e.stack = o.stack /\ (~e.exhausted => (e.ok <=> Coverable(K, mask, k, lo)))

(* Every early return of covers() is right, and otherwise one frame is pushed: an answer
   from the memo is right because the memo is sound. *)
LEMMA EnterAnswers ==
  ASSUME NEW K, NEW G, System(K, G), NEW o, OracleBase(K, G, o),
         NEW mask \in SUBSET G, NEW k \in Nat, NEW lo \in Nat,
         NEW e, e = Enter(G, o, mask, k, lo)
  PROVE  /\ OracleBase(K, G, e)
         /\ e.budget = o.budget
         /\ Replied(K, o, e, mask, k, lo) \/ Pushed(K, G, o, e, mask, k, lo)
<1> DEFINE key == <<mask, k, lo>>
           f == [mask |-> mask, k |-> k, lo |-> lo, todo |-> {c \in Lowest(G, mask) : c >= lo}]
<1>t. o \in OracleType(K, G)
  BY DEF OracleBase
<1> USE DEF OracleBase, Replied
<1>0. PICK b \in Nat, n \in Nat, x \in BOOLEAN, m \in Memo(G), s \in Seq(Frame(K, G)) :
        b = o.budget /\ n = o.nodes + 1 /\ x = o.exhausted /\ m = o.memo /\ s = o.stack
  BY DEF OracleType
<1>1. CASE o.exhausted
  <2>1. e = [o EXCEPT !.ok = FALSE]
    BY <1>1 DEF Enter, Answered
  <2> QED
    BY <2>1, <1>1 DEF OracleType
<1>2. CASE ~o.exhausted /\ mask = {}
  <2>1. e = [o EXCEPT !.ok = TRUE]
    BY <1>2 DEF Enter, Answered
  <2> QED
    BY <2>1, <1>2, NothingToCover DEF OracleType
<1>3. CASE ~o.exhausted /\ mask # {} /\ k = 0
  <2>1. e = [o EXCEPT !.ok = FALSE]
    BY <1>3 DEF Enter, Answered
  <2>2. ~Coverable(K, mask, k, lo)
    BY <1>3, NothingToTake DEF System
  <2> QED
    BY <2>1, <2>2, <1>3 DEF OracleType
<1>4. CASE ~o.exhausted /\ mask # {} /\ k # 0 /\ o.nodes + 1 > o.budget
  <2>1. e = [budget |-> b, nodes |-> n, exhausted |-> TRUE, memo |-> m, stack |-> s, ok |-> FALSE]
    <3>1. e = [o EXCEPT !.nodes = @ + 1, !.ok = FALSE, !.exhausted = TRUE]
      BY <1>4 DEF Enter, Answered, OracleType
    <3> QED
      BY <3>1, <1>0 DEF OracleType
  <2>2. /\ e \in OracleType(K, G) /\ e.memo = o.memo /\ e.budget = o.budget /\ e.stack = s
        /\ e.exhausted = TRUE /\ e.ok = FALSE /\ e.nodes = n
    BY <2>1, <1>0 DEF OracleType
  <2>3. OracleBase(K, G, e)
    BY <2>2, <1>0, <1>4
  <2> QED
    BY <2>2, <2>3, <1>0
<1>5. CASE ~o.exhausted /\ mask # {} /\ k # 0 /\ o.nodes + 1 <= o.budget /\ key \in DOMAIN o.memo
  <2>2. PICK ok \in BOOLEAN : ok = o.memo[key]
    BY <1>5 DEF Memo, OracleType
  <2>1. e = [budget |-> b, nodes |-> n, exhausted |-> x, memo |-> m, stack |-> s, ok |-> ok]
    <3>1. e = [o EXCEPT !.nodes = @ + 1, !.ok = o.memo[key]]
      BY <1>5 DEF Enter, Answered, OracleType
    <3> HIDE DEF key
    <3> QED
      BY <3>1, <1>0, <2>2 DEF OracleType
  <2>3. ok <=> Coverable(K, mask, k, lo)
    BY <1>5, <2>2 DEF MemoSound
  <2>4. /\ e \in OracleType(K, G) /\ e.memo = o.memo /\ e.budget = o.budget /\ e.stack = s
        /\ e.exhausted = x /\ e.ok = ok
    BY <2>1, <1>0 DEF OracleType
  <2>5. OracleBase(K, G, e)
    BY <2>4, <1>0, <1>5
  <2> QED
    BY <2>3, <2>4, <2>5, <1>0
<1>6. CASE ~o.exhausted /\ mask # {} /\ k # 0 /\ o.nodes + 1 <= o.budget /\ key \notin DOMAIN o.memo
  <2>2. f \in Frame(K, G)
    <3>1. Lowest(G, mask) \in mask
      BY <1>6, SystemFinite, LowestInMask
    <3>2. {c \in Lowest(G, mask) : c >= lo} \in SUBSET K
      BY <3>1 DEF System
    <3> QED
      BY <3>2 DEF Frame
  <2>3. PICK t \in Seq(Frame(K, G)) : t = Append(s, f)
    <3> HIDE DEF f
    <3>1. Append(s, f) \in Seq(Frame(K, G))
      BY <2>2, AppendProperties
    <3> QED
      BY <3>1
  <2>1. e = [budget |-> b, nodes |-> n, exhausted |-> x, memo |-> m, stack |-> t, ok |-> FALSE]
    <3>1. e = [o EXCEPT !.nodes = @ + 1, !.ok = FALSE, !.stack = Append(@, f)]
      BY <1>6 DEF Enter, Answered, OracleType
    <3> HIDE DEF f
    <3> QED
      BY <3>1, <1>0, <2>3 DEF OracleType
  <2>4. /\ e \in OracleType(K, G) /\ e.memo = o.memo /\ e.budget = o.budget /\ e.stack = t
        /\ e.exhausted = x /\ e.ok = FALSE
    BY <2>1, <1>0 DEF OracleType
  <2>5. OracleBase(K, G, e)
    BY <2>4, <1>0, <1>6
  <2>6. Asks(f, mask, k, lo) /\ f.todo = Branches(G, f)
    BY DEF Asks, Branches
  <2> HIDE DEF f
  <2> QED
    BY <2>2, <2>3, <2>4, <2>5, <2>6, <1>0, <1>6 DEF Pushed
<1> QED
  BY <1>1, <1>2, <1>3, <1>4, <1>5, <1>6, <1>0 DEF OracleType

(* The loop of a frame decides its question. *)
LEMMA FrameBranching ==
  ASSUME NEW K, NEW G, System(K, G), NEW f \in Frame(K, G), FrameOK(G, f)
  PROVE  Coverable(K, f.mask, f.k, f.lo) <=> \E c \in Branches(G, f) : ~Refuted(K, f, c)
<1>1. f.mask \in SUBSET G /\ f.mask # {} /\ f.k \in Nat /\ f.k > 0
  BY DEF Frame, FrameOK
<1>2. Lowest(G, f.mask) \in f.mask
  BY <1>1, SystemFinite, LowestInMask
<1>3. f.mask \in SUBSET SUBSET K /\ IsFiniteSet(K)
  BY <1>1 DEF System
<1>4. Coverable(K, f.mask, f.k, f.lo) <=>
        \E c \in Lowest(G, f.mask) : c >= f.lo /\ Coverable(K, Rest(f.mask, c), f.k - 1, f.lo)
  BY <1>1, <1>2, <1>3, Branching
<1> QED
  BY <1>4 DEF Branches, Refuted

(* A question to an oracle that is not at work. *)
LEMMA EnterAsks ==
  ASSUME NEW K, NEW G, System(K, G), NEW o, OracleBase(K, G, o), o.stack = <<>>,
         NEW mask \in SUBSET G, NEW k \in Nat, NEW lo \in Nat
  PROVE  /\ OracleInv(K, G, Enter(G, o, mask, k, lo), mask, k, lo)
         /\ Enter(G, o, mask, k, lo).budget = o.budget
<1> PICK e : e = Enter(G, o, mask, k, lo)
  OBVIOUS
<1>1. /\ OracleBase(K, G, e) /\ e.budget = o.budget
      /\ Replied(K, o, e, mask, k, lo) \/ Pushed(K, G, o, e, mask, k, lo)
  BY EnterAnswers
<1>2. CASE e.stack = o.stack /\ (~e.exhausted => (e.ok <=> Coverable(K, mask, k, lo)))
  <2>1. StackOK(K, G, e.stack)
    BY <1>2 DEF StackOK
  <2> QED
    BY <1>1, <1>2, <2>1 DEF OracleInv
<1>3. CASE /\ mask # {} /\ k > 0 /\ ~e.ok /\ ~e.exhausted
           /\ \E f \in Frame(K, G) : /\ e.stack = Append(o.stack, f)
                                    /\ Asks(f, mask, k, lo) /\ f.todo = Branches(G, f)
  <2>0. PICK f \in Frame(K, G) : /\ e.stack = Append(o.stack, f)
                                 /\ Asks(f, mask, k, lo) /\ f.todo = Branches(G, f)
    BY <1>3
  <2>1. e.stack = <<f>> /\ Len(e.stack) = 1 /\ e.stack[1] = f /\ e.stack # <<>>
    BY <2>0
  <2>2. f.mask = mask /\ f.k = k /\ f.lo = lo /\ f.todo = Branches(G, f)
    BY <2>0 DEF Asks
  <2>3. FrameOK(G, f)
    BY <2>2, <1>3 DEF FrameOK
  <2>4. StackOK(K, G, e.stack)
    <3>1. ASSUME NEW i \in 1..Len(e.stack) PROVE e.stack[i] = f
      <4>1. i = 1
        BY <2>1
      <4> QED
        BY <4>1, <2>1
    <3>2. 1..(Len(e.stack) - 1) = {}
      BY <2>1
    <3> QED
      BY <3>1, <3>2, <2>3 DEF StackOK
  <2>5. Top(e) = f
    BY <2>1 DEF Top
  <2>6. Informed(K, G, f, e)
    BY <2>2, <1>3 DEF Informed
  <2> QED
    BY <1>1, <2>1, <2>2, <2>4, <2>5, <2>6 DEF OracleInv, Asks
<1> QED
  BY <1>1, <1>2, <1>3 DEF Replied, Pushed

(* The next candidate of the loop is tried. *)
LEMMA TryKeeps ==
  ASSUME NEW K, NEW G, System(K, G), NEW o, NEW qm, NEW qk, NEW ql,
         OracleInv(K, G, o, qm, qk, ql), o.stack # <<>>, Trying(o)
  PROVE  /\ OracleInv(K, G, Try(G, o), qm, qk, ql)
         /\ Try(G, o).budget = o.budget
<1>1. o \in OracleType(K, G) /\ OracleBase(K, G, o)
  BY DEF OracleInv, OracleBase
<1>2. PICK s \in Seq(Frame(K, G)) : s = o.stack
  BY <1>1 DEF OracleType
<1>3. PICK n \in Nat \ {0} : n = Len(s)
  BY <1>2
<1>4. PICK top \in Frame(K, G) : top = s[n] /\ top = Top(o)
  <2>1. s[n] \in Frame(K, G)
    BY <1>3
  <2> QED
    BY <1>2, <1>3, <2>1 DEF Top
<1>5. top.mask \in SUBSET G /\ top.k \in Nat /\ top.lo \in Nat /\ top.todo \in SUBSET K
  BY DEF Frame
<1>6. FrameOK(G, top) /\ ~o.ok /\ ~o.exhausted /\ top.todo # {}
  <2>1. StackOK(K, G, s)
    BY <1>2 DEF OracleInv
  <2>2. n \in 1..Len(s)
    BY <1>3
  <2> QED
    BY <2>1, <2>2, <1>4 DEF StackOK, Trying
<1>7. PICK c \in top.todo : c = Min(top.todo)
  BY <1>5, <1>6, MinIsLeast DEF System
<1>8. c \in Branches(G, top)
  BY <1>6, <1>7 DEF FrameOK
<1>9. PICK t \in Frame(K, G) : t = [top EXCEPT !.todo = @ \ {c}]
  BY DEF Frame
<1>10. t.mask = top.mask /\ t.k = top.k /\ t.lo = top.lo /\ t.todo = top.todo \ {c}
  BY <1>9 DEF Frame
<1>11. PICK u \in Seq(Frame(K, G)) :
         /\ u = [s EXCEPT ![n] = t] /\ Len(u) = n /\ u[n] = t
         /\ \A i \in 1..(n - 1) : u[i] = s[i]
  <2> DEFINE u == [s EXCEPT ![n] = t]
  <2>1. u \in Seq(Frame(K, G)) /\ Len(u) = Len(s)
    BY <1>3, ExceptSeq
  <2>2. u[n] = t /\ \A i \in 1..(n - 1) : u[i] = s[i]
    BY <1>3
  <2> HIDE DEF u
  <2> QED
    BY <2>1, <2>2, <1>3 DEF u
<1>12. PICK d : d = [o EXCEPT !.stack = u]
  OBVIOUS
<1>13. OracleBase(K, G, d) /\ d.stack = u /\ d.budget = o.budget
  <2>1. d \in OracleType(K, G) /\ d.stack = u /\ d.budget = o.budget /\ d.memo = o.memo
        /\ d.nodes = o.nodes /\ d.exhausted = o.exhausted /\ d.ok = o.ok
    BY <1>12, <1>1 DEF OracleType
  <2> QED
    BY <2>1, <1>1 DEF OracleBase
<1>14. PICK mask \in SUBSET G, k \in Nat, lo \in Nat :
         mask = Rest(top.mask, c) /\ k = top.k - 1 /\ lo = top.lo
  <2>1. Rest(top.mask, c) \in SUBSET G
    BY <1>5 DEF Rest
  <2>2. top.k - 1 \in Nat
    BY <1>5, <1>6 DEF FrameOK
  <2> QED
    BY <2>1, <2>2, <1>5
<1>15. PICK e : e = Enter(G, d, mask, k, lo)
  OBVIOUS
<1>16. Try(G, o) = e
  <2>1. [o EXCEPT !.stack[Len(o.stack)].todo = @ \ {c}] = d
    BY <1>12, <1>11, <1>9, <1>2, <1>3, <1>4, <1>1 DEF OracleType
  <2> QED
    BY <2>1, <1>15, <1>14, <1>7, <1>4 DEF Try
<1>18. /\ OracleBase(K, G, e) /\ e.budget = d.budget
       /\ Replied(K, d, e, mask, k, lo) \/ Pushed(K, G, d, e, mask, k, lo)
  <2>1. OracleBase(K, G, d)
    BY <1>13
  <2> QED
    BY <2>1, <1>15, EnterAnswers
(* The frames below the innermost are as before. *)
<1>19. FrameOK(G, t) /\ Branches(G, t) = Branches(G, top)
  BY <1>6, <1>10 DEF FrameOK, Branches
<1>20. StackOK(K, G, u)
  <2>0. StackOK(K, G, s)
    BY <1>2 DEF OracleInv
  <2>1. ASSUME NEW i \in 1..Len(u) PROVE FrameOK(G, u[i])
    <3>1. CASE i = n
      BY <3>1, <1>19, <1>11
    <3>2. CASE i # n
      <4>0. Len(u) = n /\ Len(s) = n
        BY <1>11, <1>3
      <4>1. i \in 1..(n - 1) /\ i \in 1..Len(s)
        BY <3>2, <4>0
      <4> QED
        BY <4>1, <2>0, <1>11 DEF StackOK
    <3> QED
      BY <3>1, <3>2
  <2>2. ASSUME NEW i \in 1..(Len(u) - 1) PROVE Waits(K, G, u[i], u[i + 1])
    <3>1. i \in 1..(n - 1) /\ i \in 1..(Len(s) - 1)
      BY <1>11, <1>3
    <3>2. Waits(K, G, s[i], s[i + 1]) /\ u[i] = s[i]
      BY <3>1, <2>0, <1>11 DEF StackOK
    <3>3. CASE i + 1 = n
      <4>1. s[i + 1] = top /\ u[i + 1] = t
        BY <3>3, <1>11, <1>4
      <4>2. t.k = top.k /\ t.lo = top.lo /\ t.mask = top.mask
        BY <1>10
      <4>3. Waits(K, G, s[i], top) => Waits(K, G, s[i], t)
        BY <4>2 DEF Waits
      <4> QED
        BY <3>2, <4>1, <4>3
    <3>4. CASE i + 1 # n
      <4>1. i + 1 \in 1..(n - 1)
        BY <3>4, <3>1
      <4> QED
        BY <4>1, <3>2, <1>11
    <3> QED
      BY <3>3, <3>4
  <2> QED
    BY <2>1, <2>2 DEF StackOK
<1>21. Asks(u[1], qm, qk, ql)
  <2>0. Asks(s[1], qm, qk, ql)
    BY <1>2 DEF OracleInv
  <2>1. CASE n = 1
    BY <2>1, <2>0, <1>4, <1>10, <1>11 DEF Asks
  <2>2. CASE n # 1
    <3>1. 1 \in 1..(n - 1)
      BY <2>2
    <3> QED
      BY <3>1, <2>0, <1>11
  <2> QED
    BY <2>1, <2>2
<1>22. \A b \in Branches(G, top) \ top.todo : Refuted(K, top, b)
  BY <1>2, <1>4, <1>6 DEF OracleInv, Informed
<1>23. Refuted(K, t, c) <=> ~Coverable(K, mask, k, lo)
  BY <1>10, <1>14 DEF Refuted
<1>24. CASE e.stack = d.stack /\ (~e.exhausted => (e.ok <=> Coverable(K, mask, k, lo)))
  <2>1. e.stack = u /\ e.stack # <<>> /\ Top(e) = t
    <3>1. e.stack = u
      BY <1>24, <1>13
    <3> QED
      BY <3>1, <1>11 DEF Top
  <2>2. Informed(K, G, t, e)
    <3>1. CASE e.exhausted
      BY <3>1 DEF Informed
    <3>2. CASE ~e.exhausted /\ e.ok
      <4>1. ~Refuted(K, t, c) /\ c \in Branches(G, t)
        BY <3>2, <1>24, <1>23, <1>19, <1>8
      <4>2. Coverable(K, t.mask, t.k, t.lo)
        BY <4>1, <1>19, FrameBranching
      <4> QED
        BY <3>2, <4>2 DEF Informed
    <3>3. CASE ~e.exhausted /\ ~e.ok
      <4>1. Refuted(K, t, c)
        BY <3>3, <1>24, <1>23
      <4>2. \A b \in Branches(G, t) \ t.todo : Refuted(K, t, b)
        BY <4>1, <1>19, <1>10, <1>22 DEF Refuted
      <4> QED
        BY <3>3, <4>2 DEF Informed
    <3> QED
      BY <3>1, <3>2, <3>3
  <2> QED
    BY <2>1, <2>2, <1>16, <1>18, <1>13, <1>20, <1>21 DEF OracleInv
<1>25. CASE /\ mask # {} /\ k > 0 /\ ~e.ok /\ ~e.exhausted
            /\ \E f \in Frame(K, G) : /\ e.stack = Append(d.stack, f)
                                     /\ Asks(f, mask, k, lo) /\ f.todo = Branches(G, f)
  <2>0. PICK f \in Frame(K, G) : /\ e.stack = Append(d.stack, f)
                                 /\ Asks(f, mask, k, lo) /\ f.todo = Branches(G, f)
    BY <1>25
  <2>1. PICK v \in Seq(Frame(K, G)) : v = Append(u, f)
    <3>1. Append(u, f) \in Seq(Frame(K, G))
      BY AppendProperties
    <3> QED
      BY <3>1
  <2>2. Len(v) = n + 1 /\ v[n + 1] = f /\ \A i \in 1..n : v[i] = u[i]
    BY <2>1, <1>11, AppendProperties
  <2>3. e.stack = v /\ Top(e) = f /\ v # <<>> /\ v[1] = u[1]
    <3>1. e.stack = v
      BY <2>1, <2>0, <1>13
    <3>2. 1 \in 1..n
      OBVIOUS
    <3> QED
      BY <3>1, <3>2, <2>2 DEF Top
  <2>4. f.mask = mask /\ f.k = k /\ f.lo = lo /\ f.todo = Branches(G, f)
    BY <2>0 DEF Asks
  <2>5. FrameOK(G, f)
    BY <2>4, <1>25 DEF FrameOK
  <2>6. Waits(K, G, t, f)
    <3>1. f.k = t.k - 1 /\ f.lo = t.lo
      BY <2>4, <1>14, <1>10
    <3>2. Rest(t.mask, c) = f.mask /\ c \in Branches(G, t)
      BY <2>4, <1>14, <1>10, <1>19, <1>8
    <3>3. \A b \in Branches(G, t) \ t.todo : Refuted(K, t, b) \/ b = c
      BY <1>19, <1>10, <1>22 DEF Refuted
    <3> QED
      BY <3>1, <3>2, <3>3 DEF Waits
  <2>7. StackOK(K, G, v)
    <3>1. ASSUME NEW i \in 1..Len(v) PROVE FrameOK(G, v[i])
      <4>1. CASE i = n + 1
        BY <4>1, <2>2, <2>5
      <4>2. CASE i # n + 1
        <5>1. i \in 1..n
          BY <4>2, <2>2
        <5> QED
          BY <5>1, <2>2, <1>20, <1>11 DEF StackOK
      <4> QED
        BY <4>1, <4>2
    <3>2. ASSUME NEW i \in 1..(Len(v) - 1) PROVE Waits(K, G, v[i], v[i + 1])
      <4>0. i \in 1..n
        BY <2>2
      <4>1. CASE i = n
        BY <4>1, <2>2, <2>6, <1>11
      <4>2. CASE i # n
        <5>1. i \in 1..(Len(u) - 1) /\ i + 1 \in 1..n
          BY <4>0, <4>2, <1>11
        <5>2. v[i] = u[i] /\ v[i + 1] = u[i + 1]
          BY <4>0, <5>1, <2>2
        <5> QED
          BY <5>1, <5>2, <1>20 DEF StackOK
      <4> QED
        BY <4>1, <4>2
    <3> QED
      BY <3>1, <3>2 DEF StackOK
  <2>8. Informed(K, G, f, e)
    BY <2>4, <1>25 DEF Informed
  <2> QED
    BY <2>3, <2>7, <2>8, <1>16, <1>18, <1>13, <1>21 DEF OracleInv
<1> QED
  BY <1>18, <1>24, <1>25 DEF Replied, Pushed

(* An answer that is right may be kept. *)
LEMMA MemoKeeps ==
  ASSUME NEW K, NEW G, NEW memo \in Memo(G), MemoSound(K, memo), NEW mask \in SUBSET G,
         NEW k \in Nat, NEW lo \in Nat, NEW ok \in BOOLEAN, ok <=> Coverable(K, mask, k, lo)
  PROVE  /\ Memoized(memo, <<mask, k, lo>>, ok) \in Memo(G)
         /\ MemoSound(K, Memoized(memo, <<mask, k, lo>>, ok))
<1>1. PICK D \in SUBSET Key(G) : memo \in [D -> BOOLEAN]
  BY DEF Memo
<1>2. PICK key \in Key(G) : key = <<mask, k, lo>>
  BY KeyType
<1>3. key[1] = mask /\ key[2] = k /\ key[3] = lo
  BY <1>2
<1>4. PICK new : new = Memoized(memo, key, ok)
  OBVIOUS
<1>5. new = [m \in D \cup {key} |-> IF m = key THEN ok ELSE memo[m]]
  BY <1>1, <1>4 DEF Memoized
<1>6. new \in [D \cup {key} -> BOOLEAN] /\ D \cup {key} \in SUBSET Key(G)
  BY <1>1, <1>5
<1>7. new \in Memo(G)
  BY <1>6 DEF Memo
<1>8. ASSUME NEW m \in DOMAIN new PROVE new[m] <=> Coverable(K, m[1], m[2], m[3])
  <2>1. CASE m = key
    BY <2>1, <1>3, <1>5
  <2>2. CASE m # key
    <3>1. m \in DOMAIN memo /\ new[m] = memo[m]
      BY <2>2, <1>1, <1>5
    <3> QED
      BY <3>1 DEF MemoSound
  <2> QED
    BY <2>1, <2>2
<1> QED
  BY <1>2, <1>4, <1>7, <1>8 DEF MemoSound

(* The innermost call returns: its answer is right when the budget was not exhausted, and
   the frame that waits for it is informed. *)
LEMMA ReturnKeeps ==
  ASSUME NEW K, NEW G, System(K, G), NEW o, NEW qm, NEW qk, NEW ql,
         OracleInv(K, G, o, qm, qk, ql), o.stack # <<>>, ~Trying(o)
  PROVE  /\ OracleInv(K, G, Return(o), qm, qk, ql)
         /\ Return(o).budget = o.budget
<1>1. o \in OracleType(K, G) /\ OracleBase(K, G, o)
  BY DEF OracleInv, OracleBase
<1>2. PICK s \in Seq(Frame(K, G)) : s = o.stack
  BY <1>1 DEF OracleType
<1>3. PICK n \in Nat \ {0} : n = Len(s)
  BY <1>2
<1>4. PICK top \in Frame(K, G) : top = s[n] /\ top = Top(o)
  <2>1. s[n] \in Frame(K, G)
    BY <1>3
  <2> QED
    BY <1>2, <1>3, <2>1 DEF Top
<1>5. top.mask \in SUBSET G /\ top.k \in Nat /\ top.lo \in Nat
  BY DEF Frame
<1>6. StackOK(K, G, s) /\ FrameOK(G, top)
  <2>1. StackOK(K, G, s)
    BY <1>2 DEF OracleInv
  <2>2. n \in 1..Len(s)
    BY <1>3
  <2> QED
    BY <2>1, <2>2, <1>4 DEF StackOK
(* The answer is that of the innermost frame. *)
<1>7. ASSUME ~o.exhausted PROVE o.ok <=> Coverable(K, top.mask, top.k, top.lo)
  <2>1. Informed(K, G, top, o)
    BY <1>2, <1>4 DEF OracleInv
  <2>2. CASE o.ok
    BY <2>1, <2>2, <1>7 DEF Informed
  <2>3. CASE ~o.ok
    <3>1. top.todo = {}
      BY <2>3, <1>7, <1>4 DEF Trying
    <3>2. \A c \in Branches(G, top) : Refuted(K, top, c)
      BY <2>1, <2>3, <1>7, <3>1 DEF Informed
    <3> QED
      BY <3>2, <2>3, <1>6, FrameBranching
  <2> QED
    BY <2>2, <2>3
<1>8. PICK m \in Memo(G) : /\ MemoSound(K, m)
                           /\ m = IF o.exhausted THEN o.memo
                                  ELSE Memoized(o.memo, <<top.mask, top.k, top.lo>>, o.ok)
  <2>1. o.memo \in Memo(G) /\ MemoSound(K, o.memo) /\ o.ok \in BOOLEAN
    BY <1>1 DEF OracleType, OracleBase
  <2>2. CASE o.exhausted
    BY <2>1, <2>2
  <2>3. CASE ~o.exhausted
    <3>1. /\ Memoized(o.memo, <<top.mask, top.k, top.lo>>, o.ok) \in Memo(G)
          /\ MemoSound(K, Memoized(o.memo, <<top.mask, top.k, top.lo>>, o.ok))
      BY <2>1, <2>3, <1>5, <1>7, MemoKeeps
    <3> QED
      BY <3>1, <2>3
  <2> QED
    BY <2>2, <2>3
<1>9. PICK u \in Seq(Frame(K, G)) :
        u = SubSeq(s, 1, n - 1) /\ Len(u) = n - 1 /\ \A i \in 1..(n - 1) : u[i] = s[i]
  <2>1. PICK a \in Int, b \in Int : a = 1 /\ b = n - 1
    OBVIOUS
  <2>2. a \in 1..(Len(s) + 1) /\ b \in (a - 1)..Len(s)
    BY <2>1, <1>3
  <2>3. SubSeq(s, a, b) \in Seq(Frame(K, G)) /\ Len(SubSeq(s, a, b)) = b - a + 1
        /\ \A i \in 1..(b - a + 1) : SubSeq(s, a, b)[i] = s[a + i - 1]
    BY <2>1, <2>2, SubSeqProperties
  <2>4. PICK u \in Seq(Frame(K, G)) : u = SubSeq(s, a, b)
    BY <2>3
  <2>5. Len(u) = n - 1
    BY <2>1, <2>3, <2>4
  <2>6. ASSUME NEW i \in 1..(n - 1) PROVE u[i] = s[i]
    <3>1. i \in 1..(b - a + 1) /\ a + i - 1 = i
      BY <2>1
    <3> QED
      BY <3>1, <2>3, <2>4
  <2> QED
    BY <2>1, <2>4, <2>5, <2>6
<1>10. PICK e : e = [o EXCEPT !.stack = u, !.memo = m]
  OBVIOUS
<1>11. Return(o) = e
  BY <1>10, <1>9, <1>8, <1>2, <1>3, <1>4, <1>1 DEF Return, OracleType
<1>12. OracleBase(K, G, e) /\ e.stack = u /\ e.budget = o.budget /\ e.ok = o.ok
       /\ e.exhausted = o.exhausted
  <2>1. e \in OracleType(K, G) /\ e.stack = u /\ e.budget = o.budget /\ e.memo = m
        /\ e.nodes = o.nodes /\ e.exhausted = o.exhausted /\ e.ok = o.ok
    BY <1>10, <1>1 DEF OracleType
  <2> QED
    BY <2>1, <1>1, <1>8 DEF OracleBase
<1>13. StackOK(K, G, u)
  <2>1. ASSUME NEW i \in 1..Len(u) PROVE FrameOK(G, u[i])
    <3>0. Len(u) = n - 1 /\ Len(s) = n
      BY <1>9, <1>3
    <3>1. i \in 1..(n - 1) /\ i \in 1..Len(s)
      BY <3>0
    <3> QED
      BY <3>1, <1>9, <1>6 DEF StackOK
  <2>2. ASSUME NEW i \in 1..(Len(u) - 1) PROVE Waits(K, G, u[i], u[i + 1])
    <3>0. Len(u) = n - 1 /\ Len(s) = n
      BY <1>9, <1>3
    <3>1. i \in 1..(n - 1) /\ i + 1 \in 1..(n - 1) /\ i \in 1..(Len(s) - 1)
      BY <3>0
    <3>2. u[i] = s[i] /\ u[i + 1] = s[i + 1]
      BY <3>1, <1>9
    <3> QED
      BY <3>1, <3>2, <1>6 DEF StackOK
  <2> QED
    BY <2>1, <2>2 DEF StackOK
<1>14. Asks(s[1], qm, qk, ql)
  BY <1>2 DEF OracleInv
<1>15. CASE n = 1
  <2>1. u = <<>>
    BY <1>15, <1>9
  <2>2. top.mask = qm /\ top.k = qk /\ top.lo = ql
    BY <1>15, <1>14, <1>4 DEF Asks
  <2>3. ~e.exhausted => (e.ok <=> Coverable(K, qm, qk, ql))
    BY <2>2, <1>12, <1>7
  <2> QED
    BY <2>1, <2>3, <1>11, <1>12, <1>13 DEF OracleInv
<1>16. CASE n # 1
  <2>1. n - 1 \in 1..(n - 1) /\ 1 \in 1..(n - 1) /\ n - 1 \in 1..(Len(s) - 1) /\ n - 1 \in 1..Len(s)
        /\ (n - 1) + 1 = n
    BY <1>16, <1>3
  <2>2. PICK f \in Frame(K, G) : f = s[n - 1]
    BY <2>1
  <2>3. FrameOK(G, f) /\ Waits(K, G, f, top)
    BY <2>1, <2>2, <1>4, <1>6 DEF StackOK
  <2>4. e.stack = u /\ e.stack # <<>> /\ Top(e) = f /\ u[1] = s[1]
    <3>1. u[n - 1] = s[n - 1] /\ u[1] = s[1] /\ Len(u) = n - 1
      BY <2>1, <1>9
    <3>2. u # <<>>
      BY <3>1, <1>16
    <3> QED
      BY <3>1, <3>2, <2>2, <1>12 DEF Top
  <2>5. Informed(K, G, f, e)
    <3>1. CASE o.exhausted
      BY <3>1, <1>12 DEF Informed
    <3>2. CASE ~o.exhausted /\ o.ok
      <4>1. PICK c \in Branches(G, f) : Rest(f.mask, c) = top.mask
        BY <2>3 DEF Waits
      <4>2. ~Refuted(K, f, c)
        BY <4>1, <3>2, <1>7, <2>3 DEF Refuted, Waits
      <4>3. Coverable(K, f.mask, f.k, f.lo)
        BY <4>1, <4>2, <2>3, FrameBranching
      <4> QED
        BY <4>3, <3>2, <1>12 DEF Informed
    <3>3. CASE ~o.exhausted /\ ~o.ok
      <4>1. ASSUME NEW c \in Branches(G, f) \ f.todo PROVE Refuted(K, f, c)
        <5>1. ~Coverable(K, top.mask, top.k, top.lo) /\ top.k = f.k - 1 /\ top.lo = f.lo
          BY <3>3, <1>7, <2>3 DEF Waits
        <5>2. Refuted(K, f, c) \/ Rest(f.mask, c) = top.mask
          BY <2>3 DEF Waits
        <5> QED
          BY <5>1, <5>2 DEF Refuted
      <4> QED
        BY <4>1, <3>3, <1>12 DEF Informed
    <3> QED
      BY <3>1, <3>2, <3>3
  <2> QED
    BY <2>4, <2>5, <1>11, <1>12, <1>13, <1>14 DEF OracleInv
<1> QED
  BY <1>15, <1>16

-----------------------------------------------------------------------------
(* The covers of size k, which are the minima when no cover is smaller. *)
CoversOf(K, G, k) == {H \in SUBSET K : Cardinality(H) = k /\ Uncovered(G, H) = {}}

NoSmaller(K, G, k) == \A H \in SUBSET K : Uncovered(G, H) = {} => Cardinality(H) >= k

(* The enumerator at `cur' and `n' has left H behind: H agrees with cur below one of
   its elements, which the enumerator has passed and not taken. *)
Agree(H, cur, d) == \A x \in H \cup cur : x < d => x \in H /\ x \in cur

Passed(M, cur, n) == {H \in M : \E d \in H \ cur : d < n /\ Agree(H, cur, d)}

(* The covers that agree with cur below m and contain m. *)
Within(M, cur, m) == {H \in M : m \in H /\ Agree(H, cur, m)}

(* A position of the enumerator, and the last candidate it has taken. *)
Position(K, M, cur, n) ==
  /\ K \subseteq Nat /\ M \subseteq SUBSET K /\ cur \in SUBSET K /\ n \in Nat
  /\ \A x \in cur : x < n

LastTaken(cur, m) == m \in cur /\ \A x \in cur : x <= m

(* How each move of the enumerator changes what it has passed: back to the caller, past a
   candidate that leads to no cover, on to a candidate that is taken. *)
LEMMA PassedBack ==
  ASSUME NEW K, NEW M, NEW cur, NEW n, Position(K, M, cur, n), NEW m, LastTaken(cur, m)
  PROVE  Passed(M, cur \ {m}, m + 1)
           = Passed(M, cur, n) \cup Within(M, cur, m)
<1> USE DEF Position, LastTaken
<1>1. ASSUME NEW H \in M, NEW d \in H \ cur, d < n, Agree(H, cur, d)
      PROVE  \E b \in H \ (cur \ {m}) : b < m + 1 /\ Agree(H, cur \ {m}, b)
  <2>0. d \in Nat /\ m \in Nat /\ d # m /\ \A x \in H \cup cur : x \in Nat
    BY <1>1
  <2>1. CASE d < m
    <3>1. d \in H \ (cur \ {m}) /\ d < m + 1
      BY <2>0, <2>1, <1>1
    <3>2. Agree(H, cur \ {m}, d)
      BY <2>0, <2>1, <1>1 DEF Agree
    <3> QED
      BY <3>1, <3>2
  <2>2. CASE d > m
    <3>1. m \in H \ (cur \ {m}) /\ m < m + 1
      BY <2>0, <2>2, <1>1 DEF Agree
    <3>2. Agree(H, cur \ {m}, m)
      <4> SUFFICES ASSUME NEW x \in H \cup (cur \ {m}), x < m PROVE x \in H /\ x \in cur \ {m}
        BY DEF Agree
      <4>1. x < d /\ x # m
        BY <2>0, <2>2
      <4> QED
        BY <4>1, <1>1 DEF Agree
    <3> QED
      BY <3>1, <3>2
  <2>3. d < m \/ d > m
    BY <2>0
  <2> QED
    BY <2>1, <2>2, <2>3
<1>2. ASSUME NEW H \in M, m \in H, Agree(H, cur, m)
      PROVE  \E b \in H \ (cur \ {m}) : b < m + 1 /\ Agree(H, cur \ {m}, b)
  <2>0. m \in Nat /\ \A x \in H \cup cur : x \in Nat
    BY <1>2
  <2>1. m \in H \ (cur \ {m}) /\ m < m + 1
    BY <2>0, <1>2
  <2>2. Agree(H, cur \ {m}, m)
    BY <2>0, <1>2 DEF Agree
  <2> QED
    BY <2>1, <2>2
<1>3. ASSUME NEW H \in M, NEW b \in H \ (cur \ {m}), b < m + 1, Agree(H, cur \ {m}, b)
      PROVE  \/ m \in H /\ Agree(H, cur, m)
             \/ \E d \in H \ cur : d < n /\ Agree(H, cur, d)
  <2>0. b \in Nat /\ m \in Nat /\ \A x \in H \cup cur : x \in Nat
    BY <1>3
  <2>1. CASE b = m
    <3>1. Agree(H, cur, m)
      BY <2>0, <2>1, <1>3 DEF Agree
    <3> QED
      BY <2>1, <3>1, <1>3
  <2>2. CASE b # m
    <3>1. b < m /\ b < n /\ b \in H \ cur
      BY <2>0, <2>2, <1>3
    <3>2. Agree(H, cur, b)
      <4> SUFFICES ASSUME NEW x \in H \cup cur, x < b PROVE x \in H /\ x \in cur
        BY DEF Agree
      <4>1. x # m
        BY <2>0, <3>1
      <4> QED
        BY <4>1, <1>3 DEF Agree
    <3> QED
      BY <3>1, <3>2
  <2> QED
    BY <2>1, <2>2
<1>4. Passed(M, cur, n) \cup Within(M, cur, m) \subseteq Passed(M, cur \ {m}, m + 1)
  BY <1>1, <1>2 DEF Passed, Within
<1>5. Passed(M, cur \ {m}, m + 1) \subseteq Passed(M, cur, n) \cup Within(M, cur, m)
  BY <1>3 DEF Passed, Within
<1> QED
  BY <1>4, <1>5

(* c is the next candidate at n. *)
Nearest(K, n, c) == c \in K /\ c >= n /\ \A x \in K : x >= n => x >= c

(* Stepping over a candidate passes nothing if no cover goes through it. *)
LEMMA PassedSkip ==
  ASSUME NEW K, NEW M, NEW cur, NEW n, Position(K, M, cur, n), NEW c, Nearest(K, n, c),
         Within(M, cur, c) = {}
  PROVE  Passed(M, cur, c + 1) = Passed(M, cur, n)
<1> USE DEF Position
<1>0. c \in Nat /\ c >= n
  BY DEF Nearest
<1>1. ASSUME NEW H \in M, NEW d \in H \ cur, d < c + 1, Agree(H, cur, d) PROVE d < n
  <2>1. d \in K /\ d \in Nat
    BY <1>1
  <2>2. d # c
    BY <1>1 DEF Within
  <2>3. d < c
    BY <2>1, <2>2, <1>0, <1>1
  <2> QED
    BY <2>1, <2>3, <1>0 DEF Nearest
<1>2. ASSUME NEW H \in M, NEW d \in H \ cur, d < n PROVE d < c + 1
  <2>1. d \in Nat
    BY <1>2
  <2> QED
    BY <2>1, <1>2, <1>0
<1> QED
  BY <1>1, <1>2 DEF Passed

(* Taking a candidate passes nothing. *)
LEMMA PassedPush ==
  ASSUME NEW K, NEW M, NEW cur, NEW n, Position(K, M, cur, n), NEW c, Nearest(K, n, c)
  PROVE  Passed(M, cur \cup {c}, c + 1) = Passed(M, cur, n)
<1> USE DEF Position
<1>0. c \in Nat /\ c >= n
  BY DEF Nearest
<1>1. ASSUME NEW H \in M, NEW d \in H \ (cur \cup {c}), d < c + 1, Agree(H, cur \cup {c}, d)
      PROVE  d \in H \ cur /\ d < n /\ Agree(H, cur, d)
  <2>1. d \in K /\ d \in Nat /\ d # c /\ \A x \in H \cup cur : x \in Nat
    BY <1>1
  <2>2. d < c
    BY <2>1, <1>0, <1>1
  <2>3. d < n
    BY <2>1, <2>2, <1>0 DEF Nearest
  <2>4. Agree(H, cur, d)
    BY <2>1, <2>2, <1>0, <1>1 DEF Agree
  <2> QED
    BY <2>1, <2>3, <2>4, <1>1
<1>2. ASSUME NEW H \in M, NEW d \in H \ cur, d < n, Agree(H, cur, d)
      PROVE  d \in H \ (cur \cup {c}) /\ d < c + 1 /\ Agree(H, cur \cup {c}, d)
  <2>1. d \in Nat /\ d # c /\ d < c + 1 /\ ~(c < d)
    <3>1. d \in Nat
      BY <1>2
    <3> QED
      BY <3>1, <1>0, <1>2
  <2>2. Agree(H, cur \cup {c}, d)
    BY <2>1, <1>2 DEF Agree
  <2> QED
    BY <2>1, <2>2, <1>2
<1> QED
  BY <1>1, <1>2 DEF Passed

(* A cover that agrees with cur up to m extends it. *)
LEMMA Extends ==
  ASSUME NEW K, K \subseteq Nat, NEW H \in SUBSET K, NEW cur \in SUBSET K, NEW c \in Nat,
         Agree(H, cur, c), \A x \in cur : x < c
  PROVE  cur \subseteq H /\ \A x \in H \ cur : x >= c
  BY DEF Agree

(* A candidate that covers nothing new is in no minimum that extends cur. *)
LEMMA SkipUseless ==
  ASSUME NEW K, NEW G, System(K, G), NEW k \in Nat, NoSmaller(K, G, k), NEW cur \in SUBSET K,
         NEW c \in K, \A x \in cur : x < c, Rest(Uncovered(G, cur), c) = Uncovered(G, cur)
  PROVE  Within(CoversOf(K, G, k), cur, c) = {}
<1> SUFFICES ASSUME NEW H \in CoversOf(K, G, k), c \in H, Agree(H, cur, c) PROVE FALSE
  BY DEF Within
<1>1. H \in SUBSET K /\ Cardinality(H) = k /\ Uncovered(G, H) = {} /\ c \in Nat /\ K \subseteq Nat
  BY DEF CoversOf, System
<1>2. cur \subseteq H /\ c \notin cur
  <2>1. cur \subseteq H
    BY <1>1, Extends
  <2>2. c \notin cur
    BY <1>1
  <2> QED
    BY <2>1, <2>2
<1>3. Uncovered(G, H \ {c}) = {}
  <2> SUFFICES ASSUME NEW S \in G, S \cap (H \ {c}) = {} PROVE FALSE
    BY DEF Uncovered
  <2>1. S \cap cur = {}
    BY <1>2
  <2>2. S \in Rest(Uncovered(G, cur), c)
    BY <2>1 DEF Uncovered
  <2>3. c \notin S
    BY <2>2 DEF Rest
  <2> QED
    BY <2>3, <1>1 DEF Uncovered
<1>4. IsFiniteSet(H)
  BY <1>1, FS_Subset DEF System
<1>5. Cardinality(H \ {c}) = k - 1
  BY <1>1, <1>4, FS_RemoveElement
<1>6. Cardinality(H \ {c}) >= k
  BY <1>1, <1>3 DEF NoSmaller
<1> QED
  BY <1>5, <1>6

(* Nor is one of which the oracle says that no cover follows. *)
LEMMA SkipRefuted ==
  ASSUME NEW K, NEW G, System(K, G), NEW k \in Nat, NEW cur \in SUBSET K,
         NEW c \in K, \A x \in cur : x < c,
         ~Coverable(K, Rest(Uncovered(G, cur), c), k - Cardinality(cur) - 1, c + 1)
  PROVE  Within(CoversOf(K, G, k), cur, c) = {}
<1> SUFFICES ASSUME NEW H \in CoversOf(K, G, k), c \in H, Agree(H, cur, c) PROVE FALSE
  BY DEF Within
<1>1. H \in SUBSET K /\ Cardinality(H) = k /\ Uncovered(G, H) = {} /\ c \in Nat /\ K \subseteq Nat
  BY DEF CoversOf, System
<1>2. cur \subseteq H /\ c \notin cur /\ \A x \in H \ cur : x >= c
  <2>1. cur \subseteq H /\ \A x \in H \ cur : x >= c
    BY <1>1, Extends
  <2>2. c \notin cur
    BY <1>1
  <2> QED
    BY <2>1, <2>2
<1>3. IsFiniteSet(H) /\ IsFiniteSet(cur) /\ IsFiniteSet(H \ cur) /\ Cardinality(cur) \in Nat
  BY <1>1, FS_Subset, FS_CardinalityType DEF System
<1>4. Cardinality(H \ cur) = k - Cardinality(cur)
  <2>1. H \cap cur = cur
    BY <1>2
  <2> QED
    BY <2>1, <1>1, <1>3, FS_Difference
<1> DEFINE D == (H \ cur) \ {c}
<1>5. Cardinality(D) = k - Cardinality(cur) - 1
  BY <1>2, <1>3, <1>4, FS_RemoveElement
<1>6. D \in SUBSET {x \in K : x >= c + 1}
  <2>1. ASSUME NEW x \in D PROVE x \in K /\ x >= c + 1
    <3>1. x \in Nat /\ x >= c /\ x # c
      BY <1>1, <1>2
    <3> QED
      BY <3>1, <1>1
  <2> QED
    BY <2>1
<1>7. Uncovered(Rest(Uncovered(G, cur), c), D) = {}
  <2> SUFFICES ASSUME NEW S \in G, S \cap cur = {}, c \notin S, S \cap D = {} PROVE FALSE
    BY DEF Uncovered, Rest
  <2>1. S \cap H = {}
    OBVIOUS
  <2> QED
    BY <2>1, <1>1 DEF Uncovered
<1>8. Cardinality(D) <= k - Cardinality(cur) - 1
  BY <1>1, <1>3, <1>5
<1> HIDE DEF D
<1> QED
  BY <1>6, <1>7, <1>8 DEF Coverable

EnumType(K) ==
  [current : SUBSET K, next : Nat, nodes : Nat, budget : Nat, found : Nat, first : SUBSET K,
   truncated : BOOLEAN]

(* The enumerator has counted exactly the covers that it has passed, and the first
   it found is the least of all. *)
EnumInv(K, G, k, e) ==
  /\ e \in EnumType(K)
  /\ \A x \in e.current : x < e.next
  /\ Cardinality(e.current) <= k
  /\ e.found = Cardinality(Passed(CoversOf(K, G, k), e.current, e.next))
  /\ e.found > 0 => LexLeast(e.first, CoversOf(K, G, k))

(* The covers of one size are finitely many: those passed can be counted. *)
LEMMA CoversFinite ==
  ASSUME NEW K, NEW G, System(K, G), NEW k \in Nat
  PROVE  /\ IsFiniteSet(CoversOf(K, G, k))
         /\ CoversOf(K, G, k) \subseteq SUBSET K
         /\ \A P \in SUBSET CoversOf(K, G, k) :
              /\ IsFiniteSet(P) /\ Cardinality(P) \in Nat
              /\ Cardinality(P) <= Cardinality(CoversOf(K, G, k))
              /\ Cardinality(P) = Cardinality(CoversOf(K, G, k)) => P = CoversOf(K, G, k)
<1>1. IsFiniteSet(SUBSET K)
  BY FS_SUBSET DEF System
<1>2. CoversOf(K, G, k) \in SUBSET SUBSET K
  BY DEF CoversOf
<1>3. IsFiniteSet(CoversOf(K, G, k))
  BY <1>1, <1>2, FS_Subset
<1> QED
  BY <1>2, <1>3, FS_Subset, FS_CardinalityType

(* A cover that contains another set of its size is that set. *)
LEMMA SameSize ==
  ASSUME NEW K, IsFiniteSet(K), NEW H \in SUBSET K, NEW cur \in SUBSET H,
         Cardinality(cur) = Cardinality(H)
  PROVE  H = cur
<1>1. IsFiniteSet(H)
  BY FS_Subset
<1> QED
  BY <1>1, FS_Subset

(* The steps of the enumerator keep EnumInv. *)
LEMMA EnumStarts ==
  ASSUME NEW K, NEW G, System(K, G), NEW k \in Nat, NEW e \in EnumType(K),
         e.current = {}, e.next = 0, e.found = 0
  PROVE  EnumInv(K, G, k, e)
<1>1. Passed(CoversOf(K, G, k), {}, 0) = {}
  <2> SUFFICES ASSUME NEW H \in CoversOf(K, G, k), NEW d \in H, d < 0 PROVE FALSE
    BY DEF Passed
  <2>1. d \in Nat
    BY DEF CoversOf, System
  <2> QED
    BY <2>1
<1> QED
  BY <1>1, FS_EmptySet DEF EnumInv

(* The enumerator stands at a position of the lexicographic order. *)
LEMMA EnumPosition ==
  ASSUME NEW K, NEW G, System(K, G), NEW k \in Nat, NEW e, EnumInv(K, G, k, e)
  PROVE  Position(K, CoversOf(K, G, k), e.current, e.next)
  BY DEF Position, CoversOf, System, EnumInv, EnumType

(* It may step over a candidate through which no cover goes, *)
LEMMA EnumSkips ==
  ASSUME NEW K, NEW G, System(K, G), NEW k \in Nat, NEW e, EnumInv(K, G, k, e),
         NEW c, Nearest(K, e.next, c),
         Within(CoversOf(K, G, k), e.current, c) = {},
         NEW r \in EnumType(K), r.current = e.current, r.next = c + 1, r.found = e.found,
         r.first = e.first
  PROVE  EnumInv(K, G, k, r)
<1>1. e.current \in SUBSET K /\ e.next \in Nat /\ K \subseteq Nat /\ \A x \in e.current : x < e.next
  BY DEF EnumInv, EnumType, System
<1>2. Passed(CoversOf(K, G, k), e.current, c + 1) = Passed(CoversOf(K, G, k), e.current, e.next)
  BY EnumPosition, PassedSkip
<1>3. \A x \in e.current : x < c + 1
  <2>1. c \in Nat /\ c >= e.next
    BY <1>1 DEF Nearest
  <2>2. ASSUME NEW x \in e.current PROVE x < c + 1
    <3>1. x \in Nat /\ x < e.next
      BY <1>1
    <3> QED
      BY <3>1, <2>1, <1>1
  <2> QED
    BY <2>2
<1> QED
  BY <1>2, <1>3 DEF EnumInv

(* and it may take any candidate. *)
LEMMA EnumTakes ==
  ASSUME NEW K, NEW G, System(K, G), NEW k \in Nat, NEW e, EnumInv(K, G, k, e),
         NEW c, Nearest(K, e.next, c), Cardinality(e.current) # k,
         NEW r \in EnumType(K), r.current = e.current \cup {c}, r.next = c + 1, r.found = e.found,
         r.first = e.first
  PROVE  EnumInv(K, G, k, r)
<1>1. e.current \in SUBSET K /\ e.next \in Nat /\ K \subseteq Nat /\ \A x \in e.current : x < e.next
  BY DEF EnumInv, EnumType, System
<1>2. Passed(CoversOf(K, G, k), e.current \cup {c}, c + 1)
        = Passed(CoversOf(K, G, k), e.current, e.next)
  BY EnumPosition, PassedPush
<1>3. c \in Nat /\ c >= e.next
  BY <1>1 DEF Nearest
<1>4. ASSUME NEW x \in e.current \cup {c} PROVE x < c + 1
  <2>1. CASE x = c
    BY <2>1, <1>3
  <2>2. CASE x \in e.current
    <3>1. x \in Nat /\ x < e.next
      BY <1>1, <2>2
    <3> QED
      BY <3>1, <1>3, <1>1
  <2> QED
    BY <2>1, <2>2
<1>5. Cardinality(e.current \cup {c}) <= k
  <2>1. IsFiniteSet(e.current) /\ Cardinality(e.current) \in Nat /\ Cardinality(e.current) <= k
    BY <1>1, FiniteParts DEF System, EnumInv
  <2>2. Cardinality(e.current \cup {c}) \in {Cardinality(e.current), Cardinality(e.current) + 1}
    BY <2>1, FS_AddElement
  <2> QED
    BY <2>1, <2>2
<1> QED
  BY <1>2, <1>4, <1>5 DEF EnumInv

(* A branch that is at its end has been passed: its covers that agree with cur below
   m and contain m are cur itself or lie behind. *)
LEMMA BranchEnds ==
  ASSUME NEW K, NEW G, System(K, G), NEW k \in Nat, NEW cur \in SUBSET K, NEW n \in Nat,
         Uncovered(G, cur) # {},
         Cardinality(cur) = k \/ \A c \in K : ~(c >= n),
         NEW H \in CoversOf(K, G, k), cur \subseteq H
  PROVE  H \in Passed(CoversOf(K, G, k), cur, n)
<1>1. H \in SUBSET K /\ Cardinality(H) = k /\ Uncovered(G, H) = {} /\ K \subseteq Nat
  BY DEF CoversOf, System
<1>2. H # cur
  BY <1>1
<1>3. Cardinality(cur) # k
  <2>1. IsFiniteSet(K) /\ cur \in SUBSET H
    BY DEF System
  <2> QED
    BY <2>1, <1>1, <1>2, SameSize
<1>4. PICK d \in H \ cur : \A y \in H \ cur : d <= y
  <2>1. H \ cur \subseteq Nat /\ H \ cur # {}
    BY <1>1, <1>2
  <2> QED
    BY <2>1, LeastNatural
<1>5. d < n
  BY <1>1, <1>3, <1>4
<1>6. Agree(H, cur, d)
  <2> SUFFICES ASSUME NEW x \in H \cup cur, x < d PROVE x \in H /\ x \in cur
    BY DEF Agree
  <2>1. x \in H /\ x \in Nat /\ d \in Nat
    BY <1>1
  <2>2. ASSUME x \notin cur PROVE FALSE
    BY <2>1, <2>2, <1>4
  <2> QED
    BY <2>1, <2>2
<1> QED
  BY <1>5, <1>6 DEF Passed

(* When the outermost call has returned, every cover has been passed. *)
LEMMA EnumEnds ==
  ASSUME NEW K, NEW G, System(K, G), NEW k \in Nat, NEW e, EnumInv(K, G, k, e),
         e.current = {}, G # {}, k = 0 \/ \A c \in K : ~(c >= e.next)
  PROVE  e.found = Cardinality(CoversOf(K, G, k))
<1>0. e.next \in Nat
  BY DEF EnumInv, EnumType
<1>1. Uncovered(G, {}) # {} /\ {} \in SUBSET K /\ (Cardinality({}) = k \/ \A c \in K : ~(c >= e.next))
  BY FS_EmptySet DEF Uncovered
<1>2. \A H \in CoversOf(K, G, k) : H \in Passed(CoversOf(K, G, k), {}, e.next)
  BY <1>0, <1>1, BranchEnds
<1>3. Passed(CoversOf(K, G, k), {}, e.next) = CoversOf(K, G, k)
  BY <1>2 DEF Passed
<1> QED
  BY <1>3 DEF EnumInv

(* What backtracking leaves: the last candidate m taken is passed. *)
BackedTo(K, G, k, e, m) ==
  /\ m \in e.current /\ \A x \in e.current : x <= m
  /\ \A x \in e.current \ {m} : x < m + 1
  /\ Cardinality(e.current \ {m}) <= k
  /\ Passed(CoversOf(K, G, k), e.current \ {m}, m + 1)
       = Passed(CoversOf(K, G, k), e.current, e.next) \cup Within(CoversOf(K, G, k), e.current, m)

(* What the return to the caller makes passed. *)
LEMMA BacktrackFacts ==
  ASSUME NEW K, NEW G, System(K, G), NEW k \in Nat, NEW e, EnumInv(K, G, k, e), e.current # {}
  PROVE  \E m : m = Max(e.current) /\ BackedTo(K, G, k, e, m)
<1>1. e.current \in SUBSET K /\ e.next \in Nat /\ K \subseteq Nat /\ \A x \in e.current : x < e.next
  BY DEF EnumInv, EnumType, System
<1>2. IsFiniteSet(e.current) /\ Cardinality(e.current) \in Nat /\ Cardinality(e.current) <= k
  BY <1>1, FiniteParts DEF System, EnumInv
<1>3. PICK m : m = Max(e.current)
  OBVIOUS
<1>4. m \in e.current /\ \A x \in e.current : x <= m
  BY <1>1, <1>2, <1>3, MaxIsGreatest
<1>5. m \in Nat /\ m < e.next
  BY <1>1, <1>4
<1>6. ASSUME NEW x \in e.current \ {m} PROVE x < m + 1
  <2>1. x \in Nat /\ x <= m
    BY <1>1, <1>4
  <2> QED
    BY <2>1, <1>5
<1>7. Cardinality(e.current \ {m}) <= k
  <2>1. Cardinality(e.current \ {m}) = Cardinality(e.current) - 1
    BY <1>2, <1>4, FS_RemoveElement
  <2> QED
    BY <2>1, <1>2
<1>8. Passed(CoversOf(K, G, k), e.current \ {m}, m + 1)
        = Passed(CoversOf(K, G, k), e.current, e.next)
            \cup Within(CoversOf(K, G, k), e.current, m)
  <2>1. LastTaken(e.current, m)
    BY <1>4 DEF LastTaken
  <2> QED
    BY <2>1, EnumPosition, PassedBack
<1>9. BackedTo(K, G, k, e, m)
  BY <1>4, <1>6, <1>7, <1>8 DEF BackedTo
<1> QED
  BY <1>3, <1>9

(* A cover that agrees with the candidates taken up to the last contains them. *)
LEMMA AgreeToLast ==
  ASSUME NEW cur, cur \subseteq Nat, NEW m \in cur, \A x \in cur : x <= m,
         NEW H, m \in H, Agree(H, cur, m)
  PROVE  cur \subseteq H
<1> SUFFICES ASSUME NEW x \in cur PROVE x \in H
  OBVIOUS
<1>1. x \in Nat /\ m \in Nat /\ x <= m
  OBVIOUS
<1>2. x = m \/ x < m
  BY <1>1
<1> QED
  BY <1>2 DEF Agree

(* A call that returns without a cover leaves none behind. *)
LEMMA EnumReturns ==
  ASSUME NEW K, NEW G, System(K, G), NEW k \in Nat, NEW e, EnumInv(K, G, k, e),
         e.current # {}, Uncovered(G, e.current) # {},
         Cardinality(e.current) = k \/ \A c \in K : ~(c >= e.next),
         NEW r \in EnumType(K), r.current = e.current \ {Max(e.current)},
         r.next = Max(e.current) + 1, r.found = e.found, r.first = e.first
  PROVE  EnumInv(K, G, k, r)
<1>1. e.current \in SUBSET K /\ e.next \in Nat /\ K \subseteq Nat
  BY DEF EnumInv, EnumType, System
<1>2. PICK m : m = Max(e.current) /\ BackedTo(K, G, k, e, m)
  BY BacktrackFacts
<1>3. /\ m \in e.current /\ \A x \in e.current : x <= m
      /\ \A x \in e.current \ {m} : x < m + 1
      /\ Cardinality(e.current \ {m}) <= k
      /\ Passed(CoversOf(K, G, k), e.current \ {m}, m + 1)
           = Passed(CoversOf(K, G, k), e.current, e.next)
               \cup Within(CoversOf(K, G, k), e.current, m)
  BY <1>2 DEF BackedTo
<1>4. ASSUME NEW H \in CoversOf(K, G, k), m \in H, Agree(H, e.current, m)
      PROVE  H \in Passed(CoversOf(K, G, k), e.current, e.next)
  <2>1. e.current \subseteq H
    BY <1>1, <1>3, <1>4, AgreeToLast
  <2> QED
    BY <2>1, <1>1, BranchEnds
<1>5. Passed(CoversOf(K, G, k), e.current \ {m}, m + 1) = Passed(CoversOf(K, G, k), e.current, e.next)
  BY <1>3, <1>4 DEF Within
<1> QED
  BY <1>2, <1>3, <1>5 DEF EnumInv

(* The first cover that is found is the least. *)
LEMMA FirstIsLeast ==
  ASSUME NEW K, NEW G, System(K, G), NEW k \in Nat, NEW cur \in CoversOf(K, G, k), NEW n \in Nat,
         \A x \in cur : x < n, Passed(CoversOf(K, G, k), cur, n) = {}
  PROVE  LexLeast(cur, CoversOf(K, G, k))
<1> SUFFICES ASSUME NEW H \in CoversOf(K, G, k), H # cur PROVE LexLess(cur, H)
  BY DEF LexLeast
<1>1. /\ H \in SUBSET K /\ cur \in SUBSET K /\ Cardinality(H) = k /\ Cardinality(cur) = k
      /\ K \subseteq Nat
  BY DEF CoversOf, System
<1>2. PICK d : d = Min(SymDiff(cur, H))
  OBVIOUS
<1>3. d \in SymDiff(cur, H) /\ \A y \in SymDiff(cur, H) : d <= y
  <2>1. SymDiff(cur, H) \subseteq Nat /\ SymDiff(cur, H) # {}
    BY <1>1 DEF SymDiff
  <2> QED
    BY <2>1, <1>2, MinIsLeast
<1>4. d \in Nat /\ \A x \in H \cup cur : x \in Nat
  BY <1>1, <1>3 DEF SymDiff
<1>5. Agree(H, cur, d)
  <2> SUFFICES ASSUME NEW x \in H \cup cur, x < d PROVE x \in H /\ x \in cur
    BY DEF Agree
  <2>1. x \notin SymDiff(cur, H)
    BY <1>3, <1>4
  <2> QED
    BY <2>1 DEF SymDiff
<1>6. ASSUME d \notin cur PROVE FALSE
  <2>1. d \in H \ cur
    BY <1>3, <1>6 DEF SymDiff
  <2>2. ~(d < n)
    BY <2>1, <1>5 DEF Passed
  <2>3. cur \subseteq H
    <3> SUFFICES ASSUME NEW x \in cur PROVE x \in H
      OBVIOUS
    <3>1. x < d
      BY <2>2, <1>4
    <3> QED
      BY <3>1, <1>5 DEF Agree
  <2> QED
    BY <2>3, <1>1, SameSize DEF System
<1> QED
  BY <1>2, <1>6 DEF LexLess

(* A cover that is found is counted once, and the first is the least. *)
LEMMA EnumFinds ==
  ASSUME NEW K, NEW G, System(K, G), NEW k \in Nat, NoSmaller(K, G, k),
         NEW e, EnumInv(K, G, k, e), G # {}, Uncovered(G, e.current) = {},
         NEW r \in EnumType(K), r.current = e.current \ {Max(e.current)},
         r.next = Max(e.current) + 1, r.found = e.found + 1,
         r.first = IF e.found = 0 THEN e.current ELSE e.first
  PROVE  EnumInv(K, G, k, r) /\ e.current # {}
<1> DEFINE M == CoversOf(K, G, k)
<1>1. /\ e.current \in SUBSET K /\ e.next \in Nat /\ K \subseteq Nat /\ e.found \in Nat
      /\ \A x \in e.current : x < e.next
  BY DEF EnumInv, EnumType, System
<1>2. e.current # {}
  BY DEF Uncovered
<1>3. e.current \in M
  <2>1. Cardinality(e.current) \in Nat /\ Cardinality(e.current) <= k /\ Cardinality(e.current) >= k
    BY <1>1, FiniteParts DEF System, EnumInv, NoSmaller
  <2>2. Cardinality(e.current) = k
    BY <2>1
  <2> QED
    BY <2>2, <1>1 DEF CoversOf
<1>4. PICK m : m = Max(e.current) /\ BackedTo(K, G, k, e, m)
  BY <1>2, BacktrackFacts
<1>5. /\ m \in e.current /\ \A x \in e.current : x <= m
      /\ \A x \in e.current \ {m} : x < m + 1
      /\ Cardinality(e.current \ {m}) <= k
      /\ Passed(M, e.current \ {m}, m + 1)
           = Passed(M, e.current, e.next) \cup Within(M, e.current, m)
  BY <1>4 DEF BackedTo
<1>6. Within(M, e.current, m) = {e.current}
  <2>1. ASSUME NEW H \in M, m \in H, Agree(H, e.current, m) PROVE H = e.current
    <3>1. e.current \subseteq H
      BY <1>1, <1>5, <2>1, AgreeToLast
    <3>2. H \in SUBSET K /\ Cardinality(e.current) = Cardinality(H) /\ IsFiniteSet(K)
      BY <1>3 DEF CoversOf, System
    <3> QED
      BY <3>1, <3>2, SameSize
  <2>2. Agree(e.current, e.current, m)
    BY DEF Agree
  <2> QED
    BY <2>1, <2>2, <1>3, <1>5 DEF Within
<1> DEFINE P == Passed(M, e.current, e.next)
<1>7. e.current \notin P
  BY DEF Passed
<1>8. P \in SUBSET M
  BY DEF Passed
<1>9. IsFiniteSet(P) /\ e.found = Cardinality(P)
  BY <1>8, CoversFinite DEF EnumInv
<1>10. Cardinality(P \cup {e.current}) = e.found + 1
  <2> HIDE DEF P
  <2> QED
    BY <1>7, <1>9, FS_AddElement
<1>11. LexLeast(r.first, M)
  <2>1. CASE e.found = 0
    <3>1. P = {}
      <4> HIDE DEF P
      <4> QED
        BY <2>1, <1>9, FS_EmptySet
    <3>2. LexLeast(e.current, M)
      BY <3>1, <1>1, <1>3, FirstIsLeast
    <3> QED
      BY <2>1, <3>2
  <2>2. CASE e.found # 0
    <3>1. e.found > 0
      BY <2>2, <1>1
    <3> QED
      BY <3>1, <2>2 DEF EnumInv
  <2> QED
    BY <2>1, <2>2
<1>12. r.found = Cardinality(Passed(M, r.current, r.next))
  BY <1>4, <1>5, <1>6, <1>10
<1> QED
  BY <1>2, <1>4, <1>5, <1>11, <1>12 DEF EnumInv

-----------------------------------------------------------------------------
(* disjoint_lower_bound(): a cover has an element of its own for each packed set. *)
PackInv(K, G, p) ==
  /\ p \in [used : SUBSET K, count : Nat, todo : SUBSET G]
  /\ \A H \in SUBSET K : Uncovered(G, H) = {} => p.count <= Cardinality(H \cap p.used)

(* The empty packing bounds nothing. *)
LEMMA PackStarts ==
  ASSUME NEW K, NEW G, System(K, G)
  PROVE  PackInv(K, G, [used |-> {}, count |-> 0, todo |-> G])
<1>1. \A H \in SUBSET K : 0 <= Cardinality(H \cap {})
  <2> SUFFICES ASSUME NEW H \in SUBSET K PROVE 0 <= Cardinality(H \cap {})
    OBVIOUS
  <2>1. H \cap {} = {}
    OBVIOUS
  <2> QED
    BY <2>1, FS_EmptySet
<1> QED
  BY <1>1 DEF PackInv

(* A set that is disjoint from those packed raises the bound by one. *)
LEMMA PackKeeps ==
  ASSUME NEW K, NEW G, System(K, G), NEW p, PackInv(K, G, p), NEW S \in p.todo
  PROVE  PackInv(K, G, PackSet(p, S))
<1>1. PICK u \in SUBSET K, n \in Nat, t \in SUBSET G : u = p.used /\ n = p.count /\ t = p.todo
  BY DEF PackInv
<1>2. S \in SUBSET K
  BY <1>1 DEF System
<1>3. CASE S \cap p.used # {}
  <2>1. PackSet(p, S) = [used |-> u, count |-> n, todo |-> t \ {S}]
    BY <1>1, <1>3 DEF PackSet, PackInv
  <2> QED
    BY <2>1, <1>1 DEF PackInv
<1>4. CASE S \cap p.used = {}
  <2>1. PackSet(p, S) = [used |-> u \cup S, count |-> n + 1, todo |-> t \ {S}]
    BY <1>1, <1>4 DEF PackSet
  <2>2. ASSUME NEW H \in SUBSET K, Uncovered(G, H) = {}
        PROVE  n + 1 <= Cardinality(H \cap (u \cup S))
    <3>1. PICK x \in S : x \in H
      BY <1>1, <2>2 DEF Uncovered
    <3>2. x \notin u
      BY <1>1, <1>4
    <3>3. n <= Cardinality(H \cap u)
      BY <1>1, <2>2 DEF PackInv
    <3> DEFINE A == H \cap u
               B == H \cap (u \cup S)
    <3>4. IsFiniteSet(A) /\ Cardinality(A) \in Nat /\ IsFiniteSet(B) /\ Cardinality(B) \in Nat
      <4>1. A \in SUBSET K /\ B \in SUBSET K
        OBVIOUS
      <4> QED
        BY <4>1, FiniteParts DEF System
    <3>5. x \notin A /\ A \cup {x} \in SUBSET B
      BY <3>1, <3>2
    <3>6. n <= Cardinality(A)
      BY <3>3
    <3> HIDE DEF A, B
    <3>7. Cardinality(A \cup {x}) = Cardinality(A) + 1 /\ Cardinality(A \cup {x}) <= Cardinality(B)
      BY <3>4, <3>5, FS_AddElement, FS_Subset
    <3>8. n + 1 <= Cardinality(B)
      BY <3>4, <3>6, <3>7
    <3> QED
      BY <3>8 DEF B
  <2>3. u \cup S \in SUBSET K /\ n + 1 \in Nat /\ t \ {S} \in SUBSET G
    BY <1>2
  <2> QED
    BY <2>1, <2>2, <2>3 DEF PackInv
<1> QED
  BY <1>3, <1>4

(* The packing is a lower bound on the size of a cover. *)
LEMMA PackBounds ==
  ASSUME NEW K, NEW G, System(K, G), G # {}, NEW p, PackInv(K, G, p)
  PROVE  LET k == IF p.count = 0 THEN 1 ELSE p.count
         IN k \in Nat /\ k > 0 /\ NoSmaller(K, G, k)
<1>1. p.count \in Nat
  BY DEF PackInv
<1>2. ASSUME NEW H \in SUBSET K, Uncovered(G, H) = {}
      PROVE  Cardinality(H) \in Nat /\ Cardinality(H) >= p.count /\ Cardinality(H) >= 1
  <2>1. IsFiniteSet(H) /\ Cardinality(H) \in Nat
    BY FiniteParts DEF System
  <2>2. p.count <= Cardinality(H \cap p.used) /\ H \cap p.used \in SUBSET H
    BY <1>2 DEF PackInv
  <2>3. Cardinality(H \cap p.used) \in Nat /\ Cardinality(H \cap p.used) <= Cardinality(H)
    BY <2>1, <2>2, FiniteParts
  <2>4. H # {}
    BY <1>2 DEF Uncovered
  <2>5. Cardinality(H) # 0
    BY <2>1, <2>4, FS_EmptySet
  <2> QED
    BY <2>1, <2>2, <2>3, <2>5, <1>1
<1> QED
  BY <1>1, <1>2 DEF NoSmaller

-----------------------------------------------------------------------------
(* The sizes. *)
LEMMA NextSize ==
  ASSUME NEW K, NEW G, System(K, G), NEW k \in Nat, NoSmaller(K, G, k), ~Coverable(K, G, k, 0)
  PROVE  NoSmaller(K, G, k + 1)
<1> SUFFICES ASSUME NEW H \in SUBSET K, Uncovered(G, H) = {} PROVE Cardinality(H) >= k + 1
  BY DEF NoSmaller
<1>1. Cardinality(H) \in Nat /\ Cardinality(H) >= k
  BY FiniteParts DEF System, NoSmaller
<1>2. H \in SUBSET {c \in K : c >= 0}
  BY DEF System
<1>3. ~(Cardinality(H) <= k)
  BY <1>2 DEF Coverable
<1> QED
  BY <1>1, <1>3

(* A feasible size below which nothing is feasible is the size of a cover. *)
LEMMA SizeReached ==
  ASSUME NEW K, NEW G, System(K, G), NEW k \in Nat, NoSmaller(K, G, k), Coverable(K, G, k, 0)
  PROVE  CoversOf(K, G, k) # {}
<1>1. PICK H \in SUBSET {c \in K : c >= 0} : Cardinality(H) <= k /\ Uncovered(G, H) = {}
  BY DEF Coverable
<1>2. H \in SUBSET K
  OBVIOUS
<1>3. Cardinality(H) \in Nat /\ Cardinality(H) >= k
  BY <1>1, <1>2, FiniteParts DEF System, NoSmaller
<1>4. Cardinality(H) = k
  BY <1>1, <1>3
<1> QED
  BY <1>1, <1>2, <1>4 DEF CoversOf

(* All candidates together are a cover, which is why the sizes end. *)
LEMMA AllCover ==
  ASSUME NEW K, NEW G, System(K, G), NEW k \in Nat, Cardinality(K) <= k
  PROVE  Coverable(K, G, k, 0)
<1>1. Uncovered(G, K) = {}
  <2> SUFFICES ASSUME NEW S \in G, S \cap K = {} PROVE FALSE
    BY DEF Uncovered
  <2>1. S = {}
    BY DEF System
  <2> QED
    BY <2>1 DEF System
<1>2. K \in SUBSET {c \in K : c >= 0}
  BY DEF System
<1> QED
  BY <1>1, <1>2 DEF Coverable

(* reduce() yields a reduced system. *)
LEMMA InputSystem ==
  ASSUME NEW in, InputType(in)
  PROVE  System(Candidates(in), Reduce(in))
  BY CandidateFacts DEF System

(* The minima of the request are the covers of the proven size. *)
LEMMA MinimaAre ==
  ASSUME NEW in, InputType(in), EmptySets(in) = {}, NEW k \in Nat,
         NoSmaller(Candidates(in), Reduce(in), k), CoversOf(Candidates(in), Reduce(in), k) # {}
  PROVE  Minima(in) = CoversOf(Candidates(in), Reduce(in), k)
<1> DEFINE K == Candidates(in)
           G == Reduce(in)
           Ls == {H \in SUBSET K : Uncovered(G, H) = {}}
<1>1. Localizations(in) = Ls
  BY ReduceExact
<1>2. \A H \in Ls : Cardinality(H) \in Nat /\ Cardinality(H) >= k
  BY InputSystem, FiniteParts DEF System, NoSmaller
<1>3. PICK D \in Ls : Cardinality(D) = k
  BY DEF CoversOf
<1>4. CoversOf(K, G, k) = {H \in Ls : Cardinality(H) = k}
  BY DEF CoversOf
<1>5. Minima(in) = {H \in Ls : \A D2 \in Ls : Cardinality(H) <= Cardinality(D2)}
  BY <1>1 DEF Minima
<1> HIDE DEF Ls
<1>6. ASSUME NEW H \in Ls
      PROVE  (\A D2 \in Ls : Cardinality(H) <= Cardinality(D2)) <=> Cardinality(H) = k
  <2>1. ASSUME \A D2 \in Ls : Cardinality(H) <= Cardinality(D2) PROVE Cardinality(H) = k
    <3>1. Cardinality(H) \in Nat /\ Cardinality(H) >= k /\ Cardinality(H) <= k
      BY <2>1, <1>2, <1>3
    <3> QED
      BY <3>1
  <2>2. ASSUME Cardinality(H) = k, NEW D2 \in Ls PROVE Cardinality(H) <= Cardinality(D2)
    BY <2>2, <1>2
  <2> QED
    BY <2>1, <2>2
<1> QED
  BY <1>4, <1>5, <1>6

(* There is one lexicographically least cover. *)
LEMMA LexLeastOnly ==
  ASSUME NEW K, K \subseteq Nat, NEW M, M \subseteq SUBSET K,
         NEW H, NEW D, LexLeast(H, M), LexLeast(D, M)
  PROVE  H = D
<1> SUFFICES ASSUME H # D PROVE FALSE
  OBVIOUS
<1>1. H \in M /\ D \in M /\ LexLess(H, D) /\ LexLess(D, H)
  BY DEF LexLeast
<1>2. SymDiff(H, D) = SymDiff(D, H) /\ SymDiff(H, D) \subseteq Nat /\ SymDiff(H, D) # {}
  BY <1>1 DEF SymDiff
<1>3. Min(SymDiff(H, D)) \in SymDiff(H, D)
  BY <1>2, MinIsLeast
<1>4. Min(SymDiff(H, D)) \in H /\ Min(SymDiff(H, D)) \in D
  BY <1>1, <1>2 DEF LexLess
<1> QED
  BY <1>3, <1>4 DEF SymDiff

(* Min of two numbers. *)
LEMMA LeastOfTwo ==
  ASSUME NEW a \in Nat, NEW b \in Nat
  PROVE  Min({a, b}) = IF a <= b THEN a ELSE b
<1>1. {a, b} \subseteq Nat /\ {a, b} # {}
  OBVIOUS
<1>2. Min({a, b}) \in {a, b} /\ \A y \in {a, b} : Min({a, b}) <= y
  BY <1>1, MinIsLeast
<1>3. PICK m : m = Min({a, b})
  OBVIOUS
<1>4. (m = a \/ m = b) /\ m <= a /\ m <= b
  BY <1>2, <1>3
<1> QED
  BY <1>3, <1>4

(* What the reference solver answers on a system with a minimum of size k. *)
Referred(in, k, ref) ==
  LET M == CoversOf(Candidates(in), Reduce(in), k)
  IN /\ ref.optimal_size = k
     /\ LexLeast(ref.elements, M)
     /\ ref.status = "Ambiguous" <=> Cardinality(M) > 1 /\ in.max_solutions > 1

(* reference_localize() finds the same size and the same least cover. *)
LEMMA ReferenceFinds ==
  ASSUME NEW in, InputType(in), EmptySets(in) = {}, Reduce(in) # {}, NEW k \in Nat, k > 0,
         Cardinality(Candidates(in)) <= ReferenceMax, in.max_solutions \in Nat,
         NoSmaller(Candidates(in), Reduce(in), k),
         NEW least, LexLeast(least, CoversOf(Candidates(in), Reduce(in), k))
  PROVE  Referred(in, k, Reference(in))
<1> DEFINE K == Candidates(in)
           G == Reduce(in)
           M == CoversOf(K, G, k)
           Ks == {j \in 1..Cardinality(K) : Covering(in, j) # {}}
           found == Min({Cardinality(M), in.max_solutions})
<1>0. System(K, G)
  BY InputSystem
<1>1. \A j : Covering(in, j) = CoversOf(K, G, j)
  BY DEF Covering, kSubset, CoversOf
<1>2. k \in Ks
  <2>1. least \in M
    BY DEF LexLeast
  <2>2. Cardinality(least) = k /\ least \in SUBSET K
    BY <2>1 DEF CoversOf
  <2>3. k <= Cardinality(K) /\ Cardinality(K) \in Nat
    BY <2>2, <1>0, FiniteParts, FS_CardinalityType DEF System
  <2> QED
    BY <2>1, <2>3, <1>1
<1>3. ASSUME NEW j \in Ks PROVE k <= j
  <2>1. PICK H \in CoversOf(K, G, j) : TRUE
    BY <1>1
  <2>2. H \in SUBSET K /\ Uncovered(G, H) = {} /\ Cardinality(H) = j
    BY DEF CoversOf
  <2> QED
    BY <2>2 DEF NoSmaller
<1>4. Min(Ks) = k
  <2>1. Ks \subseteq Nat
    OBVIOUS
  <2> HIDE DEF Ks
  <2>2. Min(Ks) \in Ks /\ \A y \in Ks : Min(Ks) <= y
    BY <2>1, <1>2, MinIsLeast
  <2>3. Min(Ks) \in Nat /\ Min(Ks) <= k /\ k <= Min(Ks)
    BY <2>1, <2>2, <1>2, <1>3
  <2> QED
    BY <2>3
<1>5. LexLeast(CHOOSE H \in M : LexLeast(H, M), M)
  <2>1. \E H \in M : LexLeast(H, M)
    BY DEF LexLeast
  <2> QED
    BY <2>1
<1>6. Covering(in, k) = M
  BY <1>1
<1>7. Reference(in) =
        [status |-> IF found > 1 THEN "Ambiguous" ELSE "Resolved",
           elements |-> CHOOSE H \in M : LexLeast(H, M),
           optimal_size |-> k, optimality_proven |-> TRUE, uniqueness_proven |-> found = 1,
           truncated |-> found >= in.max_solutions /\ in.max_solutions > 1,
           found |-> found, witness |-> 0]
  <2>1. ~(Cardinality(K) > ReferenceMax)
    <3>1. Cardinality(K) \in Nat /\ ReferenceMax \in Nat
      BY <1>0, FS_CardinalityType, ConstraintAssumption DEF System
    <3> QED
      BY <3>1
  <2> HIDE DEF K, G, M
  <2> QED
    BY <2>1, <1>4, <1>6 DEF Reference, Ks, K, G
<1>8. found > 1 <=> Cardinality(M) > 1 /\ in.max_solutions > 1
  <2>1. Cardinality(M) \in Nat
    BY <1>0, CoversFinite, FS_CardinalityType
  <2>2. found = IF Cardinality(M) <= in.max_solutions THEN Cardinality(M) ELSE in.max_solutions
    <3> HIDE DEF M
    <3> QED
      BY <2>1, LeastOfTwo
  <2> QED
    BY <2>1, <2>2
<1> HIDE DEF found, M
<1>9. /\ Reference(in).optimal_size = k
      /\ Reference(in).elements = CHOOSE H \in M : LexLeast(H, M)
      /\ Reference(in).status = IF found > 1 THEN "Ambiguous" ELSE "Resolved"
  BY <1>7
<1> QED
  BY <1>5, <1>8, <1>9 DEF Referred, M

-----------------------------------------------------------------------------
(* Exact with the state of the budget as a parameter. *)
ExactIf(in, res, spent) ==
  /\ res.status = "ProvenInfeasible" <=> Localizations(in) = {}
  /\ res.status = "ProvenInfeasible" => in.failure_sets[res.witness] \cap Candidates(in) = {}
  /\ res.status = "Indeterminate" =>
       res.elements \in Localizations(in) /\ ~res.optimality_proven /\ ~res.uniqueness_proven /\ spent
  /\ res.optimality_proven =>
       LexLeast(res.elements, Minima(in)) /\ res.optimal_size = Cardinality(res.elements)
  /\ res.status = "Ambiguous" => Cardinality(Minima(in)) > 1
  /\ res.uniqueness_proven => Cardinality(Minima(in)) = 1
  /\ res.status = "Resolved" => res.uniqueness_proven \/ CutShort(res)
  /\ TrueSize(in, res.optimal_size)

Statuses == {"ProvenInfeasible", "Indeterminate", "Ambiguous", "Resolved"}

ResultType(K) ==
  [status : Statuses, elements : SUBSET K, optimal_size : Nat, optimality_proven : BOOLEAN,
   uniqueness_proven : BOOLEAN, truncated : BOOLEAN, found : Nat, witness : Nat]

(* What the solver concludes: true, and accepted by a verifier that has the reference
   solver or needs none. *)
Sound(in, res, spent) ==
  /\ res \in ResultType(Candidates(in))
  /\ ExactIf(in, res, spent)
  /\ Cardinality(Candidates(in)) <= ReferenceMax \/ res.status = "ProvenInfeasible" =>
       \A o : Verified(in, res, o)

(* The four conclusions of localize() are true, and the verifier accepts them. *)
LEMMA InfeasibleSound ==
  ASSUME NEW in, InputType(in), EmptySets(in) # {}, NEW spent
  PROVE  Sound(in, Infeasible(in), spent)
<1>1. EmptySets(in) \subseteq Nat
  BY DEF EmptySets, InputType
<1>2. PICK w \in EmptySets(in) : w = Min(EmptySets(in))
  BY <1>1, MinIsLeast
<1>3. /\ w \in Nat /\ w \in DOMAIN in.failure_sets /\ Constraints(in)[w] = {}
      /\ in.failure_sets[w] \cap Candidates(in) = {}
  BY <1>1 DEF EmptySets, Constraints
<1>4. Localizations(in) = {}
  BY <1>3 DEF Localizations, ToSet
<1>5. PICK r : r = Infeasible(in)
  OBVIOUS
<1>6. /\ r.status = "ProvenInfeasible" /\ r.optimality_proven = FALSE /\ r.uniqueness_proven = FALSE
      /\ r.optimal_size = 0
  BY <1>5 DEF Infeasible, Unanswered
<1>7. r.witness = w
  BY <1>2, <1>5 DEF Infeasible, Unanswered
<1>8. r \in ResultType(Candidates(in))
  BY <1>2, <1>3, <1>5 DEF Infeasible, Unanswered, ResultType, Statuses
<1>9. ExactIf(in, r, spent)
  BY <1>3, <1>4, <1>6, <1>7 DEF ExactIf, TrueSize
<1>10. \A o : Verified(in, r, o)
  BY <1>3, <1>6, <1>7 DEF Verified
<1> QED
  BY <1>5, <1>8, <1>9, <1>10 DEF Sound

(* Without a failed segment the empty localization is the only minimum. *)
LEMMA NothingFailedSound ==
  ASSUME NEW in, InputType(in), EmptySets(in) = {}, Reduce(in) = {}, NEW spent
  PROVE  Sound(in, NothingFailed, spent)
<1> DEFINE K == Candidates(in)
<1>1. Localizations(in) = SUBSET K
  BY ReduceExact DEF Uncovered
<1>2. \A H \in SUBSET K : Cardinality(H) \in Nat /\ (Cardinality(H) = 0 <=> H = {})
  <2> SUFFICES ASSUME NEW H \in SUBSET K
               PROVE  Cardinality(H) \in Nat /\ (Cardinality(H) = 0 <=> H = {})
    OBVIOUS
  <2>1. IsFiniteSet(H)
    BY CandidateFacts, FS_Subset
  <2> QED
    BY <2>1, FS_CardinalityType, FS_EmptySet
<1>3. Minima(in) = {{}}
  <2>1. \A H \in SUBSET K : (\A D \in SUBSET K : Cardinality(H) <= Cardinality(D)) <=> H = {}
    <3> SUFFICES ASSUME NEW H \in SUBSET K
                 PROVE  (\A D \in SUBSET K : Cardinality(H) <= Cardinality(D)) <=> H = {}
      OBVIOUS
    <3>1. ASSUME \A D \in SUBSET K : Cardinality(H) <= Cardinality(D) PROVE H = {}
      <4>1. {} \in SUBSET K /\ Cardinality({}) = 0
        BY <1>2
      <4>2. Cardinality(H) \in Nat /\ Cardinality(H) <= 0
        BY <3>1, <4>1, <1>2
      <4> QED
        BY <4>2, <1>2
    <3>2. ASSUME H = {}, NEW D \in SUBSET K PROVE Cardinality(H) <= Cardinality(D)
      <4>1. Cardinality(H) = 0 /\ Cardinality(D) \in Nat
        BY <3>2, <1>2
      <4> QED
        BY <4>1
    <3> QED
      BY <3>1, <3>2
  <2> QED
    BY <2>1, <1>1 DEF Minima
<1>4. Cardinality({{}}) = 1 /\ Cardinality({}) = 0
  BY FS_Singleton, FS_EmptySet
<1>5. /\ NothingFailed.status = "Resolved" /\ NothingFailed.elements = {}
      /\ NothingFailed.optimal_size = 0
  BY DEF NothingFailed, Unanswered
<1>6. LexLeast({}, Minima(in))
  BY <1>3 DEF LexLeast
<1>7. ExactIf(in, NothingFailed, spent)
  <2>1. NothingFailed.uniqueness_proven = TRUE
    BY DEF NothingFailed, Unanswered
  <2>2. Localizations(in) # {}
    BY <1>1
  <2> QED
    BY <2>1, <2>2, <1>3, <1>4, <1>5, <1>6 DEF ExactIf, TrueSize
<1>8. \A S \in ToSet(in.failure_sets) : S \cap {} # {}
  <2>1. {} \in Localizations(in)
    BY <1>1
  <2> QED
    BY <2>1 DEF Localizations
<1>9. Reference(in) = NothingFailed
  BY DEF Reference
<1>10. ReferenceAgrees(in, NothingFailed)
  BY <1>9 DEF ReferenceAgrees
<1>11. ASSUME Cardinality(K) <= ReferenceMax \/ NothingFailed.status = "ProvenInfeasible", NEW o
       PROVE  Verified(in, NothingFailed, o)
  <2>1. Cardinality(K) <= ReferenceMax
    BY <1>5, <1>11
  <2> QED
    BY <2>1, <1>5, <1>8, <1>10 DEF Verified
<1>12. NothingFailed \in ResultType(K)
  BY DEF NothingFailed, Unanswered, ResultType, Statuses
<1> QED
  BY <1>7, <1>11, <1>12 DEF Sound

(* The result of an enumeration that found a cover, cut short or not, is sound. *)
LEMMA CoverSound ==
  ASSUME NEW in, InputType(in), EmptySets(in) = {}, Reduce(in) # {}, in.max_solutions \in Nat,
         NEW k \in Nat, k > 0, NoSmaller(Candidates(in), Reduce(in), k),
         NEW least, LexLeast(least, CoversOf(Candidates(in), Reduce(in), k)),
         NEW found \in Nat, found > 0,
         found <= Cardinality(CoversOf(Candidates(in), Reduce(in), k)),
         NEW cut \in BOOLEAN,
         ~cut => /\ found = Cardinality(CoversOf(Candidates(in), Reduce(in), k))
                 /\ found < in.max_solutions,
         NEW r, r = [status |-> IF found > 1 THEN "Ambiguous" ELSE "Resolved",
                     elements |-> least, optimal_size |-> k, optimality_proven |-> TRUE,
                     uniqueness_proven |-> ~cut /\ found = 1,
                     truncated |-> cut, found |-> found, witness |-> 0],
         NEW spent
  PROVE  Sound(in, r, spent)
<1> DEFINE K == Candidates(in)
           G == Reduce(in)
           M == CoversOf(K, G, k)
<1>1. /\ r.status = IF found > 1 THEN "Ambiguous" ELSE "Resolved"
      /\ r.elements = least /\ r.optimal_size = k /\ r.optimality_proven = TRUE
      /\ r.uniqueness_proven = (~cut /\ found = 1) /\ r.truncated = cut
  OBVIOUS
<1>2. least \in M /\ least \in SUBSET K /\ Cardinality(least) = k /\ Uncovered(G, least) = {}
  BY DEF LexLeast, CoversOf
<1>3. Minima(in) = M
  BY <1>2, MinimaAre
<1>4. least \in Localizations(in)
  BY <1>2, ReduceExact
<1>5. Cardinality(M) \in Nat
  BY InputSystem, CoversFinite, FS_CardinalityType
<1>6. r \in ResultType(K)
  <2>1. (IF found > 1 THEN "Ambiguous" ELSE "Resolved") \in Statuses
    BY DEF Statuses
  <2>2. (~cut /\ found = 1) \in BOOLEAN
    OBVIOUS
  <2> QED
    BY <2>1, <2>2, <1>2 DEF ResultType
<1>7. ExactIf(in, r, spent)
  <2>1. r.status # "ProvenInfeasible" /\ r.status # "Indeterminate"
    BY <1>1
  <2>2. r.status = "Ambiguous" => Cardinality(M) > 1
    BY <1>1, <1>5
  <2>3. r.uniqueness_proven => Cardinality(M) = 1
    BY <1>1
  <2>4. r.status = "Resolved" => r.uniqueness_proven \/ CutShort(r)
    <3>1. r.status = "Resolved" => ~(found > 1)
      BY <1>1
    <3>2. ~(found > 1) => found = 1
      OBVIOUS
    <3> QED
      BY <3>1, <3>2, <1>1 DEF CutShort
  <2>5. TrueSize(in, r.optimal_size)
    BY <1>1, <1>3 DEF TrueSize, CoversOf
  <2> QED
    BY <2>1, <2>2, <2>3, <2>4, <2>5, <1>1, <1>2, <1>3, <1>4 DEF ExactIf
<1>8. ASSUME Cardinality(K) <= ReferenceMax \/ r.status = "ProvenInfeasible", NEW o
       PROVE  Verified(in, r, o)
  <2>1. Cardinality(K) <= ReferenceMax
    BY <1>1, <1>8
  <2>2. Referred(in, k, Reference(in))
    BY <2>1, ReferenceFinds
  <2>3. PICK ref : ref = Reference(in)
    OBVIOUS
  <2>4. ref.optimal_size = k /\ LexLeast(ref.elements, M)
    BY <2>2, <2>3 DEF Referred
  <2>5. ref.elements = least
    <3>1. K \subseteq Nat /\ M \subseteq SUBSET K
      BY CandidateFacts DEF CoversOf
    <3> HIDE DEF M, K
    <3> QED
      BY <3>1, <2>4, LexLeastOnly DEF M, K
  <2>6. ~cut => (ref.status = "Ambiguous" <=> r.status = "Ambiguous")
    <3>1. ref.status = "Ambiguous" <=> Cardinality(M) > 1 /\ in.max_solutions > 1
      BY <2>2, <2>3 DEF Referred
    <3>2. r.status = "Ambiguous" <=> found > 1
      BY <1>1
    <3> QED
      BY <3>1, <3>2
  <2>7. ReferenceAgrees(in, r)
    BY <2>3, <2>4, <2>5, <2>6, <1>1 DEF ReferenceAgrees
  <2>8. r.elements \subseteq K /\ \A S \in ToSet(in.failure_sets) : S \cap r.elements # {}
    BY <1>1, <1>2, <1>4 DEF Localizations
  <2>9. r.status # "ProvenInfeasible" /\ r.status # "InvalidInput"
    BY <1>1
  <2> QED
    BY <2>1, <2>7, <2>8, <2>9 DEF Verified
<1> QED
  BY <1>6, <1>7, <1>8 DEF Sound

(* A cover without a claim is sound once the budget is spent. *)
LEMMA GreedySound ==
  ASSUME NEW in, InputType(in), EmptySets(in) = {}, NEW r \in ResultType(Candidates(in)),
         r.status = "Indeterminate", ~r.optimality_proven, ~r.uniqueness_proven,
         TrueSize(in, r.optimal_size), Uncovered(Reduce(in), r.elements) = {}, NEW spent, spent
  PROVE  Sound(in, r, spent)
<1>1. r.elements \in SUBSET Candidates(in)
  BY DEF ResultType
<1>2. r.elements \in Localizations(in)
  BY <1>1, ReduceExact
<1>3. ExactIf(in, r, spent)
  BY <1>2 DEF ExactIf
<1>4. \A o : Verified(in, r, o)
  BY <1>1, <1>2 DEF Verified, Localizations
<1> QED
  BY <1>3, <1>4 DEF Sound

-----------------------------------------------------------------------------
Probe == [begin_hop : Nat, end_hop : Nat, success : BOOLEAN]

RequestType ==
  /\ limits \in [hop_count : HopCounts, budget : Budgets, max_solutions : SolutionCaps]
  /\ probes \in Seq(Probe)
  /\ sets \in Seq(SUBSET Nat)

(* What the solver may rely on. *)
RequestFacts(in, outcome, lim) ==
  /\ InputType(in)
  /\ lim.budget \in Nat /\ lim.max_solutions \in Nat /\ in.max_solutions = lim.max_solutions
  /\ outcome = "Ok" => Cardinality(Candidates(in)) <= MaxCandidates /\ lim.max_solutions > 0

(* The hops of a valid probe are on the path. *)
LEMMA HopsOnPath ==
  ASSUME NEW n \in Nat, NEW p \in Probe, ~(p.end_hop <= p.begin_hop \/ p.end_hop > n)
  PROVE  Hops(p) \subseteq 0..(n - 1)
  BY DEF Hops, Probe

(* A validated input has at most MaxCandidates candidates. *)
LEMMA CandidateCount ==
  ASSUME NEW in, in.element_count \in Nat, in.proven_ok \subseteq 0..(in.element_count - 1),
         ~(in.element_count - Cardinality(in.proven_ok) > MaxCandidates)
  PROVE  Cardinality(Candidates(in)) <= MaxCandidates
<1>1. PICK n \in Nat : n = in.element_count
  OBVIOUS
<1> DEFINE A == 0..(n - 1)
<1>2. IsFiniteSet(A) /\ Cardinality(A) = n
  <2>1. PICK z \in Int, y \in Int : z = 0 /\ y = n - 1
    OBVIOUS
  <2>2. IsFiniteSet(z..y) /\ Cardinality(z..y) = IF z > y THEN 0 ELSE y - z + 1
    BY FS_Interval
  <2>3. (IF z > y THEN 0 ELSE y - z + 1) = n
    BY <2>1
  <2> QED
    BY <2>1, <2>2, <2>3
<1>3. PICK ok \in SUBSET A : ok = in.proven_ok
  BY <1>1
<1>4. Candidates(in) = A \ ok /\ A \cap ok = ok
  BY <1>1, <1>3 DEF Candidates
<1> HIDE DEF A
<1>5. Cardinality(Candidates(in)) = n - Cardinality(ok) /\ Cardinality(ok) \in Nat
  <2>1. Cardinality(ok) \in Nat
    BY <1>2, FiniteParts
  <2>2. Cardinality(A \ ok) = Cardinality(A) - Cardinality(A \cap ok)
    BY <1>2, FS_Difference
  <2> QED
    BY <2>1, <2>2, <1>2, <1>4
<1>6. MaxCandidates \in Nat
  BY ConstraintAssumption
<1> QED
  BY <1>1, <1>3, <1>5, <1>6

(* What validation establishes: at most MaxCandidates candidates and a positive cap. *)
LEMMA Requested ==
  ASSUME RequestType
  PROVE  RequestFacts(Request, RequestOutcome, limits)
<1>1. limits.hop_count \in Nat /\ limits.budget \in Nat /\ limits.max_solutions \in Nat
  BY LocalizerAssumption DEF RequestType
<1>2. PICK in : in = Request
  OBVIOUS
<1>3. in.element_count = limits.hop_count /\ in.max_solutions = limits.max_solutions
  BY <1>2 DEF Request, BuildInput, SetsInput
<1>4. DOMAIN in.failure_sets \subseteq Nat
  <2>1. CASE sets = <<>>
    BY <2>1, <1>2 DEF Request, BuildInput
  <2>2. CASE sets # <<>>
    <3>1. in.failure_sets = sets
      BY <2>2, <1>2 DEF Request, SetsInput
    <3> QED
      BY <3>1 DEF RequestType
  <2> QED
    BY <2>1, <2>2
<1>5. ASSUME RequestOutcome = "Ok"
      PROVE  Cardinality(Candidates(in)) <= MaxCandidates /\ limits.max_solutions > 0
  <2>1. ValidateInput(in) = "Ok"
    BY <1>2, <1>5 DEF RequestOutcome
  <2>2. ~(in.element_count - Cardinality(in.proven_ok) > MaxCandidates) /\ in.max_solutions # 0
    BY <2>1 DEF ValidateInput
  <2>3. in.proven_ok \subseteq 0..(in.element_count - 1)
    <3>1. CASE sets = <<>>
      <4>1. ProbesOutcome(limits, probes) = "Ok"
        BY <3>1, <1>5 DEF RequestOutcome
      <4>2. \A p \in ToSet(probes) : ~(p.end_hop <= p.begin_hop \/ p.end_hop > limits.hop_count)
        BY <4>1 DEF ProbesOutcome
      <4>3. \A p \in ToSet(probes) : p \in Probe
        BY DEF RequestType, ToSet
      <4>4. \A p \in ToSet(probes) : Hops(p) \subseteq 0..(limits.hop_count - 1)
        BY <4>2, <4>3, <1>1, HopsOnPath
      <4>5. in.proven_ok = UNION {Hops(p) : p \in {q \in ToSet(probes) : q.success}}
        BY <3>1, <1>2 DEF Request, BuildInput
      <4> QED
        BY <4>4, <4>5, <1>3
    <3>2. CASE sets # <<>>
      BY <3>2, <1>2 DEF Request, SetsInput
    <3> QED
      BY <3>1, <3>2
  <2>4. Cardinality(Candidates(in)) <= MaxCandidates
    BY <2>2, <2>3, <1>1, <1>3, CandidateCount
  <2> QED
    BY <2>2, <2>4, <1>1, <1>3
<1> QED
  BY <1>1, <1>2, <1>3, <1>4, <1>5 DEF RequestFacts, InputType

(* The search does not change its request. *)
LEMMA RequestKept ==
  ASSUME UNCHANGED request
  PROVE  /\ Request' = Request /\ RequestOutcome' = RequestOutcome /\ limits' = limits
         /\ C' = C /\ F' = F
<1>1. limits' = limits /\ probes' = probes /\ sets' = sets
  BY DEF request
<1> QED
  BY <1>1 DEF Request, RequestOutcome, C, F

-----------------------------------------------------------------------------
(* The phases of a call. *)
Searching(in, outcome) == outcome = "Ok" /\ EmptySets(in) = {} /\ Reduce(in) # {}

PackPhase(K, G, lim, p, o) ==
  PackInv(K, G, p) /\ OracleBase(K, G, o) /\ o.budget = lim.budget /\ o.stack = <<>>

SizePhase(K, G, lim, k, o) ==
  /\ k \in Nat /\ k > 0 /\ NoSmaller(K, G, k)
  /\ OracleInv(K, G, o, G, k, 0) /\ o.budget = lim.budget

EnumPhase(K, G, lim, k, o, e) ==
  /\ k \in Nat /\ k > 0 /\ NoSmaller(K, G, k) /\ CoversOf(K, G, k) # {}
  /\ EnumInv(K, G, k, e)
  /\ OracleBase(K, G, o) /\ o.budget = lim.budget
  /\ ~e.truncated => e.found < lim.max_solutions
  /\ e.truncated => e.found >= lim.max_solutions \/ e.nodes > e.budget \/ o.exhausted

AheadOf(K, k, e) == IF Cardinality(e.current) = k THEN {} ELSE {c \in K : c >= e.next}

(* The question about the next candidate. *)
AskPhase(K, G, k, o, e) ==
  /\ ~e.truncated /\ AheadOf(K, k, e) # {}
  /\ OracleInv(K, G, o, Rest(Uncovered(G, e.current), Min(AheadOf(K, k, e))),
               k - Cardinality(e.current) - 1, Min(AheadOf(K, k, e)) + 1)

GreedyPhase(in, K, o, res, spent) ==
  /\ res \in ResultType(K) /\ res.status = "Indeterminate"
  /\ ~res.optimality_proven /\ ~res.uniqueness_proven
  /\ TrueSize(in, res.optimal_size)
  /\ o.stack = <<>> /\ spent

VerifyPhase(in, o, res, spent) ==
  Sound(in, res, spent) /\ (res.status = "Indeterminate" => o.stack = <<>>)

Phase(at, in, outcome, lim, p, k, o, e, res, spent) ==
  LET K == Candidates(in)
      G == Reduce(in)
  IN \/ at = "idle"
     \/ at = "pack" /\ Searching(in, outcome) /\ PackPhase(K, G, lim, p, o)
     \/ at = "size" /\ Searching(in, outcome) /\ SizePhase(K, G, lim, k, o)
     \/ at = "enumerate" /\ Searching(in, outcome) /\ EnumPhase(K, G, lim, k, o, e) /\ o.stack = <<>>
     \/ /\ at = "ask" /\ Searching(in, outcome)
        /\ EnumPhase(K, G, lim, k, o, e) /\ AskPhase(K, G, k, o, e)
     \/ at = "greedy" /\ Searching(in, outcome) /\ GreedyPhase(in, K, o, res, spent)
     \/ at = "verify" /\ VerifyPhase(in, o, res, spent)

(* What is published, with the state of the budget and the oracle as parameters. *)
Truthful(in, pub, spent) ==
  \A q \in {z \in pub : z.outcome = "Ok"} :
    IF q.confirmed THEN ExactIf(in, q.result, spent)
    ELSE /\ q.result.status = "Indeterminate" /\ q.result.elements = {}
         /\ ~q.result.optimality_proven /\ ~q.result.uniqueness_proven
         /\ TrueSize(in, q.result.optimal_size)
         /\ Localizations(in) # {}

Strict(in, pub, n, o) ==
  Cardinality(Candidates(in)) <= ReferenceMax =>
    /\ \A q \in pub : q.outcome = "Ok" => q.confirmed
    /\ \A q \in {z \in pub : z.result.optimality_proven} :
         \A H \in SUBSET Candidates(in), k \in 0..n :
           Verified(in, [q.result EXCEPT !.elements = H, !.optimal_size = k], o) =>
             H = q.result.elements /\ k = q.result.optimal_size

PublishedOK ==
  /\ pc # "idle" => published = {}
  /\ Truthful(Request, published, BudgetSpent)
  /\ Strict(Request, published, limits.hop_count, oracle)

LocalizerInv ==
  /\ RequestType
  /\ Phase(pc, Request, RequestOutcome, limits, packing, size, oracle, enum, result, BudgetSpent)
  /\ PublishedOK

(* Exact with the budget as a parameter. *)
LEMMA ExactAs ==
  ASSUME NEW in, NEW res
  PROVE  Exact(in, res) <=> ExactIf(in, res, BudgetSpent)
  BY DEF Exact, ExactIf

(* The invariant has both properties. *)
LEMMA InvImplies ==
  ASSUME LocalizerInv
  PROVE  LocalizationExact /\ VerifierExact
<1>1. ASSUME pc = "verify" PROVE Exact(Request, result)
  BY <1>1, ExactAs DEF LocalizerInv, Phase, VerifyPhase, Sound
<1>2. ASSUME pc = "enumerate", enum.truncated
      PROVE  enum.found >= limits.max_solutions \/ BudgetSpent
  <2>1. EnumPhase(C, F, limits, size, oracle, enum)
    BY <1>2 DEF LocalizerInv, Phase, C, F
  <2> QED
    BY <2>1, <1>2 DEF EnumPhase, OracleBase, BudgetSpent
<1>3. LocalizationExact
  BY <1>1, <1>2, ExactAs DEF LocalizerInv, PublishedOK, Truthful, LocalizationExact
<1>4. VerifierExact
  BY DEF LocalizerInv, PublishedOK, Strict, VerifierExact, ResultsConfirmed, C
<1> QED
  BY <1>3, <1>4

(* The invariant holds before the first request. *)
LEMMA InitHolds ==
  ASSUME Init
  PROVE  LocalizerInv
<1>1. RequestType
  BY DEF Init, RequestType
<1>2. Phase(pc, Request, RequestOutcome, limits, packing, size, oracle, enum, result, BudgetSpent)
  BY DEF Init, Phase
<1>3. PublishedOK
  BY DEF Init, PublishedOK, Truthful, Strict
<1> QED
  BY <1>1, <1>2, <1>3 DEF LocalizerInv

-----------------------------------------------------------------------------
(* A step that keeps the request keeps the invariant if it leads to a state of its phase. *)
LEMMA StepKeeps ==
  ASSUME LocalizerInv, UNCHANGED request, published' = {},
         Phase(pc', Request, RequestOutcome, limits, packing', size', oracle', enum', result',
               BudgetSpent')
  PROVE  LocalizerInv'
<1>1. RequestType'
  BY DEF LocalizerInv, RequestType, request
<1>2. Phase(pc, Request, RequestOutcome, limits, packing, size, oracle, enum, result, BudgetSpent)'
  BY RequestKept
<1>3. PublishedOK'
  BY DEF PublishedOK, Truthful, Strict
<1> QED
  BY <1>1, <1>2, <1>3 DEF LocalizerInv

(* What every step needs to know of the request. *)
LEMMA Working ==
  ASSUME LocalizerInv
  PROVE  /\ RequestFacts(Request, RequestOutcome, limits)
         /\ System(C, F)
         /\ pc # "idle" => published = {}
<1>1. RequestFacts(Request, RequestOutcome, limits)
  BY Requested DEF LocalizerInv
<1>2. System(C, F)
  BY <1>1, InputSystem DEF RequestFacts, C, F
<1> QED
  BY <1>1, <1>2 DEF LocalizerInv, PublishedOK

(* Starting. *)
LEMMA OracleFresh ==
  ASSUME NEW K, NEW G, NEW b \in Nat
  PROVE  OracleBase(K, G, Oracle(b)) /\ Oracle(b).budget = b /\ Oracle(b).stack = <<>>
<1>1. <<>> \in Memo(G) /\ DOMAIN <<>> = {}
  <2>1. <<>> \in [{} -> BOOLEAN]
    OBVIOUS
  <2> QED
    BY <2>1 DEF Memo
<1>2. <<>> \in Seq(Frame(K, G))
  OBVIOUS
<1>3. Oracle(b) \in OracleType(K, G)
  BY <1>1, <1>2 DEF Oracle, OracleType
<1>4. MemoSound(K, Oracle(b).memo)
  BY <1>1 DEF Oracle, MemoSound
<1> QED
  BY <1>3, <1>4 DEF OracleBase, Oracle

(* The steps up to the proof of the size. *)
LEMMA StartSearchKeeps ==
  ASSUME LocalizerInv, StartSearch
  PROVE  LocalizerInv'
<1>1. RequestFacts(Request, RequestOutcome, limits) /\ System(C, F)
  BY Working
<1>2. PackInv(C, F, packing')
  BY <1>1, PackStarts DEF StartSearch
<1>3. oracle' = Oracle(limits.budget) /\ limits.budget \in Nat
  BY <1>1 DEF StartSearch, RequestFacts
<1>4. OracleBase(C, F, oracle') /\ oracle'.budget = limits.budget /\ oracle'.stack = <<>>
  BY <1>3, OracleFresh
<1>5. Searching(Request, RequestOutcome) /\ pc' = "pack"
  BY DEF StartSearch, Searching, F
<1>6. Phase(pc', Request, RequestOutcome, limits, packing', size', oracle', enum', result',
               BudgetSpent')
  BY <1>2, <1>4, <1>5 DEF Phase, PackPhase, C, F
<1> QED
  BY <1>6, StepKeeps DEF StartSearch

(* Pack keeps the invariant: the packing stays a lower bound. *)
LEMMA PackStep ==
  ASSUME LocalizerInv, Pack
  PROVE  LocalizerInv'
<1>1. System(C, F) /\ published = {}
  BY Working DEF Pack
<1>2. Searching(Request, RequestOutcome) /\ PackPhase(C, F, limits, packing, oracle)
  BY DEF LocalizerInv, Phase, Pack, C, F
<1>3. PackInv(C, F, packing')
  BY <1>1, <1>2, PackKeeps DEF Pack, PackPhase
<1>4. Phase(pc', Request, RequestOutcome, limits, packing', size', oracle', enum', result',
               BudgetSpent')
  BY <1>2, <1>3 DEF Phase, PackPhase, C, F, Pack
<1> QED
  BY <1>1, <1>4, StepKeeps DEF Pack

(* A question about a size. *)
LEMMA SizeAsked ==
  ASSUME NEW K, NEW G, System(K, G), NEW lim, NEW k \in Nat, k > 0, NoSmaller(K, G, k),
         NEW o, OracleBase(K, G, o), o.budget = lim.budget, o.stack = <<>>
  PROVE  SizePhase(K, G, lim, k, Enter(G, o, G, k, 0))
<1>1. G \in SUBSET G /\ 0 \in Nat
  OBVIOUS
<1>2. OracleInv(K, G, Enter(G, o, G, k, 0), G, k, 0) /\ Enter(G, o, G, k, 0).budget = o.budget
  BY <1>1, EnterAsks
<1> QED
  BY <1>2 DEF SizePhase

(* Packed keeps it: the size asked first is at most that of every cover. *)
LEMMA PackedStep ==
  ASSUME LocalizerInv, Packed
  PROVE  LocalizerInv'
<1>1. System(C, F) /\ published = {}
  BY Working DEF Packed
<1>2. Searching(Request, RequestOutcome) /\ PackPhase(C, F, limits, packing, oracle) /\ F # {}
  BY DEF LocalizerInv, Phase, Packed, C, F, Searching
<1>3. StartSize \in Nat /\ StartSize > 0 /\ NoSmaller(C, F, StartSize)
  BY <1>1, <1>2, PackBounds DEF PackPhase, StartSize
<1>4. size' = StartSize /\ oracle' = Enter(F, oracle, F, StartSize, 0)
  BY DEF Packed, AskSize
<1>5. SizePhase(C, F, limits, size', oracle')
  BY <1>1, <1>2, <1>3, <1>4, SizeAsked DEF PackPhase
<1>6. Phase(pc', Request, RequestOutcome, limits, packing', size', oracle', enum', result',
               BudgetSpent')
  BY <1>2, <1>5 DEF Phase, C, F, Packed
<1> QED
  BY <1>1, <1>6, StepKeeps DEF Packed

(* SizeTooSmall keeps it: the size just asked is refuted. *)
LEMMA SizeTooSmallStep ==
  ASSUME LocalizerInv, SizeTooSmall
  PROVE  LocalizerInv'
<1>1. System(C, F) /\ published = {}
  BY Working DEF SizeTooSmall
<1>2. Searching(Request, RequestOutcome) /\ SizePhase(C, F, limits, size, oracle)
  BY DEF LocalizerInv, Phase, SizeTooSmall, C, F
<1>3. size \in Nat /\ NoSmaller(C, F, size) /\ ~Coverable(C, F, size, 0)
  BY <1>2 DEF SizePhase, OracleInv, SizeTooSmall
<1>4. size + 1 \in Nat /\ size + 1 > 0 /\ NoSmaller(C, F, size + 1)
  BY <1>1, <1>3, NextSize
<1>5. OracleBase(C, F, oracle) /\ oracle.budget = limits.budget /\ oracle.stack = <<>>
  BY <1>2 DEF SizePhase, OracleInv, SizeTooSmall
<1>6. size' = size + 1 /\ oracle' = Enter(F, oracle, F, size + 1, 0)
  BY DEF SizeTooSmall, AskSize
<1>7. SizePhase(C, F, limits, size', oracle')
  BY <1>1, <1>4, <1>5, <1>6, SizeAsked
<1>8. Phase(pc', Request, RequestOutcome, limits, packing', size', oracle', enum', result',
               BudgetSpent')
  BY <1>2, <1>7 DEF Phase, C, F, SizeTooSmall
<1> QED
  BY <1>1, <1>8, StepKeeps DEF SizeTooSmall

(* The result from which the greedy fallback starts. *)
LEMMA UndecidedType ==
  ASSUME NEW K
  PROVE  [Unanswered EXCEPT !.status = "Indeterminate"] \in ResultType(K)
  BY DEF Unanswered, ResultType, Statuses

(* The size stays unproven only when the oracle has used up the budget: the sizes never run
   out, since all candidates together are a cover. *)
LEMMA SizeUnprovenStep ==
  ASSUME LocalizerInv, SizeUnproven
  PROVE  LocalizerInv'
<1>1. System(C, F) /\ published = {} /\ RequestFacts(Request, RequestOutcome, limits)
  BY Working DEF SizeUnproven
<1>2. Searching(Request, RequestOutcome) /\ SizePhase(C, F, limits, size, oracle)
  BY DEF LocalizerInv, Phase, SizeUnproven, C, F
<1>3. oracle.exhausted
  <2> SUFFICES ASSUME ~oracle.exhausted PROVE FALSE
    OBVIOUS
  <2>1. size \in Nat /\ ~Coverable(C, F, size, 0) /\ size >= MaxCandidates
    BY <1>2 DEF SizePhase, OracleInv, SizeUnproven
  <2>2. Cardinality(C) <= MaxCandidates
    BY <1>1, <1>2 DEF RequestFacts, Searching, C
  <2>3. Cardinality(C) \in Nat /\ MaxCandidates \in Nat
    BY <1>1, FS_CardinalityType, ConstraintAssumption DEF System
  <2>4. Cardinality(C) <= size
    BY <2>1, <2>2, <2>3
  <2> QED
    BY <2>1, <2>4, <1>1, AllCover
<1>4. BudgetSpent /\ BudgetSpent'
  <2>1. oracle.nodes > limits.budget
    BY <1>2, <1>3 DEF SizePhase, OracleInv, OracleBase
  <2>2. limits' = limits /\ oracle' = oracle
    BY RequestKept DEF SizeUnproven
  <2> QED
    BY <2>1, <2>2 DEF BudgetSpent
<1>5. PICK r : r = result' /\ r = [Unanswered EXCEPT !.status = "Indeterminate"]
  BY DEF SizeUnproven
<1>6. r \in ResultType(C)
  BY <1>5, UndecidedType
<1>7. /\ r.status = "Indeterminate" /\ r.optimality_proven = FALSE /\ r.uniqueness_proven = FALSE
      /\ TrueSize(Request, r.optimal_size)
  BY <1>5 DEF Unanswered, TrueSize
<1>8. GreedyPhase(Request, C, oracle', result', BudgetSpent')
  BY <1>4, <1>5, <1>6, <1>7 DEF GreedyPhase, SizeUnproven
<1>9. Phase(pc', Request, RequestOutcome, limits, packing', size', oracle', enum', result',
               BudgetSpent')
  BY <1>2, <1>8 DEF Phase, C, F, SizeUnproven
<1> QED
  BY <1>1, <1>9, StepKeeps DEF SizeUnproven

(* SizeProven keeps it: the size is that of the minima, none of them is passed. *)
LEMMA SizeProvenStep ==
  ASSUME LocalizerInv, SizeProven
  PROVE  LocalizerInv'
<1>1. System(C, F) /\ published = {} /\ RequestFacts(Request, RequestOutcome, limits)
  BY Working DEF SizeProven
<1>2. Searching(Request, RequestOutcome) /\ SizePhase(C, F, limits, size, oracle)
  BY DEF LocalizerInv, Phase, SizeProven, C, F
<1>3. size \in Nat /\ size > 0 /\ NoSmaller(C, F, size) /\ Coverable(C, F, size, 0)
  BY <1>2 DEF SizePhase, OracleInv, OracleBase, SizeProven
<1>4. CoversOf(C, F, size) # {}
  BY <1>1, <1>3, SizeReached
<1>5. OracleBase(C, F, oracle) /\ oracle.budget = limits.budget /\ oracle.stack = <<>>
  BY <1>2 DEF SizePhase, OracleInv, SizeProven
<1>6. PICK b \in Nat : b = IF limits.budget > oracle.nodes THEN limits.budget - oracle.nodes ELSE 1
  <2>1. limits.budget \in Nat /\ oracle.nodes \in Nat
    BY <1>1, <1>5 DEF RequestFacts, OracleBase, OracleType
  <2> QED
    BY <2>1
<1>7. PICK e : e = [NotStarted EXCEPT !.budget = b]
  OBVIOUS
<1>8. enum' = e
  BY <1>6, <1>7 DEF SizeProven
<1>9. EnumInv(C, F, size, e)
  <2>1. e \in EnumType(C) /\ e.current = {} /\ e.next = 0 /\ e.found = 0
    BY <1>7 DEF EnumType, NotStarted
  <2> QED
    BY <2>1, <1>1, <1>3, EnumStarts
<1>10. e.truncated = FALSE /\ e.found < limits.max_solutions
  BY <1>1, <1>2, <1>7 DEF RequestFacts, Searching, NotStarted
<1>11. EnumPhase(C, F, limits, size', oracle', enum') /\ oracle'.stack = <<>>
  BY <1>3, <1>4, <1>5, <1>8, <1>9, <1>10 DEF EnumPhase, SizeProven
<1>12. Phase(pc', Request, RequestOutcome, limits, packing', size', oracle', enum', result',
               BudgetSpent')
  BY <1>2, <1>11 DEF Phase, C, F, SizeProven
<1> QED
  BY <1>1, <1>12, StepKeeps DEF SizeProven

(* Only an undecided result depends on the budget. *)
LEMMA SoundUnlessUndecided ==
  ASSUME NEW in, NEW res, NEW spent, NEW spent2, Sound(in, res, spent), res.status # "Indeterminate"
  PROVE  Sound(in, res, spent2)
  BY DEF Sound, ExactIf

(* The oracle at work, for either of the three who ask. *)
LEMMA OracleStep ==
  ASSUME LocalizerInv, OracleTries \/ OracleReturns
  PROVE  LocalizerInv'
<1>1. System(C, F) /\ published = {}
  BY Working DEF OracleTries, OracleReturns, Asking
<1>2. /\ pc' = pc /\ size' = size /\ enum' = enum /\ result' = result /\ published' = published
      /\ UNCHANGED request /\ oracle.stack # <<>> /\ pc \in {"size", "ask", "verify"}
  BY DEF OracleTries, OracleReturns, Asking
<1>3. ASSUME NEW m, NEW k, NEW lo, OracleInv(C, F, oracle, m, k, lo)
      PROVE  OracleInv(C, F, oracle', m, k, lo) /\ oracle'.budget = oracle.budget
  <2>1. CASE OracleTries
    BY <2>1, <1>1, <1>2, <1>3, TryKeeps DEF OracleTries
  <2>2. CASE OracleReturns
    BY <2>2, <1>1, <1>2, <1>3, ReturnKeeps DEF OracleReturns
  <2> QED
    BY <2>1, <2>2
<1>4. CASE pc = "size"
  <2>1. Searching(Request, RequestOutcome) /\ SizePhase(C, F, limits, size, oracle)
    BY <1>4 DEF LocalizerInv, Phase, C, F
  <2>2. SizePhase(C, F, limits, size', oracle')
    BY <2>1, <1>2, <1>3 DEF SizePhase
  <2>3. Phase(pc', Request, RequestOutcome, limits, packing', size', oracle', enum', result',
              BudgetSpent')
    BY <2>1, <2>2, <1>2, <1>4 DEF Phase, C, F
  <2> QED
    BY <2>3, <1>1, <1>2, StepKeeps
<1>5. CASE pc = "ask"
  <2>1. /\ Searching(Request, RequestOutcome) /\ EnumPhase(C, F, limits, size, oracle, enum)
        /\ AskPhase(C, F, size, oracle, enum)
    BY <1>5 DEF LocalizerInv, Phase, C, F
  <2>2. AskPhase(C, F, size', oracle', enum') /\ oracle'.budget = oracle.budget
    BY <2>1, <1>2, <1>3 DEF AskPhase
  <2>3. EnumPhase(C, F, limits, size', oracle', enum')
    <3>1. OracleBase(C, F, oracle') /\ ~enum.truncated
      BY <2>1, <2>2 DEF AskPhase, OracleInv
    <3> QED
      BY <3>1, <2>1, <2>2, <1>2 DEF EnumPhase
  <2>4. Phase(pc', Request, RequestOutcome, limits, packing', size', oracle', enum', result',
              BudgetSpent')
    BY <2>1, <2>2, <2>3, <1>2, <1>5 DEF Phase, C, F
  <2> QED
    BY <2>4, <1>1, <1>2, StepKeeps
<1>6. CASE pc = "verify"
  <2>1. VerifyPhase(Request, oracle, result, BudgetSpent)
    BY <1>6 DEF LocalizerInv, Phase
  <2>2. result.status # "Indeterminate"
    BY <2>1, <1>2 DEF VerifyPhase
  <2>3. Sound(Request, result, BudgetSpent')
    BY <2>1, <2>2, SoundUnlessUndecided DEF VerifyPhase
  <2>4. Phase(pc', Request, RequestOutcome, limits, packing', size', oracle', enum', result',
              BudgetSpent')
    BY <2>2, <2>3, <1>2, <1>6 DEF Phase, VerifyPhase
  <2> QED
    BY <2>4, <1>1, <1>2, StepKeeps
<1> QED
  BY <1>2, <1>4, <1>5, <1>6

-----------------------------------------------------------------------------
(* The enumerator's steps. *)
LEMMA AheadIs ==
  Ahead = AheadOf(C, size, enum) /\ Open = Uncovered(F, enum.current)
  BY DEF Ahead, AheadOf, Open

(* The next candidate. *)
LEMMA NextCandidate ==
  ASSUME NEW K, NEW G, System(K, G), NEW k \in Nat, NEW e, EnumInv(K, G, k, e), AheadOf(K, k, e) # {}
  PROVE  /\ Nearest(K, e.next, Min(AheadOf(K, k, e)))
         /\ Min(AheadOf(K, k, e)) \in Nat
         /\ Min(AheadOf(K, k, e)) \in K
         /\ \A x \in e.current : x < Min(AheadOf(K, k, e))
         /\ Cardinality(e.current) # k
         /\ k - Cardinality(e.current) - 1 \in Nat
<1> DEFINE A == {c \in K : c >= e.next}
<1>1. Cardinality(e.current) # k /\ AheadOf(K, k, e) = A /\ A # {}
  BY DEF AheadOf
<1>2. A \subseteq Nat
  BY DEF System
<1>3. PICK c : c = Min(A)
  OBVIOUS
<1>4. c \in A /\ \A y \in A : c <= y
  <2> HIDE DEF A
  <2> QED
    BY <1>1, <1>2, <1>3, MinIsLeast
<1>5. c \in Nat /\ K \subseteq Nat
  BY <1>2, <1>4 DEF System
<1>6. Nearest(K, e.next, c)
  BY <1>4, <1>5 DEF Nearest
<1>7. e.current \in SUBSET K /\ e.next \in Nat /\ \A x \in e.current : x < e.next
  BY DEF EnumInv, EnumType
<1>8. ASSUME NEW x \in e.current PROVE x < c
  <2>1. x \in Nat /\ x < e.next /\ c >= e.next
    BY <1>4, <1>5, <1>7
  <2> QED
    BY <2>1, <1>5, <1>7
<1>9. Cardinality(e.current) \in Nat /\ Cardinality(e.current) <= k
  BY <1>7, FiniteParts DEF EnumInv, System
<1>10. k - Cardinality(e.current) - 1 \in Nat
  BY <1>1, <1>9
<1> QED
  BY <1>1, <1>3, <1>4, <1>5, <1>6, <1>8, <1>10

(* What every step of the enumeration starts from. *)
LEMMA Enumerating ==
  ASSUME LocalizerInv, pc = "enumerate"
  PROVE  /\ System(C, F) /\ published = {} /\ RequestFacts(Request, RequestOutcome, limits)
         /\ Searching(Request, RequestOutcome) /\ F # {}
         /\ EnumPhase(C, F, limits, size, oracle, enum) /\ oracle.stack = <<>>
         /\ size \in Nat /\ enum \in EnumType(C) /\ EnumInv(C, F, size, enum)
<1>1. /\ Searching(Request, RequestOutcome) /\ EnumPhase(C, F, limits, size, oracle, enum)
      /\ oracle.stack = <<>>
  BY DEF LocalizerInv, Phase, C, F
<1> QED
  BY <1>1, Working DEF Searching, F, EnumPhase, EnumInv

(* The enumeration goes on, or is cut short. *)
LEMMA EnumGoesOn ==
  ASSUME LocalizerInv, pc = "enumerate", pc' = "enumerate", EnumInv(C, F, size, enum'),
         UNCHANGED <<request, size, oracle, published>>,
         ~enum'.truncated => enum'.found < limits.max_solutions,
         enum'.truncated => \/ enum'.found >= limits.max_solutions
                            \/ enum'.nodes > enum'.budget
  PROVE  LocalizerInv'
<1>1. /\ published = {} /\ Searching(Request, RequestOutcome)
      /\ EnumPhase(C, F, limits, size, oracle, enum) /\ oracle.stack = <<>>
  BY Enumerating
<1>2. EnumPhase(C, F, limits, size', oracle', enum') /\ oracle'.stack = <<>>
  BY <1>1 DEF EnumPhase
<1>3. Phase(pc', Request, RequestOutcome, limits, packing', size', oracle', enum', result',
            BudgetSpent')
  BY <1>1, <1>2 DEF Phase, C, F
<1> QED
  BY <1>1, <1>3, StepKeeps

(* What Backtrack does to the enumerator. *)
LEMMA BacktrackType ==
  ASSUME NEW K, NEW G, System(K, G), NEW k \in Nat, NEW e, EnumInv(K, G, k, e), e.current # {}
  PROVE  /\ Max(e.current) \in Nat
         /\ e.current \ {Max(e.current)} \in SUBSET K
         /\ Backtrack(e) \in EnumType(K)
         /\ Backtrack(e).current = e.current \ {Max(e.current)}
         /\ Backtrack(e).next = Max(e.current) + 1
         /\ Backtrack(e).found = e.found /\ Backtrack(e).first = e.first
         /\ Backtrack(e).nodes = e.nodes /\ Backtrack(e).budget = e.budget
         /\ Backtrack(e).truncated = e.truncated
<1>1. e \in EnumType(K)
  BY DEF EnumInv
<1>2. PICK m : m = Max(e.current) /\ BackedTo(K, G, k, e, m)
  BY BacktrackFacts
<1>3. m \in e.current
  BY <1>2 DEF BackedTo
<1>4. m \in Nat /\ e.current \ {m} \in SUBSET K
  BY <1>1, <1>3 DEF EnumType, System
<1>a. PICK c \in SUBSET K, n \in Nat : c = e.current \ {m} /\ n = m + 1
  <2>1. m + 1 \in Nat
    BY <1>4
  <2> QED
    BY <2>1, <1>4, Zenon
<1>5. PICK r : r = [e EXCEPT !.current = c, !.next = n]
  OBVIOUS
<1>6. Backtrack(e) = r
  BY <1>1, <1>2, <1>5, <1>a DEF Backtrack, EnumType
<1>7. r \in EnumType(K)
  BY <1>1, <1>5 DEF EnumType
<1>8. /\ r.current = e.current \ {m} /\ r.next = m + 1 /\ r.found = e.found /\ r.first = e.first
      /\ r.nodes = e.nodes /\ r.budget = e.budget /\ r.truncated = e.truncated
  BY <1>1, <1>5, <1>a DEF EnumType
<1> QED
  BY <1>2, <1>4, <1>6, <1>7, <1>8

(* The steps of the enumeration. *)
LEMMA FoundCoverStep ==
  ASSUME LocalizerInv, FoundCover
  PROVE  LocalizerInv'
<1>1. /\ System(C, F) /\ RequestFacts(Request, RequestOutcome, limits) /\ F # {}
      /\ size \in Nat /\ enum \in EnumType(C) /\ EnumInv(C, F, size, enum) /\ pc = "enumerate"
      /\ NoSmaller(C, F, size)
  BY Enumerating DEF FoundCover, EnumPhase
<1>2. Uncovered(F, enum.current) = {}
  BY DEF FoundCover, Open
<1>3. enum.current # {}
  BY <1>1, <1>2 DEF Uncovered
<1>4. PICK back \in EnumType(C) :
        /\ back = Backtrack(enum)
        /\ back.current = enum.current \ {Max(enum.current)} /\ back.next = Max(enum.current) + 1
        /\ back.found = enum.found /\ back.nodes = enum.nodes /\ back.budget = enum.budget
        /\ back.first = enum.first
  BY <1>1, <1>3, BacktrackType
<1>5. enum.found \in Nat /\ enum.current \in SUBSET C /\ enum.first \in SUBSET C
  BY <1>1 DEF EnumType
<1>6. PICK f \in Nat, s \in SUBSET C :
        f = enum.found + 1 /\ s = IF enum.found = 0 THEN enum.current ELSE enum.first
  BY <1>5
<1>t. PICK t \in BOOLEAN : t = (enum.found + 1 >= limits.max_solutions)
  <2>1. (enum.found + 1 >= limits.max_solutions) \in BOOLEAN
    OBVIOUS
  <2> QED
    BY <2>1, Zenon
<1>7. enum' = [back EXCEPT !.found = f, !.first = s, !.truncated = t]
  BY <1>4, <1>6, <1>t DEF FoundCover, EnumType
<1>8. /\ enum' \in EnumType(C) /\ enum'.current = back.current /\ enum'.next = back.next
      /\ enum'.found = f /\ enum'.first = s /\ enum'.truncated = t
  BY <1>7 DEF EnumType
<1>9. EnumInv(C, F, size, enum')
  BY <1>1, <1>2, <1>4, <1>6, <1>8, EnumFinds
<1>10. /\ ~enum'.truncated => enum'.found < limits.max_solutions
       /\ enum'.truncated => enum'.found >= limits.max_solutions
  <2>1. enum'.truncated <=> enum.found + 1 >= limits.max_solutions
    BY <1>8, <1>t
  <2>2. enum'.found = enum.found + 1 /\ limits.max_solutions \in Nat
    BY <1>1, <1>6, <1>8 DEF RequestFacts
  <2> QED
    BY <2>1, <2>2, <1>5
<1> QED
  BY <1>1, <1>9, <1>10, EnumGoesOn DEF FoundCover

(* RunReturns keeps the invariant: what is left of the position holds no cover. *)
LEMMA RunReturnsStep ==
  ASSUME LocalizerInv, RunReturns
  PROVE  LocalizerInv'
<1>1. /\ System(C, F) /\ size \in Nat /\ EnumInv(C, F, size, enum) /\ pc = "enumerate"
      /\ EnumPhase(C, F, limits, size, oracle, enum)
  BY Enumerating DEF RunReturns
<1>2. /\ enum.current # {} /\ Uncovered(F, enum.current) # {} /\ ~enum.truncated
      /\ Cardinality(enum.current) = size \/ \A c \in C : ~(c >= enum.next)
      /\ enum' = Backtrack(enum)
  BY DEF RunReturns, Open, Ahead
<1>3. /\ enum' \in EnumType(C)
      /\ enum'.current = enum.current \ {Max(enum.current)} /\ enum'.next = Max(enum.current) + 1
      /\ enum'.found = enum.found /\ enum'.first = enum.first /\ enum'.truncated = enum.truncated
  BY <1>1, <1>2, BacktrackType
<1>4. EnumInv(C, F, size, enum')
  BY <1>1, <1>2, <1>3, EnumReturns
<1>5. ~enum'.truncated /\ enum'.found < limits.max_solutions
  BY <1>1, <1>2, <1>3 DEF EnumPhase
<1> QED
  BY <1>1, <1>4, <1>5, EnumGoesOn DEF RunReturns

(* The counters of the enumerator are not part of its position. *)
LEMMA EnumSame ==
  ASSUME NEW K, NEW G, NEW k, NEW e, EnumInv(K, G, k, e), NEW r \in EnumType(K),
         r.current = e.current, r.next = e.next, r.found = e.found, r.first = e.first
  PROVE  EnumInv(K, G, k, r)
  BY DEF EnumInv

(* OutOfNodes keeps the invariant, with the budget spent. *)
LEMMA OutOfNodesStep ==
  ASSUME LocalizerInv, OutOfNodes
  PROVE  LocalizerInv'
<1>1. /\ size \in Nat /\ EnumInv(C, F, size, enum) /\ pc = "enumerate" /\ enum \in EnumType(C)
  BY Enumerating DEF OutOfNodes, LookAhead
<1>2. PICK d \in Nat : d = enum.nodes + 1
  BY <1>1 DEF EnumType
<1>a. enum' = [enum EXCEPT !.nodes = d, !.truncated = TRUE]
  BY <1>1, <1>2 DEF EnumType, OutOfNodes
<1>3. /\ enum' \in EnumType(C) /\ enum'.current = enum.current /\ enum'.next = enum.next
      /\ enum'.found = enum.found /\ enum'.first = enum.first /\ enum'.truncated = TRUE
      /\ enum'.nodes = enum.nodes + 1 /\ enum'.budget = enum.budget
  BY <1>1, <1>2, <1>a DEF EnumType
<1>4. EnumInv(C, F, size, enum')
  BY <1>1, <1>3, EnumSame
<1>5. enum'.truncated /\ enum'.nodes > enum'.budget
  BY <1>3 DEF OutOfNodes
<1> QED
  BY <1>1, <1>4, <1>5, EnumGoesOn DEF OutOfNodes, LookAhead

(* SkipCandidate keeps it: no minimum contains a candidate that covers nothing open. *)
LEMMA SkipCandidateStep ==
  ASSUME LocalizerInv, SkipCandidate
  PROVE  LocalizerInv'
<1>1. /\ System(C, F) /\ size \in Nat /\ EnumInv(C, F, size, enum) /\ pc = "enumerate"
      /\ enum \in EnumType(C) /\ EnumPhase(C, F, limits, size, oracle, enum)
      /\ NoSmaller(C, F, size)
  BY Enumerating DEF SkipCandidate, LookAhead, EnumPhase
<1>2. PICK c : c = Min(Ahead)
  OBVIOUS
<1>3. AheadOf(C, size, enum) # {} /\ c = Min(AheadOf(C, size, enum))
  BY <1>2, AheadIs DEF SkipCandidate, LookAhead
<1>4. /\ Nearest(C, enum.next, c) /\ c \in Nat /\ c \in C /\ \A x \in enum.current : x < c
  BY <1>1, <1>3, NextCandidate
<1>5. enum.nodes \in Nat /\ enum.current \in SUBSET C
  BY <1>1 DEF EnumType
<1>a. PICK d \in Nat, n \in Nat : d = enum.nodes + 1 /\ n = c + 1
  BY <1>4, <1>5
<1>6. enum' = [enum EXCEPT !.nodes = d, !.next = n]
  BY <1>1, <1>2, <1>a DEF EnumType, SkipCandidate
<1>7. /\ enum' \in EnumType(C) /\ enum'.current = enum.current /\ enum'.next = c + 1
      /\ enum'.found = enum.found /\ enum'.first = enum.first /\ enum'.truncated = enum.truncated
  BY <1>1, <1>6, <1>a DEF EnumType
<1>8. Rest(Uncovered(F, enum.current), c) = Uncovered(F, enum.current)
  BY <1>2 DEF SkipCandidate, Open
<1>9. Within(CoversOf(C, F, size), enum.current, c) = {}
  BY <1>1, <1>4, <1>5, <1>8, SkipUseless
<1>10. EnumInv(C, F, size, enum')
  BY <1>1, <1>4, <1>7, <1>9, EnumSkips
<1>11. ~enum'.truncated /\ enum'.found < limits.max_solutions
  BY <1>1, <1>7 DEF EnumPhase, SkipCandidate, LookAhead
<1> QED
  BY <1>1, <1>10, <1>11, EnumGoesOn DEF SkipCandidate, LookAhead

(* AskCandidate keeps it: the oracle is asked about the open sets without the candidate's. *)
LEMMA AskCandidateStep ==
  ASSUME LocalizerInv, AskCandidate
  PROVE  LocalizerInv'
<1>1. /\ System(C, F) /\ size \in Nat /\ EnumInv(C, F, size, enum) /\ pc = "enumerate"
      /\ enum \in EnumType(C) /\ EnumPhase(C, F, limits, size, oracle, enum)
      /\ oracle.stack = <<>> /\ published = {} /\ Searching(Request, RequestOutcome)
      /\ OracleBase(C, F, oracle) /\ oracle.budget = limits.budget
  BY Enumerating DEF AskCandidate, LookAhead, EnumPhase
<1>2. PICK c : c = Min(Ahead)
  OBVIOUS
<1>3. AheadOf(C, size, enum) # {} /\ c = Min(AheadOf(C, size, enum)) /\ ~enum.truncated
  BY <1>2, AheadIs DEF AskCandidate, LookAhead
<1>4. c \in Nat /\ size - Cardinality(enum.current) - 1 \in Nat
  BY <1>1, <1>3, NextCandidate
<1>5. PICK d \in Nat : d = enum.nodes + 1
  BY <1>1 DEF EnumType
<1>6. enum' = [enum EXCEPT !.nodes = d]
  BY <1>1, <1>5 DEF EnumType, AskCandidate
<1>7. /\ enum' \in EnumType(C) /\ enum'.current = enum.current /\ enum'.next = enum.next
      /\ enum'.found = enum.found /\ enum'.first = enum.first /\ enum'.truncated = enum.truncated
  BY <1>1, <1>6 DEF EnumType
<1>8. EnumInv(C, F, size, enum')
  BY <1>1, <1>7, EnumSame
<1>9. PICK mask \in SUBSET F, j \in Nat, lo \in Nat :
        /\ mask = Rest(Uncovered(F, enum.current), c)
        /\ j = size - Cardinality(enum.current) - 1 /\ lo = c + 1
  <2>1. Rest(Uncovered(F, enum.current), c) \in SUBSET F
    BY DEF Rest, Uncovered
  <2>2. c + 1 \in Nat
    BY <1>4
  <2> QED
    BY <2>1, <2>2, <1>4, Zenon
<1>10. oracle' = Enter(F, oracle, mask, j, lo)
  BY <1>2, <1>9, AheadIs DEF AskCandidate
<1>11. OracleInv(C, F, oracle', mask, j, lo) /\ oracle'.budget = oracle.budget
  BY <1>1, <1>10, EnterAsks
<1>12. AheadOf(C, size, enum') = AheadOf(C, size, enum)
  BY <1>7 DEF AheadOf
<1>13. AskPhase(C, F, size, oracle', enum')
  BY <1>3, <1>7, <1>9, <1>11, <1>12 DEF AskPhase
<1>14. EnumPhase(C, F, limits, size, oracle', enum')
  <2>1. OracleBase(C, F, oracle')
    BY <1>11 DEF OracleInv
  <2> QED
    BY <2>1, <1>1, <1>3, <1>7, <1>8, <1>11 DEF EnumPhase
<1>15. pc' = "ask" /\ size' = size /\ UNCHANGED request /\ published' = {}
  BY <1>1 DEF AskCandidate, LookAhead
<1>16. Phase(pc', Request, RequestOutcome, limits, packing', size', oracle', enum', result',
             BudgetSpent')
  BY <1>1, <1>13, <1>14, <1>15 DEF Phase, C, F
<1> QED
  BY <1>15, <1>16, StepKeeps

(* A candidate is taken, passed for good, or the enumeration is cut short. *)
LEMMA CandidateAnsweredStep ==
  ASSUME LocalizerInv, CandidateAnswered
  PROVE  LocalizerInv'
<1>1. System(C, F) /\ published = {} /\ pc = "ask" /\ oracle.stack = <<>>
  BY Working DEF CandidateAnswered
<1>2. /\ Searching(Request, RequestOutcome) /\ EnumPhase(C, F, limits, size, oracle, enum)
      /\ AskPhase(C, F, size, oracle, enum)
  BY <1>1 DEF LocalizerInv, Phase, C, F
<1>3. size \in Nat /\ EnumInv(C, F, size, enum) /\ enum \in EnumType(C)
  BY <1>2 DEF EnumPhase, EnumInv
<1>4. PICK c : c = Min(Ahead)
  OBVIOUS
<1>5. AheadOf(C, size, enum) # {} /\ c = Min(AheadOf(C, size, enum)) /\ ~enum.truncated
  BY <1>2, <1>4, AheadIs DEF AskPhase
<1>6. /\ Nearest(C, enum.next, c) /\ c \in Nat /\ c \in C /\ \A x \in enum.current : x < c
      /\ Cardinality(enum.current) # size
  BY <1>1, <1>3, <1>5, NextCandidate
<1>7. PICK n \in Nat : n = c + 1
  BY <1>6
<1>8. PICK cur \in SUBSET C : cur = enum.current \cup {c}
  BY <1>3, <1>6 DEF EnumType
<1>9. EnumInv(C, F, size, enum') /\ (~enum'.truncated \/ oracle.exhausted) /\ enum'.found = enum.found
  <2>1. CASE oracle.ok
    <3>1. enum' = [enum EXCEPT !.current = cur, !.next = n]
      BY <2>1, <1>3, <1>4, <1>7, <1>8 DEF CandidateAnswered, EnumType
    <3>2. /\ enum' \in EnumType(C) /\ enum'.current = cur /\ enum'.next = n
          /\ enum'.found = enum.found /\ enum'.first = enum.first /\ enum'.truncated = enum.truncated
      BY <3>1, <1>3 DEF EnumType
    <3>3. EnumInv(C, F, size, enum')
      BY <3>2, <1>1, <1>3, <1>6, <1>7, <1>8, EnumTakes
    <3> QED
      BY <3>2, <3>3, <1>5
  <2>2. CASE ~oracle.ok /\ oracle.exhausted
    <3>1. enum' = [enum EXCEPT !.truncated = TRUE]
      BY <2>2 DEF CandidateAnswered
    <3>2. /\ enum' \in EnumType(C) /\ enum'.current = enum.current /\ enum'.next = enum.next
          /\ enum'.found = enum.found /\ enum'.first = enum.first
      BY <3>1, <1>3 DEF EnumType
    <3>3. EnumInv(C, F, size, enum')
      BY <3>2, <1>3, EnumSame
    <3> QED
      BY <3>2, <3>3, <2>2
  <2>3. CASE ~oracle.ok /\ ~oracle.exhausted
    <3>1. enum' = [enum EXCEPT !.next = n]
      BY <2>3, <1>4, <1>7 DEF CandidateAnswered
    <3>2. /\ enum' \in EnumType(C) /\ enum'.current = enum.current /\ enum'.next = n
          /\ enum'.found = enum.found /\ enum'.first = enum.first /\ enum'.truncated = enum.truncated
      BY <3>1, <1>3 DEF EnumType
    <3>3. ~Coverable(C, Rest(Uncovered(F, enum.current), c),
                     size - Cardinality(enum.current) - 1, c + 1)
      BY <2>3, <1>1, <1>2, <1>5 DEF AskPhase, OracleInv
    <3>4. enum.current \in SUBSET C
      BY <1>3 DEF EnumType
    <3>5. Within(CoversOf(C, F, size), enum.current, c) = {}
      BY <3>3, <3>4, <1>1, <1>3, <1>6, SkipRefuted
    <3>6. EnumInv(C, F, size, enum')
      BY <3>2, <3>5, <1>1, <1>3, <1>6, <1>7, EnumSkips
    <3> QED
      BY <3>2, <3>6, <1>5
  <2> QED
    BY <2>1, <2>2, <2>3
<1>10. /\ pc' = "enumerate" /\ size' = size /\ oracle' = oracle /\ UNCHANGED request
       /\ published' = {}
  BY <1>1 DEF CandidateAnswered
<1>11. EnumPhase(C, F, limits, size', oracle', enum')
  BY <1>2, <1>5, <1>9, <1>10 DEF EnumPhase
<1>12. Phase(pc', Request, RequestOutcome, limits, packing', size', oracle', enum', result',
             BudgetSpent')
  BY <1>1, <1>2, <1>10, <1>11 DEF Phase, C, F
<1> QED
  BY <1>10, <1>12, StepKeeps

-----------------------------------------------------------------------------
(* The solver concludes. *)
LEMMA Concludes ==
  ASSUME LocalizerInv, pc' = "verify", published' = {}, UNCHANGED <<request, enum>>,
         Sound(Request, result', BudgetSpent), oracle' = oracle \/ result'.optimality_proven,
         result'.status = "Indeterminate" => oracle.stack = <<>>
  PROVE  LocalizerInv'
<1>1. limits' = limits /\ UNCHANGED request
  BY RequestKept
<1>2. CASE result'.status = "Indeterminate"
  <2>1. oracle' = oracle
    BY <1>2 DEF Sound, ExactIf
  <2>2. BudgetSpent' <=> BudgetSpent
    BY <2>1, <1>1 DEF BudgetSpent
  <2>3. ExactIf(Request, result', BudgetSpent')
    BY <2>2 DEF Sound, ExactIf
  <2>4. VerifyPhase(Request, oracle', result', BudgetSpent')
    BY <2>1, <2>3, <1>2 DEF VerifyPhase, Sound
  <2>5. Phase(pc', Request, RequestOutcome, limits, packing', size', oracle', enum', result',
              BudgetSpent')
    BY <2>4 DEF Phase
  <2> QED
    BY <2>5, <1>1, StepKeeps
<1>3. CASE result'.status # "Indeterminate"
  <2>1. Sound(Request, result', BudgetSpent')
    BY <1>3, SoundUnlessUndecided
  <2>2. Phase(pc', Request, RequestOutcome, limits, packing', size', oracle', enum', result',
              BudgetSpent')
    BY <2>1, <1>3 DEF Phase, VerifyPhase
  <2> QED
    BY <2>2, <1>1, StepKeeps
<1> QED
  BY <1>2, <1>3

(* AnswerDirectly keeps it: both answers that need no search are sound. *)
LEMMA AnswerDirectlyStep ==
  ASSUME LocalizerInv, AnswerDirectly
  PROVE  LocalizerInv'
<1>1. InputType(Request)
  BY Working DEF RequestFacts
<1>2. /\ pc' = "verify" /\ published' = {} /\ UNCHANGED <<request, enum>>
      /\ result' = IF EmptySets(Request) # {} THEN Infeasible(Request) ELSE NothingFailed
      /\ EmptySets(Request) # {} \/ F = {}
      /\ oracle' = oracle \/ AsksOracle(Request, result')
  BY DEF AnswerDirectly, Conclude
<1>3. oracle' = oracle \/ result'.optimality_proven
  BY <1>2 DEF AsksOracle
<1>4. Sound(Request, result', BudgetSpent) /\ result'.status # "Indeterminate"
  <2>1. CASE EmptySets(Request) # {}
    <3>1. Infeasible(Request).status = "ProvenInfeasible"
      BY DEF Infeasible, Unanswered
    <3> QED
      BY <2>1, <3>1, <1>1, <1>2, InfeasibleSound
  <2>2. CASE EmptySets(Request) = {}
    <3>1. NothingFailed.status = "Resolved"
      BY DEF NothingFailed, Unanswered
    <3> QED
      BY <2>2, <3>1, <1>1, <1>2, NothingFailedSound DEF F
  <2> QED
    BY <2>1, <2>2
<1> QED
  BY <1>2, <1>3, <1>4, Concludes

(* What was enumerated is the answer: all minima, or some of them when cut short. *)
LEMMA CoverFoundStep ==
  ASSUME LocalizerInv, CoverFound
  PROVE  LocalizerInv'
<1>1. /\ System(C, F) /\ size \in Nat /\ EnumInv(C, F, size, enum) /\ pc = "enumerate"
      /\ enum \in EnumType(C) /\ EnumPhase(C, F, limits, size, oracle, enum) /\ F # {}
      /\ oracle.stack = <<>> /\ published = {} /\ Searching(Request, RequestOutcome)
      /\ RequestFacts(Request, RequestOutcome, limits)
  BY Enumerating DEF CoverFound
<1>2. /\ enum.found \in Nat /\ enum.found > 0 /\ enum.truncated \in BOOLEAN
      /\ LexLeast(enum.first, CoversOf(C, F, size))
  BY <1>1 DEF EnumType, EnumInv, CoverFound
<1>3. enum.found <= Cardinality(CoversOf(C, F, size))
  <2>1. Passed(CoversOf(C, F, size), enum.current, enum.next) \in SUBSET CoversOf(C, F, size)
    BY DEF Passed
  <2> QED
    BY <2>1, <1>1, CoversFinite DEF EnumInv
<1>4. ~enum.truncated => /\ enum.found = Cardinality(CoversOf(C, F, size))
                         /\ enum.found < limits.max_solutions
  <2> SUFFICES ASSUME ~enum.truncated
               PROVE  /\ enum.found = Cardinality(CoversOf(C, F, size))
                      /\ enum.found < limits.max_solutions
    OBVIOUS
  <2>1. enum.found < limits.max_solutions
    BY <1>1 DEF EnumPhase
  <2>2. enum.current = {} /\ (size = 0 \/ \A c \in C : ~(c >= enum.next))
    BY FS_EmptySet DEF CoverFound, Enumerated, Ahead
  <2> QED
    BY <2>1, <2>2, <1>1, EnumEnds
<1>5. PICK r : r = [status |-> IF enum.found > 1 THEN "Ambiguous" ELSE "Resolved",
               elements |-> enum.first, optimal_size |-> size, optimality_proven |-> TRUE,
               uniqueness_proven |-> ~enum.truncated /\ enum.found = 1,
               truncated |-> enum.truncated, found |-> enum.found, witness |-> 0]
  OBVIOUS
<1>6. /\ InputType(Request) /\ EmptySets(Request) = {} /\ Reduce(Request) # {}
      /\ Request.max_solutions \in Nat /\ Request.max_solutions = limits.max_solutions
      /\ size > 0 /\ NoSmaller(C, F, size)
  BY <1>1 DEF RequestFacts, Searching, EnumPhase
<1>7. Sound(Request, r, BudgetSpent)
  BY <1>1, <1>2, <1>3, <1>4, <1>5, <1>6, CoverSound DEF C, F
<1>8. r.status # "Indeterminate" /\ r.optimality_proven
  BY <1>5
<1>9. pc' = "verify" /\ published' = {} /\ UNCHANGED <<request, enum>> /\ result' = r
  BY <1>1, <1>5 DEF CoverFound, Conclude
<1> QED
  BY <1>7, <1>8, <1>9, Concludes

(* A size that was proven has a cover, so none is found only when the budget is spent. *)
LEMMA NoCoverFoundStep ==
  ASSUME LocalizerInv, NoCoverFound
  PROVE  LocalizerInv'
<1>1. /\ System(C, F) /\ size \in Nat /\ EnumInv(C, F, size, enum) /\ pc = "enumerate"
      /\ enum \in EnumType(C) /\ EnumPhase(C, F, limits, size, oracle, enum) /\ F # {}
      /\ oracle.stack = <<>> /\ published = {} /\ Searching(Request, RequestOutcome)
      /\ RequestFacts(Request, RequestOutcome, limits)
  BY Enumerating DEF NoCoverFound
<1>2. enum.found = 0 /\ enum.truncated \in BOOLEAN
  BY <1>1 DEF NoCoverFound, EnumType
<1>3. enum.truncated
  <2> SUFFICES ASSUME ~enum.truncated PROVE FALSE
    OBVIOUS
  <2>1. enum.current = {} /\ (size = 0 \/ \A c \in C : ~(c >= enum.next))
    BY FS_EmptySet DEF NoCoverFound, Enumerated, Ahead
  <2>2. Cardinality(CoversOf(C, F, size)) = 0
    BY <2>1, <1>1, <1>2, EnumEnds
  <2>3. CoversOf(C, F, size) = {}
    BY <2>2, <1>1, CoversFinite, FS_EmptySet
  <2> QED
    BY <2>3, <1>1 DEF EnumPhase
<1>4. BudgetSpent /\ BudgetSpent'
  <2>1. ~(enum.found >= limits.max_solutions)
    BY <1>1, <1>2 DEF RequestFacts, Searching
  <2>2. enum.nodes > enum.budget \/ oracle.exhausted
    BY <2>1, <1>1, <1>3 DEF EnumPhase
  <2>3. oracle.exhausted => oracle.nodes > limits.budget
    BY <1>1 DEF EnumPhase, OracleBase
  <2>4. limits' = limits /\ oracle' = oracle /\ enum' = enum
    BY RequestKept DEF NoCoverFound
  <2> QED
    BY <2>2, <2>3, <2>4 DEF BudgetSpent
<1>5. PICK r : /\ r = result'
               /\ r = [Unanswered EXCEPT !.status = "Indeterminate", !.optimal_size = size,
                                  !.truncated = enum.truncated]
  BY DEF NoCoverFound
<1>6. r \in ResultType(C)
  <2>1. PICK k \in Nat, cut \in BOOLEAN : k = size /\ cut = enum.truncated
    BY <1>1, <1>2
  <2>2. r = [Unanswered EXCEPT !.status = "Indeterminate", !.optimal_size = k, !.truncated = cut]
    BY <2>1, <1>5
  <2> QED
    BY <2>2 DEF Unanswered, ResultType, Statuses
<1>7. /\ r.status = "Indeterminate" /\ r.optimality_proven = FALSE /\ r.uniqueness_proven = FALSE
      /\ TrueSize(Request, r.optimal_size)
  <2>1. /\ r.status = "Indeterminate" /\ r.optimality_proven = FALSE /\ r.uniqueness_proven = FALSE
        /\ r.optimal_size = size
    BY <1>5 DEF Unanswered
  <2>2. Minima(Request) = CoversOf(C, F, size)
    BY <1>1, MinimaAre DEF EnumPhase, RequestFacts, Searching, C, F
  <2> QED
    BY <2>1, <2>2 DEF TrueSize, CoversOf
<1>8. /\ pc' = "greedy" /\ oracle' = oracle /\ UNCHANGED request /\ published' = {}
  BY <1>1 DEF NoCoverFound
<1>9. GreedyPhase(Request, C, oracle', result', BudgetSpent')
  BY <1>1, <1>4, <1>5, <1>6, <1>7, <1>8 DEF GreedyPhase
<1>10. Phase(pc', Request, RequestOutcome, limits, packing', size', oracle', enum', result',
             BudgetSpent')
  BY <1>1, <1>8, <1>9 DEF Phase, C, F
<1> QED
  BY <1>8, <1>10, StepKeeps

(* GreedyPick keeps it: it adds a candidate to the cover. *)
LEMMA GreedyPickStep ==
  ASSUME LocalizerInv, GreedyPick
  PROVE  LocalizerInv'
<1>1. published = {} /\ pc = "greedy"
  BY Working DEF GreedyPick
<1>2. Searching(Request, RequestOutcome) /\ GreedyPhase(Request, C, oracle, result, BudgetSpent)
  BY <1>1 DEF LocalizerInv, Phase, C, F
<1>3. PICK c \in C : result' = [result EXCEPT !.elements = @ \cup {c}]
  BY DEF GreedyPick
<1>4. PICK H \in SUBSET C : H = result.elements \cup {c}
  BY <1>2 DEF GreedyPhase, ResultType
<1>5. result \in ResultType(C)
  BY <1>2 DEF GreedyPhase
<1>6. result' = [result EXCEPT !.elements = H]
  BY <1>3, <1>4, <1>5 DEF ResultType
<1>7. /\ result' \in ResultType(C) /\ result'.status = result.status
      /\ result'.optimality_proven = result.optimality_proven
      /\ result'.uniqueness_proven = result.uniqueness_proven
      /\ result'.optimal_size = result.optimal_size
  BY <1>5, <1>6 DEF ResultType
<1>8. /\ pc' = "greedy" /\ oracle' = oracle /\ UNCHANGED request /\ published' = {} /\ enum' = enum
  BY <1>1 DEF GreedyPick
<1>9. BudgetSpent' <=> BudgetSpent
  BY <1>8, RequestKept DEF BudgetSpent
<1>10. GreedyPhase(Request, C, oracle', result', BudgetSpent')
  BY <1>2, <1>7, <1>8, <1>9 DEF GreedyPhase
<1>11. Phase(pc', Request, RequestOutcome, limits, packing', size', oracle', enum', result',
             BudgetSpent')
  BY <1>2, <1>8, <1>10 DEF Phase, C, F
<1> QED
  BY <1>8, <1>11, StepKeeps

(* When no candidate gains anything, every set is hit. *)
LEMMA GreedyEndsStep ==
  ASSUME LocalizerInv, GreedyEnds
  PROVE  LocalizerInv'
<1>1. /\ published = {} /\ pc = "greedy" /\ System(C, F)
      /\ RequestFacts(Request, RequestOutcome, limits)
  BY Working DEF GreedyEnds
<1>2. Searching(Request, RequestOutcome) /\ GreedyPhase(Request, C, oracle, result, BudgetSpent)
  BY <1>1 DEF LocalizerInv, Phase, C, F
<1>3. Uncovered(F, result.elements) = {}
  <2> SUFFICES ASSUME NEW S \in Uncovered(F, result.elements) PROVE FALSE
    OBVIOUS
  <2>1. S \in F
    BY DEF Uncovered
  <2>2. PICK c \in C : c \in S
    BY <2>1, <1>1 DEF System
  <2> DEFINE A == {T \in Uncovered(F, result.elements) : c \in T}
  <2>3. IsFiniteSet(A)
    <3>1. A \in SUBSET F
      BY DEF Uncovered
    <3>2. IsFiniteSet(F)
      BY <1>1, SystemFinite
    <3> HIDE DEF A
    <3> QED
      BY <3>1, <3>2, FS_Subset
  <2>4. Cardinality(A) = 0
    BY DEF GreedyEnds, Gain
  <2>5. S \in A
    BY <2>2
  <2> HIDE DEF A
  <2> QED
    BY <2>3, <2>4, <2>5, FS_EmptySet
<1>4. InputType(Request) /\ EmptySets(Request) = {}
  BY <1>1, <1>2 DEF RequestFacts, Searching
<1>5. /\ result \in ResultType(Candidates(Request)) /\ result.status = "Indeterminate"
      /\ ~result.optimality_proven /\ ~result.uniqueness_proven /\ BudgetSpent
      /\ TrueSize(Request, result.optimal_size) /\ oracle.stack = <<>>
  BY <1>2 DEF GreedyPhase, C
<1>6. Uncovered(Reduce(Request), result.elements) = {}
  BY <1>3 DEF F
<1>7. Sound(Request, result, BudgetSpent)
  BY <1>4, <1>5, <1>6, GreedySound
<1>8. /\ pc' = "verify" /\ published' = {} /\ UNCHANGED <<request, enum>> /\ result' = result
      /\ oracle' = oracle \/ AsksOracle(Request, result)
  BY <1>1 DEF GreedyEnds, Conclude
<1>9. oracle' = oracle
  BY <1>5, <1>8 DEF AsksOracle
<1> QED
  BY <1>5, <1>7, <1>8, <1>9, Concludes

-----------------------------------------------------------------------------
(* Idle steps. *)
LEMMA PublishStep ==
  ASSUME LocalizerInv, Publish
  PROVE  LocalizerInv'
<1>1. pc = "verify" /\ VerifyPhase(Request, oracle, result, BudgetSpent)
  BY DEF LocalizerInv, Phase, Publish
<1>2. Sound(Request, result, BudgetSpent)
  BY <1>1 DEF VerifyPhase
<1>3. result \in ResultType(C) /\ ExactIf(Request, result, BudgetSpent)
  BY <1>2 DEF Sound, C
<1>4. /\ pc' = "idle" /\ UNCHANGED request /\ oracle' = oracle /\ enum' = enum
      /\ published' = {Answer(Request, result, oracle)}
  BY DEF Publish
<1>5. Request' = Request /\ limits' = limits /\ BudgetSpent' = BudgetSpent
  BY <1>4, RequestKept DEF BudgetSpent
<1>6. PICK q : q = Answer(Request, result, oracle)
  OBVIOUS
<1>7. CASE Verified(Request, result, oracle)
  <2>1. q.outcome = "Ok" /\ q.confirmed = TRUE /\ q.result = result
    BY <1>6, <1>7 DEF Answer
  <2>2. Truthful(Request, {q}, BudgetSpent)
    BY <2>1, <1>3 DEF Truthful
  <2>3. Strict(Request, {q}, limits.hop_count, oracle)
    <3> SUFFICES ASSUME Cardinality(Candidates(Request)) <= ReferenceMax, result.optimality_proven,
                        NEW H \in SUBSET Candidates(Request), NEW k \in 0..limits.hop_count,
                        Verified(Request, [result EXCEPT !.elements = H, !.optimal_size = k], oracle)
                 PROVE  H = result.elements /\ k = result.optimal_size
      BY <2>1 DEF Strict
    <3>1. result.status # "ProvenInfeasible" /\ result.status # "InvalidInput"
      <4>1. result.status \in Statuses
        BY <1>3 DEF ResultType
      <4>2. result.status # "InvalidInput"
        BY <4>1 DEF Statuses
      <4>3. result.status # "ProvenInfeasible"
        BY <1>3 DEF ExactIf, LexLeast, Minima
      <4> QED
        BY <4>2, <4>3
    <3>2. PICK ref : ref = Reference(Request)
      OBVIOUS
    <3>3. ref.optimal_size = result.optimal_size /\ ref.elements = result.elements
      BY <3>1, <3>2, <1>7 DEF Verified, ReferenceAgrees
    <3>4. PICK t : t = [result EXCEPT !.elements = H, !.optimal_size = k]
      OBVIOUS
    <3>5. /\ t.elements = H /\ t.optimal_size = k /\ t.status = result.status
          /\ t.optimality_proven = result.optimality_proven
      BY <3>4, <1>3 DEF ResultType
    <3>6. ref.optimal_size = t.optimal_size /\ ref.elements = t.elements
      BY <3>1, <3>2, <3>4, <3>5 DEF Verified, ReferenceAgrees
    <3> QED
      BY <3>3, <3>5, <3>6
  <2> QED
    BY <2>2, <2>3, <1>4, <1>5, <1>6, RequestKept
       DEF LocalizerInv, RequestType, request, Phase, PublishedOK
<1>8. CASE ~Verified(Request, result, oracle)
  <2>1. q.outcome = "Ok" /\ q.confirmed = FALSE /\ q.result = Withdrawn(result)
    BY <1>6, <1>8 DEF Answer
  <2>2. /\ Withdrawn(result).status = "Indeterminate" /\ Withdrawn(result).elements = {}
        /\ Withdrawn(result).optimality_proven = FALSE /\ Withdrawn(result).uniqueness_proven = FALSE
        /\ Withdrawn(result).optimal_size = result.optimal_size
    BY <1>3 DEF Withdrawn, ResultType
  <2>3. ~(Cardinality(Candidates(Request)) <= ReferenceMax) /\ result.status # "ProvenInfeasible"
    BY <1>2, <1>8 DEF Sound
  <2>4. Truthful(Request, {q}, BudgetSpent)
    BY <2>1, <2>2, <2>3, <1>3 DEF Truthful, ExactIf
  <2>5. Strict(Request, {q}, limits.hop_count, oracle)
    BY <2>3 DEF Strict
  <2> QED
    BY <2>4, <2>5, <1>4, <1>5, <1>6, RequestKept
       DEF LocalizerInv, RequestType, request, Phase, PublishedOK
<1> QED
  BY <1>7, <1>8

(* RefuseRequest keeps it: a refusal claims nothing. *)
LEMMA RefuseRequestStep ==
  ASSUME LocalizerInv, RefuseRequest
  PROVE  LocalizerInv'
<1>1. PICK q : q = Refuse(RequestOutcome)
  OBVIOUS
<1>2. published' = {q} /\ pc' = "idle" /\ UNCHANGED request /\ RequestOutcome # "Ok"
  BY <1>1 DEF RefuseRequest
<1>3. q.outcome # "Ok" /\ q.result = Unanswered /\ Unanswered.optimality_proven = FALSE
  BY <1>1, <1>2 DEF Refuse, Unanswered
<1>4. Truthful(Request', {q}, BudgetSpent') /\ Strict(Request', {q}, limits'.hop_count, oracle')
  BY <1>3 DEF Truthful, Strict
<1>5. RequestType'
  BY <1>2 DEF LocalizerInv, RequestType, request
<1>6. PublishedOK'
  BY <1>2, <1>4 DEF PublishedOK
<1> QED
  BY <1>2, <1>5, <1>6 DEF LocalizerInv, Phase

(* A request may be extended while no call is in progress. *)
LEMMA AddedStep ==
  ASSUME LocalizerInv, RequestType', pc' = "idle", published' = {}
  PROVE  LocalizerInv'
<1>1. PublishedOK'
  BY DEF PublishedOK, Truthful, Strict
<1> QED
  BY <1>1 DEF LocalizerInv, Phase

(* AddProbe keeps the invariant. *)
LEMMA AddProbeStep ==
  ASSUME LocalizerInv, NEW p \in HopProbe, AddProbe(p)
  PROVE  LocalizerInv'
<1>1. limits.hop_count \in Nat
  BY LocalizerAssumption DEF LocalizerInv, RequestType
<1>2. p \in Probe
  BY <1>1 DEF HopProbe, Probe
<1>3. Append(probes, p) \in Seq(Probe)
  BY <1>2, AppendProperties DEF LocalizerInv, RequestType
<1>4. RequestType' /\ pc' = "idle" /\ published' = {}
  BY <1>3 DEF LocalizerInv, RequestType, AddProbe
<1> QED
  BY <1>4, AddedStep

(* AddSet keeps the invariant. *)
LEMMA AddSetStep ==
  ASSUME LocalizerInv, NEW S \in SUBSET Elements, AddSet(S)
  PROVE  LocalizerInv'
<1>1. limits.hop_count \in Nat
  BY LocalizerAssumption DEF LocalizerInv, RequestType
<1>2. S \in SUBSET Nat
  BY <1>1 DEF Elements
<1>3. Append(sets, S) \in Seq(SUBSET Nat)
  BY <1>2, AppendProperties DEF LocalizerInv, RequestType
<1>4. RequestType' /\ pc' = "idle" /\ published' = {}
  BY <1>3 DEF LocalizerInv, RequestType, AddSet
<1> QED
  BY <1>4, AddedStep

(* A stuttering step keeps the invariant. *)
LEMMA StutterStep ==
  ASSUME LocalizerInv, UNCHANGED vars
  PROVE  LocalizerInv'
<1>1. UNCHANGED <<limits, probes, sets, pc, packing, size, oracle, enum, result, published>>
  BY DEF vars
<1>2. Request' = Request /\ RequestOutcome' = RequestOutcome /\ BudgetSpent' = BudgetSpent
  BY <1>1 DEF Request, RequestOutcome, BudgetSpent
<1> QED
  BY <1>1, <1>2 DEF LocalizerInv, RequestType, PublishedOK

(* Every step keeps the invariant. *)
LEMMA NextKeeps ==
  ASSUME LocalizerInv, [Next]_vars
  PROVE  LocalizerInv'
  BY AddProbeStep, AddSetStep, RefuseRequestStep, AnswerDirectlyStep, StartSearchKeeps, PackStep,
     PackedStep, OracleStep, SizeTooSmallStep, SizeUnprovenStep, SizeProvenStep, FoundCoverStep,
     RunReturnsStep, OutOfNodesStep, SkipCandidateStep, AskCandidateStep, CandidateAnsweredStep,
     CoverFoundStep, NoCoverFoundStep, GreedyPickStep, GreedyEndsStep, PublishStep, StutterStep
     DEF Next

(* LocalizerInv is an invariant of the search and the verifier. *)
THEOREM LocalizerInvariant == Spec => []LocalizerInv
  BY InitHolds, NextKeeps, PTL DEF Spec

(* What localize() concludes and what is published is true, for any path length, any budget,
   any solution cap and any constraint sets: memoized answers, pruning, early ends and the
   greedy fallback included. *)
THEOREM LocalizationTheorem == Spec => []LocalizationExact
<1>1. LocalizerInv => LocalizationExact
  BY InvImplies
<1> QED
  BY <1>1, LocalizerInvariant, PTL

(* With the reference solver, verify_localization() accepts every answer of the search, and
   no other cover or size in the place of a proven optimum. *)
THEOREM VerifierTheorem == Spec => []VerifierExact
<1>1. LocalizerInv => VerifierExact
  BY InvImplies
<1> QED
  BY <1>1, LocalizerInvariant, PTL
=============================================================================
