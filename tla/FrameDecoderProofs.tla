------------------------- MODULE FrameDecoderProofs -------------------------
(***************************************************************************)
(* The decoder hands on the frames that were sent, for every header size,  *)
(* frame limit, receive chunk and number of frames, and however the stream *)
(* is cut.  The inductive invariant says of the units ahead of the decoder *)
(* that each is followed by the one that was written after it; that a whole *)
(* frame then lies at the front of the buffer is shown by induction.       *)
(***************************************************************************)
EXTENDS FrameDecoder, FiniteSetTheorems, SequenceTheorems, TLAPS

UnitType == [frame : Nat \ {0}, at : Nat \ {0}]

(* The unit written after u, when the frames have the sizes z. *)
Successor(u, z) ==
  IF u.at < z[u.frame] THEN Unit(u.frame, u.at + 1) ELSE Unit(u.frame + 1, 1)

(* A stream s of units, when k frames of the sizes z have been handed on: it begins
   with frame k + 1, and no unit is missing, doubled or out of order. *)
Contiguous(s, z, k) ==
  /\ \A i \in 1..Len(s) : s[i].frame \in 1..Len(z)
  /\ Len(s) > 0 => s[1] = Unit(k + 1, 1)
  /\ \A i \in 1..(Len(s) - 1) : s[i + 1] = Successor(s[i], z)

(* It ends with the end of the last frame. *)
Complete(s, z, k) ==
  /\ Len(s) = 0 => k = Len(z)
  /\ Len(s) > 0 => Successor(s[Len(s)], z) = Unit(Len(z) + 1, 1)

(* What is ahead of the decoder, and the sizes of the frames. *)
Stream == buffer \o wire

Sizes == [n \in 1..Len(sent) |-> HeaderSize + sent[n].length]

DecoderType ==
  /\ sent \in Seq(Frames)
  /\ buffer \in Seq(UnitType) /\ wire \in Seq(UnitType)
  /\ pipelined \in BOOLEAN /\ hungUp \in BOOLEAN /\ reading \in BOOLEAN
  /\ decoded \in Seq(Nat)
  /\ pc \in {"recv", "decode", "send", "closed"}

(* The frames handed on so far, and how many can be on their way. *)
InOrder ==
  /\ Len(decoded) <= Len(sent)
  /\ \A n \in 1..Len(decoded) : decoded[n] = n /\ sent[n].defect = "none"
  /\ ~pipelined => Len(sent) <= Len(decoded) + 1

(* The stream is in order until the connection is given up, and complete until the
   peer hangs up. *)
StreamInv ==
  pc # "closed" => /\ Contiguous(Stream, Sizes, Len(decoded))
                   /\ ~hungUp => Complete(Stream, Sizes, Len(decoded))

Refusal ==
  failure # "Ok" =>
    \/ pipelined
    \/ Len(decoded) < Len(sent) /\ sent[Len(decoded) + 1].defect # "none"

DecoderInv == DecoderType /\ InOrder /\ StreamInv /\ Refusal
-----------------------------------------------------------------------------
(* Streams: the first frame, a frame added at the end, a prefix, a frame taken off. *)

(* The induction principle of the proofs below. *)
LEMMA LeastNatural ==
  ASSUME NEW S, S \subseteq Nat, S # {}
  PROVE  \E m \in S : \A n \in S : m <= n
<1> DEFINE T == {0..n : n \in S}
<1>1. T \subseteq FiniteSubsetsOf(Nat)
  <2>1. \A n \in S : 0..n \in SUBSET Nat /\ IsFiniteSet(0..n)
    BY FS_Interval
  <2> QED
    BY <2>1 DEF FiniteSubsetsOf
<1>2. T # {}
  OBVIOUS
<1>3. PICK x \in T : \A y \in T : ~(<<y, x>> \in StrictSubsetOrdering(Nat))
  <2> HIDE DEF T
  <2>1. IsWellFoundedOn(StrictSubsetOrdering(Nat), FiniteSubsetsOf(Nat))
    BY FS_StrictSubsetOrderingWellFounded
  <2> QED
    BY <2>1, <1>1, <1>2, WFMin
<1>4. PICK m \in S : x = 0..m
  BY <1>3
<1>5. ASSUME NEW n \in S, n < m PROVE FALSE
  <2>1. 0..n \subseteq 0..m /\ 0..n # 0..m /\ 0..n \in SUBSET Nat /\ 0..m \in SUBSET Nat
    <3>1. m \in 0..m /\ m \notin 0..n
      BY <1>5
    <3> QED
      BY <3>1, <1>5
  <2>2. <<0..n, 0..m>> \in StrictSubsetOrdering(Nat)
    BY <2>1 DEF StrictSubsetOrdering
  <2> QED
    BY <2>2, <1>3, <1>4
<1> QED
  BY <1>5

LEMMA FirstFrame ==
  ASSUME NEW s \in Seq(UnitType), NEW z \in Seq(Nat \ {0}), NEW k \in Nat,
         Contiguous(s, z, k), NEW m \in Nat \ {0}, k + 1 \in 1..Len(z), m = z[k + 1]
  PROVE  /\ \A i \in 1..m : i <= Len(s) => s[i] = Unit(k + 1, i)
         /\ m + 1 <= Len(s) => s[m + 1] = Unit(k + 2, 1)
<1> DEFINE S == {i \in 1..m : i <= Len(s) /\ s[i] # Unit(k + 1, i)}
<1>1. PICK L \in Nat : L = Len(s)
  OBVIOUS
<1>2. \A i \in 1..(L - 1) : s[i + 1] = Successor(s[i], z)
  BY <1>1 DEF Contiguous
<1>3. L > 0 => s[1] = Unit(k + 1, 1)
  BY <1>1 DEF Contiguous
<1>5. S = {}
  <2> SUFFICES ASSUME S # {} PROVE FALSE
    OBVIOUS
  <2>1. PICK i \in S : \A j \in S : i <= j
    <3>1. S \subseteq Nat
      OBVIOUS
    <3> HIDE DEF S
    <3> QED
      BY <3>1, LeastNatural
  <2>2. i \in 1..m /\ i <= L /\ s[i] # Unit(k + 1, i)
    BY <1>1
  <2>3. i # 1
    BY <1>3, <2>2
  <2>4. PICK j \in Nat : j + 1 = i /\ j \in 1..m /\ j \in 1..(L - 1) /\ j < m /\ j <= L /\ j < i
    <3>1. i - 1 \in Nat /\ (i - 1) + 1 = i /\ i - 1 \in 1..m /\ i - 1 \in 1..(L - 1) /\ i - 1 < m
          /\ i - 1 <= L /\ i - 1 < i
      BY <1>1, <2>2, <2>3
    <3> QED
      BY <3>1
  <2>5. s[j] = Unit(k + 1, j)
    <3>1. j \notin S
      BY <2>1, <2>2, <2>4
    <3> QED
      BY <1>1, <2>4, <3>1
  <2>6. Successor(Unit(k + 1, j), z) = Unit(k + 1, j + 1)
    BY <2>4 DEF Successor, Unit
  <2>7. s[j + 1] = Successor(s[j], z)
    BY <1>2, <2>4
  <2> QED
    BY <2>2, <2>4, <2>5, <2>6, <2>7
<1>6. ASSUME m + 1 <= L PROVE s[m + 1] = Unit(k + 2, 1)
  <2>1. m \in 1..m /\ m <= L /\ m \in 1..(L - 1)
    BY <1>1, <1>6
  <2>2. s[m] = Unit(k + 1, m)
    BY <1>1, <1>5, <2>1
  <2>3. s[m + 1] = Successor(s[m], z)
    BY <1>2, <2>1
  <2>4. Successor(Unit(k + 1, m), z) = Unit(k + 2, 1)
    BY DEF Successor, Unit
  <2> QED
    BY <2>2, <2>3, <2>4
<1> QED
  BY <1>1, <1>5, <1>6

LEMMA FrameAdded ==
  ASSUME NEW s \in Seq(UnitType), NEW z \in Seq(Nat \ {0}), NEW k \in 0..Len(z),
         Contiguous(s, z, k), Complete(s, z, k), NEW m \in Nat \ {0},
         NEW u, u = [at \in 1..m |-> Unit(Len(z) + 1, at)]
  PROVE  Contiguous(s \o u, Append(z, m), k) /\ Complete(s \o u, Append(z, m), k)
<1> DEFINE t == s \o u
           y == Append(z, m)
<1>1. u \in Seq(UnitType) /\ Len(u) = m /\ \A i \in 1..m : u[i] = Unit(Len(z) + 1, i)
  <2>1. \A i \in 1..m : Unit(Len(z) + 1, i) \in UnitType
    BY DEF Unit, UnitType
  <2> QED
    BY <2>1
<1>2. PICK L \in Nat, N \in Nat : L = Len(s) /\ N = Len(z)
  OBVIOUS
<1>3. /\ Len(t) = L + m
      /\ \A i \in 1..L : t[i] = s[i]
      /\ \A i \in 1..m : t[L + i] = Unit(N + 1, i)
  BY <1>1, <1>2
<1>4. Len(y) = N + 1 /\ y[N + 1] = m /\ \A n \in 1..N : y[n] = z[n]
  BY <1>2
<1> HIDE DEF t, y
<1>5. /\ \A i \in 1..L : s[i].frame \in 1..N
      /\ L > 0 => s[1] = Unit(k + 1, 1)
      /\ \A i \in 1..(L - 1) : s[i + 1] = Successor(s[i], z)
      /\ L = 0 => k = N
      /\ L > 0 => Successor(s[L], z) = Unit(N + 1, 1)
  BY <1>2 DEF Contiguous, Complete
<1>6. \A i \in 1..L : Successor(s[i], y) = Successor(s[i], z)
  BY <1>4, <1>5 DEF Successor
<1>8. \A i \in 1..(L + m) : i \in 1..L \/ \E j \in 1..m : i = L + j
  <2> SUFFICES ASSUME NEW i \in 1..(L + m), i \notin 1..L PROVE \E j \in 1..m : i = L + j
    OBVIOUS
  <2>1. i - L \in 1..m /\ i = L + (i - L)
    OBVIOUS
  <2> QED
    BY <2>1
<1>9. \A i \in 1..(L + m) : t[i].frame \in 1..(N + 1)
  <2> SUFFICES ASSUME NEW i \in 1..(L + m) PROVE t[i].frame \in 1..(N + 1)
    OBVIOUS
  <2>1. CASE i \in 1..L
    <3>1. t[i] = s[i] /\ s[i].frame \in 1..N
      BY <2>1, <1>3, <1>5
    <3> QED
      BY <3>1
  <2>2. ASSUME NEW j \in 1..m, i = L + j PROVE t[i].frame \in 1..(N + 1)
    <3>1. t[i] = Unit(N + 1, j)
      BY <2>2, <1>3
    <3> QED
      BY <3>1 DEF Unit
  <2> QED
    BY <2>1, <2>2, <1>8
<1>10. t[1] = Unit(k + 1, 1)
  <2>1. CASE L > 0
    <3>1. 1 \in 1..L
      BY <2>1
    <3> QED
      BY <2>1, <3>1, <1>3, <1>5
  <2>2. CASE L = 0
    <3>1. t[0 + 1] = Unit(N + 1, 1)
      BY <2>2, <1>3
    <3> QED
      BY <3>1, <2>2, <1>5
  <2> QED
    BY <2>1, <2>2
<1>11. ASSUME NEW i \in 1..(L + m - 1) PROVE t[i + 1] = Successor(t[i], y)
  <2>1. CASE i \in 1..(L - 1)
    <3>1. i \in 1..L /\ i + 1 \in 1..L
      BY <2>1
    <3> QED
      BY <2>1, <3>1, <1>3, <1>5, <1>6
  <2>2. CASE i = L
    <3>1. L \in 1..L /\ t[L + 1] = Unit(N + 1, 1)
      BY <2>2, <1>3
    <3> QED
      BY <2>2, <3>1, <1>3, <1>5, <1>6
  <2>3. CASE i > L
    <3>1. PICK j \in 1..m : i = L + j /\ j < m /\ j + 1 \in 1..m /\ i + 1 = L + (j + 1)
      <4>1. i - L \in 1..m /\ i = L + (i - L) /\ i - L < m /\ (i - L) + 1 \in 1..m
            /\ i + 1 = L + ((i - L) + 1)
        BY <2>3
      <4> QED
        BY <4>1
    <3>2. t[i] = Unit(N + 1, j) /\ t[i + 1] = Unit(N + 1, j + 1)
      BY <3>1, <1>3
    <3>3. Successor(Unit(N + 1, j), y) = Unit(N + 1, j + 1)
      BY <3>1, <1>4 DEF Successor, Unit
    <3> QED
      BY <3>2, <3>3
  <2> QED
    BY <2>1, <2>2, <2>3
<1>12. Successor(t[L + m], y) = Unit(N + 2, 1)
  <2>1. m \in 1..m
    OBVIOUS
  <2>2. t[L + m] = Unit(N + 1, m)
    BY <1>3, <2>1
  <2> QED
    BY <2>2, <1>4 DEF Successor, Unit
<1>13. Contiguous(t, y, k)
  <2>1. Len(t) - 1 = L + m - 1
    BY <1>3
  <2> QED
    BY <2>1, <1>3, <1>4, <1>9, <1>10, <1>11 DEF Contiguous
<1>14. Complete(t, y, k)
  <2>1. Len(t) > 0 /\ Len(y) + 1 = N + 2
    BY <1>3, <1>4
  <2> QED
    BY <2>1, <1>3, <1>12 DEF Complete
<1> QED
  BY <1>13, <1>14 DEF t, y

LEMMA PrefixRead ==
  ASSUME NEW s \in Seq(UnitType), NEW z \in Seq(Nat \ {0}), NEW k \in Nat,
         Contiguous(s, z, k), NEW p \in 0..Len(s)
  PROVE  Contiguous(SubSeq(s, 1, p), z, k)
<1> DEFINE t == SubSeq(s, 1, p)
<1>1. Len(t) = p /\ \A i \in 1..p : t[i] = s[i]
  OBVIOUS
<1> HIDE DEF t
<1>2. \A i \in 1..p : i \in 1..Len(s) /\ (i \in 1..(p - 1) => i \in 1..(Len(s) - 1) /\ i + 1 \in 1..p)
  OBVIOUS
<1>3. \A i \in 1..(p - 1) : i \in 1..p
  OBVIOUS
<1>4. \A i \in 1..(p - 1) : t[i + 1] = Successor(t[i], z)
  BY <1>1, <1>2, <1>3 DEF Contiguous
<1>5. \A i \in 1..p : t[i].frame \in 1..Len(z)
  BY <1>1, <1>2 DEF Contiguous
<1>6. p > 0 => t[1] = Unit(k + 1, 1)
  <2>1. p > 0 => 1 \in 1..p /\ Len(s) > 0
    OBVIOUS
  <2> QED
    BY <1>1, <2>1 DEF Contiguous
<1>7. Contiguous(t, z, k)
  BY <1>1, <1>4, <1>5, <1>6 DEF Contiguous
<1> QED
  BY <1>7 DEF t

(* What is left of a stream without its first m units. *)
Dropped(s, m) == SubSeq(s, m + 1, Len(s))

(* Positions behind the first m of L. *)
LEMMA Shift ==
  ASSUME NEW L \in Nat, NEW m \in Nat, NEW q \in Nat, q + m = L
  PROVE  /\ q > 0 => 1 \in 1..q /\ q \in 1..q /\ m + 1 <= L
         /\ \A i \in 1..q : i + m \in 1..L
         /\ \A i \in 1..(q - 1) : /\ i \in 1..q /\ i + 1 \in 1..q /\ i + m \in 1..(L - 1)
                                  /\ (i + 1) + m = (i + m) + 1
<1>1. q > 0 => 1 \in 1..q /\ q \in 1..q /\ m + 1 <= L
  OBVIOUS
<1>2. \A i \in 1..q : i + m \in 1..L
  OBVIOUS
<1>3. \A i \in 1..(q - 1) : /\ i \in 1..q /\ i + 1 \in 1..q /\ i + m \in 1..(L - 1)
                            /\ (i + 1) + m = (i + m) + 1
  OBVIOUS
<1> QED
  BY <1>1, <1>2, <1>3

LEMMA Rest ==
  ASSUME NEW S, NEW s \in Seq(S), NEW m \in Nat, m <= Len(s)
  PROVE  \E q \in Nat :
           /\ q + m = Len(s)
           /\ Len(Dropped(s, m)) = q
           /\ \A i \in 1..q : Dropped(s, m)[i] = s[i + m]
<1>1. PICK a \in Int, b \in Int, q \in Nat :
         a = m + 1 /\ b = Len(s) /\ q + m = Len(s) /\ b - a + 1 = q
  <2>1. m + 1 \in Int /\ Len(s) \in Int /\ Len(s) - m \in Nat
    OBVIOUS
  <2>2. (Len(s) - m) + m = Len(s) /\ Len(s) - (m + 1) + 1 = Len(s) - m
    OBVIOUS
  <2> QED
    BY <2>1, <2>2
<1>2. \A i \in a..b : i \in 1..Len(s)
  BY <1>1
<1>3. \A i \in a..b : s[i] \in S
  BY <1>2, ElementOfSeq
<1>4. /\ Len(SubSeq(s, a, b)) = IF a <= b THEN b - a + 1 ELSE 0
      /\ \A i \in 1..(b - a + 1) : SubSeq(s, a, b)[i] = s[a + i - 1]
  BY <1>3, SubSeqProperties
<1>7. Dropped(s, m) = SubSeq(s, a, b)
  BY <1>1 DEF Dropped
<1>5. ~(a <= b) => q = 0
  BY <1>1
<1>6. \A i \in 1..q : a + i - 1 = i + m
  BY <1>1
<1> QED
  BY <1>1, <1>4, <1>5, <1>6, <1>7

(* Its length, and its last unit. *)
LEMMA RestEnds ==
  ASSUME NEW S, NEW s \in Seq(S), NEW m \in Nat, m <= Len(s)
  PROVE  /\ Len(Dropped(s, m)) \in Nat /\ Len(Dropped(s, m)) + m = Len(s)
         /\ Len(Dropped(s, m)) > 0 => Dropped(s, m)[Len(Dropped(s, m))] = s[Len(s)]
<1>1. PICK q \in Nat : /\ q + m = Len(s)
                       /\ Len(Dropped(s, m)) = q
                       /\ \A i \in 1..q : Dropped(s, m)[i] = s[i + m]
  BY Rest
<1>2. q > 0 => q \in 1..q
  OBVIOUS
<1> QED
  BY <1>1, <1>2

(* What is left of a stream is a stream, if it begins with a frame. *)
LEMMA SuffixRead ==
  ASSUME NEW s \in Seq(UnitType), NEW z \in Seq(Nat \ {0}), NEW k \in Nat, NEW n \in Nat,
         NEW m \in Nat \ {0}, m <= Len(s), Contiguous(s, z, k),
         m + 1 <= Len(s) => s[m + 1] = Unit(n + 1, 1)
  PROVE  Contiguous(Dropped(s, m), z, n)
<1>1. PICK q \in Nat : /\ q + m = Len(s)
                       /\ Len(Dropped(s, m)) = q
                       /\ \A i \in 1..q : Dropped(s, m)[i] = s[i + m]
  <2>1. m \in Nat
    OBVIOUS
  <2> QED
    BY <2>1, Rest
<1>2. PICK t : t = Dropped(s, m)
  OBVIOUS
<1>3. Len(t) = q /\ \A i \in 1..q : t[i] = s[i + m]
  BY <1>1, <1>2
<1>4. PICK L \in Nat : L = Len(s) /\ q + m = L
  BY <1>1
<1>5. /\ q > 0 => 1 \in 1..q /\ q \in 1..q /\ m + 1 <= L
      /\ \A i \in 1..q : i + m \in 1..L
      /\ \A i \in 1..(q - 1) : /\ i \in 1..q /\ i + 1 \in 1..q /\ i + m \in 1..(L - 1)
                               /\ (i + 1) + m = (i + m) + 1
  BY <1>4, Shift
<1>6. q > 0 => t[1] = Unit(n + 1, 1)
  <2>1. 1 + m = m + 1
    OBVIOUS
  <2> QED
    BY <1>3, <1>4, <1>5, <2>1
<1>7. \A i \in 1..q : t[i].frame \in 1..Len(z)
  BY <1>3, <1>4, <1>5 DEF Contiguous
<1>8. \A i \in 1..(q - 1) : t[i + 1] = Successor(t[i], z)
  <2> SUFFICES ASSUME NEW i \in 1..(q - 1) PROVE t[i + 1] = Successor(t[i], z)
    OBVIOUS
  <2>1. i \in 1..q /\ i + 1 \in 1..q /\ i + m \in 1..(L - 1) /\ (i + 1) + m = (i + m) + 1
    BY <1>5
  <2>2. s[(i + m) + 1] = Successor(s[i + m], z)
    BY <1>4, <2>1 DEF Contiguous
  <2> QED
    BY <1>3, <2>1, <2>2
<1>9. Contiguous(t, z, n)
  BY <1>3, <1>6, <1>7, <1>8 DEF Contiguous
<1> QED
  BY <1>2, <1>9

LEMMA FrameTaken ==
  ASSUME NEW s \in Seq(UnitType), NEW z \in Seq(Nat \ {0}), NEW k \in Nat,
         Contiguous(s, z, k), NEW m \in Nat \ {0}, k + 1 \in 1..Len(z), m = z[k + 1],
         m <= Len(s)
  PROVE  /\ Contiguous(Dropped(s, m), z, k + 1)
         /\ Complete(s, z, k) => Complete(Dropped(s, m), z, k + 1)
<1>1. /\ \A i \in 1..m : i <= Len(s) => s[i] = Unit(k + 1, i)
      /\ m + 1 <= Len(s) => s[m + 1] = Unit(k + 2, 1)
  BY FirstFrame
<1>2. (k + 1) + 1 = k + 2 /\ m \in Nat /\ m \in 1..m
  OBVIOUS
<1>3. PICK t : /\ t = Dropped(s, m)
               /\ Contiguous(t, z, k + 1)
               /\ Len(t) \in Nat /\ Len(t) + m = Len(s)
               /\ Len(t) > 0 => t[Len(t)] = s[Len(s)]
  <2>1. PICK n \in Nat : n = k + 1
    OBVIOUS
  <2>2. m + 1 <= Len(s) => s[m + 1] = Unit(n + 1, 1)
    BY <1>1, <1>2, <2>1
  <2>3. m \in Nat /\ m <= Len(s)
    BY <1>2
  <2>4. Contiguous(Dropped(s, m), z, n)
    BY <2>2, <2>3, SuffixRead
  <2>5. /\ Len(Dropped(s, m)) \in Nat /\ Len(Dropped(s, m)) + m = Len(s)
        /\ Len(Dropped(s, m)) > 0 => Dropped(s, m)[Len(Dropped(s, m))] = s[Len(s)]
    BY <2>3, RestEnds
  <2> QED
    BY <2>1, <2>4, <2>5
<1>4. PICK q \in Nat, L \in Nat : q = Len(t) /\ L = Len(s) /\ q + m = L
  <2>1. Len(s) \in Nat
    OBVIOUS
  <2>2. Len(t) \in Nat /\ Len(t) + m = Len(s)
    BY <1>3
  <2> QED
    BY <2>1, <2>2, Zenon
<1>5. ASSUME Complete(s, z, k) PROVE Complete(t, z, k + 1)
  <2>1. Successor(s[L], z) = Unit(Len(z) + 1, 1)
    <3>1. Len(s) > 0
      BY <1>4
    <3> QED
      BY <1>4, <1>5, <3>1 DEF Complete
  <2>2. CASE q = 0
    <3>1. L = m
      BY <2>2, <1>4
    <3>2. s[L] = Unit(k + 1, m)
      BY <1>1, <1>2, <1>4, <3>1
    <3>3. Successor(Unit(k + 1, m), z) = Unit(k + 2, 1)
      BY DEF Successor, Unit
    <3>4. k + 2 = Len(z) + 1
      BY <2>1, <3>2, <3>3 DEF Unit
    <3>5. k + 1 = Len(z)
      BY <3>4
    <3> QED
      BY <2>2, <3>5, <1>4 DEF Complete
  <2>3. CASE q > 0
    <3>1. Len(t) > 0 /\ Len(t) # 0
      BY <2>3, <1>4
    <3>2. t[Len(t)] = s[L]
      BY <3>1, <1>3, <1>4
    <3> QED
      BY <2>1, <3>1, <3>2 DEF Complete
  <2>4. q = 0 \/ q > 0
    BY <1>4
  <2> QED
    BY <2>2, <2>3, <2>4
<1> QED
  BY <1>3, <1>5
-----------------------------------------------------------------------------
(* Sequences cut in two. *)
LEMMA Cut ==
  ASSUME NEW S, NEW t \in Seq(S), NEW n \in 0..Len(t)
  PROVE  /\ SubSeq(t, 1, n) \in Seq(S) /\ SubSeq(t, n + 1, Len(t)) \in Seq(S)
         /\ Len(SubSeq(t, 1, n)) = n
         /\ SubSeq(t, 1, n) \o SubSeq(t, n + 1, Len(t)) = t
<1>1. SubSeq(t, 1, n) \in Seq(S) /\ SubSeq(t, n + 1, Len(t)) \in Seq(S)
  OBVIOUS
<1>2. Len(SubSeq(t, 1, n)) = n
  OBVIOUS
<1>3. 1 \in 1..(Len(t) + 1) /\ n \in (1 - 1)..Len(t) /\ Len(t) \in n..Len(t)
  OBVIOUS
<1>4. SubSeq(t, 1, n) \o SubSeq(t, n + 1, Len(t)) = SubSeq(t, 1, Len(t))
  BY <1>3, ConcatAdjacentSubSeq
<1> QED
  BY <1>1, <1>2, <1>4, SubSeqFull

LEMMA Regroup ==
  \A a, b, c \in Seq(UnitType) : a \o (b \o c) = (a \o b) \o c
<1> SUFFICES ASSUME NEW a \in Seq(UnitType), NEW b \in Seq(UnitType), NEW c \in Seq(UnitType)
             PROVE  a \o (b \o c) = (a \o b) \o c
  OBVIOUS
<1>1. PICK l \in Seq(UnitType), r \in Seq(UnitType) : l = a \o (b \o c) /\ r = (a \o b) \o c
  BY ConcatProperties
<1>2. Len(l) = Len(r) /\ \A i \in 1..Len(l) : l[i] = r[i]
  BY <1>1
<1> QED
  BY <1>1, <1>2, SeqEqual

LEMMA Halves ==
  ASSUME NEW S, NEW a \in Seq(S), NEW r \in Seq(S)
  PROVE  /\ SubSeq(a \o r, 1, Len(a)) = a
         /\ SubSeq(a \o r, Len(a) + 1, Len(a \o r)) = r
<1>1. PICK A \in Nat, R \in Nat : A = Len(a) /\ R = Len(r)
  OBVIOUS
<1>2. PICK c \in Seq(S) : c = a \o r
  BY ConcatProperties
<1>3. /\ Len(c) = A + R
      /\ \A i \in 1..A : c[i] = a[i]
      /\ \A i \in 1..R : c[A + i] = r[i]
  BY <1>1, <1>2
<1>4. SubSeq(c, 1, A) = a
  <2>1. SubSeq(c, 1, A) \in Seq(S) /\ Len(SubSeq(c, 1, A)) = A
    BY <1>3
  <2>2. \A i \in 1..A : SubSeq(c, 1, A)[i] = a[i]
    BY <1>3
  <2> QED
    BY <2>1, <2>2, <1>1, SeqEqual
<1>5. SubSeq(c, A + 1, A + R) = r
  <2>1. PICK x \in Int, y \in Int : x = A + 1 /\ y = A + R
    OBVIOUS
  <2>2. \A i \in x..y : c[i] \in S
    BY <1>3, <2>1
  <2>3. /\ SubSeq(c, x, y) \in Seq(S)
        /\ Len(SubSeq(c, x, y)) = IF x <= y THEN y - x + 1 ELSE 0
        /\ \A i \in 1..(y - x + 1) : SubSeq(c, x, y)[i] = c[x + i - 1]
    BY <2>2, SubSeqProperties
  <2>4. y - x + 1 = R /\ (~(x <= y) => R = 0)
    BY <2>1
  <2>5. ASSUME NEW i \in 1..R PROVE SubSeq(c, x, y)[i] = r[i]
    <3>1. x + i - 1 = A + i
      BY <2>1
    <3> QED
      BY <2>3, <2>4, <3>1, <1>3
  <2>6. Len(SubSeq(c, x, y)) = R
    BY <2>3, <2>4
  <2>7. SubSeq(c, x, y) = r
    BY <2>3, <2>5, <2>6, <1>1, SeqEqual
  <2> QED
    BY <2>1, <2>7
<1> QED
  BY <1>1, <1>2, <1>3, <1>4, <1>5
-----------------------------------------------------------------------------
LEMMA FrameFacts ==
  ASSUME NEW f \in Frames
  PROVE  /\ f.length \in Nat
         /\ f.length > MaxFrame => f.defect # "none"
         /\ f.defect \in {"none", "magic", "version", "type", "flags", "integrity", "length"}
         /\ f.defect = "length" => f.length = MaxFrame + 1
BY FrameAssumption DEF Frames

LEMMA SizesType ==
  ASSUME DecoderType
  PROVE  /\ Sizes \in Seq(Nat \ {0}) /\ Len(Sizes) = Len(sent)
         /\ \A n \in 1..Len(sent) : Sizes[n] = HeaderSize + sent[n].length
<1>1. \A n \in 1..Len(sent) : HeaderSize + sent[n].length \in Nat \ {0}
  <2> SUFFICES ASSUME NEW n \in 1..Len(sent) PROVE HeaderSize + sent[n].length \in Nat \ {0}
    OBVIOUS
  <2>1. sent[n].length \in Nat
    BY FrameFacts DEF DecoderType
  <2> QED
    BY <2>1, FrameAssumption
<1>2. Len(sent) \in Nat
  BY DEF DecoderType
<1> QED
  BY <1>1, <1>2 DEF Sizes

LEMMA UnitsType ==
  ASSUME NEW n \in Nat \ {0}, NEW f \in Frames
  PROVE  Units(n, f) \in Seq(UnitType) /\ HeaderSize + f.length \in Nat \ {0}
<1>1. HeaderSize + f.length \in Nat \ {0}
  BY FrameFacts, FrameAssumption
<1>2. \A i \in 1..(HeaderSize + f.length) : Unit(n, i) \in UnitType
  BY <1>1 DEF Unit, UnitType
<1> QED
  BY <1>1, <1>2 DEF Units

(* What next() finds at the front of a buffer that holds a header: frame
   Len(decoded) + 1, from its start. *)
LEMMA HeaderAtFront ==
  ASSUME DecoderType, StreamInv, pc # "closed", Len(buffer) > 0
  PROVE  /\ buffer[1] = Unit(Len(decoded) + 1, 1)
         /\ buffer[1].at = 1 /\ buffer[1].frame = Len(decoded) + 1
         /\ Len(decoded) + 1 \in 1..Len(sent)
         /\ HeaderFrame = sent[Len(decoded) + 1] /\ HeaderFrame \in Frames
<1>1. /\ buffer \in Seq(UnitType) /\ wire \in Seq(UnitType) /\ sent \in Seq(Frames)
      /\ Len(decoded) \in Nat
  BY DEF DecoderType
<1>2. Len(Stream) > 0 /\ Stream[1] = buffer[1] /\ 1 \in 1..Len(Stream)
  BY <1>1 DEF Stream
<1>3. Contiguous(Stream, Sizes, Len(decoded))
  BY DEF StreamInv
<1>4. buffer[1] = Unit(Len(decoded) + 1, 1) /\ buffer[1].frame \in 1..Len(Sizes)
  BY <1>2, <1>3 DEF Contiguous
<1>5. buffer[1].at = 1 /\ buffer[1].frame = Len(decoded) + 1
  BY <1>4 DEF Unit
<1>6. Len(decoded) + 1 \in 1..Len(sent)
  BY <1>4, <1>5, SizesType
<1> QED
  BY <1>1, <1>4, <1>5, <1>6 DEF HeaderFrame
-----------------------------------------------------------------------------
LEMMA DecoderInit == Init => DecoderInv
<1> SUFFICES ASSUME Init PROVE DecoderInv
  OBVIOUS
<1>1. DecoderType /\ InOrder /\ Refusal
  <2>1. <<>> \in Seq(Frames) /\ <<>> \in Seq(UnitType) /\ <<>> \in Seq(Nat) /\ Len(<<>>) = 0
    BY EmptySeq
  <2>2. DecoderType
    BY <2>1 DEF Init, DecoderType
  <2>3. Len(decoded) = 0 /\ Len(sent) = 0
    BY <2>1 DEF Init
  <2>4. InOrder
    BY <2>3 DEF InOrder
  <2> QED
    BY <2>2, <2>4 DEF Init, Refusal
<1>2. Len(Stream) = 0 /\ Len(Sizes) = 0 /\ Len(decoded) = 0
  BY SizesType, <1>1 DEF Init, Stream
<1>3. Contiguous(Stream, Sizes, Len(decoded)) /\ Complete(Stream, Sizes, Len(decoded))
  BY <1>2 DEF Contiguous, Complete
<1> QED
  BY <1>1, <1>3 DEF DecoderInv, StreamInv

LEMMA SendStep ==
  ASSUME DecoderInv, NEW f \in Frames, Send(f)
  PROVE  DecoderInv'
<1>1. /\ DecoderType /\ InOrder /\ StreamInv /\ Refusal /\ ~hungUp
      /\ sent \in Seq(Frames) /\ buffer \in Seq(UnitType) /\ wire \in Seq(UnitType)
  BY DEF DecoderInv, DecoderType, Send
<1>2. PICK N \in Nat, K \in Nat : N = Len(sent) /\ K = Len(decoded)
  BY DEF DecoderInv, DecoderType
<1>3. K <= N
  BY <1>1, <1>2 DEF InOrder
<1>4. /\ sent' = Append(sent, f) /\ Len(sent') = N + 1 /\ sent'[N + 1] = f
      /\ \A n \in 1..N : sent'[n] = sent[n]
      /\ buffer' = buffer /\ decoded' = decoded /\ pc' = pc /\ failure' = failure /\ hungUp' = hungUp /\ reading' = reading
      /\ wire' = wire \o Units(N + 1, f)
  BY <1>1, <1>2 DEF Send, decoder
<1>5. Units(N + 1, f) \in Seq(UnitType) /\ HeaderSize + f.length \in Nat \ {0}
  BY UnitsType
<1>6. DecoderType'
  <2>1. wire' \in Seq(UnitType)
    BY <1>1, <1>4, <1>5, ConcatProperties
  <2>2. pipelined' \in BOOLEAN
    BY DEF Send
  <2> QED
    BY <1>1, <1>4, <2>1, <2>2 DEF DecoderType
<1>7. InOrder'
  <2>1. \A n \in 1..K : n \in 1..N
    BY <1>3
  <2>2. ~pipelined' => N + 1 <= K + 1
    <3>1. ~pipelined' => K = N
      BY <1>2 DEF Send
    <3> QED
      BY <3>1
  <2>3. K <= N + 1
    BY <1>3
  <2> QED
    BY <1>1, <1>2, <1>4, <2>1, <2>2, <2>3 DEF InOrder
<1>8. Refusal'
  <2>1. K < N => K + 1 \in 1..N /\ K < N + 1
    OBVIOUS
  <2> QED
    BY <1>1, <1>2, <1>4, <2>1 DEF Refusal, Send
<1>9. Stream' = Stream \o Units(N + 1, f)
  BY <1>1, <1>4, <1>5, Regroup DEF Stream
<1>10. Sizes \in Seq(Nat \ {0}) /\ Len(Sizes) = N /\ Sizes' = Append(Sizes, HeaderSize + f.length)
  <2>1. /\ Sizes \in Seq(Nat \ {0}) /\ Len(Sizes) = N
        /\ \A n \in 1..N : Sizes[n] = HeaderSize + sent[n].length
    BY <1>1, <1>2, SizesType
  <2>2. Sizes' = [n \in 1..(N + 1) |-> HeaderSize + sent'[n].length]
    BY <1>4 DEF Sizes
  <2>3. PICK w : w = HeaderSize + f.length
    OBVIOUS
  <2>4. Append(Sizes, w) = [n \in 1..(N + 1) |-> IF n = N + 1 THEN w ELSE Sizes[n]]
    BY <2>1, <2>3, <1>5
  <2>5. \A n \in 1..(N + 1) : HeaderSize + sent'[n].length = IF n = N + 1 THEN w ELSE Sizes[n]
    <3> SUFFICES ASSUME NEW n \in 1..(N + 1)
                 PROVE  HeaderSize + sent'[n].length = IF n = N + 1 THEN w ELSE Sizes[n]
      OBVIOUS
    <3>1. n = N + 1 \/ n \in 1..N
      OBVIOUS
    <3> QED
      BY <3>1, <2>1, <2>3, <1>4
  <2> QED
    BY <2>1, <2>2, <2>3, <2>4, <2>5
<1>11. Stream \in Seq(UnitType)
  BY <1>1, ConcatProperties DEF Stream
<1>12. StreamInv'
  <2> SUFFICES ASSUME pc # "closed"
               PROVE  Contiguous(Stream', Sizes', K) /\ Complete(Stream', Sizes', K)
    BY <1>2, <1>4 DEF StreamInv
  <2>1. Contiguous(Stream, Sizes, K) /\ Complete(Stream, Sizes, K) /\ K \in 0..Len(Sizes)
    BY <1>1, <1>2, <1>3, <1>10 DEF StreamInv
  <2>2. Units(N + 1, f) = [at \in 1..(HeaderSize + f.length) |-> Unit(Len(Sizes) + 1, at)]
    BY <1>10 DEF Units
  <2>3. PICK m \in Nat \ {0}, u \in Seq(UnitType) : m = HeaderSize + f.length /\ u = Units(N + 1, f)
    BY <1>5
  <2>4. Contiguous(Stream \o u, Append(Sizes, m), K) /\ Complete(Stream \o u, Append(Sizes, m), K)
    BY <1>10, <1>11, <2>1, <2>2, <2>3, FrameAdded
  <2> QED
    BY <1>9, <1>10, <2>3, <2>4
<1> QED
  BY <1>6, <1>7, <1>8, <1>12 DEF DecoderInv

LEMMA HangUpStep ==
  ASSUME DecoderInv, NEW n \in 0..Len(wire), HangUp(n)
  PROVE  DecoderInv'
<1>1. /\ DecoderType /\ InOrder /\ StreamInv /\ Refusal
      /\ buffer \in Seq(UnitType) /\ wire \in Seq(UnitType) /\ Len(decoded) \in Nat
  BY DEF DecoderInv, DecoderType
<1>2. /\ sent' = sent /\ pipelined' = pipelined /\ buffer' = buffer /\ failure' = failure
      /\ decoded' = decoded /\ pc' = pc /\ hungUp' = TRUE /\ reading' = reading /\ wire' = SubSeq(wire, 1, n)
  BY DEF HangUp, decoder
<1>3. PICK a \in Seq(UnitType), r \in Seq(UnitType) :
         a = SubSeq(wire, 1, n) /\ a \o r = wire
  <2>1. /\ SubSeq(wire, 1, n) \in Seq(UnitType) /\ SubSeq(wire, n + 1, Len(wire)) \in Seq(UnitType)
        /\ SubSeq(wire, 1, n) \o SubSeq(wire, n + 1, Len(wire)) = wire
    BY <1>1, Cut
  <2> QED
    BY <2>1
<1>4. DecoderType' /\ InOrder' /\ Refusal'
  BY <1>1, <1>2, <1>3 DEF DecoderType, InOrder, Refusal
<1>5. Stream \in Seq(UnitType) /\ buffer \o a \in Seq(UnitType) /\ Sizes' = Sizes
  BY <1>1, <1>2, <1>3, ConcatProperties DEF Stream, Sizes
<1>6. Stream = (buffer \o a) \o r /\ Stream' = buffer \o a
  <2>1. (buffer \o a) \o r = buffer \o (a \o r)
    <3>1. buffer \in Seq(UnitType)
      BY <1>1
    <3> QED
      BY <3>1, Regroup, Zenon
  <2> QED
    BY <1>2, <1>3, <2>1 DEF Stream
<1>7. PICK p \in 0..Len(Stream) : SubSeq(Stream, 1, p) = buffer \o a
  <2>1. Len(buffer \o a) \in 0..Len(Stream)
    BY <1>5, <1>6, <1>3, ConcatProperties
  <2> QED
    BY <1>3, <1>5, <1>6, <2>1, Halves
<1>8. pc # "closed" => Contiguous(Stream', Sizes', Len(decoded))
  BY <1>1, <1>5, <1>6, <1>7, SizesType, PrefixRead DEF StreamInv
<1> QED
  BY <1>2, <1>4, <1>8 DEF DecoderInv, StreamInv

(* A buffer that does not hold what was received holds more than one frame: its peer
   did not wait, or announced more than the limit. *)
LEMMA Overrun ==
  ASSUME DecoderType, InOrder, StreamInv, pc # "closed",
         Len(Stream) > MaxFrame + HeaderSize
  PROVE  \/ pipelined
         \/ Len(decoded) < Len(sent) /\ sent[Len(decoded) + 1].defect # "none"
<1>1. PICK N \in Nat, K \in Nat : N = Len(sent) /\ K = Len(decoded)
  BY DEF DecoderType
<1>2. /\ Stream \in Seq(UnitType) /\ Sizes \in Seq(Nat \ {0}) /\ Len(Sizes) = N
      /\ \A n \in 1..N : Sizes[n] = HeaderSize + sent[n].length
  BY <1>1, SizesType, ConcatProperties DEF DecoderType, Stream
<1>3. PICK L \in Nat : L = Len(Stream) /\ L > MaxFrame + HeaderSize /\ L > 0
  BY <1>2, FrameAssumption
<1>4. Contiguous(Stream, Sizes, K)
  BY <1>1 DEF StreamInv
<1>5. K + 1 \in 1..N
  <2>1. Stream[1] = Unit(K + 1, 1) /\ Stream[1].frame \in 1..N
    BY <1>2, <1>3, <1>4 DEF Contiguous
  <2> QED
    BY <2>1 DEF Unit
<1>6. K < N
  BY <1>5
<1>7. SUFFICES ASSUME ~pipelined, sent[K + 1].defect = "none" PROVE FALSE
  BY <1>1, <1>6
<1>8. PICK m \in Nat \ {0} : m = Sizes[K + 1] /\ m <= MaxFrame + HeaderSize
  <2>1. sent[K + 1] \in Frames
    BY <1>1, <1>5 DEF DecoderType
  <2>2. sent[K + 1].length \in Nat /\ ~(sent[K + 1].length > MaxFrame)
    BY <1>7, <2>1, FrameFacts
  <2>3. Sizes[K + 1] = HeaderSize + sent[K + 1].length
    BY <1>2, <1>5
  <2> QED
    BY <2>2, <2>3, FrameAssumption
<1>9. m + 1 <= L /\ m + 1 \in 1..L
  BY <1>3, <1>8, FrameAssumption
<1>10. Stream[m + 1] = Unit(K + 2, 1)
  <2>1. m + 1 <= Len(Stream) => Stream[m + 1] = Unit(K + 2, 1)
    <3>1. Stream \in Seq(UnitType) /\ Sizes \in Seq(Nat \ {0}) /\ K + 1 \in 1..Len(Sizes) /\ m = Sizes[K + 1]
      BY <1>2, <1>5, <1>8
    <3>2. /\ \A i \in 1..m : i <= Len(Stream) => Stream[i] = Unit(K + 1, i)
          /\ m + 1 <= Len(Stream) => Stream[m + 1] = Unit(K + 2, 1)
      BY <3>1, <1>4, FirstFrame
    <3> QED
      BY <3>2
  <2> QED
    BY <2>1, <1>3, <1>9
<1>11. Stream[m + 1].frame \in 1..N
  BY <1>2, <1>3, <1>4, <1>9 DEF Contiguous
<1>12. K + 2 \in 1..N
  BY <1>10, <1>11 DEF Unit
<1>13. N <= K + 1
  BY <1>1, <1>7 DEF InOrder
<1> QED
  BY <1>12, <1>13

LEMMA ReceiveStep ==
  ASSUME DecoderInv, NEW n \in 1..RecvChunk, Receive(n)
  PROVE  DecoderInv'
<1>1. /\ DecoderType /\ InOrder /\ StreamInv /\ Refusal /\ pc = "recv"
      /\ buffer \in Seq(UnitType) /\ wire \in Seq(UnitType) /\ Len(decoded) \in Nat
  BY DEF DecoderInv, DecoderType, Receive
<1>2. /\ sent' = sent /\ pipelined' = pipelined /\ hungUp' = hungUp /\ decoded' = decoded
      /\ wire' = SubSeq(wire, n + 1, Len(wire)) /\ n <= Len(wire) /\ n \in Nat
  BY FrameAssumption DEF Receive
<1>3. PICK a \in Seq(UnitType), r \in Seq(UnitType) :
         a = SubSeq(wire, 1, n) /\ r = wire' /\ a \o r = wire
  <2>1. n \in 0..Len(wire)
    BY <1>1, <1>2
  <2>2. /\ SubSeq(wire, 1, n) \in Seq(UnitType) /\ SubSeq(wire, n + 1, Len(wire)) \in Seq(UnitType)
        /\ SubSeq(wire, 1, n) \o SubSeq(wire, n + 1, Len(wire)) = wire
    BY <1>1, <2>1, Cut
  <2> QED
    BY <1>2, <2>2
<1>4. CASE Fits(n)
  <2>1. buffer' = buffer \o a /\ reading' = reading /\ pc' = "decode" /\ failure' = failure
    BY <1>3, <1>4 DEF Receive
  <2>2. buffer' \in Seq(UnitType)
    BY <1>1, <1>3, <2>1, ConcatProperties
  <2>3. DecoderType' /\ InOrder' /\ Refusal' /\ Sizes' = Sizes
    BY <1>1, <1>2, <1>3, <2>1, <2>2 DEF DecoderType, InOrder, Refusal, Sizes
  <2>4. Stream' = Stream
    <3>1. buffer \o (a \o r) = (buffer \o a) \o r
      <4>1. buffer \in Seq(UnitType)
        BY <1>1
      <4> QED
        BY <4>1, Regroup, Zenon
    <3> QED
      BY <1>3, <2>1, <3>1 DEF Stream
  <2>5. StreamInv'
    BY <1>1, <1>2, <2>3, <2>4 DEF StreamInv
  <2> QED
    BY <2>3, <2>5 DEF DecoderInv
<1>5. CASE ~Fits(n)
  <2>1. buffer' = buffer /\ reading' = reading /\ pc' = "closed"
    BY <1>5 DEF Receive
  <2>2. DecoderType' /\ InOrder'
    BY <1>1, <1>2, <1>3, <2>1 DEF DecoderType, InOrder
  <2>3. Len(Stream) > MaxFrame + HeaderSize
    <3>1. Len(Stream) = Len(buffer) + Len(wire) /\ Len(buffer) \in Nat /\ Len(wire) \in Nat
      BY <1>1, ConcatProperties DEF Stream
    <3>2. MaxFrame + HeaderSize \in Nat
      BY FrameAssumption
    <3> QED
      BY <1>2, <1>5, <3>1, <3>2 DEF Fits
  <2>4. Refusal'
    BY <1>1, <1>2, <2>3, Overrun DEF Refusal
  <2> QED
    BY <2>1, <2>2, <2>4 DEF DecoderInv, StreamInv
<1> QED
  BY <1>4, <1>5

LEMMA DecodeStep ==
  ASSUME DecoderInv, Decode
  PROVE  DecoderInv'
<1>1. /\ DecoderType /\ InOrder /\ StreamInv /\ Refusal /\ pc = "decode"
      /\ buffer \in Seq(UnitType) /\ wire \in Seq(UnitType) /\ decoded \in Seq(Nat)
  BY DEF DecoderInv, DecoderType, Decode
<1>2. PICK N \in Nat, K \in Nat, B \in Nat :
         N = Len(sent) /\ K = Len(decoded) /\ B = Len(buffer)
  BY <1>1 DEF DecoderType
<1>3. /\ sent' = sent /\ pipelined' = pipelined /\ hungUp' = hungUp /\ wire' = wire
      /\ failure' = failure /\ pc' = "send" /\ reading' = reading
      /\ decoded' = Append(decoded, buffer[1].frame) /\ buffer' = Consumed
      /\ NextOutcome = "Ok"
  BY DEF Decode
<1>4. B >= HeaderSize /\ HeaderOutcome = "Ok" /\ B >= FrameSize /\ HeaderFrame.defect # "integrity"
  <2>1. HeaderSize \in Nat
    BY FrameAssumption
  <2>2. ~(B < HeaderSize) /\ HeaderOutcome = "Ok" /\ ~(B < FrameSize) /\ HeaderFrame.defect # "integrity"
    BY <1>2, <1>3 DEF NextOutcome
  <2>3. B > 0
    BY <2>1, <2>2, FrameAssumption
  <2>4. FrameSize \in Nat
    BY <1>1, <1>2, <2>1, <2>3, HeaderAtFront, FrameFacts DEF FrameSize
  <2> QED
    BY <2>1, <2>2, <2>4
<1>5. /\ buffer[1].at = 1 /\ buffer[1].frame = K + 1 /\ K + 1 \in 1..N
      /\ HeaderFrame = sent[K + 1] /\ HeaderFrame \in Frames
  <2>1. B > 0
    BY <1>4, FrameAssumption
  <2> QED
    BY <1>1, <1>2, <2>1, HeaderAtFront
<1>6. sent[K + 1].defect = "none"
  <2>1. HeaderFrame.defect \notin {"magic", "version", "type", "flags"} /\ ~(HeaderFrame.length > MaxFrame)
    BY <1>4, <1>5 DEF HeaderOutcome
  <2>2. HeaderFrame.defect # "length"
    BY <1>5, <2>1, FrameFacts, FrameAssumption
  <2> QED
    BY <1>4, <1>5, <2>1, <2>2, FrameFacts
<1>7. /\ Sizes \in Seq(Nat \ {0}) /\ Len(Sizes) = N
      /\ \A n \in 1..N : Sizes[n] = HeaderSize + sent[n].length
  BY <1>1, <1>2, SizesType
<1>8. PICK m \in Nat \ {0} : m = FrameSize /\ m = Sizes[K + 1]
  BY <1>5, <1>7 DEF FrameSize
<1>9. PICK a \in Seq(UnitType), b \in Seq(UnitType) :
         Len(a) = m /\ b = buffer' /\ a \o b = buffer
  <2>1. m \in 0..Len(buffer)
    BY <1>2, <1>4, <1>8
  <2>2. /\ SubSeq(buffer, 1, m) \in Seq(UnitType) /\ SubSeq(buffer, m + 1, Len(buffer)) \in Seq(UnitType)
        /\ Len(SubSeq(buffer, 1, m)) = m
        /\ SubSeq(buffer, 1, m) \o SubSeq(buffer, m + 1, Len(buffer)) = buffer
    BY <1>1, <2>1, Cut
  <2> QED
    BY <1>3, <1>8, <2>2 DEF Consumed
<1>10. Sizes' = Sizes
  BY <1>3 DEF Sizes
<1>11. /\ decoded' \in Seq(Nat) /\ Len(decoded') = K + 1 /\ decoded'[K + 1] = K + 1
       /\ \A n \in 1..K : decoded'[n] = decoded[n]
  BY <1>1, <1>2, <1>3, <1>5, AppendProperties
<1>12. DecoderType'
  BY <1>1, <1>3, <1>9, <1>11 DEF DecoderType
<1>13. InOrder'
  <2>1. K + 1 <= N /\ \A n \in 1..(K + 1) : n = K + 1 \/ n \in 1..K
    BY <1>5
  <2>2. ~pipelined => N <= (K + 1) + 1
    BY <1>1, <1>2 DEF InOrder
  <2> QED
    BY <1>1, <1>2, <1>3, <1>6, <1>11, <2>1, <2>2 DEF InOrder
<1>14. Refusal'
  BY <1>1, <1>2, <1>3, <1>6 DEF Refusal
<1>15. StreamInv'
  <2>1. PICK r \in Seq(UnitType) : r = b \o wire
    BY <1>1, ConcatProperties
  <2>2. Stream = a \o r /\ Stream' = r
    <3>1. a \o (b \o wire) = (a \o b) \o wire
      <4>1. wire \in Seq(UnitType)
        BY <1>1
      <4> QED
        BY <4>1, Regroup, Zenon
    <3> QED
      BY <1>3, <1>9, <2>1, <3>1 DEF Stream
  <2>3. Stream \in Seq(UnitType) /\ m <= Len(Stream) /\ Len(Stream) \in Nat
    BY <1>9, <2>1, <2>2, ConcatProperties
  <2>4. r = Dropped(Stream, m)
    <3>1. SubSeq(a \o r, Len(a) + 1, Len(a \o r)) = r
      BY Halves
    <3> QED
      BY <1>9, <2>2, <3>1 DEF Dropped
  <2>5. Contiguous(Stream, Sizes, K) /\ (~hungUp => Complete(Stream, Sizes, K))
    BY <1>1, <1>2 DEF StreamInv
  <2>6. /\ Contiguous(Dropped(Stream, m), Sizes, K + 1)
        /\ Complete(Stream, Sizes, K) => Complete(Dropped(Stream, m), Sizes, K + 1)
    BY <1>5, <1>7, <1>8, <2>3, <2>5, FrameTaken
  <2>7. Contiguous(Stream', Sizes', K + 1) /\ (~hungUp => Complete(Stream', Sizes', K + 1))
    BY <1>10, <2>2, <2>4, <2>5, <2>6
  <2> QED
    BY <1>3, <1>11, <2>7 DEF StreamInv
<1> QED
  BY <1>12, <1>13, <1>14, <1>15 DEF DecoderInv

LEMMA RejectStep ==
  ASSUME DecoderInv, Reject
  PROVE  DecoderInv'
<1>1. /\ DecoderType /\ InOrder /\ StreamInv /\ pc = "decode"
      /\ buffer \in Seq(UnitType) /\ Len(decoded) \in Nat /\ Len(sent) \in Nat
  BY DEF DecoderInv, DecoderType, Reject
<1>2. /\ sent' = sent /\ pipelined' = pipelined /\ hungUp' = hungUp /\ wire' = wire
      /\ buffer' = buffer /\ decoded' = decoded /\ reading' = reading /\ pc' = "closed"
      /\ NextOutcome \notin {"Ok", "NotFound"}
  BY DEF Reject
<1>3. DecoderType' /\ InOrder' /\ StreamInv'
  BY <1>1, <1>2 DEF DecoderType, InOrder, StreamInv
<1>4. ~(Len(buffer) < HeaderSize) /\ (HeaderOutcome # "Ok" \/ HeaderFrame.defect = "integrity")
  BY <1>2 DEF NextOutcome
<1>5. Len(buffer) > 0
  BY <1>1, <1>4, FrameAssumption
<1>6. /\ buffer[1].at = 1 /\ Len(decoded) + 1 \in 1..Len(sent)
      /\ HeaderFrame = sent[Len(decoded) + 1] /\ HeaderFrame \in Frames
  BY <1>1, <1>5, HeaderAtFront
<1>7. HeaderFrame.defect # "none"
  <2>1. HeaderFrame.length > MaxFrame => HeaderFrame.defect # "none"
    BY <1>6, FrameFacts
  <2> QED
    BY <1>4, <1>6, <2>1 DEF HeaderOutcome
<1>8. Len(decoded) < Len(sent)
  BY <1>1, <1>6
<1>9. Refusal'
  BY <1>2, <1>6, <1>7, <1>8 DEF Refusal
<1> QED
  BY <1>3, <1>9 DEF DecoderInv

LEMMA DecoderStep == DecoderInv /\ [Next]_vars => DecoderInv'
<1> SUFFICES ASSUME DecoderInv, [Next]_vars PROVE DecoderInv'
  OBVIOUS
<1>1. CASE UNCHANGED <<sent, pipelined, hungUp, wire, decoder, decoded>> /\ (pc # "closed" \/ pc' = pc)
           /\ pc' \in {"recv", "decode", "send", "closed"} /\ reading' \in BOOLEAN
  BY <1>1 DEF decoder, DecoderInv, DecoderType, InOrder, StreamInv, Stream, Sizes, Refusal
<1>2. ReceiveEnd \/ NeedMore \/ Answer \/ AnswerFails \/ TurnReading => DecoderInv'
  BY <1>1 DEF ReceiveEnd, NeedMore, Answer, AnswerFails, TurnReading, DecoderInv, DecoderType
<1>3. UNCHANGED vars => DecoderInv'
  BY <1>1 DEF vars, DecoderInv, DecoderType
<1> QED
  BY <1>2, <1>3, SendStep, HangUpStep, ReceiveStep, DecodeStep, RejectStep DEF Next, Loop

(* README section 7: however the stream is cut into receives, and whatever the peer
   sends, the frames dispatched are the frames sent, whole, in order and without
   defect, and a peer that waits for its answers is refused only at a defective
   frame. *)
THEOREM FramesIntact == Spec => []StreamIntact
<1>1. DecoderInv => StreamIntact
  BY DEF DecoderInv, InOrder, Refusal, StreamIntact
<1> QED
  BY <1>1, DecoderInit, DecoderStep, PTL DEF Spec
=============================================================================
