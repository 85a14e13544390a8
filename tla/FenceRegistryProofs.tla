------------------------ MODULE FenceRegistryProofs ------------------------
(***************************************************************************)
(* Proofs about FenceRegistry, for any subjects, generation vectors and    *)
(* bounds.                                                                 *)
(***************************************************************************)
EXTENDS FenceRegistry, FiniteSetTheorems, TLAPS

(* The record updates keep a fence record a fence record, of the same intent. *)
LEMMA RecordUpdates ==
  ASSUME NEW r \in FenceRecord
  PROVE  /\ Expired(r) \in FenceRecord /\ Expired(r).intent = r.intent /\ ~IsOpen(Expired(r))
         /\ Revoked(r) \in FenceRecord /\ Revoked(r).intent = r.intent /\ ~IsOpen(Revoked(r))
         /\ Acknowledged(r) \in FenceRecord /\ Acknowledged(r).intent = r.intent
         /\ IsOpen(r) => IsOpen(Acknowledged(r))
         /\ \A v \in BOOLEAN : /\ EffectReported(r, v) \in FenceRecord
                               /\ EffectReported(r, v).intent = r.intent
                               /\ IsOpen(EffectReported(r, v))
         /\ [r EXCEPT !.lifecycle = "FencedByRestart"] \in FenceRecord
  BY DEF FenceRecord, FenceLifecycle, OpenStates, TerminalStates, IsOpen, Expired, Revoked,
         Acknowledged, EffectReported

(* So does revalidation, which closes a record or leaves it alone. *)
LEMMA RevalidatedType ==
  ASSUME NEW r \in FenceRecord, NEW t, NEW g
  PROVE  /\ Revalidated(r, t, g) \in FenceRecord
         /\ Revalidated(r, t, g).intent = r.intent
         /\ IsOpen(Revalidated(r, t, g)) =>
              /\ Revalidated(r, t, g) = r
              /\ IsOpen(r)
              /\ r.intent.gens = g
         /\ Revalidated(r, t, g) # r => IsOpen(r)
  BY RecordUpdates DEF Revalidated

(* A minted intent has what it was minted from, *)
LEMMA IntentType ==
  ASSUME NEW scope \in Scopes, NEW gens \in Gens, NEW b \in Nat, NEW t \in Nat, NEW n \in Nat
  PROVE  /\ MintIntent(scope, gens, b, t, n) \in FenceIntent
         /\ MintIntent(scope, gens, b, t, n).scope = scope
         /\ MintIntent(scope, gens, b, t, n).gens = gens
         /\ MintIntent(scope, gens, b, t, n).boot = b
         /\ MintIntent(scope, gens, b, t, n).serial = n
  BY DEF MintIntent, FenceIntent

(* and the record that begins with it is open. *)
LEMMA NewRecordType ==
  ASSUME NEW i \in FenceIntent
  PROVE  NewRecord(i) \in FenceRecord /\ NewRecord(i).intent = i /\ IsOpen(NewRecord(i))
  BY DEF NewRecord, FenceRecord, FenceLifecycle, OpenStates, IsOpen

(* The counters of FenceStats stay counters when one is moved. *)
LEMMA StatsType ==
  ASSUME NEW st \in FenceStats, NEW n \in Nat, NEW k \in Nat
  PROVE  /\ [st EXCEPT !.issue_attempts = @ + 1] \in FenceStats
         /\ [st EXCEPT !.issue_attempts = @ + 1, !.duplicates_refused = @ + 1] \in FenceStats
         /\ [st EXCEPT !.issue_attempts = @ + 1, !.capacity_refused = @ + 1] \in FenceStats
         /\ [st EXCEPT !.issue_attempts = @ + 1, !.issued = @ + 1, !.open = @ + 1] \in FenceStats
         /\ [st EXCEPT !.issued = @ + 1, !.open = @ + 1] \in FenceStats
         /\ [st EXCEPT !.open = @ - 1, !.expired = @ + 1] \in FenceStats
         /\ [st EXCEPT !.open = @ - 1, !.revoked = @ + 1] \in FenceStats
         /\ [st EXCEPT !.open = @ - n, !.fenced_by_restart = @ + n] \in FenceStats
         /\ [st EXCEPT !.open = @ - n - k, !.expired = @ + n, !.revoked = @ + k] \in FenceStats
<1>1. /\ st.issue_attempts + 1 \in Nat /\ st.duplicates_refused + 1 \in Nat
      /\ st.capacity_refused + 1 \in Nat /\ st.issued + 1 \in Nat /\ st.open + 1 \in Int
      /\ st.open - 1 \in Int /\ st.expired + 1 \in Nat /\ st.revoked + 1 \in Nat
      /\ st.open - n \in Int /\ st.fenced_by_restart + n \in Nat
      /\ st.open - n - k \in Int /\ st.expired + n \in Nat /\ st.revoked + k \in Nat
  BY DEF FenceStats
<1>2. ASSUME NEW a \in Nat, NEW b \in Nat
      PROVE  /\ [st EXCEPT !.issue_attempts = a] \in FenceStats
             /\ [st EXCEPT !.issue_attempts = a, !.duplicates_refused = b] \in FenceStats
             /\ [st EXCEPT !.issue_attempts = a, !.capacity_refused = b] \in FenceStats
  BY DEF FenceStats
<1>3. ASSUME NEW b \in Nat, NEW i \in Int
      PROVE  /\ [st EXCEPT !.issued = b, !.open = i] \in FenceStats
             /\ [st EXCEPT !.open = i, !.expired = b] \in FenceStats
             /\ [st EXCEPT !.open = i, !.revoked = b] \in FenceStats
             /\ [st EXCEPT !.open = i, !.fenced_by_restart = b] \in FenceStats
  BY DEF FenceStats
<1>4. ASSUME NEW a \in Nat, NEW b \in Nat, NEW i \in Int
      PROVE  /\ [st EXCEPT !.issue_attempts = a, !.issued = b, !.open = i] \in FenceStats
             /\ [st EXCEPT !.open = i, !.expired = a, !.revoked = b] \in FenceStats
  BY DEF FenceStats
<1> QED BY <1>1, <1>2, <1>3, <1>4
-----------------------------------------------------------------------------
(* None of the invariants is inductive alone: the counters follow the open
   records, of which there are finitely many, and a record is rewritten in place
   without a second one of its subject. *)
RegistryInv ==
  /\ TypeOK
  /\ IsFiniteSet(OpenIn(records))
  /\ OneOpenPerSubject
  /\ LifecycleAccounting

(* A step publishes one intent, rewrites one open record, or opens nothing. *)
Publishes(i) ==
  /\ i \in FenceIntent
  /\ ~HasDuplicate(records, i.scope, i.gens)
  /\ OpenIn(records)' = OpenIn(records) \cup {NewRecord(i)}
  /\ stats'.open = stats.open + 1

Rewrites(r, new) ==
  /\ r \in OpenIn(records)
  /\ new.intent = r.intent
  /\ OpenIn(records)' = (OpenIn(records) \ {r}) \cup {new}
  /\ stats'.open = stats.open

OpensNothing ==
  /\ OpenIn(records)' \subseteq OpenIn(records)
  /\ stats'.open >= stats.open - Cardinality(OpenIn(records) \ OpenIn(records)')

(* The identity of FenceStats::accounting_closed. *)
Closed(st) == st.issued = st.open + st.revoked + st.expired + st.fenced_by_restart

Shape ==
  \/ \E i \in staged \cup FenceIntent : Publishes(i)
  \/ \E r \in records : \E new \in FenceRecord : Rewrites(r, new)
  \/ OpensNothing

(* The counters move so that the identity stays closed. *)
LEMMA StatsClosed ==
  ASSUME NEW st \in FenceStats, Closed(st), NEW n \in Nat, NEW k \in Nat
  PROVE  /\ Closed([st EXCEPT !.issue_attempts = @ + 1])
         /\ Closed([st EXCEPT !.issue_attempts = @ + 1, !.duplicates_refused = @ + 1])
         /\ Closed([st EXCEPT !.issue_attempts = @ + 1, !.capacity_refused = @ + 1])
         /\ Closed([st EXCEPT !.issue_attempts = @ + 1, !.issued = @ + 1, !.open = @ + 1])
         /\ Closed([st EXCEPT !.issued = @ + 1, !.open = @ + 1])
         /\ Closed([st EXCEPT !.open = @ - 1, !.expired = @ + 1])
         /\ Closed([st EXCEPT !.open = @ - 1, !.revoked = @ + 1])
         /\ Closed([st EXCEPT !.open = @ - n, !.fenced_by_restart = @ + n])
         /\ Closed([st EXCEPT !.open = @ - n - k, !.expired = @ + n, !.revoked = @ + k])
  BY DEF FenceStats, Closed

(* Steps that leave the records and the count of open ones alone. *)
LEMMA SameRecords ==
  ASSUME TypeOK, UNCHANGED records, stats'.open = stats.open
  PROVE  OpensNothing
<1>1. OpenIn(records)' = OpenIn(records)
  BY DEF OpenIn
<1>2. Cardinality(OpenIn(records) \ OpenIn(records)') = 0
  BY <1>1, FS_EmptySet
<1> QED BY <1>1, <1>2 DEF OpensNothing, TypeOK, FenceStats

(* An open record is replaced by one that is not open, and the count goes down. *)
LEMMA CloseOne ==
  ASSUME TypeOK, NEW r \in OpenIn(records), NEW new, ~IsOpen(new),
         records' = Replace(records, r, new), stats'.open = stats.open - 1
  PROVE  OpensNothing
<1>1. OpenIn(records)' = OpenIn(records) \ {r}
  BY DEF OpenIn, Replace
<1>2. OpenIn(records) \ OpenIn(records)' = {r}
  BY <1>1
<1>3. Cardinality({r}) = 1
  BY FS_Singleton
<1> QED BY <1>1, <1>2, <1>3 DEF OpensNothing, TypeOK, FenceStats

(* An open record is replaced by an open one of the same intent. *)
LEMMA RewriteOne ==
  ASSUME TypeOK, NEW r \in OpenIn(records), NEW new \in FenceRecord, IsOpen(new),
         new.intent = r.intent, records' = Replace(records, r, new), UNCHANGED stats
  PROVE  Shape
<1>1. OpenIn(records)' = (OpenIn(records) \ {r}) \cup {new}
  BY DEF OpenIn, Replace
<1>2. Rewrites(r, new)
  BY <1>1 DEF Rewrites
<1> QED BY <1>2 DEF Shape, OpenIn

(* acknowledge() and report_effect() on a record that has lapsed. *)
LEMMA ExpireShape ==
  ASSUME TypeOK, NEW r \in records, ExpireOnUse(r)
  PROVE  /\ OpensNothing
         /\ records' \subseteq FenceRecord
         /\ stats' = [stats EXCEPT !.open = @ - 1, !.expired = @ + 1]
<1>1. r \in OpenIn(records) /\ r \in FenceRecord
  BY DEF ExpireOnUse, OpenIn, TypeOK
<1>2. Expired(r) \in FenceRecord /\ ~IsOpen(Expired(r))
  BY <1>1, RecordUpdates
<1>3. stats'.open = stats.open - 1
  BY DEF ExpireOnUse, TypeOK, FenceStats
<1>4. OpensNothing
  BY <1>1, <1>2, <1>3, CloseOne DEF ExpireOnUse
<1> QED BY <1>2, <1>4 DEF ExpireOnUse, Replace, TypeOK
(* A publication, by issue() or by commit_staged(). *)
LEMMA PublishShape ==
  ASSUME NEW i \in FenceIntent, ~HasDuplicate(records, i.scope, i.gens),
         records' = records \cup {NewRecord(i)}, stats'.open = stats.open + 1
  PROVE  Shape
<1>1. IsOpen(NewRecord(i))
  BY NewRecordType
<1>2. OpenIn(records)' = OpenIn(records) \cup {NewRecord(i)}
  BY <1>1 DEF OpenIn
<1> QED BY <1>2 DEF Shape, Publishes

(* Several open records close; each is counted at most once, all of them are. *)
LEMMA CloseMany ==
  ASSUME TypeOK, NEW R \in SUBSET OpenIn(records), OpenIn(records)' = OpenIn(records) \ R,
         Cardinality(R) \in Nat, stats'.open = stats.open - Cardinality(R)
  PROVE  OpensNothing
<1>1. OpenIn(records) \ OpenIn(records)' = R
  OBVIOUS
<1>2. Cardinality(OpenIn(records) \ OpenIn(records)') = Cardinality(R)
  BY <1>1
<1>3. stats.open \in Int
  BY DEF TypeOK, FenceStats
<1>4. stats'.open >= stats.open - Cardinality(OpenIn(records) \ OpenIn(records)')
  BY <1>2, <1>3
<1> QED BY <1>4 DEF OpensNothing

LEMMA CardinalityDisjoint ==
  ASSUME NEW S, NEW T, IsFiniteSet(S), IsFiniteSet(T), S \cap T = {}
  PROVE  Cardinality(S \cup T) = Cardinality(S) + Cardinality(T)
<1>1. Cardinality(S \cup T) = Cardinality(S) + Cardinality(T) - Cardinality(S \cap T)
  BY FS_Union
<1>2. Cardinality(S \cap T) = 0
  BY FS_EmptySet
<1>3. Cardinality(S) \in Nat /\ Cardinality(T) \in Nat
  BY FS_CardinalityType
<1> QED BY <1>1, <1>2, <1>3

(* revalidate(): the records that close are the lapsed ones and the ones of other
   generations, which are disjoint. *)
LEMMA RevalidateShape ==
  ASSUME RegistryInv, NEW current, Revalidate(current)
  PROVE  OpensNothing /\ TypeOK' /\ Closed(stats')
<1> DEFINE lapsed == {r \in OpenIn(records) : LapsedAt(r, clock)}
           moved == {r \in OpenIn(records) \ lapsed : r.intent.gens # current}
<1>1. /\ IsFiniteSet(lapsed) /\ IsFiniteSet(moved) /\ lapsed \cap moved = {}
      /\ Cardinality(lapsed) \in Nat /\ Cardinality(moved) \in Nat
  <2>1. IsFiniteSet(OpenIn(records))
    BY DEF RegistryInv
  <2>2. lapsed \in SUBSET OpenIn(records) /\ moved \in SUBSET OpenIn(records)
    OBVIOUS
  <2>3. IsFiniteSet(lapsed) /\ IsFiniteSet(moved)
    BY <2>1, <2>2, FS_Subset
  <2> QED BY <2>3, FS_CardinalityType
<1>2. Cardinality(lapsed \cup moved) = Cardinality(lapsed) + Cardinality(moved)
  BY <1>1, CardinalityDisjoint
<1>3. stats' = [stats EXCEPT !.open = @ - Cardinality(lapsed) - Cardinality(moved),
                             !.expired = @ + Cardinality(lapsed),
                             !.revoked = @ + Cardinality(moved)]
  BY DEF Revalidate
<1> HIDE DEF lapsed, moved
<1>4. stats \in FenceStats /\ Closed(stats)
  BY DEF RegistryInv, TypeOK, LifecycleAccounting, Closed
<1>5. stats' \in FenceStats /\ Closed(stats')
  BY <1>1, <1>3, <1>4, StatsType, StatsClosed
<1>6. stats'.open = stats.open - Cardinality(lapsed \cup moved)
  BY <1>1, <1>2, <1>3, <1>4 DEF FenceStats
<1>7. records' = {Revalidated(r, clock, current) : r \in records} /\ records \subseteq FenceRecord
  BY DEF Revalidate, RegistryInv, TypeOK
<1>8. records' \subseteq FenceRecord
  BY <1>7, RevalidatedType
<1>9. OpenIn(records)' = OpenIn(records) \ (lapsed \cup moved)
  <2>1. ASSUME NEW r \in records
        PROVE  IsOpen(Revalidated(r, clock, current)) <=>
                 r \in OpenIn(records) \ (lapsed \cup moved)
    <3>1. r \in FenceRecord
      BY <1>7
    <3>2. r \in OpenIn(records) \ (lapsed \cup moved) <=>
            IsOpen(r) /\ ~LapsedAt(r, clock) /\ r.intent.gens = current
      BY DEF OpenIn, lapsed, moved
    <3>3. IsOpen(r) /\ LapsedAt(r, clock) => ~IsOpen(Revalidated(r, clock, current))
      BY <3>1, RecordUpdates DEF Revalidated
    <3> QED BY <3>1, <3>2, <3>3, RevalidatedType DEF Revalidated
  <2>2. \A r \in records : IsOpen(Revalidated(r, clock, current)) =>
                             Revalidated(r, clock, current) = r
    BY <1>7, RevalidatedType
  <2>3. \A r \in OpenIn(records) \ (lapsed \cup moved) : r \in records
    BY DEF OpenIn
  <2>4. \A q \in OpenIn(records') : q \in OpenIn(records) \ (lapsed \cup moved)
    BY <1>7, <2>1, <2>2 DEF OpenIn
  <2>5. \A r \in OpenIn(records) \ (lapsed \cup moved) : r \in OpenIn(records')
    BY <1>7, <2>1, <2>2, <2>3 DEF OpenIn
  <2>6. OpenIn(records)' = OpenIn(records')
    BY DEF OpenIn
  <2> QED BY <2>4, <2>5, <2>6
<1>10. lapsed \cup moved \in SUBSET OpenIn(records) /\ Cardinality(lapsed \cup moved) \in Nat
  BY <1>1, <1>2 DEF lapsed, moved
<1>11. TypeOK
  BY DEF RegistryInv
<1>12. OpensNothing
  BY <1>6, <1>9, <1>10, <1>11, CloseMany
<1> QED BY <1>5, <1>8, <1>11, <1>12 DEF Revalidate, TypeOK

(* fence_all(): every open record closes. *)
LEMMA FenceAllShape ==
  ASSUME RegistryInv, FenceAll
  PROVE  OpensNothing /\ TypeOK' /\ Closed(stats')
<1>1. Cardinality(OpenIn(records)) \in Nat
  BY FS_CardinalityType DEF RegistryInv
<1>2. stats \in FenceStats /\ Closed(stats) /\ TypeOK
  BY DEF RegistryInv, TypeOK, LifecycleAccounting, Closed
<1>3. stats' \in FenceStats /\ Closed(stats')
  BY <1>1, <1>2, StatsType, StatsClosed DEF FenceAll
<1>4. stats'.open = stats.open - Cardinality(OpenIn(records))
  BY <1>1, <1>2 DEF FenceAll, FenceStats
<1>5. \A r \in records : FencedByRestart(r) \in FenceRecord /\ ~IsOpen(FencedByRestart(r))
  <2> SUFFICES ASSUME NEW r \in records
               PROVE  FencedByRestart(r) \in FenceRecord /\ ~IsOpen(FencedByRestart(r))
    OBVIOUS
  <2>1. r \in FenceRecord
    BY <1>2 DEF TypeOK
  <2>2. [r EXCEPT !.lifecycle = "FencedByRestart"].lifecycle = "FencedByRestart"
    BY <2>1 DEF FenceRecord
  <2> QED BY <2>1, <2>2, RecordUpdates DEF FencedByRestart, IsOpen, OpenStates
<1>6. records' \subseteq FenceRecord /\ OpenIn(records)' = OpenIn(records) \ OpenIn(records)
  BY <1>5 DEF FenceAll, OpenIn
<1>7. OpensNothing
  BY <1>1, <1>2, <1>4, <1>6, CloseMany
<1> QED BY <1>2, <1>3, <1>6, <1>7 DEF FenceAll, TypeOK
(* Every step has one of the three shapes, keeps the types and the identity. *)
LEMMA StepShape ==
  ASSUME RegistryInv, Next
  PROVE  Shape /\ TypeOK' /\ Closed(stats')
<1> USE DEF Shape
<1>1. TypeOK /\ stats \in FenceStats /\ Closed(stats)
  BY DEF RegistryInv, TypeOK, LifecycleAccounting, Closed
<1>2. CASE RefuseInvalid
  BY <1>1, <1>2, SameRecords, StatsType, StatsClosed DEF RefuseInvalid, TypeOK, FenceStats
<1>3. ASSUME NEW scope \in Scopes, NEW gens \in Gens,
             RefuseDuplicate(scope, gens) \/ RefuseCapacity(scope, gens)
      PROVE  Shape /\ TypeOK' /\ Closed(stats')
  <2>1. UNCHANGED <<clock, records, staged>> /\ stats'.open = stats.open
    BY <1>1, <1>3 DEF RefuseDuplicate, RefuseCapacity, FenceStats
  <2>2. stats' \in FenceStats /\ Closed(stats')
    BY <1>1, <1>3, StatsType, StatsClosed DEF RefuseDuplicate, RefuseCapacity
  <2> QED BY <1>1, <2>1, <2>2, SameRecords DEF TypeOK
<1>4. ASSUME NEW scope \in Scopes, NEW gens \in Gens, NEW boot \in Boots,
             Issue(scope, gens, boot) \/ Stage(scope, gens, boot)
      PROVE  Shape /\ TypeOK' /\ Closed(stats')
  <2> DEFINE i == Mint(scope, gens, boot)
  <2>1. i \in FenceIntent /\ i.scope = scope /\ i.gens = gens
    <3>1. boot \in Nat /\ clock \in Nat /\ stats.issue_attempts + 1 \in Nat
      BY <1>1, RegistryAssumption DEF TypeOK, FenceStats
    <3> QED BY <3>1, IntentType DEF Mint
  <2>2. NewRecord(i) \in FenceRecord
    BY <2>1, NewRecordType
  <2>3. CASE Issue(scope, gens, boot)
    <3>1. /\ ~HasDuplicate(records, i.scope, i.gens)
          /\ records' = records \cup {NewRecord(i)}
          /\ UNCHANGED <<clock, staged>>
          /\ stats' = [stats EXCEPT !.issue_attempts = @ + 1, !.issued = @ + 1, !.open = @ + 1]
      BY <2>1, <2>3 DEF Issue, MayMint
    <3>2. stats' \in FenceStats /\ Closed(stats') /\ stats'.open = stats.open + 1
      BY <1>1, <3>1, StatsType, StatsClosed DEF FenceStats
    <3> HIDE DEF i
    <3> QED BY <1>1, <2>1, <2>2, <3>1, <3>2, PublishShape DEF TypeOK
  <2>4. CASE Stage(scope, gens, boot)
    <3>1. /\ staged' = staged \cup {i}
          /\ UNCHANGED <<clock, records>>
          /\ stats' = [stats EXCEPT !.issue_attempts = @ + 1]
      BY <2>4 DEF Stage
    <3>2. stats' \in FenceStats /\ Closed(stats') /\ stats'.open = stats.open
      BY <1>1, <3>1, StatsType, StatsClosed DEF FenceStats
    <3> HIDE DEF i
    <3> QED BY <1>1, <2>1, <3>1, <3>2, SameRecords DEF TypeOK
  <2> QED BY <1>4, <2>3, <2>4
<1>5. ASSUME NEW i \in staged, CommitStaged(i) \/ AbandonStaged(i)
      PROVE  Shape /\ TypeOK' /\ Closed(stats')
  <2>1. i \in FenceIntent /\ NewRecord(i) \in FenceRecord
    BY <1>1, NewRecordType DEF TypeOK
  <2>2. UNCHANGED clock /\ staged' \subseteq staged
    BY <1>5 DEF CommitStaged, AbandonStaged
  <2>3. CASE UNCHANGED <<records, stats>>
    BY <1>1, <2>2, <2>3, SameRecords DEF TypeOK
  <2>4. CASE CommitStaged(i) /\ CanCommitStaged(records, i)
    <3>1. /\ ~HasDuplicate(records, i.scope, i.gens)
          /\ records' = records \cup {NewRecord(i)}
          /\ stats' = [stats EXCEPT !.issued = @ + 1, !.open = @ + 1]
      BY <2>4 DEF CommitStaged, CanCommitStaged
    <3>2. stats' \in FenceStats /\ Closed(stats') /\ stats'.open = stats.open + 1
      BY <1>1, <3>1, StatsType, StatsClosed DEF FenceStats
    <3> QED BY <1>1, <2>1, <2>2, <3>1, <3>2, PublishShape DEF TypeOK
  <2> QED BY <1>5, <2>3, <2>4 DEF CommitStaged, AbandonStaged
<1>6. ASSUME NEW r \in records, ExpireOnUse(r), UNCHANGED <<clock, staged>>
      PROVE  Shape /\ TypeOK' /\ Closed(stats')
  BY <1>1, <1>6, ExpireShape, StatsType, StatsClosed DEF TypeOK
<1>7. ASSUME NEW r \in records, IsOpen(r), NEW new \in FenceRecord, IsOpen(new),
             new.intent = r.intent, records' = Replace(records, r, new),
             UNCHANGED <<clock, staged, stats>>
      PROVE  Shape /\ TypeOK' /\ Closed(stats')
  BY <1>1, <1>7, RewriteOne DEF TypeOK, OpenIn, Replace
<1>8. ASSUME NEW r \in records, Acknowledge(r)
      PROVE  Shape /\ TypeOK' /\ Closed(stats')
  <2>1. r \in FenceRecord
    BY <1>1 DEF TypeOK
  <2> QED BY <1>6, <1>7, <1>8, <2>1, RecordUpdates DEF Acknowledge
<1>9. ASSUME NEW r \in records, NEW verified \in BOOLEAN, ReportEffect(r, verified)
      PROVE  Shape /\ TypeOK' /\ Closed(stats')
  <2>1. r \in FenceRecord
    BY <1>1 DEF TypeOK
  <2> QED BY <1>6, <1>7, <1>9, <2>1, RecordUpdates DEF ReportEffect
<1>10. ASSUME NEW r \in records, Revoke(r)
       PROVE  Shape /\ TypeOK' /\ Closed(stats')
  <2>1. r \in FenceRecord /\ r \in OpenIn(records)
    BY <1>1, <1>10 DEF TypeOK, Revoke, OpenIn
  <2>2. Revoked(r) \in FenceRecord /\ ~IsOpen(Revoked(r))
    BY <2>1, RecordUpdates
  <2>3. stats' \in FenceStats /\ Closed(stats') /\ stats'.open = stats.open - 1
    BY <1>1, <1>10, StatsType, StatsClosed DEF Revoke, FenceStats
  <2>4. OpensNothing
    BY <1>1, <1>10, <2>1, <2>2, <2>3, CloseOne DEF Revoke
  <2> QED BY <1>1, <1>10, <2>2, <2>3, <2>4 DEF Revoke, Replace, TypeOK
<1>11. CASE Clear
  <2>1. OpenIn(records)' = {} /\ UNCHANGED <<clock, staged, stats>> /\ records' = {}
    BY <1>11 DEF Clear, OpenIn
  <2>2. Cardinality(OpenIn(records) \ OpenIn(records)') \in Nat
    BY <2>1, FS_CardinalityType DEF RegistryInv
  <2> QED BY <1>1, <2>1, <2>2 DEF OpensNothing, TypeOK, FenceStats
<1>12. ASSUME NEW t \in 0..MaxTime, SetClock(t)
       PROVE  Shape /\ TypeOK' /\ Closed(stats')
  BY <1>1, <1>12, SameRecords, RegistryAssumption DEF SetClock, TypeOK
<1> QED BY <1>2, <1>3, <1>4, <1>5, <1>8, <1>9, <1>10, <1>11, <1>12,
           RevalidateShape, FenceAllShape DEF Next
(* A subject keeps at most one open record: a publication meets none of its own,
   a rewritten record stays of its intent. *)
LEMMA OneOpenStep ==
  ASSUME TypeOK, OneOpenPerSubject, Shape
  PROVE  OneOpenPerSubject'
<1> SUFFICES ASSUME NEW q \in OpenIn(records)', NEW s \in OpenIn(records)',
                    q.intent.scope = s.intent.scope, q.intent.gens = s.intent.gens
             PROVE  q = s
  BY DEF OneOpenPerSubject
<1>1. ASSUME NEW i, Publishes(i) PROVE q = s
  <2>1. NewRecord(i).intent = i
    BY <1>1, NewRecordType DEF Publishes
  <2>2. \A p \in OpenIn(records) : ~(p.intent.scope = i.scope /\ p.intent.gens = i.gens)
    BY <1>1 DEF Publishes, HasDuplicate, OpenFor
  <2> QED BY <1>1, <2>1, <2>2 DEF Publishes, OneOpenPerSubject
<1>2. ASSUME NEW r, NEW new, Rewrites(r, new) PROVE q = s
  BY <1>2 DEF Rewrites, OneOpenPerSubject
<1>3. CASE OpensNothing
  BY <1>3 DEF OpensNothing, OneOpenPerSubject
<1> QED BY <1>1, <1>2, <1>3 DEF Shape

(* The count of open records never falls behind the records. *)
LEMMA CountStep ==
  ASSUME RegistryInv, Shape, stats'.open \in Int
  PROVE  /\ IsFiniteSet(OpenIn(records)')
         /\ stats'.open >= Cardinality(OpenIn(records)')
<1> DEFINE O == OpenIn(records)
           P == OpenIn(records)'
<1>1. IsFiniteSet(O) /\ Cardinality(O) \in Nat /\ stats.open \in Int /\ stats.open >= Cardinality(O)
  BY FS_CardinalityType DEF RegistryInv, LifecycleAccounting, TypeOK, FenceStats
<1>2. ASSUME NEW i, Publishes(i)
      PROVE  IsFiniteSet(P) /\ stats'.open >= Cardinality(P)
  <2>1. P = O \cup {NewRecord(i)} /\ stats'.open = stats.open + 1
    BY <1>2 DEF Publishes
  <2> HIDE DEF O, P
  <2>2. IsFiniteSet(P) /\ Cardinality(P) \in {Cardinality(O), Cardinality(O) + 1}
    BY <1>1, <2>1, FS_AddElement
  <2> QED BY <1>1, <2>1, <2>2
<1>3. ASSUME NEW r, NEW new, Rewrites(r, new)
      PROVE  IsFiniteSet(P) /\ stats'.open >= Cardinality(P)
  <2>1. r \in O /\ P = (O \ {r}) \cup {new} /\ stats'.open = stats.open
    BY <1>3 DEF Rewrites
  <2> HIDE DEF O, P
  <2>2. IsFiniteSet(O \ {r}) /\ Cardinality(O \ {r}) = Cardinality(O) - 1
    BY <1>1, <2>1, FS_RemoveElement
  <2>3. IsFiniteSet(P) /\ Cardinality(P) \in {Cardinality(O) - 1, Cardinality(O) - 1 + 1}
    BY <2>1, <2>2, FS_AddElement
  <2> QED BY <1>1, <2>1, <2>3
<1>4. ASSUME OpensNothing
      PROVE  IsFiniteSet(P) /\ stats'.open >= Cardinality(P)
  <2>1. P \subseteq O /\ stats'.open >= stats.open - Cardinality(O \ P)
    BY <1>4 DEF OpensNothing
  <2> HIDE DEF O, P
  <2>2. IsFiniteSet(P) /\ IsFiniteSet(O \ P) /\ (O \ P) \cap P = {} /\ (O \ P) \cup P = O
    BY <1>1, <2>1, FS_Subset, FS_Difference
  <2>3. Cardinality((O \ P) \cup P) = Cardinality(O \ P) + Cardinality(P)
    BY <2>2, CardinalityDisjoint
  <2>4. Cardinality(O) = Cardinality(O \ P) + Cardinality(P)
    BY <2>2, <2>3
  <2>5. Cardinality(P) \in Nat /\ Cardinality(O \ P) \in Nat
    BY <2>2, FS_CardinalityType
  <2> QED BY <1>1, <2>1, <2>2, <2>4, <2>5
<1> QED BY <1>2, <1>3, <1>4 DEF Shape

(* The registry starts empty. *)
LEMMA RegistryInit == Init => RegistryInv
<1> SUFFICES ASSUME Init PROVE RegistryInv
  OBVIOUS
<1>1. OpenIn(records) = {}
  BY DEF Init, OpenIn
<1>2. IsFiniteSet(OpenIn(records)) /\ Cardinality(OpenIn(records)) = 0
  BY <1>1, FS_EmptySet
<1>3. stats \in FenceStats
  BY DEF Init, FenceStats
<1> QED BY <1>1, <1>2, <1>3 DEF Init, RegistryInv, TypeOK, OneOpenPerSubject, LifecycleAccounting

LEMMA RegistryStep == RegistryInv /\ [Next]_vars => RegistryInv'
<1> SUFFICES ASSUME RegistryInv, [Next]_vars PROVE RegistryInv'
  OBVIOUS
<1>1. CASE Next
  <2>1. Shape /\ TypeOK' /\ Closed(stats')
    BY <1>1, StepShape
  <2>2. stats'.open \in Int
    BY <2>1 DEF TypeOK, FenceStats
  <2>3. IsFiniteSet(OpenIn(records)') /\ stats'.open >= Cardinality(OpenIn(records)')
    BY <2>1, <2>2, CountStep
  <2>4. LifecycleAccounting'
    BY <2>1, <2>3 DEF LifecycleAccounting, Closed
  <2>5. OneOpenPerSubject'
    BY <2>1, OneOpenStep DEF RegistryInv
  <2> QED BY <2>1, <2>3, <2>4, <2>5 DEF RegistryInv
<1>2. CASE UNCHANGED vars
  <2>1. /\ UNCHANGED stats
        /\ UNCHANGED OpenIn(records)
        /\ UNCHANGED Cardinality(OpenIn(records))
    BY <1>2 DEF vars, OpenIn
  <2> QED BY <1>2, <2>1
          DEF vars, RegistryInv, TypeOK, OneOpenPerSubject, LifecycleAccounting
<1> QED BY <1>1, <1>2

LEMMA RegistryInvariance == Spec => []RegistryInv
  BY RegistryInit, RegistryStep, PTL DEF Spec
-----------------------------------------------------------------------------
(* authority.hpp, duplicate refusal: whatever happens between stage() and
   commit_staged(), a subject never has two open fences under one generation
   vector. *)
THEOREM SubjectsUnambiguous == Spec => []OneOpenPerSubject
<1>1. RegistryInv => OneOpenPerSubject
  BY DEF RegistryInv
<1> QED BY <1>1, RegistryInvariance, PTL

(* FenceStats::accounting_closed, second line, through every path that closes a
   fence, and stats_.open covers the records that are open. *)
THEOREM AccountingCloses == Spec => []LifecycleAccounting
<1>1. RegistryInv => LifecycleAccounting
  BY DEF RegistryInv
<1> QED BY <1>1, RegistryInvariance, PTL

(* The registry's variables keep their types. *)
THEOREM RegistryTypeCorrect == Spec => []TypeOK
<1>1. RegistryInv => TypeOK
  BY DEF RegistryInv
<1> QED BY <1>1, RegistryInvariance, PTL

(* Each operation but clear() leaves the terminal records in place. *)
LEMMA TerminalKept ==
  ASSUME TypeOK, [Next]_vars, ~Clear, NEW r \in records, ~IsOpen(r)
  PROVE  r \in records'
<1>1. \A g : Revalidated(r, clock, g) = r
  BY DEF Revalidated
<1>2. FencedByRestart(r) = r
  BY DEF FencedByRestart
<1>3. CASE records \subseteq records'
  BY <1>3
<1>4. ASSUME NEW s \in records, NEW new, IsOpen(s), records' = Replace(records, s, new)
      PROVE  r \in records'
  BY <1>4 DEF Replace
<1>5. ASSUME NEW g, Revalidate(g) PROVE r \in records'
  BY <1>1, <1>5 DEF Revalidate
<1>6. CASE FenceAll
  BY <1>2, <1>6 DEF FenceAll
<1>7. ASSUME NEW s \in records, \/ Acknowledge(s) \/ Revoke(s)
                                \/ \E v \in BOOLEAN : ReportEffect(s, v)
      PROVE  r \in records'
  BY <1>4, <1>7 DEF Acknowledge, Revoke, ReportEffect, ExpireOnUse
<1>8. ASSUME NEW i \in staged, CommitStaged(i) \/ AbandonStaged(i) PROVE r \in records'
  BY <1>8 DEF CommitStaged, AbandonStaged
<1> QED BY <1>3, <1>5, <1>6, <1>7, <1>8
        DEF Next, vars, RefuseInvalid, RefuseDuplicate, RefuseCapacity, Issue, Stage, SetClock

(* A terminal record is never reopened or rewritten, by late acknowledgements,
   revalidation or a clock that goes back. *)
THEOREM TerminalRecordsFinal == Spec => TerminalIsFinal
<1>1. TypeOK /\ [Next]_vars =>
        [~Clear => \A r \in records : ~IsOpen(r) => r \in records']_vars
  BY TerminalKept
<1> QED BY <1>1, RegistryTypeCorrect, PTL DEF Spec, TerminalIsFinal
=============================================================================
