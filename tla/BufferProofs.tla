---------------------------- MODULE BufferProofs ----------------------------
(***************************************************************************)
(* Theorems about the durable buffer, for every value of its constants.    *)
(***************************************************************************)
EXTENDS Buffer, FiniteSetTheorems, WellFoundedInduction, TLAPS

-----------------------------------------------------------------------------
(* Least and greatest elements of sets of naturals. *)

(* Some well-founded relation on Nat contains the order of the naturals. *)
LEMMA LessIsWellFounded ==
  \E R : /\ IsWellFoundedOn(R, Nat)
         /\ \A x, y \in Nat : x < y => <<x, y>> \in R
<1>1. \A x, y \in Nat : x < y => <<x, y>> \in OpToRel(<, Nat)
  BY DEF OpToRel
<1>2. QED
  BY <1>1, NatLessThanWellFounded, Zenon

(* A nonempty set of naturals has a minimal element of such a relation. *)
LEMMA MinimalElement ==
  ASSUME NEW R, IsWellFoundedOn(R, Nat), NEW S, S \subseteq Nat, S # {}
  PROVE  \E x \in S : \A y \in S : ~ (<<y, x>> \in R)
BY WFMin

(* A nonempty set of naturals has a least element. *)
LEMMA LeastNat ==
  ASSUME NEW S, S \subseteq Nat, S # {}
  PROVE  \E m \in S : \A n \in S : m <= n
<1>1. PICK R : /\ IsWellFoundedOn(R, Nat)
               /\ \A x, y \in Nat : x < y => <<x, y>> \in R
  BY LessIsWellFounded
<1>2. IsWellFoundedOn(R, Nat)
  BY <1>1
<1>3. PICK m \in S : \A y \in S : ~ (<<y, m>> \in R)
  BY <1>2, MinimalElement, Zenon
<1>4. \A n \in S : ~ (n < m)
  BY <1>1, <1>3
<1>5. QED
  BY <1>4

(* A nonempty set of subsets of a finite set has a minimal element. *)
LEMMA MinimalSubset ==
  ASSUME NEW S, IsFiniteSet(S), NEW T, T \subseteq FiniteSubsetsOf(S), T # {}
  PROVE  \E X \in T : \A Y \in T : ~ (<<Y, X>> \in StrictSubsetOrdering(S))
BY WFMin, FS_StrictSubsetOrderingWellFounded

(* A nonempty finite set of naturals has a greatest element. *)
LEMMA GreatestNat ==
  ASSUME NEW S, S \subseteq Nat, IsFiniteSet(S), S # {}
  PROVE  \E m \in S : \A n \in S : m >= n
<1> DEFINE HasMax(X) == \E m \in X : \A n \in X : m >= n
           T == {X \in SUBSET S : X # {} /\ ~ HasMax(X)}
<1>1. SUFFICES ASSUME T # {} PROVE FALSE
  OBVIOUS
<1>2. T \subseteq FiniteSubsetsOf(S)
  BY FS_FiniteSubsetsOfFinite
<1>3. PICK X \in T : \A Y \in T : ~ (<<Y, X>> \in StrictSubsetOrdering(S))
  BY <1>1, <1>2, MinimalSubset
<1>4. PICK x \in X : TRUE
  OBVIOUS
<1> DEFINE Y == X \ {x}
<1>5. Y \in SUBSET S /\ X \in SUBSET S /\ Y \subseteq X /\ Y # X
  BY <1>4
<1>6. <<Y, X>> \in StrictSubsetOrdering(S)
  BY <1>5 DEF StrictSubsetOrdering
<1>7. Y = {} \/ HasMax(Y)
  BY <1>3, <1>5, <1>6
<1>8. x \in Nat /\ X \subseteq Nat
  BY <1>4, <1>5
<1>9. CASE Y = {}
  <2>1. \A n \in X : n = x
    BY <1>9
  <2>2. HasMax(X)
    BY <1>4, <1>8, <2>1
  <2>3. QED
    BY <2>2
<1>10. CASE HasMax(Y)
  <2>1. PICK y \in Y : \A n \in Y : y >= n
    BY <1>10
  <2>2. \A n \in X : n = x \/ n \in Y
    OBVIOUS
  <2>3. CASE x >= y
    <3>1. \A n \in X : x >= n
      BY <1>8, <2>1, <2>2, <2>3
    <3>2. QED
      BY <1>4, <3>1
  <2>4. CASE y >= x
    <3>1. \A n \in X : y >= n
      BY <1>8, <2>1, <2>2, <2>4
    <3>2. QED
      BY <2>1, <3>1
  <2>5. QED
    BY <1>8, <2>1, <2>3, <2>4
<1>11. QED
  BY <1>7, <1>9, <1>10

-----------------------------------------------------------------------------
(* The tables. *)

(* LastId is the greatest id of a table, or zero. *)
LEMMA LastIdIsGreatest ==
  ASSUME NEW table, IsTable(table)
  PROVE  /\ LastId(table) \in Nat
         /\ \A i \in DOMAIN table : i <= LastId(table)
         /\ DOMAIN table # {} => LastId(table) \in DOMAIN table
<1>1. DOMAIN table \subseteq Nat /\ IsFiniteSet(DOMAIN table)
  BY DEF IsTable
<1>2. CASE DOMAIN table = {}
  BY <1>2 DEF LastId
<1>3. CASE DOMAIN table # {}
  <2>1. \E m \in DOMAIN table : \A i \in DOMAIN table : m >= i
    BY <1>1, <1>3, GreatestNat
  <2>2. /\ Max(DOMAIN table) \in DOMAIN table
        /\ \A i \in DOMAIN table : Max(DOMAIN table) >= i
    BY <2>1 DEF Max
  <2>3. QED
    BY <1>1, <1>3, <2>2 DEF LastId
<1>4. QED
  BY <1>2, <1>3

(* Deleting rows keeps a table ordered. *)
LEMMA RestrictIsOrdered ==
  ASSUME NEW table, NEW top \in Nat, Ordered(table, top),
         NEW S, S \subseteq DOMAIN table
  PROVE  /\ Ordered(Restrict(table, S), top)
         /\ DOMAIN Restrict(table, S) = S
         /\ \A i \in S : Restrict(table, S)[i] = table[i]
<1>1. IsFiniteSet(S)
  BY FS_Subset DEF Ordered, IsTable
<1>2. QED
  BY <1>1 DEF Ordered, IsTable, Restrict

(* Appending the drafts of an emission keeps pending ordered. *)
LEMMA InsertedIsOrdered ==
  ASSUME seq \in Nat, Ordered(pending, seq),
         NEW n \in Nat, NEW size \in [1..n -> Sizes]
  PROVE  LET stored == Inserted(n, size)
             last == LastId(pending)
         IN  /\ Ordered(stored, seq + n)
             /\ DOMAIN stored = DOMAIN pending \cup ((last + 1)..(last + n))
             /\ \A i \in DOMAIN pending : stored[i] = pending[i] /\ i <= last
             /\ \A k \in 1..n : stored[last + k].seq = seq + k
             /\ last \in Nat
<1> DEFINE last == LastId(pending)
           fresh == (last + 1)..(last + n)
           stored == Inserted(n, size)
<1>1. /\ last \in Nat
      /\ \A i \in DOMAIN pending : i <= last
  BY LastIdIsGreatest DEF Ordered
<1>2. DOMAIN stored = DOMAIN pending \cup fresh
  BY DEF Inserted
<1>3. \A i \in DOMAIN pending : stored[i] = pending[i]
  BY DEF Inserted
<1>4. \A i \in fresh : stored[i] = [seq |-> seq + (i - last), bytes |-> size[i - last]]
  BY <1>1 DEF Inserted
<1>5. /\ DOMAIN pending \subseteq Nat \ {0}
      /\ IsFiniteSet(DOMAIN pending)
      /\ \A i \in DOMAIN pending : pending[i] \in Row
  BY DEF Ordered, IsTable
<1> HIDE DEF stored, last
<1>6. IsFiniteSet(fresh)
  BY <1>1, FS_Interval
<1>7. IsFiniteSet(DOMAIN stored)
  BY <1>2, <1>5, <1>6, FS_Union
<1>8. DOMAIN stored \subseteq Nat \ {0}
  BY <1>1, <1>2, <1>5
<1>9. ASSUME NEW i \in fresh
      PROVE  stored[i] \in Row /\ stored[i].seq = seq + (i - last)
  <2>1. i - last \in 1..n /\ seq + (i - last) \in Nat
    BY <1>1
  <2>2. size[i - last] \in Sizes
    BY <2>1
  <2>3. stored[i] = [seq |-> seq + (i - last), bytes |-> size[i - last]]
    BY <1>4
  <2>4. stored[i].seq = seq + (i - last)
    BY <2>3
  <2>5. stored[i] \in Row
    BY <2>1, <2>2, <2>3 DEF Row
  <2>6. QED
    BY <2>4, <2>5
<1>10. stored \in [DOMAIN stored -> Row]
  <2>1. stored = [i \in DOMAIN stored |-> stored[i]]
    BY DEF stored, Inserted
  <2>2. QED
    BY <2>1, <1>2, <1>3, <1>5, <1>9
<1>11. \A i \in DOMAIN stored : stored[i].seq \in 1..(seq + n)
  <2>1. \A i \in DOMAIN pending : pending[i].seq \in 1..seq
    BY DEF Ordered
  <2>2. QED
    BY <1>1, <1>2, <1>3, <1>9, <2>1
<1>12. ASSUME NEW i \in DOMAIN stored, NEW j \in DOMAIN stored, i < j
       PROVE  stored[i].seq < stored[j].seq
  <2>1. \A k \in DOMAIN pending : pending[k].seq \in 1..seq
    BY DEF Ordered
  <2>2. CASE i \in DOMAIN pending /\ j \in DOMAIN pending
    BY <1>3, <1>12, <2>2 DEF Ordered
  <2>3. CASE i \in DOMAIN pending /\ j \in fresh
    BY <1>1, <1>3, <1>9, <2>1, <2>3
  <2>4. CASE i \in fresh /\ j \in fresh
    BY <1>1, <1>9, <1>12, <2>4
  <2>5. CASE i \in fresh /\ j \in DOMAIN pending
    BY <1>1, <1>5, <1>12, <2>5
  <2>6. QED
    BY <1>2, <2>2, <2>3, <2>4, <2>5
<1>13. Ordered(stored, seq + n)
  BY <1>7, <1>8, <1>10, <1>11, <1>12 DEF Ordered, IsTable
<1>14. ASSUME NEW k \in 1..n
       PROVE  stored[last + k].seq = seq + k
  <2>1. last + k \in fresh
    BY <1>1
  <2>2. QED
    BY <1>1, <1>9, <2>1
<1>15. QED
  BY <1>1, <1>2, <1>3, <1>13, <1>14 DEF stored, last

(* Appending the marker keeps a table ordered. *)
LEMMA WithMarkerIsOrdered ==
  ASSUME NEW table, NEW top \in Nat, Ordered(table, top)
  PROVE  LET marked == WithMarker(table, top + 1)
             id == LastId(table) + 1
         IN  /\ Ordered(marked, top + 1)
             /\ DOMAIN marked = DOMAIN table \cup {id}
             /\ \A i \in DOMAIN table : marked[i] = table[i] /\ i < id
             /\ marked[id] = [seq |-> top + 1, bytes |-> MarkerBytes]
<1> DEFINE id == LastId(table) + 1
           marked == WithMarker(table, top + 1)
<1>1. /\ id \in Nat \ {0}
      /\ \A i \in DOMAIN table : i <= LastId(table)
      /\ LastId(table) \in Nat
  BY LastIdIsGreatest DEF Ordered
<1>2. /\ DOMAIN table \subseteq Nat \ {0}
      /\ IsFiniteSet(DOMAIN table)
      /\ \A i \in DOMAIN table : table[i] \in Row /\ table[i].seq \in 1..top
  BY DEF Ordered, IsTable
<1>3. \A i \in DOMAIN table : i < id
  BY <1>1, <1>2
<1>4. DOMAIN marked = DOMAIN table \cup {id}
  BY DEF WithMarker
<1>5. \A i \in DOMAIN table : marked[i] = table[i]
  BY DEF WithMarker
<1>6. id \notin DOMAIN table
  BY <1>2, <1>3
<1>7. marked[id] = [seq |-> top + 1, bytes |-> MarkerBytes]
  BY <1>6 DEF WithMarker
<1>8. marked[id] \in Row /\ marked[id].seq = top + 1
  BY <1>7 DEF Row
<1>9. marked = [i \in DOMAIN marked |-> marked[i]]
  BY DEF WithMarker
<1> HIDE DEF marked, id
<1>10. IsFiniteSet(DOMAIN marked)
  BY <1>2, <1>4, FS_AddElement
<1>11. marked \in [DOMAIN marked -> Row]
  BY <1>2, <1>4, <1>5, <1>8, <1>9
<1>12. \A i \in DOMAIN marked : marked[i].seq \in 1..(top + 1)
  BY <1>2, <1>4, <1>5, <1>8
<1>13. ASSUME NEW i \in DOMAIN marked, NEW j \in DOMAIN marked, i < j
       PROVE  marked[i].seq < marked[j].seq
  <2>1. i \in DOMAIN table
    BY <1>1, <1>3, <1>4, <1>13, <1>2
  <2>2. CASE j \in DOMAIN table
    BY <1>5, <1>13, <2>1, <2>2 DEF Ordered
  <2>3. CASE j = id
    BY <1>2, <1>5, <1>8, <2>1, <2>3
  <2>4. QED
    BY <1>4, <2>2, <2>3
<1>14. Ordered(marked, top + 1)
  BY <1>1, <1>2, <1>4, <1>10, <1>11, <1>12, <1>13 DEF Ordered, IsTable
<1>15. QED
  BY <1>3, <1>4, <1>5, <1>7, <1>14 DEF marked, id

(* In an ordered table a seq belongs to one row. *)
LEMMA SeqIdentifiesRow ==
  ASSUME NEW table, NEW top \in Nat, Ordered(table, top),
         NEW i \in DOMAIN table, NEW j \in DOMAIN table,
         table[i].seq = table[j].seq
  PROVE  i = j
<1>1. i \in Nat /\ j \in Nat
  BY DEF Ordered, IsTable
<1>2. table[i].seq \in Nat
  BY DEF Ordered
<1>3. i < j => table[i].seq < table[j].seq
  BY DEF Ordered
<1>4. j < i => table[j].seq < table[i].seq
  BY DEF Ordered
<1>5. QED
  BY <1>1, <1>2, <1>3, <1>4

-----------------------------------------------------------------------------
(* One enqueue. *)

(***************************************************************************)
(* What an enqueue does to pending and dropped, whether it evicts or not:  *)
(* pending stays ordered, a row it has afterwards was there before or      *)
(* carries a fresh seq, what left is reported, and a fresh seq is pending  *)
(* or reported.                                                            *)
(***************************************************************************)
EnqueueEffect ==
  /\ seq' \in Nat /\ seq' >= seq
  /\ Ordered(pending, seq)'
  /\ \A j \in DOMAIN pending' :
       \/ j \in DOMAIN pending /\ pending'[j] = pending[j]
       \/ pending'[j].seq > seq
  /\ DOMAIN dropped \subseteq DOMAIN dropped'
  /\ DOMAIN dropped' \subseteq 1..seq'
  /\ dropped' \in [DOMAIN dropped' -> 1..seq']
  /\ Seqs(pending') \cap DOMAIN dropped' = {}
  /\ Seqs(pending) \cup ((seq + 1)..seq') \subseteq Seqs(pending') \cup DOMAIN dropped'

(* Storing within the caps has this effect. *)
LEMMA StoreAllEffect ==
  ASSUME OrderInv, NEW n \in Nat, NEW size \in [1..n -> Sizes],
         StoreAll(Inserted(n, size), n)
  PROVE  EnqueueEffect
<1> DEFINE stored == Inserted(n, size)
           last == LastId(pending)
<1>1. /\ seq \in Nat /\ Ordered(pending, seq)
      /\ DOMAIN dropped \subseteq 1..seq /\ dropped \in [DOMAIN dropped -> 1..seq]
      /\ Seqs(pending) \cap DOMAIN dropped = {}
  BY DEF OrderInv, TypeOK, SettledStaysSettled
<1>2. /\ Ordered(stored, seq + n)
      /\ DOMAIN stored = DOMAIN pending \cup ((last + 1)..(last + n))
      /\ \A i \in DOMAIN pending : stored[i] = pending[i] /\ i <= last
      /\ \A k \in 1..n : stored[last + k].seq = seq + k
      /\ last \in Nat
  BY <1>1, InsertedIsOrdered
<1>3. pending' = stored /\ seq' = seq + n /\ dropped' = dropped
  BY DEF StoreAll
<1> HIDE DEF stored, last
<1>4. \A j \in (last + 1)..(last + n) : j - last \in 1..n /\ last + (j - last) = j
  BY <1>2
<1>5. \A j \in (last + 1)..(last + n) : stored[j].seq = seq + (j - last)
  BY <1>2, <1>4
<1>6. \A j \in DOMAIN stored : j \in DOMAIN pending \/ stored[j].seq > seq
  BY <1>1, <1>2, <1>4, <1>5
<1>7. Seqs(stored) \cap DOMAIN dropped = {}
  <2>1. ASSUME NEW j \in DOMAIN stored
        PROVE  stored[j].seq \notin DOMAIN dropped
    <3>1. CASE j \in DOMAIN pending
      BY <1>1, <1>2, <3>1 DEF Seqs
    <3>2. CASE stored[j].seq > seq
      BY <1>1, <3>2
    <3>3. QED
      BY <1>6, <3>1, <3>2
  <2>2. QED
    BY <2>1 DEF Seqs
<1>8. Seqs(pending) \subseteq Seqs(stored)
  BY <1>2 DEF Seqs
<1>9. (seq + 1)..(seq + n) \subseteq Seqs(stored)
  <2>1. ASSUME NEW s \in (seq + 1)..(seq + n)
        PROVE  s \in Seqs(stored)
    <3>1. s - seq \in 1..n /\ seq + (s - seq) = s
      BY <1>1
    <3>2. last + (s - seq) \in DOMAIN stored
      BY <1>2, <3>1
    <3>3. stored[last + (s - seq)].seq = s
      BY <1>2, <3>1
    <3>4. QED
      BY <3>2, <3>3 DEF Seqs
  <2>2. QED
    BY <2>1
<1>10. Ordered(pending', seq')
  BY <1>2, <1>3
<1>11. Ordered(pending, seq)'
  BY <1>10 DEF Ordered, IsTable
<1>12. \A j \in DOMAIN pending' :
         \/ j \in DOMAIN pending /\ pending'[j] = pending[j]
         \/ pending'[j].seq > seq
  BY <1>2, <1>3, <1>6
<1>13. seq' \in Nat /\ seq' >= seq
  BY <1>1, <1>3
<1>14. DOMAIN dropped' \subseteq 1..seq' /\ dropped' \in [DOMAIN dropped' -> 1..seq']
  BY <1>1, <1>3, <1>13
<1>15. QED
  BY <1>3, <1>7, <1>8, <1>9, <1>11, <1>12, <1>13, <1>14 DEF EnqueueEffect

(* Storing with an eviction has this effect. *)
LEMMA StoreEvictingEffect ==
  ASSUME OrderInv, NEW n \in Nat, NEW size \in [1..n -> Sizes],
         StoreEvicting(Inserted(n, size), n)
  PROVE  EnqueueEffect
<1> DEFINE stored == Inserted(n, size)
           last == LastId(pending)
           kept == Survivors(stored, MaxRows - 1, MaxBytes - Headroom)
           rest == Restrict(stored, kept)
           evicted == {stored[i].seq : i \in DOMAIN stored \ kept}
           marker == seq + n + 1
           id == LastId(rest) + 1
<1>1. /\ seq \in Nat /\ Ordered(pending, seq)
      /\ DOMAIN dropped \subseteq 1..seq /\ dropped \in [DOMAIN dropped -> 1..seq]
      /\ Seqs(pending) \cap DOMAIN dropped = {}
  BY DEF OrderInv, TypeOK, SettledStaysSettled
<1>2. /\ Ordered(stored, seq + n)
      /\ DOMAIN stored = DOMAIN pending \cup ((last + 1)..(last + n))
      /\ \A i \in DOMAIN pending : stored[i] = pending[i] /\ i <= last
      /\ \A k \in 1..n : stored[last + k].seq = seq + k
      /\ last \in Nat
  BY <1>1, InsertedIsOrdered
<1>3. /\ pending' = WithMarker(rest, marker)
      /\ seq' = marker
      /\ dropped' = [s \in DOMAIN dropped \cup evicted |->
                       IF s \in DOMAIN dropped THEN dropped[s] ELSE marker]
  BY DEF StoreEvicting, Kept, Evicted
<1>4. kept \subseteq DOMAIN stored
  BY DEF Survivors
<1> HIDE DEF stored, last, kept
<1>5. seq + n \in Nat /\ marker = (seq + n) + 1 /\ marker \in Nat /\ marker > seq
  BY <1>1
<1>6. /\ Ordered(rest, seq + n)
      /\ DOMAIN rest = kept
      /\ \A i \in kept : rest[i] = stored[i]
  BY <1>2, <1>4, <1>5, RestrictIsOrdered
<1> HIDE DEF rest
<1>7. /\ Ordered(WithMarker(rest, marker), marker)
      /\ DOMAIN pending' = kept \cup {id}
      /\ \A i \in kept : pending'[i] = stored[i]
      /\ pending'[id] = [seq |-> marker, bytes |-> MarkerBytes]
  BY <1>3, <1>5, <1>6, WithMarkerIsOrdered
<1> HIDE DEF id
<1>8. pending'[id].seq = marker
  BY <1>7
<1>9. ASSUME NEW j \in (last + 1)..(last + n)
      PROVE  stored[j].seq = seq + (j - last) /\ stored[j].seq > seq
  <2>1. j - last \in 1..n /\ last + (j - last) = j
    BY <1>2
  <2>2. QED
    BY <1>1, <1>2, <2>1
<1>10. \A j \in DOMAIN stored : j \in DOMAIN pending \/ stored[j].seq > seq
  BY <1>2, <1>9
<1>11. \A j \in DOMAIN stored : stored[j].seq \in 1..(seq + n)
  BY <1>2 DEF Ordered
<1>12. evicted \subseteq 1..(seq + n)
  BY <1>11
<1>13. DOMAIN dropped' = DOMAIN dropped \cup evicted
  BY <1>3
<1>14. dropped' \in [DOMAIN dropped' -> 1..seq'] /\ DOMAIN dropped' \subseteq 1..seq'
  <2>1. DOMAIN dropped' \subseteq 1..seq'
    BY <1>1, <1>3, <1>5, <1>12, <1>13
  <2>2. marker \in 1..seq'
    BY <1>1, <1>3, <1>5
  <2>3. \A s \in DOMAIN dropped : dropped[s] \in 1..seq'
    BY <1>1, <1>3, <1>5
  <2>4. QED
    BY <1>3, <2>1, <2>2, <2>3
<1>15. \A j \in DOMAIN stored : stored[j].seq \notin DOMAIN dropped
  BY <1>1, <1>2, <1>10 DEF Seqs
<1>16. Seqs(pending') \cap DOMAIN dropped' = {}
  <2>1. ASSUME NEW j \in kept
        PROVE  stored[j].seq \notin evicted
    BY <1>2, <1>4, <1>5, SeqIdentifiesRow
  <2>2. marker \notin evicted /\ marker \notin DOMAIN dropped
    BY <1>1, <1>5, <1>12
  <2>3. \A j \in DOMAIN pending' : pending'[j].seq \notin DOMAIN dropped'
    BY <1>4, <1>7, <1>8, <1>13, <1>15, <2>1, <2>2
  <2>4. QED
    BY <2>3 DEF Seqs
<1>17. \A j \in DOMAIN stored : stored[j].seq \in Seqs(pending') \cup DOMAIN dropped'
  BY <1>7, <1>13 DEF Seqs
<1>18. ASSUME NEW s \in Seqs(pending) \cup ((seq + 1)..seq')
       PROVE  s \in Seqs(pending') \cup DOMAIN dropped'
  <2>1. CASE s \in Seqs(pending)
    BY <1>2, <1>17, <2>1 DEF Seqs
  <2>2. CASE s \in (seq + 1)..(seq + n)
    <3>1. s - seq \in 1..n /\ seq + (s - seq) = s
      BY <1>1, <2>2
    <3>2. last + (s - seq) \in DOMAIN stored /\ stored[last + (s - seq)].seq = s
      BY <1>2, <3>1
    <3>3. QED
      BY <1>17, <3>2
  <2>3. CASE s = marker
    BY <1>7, <1>8, <2>3 DEF Seqs
  <2>4. QED
    BY <1>1, <1>3, <1>5, <2>1, <2>2, <2>3
<1>19. \A j \in DOMAIN pending' :
         \/ j \in DOMAIN pending /\ pending'[j] = pending[j]
         \/ pending'[j].seq > seq
  BY <1>2, <1>4, <1>5, <1>7, <1>8, <1>10
<1>20. Ordered(pending', seq')
  BY <1>3, <1>7
<1>21. Ordered(pending, seq)'
  BY <1>20 DEF Ordered, IsTable
<1>22. seq' \in Nat /\ seq' >= seq
  BY <1>1, <1>3, <1>5
<1>23. DOMAIN dropped \subseteq DOMAIN dropped'
  BY <1>13
<1>24. Seqs(pending) \cup ((seq + 1)..seq') \subseteq Seqs(pending') \cup DOMAIN dropped'
  BY <1>18
<1>25. QED
  BY <1>14, <1>16, <1>19, <1>21, <1>22, <1>23, <1>24 DEF EnqueueEffect

(***************************************************************************)
(* Everything of OrderInv that an enqueue can disturb, from its effect.    *)
(***************************************************************************)
LEMMA EnqueueKeepsOrderInv ==
  ASSUME OrderInv, EnqueueEffect, cursors' \in [CursorKeys -> CursorValues \cup {NoCursor}],
         UNCHANGED <<dead_letter, batch, acked, parked>>
  PROVE  OrderInv'
<1>1. /\ seq \in Nat /\ seq' \in Nat /\ seq' >= seq
      /\ Ordered(pending, seq)'
      /\ Ordered(pending, seq)
      /\ acked \subseteq 1..seq /\ parked \subseteq 1..seq
  BY DEF OrderInv, TypeOK, EnqueueEffect
<1>2. 1..seq \subseteq 1..seq'
  BY <1>1
<1>3. IsTable(pending)' /\ IsTable(dead_letter)' /\ IsTable(batch)'
  BY <1>1 DEF OrderInv, TypeOK, Ordered, IsTable
<1>4. TypeOK'
  BY <1>1, <1>2, <1>3 DEF OrderInv, TypeOK, EnqueueEffect
<1>5. (\A i \in DOMAIN batch : batch[i].seq \in 1..seq)'
  BY <1>2 DEF OrderInv
<1>6. ASSUME NEW i \in DOMAIN batch, NEW j \in DOMAIN pending',
             batch[i].seq = pending'[j].seq
      PROVE  i = j
  <2>1. batch[i].seq \in 1..seq
    BY DEF OrderInv
  <2>2. j \in DOMAIN pending /\ pending'[j] = pending[j]
    BY <1>1, <1>6, <2>1 DEF EnqueueEffect
  <2>3. QED
    BY <1>6, <2>2 DEF OrderInv
<1>7. SettledStaysSettled'
  <2>1. ASSUME NEW j \in DOMAIN pending'
        PROVE  pending'[j].seq \notin acked \cup parked \cup DOMAIN dropped'
    <3>1. pending'[j].seq \notin DOMAIN dropped'
      BY DEF EnqueueEffect, Seqs
    <3>2. CASE j \in DOMAIN pending /\ pending'[j] = pending[j]
      BY <3>1, <3>2 DEF OrderInv, SettledStaysSettled, Seqs
    <3>3. CASE pending'[j].seq > seq
      <4>1. \A s \in acked \cup parked : s \in Nat /\ s <= seq
        BY <1>1
      <4>2. pending'[j].seq \in Nat
        BY <1>1 DEF Ordered
      <4>3. QED
        BY <1>1, <3>1, <3>3, <4>1, <4>2
    <3>4. QED
      BY <3>2, <3>3 DEF EnqueueEffect
  <2>2. QED
    BY <2>1 DEF SettledStaysSettled, Seqs
<1>8. QED
  BY <1>1, <1>4, <1>5, <1>6, <1>7 DEF OrderInv

(* Every enqueue has the effect. *)
LEMMA EnqueueHasEffect ==
  ASSUME OrderInv, NEW n \in 0..MaxDrafts, NEW size \in [1..n -> Sizes],
         NEW update \in CursorUpdates, Enqueue(n, size, update)
  PROVE  /\ EnqueueEffect
         /\ cursors' \in [CursorKeys -> CursorValues \cup {NoCursor}]
         /\ UNCHANGED <<dead_letter, batch, acked, parked>>
<1>1. n \in Nat
  BY BoundsAssumption
<1>2. EnqueueEffect
  BY <1>1, StoreAllEffect, StoreEvictingEffect DEF Enqueue
<1>3. \A k \in DOMAIN update : update[k] \in CursorValues
  BY DEF CursorUpdates, EmptyTable
<1>4. cursors \in [CursorKeys -> CursorValues \cup {NoCursor}]
  BY DEF OrderInv, TypeOK
<1>5. cursors' \in [CursorKeys -> CursorValues \cup {NoCursor}]
  BY <1>3, <1>4 DEF Enqueue, Upsert
<1>6. QED
  BY <1>2, <1>5 DEF Enqueue

-----------------------------------------------------------------------------
(* Taking, deleting and dead lettering a batch. *)

(* The rows of a dead lettered batch are appended under new ids. *)
LEMMA WithDeadIsTable ==
  ASSUME IsTable(dead_letter), IsTable(batch)
  PROVE  IsTable(WithDead)
<1> DEFINE last == LastId(dead_letter)
           upTo(i) == {j \in DOMAIN batch : j <= i}
           place(i) == last + Cardinality(upTo(i))
           places == {place(i) : i \in DOMAIN batch}
           size == Cardinality(DOMAIN batch)
<1>1. last \in Nat
  BY LastIdIsGreatest
<1>2. DOMAIN batch \subseteq Nat /\ IsFiniteSet(DOMAIN batch) /\ size \in Nat
  BY FS_CardinalityType DEF IsTable
<1>3. ASSUME NEW i \in DOMAIN batch
      PROVE  place(i) \in (last + 1)..(last + size)
  <2>1. upTo(i) \subseteq DOMAIN batch /\ i \in upTo(i)
    BY <1>2
  <2>2. IsFiniteSet(upTo(i)) /\ Cardinality(upTo(i)) <= size
    BY <1>2, <2>1, FS_Subset
  <2>3. Cardinality(upTo(i)) \in Nat /\ Cardinality(upTo(i)) # 0
    BY <2>1, <2>2, FS_CardinalityType, FS_EmptySet
  <2> HIDE DEF upTo, last, size
  <2>4. QED
    BY <1>1, <1>2, <2>2, <2>3
<1>4. places \subseteq (last + 1)..(last + size)
  BY <1>3
<1>5. DOMAIN WithDead = DOMAIN dead_letter \cup places
  BY DEF WithDead
<1>6. \A d \in DOMAIN WithDead : WithDead[d] \in Row
  <2>1. ASSUME NEW d \in places
        PROVE  (CHOOSE i \in DOMAIN batch : place(i) = d) \in DOMAIN batch
    OBVIOUS
  <2>2. \A i \in DOMAIN batch : batch[i] \in Row
    BY DEF IsTable
  <2>3. \A d \in DOMAIN dead_letter : dead_letter[d] \in Row
    BY DEF IsTable
  <2>4. QED
    BY <1>5, <2>1, <2>2, <2>3 DEF WithDead
<1>7. WithDead = [d \in DOMAIN WithDead |-> WithDead[d]]
  BY DEF WithDead
<1> HIDE DEF last, size, places, place
<1>8. IsFiniteSet((last + 1)..(last + size))
  BY <1>1, <1>2, FS_Interval
<1>9. IsFiniteSet(places)
  BY <1>4, <1>8, FS_Subset
<1>10. places \subseteq Nat \ {0}
  BY <1>1, <1>2, <1>4
<1>11. IsFiniteSet(DOMAIN dead_letter) /\ DOMAIN dead_letter \subseteq Nat \ {0}
  BY DEF IsTable
<1>12. IsFiniteSet(DOMAIN WithDead)
  BY <1>5, <1>9, <1>11, FS_Union
<1>13. DOMAIN WithDead \subseteq Nat \ {0}
  BY <1>5, <1>10, <1>11
<1>14. WithDead \in [DOMAIN WithDead -> Row]
  BY <1>6, <1>7
<1>15. QED
  BY <1>12, <1>13, <1>14 DEF IsTable

(* Deleting rows leaves a table. *)
LEMMA RestrictIsTable ==
  ASSUME NEW table, IsTable(table), NEW S, S \subseteq DOMAIN table
  PROVE  IsTable(Restrict(table, S))
<1>1. IsFiniteSet(S)
  BY FS_Subset DEF IsTable
<1>2. QED
  BY <1>1 DEF IsTable, Restrict

(* The empty table is a table. *)
LEMMA EmptyIsTable == IsTable(EmptyTable) /\ DOMAIN EmptyTable = {}
BY FS_EmptySet DEF IsTable, EmptyTable

(* The dead letter table stays a table, whether it evicts or not. *)
LEMMA DeadLetterKeepsTable ==
  ASSUME IsTable(dead_letter), IsTable(batch), DeadLetter
  PROVE  IsTable(dead_letter')
<1>1. IsTable(WithDead)
  BY WithDeadIsTable
<1>2. Survivors(WithDead, DeadMaxRows, DeadMaxBytes) \subseteq DOMAIN WithDead
  BY DEF Survivors
<1>3. IsTable(Restrict(WithDead, Survivors(WithDead, DeadMaxRows, DeadMaxBytes)))
  BY <1>1, <1>2, RestrictIsTable
<1>4. QED
  BY <1>1, <1>3 DEF DeadLetter, EvictDead

(* Removing the held ids from pending, for either reason. *)
LEMMA SettleKeepsOrderInv ==
  ASSUME OrderInv,
         pending' = Restrict(pending, DOMAIN pending \ DOMAIN batch),
         batch' = EmptyTable, IsTable(dead_letter'),
         acked \cup parked \cup Seqs(batch) = acked' \cup parked',
         UNCHANGED <<seq, cursors, dropped>>
  PROVE  OrderInv'
<1> DEFINE left == DOMAIN pending \ DOMAIN batch
<1>1. seq \in Nat /\ Ordered(pending, seq)
  BY DEF OrderInv, TypeOK
<1>2. /\ Ordered(Restrict(pending, left), seq)
      /\ DOMAIN pending' = left
      /\ \A i \in left : pending'[i] = pending[i]
  BY <1>1, RestrictIsOrdered
<1>3. Ordered(pending, seq)'
  BY <1>2 DEF Ordered, IsTable
<1>4. Seqs(batch) \subseteq 1..seq
  BY DEF OrderInv, Seqs
<1>5. IsTable(batch') /\ DOMAIN batch' = {}
  BY EmptyIsTable
<1>6. IsTable(pending)' /\ IsTable(dead_letter)' /\ IsTable(batch)'
  BY <1>3, <1>5 DEF Ordered, IsTable
<1>7. TypeOK'
  BY <1>4, <1>6 DEF OrderInv, TypeOK
<1>8. SettledStaysSettled'
  <2>1. ASSUME NEW j \in left
        PROVE  pending[j].seq \notin acked' \cup parked' \cup DOMAIN dropped
    <3>1. pending[j].seq \notin acked \cup parked \cup DOMAIN dropped
      BY DEF OrderInv, SettledStaysSettled, Seqs
    <3>2. pending[j].seq \notin Seqs(batch)
      BY DEF OrderInv, Seqs
    <3>3. QED
      BY <3>1, <3>2
  <2>2. QED
    BY <1>2, <2>1 DEF SettledStaysSettled, Seqs
<1>9. QED
  BY <1>3, <1>5, <1>7, <1>8 DEF OrderInv

(* Taking a batch. *)
LEMMA TakeKeepsOrderInv ==
  ASSUME OrderInv, NEW limit \in 1..MaxBatch, TakeBatch(limit)
  PROVE  OrderInv'
<1> DEFINE S == Oldest(pending, limit)
<1>1. S \subseteq DOMAIN pending
  BY DEF Oldest
<1>2. seq \in Nat /\ Ordered(pending, seq)
  BY DEF OrderInv, TypeOK
<1>3. batch' = Restrict(pending, S) /\ UNCHANGED <<durable, history>>
  BY DEF TakeBatch
<1> HIDE DEF S
<1>4. /\ Ordered(batch', seq)
      /\ DOMAIN batch' = S
      /\ \A i \in S : batch'[i] = pending[i]
  BY <1>1, <1>2, <1>3, RestrictIsOrdered
<1>5. TypeOK'
  BY <1>3, <1>4 DEF OrderInv, TypeOK, Ordered, IsTable, durable, history
<1>6. Ordered(pending, seq)' /\ SettledStaysSettled'
  BY <1>3 DEF OrderInv, Ordered, IsTable, SettledStaysSettled, durable, history
<1>7. (\A i \in DOMAIN batch : batch[i].seq \in 1..seq)'
  BY <1>3, <1>4 DEF Ordered, durable
<1>8. ASSUME NEW i \in DOMAIN batch', NEW j \in DOMAIN pending',
             batch'[i].seq = pending'[j].seq
      PROVE  i = j
  <2>1. i \in DOMAIN pending /\ j \in DOMAIN pending /\ pending[i].seq = pending[j].seq
    BY <1>1, <1>3, <1>4, <1>8 DEF durable
  <2>2. QED
    BY <1>2, <2>1, SeqIdentifiesRow
<1>9. QED
  BY <1>5, <1>6, <1>7, <1>8 DEF OrderInv

(* Letting go of a batch. *)
LEMMA ForgetKeepsOrderInv ==
  ASSUME OrderInv, Forget
  PROVE  OrderInv'
<1>1. IsTable(batch') /\ DOMAIN batch' = {}
  BY EmptyIsTable DEF Forget
<1>2. UNCHANGED <<durable, history>>
  BY DEF Forget
<1>3. TypeOK'
  BY <1>1, <1>2 DEF OrderInv, TypeOK, IsTable, durable, history
<1>4. Ordered(pending, seq)' /\ SettledStaysSettled'
  BY <1>2 DEF OrderInv, Ordered, IsTable, SettledStaysSettled, durable, history
<1>5. QED
  BY <1>1, <1>3, <1>4 DEF OrderInv

-----------------------------------------------------------------------------
(* The invariants. *)

(* OrderInv holds initially. *)
LEMMA InitOrderInv == Init => OrderInv
<1> SUFFICES ASSUME Init PROVE OrderInv
  OBVIOUS
<1>2. IsTable(EmptyTable) /\ DOMAIN EmptyTable = {}
  BY EmptyIsTable
<1>3. EmptyTable \in [{} -> 1..0]
  BY DEF EmptyTable
<1>4. TypeOK
  BY <1>2, <1>3 DEF Init, TypeOK
<1>5. Ordered(pending, seq) /\ SettledStaysSettled
  BY <1>2 DEF Init, Ordered, SettledStaysSettled, Seqs
<1>6. QED
  BY <1>2, <1>4, <1>5 DEF Init, OrderInv

(* Every step keeps OrderInv. *)
LEMMA NextOrderInv == OrderInv /\ [Next]_vars => OrderInv'
<1> SUFFICES ASSUME OrderInv, [Next]_vars PROVE OrderInv'
  OBVIOUS
<1>1. ASSUME NEW n \in 0..MaxDrafts, NEW size \in [1..n -> Sizes],
             NEW update \in CursorUpdates, Enqueue(n, size, update)
      PROVE  OrderInv'
  BY <1>1, EnqueueHasEffect, EnqueueKeepsOrderInv
<1>2. ASSUME NEW limit \in 1..MaxBatch, TakeBatch(limit)
      PROVE  OrderInv'
  BY <1>2, TakeKeepsOrderInv
<1>3. CASE DeleteBatch
  <2>1. IsTable(dead_letter')
    BY <1>3 DEF OrderInv, TypeOK, DeleteBatch
  <2>2. QED
    BY <1>3, <2>1, SettleKeepsOrderInv DEF DeleteBatch
<1>4. CASE DeadLetter
  <2>1. IsTable(dead_letter')
    BY <1>4, DeadLetterKeepsTable DEF OrderInv, TypeOK
  <2>2. QED
    BY <1>4, <2>1, SettleKeepsOrderInv DEF DeadLetter
<1>5. CASE Forget
  BY <1>5, ForgetKeepsOrderInv
<1>6. CASE UNCHANGED vars
  BY <1>6 DEF OrderInv, TypeOK, IsTable, Ordered, SettledStaysSettled, Seqs,
              vars, durable, history
<1>7. QED
  BY <1>1, <1>2, <1>3, <1>4, <1>5, <1>6 DEF Next

(* Every variable keeps its type, whatever the caps. *)
THEOREM TypeCorrect == Spec => []TypeOK
<1>1. OrderInv => TypeOK
  BY DEF OrderInv
<1>2. QED
  BY <1>1, InitOrderInv, NextOrderInv, PTL DEF Spec

(***************************************************************************)
(* Batches are read, and evictions done, in capture order: the ids of      *)
(* pending follow its seqs even though ids are handed out again.           *)
(***************************************************************************)
THEOREM CaptureOrderHolds == Spec => []CaptureOrder
<1>1. OrderInv => CaptureOrder
  BY DEF OrderInv, Ordered, CaptureOrder
<1>2. QED
  BY <1>1, InitOrderInv, NextOrderInv, PTL DEF Spec

(* A settled record is never pending again, and no seq is given out twice. *)
THEOREM SettledHolds == Spec => []SettledStaysSettled
<1>1. OrderInv => SettledStaysSettled
  BY DEF OrderInv
<1>2. QED
  BY <1>1, InitOrderInv, NextOrderInv, PTL DEF Spec

-----------------------------------------------------------------------------
(* Bytes. *)

Units(table, rows) == UNION {{i} \X (1..table[i].bytes) : i \in rows}

(* A finite set of rows occupies finitely many bytes. *)
LEMMA UnitsFinite ==
  ASSUME NEW table, IsTable(table), NEW S, S \subseteq DOMAIN table
  PROVE  IsFiniteSet(Units(table, S)) /\ IsFiniteSet(S)
<1> DEFINE unit(i) == {i} \X (1..table[i].bytes)
           T == {unit(i) : i \in S}
           f == [i \in S |-> unit(i)]
<1>1. IsFiniteSet(S)
  BY FS_Subset DEF IsTable
<1>2. f \in Surjection(S, T)
  BY DEF Surjection
<1>3. IsFiniteSet(T)
  BY <1>1, <1>2, FS_Surjection
<1>4. ASSUME NEW i \in S
      PROVE  IsFiniteSet(unit(i))
  <2>1. table[i].bytes \in Nat
    BY SizesAssumption, CapsAssumption DEF IsTable, Row
  <2>2. IsFiniteSet(1..table[i].bytes)
    BY <2>1, FS_Interval
  <2>3. IsFiniteSet({i})
    BY FS_Singleton
  <2>4. QED
    BY <2>2, <2>3, FS_Product
<1>5. \A X \in T : IsFiniteSet(X)
  BY <1>4
<1> HIDE DEF f
<1>6. IsFiniteSet(UNION T)
  BY <1>3, <1>5, FS_UNION
<1>7. QED
  BY <1>1, <1>6 DEF Units

(* Fewer rows occupy no more bytes. *)
LEMMA BytesOfMonotone ==
  ASSUME NEW table, IsTable(table), NEW T, T \subseteq DOMAIN table,
         NEW S, S \subseteq T
  PROVE  /\ BytesOf(table, S) \in Nat /\ BytesOf(table, T) \in Nat
         /\ BytesOf(table, S) <= BytesOf(table, T)
<1>1. IsFiniteSet(Units(table, T)) /\ IsFiniteSet(Units(table, S))
  BY UnitsFinite
<1>2. Units(table, S) \subseteq Units(table, T)
  BY DEF Units
<1>3. Cardinality(Units(table, S)) <= Cardinality(Units(table, T))
  BY <1>1, <1>2, FS_Subset
<1>4. Cardinality(Units(table, S)) \in Nat /\ Cardinality(Units(table, T)) \in Nat
  BY <1>1, FS_CardinalityType
<1>5. QED
  BY <1>3, <1>4 DEF BytesOf, Units

(* One row occupies its size. *)
LEMMA UnitsOfRow ==
  ASSUME NEW i, NEW n \in Nat
  PROVE  IsFiniteSet({i} \X (1..n)) /\ Cardinality({i} \X (1..n)) = n
<1>1. IsFiniteSet({i}) /\ Cardinality({i}) = 1
  BY FS_Singleton
<1>2. IsFiniteSet(1..n) /\ Cardinality(1..n) = n
  BY FS_Interval
<1>3. /\ IsFiniteSet({i} \X (1..n))
      /\ Cardinality({i} \X (1..n)) = Cardinality({i}) * Cardinality(1..n)
  BY <1>1, <1>2, FS_Product, Zenon
<1>4. 1 * n = n
  OBVIOUS
<1>5. QED
  BY <1>1, <1>2, <1>3, <1>4

(* What survives an eviction meets both targets. *)
LEMMA SurvivorsFit ==
  ASSUME NEW table, IsTable(table), NEW rows \in Nat, NEW bytes \in Nat
  PROVE  LET kept == Survivors(table, rows, bytes)
         IN  /\ kept \subseteq DOMAIN table
             /\ Cardinality(kept) <= rows
             /\ BytesOf(table, kept) <= bytes
<1> DEFINE kept == Survivors(table, rows, bytes)
<1>1. kept \subseteq DOMAIN table /\ DOMAIN table \subseteq Nat
  BY DEF Survivors, IsTable
<1>2. CASE kept = {}
  <2>1. Cardinality(kept) = 0
    BY <1>2, FS_EmptySet
  <2>2. Units(table, kept) = {}
    BY <1>2 DEF Units
  <2>3. BytesOf(table, kept) = 0
    BY <2>2, FS_EmptySet DEF BytesOf, Units
  <2>4. QED
    BY <1>1, <2>1, <2>3
<1>3. CASE kept # {}
  <2>1. PICK m \in kept : \A i \in kept : m <= i
    BY <1>1, <1>3, LeastNat
  <2>2. kept \subseteq Newer(table, m) /\ Newer(table, m) \subseteq DOMAIN table
    BY <1>1, <2>1 DEF Newer
  <2>3. /\ Cardinality(Newer(table, m)) <= rows
        /\ BytesOf(table, Newer(table, m)) <= bytes
    BY <2>1 DEF Survivors
  <2> HIDE DEF kept
  <2>4. IsFiniteSet(Newer(table, m)) /\ IsFiniteSet(kept)
    BY <2>2, UnitsFinite
  <2>5. /\ Cardinality(kept) <= Cardinality(Newer(table, m))
        /\ Cardinality(kept) \in Nat /\ Cardinality(Newer(table, m)) \in Nat
    BY <2>2, <2>4, FS_Subset, FS_CardinalityType
  <2>6. /\ BytesOf(table, kept) <= BytesOf(table, Newer(table, m))
        /\ BytesOf(table, kept) \in Nat /\ BytesOf(table, Newer(table, m)) \in Nat
    BY <2>2, BytesOfMonotone
  <2>7. Cardinality(kept) <= rows /\ BytesOf(table, kept) <= bytes
    BY <2>3, <2>5, <2>6
  <2>8. QED
    BY <1>1, <2>7 DEF kept
<1>4. QED
  BY <1>2, <1>3

(* The marker costs one row and its own size. *)
LEMMA WithMarkerCosts ==
  ASSUME NEW table, NEW kept, NEW top \in Nat, Ordered(table, top),
         kept \subseteq DOMAIN table
  PROVE  LET marked == WithMarker(Restrict(table, kept), top + 1)
         IN  /\ Cardinality(DOMAIN marked) = Cardinality(kept) + 1
             /\ BytesOf(marked, DOMAIN marked) <= BytesOf(table, kept) + MarkerBytes
             /\ BytesOf(marked, DOMAIN marked) \in Nat
<1> DEFINE rest == Restrict(table, kept)
           marked == WithMarker(rest, top + 1)
           id == LastId(rest) + 1
           cost == {id} \X (1..MarkerBytes)
<1>1. /\ Ordered(rest, top)
      /\ DOMAIN rest = kept
      /\ \A i \in kept : rest[i] = table[i]
  BY RestrictIsOrdered
<1> HIDE DEF rest
<1>2. /\ Ordered(marked, top + 1)
      /\ DOMAIN marked = kept \cup {id}
      /\ \A i \in kept : marked[i] = table[i] /\ i < id
      /\ marked[id] = [seq |-> top + 1, bytes |-> MarkerBytes]
  BY <1>1, WithMarkerIsOrdered
<1> HIDE DEF marked, id
<1>3. IsTable(marked) /\ IsTable(table)
  BY <1>2 DEF Ordered
<1>4. id \notin kept
  <2>1. kept \subseteq Nat
    BY <1>3 DEF IsTable
  <2>2. QED
    BY <1>2, <2>1
<1>5. IsFiniteSet(kept) /\ IsFiniteSet(Units(table, kept))
  BY <1>3, UnitsFinite
<1>6. Cardinality(DOMAIN marked) = Cardinality(kept) + 1
  BY <1>2, <1>4, <1>5, FS_AddElement
<1>7. MarkerBytes \in Nat
  BY SizesAssumption, CapsAssumption
<1>8. Units(marked, DOMAIN marked) = Units(table, kept) \cup cost
  BY <1>2 DEF Units
<1>9. IsFiniteSet(cost) /\ Cardinality(cost) = MarkerBytes
  BY <1>7, UnitsOfRow
<1> HIDE DEF cost
<1>10. Cardinality(Units(table, kept) \cup cost) =
         Cardinality(Units(table, kept)) + Cardinality(cost)
           - Cardinality(Units(table, kept) \cap cost)
  BY <1>5, <1>9, FS_Union
<1>11. Cardinality(Units(table, kept) \cap cost) \in Nat
  BY <1>9, FS_Intersection, FS_CardinalityType
<1>12. Cardinality(Units(table, kept)) \in Nat
  BY <1>5, FS_CardinalityType
<1>13. Cardinality(Units(marked, DOMAIN marked)) \in Nat
  BY <1>3, UnitsFinite, FS_CardinalityType
<1>14. Cardinality(Units(marked, DOMAIN marked)) <= Cardinality(Units(table, kept)) + MarkerBytes
  <2>1. Cardinality(Units(marked, DOMAIN marked)) = Cardinality(Units(table, kept) \cup cost)
    BY <1>8
  <2>2. Cardinality(Units(table, kept) \cup cost) =
          Cardinality(Units(table, kept)) + MarkerBytes
            - Cardinality(Units(table, kept) \cap cost)
    BY <1>9, <1>10
  <2>3. QED
    BY <1>7, <1>11, <1>12, <2>1, <2>2
<1>15. QED
  BY <1>6, <1>13, <1>14 DEF marked, rest, BytesOf, Units

-----------------------------------------------------------------------------
(* The caps. *)

(* Deleting rows keeps a table within its caps. *)
LEMMA RestrictFits ==
  ASSUME NEW table, IsTable(table), NEW rows \in Nat, NEW bytes \in Nat,
         ~ Over(table, rows, bytes), NEW S, S \subseteq DOMAIN table
  PROVE  ~ Over(Restrict(table, S), rows, bytes)
<1> DEFINE rest == Restrict(table, S)
<1>1. DOMAIN rest = S /\ \A i \in S : rest[i] = table[i]
  BY DEF Restrict
<1>2. IsFiniteSet(DOMAIN table) /\ IsFiniteSet(S)
  BY FS_Subset DEF IsTable
<1>3. /\ Cardinality(S) <= Cardinality(DOMAIN table)
      /\ Cardinality(S) \in Nat /\ Cardinality(DOMAIN table) \in Nat
  BY <1>2, FS_Subset, FS_CardinalityType
<1>4. /\ BytesOf(table, S) <= BytesOf(table, DOMAIN table)
      /\ BytesOf(table, S) \in Nat /\ BytesOf(table, DOMAIN table) \in Nat
  BY BytesOfMonotone
<1>5. BytesOf(rest, DOMAIN rest) = BytesOf(table, S)
  BY <1>1 DEF BytesOf
<1>6. ~ (Cardinality(DOMAIN table) > rows) /\ ~ (BytesOf(table, DOMAIN table) > bytes)
  BY DEF Over
<1>7. ~ (Cardinality(S) > rows) /\ ~ (BytesOf(table, S) > bytes)
  BY <1>3, <1>4, <1>6
<1>8. QED
  BY <1>1, <1>5, <1>7 DEF Over

(* A survivor set meets the targets it was chosen for. *)
LEMMA SurvivorsAreNotOver ==
  ASSUME NEW table, IsTable(table), NEW rows \in Nat, NEW bytes \in Nat
  PROVE  ~ Over(Restrict(table, Survivors(table, rows, bytes)), rows, bytes)
<1> DEFINE kept == Survivors(table, rows, bytes)
           rest == Restrict(table, kept)
<1>1. kept \subseteq DOMAIN table /\ Cardinality(kept) <= rows /\ BytesOf(table, kept) <= bytes
  BY SurvivorsFit
<1>2. IsFiniteSet(kept)
  BY <1>1, FS_Subset DEF IsTable
<1>3. Cardinality(kept) \in Nat
  BY <1>2, FS_CardinalityType
<1>4. BytesOf(table, kept) \in Nat
  BY <1>1, BytesOfMonotone
<1> HIDE DEF kept
<1>5. DOMAIN rest = kept /\ \A i \in kept : rest[i] = table[i]
  BY DEF Restrict
<1>6. BytesOf(rest, DOMAIN rest) = BytesOf(table, kept)
  BY <1>5 DEF BytesOf
<1>7. ~ (Cardinality(kept) > rows) /\ ~ (BytesOf(table, kept) > bytes)
  BY <1>1, <1>3, <1>4
<1>8. QED
  BY <1>5, <1>6, <1>7 DEF Over, kept

(* An enqueue that evicts leaves room for its marker. *)
LEMMA StoreEvictingFits ==
  ASSUME OrderInv, NEW n \in Nat, NEW size \in [1..n -> Sizes],
         StoreEvicting(Inserted(n, size), n)
  PROVE  CapsHold'
<1> DEFINE stored == Inserted(n, size)
           kept == Survivors(stored, MaxRows - 1, MaxBytes - Headroom)
<1>1. seq \in Nat /\ Ordered(pending, seq)
  BY DEF OrderInv, TypeOK
<1>2. Ordered(stored, seq + n) /\ seq + n \in Nat
  <2>1. Ordered(stored, seq + n)
    BY <1>1, InsertedIsOrdered
  <2>2. QED
    BY <1>1, <2>1
<1>3. pending' = WithMarker(Restrict(stored, kept), (seq + n) + 1)
  BY DEF StoreEvicting, Kept
<1>4. MaxRows - 1 \in Nat /\ MaxBytes - Headroom \in Nat
  BY CapsAssumption
<1>5. IsTable(stored)
  BY <1>2 DEF Ordered
<1>6. /\ kept \subseteq DOMAIN stored
      /\ Cardinality(kept) <= MaxRows - 1
      /\ BytesOf(stored, kept) <= MaxBytes - Headroom
  BY <1>4, <1>5, SurvivorsFit
<1> HIDE DEF stored, kept
<1>7. /\ Cardinality(DOMAIN pending') = Cardinality(kept) + 1
      /\ BytesOf(pending', DOMAIN pending') <= BytesOf(stored, kept) + MarkerBytes
      /\ BytesOf(pending', DOMAIN pending') \in Nat
  BY <1>2, <1>3, <1>6, WithMarkerCosts
<1>8. Cardinality(kept) \in Nat
  <2>1. IsFiniteSet(kept)
    BY <1>5, <1>6, FS_Subset DEF IsTable
  <2>2. QED
    BY <2>1, FS_CardinalityType
<1>9. BytesOf(stored, kept) \in Nat
  BY <1>5, <1>6, BytesOfMonotone
<1>10. ~ (Cardinality(DOMAIN pending') > MaxRows)
  BY <1>6, <1>7, <1>8, CapsAssumption
<1>11. ~ (BytesOf(pending', DOMAIN pending') > MaxBytes)
  BY <1>6, <1>7, <1>9, CapsAssumption, SizesAssumption
<1>12. QED
  BY <1>10, <1>11 DEF CapsHold, Over, BytesOf

(* The invariant of the caps. *)
CapsInv == OrderInv /\ CapsHold /\ DeadCapsHold

(* An empty table is within any caps. *)
LEMMA EmptyFits ==
  ASSUME NEW rows \in Nat, NEW bytes \in Nat
  PROVE  ~ Over(EmptyTable, rows, bytes)
<1>1. DOMAIN EmptyTable = {}
  BY EmptyIsTable
<1>2. BytesOf(EmptyTable, {}) = 0 /\ Cardinality({}) = 0
  <2>1. Units(EmptyTable, {}) = {}
    BY DEF Units
  <2>2. QED
    BY <2>1, FS_EmptySet DEF BytesOf, Units
<1>3. QED
  BY <1>1, <1>2 DEF Over

(* Every step keeps the caps. *)
LEMMA NextCapsInv == CapsInv /\ [Next]_vars => CapsInv'
<1> SUFFICES ASSUME CapsInv, [Next]_vars PROVE CapsInv'
  OBVIOUS
<1>1. OrderInv' /\ OrderInv
  BY NextOrderInv DEF CapsInv
<1>2. /\ MaxRows \in Nat /\ MaxBytes \in Nat
      /\ DeadMaxRows \in Nat /\ DeadMaxBytes \in Nat
  BY CapsAssumption
<1>3. IsTable(pending) /\ IsTable(dead_letter) /\ IsTable(batch)
  BY <1>1 DEF OrderInv, TypeOK
<1>4. /\ ~ Over(pending, MaxRows, MaxBytes)
      /\ ~ Over(dead_letter, DeadMaxRows, DeadMaxBytes)
  BY DEF CapsInv, CapsHold, DeadCapsHold
<1>5. UNCHANGED pending => CapsHold'
  BY <1>4 DEF CapsHold, Over, BytesOf
<1>6. UNCHANGED dead_letter => DeadCapsHold'
  BY <1>4 DEF DeadCapsHold, Over, BytesOf
<1>7. ~ Over(Restrict(pending, DOMAIN pending \ DOMAIN batch), MaxRows, MaxBytes)
  BY <1>2, <1>3, <1>4, RestrictFits
<1>8. pending' = Restrict(pending, DOMAIN pending \ DOMAIN batch) => CapsHold'
  BY <1>7 DEF CapsHold, Over, BytesOf
<1>9. ASSUME NEW n \in 0..MaxDrafts, NEW size \in [1..n -> Sizes],
             NEW update \in CursorUpdates, Enqueue(n, size, update)
      PROVE  CapsHold' /\ DeadCapsHold'
  <2>1. n \in Nat
    BY BoundsAssumption
  <2>2. CASE StoreAll(Inserted(n, size), n)
    BY <1>6, <1>9, <2>2 DEF StoreAll, CapsHold, Over, BytesOf, Enqueue
  <2>3. CASE StoreEvicting(Inserted(n, size), n)
    BY <1>1, <1>6, <1>9, <2>1, <2>3, StoreEvictingFits DEF Enqueue
  <2>4. QED
    BY <1>9, <2>2, <2>3 DEF Enqueue
<1>10. ASSUME NEW limit \in 1..MaxBatch, TakeBatch(limit)
       PROVE  CapsHold' /\ DeadCapsHold'
  BY <1>5, <1>6, <1>10 DEF TakeBatch, durable
<1>11. ASSUME DeleteBatch PROVE CapsHold' /\ DeadCapsHold'
  BY <1>6, <1>8, <1>11 DEF DeleteBatch
<1>12. ASSUME DeadLetter PROVE CapsHold' /\ DeadCapsHold'
  <2>1. IsTable(WithDead)
    BY <1>3, WithDeadIsTable
  <2>2. ~ Over(dead_letter', DeadMaxRows, DeadMaxBytes)
    BY <1>2, <1>12, <2>1, SurvivorsAreNotOver DEF DeadLetter, EvictDead
  <2>3. DeadCapsHold'
    BY <2>2 DEF DeadCapsHold, Over, BytesOf
  <2>4. QED
    BY <1>8, <1>12, <2>3 DEF DeadLetter
<1>13. ASSUME Forget PROVE CapsHold' /\ DeadCapsHold'
  BY <1>5, <1>6, <1>13 DEF Forget, durable
<1>14. ASSUME UNCHANGED vars PROVE CapsHold' /\ DeadCapsHold'
  BY <1>5, <1>6, <1>14 DEF vars, durable
<1>15. CapsHold' /\ DeadCapsHold'
  BY <1>9, <1>10, <1>11, <1>12, <1>13, <1>14 DEF Next
<1>16. QED
  BY <1>1, <1>15 DEF CapsInv

(* The caps hold initially. *)
LEMMA InitCapsInv == Init => CapsInv
BY InitOrderInv, EmptyFits, CapsAssumption DEF Init, CapsInv, CapsHold, DeadCapsHold

(* Both caps of pending hold after every command, the marker included. *)
THEOREM CapsHoldAlways == Spec => []CapsHold
<1>1. CapsInv => CapsHold
  BY DEF CapsInv
<1>2. QED
  BY <1>1, InitCapsInv, NextCapsInv, PTL DEF Spec

(* The dead letter table keeps to its own caps. *)
THEOREM DeadCapsHoldAlways == Spec => []DeadCapsHold
<1>1. CapsInv => DeadCapsHold
  BY DEF CapsInv
<1>2. QED
  BY <1>1, InitCapsInv, NextCapsInv, PTL DEF Spec
-----------------------------------------------------------------------------
(* Accounting, in a roomy buffer. *)

(* The newest row survives an eviction. *)
LEMMA LastSurvives ==
  ASSUME Roomy, NEW table, IsTable(table), DOMAIN table # {}
  PROVE  LastId(table) \in Survivors(table, MaxRows - 1, MaxBytes - Headroom)
<1> DEFINE last == LastId(table)
<1>1. /\ last \in Nat /\ last \in DOMAIN table
      /\ \A i \in DOMAIN table : i <= last
  BY LastIdIsGreatest
<1> HIDE DEF last
<1>2. Newer(table, last) = {last}
  <2>1. DOMAIN table \subseteq Nat
    BY DEF IsTable
  <2>2. QED
    BY <1>1, <2>1 DEF Newer
<1>3. Cardinality(Newer(table, last)) <= MaxRows - 1
  BY <1>2, FS_Singleton, CapsAssumption DEF Roomy
<1>4. table[last].bytes \in Nat /\ table[last].bytes <= MaxBytes - Headroom
  <2>1. table[last] \in Row
    BY <1>1 DEF IsTable
  <2>2. table[last].bytes \in Sizes \cup {MarkerBytes}
    BY <2>1 DEF Row
  <2>3. Sizes \cup {MarkerBytes} \subseteq Nat
    BY SizesAssumption, CapsAssumption
  <2>4. QED
    BY <2>2, <2>3 DEF Roomy
<1>5. UNION {{i} \X (1..table[i].bytes) : i \in {last}} = {last} \X (1..table[last].bytes)
  OBVIOUS
<1>6. BytesOf(table, Newer(table, last)) = table[last].bytes
  <2> DEFINE size == table[last].bytes
  <2>1. Cardinality({last} \X (1..size)) = size
    <3>1. size \in Nat
      BY <1>4
    <3>2. QED
      BY <3>1, UnitsOfRow
  <2>2. BytesOf(table, {last}) = Cardinality({last} \X (1..size))
    BY <1>5 DEF BytesOf
  <2>3. QED
    BY <1>2, <2>1, <2>2
<1>7. QED
  BY <1>1, <1>3, <1>4, <1>6 DEF Survivors, last

(***************************************************************************)
(* What an enqueue does to the ids of a roomy buffer: the greatest id does *)
(* not fall, and a row that was not there before has an id above all that  *)
(* were.                                                                   *)
(***************************************************************************)
FreshIds ==
  /\ \A i \in DOMAIN pending : \E j \in DOMAIN pending' : i <= j
  /\ \A j \in DOMAIN pending' :
       \/ j \in DOMAIN pending /\ pending'[j] = pending[j]
       \/ \A i \in DOMAIN pending : i < j

LEMMA EnqueueGivesFreshIds ==
  ASSUME Roomy, OrderInv, NEW n \in Nat, NEW size \in [1..n -> Sizes],
         \/ StoreAll(Inserted(n, size), n)
         \/ StoreEvicting(Inserted(n, size), n)
  PROVE  FreshIds
<1> DEFINE stored == Inserted(n, size)
           last == LastId(pending)
<1>1. seq \in Nat /\ Ordered(pending, seq) /\ DOMAIN pending \subseteq Nat
  BY DEF OrderInv, TypeOK, IsTable
<1>2. /\ Ordered(stored, seq + n)
      /\ DOMAIN stored = DOMAIN pending \cup ((last + 1)..(last + n))
      /\ \A i \in DOMAIN pending : stored[i] = pending[i] /\ i <= last
      /\ last \in Nat
  BY <1>1, InsertedIsOrdered
<1> HIDE DEF last
<1>3. \A j \in (last + 1)..(last + n) : \A i \in DOMAIN pending : i < j
  BY <1>1, <1>2
<1>4. CASE StoreAll(stored, n)
  <2>1. pending' = stored
    BY <1>4 DEF StoreAll
  <2> HIDE DEF stored
  <2>2. \A i \in DOMAIN pending : i \in DOMAIN pending' /\ i <= i
    BY <1>1, <1>2, <2>1
  <2>3. QED
    BY <1>2, <1>3, <2>1, <2>2 DEF FreshIds
<1>5. CASE StoreEvicting(stored, n)
  <2> DEFINE kept == Survivors(stored, MaxRows - 1, MaxBytes - Headroom)
             rest == Restrict(stored, kept)
             marker == seq + n + 1
             id == LastId(rest) + 1
  <2>1. pending' = WithMarker(rest, marker)
    BY <1>5 DEF StoreEvicting, Kept
  <2>2. kept \subseteq DOMAIN stored
    BY DEF Survivors
  <2>3. IsTable(stored) /\ DOMAIN stored \subseteq Nat
    BY <1>2 DEF Ordered, IsTable
  <2>4. DOMAIN stored # {} => LastId(stored) \in kept
    BY <2>3, LastSurvives
  <2>5. /\ LastId(stored) \in Nat
        /\ \A i \in DOMAIN stored : i <= LastId(stored)
    BY <2>3, LastIdIsGreatest
  <2> HIDE DEF stored, kept
  <2>6. seq + n \in Nat /\ marker = (seq + n) + 1
    BY <1>1
  <2>7. /\ Ordered(rest, seq + n) /\ DOMAIN rest = kept
        /\ \A i \in kept : rest[i] = stored[i]
    BY <1>2, <2>2, <2>6, RestrictIsOrdered
  <2> HIDE DEF rest
  <2>8. /\ DOMAIN pending' = kept \cup {id}
        /\ \A i \in kept : pending'[i] = stored[i] /\ i < id
    BY <2>1, <2>6, <2>7, WithMarkerIsOrdered
  <2>9. id \in Nat
    <3>1. IsTable(rest)
      BY <2>7 DEF Ordered
    <3>2. QED
      BY <3>1, LastIdIsGreatest
  <2> HIDE DEF id
  <2>10. \A i \in DOMAIN pending : i < id
    BY <1>1, <1>2, <2>4, <2>5, <2>8, <2>9
  <2>11. \A i \in DOMAIN pending : id \in DOMAIN pending' /\ i <= id
    BY <1>1, <2>8, <2>9, <2>10
  <2>12. ASSUME NEW j \in DOMAIN pending'
         PROVE  \/ j \in DOMAIN pending /\ pending'[j] = pending[j]
                \/ \A i \in DOMAIN pending : i < j
    BY <1>2, <1>3, <2>2, <2>8, <2>10
  <2>13. QED
    BY <2>11, <2>12 DEF FreshIds
<1>6. QED
  BY <1>4, <1>5

(* A batch stays intact while records are captured. *)
LEMMA EnqueueKeepsLossInv ==
  ASSUME Roomy, LossInv, NEW n \in 0..MaxDrafts, NEW size \in [1..n -> Sizes],
         NEW update \in CursorUpdates, Enqueue(n, size, update)
  PROVE  LossInv'
<1>1. OrderInv /\ n \in Nat
  BY BoundsAssumption DEF LossInv
<1>2. EnqueueEffect /\ OrderInv' /\ UNCHANGED <<batch, acked, parked>>
  BY <1>1, EnqueueHasEffect, EnqueueKeepsOrderInv
<1>3. FreshIds
  BY <1>1, EnqueueGivesFreshIds DEF Enqueue
<1>4. /\ DOMAIN batch \subseteq Nat /\ DOMAIN pending \subseteq Nat
      /\ DOMAIN pending' \subseteq Nat /\ seq \in Nat /\ seq' \in Nat
  BY <1>1, <1>2 DEF OrderInv, TypeOK, IsTable
<1>5. ASSUME NEW b \in DOMAIN batch
      PROVE  \E i \in DOMAIN pending' : b <= i
  <2>1. PICK i \in DOMAIN pending : b <= i
    BY DEF LossInv
  <2>2. PICK j \in DOMAIN pending' : i <= j
    BY <1>3 DEF FreshIds
  <2>3. QED
    BY <1>4, <2>1, <2>2
<1>6. ASSUME NEW b \in DOMAIN batch, b \in DOMAIN pending'
      PROVE  pending'[b] = batch[b]
  <2>1. PICK i \in DOMAIN pending : b <= i
    BY DEF LossInv
  <2>2. ~ (i < b)
    BY <1>4, <2>1
  <2>3. b \in DOMAIN pending /\ pending'[b] = pending[b]
    BY <1>3, <1>6, <2>2 DEF FreshIds
  <2>4. QED
    BY <2>3 DEF LossInv, BatchIntact
<1>7. NoSilentLoss'
  <2>1. ASSUME NEW s \in 1..seq'
        PROVE  s \in Seqs(pending') \cup acked \cup parked \cup DOMAIN dropped'
    <3>1. CASE s \in 1..seq
      BY <1>2, <3>1 DEF LossInv, NoSilentLoss, EnqueueEffect
    <3>2. CASE s \in (seq + 1)..seq'
      BY <1>2, <3>2 DEF EnqueueEffect
    <3>3. QED
      BY <1>4, <3>1, <3>2
  <2>2. QED
    BY <1>2, <2>1 DEF NoSilentLoss, Seqs
<1>8. BatchIntact'
  BY <1>2, <1>6 DEF BatchIntact
<1>9. QED
  BY <1>2, <1>5, <1>7, <1>8 DEF LossInv

(* Deleting an intact batch removes exactly the records it holds. *)
LEMMA SettleKeepsLossInv ==
  ASSUME LossInv, OrderInv',
         pending' = Restrict(pending, DOMAIN pending \ DOMAIN batch),
         batch' = EmptyTable,
         acked \cup parked \cup Seqs(batch) = acked' \cup parked',
         UNCHANGED <<seq, dropped>>
  PROVE  LossInv'
<1>1. DOMAIN batch' = {}
  BY EmptyIsTable
<1>2. \A j \in DOMAIN pending \ DOMAIN batch :
        j \in DOMAIN pending' /\ pending'[j] = pending[j]
  BY DEF Restrict
<1>3. \A j \in DOMAIN pending :
        pending[j].seq \in Seqs(pending') \cup Seqs(batch)
  BY <1>2 DEF Seqs, LossInv, BatchIntact
<1>4. Seqs(pending) \subseteq Seqs(pending') \cup Seqs(batch)
  BY <1>3 DEF Seqs
<1>5. 1..seq \subseteq Seqs(pending') \cup acked' \cup parked' \cup DOMAIN dropped
  BY <1>4 DEF LossInv, NoSilentLoss
<1>6. NoSilentLoss'
  BY <1>5 DEF NoSilentLoss, Seqs
<1>7. QED
  BY <1>1, <1>6 DEF LossInv, BatchIntact

(* Every step of a roomy buffer keeps the accounting. *)
LEMMA NextLossInv == Roomy /\ LossInv /\ [Next]_vars => LossInv'
<1> SUFFICES ASSUME Roomy, LossInv, [Next]_vars PROVE LossInv'
  OBVIOUS
<1>1. OrderInv' /\ OrderInv
  BY NextOrderInv DEF LossInv
<1>2. ASSUME NEW n \in 0..MaxDrafts, NEW size \in [1..n -> Sizes],
             NEW update \in CursorUpdates, Enqueue(n, size, update)
      PROVE  LossInv'
  BY <1>2, EnqueueKeepsLossInv
<1>3. ASSUME NEW limit \in 1..MaxBatch, TakeBatch(limit)
      PROVE  LossInv'
  <2> DEFINE S == Oldest(pending, limit)
  <2>1. S \subseteq DOMAIN pending /\ DOMAIN pending \subseteq Nat
    BY <1>1 DEF Oldest, OrderInv, TypeOK, IsTable
  <2>2. batch' = Restrict(pending, S) /\ UNCHANGED <<durable, history>>
    BY <1>3 DEF TakeBatch
  <2> HIDE DEF S
  <2>3. DOMAIN batch' = S /\ \A i \in S : batch'[i] = pending[i] /\ i <= i
    BY <2>1, <2>2 DEF Restrict
  <2>4. UNCHANGED <<pending, seq, acked, parked, dropped>>
    BY <2>2 DEF durable, history
  <2>5. NoSilentLoss'
    BY <2>4 DEF LossInv, NoSilentLoss, Seqs
  <2>6. QED
    BY <1>1, <2>1, <2>3, <2>4, <2>5 DEF LossInv, BatchIntact
<1>4. CASE DeleteBatch
  BY <1>1, <1>4, SettleKeepsLossInv DEF DeleteBatch
<1>5. CASE DeadLetter
  BY <1>1, <1>5, SettleKeepsLossInv DEF DeadLetter
<1>6. CASE Forget
  <2>1. DOMAIN batch' = {} /\ UNCHANGED <<pending, seq, acked, parked, dropped>>
    BY <1>6, EmptyIsTable DEF Forget, durable, history
  <2>2. NoSilentLoss'
    BY <2>1 DEF LossInv, NoSilentLoss, Seqs
  <2>3. QED
    BY <1>1, <2>1, <2>2 DEF LossInv, BatchIntact
<1>7. CASE UNCHANGED vars
  <2>1. UNCHANGED <<pending, batch, seq, acked, parked, dropped>>
    BY <1>7 DEF vars, durable, history
  <2>2. NoSilentLoss'
    BY <2>1 DEF LossInv, NoSilentLoss, Seqs
  <2>3. QED
    BY <1>1, <2>1, <2>2 DEF LossInv, BatchIntact
<1>8. QED
  BY <1>2, <1>3, <1>4, <1>5, <1>6, <1>7 DEF Next

(* Nothing is handed out yet, so nothing is unaccounted for. *)
LEMMA InitLossInv == Init => LossInv
<1> SUFFICES ASSUME Init PROVE LossInv
  OBVIOUS
<1>1. OrderInv
  BY InitOrderInv
<1>2. DOMAIN batch = {} /\ 1..seq = {}
  BY EmptyIsTable DEF Init
<1>3. QED
  BY <1>1, <1>2 DEF LossInv, BatchIntact, NoSilentLoss

(***************************************************************************)
(* In a roomy buffer delete_batch and dead_letter settle the rows that     *)
(* were posted and no other, whatever was captured or evicted while the    *)
(* batch was in flight.                                                    *)
(***************************************************************************)
THEOREM BatchIntactHolds == Roomy /\ Spec => []BatchIntact
<1>1. LossInv => BatchIntact
  BY DEF LossInv
<1>2. ASSUME Roomy PROVE Spec => []BatchIntact
  <2>1. LossInv /\ [Next]_vars => LossInv'
    BY <1>2, NextLossInv
  <2>2. QED
    BY <1>1, <2>1, InitLossInv, PTL DEF Spec
<1>3. QED
  BY <1>2

(***************************************************************************)
(* In a roomy buffer no record disappears without a trace.                 *)
(***************************************************************************)
THEOREM NoSilentLossHolds == Roomy /\ Spec => []NoSilentLoss
<1>1. LossInv => NoSilentLoss
  BY DEF LossInv
<1>2. ASSUME Roomy PROVE Spec => []NoSilentLoss
  <2>1. LossInv /\ [Next]_vars => LossInv'
    BY <1>2, NextLossInv
  <2>2. QED
    BY <1>1, <2>1, InitLossInv, PTL DEF Spec
<1>3. QED
  BY <1>2
=============================================================================
