------------------------ MODULE BrowserHistoryProofs ------------------------
(***************************************************************************)
(* Theorems about the browser history provider, for every value of its     *)
(* constants: any window, any page limit, any number of visits, edits and  *)
(* deaths.                                                                 *)
(***************************************************************************)
EXTENDS BrowserHistory, FiniteSetTheorems, WellFoundedInduction, TLAPS

-----------------------------------------------------------------------------
(* The inductive invariant. *)

IsTable(rows) == DOMAIN rows \subseteq Ids /\ \A i \in DOMAIN rows : rows[i] \in Visit

(* Only the first directory can have the name that is looked up. *)
BrowserInv ==
  /\ info_cache \in [Directories -> Names]
  /\ \A d \in Directories : info_cache[d] = Profile => d = Min(Directories)
  /\ IsTable(visits) /\ \A i \in DOMAIN visits : i <= last_id
  /\ last_id \in 0..IdBound /\ edits \in 0..Edits /\ files \in 1..(edits + 1)

(* A generation g with cursor n has been paid for: each generation after    *)
(* the first took an edit, and so will the next one if it is already due.   *)
Paid(g, n) ==
  /\ g <= edits + 1
  /\ HighestVisitId(visits) < n => g <= edits

(* An emission whose fate is open. *)
Open == pc = "send" \/ inflight

(* What run holds is what is stored, but for a receipt not looked at yet. *)
SyncInv ==
  /\ pc \in {"down", "start", "tick", "cloned", "send", "await"}
  /\ inflight \in BOOLEAN /\ receipt \in {"pending", "committed", "dropped"}
  /\ deaths \in 0..Deaths /\ clone \in BOOLEAN
  /\ inflight => pc \in {"await", "down"}
  /\ inflight /\ pc = "await" => receipt = "pending"
  /\ pc \in {"down", "start"} => state = NoState
  /\ pc \in {"tick", "cloned", "send"} => state = stored
  /\ pc = "await" => IF receipt = "committed" THEN stored = outcome.state
                     ELSE state = stored

StoredInv ==
  /\ IsState(stored) /\ IsState(state)
  /\ stored # NoState => Paid(stored.generation, stored.cursor)
  /\ since \in (0 - RevisitWindow)..IdBound

(* A clone is what the table was: of its rows, none that is left differs.  *)
CloneInv ==
  pc = "cloned" /\ OpenSnapshot =>
    LET rows == outcome.rows
    IN  /\ IsTable(rows)
        /\ Paid(Begun(rows, state).generation, HighestVisitId(rows))
        /\ files = 1 =>
             /\ HighestVisitId(rows) <= last_id
             /\ \A i \in DOMAIN visits : i <= HighestVisitId(rows) =>
                  i \in DOMAIN rows /\ rows[i].url = visits[i].url

(* An emission o, whatever the table is by now, is the next one after s. *)
Follows(o, s) ==
  /\ o.state \in HistoryState /\ IsState(o.state)
  /\ o.generation = o.state.generation
  /\ DOMAIN o.records \subseteq Ids
  /\ \A i \in DOMAIN o.records :
       /\ i <= o.state.cursor
       /\ i > o.state.cursor - RevisitWindow => i \in DOMAIN o.state.shipped
  /\ s = NoState => o.generation = 1
  /\ s # NoState =>
       /\ o.generation \in {s.generation, s.generation + 1}
       /\ o.generation = s.generation =>
            /\ o.state.cursor >= s.cursor
            /\ \A i \in DOMAIN o.records :
                 /\ i > s.cursor - RevisitWindow
                 /\ i \in DOMAIN s.shipped => s.shipped[i] # Digest(o.records[i])
            /\ \A i \in DOMAIN s.shipped :
                 i > o.state.cursor - RevisitWindow => i \in DOMAIN o.state.shipped

(* The visits an emission after s is to bring, of those in the table. *)
Owed(o, s, i) ==
  /\ visits[i].url = "set" /\ i <= o.state.cursor
  /\ i > (IF s = NoState THEN o.state.cursor - RevisitWindow ELSE s.cursor)

OfferInv ==
  /\ pc = "await" => outcome.state # NoState /\ IsState(outcome.state)
  /\ Open =>
       /\ Follows(outcome, stored)
       /\ Paid(outcome.generation, outcome.state.cursor)
       /\ files = 1 =>
            /\ outcome.state.cursor <= last_id
            /\ \A i \in DOMAIN visits :
                 Owed(outcome, stored, i) => i \in DOMAIN outcome.records

(* What is recorded under keys of the generation that is stored is below   *)
(* the cursor, and within the window its digest is known.                  *)
KeyInv ==
  /\ DOMAIN recorded = Keys
  /\ \A k \in Keys : recorded[k] # {} =>
       /\ stored # NoState /\ k[1] <= stored.generation
       /\ k[1] = stored.generation =>
            /\ k[2] <= stored.cursor
            /\ k[2] > stored.cursor - RevisitWindow => k[2] \in DOMAIN stored.shipped

(* With the first file, the cursor is behind the browser and past nothing  *)
(* that is owed and not recorded.                                          *)
SkipInv == stored # NoState /\ files = 1 => stored.cursor <= last_id

HistoryInv ==
  /\ BrowserInv /\ SyncInv /\ StoredInv /\ CloneInv /\ OfferInv /\ SkipInv
-----------------------------------------------------------------------------
(* Least and greatest elements of sets of numbers. *)

(* The order of the naturals is contained in a well-founded relation. *)
LEMMA OrderIsWellFounded ==
  \E R : IsWellFoundedOn(R, Nat) /\ \A x, y \in Nat : x < y => <<x, y>> \in R
<1>1. \A x, y \in Nat : x < y => <<x, y>> \in OpToRel(<, Nat)
  BY DEF OpToRel
<1>2. QED
  BY <1>1, NatLessThanWellFounded, Zenon

(* A nonempty set of numbers has a minimal element of such a relation. *)
LEMMA HasMinimal ==
  ASSUME NEW R, IsWellFoundedOn(R, Nat), NEW S, S \subseteq Nat, S # {}
  PROVE  \E x \in S : \A y \in S : ~ (<<y, x>> \in R)
BY WFMin

(* A nonempty set of numbers has a least one, and that is Min's. *)
LEMMA MinIsLeast ==
  ASSUME NEW S, S \subseteq Nat, S # {}
  PROVE  Min(S) \in S /\ \A n \in S : Min(S) <= n
<1>1. PICK R : IsWellFoundedOn(R, Nat) /\ \A x, y \in Nat : x < y => <<x, y>> \in R
  BY OrderIsWellFounded
<1>2. IsWellFoundedOn(R, Nat)
  BY <1>1
<1>3. PICK m \in S : \A y \in S : ~ (<<y, m>> \in R)
  BY <1>2, HasMinimal, Zenon
<1>4. \A n \in S : ~ (n < m)
  BY <1>1, <1>3
<1>5. \A n \in S : m <= n
  BY <1>4
<1>6. QED
  BY <1>5 DEF Min

(* A nonempty set of numbers up to a bound has a greatest one: Max's. *)
LEMMA MaxIsGreatest ==
  ASSUME NEW b \in Nat, NEW S, S \subseteq 0..b, S # {}
  PROVE  Max(S) \in S /\ \A n \in S : n <= Max(S)
<1> DEFINE Below == {n \in 0..b : b - n \in S}
<1>1. Below \subseteq Nat /\ Below # {}
  <2>1. PICK n \in S : TRUE
    OBVIOUS
  <2>2. b - n \in Below
    OBVIOUS
  <2>3. QED
    BY <2>2
<1>2. Min(Below) \in Below /\ \A n \in Below : Min(Below) <= n
  BY <1>1, MinIsLeast
<1>3. PICK m \in Below : \A n \in Below : m <= n
  BY <1>2
<1>4. b - m \in S /\ \A n \in S : b - m >= n
  <2>1. \A n \in S : b - n \in Below
    OBVIOUS
  <2>2. QED
    BY <1>3, <2>1
<1>5. QED
  BY <1>4 DEF Max
-----------------------------------------------------------------------------
(* Reading the clone. *)

(* The greatest id of a table, or zero. *)
LEMMA HighestIsGreatest ==
  ASSUME NEW rows, DOMAIN rows \subseteq Ids
  PROVE  /\ HighestVisitId(rows) \in 0..IdBound
         /\ \A i \in DOMAIN rows : i <= HighestVisitId(rows)
         /\ HighestVisitId(rows) # 0 => HighestVisitId(rows) \in DOMAIN rows
<1>1. IdBound \in Nat
  BY HistoryAssumption
<1>2. DOMAIN rows \subseteq 0..IdBound
  BY <1>1 DEF Ids
<1>3. CASE DOMAIN rows = {}
  BY <1>1, <1>3 DEF HighestVisitId
<1>4. CASE DOMAIN rows # {}
  <2>1. Max(DOMAIN rows) \in DOMAIN rows /\ \A n \in DOMAIN rows : n <= Max(DOMAIN rows)
    BY <1>1, <1>2, <1>4, MaxIsGreatest
  <2>2. QED
    BY <1>2, <1>4, <2>1 DEF HighestVisitId
<1>5. QED
  BY <1>3, <1>4

Above(rows, from) == {i \in Joined(rows) : i > from}
Between(rows, from, i) == {j \in Joined(rows) : from < j /\ j <= i}

(* The ids of a table are finite in number. *)
LEMMA AboveIsFinite ==
  ASSUME NEW rows, DOMAIN rows \subseteq Ids, NEW S, S \subseteq DOMAIN rows
  PROVE  IsFiniteSet(S) /\ Cardinality(S) \in Nat
<1>1. IdBound \in Int /\ 1 \in Int
  BY HistoryAssumption
<1>2. IsFiniteSet(Ids)
  BY <1>1, FS_Interval DEF Ids
<1>3. IsFiniteSet(S)
  BY <1>2, FS_Subset
<1>4. QED
  BY <1>3, FS_CardinalityType

(* A page that is not full holds all there is above its position: the      *)
(* first row it left out would have had its place.                         *)
LEMMA ShortPageIsLast ==
  ASSUME NEW rows, DOMAIN rows \subseteq Ids, NEW p \in 0..IdBound,
         Cardinality(ReadPage(rows, p)) < PageLimit
  PROVE  ReadPage(rows, p) = Above(rows, p)
<1> DEFINE page == ReadPage(rows, p)
           rest == Above(rows, p) \ page
<1>1. PageLimit \in Nat /\ IdBound \in Nat /\ \A j \in DOMAIN rows : j \in Nat
  BY HistoryAssumption DEF Ids
<1>2. page \subseteq Above(rows, p)
  BY DEF ReadPage, Above
<1>3. SUFFICES ASSUME rest # {} PROVE FALSE
  BY <1>2
<1>4. rest \subseteq Nat
  BY <1>1 DEF Above, Joined
<1>5. PICK m \in rest : \A n \in rest : m <= n
  BY <1>3, <1>4, MinIsLeast
<1>6. m \in Joined(rows) /\ m > p /\ m \in Nat
  BY <1>4, <1>5 DEF Above
<1>7. Between(rows, p, m) \subseteq page \cup {m}
  <2> SUFFICES ASSUME NEW j \in Between(rows, p, m), j # m PROVE j \in page
    OBVIOUS
  <2>1. j \in Above(rows, p) /\ j < m /\ j \in Nat
    BY <1>1, <1>6 DEF Between, Above, Joined
  <2>2. QED
    BY <1>5, <1>6, <2>1
<1>8. IsFiniteSet(page) /\ Cardinality(page) \in Nat
  BY <1>2, AboveIsFinite DEF Above, Joined
<1>9. m \notin page
  BY <1>5
<1>10. IsFiniteSet(page \cup {m}) /\ Cardinality(page \cup {m}) = Cardinality(page) + 1
  BY <1>8, <1>9, FS_AddElement
<1>11. /\ IsFiniteSet(Between(rows, p, m)) /\ Cardinality(Between(rows, p, m)) \in Nat
       /\ Cardinality(Between(rows, p, m)) <= Cardinality(page) + 1
  BY <1>7, <1>10, FS_Subset, FS_CardinalityType
<1>12. Cardinality(Between(rows, p, m)) <= PageLimit
  BY <1>1, <1>8, <1>11
<1>13. m \in page
  BY <1>6, <1>12 DEF ReadPage, Between
<1>14. QED
  BY <1>9, <1>13

(* A full page leaves to the next ones what lies above its last row. *)
LEMMA FullPageGoesOn ==
  ASSUME NEW rows, DOMAIN rows \subseteq Ids, NEW p \in 0..IdBound,
         ~ (Cardinality(ReadPage(rows, p)) < PageLimit)
  PROVE  LET last == Max(ReadPage(rows, p))
         IN  /\ last \in 0..IdBound /\ last > p
             /\ ReadPage(rows, p) \cup Above(rows, last) = Above(rows, p)
<1> DEFINE page == ReadPage(rows, p)
           last == Max(page)
<1>1. /\ PageLimit \in Nat \ {0} /\ IdBound \in Nat /\ p \in Nat
      /\ \A j \in DOMAIN rows : j \in 0..IdBound /\ j \in Nat
  BY HistoryAssumption DEF Ids
<1>2. page \subseteq Above(rows, p) /\ page \subseteq DOMAIN rows
  BY DEF ReadPage, Above, Joined
<1>3. page # {}
  BY <1>1, FS_EmptySet
<1>4. last \in page /\ \A n \in page : n <= last
  BY <1>1, <1>2, <1>3, MaxIsGreatest
<1>5. last \in 0..IdBound /\ last > p
  BY <1>1, <1>2, <1>4 DEF Above, Joined
<1>6. ASSUME NEW i \in Above(rows, p), i <= last PROVE i \in page
  <2>1. i \in Joined(rows) /\ i > p /\ i \in Nat
    BY <1>1 DEF Above, Joined
  <2>2. Between(rows, p, i) \subseteq Between(rows, p, last)
    BY <1>1, <1>5, <1>6, <2>1 DEF Between, Joined
  <2>3. IsFiniteSet(Between(rows, p, last)) /\ Between(rows, p, last) \subseteq DOMAIN rows
    BY AboveIsFinite DEF Between, Joined
  <2>4. /\ Cardinality(Between(rows, p, i)) \in Nat
        /\ Cardinality(Between(rows, p, last)) \in Nat
        /\ Cardinality(Between(rows, p, i)) <= Cardinality(Between(rows, p, last))
    BY <2>2, <2>3, FS_Subset, FS_CardinalityType
  <2>5. Cardinality(Between(rows, p, last)) <= PageLimit
    BY <1>4 DEF ReadPage, Between
  <2>6. Cardinality(Between(rows, p, i)) <= PageLimit
    BY <1>1, <2>4, <2>5
  <2>7. QED
    BY <2>1, <2>6 DEF ReadPage, Between
<1>7. \A i \in Above(rows, p) : i \in page \/ i \in Above(rows, last)
  BY <1>1, <1>5, <1>6 DEF Above, Joined
<1>8. Above(rows, last) \subseteq Above(rows, p)
  BY <1>1, <1>5 DEF Above, Joined
<1>9. page \cup Above(rows, last) = Above(rows, p)
  BY <1>2, <1>7, <1>8
<1>10. QED
  BY <1>5, <1>9
(* One turn of the loop of collect, w being what the turns after it read. *)
Turn(rows, w) ==
  [p \in 0..IdBound |->
     IF Cardinality(ReadPage(rows, p)) < PageLimit THEN ReadPage(rows, p)
     ELSE ReadPage(rows, p) \cup w[Max(ReadPage(rows, p))]]

(* Reading page by page reads every row above the position, once for all   *)
(* page limits and tables: the pages neither leave a gap nor stop early.   *)
THEOREM PagesReadAll ==
  ASSUME NEW rows, DOMAIN rows \subseteq Ids, NEW from \in 0..IdBound
  PROVE  ReadPages(rows, from) = Above(rows, from)
<1> DEFINE all == [p \in 0..IdBound |-> Above(rows, p)]
<1>1. all = Turn(rows, all)
  <2>1. ASSUME NEW p \in 0..IdBound PROVE all[p] = Turn(rows, all)[p]
    <3>1. CASE Cardinality(ReadPage(rows, p)) < PageLimit
      BY <3>1, ShortPageIsLast DEF Turn
    <3>2. CASE ~ (Cardinality(ReadPage(rows, p)) < PageLimit)
      <4>1. /\ Max(ReadPage(rows, p)) \in 0..IdBound
            /\ ReadPage(rows, p) \cup Above(rows, Max(ReadPage(rows, p))) = Above(rows, p)
        BY <3>2, FullPageGoesOn
      <4>2. QED
        BY <3>2, <4>1 DEF Turn
    <3>3. QED
      BY <3>1, <3>2
  <2>2. QED
    BY <2>1 DEF Turn
<1> DEFINE walk == CHOOSE w : w = Turn(rows, w)
<1>2. walk = Turn(rows, walk)
  BY <1>1
<1>3. \A p \in 0..IdBound : walk[p] = Above(rows, p)
  <2> DEFINE wrong == {p \in 0..IdBound : walk[p] # Above(rows, p)}
  <2>1. SUFFICES ASSUME wrong # {} PROVE FALSE
    OBVIOUS
  <2>2. IdBound \in Nat
    BY HistoryAssumption
  <2>3. PICK p \in wrong : \A q \in wrong : q <= p
    <3>1. wrong \subseteq 0..IdBound
      OBVIOUS
    <3> HIDE DEF wrong
    <3>2. QED
      BY <2>1, <2>2, <3>1, MaxIsGreatest
  <2>4. walk[p] = Turn(rows, walk)[p]
    BY <1>2
  <2>5. CASE Cardinality(ReadPage(rows, p)) < PageLimit
    BY <2>3, <2>4, <2>5, ShortPageIsLast DEF Turn
  <2>6. CASE ~ (Cardinality(ReadPage(rows, p)) < PageLimit)
    <3> DEFINE last == Max(ReadPage(rows, p))
    <3>1. /\ last \in 0..IdBound /\ last > p
          /\ ReadPage(rows, p) \cup Above(rows, last) = Above(rows, p)
      BY <2>3, <2>6, FullPageGoesOn
    <3>2. walk[last] = Above(rows, last)
      BY <2>2, <2>3, <3>1
    <3>3. walk[p] = ReadPage(rows, p) \cup walk[last]
      BY <2>3, <2>4, <2>6 DEF Turn
    <3>4. QED
      BY <2>3, <3>1, <3>2, <3>3
  <2>7. QED
    BY <2>5, <2>6
<1>4. ReadPages(rows, from) = walk[from]
  BY DEF ReadPages, Turn
<1>5. QED
  BY <1>3, <1>4
-----------------------------------------------------------------------------
(* What collect makes of a clone. *)

(* The digests of a state. *)
IsShipped(f) == f \in UNION {[S -> Contents \cup {"untitled"}] : S \in SUBSET Ids}

(* Every function from ids to digests is one. *)
LEMMA ShippedIs ==
  ASSUME NEW S, S \subseteq Ids, NEW f \in [S -> Contents \cup {"untitled"}]
  PROVE  IsShipped(f)
BY DEF IsShipped

(* And they are all such functions. *)
LEMMA ShippedHas ==
  ASSUME NEW f, IsShipped(f)
  PROVE  /\ DOMAIN f \subseteq Ids /\ f = [i \in DOMAIN f |-> f[i]]
         /\ \A i \in DOMAIN f : f[i] \in Contents \cup {"untitled"}
<1>1. PICK S \in SUBSET Ids : f \in [S -> Contents \cup {"untitled"}]
  BY DEF IsShipped
<1>2. QED
  BY <1>1

(* A HistoryState, by its fields. *)
LEMMA StateIs ==
  ASSUME NEW s
  PROVE  s \in HistoryState
           <=> /\ s = [cursor |-> s.cursor, generation |-> s.generation, shipped |-> s.shipped]
               /\ s.cursor \in 0..IdBound /\ s.generation \in Generations
               /\ IsShipped(s.shipped)
BY DEF HistoryState, IsShipped

(* The state collect starts from, s0 being the one stored. *)
LEMMA BegunIs ==
  ASSUME NEW rows, IsTable(rows), NEW s0, IsState(s0)
  PROVE  LET s == Begun(rows, s0)
             highest == HighestVisitId(rows)
         IN  /\ s.cursor \in 0..IdBound /\ s.cursor <= highest
             /\ IsShipped(s.shipped)
             /\ DOMAIN s.shipped \subseteq (s.cursor - RevisitWindow + 1)..s.cursor
             /\ s0 = NoState => s.generation = 1 /\ s.cursor = highest
             /\ s0 # NoState /\ highest < s0.cursor =>
                  s.generation = s0.generation + 1 /\ s.cursor = highest
             /\ s0 # NoState /\ ~ (highest < s0.cursor) => s = s0
<1> DEFINE s == Begun(rows, s0)
           highest == HighestVisitId(rows)
<1>1. highest \in 0..IdBound /\ IdBound \in Nat /\ RevisitWindow \in Nat
  BY HighestIsGreatest, HistoryAssumption DEF IsTable
<1>2. IsShipped(EmptyTable) /\ DOMAIN EmptyTable = {}
  <2>1. EmptyTable \in [{} -> Contents \cup {"untitled"}] /\ DOMAIN EmptyTable = {}
    BY DEF EmptyTable
  <2>2. {} \subseteq Ids
    OBVIOUS
  <2>3. QED
    BY <2>1, <2>2, ShippedIs
<1>3. CASE s0 = NoState
  <2>1. s = Fresh(highest)
    BY <1>3 DEF Begun
  <2>2. QED
    BY <1>1, <1>2, <1>3, <2>1 DEF Fresh
<1>4. CASE s0 # NoState /\ highest < s0.cursor
  <2>1. s = Regenerated(s0, highest)
    BY <1>4 DEF Begun
  <2>2. QED
    BY <1>1, <1>2, <1>4, <2>1 DEF Regenerated
<1>5. CASE s0 # NoState /\ ~ (highest < s0.cursor)
  <2>1. s = s0
    BY <1>5 DEF Begun
  <2>2. /\ s0.cursor \in 0..IdBound /\ IsShipped(s0.shipped)
        /\ DOMAIN s0.shipped \subseteq (s0.cursor - RevisitWindow + 1)..s0.cursor
    BY <1>5, StateIs DEF IsState
  <2>3. s0.cursor <= highest
    BY <1>1, <1>5, <2>2
  <2>4. QED
    BY <1>5, <2>1, <2>2, <2>3
<1>6. QED
  BY <1>3, <1>4, <1>5

(* The rows that are sent, and the state that goes with them.  The cursor  *)
(* goes no further than the highest id, and past no row that was joined.   *)
LEMMA CollectIs ==
  ASSUME NEW rows, IsTable(rows), NEW s0, IsState(s0)
  PROVE  LET o == Collect(rows, s0)
             s == Begun(rows, s0)
             sent == Changed(rows, s, Above(rows, Position(s)))
             cursor == o.state.cursor
         IN  /\ o.generation = s.generation /\ o.state.generation = s.generation
             /\ cursor \in 0..IdBound /\ cursor <= HighestVisitId(rows)
             /\ s.cursor <= cursor /\ \A i \in Joined(rows) : i <= cursor
             /\ DOMAIN o.records = sent /\ \A i \in sent : o.records[i] = rows[i]
             /\ IsShipped(o.state.shipped)
             /\ DOMAIN o.state.shipped =
                  {i \in DOMAIN s.shipped \cup sent : i > cursor - RevisitWindow}
             /\ o.state = [cursor |-> o.state.cursor, generation |-> o.state.generation,
                           shipped |-> o.state.shipped]
<1> DEFINE o == Collect(rows, s0)
           s == Begun(rows, s0)
           read == Above(rows, Position(s))
           sent == Changed(rows, s, read)
           highest == HighestVisitId(rows)
           cursor == Max({s.cursor, Position(s)} \cup read)
           shipped == [i \in DOMAIN s.shipped \cup sent |->
                         IF i \in sent THEN Digest(rows[i]) ELSE s.shipped[i]]
<1>1. /\ highest \in 0..IdBound /\ \A i \in DOMAIN rows : i <= highest
      /\ highest # 0 => highest \in DOMAIN rows
      /\ DOMAIN rows \subseteq 0..IdBound /\ IdBound \in Nat /\ RevisitWindow \in Nat
  BY HighestIsGreatest, HistoryAssumption DEF IsTable, Ids
<1>2. s.cursor \in 0..IdBound /\ s.cursor <= highest /\ IsShipped(s.shipped)
  BY BegunIs
<1>3. Position(s) \in 0..IdBound /\ Position(s) <= s.cursor
  BY <1>1, <1>2 DEF Position
<1>4. ReadPages(rows, Position(s)) = read
  BY <1>3, PagesReadAll DEF IsTable
<1>5. /\ cursor \in 0..IdBound /\ cursor <= highest
      /\ s.cursor <= cursor /\ \A i \in Joined(rows) : i <= cursor
  <2> DEFINE S == {s.cursor, Position(s)} \cup read
  <2>1. S \subseteq 0..IdBound /\ S # {}
    BY <1>1, <1>2, <1>3 DEF Above, Joined
  <2>2. \A i \in S : i <= highest
    BY <1>1, <1>2, <1>3 DEF Above, Joined
  <2>3. \A i \in Joined(rows) : i \in S \/ i <= s.cursor
    BY <1>1, <1>2, <1>3 DEF Above, Joined
  <2>4. Max(S) \in S /\ \A n \in S : n <= Max(S)
    BY <1>1, <2>1, MaxIsGreatest
  <2>5. \A i \in Joined(rows) : i \in 0..IdBound
    BY <1>1 DEF Joined
  <2> HIDE DEF S
  <2>6. s.cursor \in S
    BY DEF S
  <2> HIDE DEF s, highest
  <2>7. /\ Max(S) \in 0..IdBound /\ Max(S) <= highest
        /\ s.cursor <= Max(S) /\ \A i \in Joined(rows) : i <= Max(S)
    <3>1. Max(S) \in 0..IdBound /\ Max(S) <= highest /\ s.cursor <= Max(S)
      BY <2>1, <2>2, <2>4, <2>6
    <3>2. ASSUME NEW i \in Joined(rows) PROVE i <= Max(S)
      BY <1>1, <1>2, <2>3, <2>4, <2>5, <3>1
    <3>3. QED
      BY <3>1, <3>2
  <2>8. QED
    BY <2>7 DEF S, s, highest
<1>6. sent \subseteq DOMAIN rows
  BY DEF Changed, Above, Joined
<1>7. IsShipped(Retained(shipped, cursor))
  <2>1. \A i \in sent : Digest(rows[i]) \in Contents \cup {"untitled"}
    BY <1>6 DEF Digest, IsTable, Visit
  <2>2. DOMAIN s.shipped \subseteq Ids /\ sent \subseteq Ids
    BY <1>2, <1>6, ShippedHas DEF IsTable
  <2>3. \A i \in DOMAIN s.shipped : s.shipped[i] \in Contents \cup {"untitled"}
    BY <1>2, ShippedHas
  <2>4. \A i \in DOMAIN shipped : shipped[i] \in Contents \cup {"untitled"}
    BY <2>1, <2>3
  <2> DEFINE kept == {i \in DOMAIN shipped : i > cursor - RevisitWindow}
  <2>5. Retained(shipped, cursor) \in [kept -> Contents \cup {"untitled"}]
    BY <2>4 DEF Retained, Restrict
  <2>6. kept \subseteq Ids
    BY <2>2
  <2>7. QED
    BY <2>5, <2>6, ShippedIs
<1>8. o = [records |-> [i \in sent |-> rows[i]], generation |-> s.generation,
           state |-> [cursor |-> cursor, generation |-> s.generation,
                      shipped |-> Retained(shipped, cursor)]]
  BY <1>4 DEF Collect
<1>9. DOMAIN Retained(shipped, cursor) =
        {i \in DOMAIN s.shipped \cup sent : i > cursor - RevisitWindow}
  BY DEF Retained, Restrict
<1> HIDE DEF cursor, s, highest, shipped, sent, o
<1>10. QED
  <2>1. /\ o.generation = s.generation /\ o.state.generation = s.generation
        /\ o.state.cursor = cursor /\ o.state.shipped = Retained(shipped, cursor)
        /\ DOMAIN o.records = sent /\ \A i \in sent : o.records[i] = rows[i]
        /\ o.state = [cursor |-> o.state.cursor, generation |-> o.state.generation,
                      shipped |-> o.state.shipped]
    BY <1>8
  <2>2. QED
    BY <1>5, <1>7, <1>9, <2>1 DEF o, s, sent, highest
(* An emission collected from a clone, with s the state stored, comes next *)
(* after s: nothing is sent again under its key unless its digest changed, *)
(* and no digest that may be needed is forgotten.                          *)
LEMMA CollectFollows ==
  ASSUME NEW rows, IsTable(rows), NEW s, IsState(s),
         Begun(rows, s).generation \in Generations
  PROVE  Follows(Collect(rows, s), s)
<1> DEFINE o == Collect(rows, s)
           b == Begun(rows, s)
           sent == Changed(rows, b, Above(rows, Position(b)))
           highest == HighestVisitId(rows)
           cursor == o.state.cursor
<1>1. /\ highest \in 0..IdBound /\ \A i \in DOMAIN rows : i <= highest
      /\ IdBound \in Nat /\ RevisitWindow \in Nat
  BY HighestIsGreatest, HistoryAssumption DEF IsTable
<1>2. /\ b.cursor \in 0..IdBound /\ b.cursor <= highest
      /\ DOMAIN b.shipped \subseteq (b.cursor - RevisitWindow + 1)..b.cursor
      /\ s = NoState => b.generation = 1
      /\ s # NoState /\ highest < s.cursor => b.generation = s.generation + 1
      /\ s # NoState /\ ~ (highest < s.cursor) => b = s
  BY BegunIs
<1>3. /\ o.generation = b.generation /\ o.state.generation = b.generation
      /\ cursor \in 0..IdBound /\ cursor <= highest
      /\ b.cursor <= cursor /\ \A i \in Joined(rows) : i <= cursor
      /\ DOMAIN o.records = sent /\ \A i \in sent : o.records[i] = rows[i]
      /\ IsShipped(o.state.shipped)
      /\ DOMAIN o.state.shipped =
           {i \in DOMAIN b.shipped \cup sent : i > cursor - RevisitWindow}
      /\ o.state = [cursor |-> o.state.cursor, generation |-> o.state.generation,
                    shipped |-> o.state.shipped]
  BY CollectIs
<1>4. sent \subseteq Joined(rows) /\ sent \subseteq Ids /\ \A i \in sent : i \in Nat
  BY DEF Changed, Above, Joined, IsTable, Ids
<1>5. \A i \in sent : i > Position(b) /\ (i \in DOMAIN b.shipped => b.shipped[i] # Digest(rows[i]))
  BY DEF Changed, Above
<1>5a. b.generation \in Generations
  OBVIOUS
<1> HIDE DEF o, b, sent, highest, cursor
<1>5b. o.state.cursor = cursor
  BY DEF cursor
<1>6. o.state \in HistoryState
  BY <1>1, <1>3, <1>5a, <1>5b, StateIs
<1>7. IsState(o.state)
  <2>1. \A i \in DOMAIN o.state.shipped : i \in Int /\ i <= cursor
    BY <1>1, <1>2, <1>3, <1>4
  <2>2. DOMAIN o.state.shipped \subseteq (cursor - RevisitWindow + 1)..cursor
    BY <1>1, <1>3, <2>1
  <2>3. QED
    BY <1>5b, <1>6, <2>2 DEF IsState
<1>8. \A i \in DOMAIN o.records :
        /\ i <= o.state.cursor
        /\ i > o.state.cursor - RevisitWindow => i \in DOMAIN o.state.shipped
  BY <1>1, <1>3, <1>4, <1>5b
<1>9. ASSUME s # NoState
      PROVE  /\ o.generation \in {s.generation, s.generation + 1}
             /\ o.generation = s.generation => ~ (highest < s.cursor)
  <2>1. s.generation \in Nat
    BY <1>9, StateIs DEF IsState, Generations
  <2>2. QED
    BY <1>2, <1>3, <1>9, <2>1
<1>10. ASSUME s # NoState, ~ (highest < s.cursor)
       PROVE  /\ o.state.cursor >= s.cursor
              /\ \A i \in DOMAIN o.records :
                   /\ i > s.cursor - RevisitWindow
                   /\ i \in DOMAIN s.shipped => s.shipped[i] # Digest(o.records[i])
              /\ \A i \in DOMAIN s.shipped :
                   i > o.state.cursor - RevisitWindow => i \in DOMAIN o.state.shipped
  <2>1. b = s
    BY <1>2, <1>10
  <2>2. s.cursor \in Nat /\ o.state.cursor >= s.cursor
    BY <1>1, <1>2, <1>3, <1>5b, <2>1
  <2>3. \A i \in sent : i > s.cursor - RevisitWindow
    BY <1>1, <1>4, <1>5, <2>1, <2>2 DEF Position
  <2>4. \A i \in sent : i \in DOMAIN s.shipped => s.shipped[i] # Digest(o.records[i])
    BY <1>3, <1>5, <2>1
  <2>5. QED
    BY <1>3, <1>5b, <2>1, <2>2, <2>3, <2>4
<1>11. s = NoState => o.generation = 1
  BY <1>2, <1>3
<1>12. o.generation = o.state.generation /\ DOMAIN o.records \subseteq Ids
  BY <1>3, <1>4
<1>13. Follows(o, s)
  BY <1>6, <1>7, <1>8, <1>9, <1>10, <1>11, <1>12 DEF Follows
<1>14. QED
  BY <1>13 DEF o

(* The visits of the clone that lie between the cursor and the next, or in *)
(* the window of the first poll, are all sent.                             *)
LEMMA CollectSends ==
  ASSUME NEW rows, IsTable(rows), NEW s, IsState(s),
         NEW i \in DOMAIN rows, rows[i].url = "set",
         i > (IF s = NoState THEN HighestVisitId(rows) - RevisitWindow ELSE s.cursor)
  PROVE  i \in DOMAIN Collect(rows, s).records
<1> DEFINE b == Begun(rows, s)
           highest == HighestVisitId(rows)
<1>1. /\ highest \in 0..IdBound /\ i <= highest /\ i \in Nat \ {0}
      /\ IdBound \in Nat /\ RevisitWindow \in Nat
  BY HighestIsGreatest, HistoryAssumption DEF IsTable, Ids
<1>2. /\ b.cursor \in 0..IdBound
      /\ DOMAIN b.shipped \subseteq (b.cursor - RevisitWindow + 1)..b.cursor
      /\ s = NoState => b = Fresh(highest)
      /\ s # NoState /\ ~ (highest < s.cursor) => b = s
  BY BegunIs DEF Begun
<1>3. DOMAIN Collect(rows, s).records = Changed(rows, b, Above(rows, Position(b)))
  BY CollectIs
<1> HIDE DEF b, highest
<1>4. CASE s = NoState
  <2>1. b.cursor = highest /\ DOMAIN b.shipped = {}
    BY <1>2, <1>4 DEF Fresh, EmptyTable
  <2>2. i > Position(b)
    BY <1>1, <1>4, <2>1 DEF Position, highest
  <2>3. QED
    BY <1>3, <2>1, <2>2 DEF Changed, Above, Joined
<1>5. CASE s # NoState
  <2>1. s.cursor \in Nat /\ i > s.cursor
    BY <1>5, StateIs DEF IsState
  <2>2. b = s
    BY <1>1, <1>2, <1>5, <2>1
  <2>3. i > Position(b) /\ i \notin DOMAIN b.shipped
    BY <1>1, <1>2, <2>1, <2>2 DEF Position
  <2>4. QED
    BY <1>3, <2>3 DEF Changed, Above, Joined
<1>6. QED
  BY <1>4, <1>5
-----------------------------------------------------------------------------
(* The browser's steps, and what any step may do to the table. *)

Browse ==
  \/ \E url \in Urls, content \in Contents : Append(url, content)
  \/ \E i \in Ids, content \in Contents : Rewrite(i, content)
  \/ \E i \in Ids : Delete(i)
  \/ Recreate
  \/ \E d \in Directories, name \in Names : Rename(d, name)

(* Rows of the same file come only above the last id, and the highest id   *)
(* falls only by an edit.                                                  *)
Moved ==
  /\ edits' \in {edits, edits + 1}
  /\ HighestVisitId(visits') >= HighestVisitId(visits) \/ edits' = edits + 1
  /\ files' = 1 =>
       /\ files = 1 /\ last_id <= last_id'
       /\ \A i \in DOMAIN visits' :
            i > last_id \/ (i \in DOMAIN visits /\ visits'[i].url = visits[i].url)

(* Appending keeps the table and raises its highest id. *)
LEMMA AppendMoves ==
  ASSUME BrowserInv, NEW url \in Urls, NEW content \in Contents, Append(url, content)
  PROVE  BrowserInv' /\ Moved
<1>1. /\ IdBound \in Nat /\ last_id \in Nat /\ last_id < IdBound /\ last_id' = last_id + 1
      /\ files \in Nat
  BY HistoryAssumption DEF BrowserInv, Append
<1>2. /\ DOMAIN visits' = DOMAIN visits \cup {last_id'}
      /\ visits'[last_id'] = [born |-> files, url |-> url, content |-> content]
      /\ \A i \in DOMAIN visits : visits'[i] = visits[i]
  <2>1. last_id' \notin DOMAIN visits
    BY <1>1 DEF BrowserInv, IsTable, Ids
  <2>2. QED
    BY <2>1 DEF Append
<1>3. IsTable(visits') /\ \A i \in DOMAIN visits' : i <= last_id'
  <2>1. [born |-> files, url |-> url, content |-> content] \in Visit
    BY <1>1 DEF Visit
  <2>2. last_id' \in Ids
    BY <1>1 DEF Ids
  <2>3. \A i \in DOMAIN visits : i \in Nat /\ i <= last_id
    BY DEF BrowserInv, IsTable, Ids
  <2>4. QED
    BY <1>1, <1>2, <2>1, <2>2, <2>3 DEF BrowserInv, IsTable
<1>4. HighestVisitId(visits') >= HighestVisitId(visits)
  <2>1. /\ HighestVisitId(visits) \in Nat
        /\ HighestVisitId(visits) # 0 => HighestVisitId(visits) \in DOMAIN visits
    BY <1>1, HighestIsGreatest DEF BrowserInv, IsTable
  <2>2. HighestVisitId(visits') \in Nat /\ last_id' <= HighestVisitId(visits')
    BY <1>1, <1>2, <1>3, HighestIsGreatest DEF IsTable
  <2>3. HighestVisitId(visits) <= last_id
    BY <1>1, <2>1 DEF BrowserInv
  <2>4. QED
    BY <1>1, <2>1, <2>2, <2>3
<1>5. UNCHANGED <<info_cache, edits, files>>
  BY DEF Append
<1>6. Moved
  BY <1>1, <1>2, <1>4, <1>5 DEF Moved
<1>7. last_id' \in 0..IdBound
  BY <1>1
<1>8. QED
  BY <1>3, <1>5, <1>6, <1>7 DEF BrowserInv

(* Any step keeps the browser's table in order and moves it on. *)
LEMMA EveryStepMoves ==
  ASSUME BrowserInv, [Next]_vars
  PROVE  BrowserInv' /\ Moved
<1>1. /\ {IdBound, Edits} \subseteq Nat /\ {edits, files, last_id} \subseteq Nat
      /\ HighestVisitId(visits) \in Nat
  BY HistoryAssumption, HighestIsGreatest DEF BrowserInv, IsTable
<1>2. ASSUME UNCHANGED browser PROVE BrowserInv' /\ Moved
  BY <1>1, <1>2 DEF BrowserInv, Moved, browser
<1>3. ASSUME NEW i \in Ids, NEW content \in Contents, Rewrite(i, content)
      PROVE  BrowserInv' /\ Moved
  <2>1. /\ edits' = edits + 1 /\ edits < Edits /\ UNCHANGED <<info_cache, last_id, files>>
        /\ visits' = [visits EXCEPT ![i].content = content] /\ i \in DOMAIN visits
    BY <1>3 DEF Rewrite
  <2>2. /\ DOMAIN visits' = DOMAIN visits /\ \A j \in DOMAIN visits \ {i} : visits'[j] = visits[j]
        /\ visits'[i] = [visits[i] EXCEPT !.content = content] /\ visits[i] \in Visit
    BY <2>1 DEF BrowserInv, IsTable
  <2>3. visits'[i] \in Visit /\ visits'[i].url = visits[i].url
    BY <2>2 DEF Visit
  <2>4. IsTable(visits')
    BY <2>2, <2>3 DEF BrowserInv, IsTable
  <2>5. edits' \in 0..Edits /\ files' \in 1..(edits' + 1)
    BY <1>1, <2>1 DEF BrowserInv
  <2>6. QED
    BY <1>1, <2>1, <2>2, <2>3, <2>4, <2>5 DEF BrowserInv, Moved
<1>4. ASSUME NEW i \in Ids, Delete(i) PROVE BrowserInv' /\ Moved
  <2>1. /\ edits' = edits + 1 /\ edits < Edits /\ UNCHANGED <<info_cache, last_id, files>>
        /\ DOMAIN visits' = DOMAIN visits \ {i} /\ \A j \in DOMAIN visits' : visits'[j] = visits[j]
    BY <1>4 DEF Delete, Restrict
  <2>2. IsTable(visits') /\ \A j \in DOMAIN visits' : j <= last_id'
    BY <2>1 DEF BrowserInv, IsTable
  <2>3. edits' \in 0..Edits /\ files' \in 1..(edits' + 1)
    BY <1>1, <2>1 DEF BrowserInv
  <2>4. QED
    BY <1>1, <2>1, <2>2, <2>3 DEF BrowserInv, Moved
<1>5. ASSUME Recreate PROVE BrowserInv' /\ Moved
  <2>1. /\ edits' = edits + 1 /\ edits < Edits /\ UNCHANGED info_cache
        /\ files' = files + 1 /\ DOMAIN visits' = {} /\ last_id' = 0
    BY <1>5 DEF Recreate, EmptyTable
  <2>2. edits' \in 0..Edits /\ files' \in 1..(edits' + 1) /\ last_id' \in 0..IdBound /\ files' # 1
    BY <1>1, <2>1 DEF BrowserInv
  <2>3. IsTable(visits') /\ \A j \in DOMAIN visits' : j <= last_id'
    BY <2>1 DEF IsTable
  <2>4. QED
    BY <1>1, <2>1, <2>2, <2>3 DEF BrowserInv, Moved
<1>6. ASSUME NEW d \in Directories, NEW name \in Names, Rename(d, name)
      PROVE  BrowserInv' /\ Moved
  <2>1. /\ d = Min(Directories) /\ info_cache' = [info_cache EXCEPT ![d] = name]
        /\ UNCHANGED <<visits, last_id, files>>
        /\ edits' \in {edits, edits + 1} /\ edits' \in 0..Edits
    BY <1>1, <1>6 DEF Rename, BrowserInv
  <2>2. files' \in 1..(edits' + 1)
    <3>1. files' = files /\ files <= edits + 1 /\ files >= 1
      BY <2>1 DEF BrowserInv
    <3>2. edits' = edits \/ edits' = edits + 1
      BY <2>1
    <3>3. QED
      BY <1>1, <3>1, <3>2
  <2>3. /\ info_cache' \in [Directories -> Names]
        /\ \A c \in Directories : info_cache'[c] = Profile => c = Min(Directories)
    BY <2>1 DEF BrowserInv
  <2>4. HighestVisitId(visits') = HighestVisitId(visits)
    BY <2>1
  <2>5. Moved
    BY <1>1, <2>1, <2>4 DEF Moved
  <2>6. QED
    BY <2>1, <2>2, <2>3, <2>5 DEF BrowserInv
<1>6a. ASSUME Garble PROVE BrowserInv' /\ Moved
  <2>1. edits' = edits + 1 /\ edits < Edits /\ UNCHANGED <<info_cache, visits, last_id, files>>
    BY <1>6a DEF Garble
  <2>2. edits' \in 0..Edits /\ files' \in 1..(edits' + 1)
    BY <1>1, <2>1 DEF BrowserInv
  <2>3. HighestVisitId(visits') = HighestVisitId(visits)
    BY <2>1
  <2>4. QED
    BY <1>1, <2>1, <2>2, <2>3 DEF BrowserInv, Moved
<1>7. CASE Browse
  BY <1>3, <1>4, <1>5, <1>6, <1>7, AppendMoves DEF Browse
<1>8. CASE UNCHANGED browser
  BY <1>2, <1>8
<1>9. Browse \/ Garble \/ UNCHANGED browser
  BY DEF Next, vars, Browse, Launch, Start, CloneHistory, CollectFrom, PollSkipped, Send,
         Receive, Commit, RefuseEmission, Stop, Crash
<1>10. QED
  BY <1>6a, <1>7, <1>8, <1>9

(* What was paid for stays paid for. *)
LEMMA PaidStays ==
  ASSUME BrowserInv, BrowserInv', Moved, NEW g \in Nat, NEW n \in Nat, Paid(g, n)
  PROVE  Paid(g, n)'
<1>1. /\ HighestVisitId(visits) \in Nat /\ HighestVisitId(visits') \in Nat
      /\ edits \in Nat
  BY HistoryAssumption, HighestIsGreatest DEF BrowserInv, IsTable
<1>2. edits' = edits \/ edits' = edits + 1
  BY DEF Moved
<1>3. g <= edits' + 1
  BY <1>1, <1>2 DEF Paid
<1>4. HighestVisitId(visits') < n => g <= edits'
  <2>1. HighestVisitId(visits') >= HighestVisitId(visits) \/ edits' = edits + 1
    BY DEF Moved
  <2>2. QED
    BY <1>1, <1>2, <2>1 DEF Paid
<1>5. QED
  BY <1>3, <1>4 DEF Paid
-----------------------------------------------------------------------------
(* Every step keeps the invariant, part by part. *)

(* A step of the browser, or none. *)
Idle == UNCHANGED <<provider, writer, deaths>>

(* The steps by their actor. *)
LEMMA StepIs ==
  ASSUME [Next]_vars
  PROVE  \/ Idle \/ Garble \/ Launch \/ Start \/ CloneHistory \/ CollectFrom \/ PollSkipped
         \/ Send \/ Receive \/ Commit \/ RefuseEmission \/ Stop \/ Crash
BY DEF Next, vars, Idle, Append, Rewrite, Delete, Recreate, Rename

(* The provider's state stays in step with the row that is stored. *)
LEMMA SyncStep ==
  ASSUME SyncInv, [Next]_vars
  PROVE  SyncInv'
<1>1. CASE Idle
  BY <1>1 DEF SyncInv, Idle, provider, writer
<1>1a. CASE Garble
  BY <1>1a DEF SyncInv, Garble, provider
<1>2. CASE Launch
  BY <1>2 DEF SyncInv, Launch, writer
<1>3. CASE Start
  BY <1>3 DEF SyncInv, Start, writer
<1>4. CASE CloneHistory
  BY <1>4 DEF SyncInv, CloneHistory, writer
<1>5. CASE CollectFrom
  BY <1>5 DEF SyncInv, CollectFrom, writer
<1>6. CASE PollSkipped
  BY <1>6 DEF SyncInv, PollSkipped, writer
<1>7. CASE Send
  BY <1>7 DEF SyncInv, Send
<1>8. CASE Receive
  BY <1>8 DEF SyncInv, Receive
<1>9. CASE Commit
  BY <1>9 DEF SyncInv, Commit, provider
<1>10. CASE RefuseEmission
  BY <1>10 DEF SyncInv, RefuseEmission, provider
<1>11. CASE Stop
  <2>1. deaths' \in 0..Deaths
    BY <1>11, HistoryAssumption DEF SyncInv, Stop
  <2>2. QED
    BY <1>11, <2>1 DEF SyncInv, Stop, writer
<1>12. CASE Crash
  <2>1. deaths' \in 0..Deaths
    BY <1>12, HistoryAssumption DEF SyncInv, Crash
  <2>2. QED
    BY <1>12, <2>1 DEF SyncInv, Crash
<1>13. QED
  BY <1>1, <1>1a, <1>2, <1>3, <1>4, <1>5, <1>6, <1>7, <1>8, <1>9, <1>10, <1>11, <1>12, StepIs

(* An open emission is one the writer may commit, and its state is one. *)
LEMMA OpenState ==
  ASSUME OfferInv, Open
  PROVE  /\ outcome.state # NoState /\ IsState(outcome.state)
         /\ outcome.state.cursor \in 0..IdBound /\ outcome.state.generation \in Generations
         /\ outcome.generation = outcome.state.generation
<1>1. outcome.state \in HistoryState /\ IsState(outcome.state)
  BY DEF OfferInv, Follows
<1>2. outcome.generation = outcome.state.generation
  BY DEF OfferInv, Follows
<1>3. QED
  BY <1>1, <1>2, NoStateAssumption, StateIs

(* The row that is stored is a state, and is paid for. *)
LEMMA StoredStep ==
  ASSUME HistoryInv, [Next]_vars
  PROVE  StoredInv'
<1>1. BrowserInv /\ BrowserInv' /\ Moved
  BY EveryStepMoves DEF HistoryInv
<1>1a. IsState(state')
  <2>1. state' \in {state, stored, NoState}
    BY StepIs
       DEF Idle, Garble, Launch, Start, CloneHistory, CollectFrom, PollSkipped, Send, Receive, Commit,
           RefuseEmission, Stop, Crash, provider, HistoryInv, SyncInv
  <2>2. IsState(NoState)
    BY DEF IsState
  <2>3. QED
    BY <2>1, <2>2 DEF HistoryInv, StoredInv
<1>2. CASE UNCHANGED <<stored, since>>
  <2>1. IsState(stored') /\ since' \in (0 - RevisitWindow)..IdBound
    BY <1>2 DEF HistoryInv, StoredInv
  <2>2. ASSUME stored # NoState PROVE Paid(stored.generation, stored.cursor)'
    <3>1. stored.generation \in Nat /\ stored.cursor \in Nat
      BY <2>2, StateIs DEF HistoryInv, StoredInv, IsState, Generations
    <3>2. Paid(stored.generation, stored.cursor)
      BY <2>2 DEF HistoryInv, StoredInv
    <3> DEFINE g == stored.generation
               n == stored.cursor
    <3>3. g \in Nat /\ n \in Nat /\ Paid(g, n)
      BY <3>1, <3>2
    <3>4. \A a, b \in Nat : Paid(a, b) => Paid(a, b)'
      BY <1>1, PaidStays
    <3>5. QED
      BY <1>2, <3>3, <3>4 DEF Paid
  <2>3. QED
    BY <1>1a, <1>2, <2>1, <2>2 DEF StoredInv
<1>3. CASE Commit
  <2>1. Open /\ stored' = outcome.state /\ UNCHANGED <<visits, edits>>
    BY <1>3 DEF Commit, Open, browser
  <2>2. /\ IsState(outcome.state) /\ outcome.generation = outcome.state.generation
        /\ outcome.state.cursor \in 0..IdBound
    BY <2>1, OpenState DEF HistoryInv
  <2>3. Paid(outcome.generation, outcome.state.cursor)
    BY <2>1 DEF HistoryInv, OfferInv
  <2>4. Paid(stored.generation, stored.cursor)'
    BY <2>1, <2>2, <2>3 DEF Paid
  <2>5. since' \in (0 - RevisitWindow)..IdBound
    BY <1>3, <2>2, HistoryAssumption DEF Commit, HistoryInv, StoredInv
  <2>6. QED
    BY <1>1a, <2>1, <2>2, <2>4, <2>5 DEF StoredInv
<1>3a. CASE Garble
  <2>1. stored' = NoState /\ since' = since
    BY <1>3a DEF Garble
  <2>2. QED
    BY <1>1a, <2>1 DEF HistoryInv, StoredInv, IsState
<1>4. QED
  BY <1>2, <1>3, <1>3a, StepIs
     DEF Idle, Launch, Start, CloneHistory, CollectFrom, PollSkipped, Send, Receive,
         RefuseEmission, Stop, Crash, writer
(* The directory of the profile is the first one. *)
LEMMA FirstDirectory ==
  ASSUME BrowserInv, Resolves
  PROVE  HistoryOf(Directory) = visits
<1> DEFINE S == {d \in Directories : info_cache[d] = Profile}
<1>1. S \subseteq Nat /\ S # {}
  BY HistoryAssumption DEF Resolves
<1>2. \A d \in S : d = Min(Directories)
  BY DEF BrowserInv
<1>3. Min(S) \in S
  BY <1>1, MinIsLeast
<1>4. Directory = Min(Directories)
  BY <1>2, <1>3 DEF Directory
<1>5. QED
  BY <1>4 DEF HistoryOf

(* The state a poll begins with is paid for when the clone is made: a new  *)
(* generation is begun where the one before left room for it.              *)
LEMMA BegunIsPaid ==
  ASSUME BrowserInv, StoredInv
  PROVE  LET b == Begun(visits, stored)
         IN  Paid(b.generation, HighestVisitId(visits)) /\ b.generation \in Nat
<1> DEFINE b == Begun(visits, stored)
<1>1. HighestVisitId(visits) \in Nat /\ edits \in Nat /\ IsTable(visits) /\ IsState(stored)
  BY HistoryAssumption, HighestIsGreatest DEF BrowserInv, IsTable, StoredInv
<1>2. CASE stored = NoState
  BY <1>1, <1>2, BegunIs DEF Paid
<1>3. CASE stored # NoState
  <2>1. /\ stored.generation \in Nat /\ stored.cursor \in Nat
        /\ stored.generation <= edits + 1
        /\ HighestVisitId(visits) < stored.cursor => stored.generation <= edits
    BY <1>1, <1>3, StateIs DEF StoredInv, IsState, Generations, Paid
  <2>2. CASE HighestVisitId(visits) < stored.cursor
    <3>1. b.generation = stored.generation + 1
      BY <1>1, <1>3, <2>2, BegunIs
    <3>2. QED
      BY <1>1, <2>1, <2>2, <3>1 DEF Paid
  <2>3. CASE ~ (HighestVisitId(visits) < stored.cursor)
    <3>1. b.generation = stored.generation
      BY <1>1, <1>3, <2>3, BegunIs
    <3>2. QED
      BY <1>1, <2>1, <2>3, <3>1 DEF Paid
  <2>4. QED
    BY <2>2, <2>3
<1>4. QED
  BY <1>2, <1>3

(* The generation a clone leads to is one there may be. *)
LEMMA CloneGeneration ==
  ASSUME BrowserInv, CloneInv, IsState(state), pc = "cloned", OpenSnapshot
  PROVE  Begun(outcome.rows, state).generation \in Generations
<1>1. /\ IsTable(outcome.rows) /\ Begun(outcome.rows, state).generation <= edits + 1
      /\ edits \in 0..Edits /\ Edits \in Nat
  BY HistoryAssumption DEF CloneInv, Paid, BrowserInv
<1>2. /\ state = NoState => Begun(outcome.rows, state).generation = 1
      /\ state # NoState => Begun(outcome.rows, state).generation
                              \in {state.generation, state.generation + 1}
  <2>1. HighestVisitId(outcome.rows) < state.cursor \/ ~ (HighestVisitId(outcome.rows) < state.cursor)
    OBVIOUS
  <2>2. QED
    BY <1>1, <2>1, BegunIs
<1>3. state # NoState => state.generation \in Nat \ {0}
  BY StateIs DEF IsState, Generations
<1>4. Begun(outcome.rows, state).generation \in Nat \ {0}
  BY <1>2, <1>3
<1>5. QED
  BY <1>1, <1>4 DEF Generations

(* A clone that passes quick_check is the table of the moment it was made. *)
LEMMA CloneStep ==
  ASSUME HistoryInv, [Next]_vars
  PROVE  CloneInv'
<1>1. BrowserInv /\ BrowserInv' /\ Moved /\ SyncInv /\ StoredInv
  BY EveryStepMoves DEF HistoryInv
<1> SUFFICES ASSUME pc' = "cloned", OpenSnapshot'
             PROVE  /\ IsTable(outcome.rows)'
                    /\ Paid(Begun(outcome.rows, state).generation,
                            HighestVisitId(outcome.rows))'
                    /\ files' = 1 =>
                         /\ HighestVisitId(outcome.rows)' <= last_id'
                         /\ \A i \in DOMAIN visits' : i <= HighestVisitId(outcome.rows)' =>
                              i \in DOMAIN outcome'.rows /\ outcome'.rows[i].url = visits'[i].url
  BY DEF CloneInv
<1>2. CASE CloneHistory
  <2>1. outcome' = [rows |-> visits, torn |-> FALSE]
    <3>1. HistoryOf(Directory) = visits
      BY <1>1, <1>2, FirstDirectory DEF CloneHistory
    <3>2. \/ outcome' = [rows |-> visits, torn |-> FALSE]
          \/ \E i \in DOMAIN visits :
               outcome' = [rows |-> Restrict(visits, DOMAIN visits \ {i}), torn |-> TRUE]
      BY <1>2, <3>1 DEF CloneHistory
    <3>3. outcome'.torn # TRUE
      BY DEF OpenSnapshot
    <3>4. ASSUME NEW r, outcome' = [rows |-> r, torn |-> TRUE] PROVE FALSE
      BY <3>3, <3>4
    <3>5. QED
      BY <3>2, <3>4, Zenon
  <2>2. /\ outcome'.rows = visits /\ state' = stored
        /\ UNCHANGED <<visits, files, last_id, edits>>
    BY <1>1, <1>2, <2>1 DEF CloneHistory, SyncInv, browser
  <2>3. Paid(Begun(visits, stored).generation, HighestVisitId(visits))
    BY <1>1, BegunIsPaid
  <2>4. Paid(Begun(outcome.rows, state).generation, HighestVisitId(outcome.rows))'
    BY <2>2, <2>3 DEF Paid
  <2>5. HighestVisitId(visits) <= last_id /\ IsTable(visits)
    <3>1. /\ HighestVisitId(visits) \in Nat
          /\ HighestVisitId(visits) # 0 => HighestVisitId(visits) \in DOMAIN visits
      BY <1>1, HighestIsGreatest, HistoryAssumption DEF BrowserInv, IsTable
    <3>2. last_id \in Nat /\ \A i \in DOMAIN visits : i <= last_id
      BY <1>1, HistoryAssumption DEF BrowserInv
    <3>3. QED
      BY <1>1, <3>1, <3>2 DEF BrowserInv
  <2>6. QED
    BY <2>2, <2>4, <2>5
<1>3. CASE Idle
  <2>1. UNCHANGED <<pc, outcome, state>>
    BY <1>3 DEF Idle, provider
  <2> DEFINE rows == outcome.rows
             n == HighestVisitId(rows)
             g == Begun(rows, state).generation
  <2>2. /\ pc = "cloned" /\ OpenSnapshot
    BY <2>1 DEF OpenSnapshot
  <2>3. /\ IsTable(rows) /\ Paid(g, n)
        /\ files = 1 =>
             /\ n <= last_id
             /\ \A i \in DOMAIN visits : i <= n =>
                  i \in DOMAIN rows /\ rows[i].url = visits[i].url
    BY <2>2 DEF HistoryInv, CloneInv
  <2>4. n \in Nat
    BY <2>3, HighestIsGreatest, HistoryAssumption DEF IsTable
  <2>5. g \in Nat
    <3>1. IsState(state)
      BY <1>1, <2>2 DEF SyncInv, StoredInv
    <3>2. QED
      BY <1>1, <2>2, <3>1, CloneGeneration DEF Generations, HistoryInv
  <2>6. Paid(g, n)'
    <3>1. \A a, b \in Nat : Paid(a, b) => Paid(a, b)'
      BY <1>1, PaidStays
    <3> HIDE DEF g, n
    <3>2. g' = g /\ n' = n
      BY <2>1 DEF g, n
    <3>3. QED
      BY <2>3, <2>4, <2>5, <3>1, <3>2 DEF Paid
  <2>7. ASSUME files' = 1
        PROVE  /\ n <= last_id'
               /\ \A i \in DOMAIN visits' : i <= n =>
                    i \in DOMAIN rows /\ rows[i].url = visits'[i].url
    <3>1. /\ files = 1 /\ last_id <= last_id'
          /\ \A i \in DOMAIN visits' :
               i > last_id \/ (i \in DOMAIN visits /\ visits'[i].url = visits[i].url)
      BY <1>1, <2>7 DEF Moved
    <3>2. last_id \in Nat /\ last_id' \in Nat /\ \A i \in DOMAIN visits' : i \in Nat
      BY <1>1, HistoryAssumption DEF BrowserInv, IsTable, Ids
    <3> HIDE DEF n, rows
    <3>3. QED
      BY <2>3, <2>4, <3>1, <3>2
  <2>8. QED
    BY <2>1, <2>3, <2>6, <2>7
<1>4. pc # "cloned" => CloneHistory \/ Idle
  BY StepIs DEF Garble, Launch, Start, CollectFrom, PollSkipped, Send, Receive, Commit,
                RefuseEmission, Stop, Crash, provider
<1>5. pc = "cloned" => CloneHistory \/ Idle
  BY <1>1, StepIs DEF SyncInv, Garble, Launch, Start, CollectFrom, PollSkipped, Send, Receive, Commit,
                RefuseEmission, Stop, Crash, provider
<1>6. QED
  BY <1>2, <1>3, <1>4, <1>5
(* What an open emission has to be. *)
Offer ==
  /\ Follows(outcome, stored)
  /\ Paid(outcome.generation, outcome.state.cursor)
  /\ files = 1 =>
       /\ outcome.state.cursor <= last_id
       /\ \A i \in DOMAIN visits :
            Owed(outcome, stored, i) => i \in DOMAIN outcome.records

(* It stays so while the browser goes on: later visits lie above it.       *)
LEMMA OfferStays ==
  ASSUME HistoryInv, [Next]_vars, Open, UNCHANGED <<outcome, stored>>
  PROVE  Offer'
<1>1. BrowserInv /\ BrowserInv' /\ Moved /\ OfferInv
  BY EveryStepMoves DEF HistoryInv
<1>2. /\ outcome.state.cursor \in 0..IdBound /\ outcome.state.generation \in Generations
      /\ outcome.generation = outcome.state.generation
  BY <1>1, OpenState
<1>3. Offer
  BY <1>1 DEF OfferInv, Offer
<1>4. Follows(outcome, stored)'
  BY <1>3 DEF Offer, Follows
<1>5. Paid(outcome.generation, outcome.state.cursor)'
  <2>1. outcome.generation \in Nat /\ outcome.state.cursor \in Nat
    BY <1>2, HistoryAssumption DEF Generations
  <2>2. \A a, b \in Nat : Paid(a, b) => Paid(a, b)'
    BY <1>1, PaidStays
  <2>3. QED
    BY <1>3, <2>1, <2>2 DEF Offer, Paid
<1>6. ASSUME files' = 1
      PROVE  /\ outcome'.state.cursor <= last_id'
             /\ \A i \in DOMAIN visits' :
                  Owed(outcome, stored, i)' => i \in DOMAIN outcome'.records
  <2>1. /\ files = 1 /\ last_id <= last_id'
        /\ \A i \in DOMAIN visits' :
             i > last_id \/ (i \in DOMAIN visits /\ visits'[i].url = visits[i].url)
    BY <1>1, <1>6 DEF Moved
  <2>2. last_id \in Nat /\ last_id' \in Nat /\ \A i \in DOMAIN visits' : i \in Nat
    BY <1>1, HistoryAssumption DEF BrowserInv, IsTable, Ids
  <2>3. outcome.state.cursor \in Nat /\ outcome.state.cursor <= last_id
    BY <1>2, <1>3, <2>1, HistoryAssumption DEF Offer
  <2>4. ASSUME NEW i \in DOMAIN visits', Owed(outcome, stored, i)'
        PROVE  i \in DOMAIN outcome'.records
    <3>1. i <= outcome.state.cursor
      BY <2>4 DEF Owed
    <3>2. i \in DOMAIN visits /\ visits'[i].url = visits[i].url
      BY <2>1, <2>2, <2>3, <3>1
    <3>3. Owed(outcome, stored, i)
      BY <2>4, <3>2 DEF Owed
    <3>4. QED
      BY <1>3, <2>1, <3>2, <3>3 DEF Offer
  <2>5. QED
    BY <2>1, <2>2, <2>3, <2>4
<1>7. QED
  BY <1>4, <1>5, <1>6 DEF Offer

(* A poll that ends offers all that was owed when its clone was made. *)
LEMMA CollectOffers ==
  ASSUME HistoryInv, CollectFrom
  PROVE  Offer'
<1> DEFINE rows == outcome.rows
           b == Begun(rows, stored)
           o == Collect(rows, stored)
<1>1. /\ BrowserInv /\ SyncInv /\ StoredInv /\ CloneInv
      /\ UNCHANGED <<visits, last_id, edits, files, stored>>
  BY DEF HistoryInv, CollectFrom, browser, writer
<1>2. pc = "cloned" /\ OpenSnapshot /\ state = stored /\ outcome' = o
  BY <1>1 DEF CollectFrom, SyncInv
<1>3. /\ IsTable(rows) /\ Paid(b.generation, HighestVisitId(rows)) /\ IsState(stored)
      /\ files = 1 =>
           /\ HighestVisitId(rows) <= last_id
           /\ \A i \in DOMAIN visits : i <= HighestVisitId(rows) =>
                i \in DOMAIN rows /\ rows[i].url = visits[i].url
  BY <1>1, <1>2 DEF CloneInv, StoredInv
<1>4. b.generation \in Generations
  BY <1>1, <1>2, <1>3, CloneGeneration
<1>5. Follows(o, stored)
  BY <1>3, <1>4, CollectFollows
<1>6. /\ o.generation = b.generation /\ o.state.cursor \in 0..IdBound
      /\ o.state.cursor <= HighestVisitId(rows)
      /\ stored = NoState => o.state.cursor = HighestVisitId(rows)
  <2>1. /\ o.generation = b.generation /\ o.state.cursor \in 0..IdBound
        /\ o.state.cursor <= HighestVisitId(rows) /\ b.cursor <= o.state.cursor
    BY <1>3, CollectIs
  <2>2. stored = NoState => b.cursor = HighestVisitId(rows)
    BY <1>3, BegunIs
  <2>3. HighestVisitId(rows) \in 0..IdBound
    BY <1>3, HighestIsGreatest DEF IsTable
  <2>4. QED
    BY <2>1, <2>2, <2>3
<1>6a. HighestVisitId(rows) \in Nat /\ \A i \in DOMAIN visits : i \in Nat
  BY <1>1, <1>3, HighestIsGreatest DEF IsTable, BrowserInv, Ids
<1>7. ASSUME files = 1, NEW i \in DOMAIN visits, Owed(o, stored, i) PROVE i \in DOMAIN o.records
  <2>1. i \in DOMAIN rows /\ rows[i].url = "set"
    BY <1>3, <1>6, <1>6a, <1>7 DEF Owed
  <2>2. i > (IF stored = NoState THEN HighestVisitId(rows) - RevisitWindow ELSE stored.cursor)
    BY <1>6, <1>7 DEF Owed
  <2>3. QED
    BY <1>3, <2>1, <2>2, CollectSends
<1> HIDE DEF o, b, rows
<1>8. Follows(outcome, stored)'
  BY <1>1, <1>2, <1>5 DEF Follows
<1>9. Paid(outcome.generation, outcome.state.cursor)'
  <2>1. edits \in Nat /\ b.generation <= edits + 1
    BY <1>1, <1>3 DEF BrowserInv, Paid
  <2>2. HighestVisitId(visits) \in Nat
    BY <1>1, HighestIsGreatest DEF BrowserInv, IsTable
  <2>3. Paid(o.generation, o.state.cursor)
    BY <1>3, <1>6, <1>6a, <2>1, <2>2 DEF Paid
  <2>4. QED
    BY <1>1, <1>2, <2>3 DEF Paid
<1>10. files' = 1 =>
         /\ outcome'.state.cursor <= last_id'
         /\ \A i \in DOMAIN visits' :
              Owed(outcome, stored, i)' => i \in DOMAIN outcome'.records
  <2>1. last_id \in Nat
    BY <1>1 DEF BrowserInv
  <2>2. QED
    BY <1>1, <1>2, <1>3, <1>6, <1>6a, <1>7, <2>1 DEF Owed
<1>11. QED
  BY <1>8, <1>9, <1>10 DEF Offer

(* So it is for whatever is in the channel. *)
LEMMA OfferStep ==
  ASSUME HistoryInv, [Next]_vars
  PROVE  OfferInv'
<1>1. SyncInv /\ OfferInv
  BY DEF HistoryInv
<1>2. pc' = "await" => outcome'.state # NoState /\ IsState(outcome.state)'
  <2>1. ASSUME pc' = "await" PROVE UNCHANGED outcome /\ (pc = "await" \/ Open)
    BY <2>1, StepIs
       DEF Idle, Garble, Launch, Start, CloneHistory, CollectFrom, PollSkipped, Send, Receive, Commit,
           RefuseEmission, Stop, Crash, provider, Open
  <2>2. QED
    BY <1>1, <2>1, OpenState DEF OfferInv, IsState
<1>3. ASSUME Open' PROVE Offer'
  <2>1. CASE CollectFrom
    BY <2>1, CollectOffers
  <2>2. CASE Idle
    BY <1>3, <2>2, OfferStays DEF Idle, provider, writer, Open
  <2>3. CASE Send
    BY <1>3, <2>3, OfferStays DEF Send, Open
  <2>4. CASE Stop
    <3>1. inflight /\ UNCHANGED <<outcome, stored>>
      BY <1>3, <2>4 DEF Stop, Open, writer
    <3>2. QED
      BY <3>1, OfferStays DEF Open
  <2>5. CASE Garble \/ Launch \/ Start \/ CloneHistory \/ PollSkipped \/ Receive \/ Commit
             \/ RefuseEmission \/ Crash
    BY <1>1, <1>3, <2>5
       DEF SyncInv, Garble, Launch, Start, CloneHistory, PollSkipped, Receive, Commit, RefuseEmission,
           Crash, Open, provider, writer
  <2>6. QED
    BY <2>1, <2>2, <2>3, <2>4, <2>5, StepIs
<1>4. QED
  BY <1>2, <1>3 DEF OfferInv, Offer

(* With the first file, the stored cursor stays behind the browser. *)
LEMMA SkipStep ==
  ASSUME HistoryInv, [Next]_vars
  PROVE  SkipInv'
<1>1. BrowserInv /\ BrowserInv' /\ Moved /\ SkipInv /\ OfferInv
  BY EveryStepMoves DEF HistoryInv
<1> SUFFICES ASSUME stored' # NoState, files' = 1 PROVE stored'.cursor <= last_id'
  BY DEF SkipInv
<1>2. files = 1 /\ last_id <= last_id' /\ last_id \in Nat /\ last_id' \in Nat
  BY <1>1, HistoryAssumption DEF Moved, BrowserInv
<1>3. CASE Commit
  <2>1. Open /\ stored' = outcome.state
    BY <1>3 DEF Commit, Open
  <2>2. outcome.state.cursor \in Nat /\ outcome.state.cursor <= last_id
    BY <1>1, <1>2, <2>1, OpenState, HistoryAssumption DEF OfferInv
  <2>3. QED
    BY <1>2, <2>1, <2>2
<1>4. CASE UNCHANGED stored
  <2>1. stored.cursor \in Nat /\ stored.cursor <= last_id
    BY <1>1, <1>2, <1>4, StateIs, HistoryAssumption DEF SkipInv, HistoryInv, StoredInv, IsState
  <2>2. QED
    BY <1>2, <1>4, <2>1
<1>5. QED
  BY <1>3, <1>4, StepIs
     DEF Idle, Garble, Launch, Start, CloneHistory, CollectFrom, PollSkipped, Send, Receive,
         RefuseEmission, Stop, Crash, writer
(* At first there is nothing. *)
LEMMA HistoryInit ==
  ASSUME Init
  PROVE  HistoryInv /\ KeyInv
<1>1. Min(Directories) \in Directories /\ {IdBound, Edits, Deaths, RevisitWindow} \subseteq Nat
  BY MinIsLeast, HistoryAssumption
<1>2. info_cache \in [Directories -> Names]
  BY HistoryAssumption DEF Init
<1>3. \A d \in Directories : info_cache[d] = Profile => d = Min(Directories)
  <2>1. (CHOOSE n \in Names : n # Profile) # Profile
    BY HistoryAssumption
  <2>2. QED
    BY <2>1 DEF Init
<1>4. DOMAIN visits = {}
  BY DEF Init, EmptyTable
<1>5. BrowserInv
  <2>1. last_id \in 0..IdBound /\ edits \in 0..Edits /\ files \in 1..(edits + 1)
    BY <1>1 DEF Init
  <2>2. QED
    BY <1>2, <1>3, <1>4, <2>1 DEF BrowserInv, IsTable
<1>6. SyncInv
  <2>1. deaths \in 0..Deaths
    BY <1>1 DEF Init
  <2>2. QED
    BY <2>1 DEF Init, SyncInv
<1>7. StoredInv
  BY <1>1 DEF Init, StoredInv, IsState
<1>8. CloneInv /\ OfferInv /\ SkipInv
  BY DEF Init, CloneInv, OfferInv, SkipInv, Open
<1>9. KeyInv
  BY DEF Init, KeyInv
<1>10. QED
  BY <1>5, <1>6, <1>7, <1>8, <1>9 DEF HistoryInv

(* The invariant is inductive. *)
LEMMA HistoryStep ==
  ASSUME HistoryInv, [Next]_vars
  PROVE  HistoryInv'
<1>1. BrowserInv' /\ SyncInv'
  BY EveryStepMoves, SyncStep DEF HistoryInv
<1>2. QED
  BY <1>1, StoredStep, CloneStep, OfferStep, SkipStep DEF HistoryInv

(* The keys that are used, and what is known of them, after a commit. *)
LEMMA KeyStep ==
  ASSUME HistoryInv, KeyInv, [Next]_vars
  PROVE  /\ KeyInv'
         /\ stored' # NoState => \A k \in Keys : recorded[k] \subseteq recorded'[k]
<1>1. CASE UNCHANGED <<stored, recorded>>
  BY <1>1 DEF KeyInv
<1>2. CASE Commit
  <2>1. /\ Open /\ stored' = outcome.state
        /\ recorded' = [k \in Keys |->
             IF k[1] = outcome.generation /\ k[2] \in DOMAIN outcome.records
               THEN recorded[k] \cup {outcome.records[k[2]]} ELSE recorded[k]]
    BY <1>2 DEF Commit, Open
  <2>2. /\ outcome.state # NoState /\ outcome.generation = outcome.state.generation
        /\ outcome.state.cursor \in Nat /\ outcome.generation \in Nat
    BY <2>1, OpenState, HistoryAssumption DEF HistoryInv, Generations
  <2>3. Follows(outcome, stored)
    BY <2>1 DEF HistoryInv, OfferInv
  <2>4. stored # NoState => stored.cursor \in Nat /\ stored.generation \in Nat
    BY StateIs, HistoryAssumption DEF HistoryInv, StoredInv, IsState, Generations
  <2>5. RevisitWindow \in Nat /\ \A k \in Keys : k[1] \in Nat /\ k[2] \in Nat
    BY HistoryAssumption DEF Keys, Generations, Ids
  <2>6. ASSUME NEW k \in Keys, recorded'[k] # {}
        PROVE  /\ stored' # NoState /\ k[1] <= stored'.generation
               /\ k[1] = stored'.generation =>
                    /\ k[2] <= stored'.cursor
                    /\ k[2] > stored'.cursor - RevisitWindow => k[2] \in DOMAIN stored'.shipped
    <3>1. CASE k[1] = outcome.generation /\ k[2] \in DOMAIN outcome.records
      BY <2>1, <2>2, <2>3, <2>5, <3>1 DEF Follows
    <3>2. CASE ~ (k[1] = outcome.generation /\ k[2] \in DOMAIN outcome.records)
      <4>1. recorded[k] # {}
        BY <2>1, <2>6, <3>2
      <4>2. /\ stored # NoState /\ k[1] <= stored.generation
            /\ k[1] = stored.generation =>
                 /\ k[2] <= stored.cursor
                 /\ k[2] > stored.cursor - RevisitWindow => k[2] \in DOMAIN stored.shipped
        BY <4>1 DEF KeyInv
      <4>3. /\ outcome.generation \in {stored.generation, stored.generation + 1}
            /\ outcome.generation = stored.generation =>
                 /\ outcome.state.cursor >= stored.cursor
                 /\ \A i \in DOMAIN stored.shipped :
                      i > outcome.state.cursor - RevisitWindow => i \in DOMAIN outcome.state.shipped
        BY <2>3, <4>2 DEF Follows
      <4>4. k[1] <= outcome.generation
        BY <2>2, <2>4, <2>5, <4>2, <4>3
      <4>5. ASSUME k[1] = outcome.generation
            PROVE  /\ k[2] <= outcome.state.cursor
                   /\ k[2] > outcome.state.cursor - RevisitWindow
                        => k[2] \in DOMAIN outcome.state.shipped
        <5>1. outcome.generation = stored.generation
          BY <2>2, <2>4, <2>5, <4>2, <4>3, <4>5
        <5>2. QED
          BY <2>2, <2>4, <2>5, <4>2, <4>3, <4>5, <5>1
      <4>6. QED
        BY <2>1, <2>2, <4>4, <4>5
    <3>3. QED
      BY <3>1, <3>2
  <2>7. DOMAIN recorded' = Keys /\ \A k \in Keys : recorded[k] \subseteq recorded'[k]
    BY <2>1
  <2>8. QED
    BY <2>6, <2>7 DEF KeyInv
<1>2a. CASE Garble
  BY <1>2a DEF Garble, KeyInv
<1>3. QED
  BY <1>1, <1>2, <1>2a, StepIs
     DEF Idle, Launch, Start, CloneHistory, CollectFrom, PollSkipped, Send, Receive,
         RefuseEmission, Stop, Crash, writer
-----------------------------------------------------------------------------
(***************************************************************************)
(* Every variable of the provider, the browser and the record writer has   *)
(* its type: what run reads back from the buffer is a state with digests   *)
(* of at most one window, and generations are bounded by the edits.        *)
(***************************************************************************)
THEOREM TypesHold == Spec => []TypeOK
<1>1. Init => HistoryInv
  BY HistoryInit
<1>2. HistoryInv /\ [Next]_vars => HistoryInv'
  BY HistoryStep
<1>3. HistoryInv => TypeOK
  <2> SUFFICES ASSUME HistoryInv PROVE TypeOK
    OBVIOUS
  <2>1. /\ BrowserInv /\ SyncInv /\ StoredInv /\ OfferInv
        /\ {IdBound, Edits} \subseteq Nat
    BY HistoryAssumption DEF HistoryInv
  <2>2. /\ info_cache \in [Directories -> Names]
        /\ DOMAIN visits \subseteq 1..last_id /\ \A i \in DOMAIN visits : visits[i] \in Visit
        /\ last_id \in 0..IdBound /\ edits \in 0..Edits /\ files \in 1..(Edits + 1)
    <3>1. DOMAIN visits \subseteq 1..last_id
      BY <2>1 DEF BrowserInv, IsTable, Ids
    <3>2. files \in 1..(Edits + 1)
      BY <2>1 DEF BrowserInv
    <3>3. QED
      BY <2>1, <3>1, <3>2 DEF BrowserInv, IsTable
  <2>3. IsState(stored) /\ since \in (0 - RevisitWindow)..IdBound
    BY <2>1 DEF StoredInv
  <2>4. pc \in {"send", "await"} \/ inflight => IsState(outcome.state)
    BY <2>1, OpenState DEF OfferInv, Open
  <2>5. IsState(state)
    BY <2>1 DEF StoredInv
  <2>6. QED
    BY <2>1, <2>2, <2>3, <2>4, <2>5 DEF TypeOK, SyncInv
<1>4. QED
  BY <1>1, <1>2, <1>3, PTL DEF Spec

(***************************************************************************)
(* The unredacted copy of the history is on disk only while a poll reads   *)
(* it, or while the daemon is down after a crash.                          *)
(***************************************************************************)
THEOREM CloneOnlyInPollAlways == Spec => []CloneOnlyInPoll
<1>1. Init => CloneOnlyInPoll
  BY DEF Init, CloneOnlyInPoll
<1>2. CloneOnlyInPoll /\ [Next]_vars => CloneOnlyInPoll'
  <2> SUFFICES ASSUME CloneOnlyInPoll, [Next]_vars PROVE CloneOnlyInPoll'
    OBVIOUS
  <2>1. QED
    BY StepIs
       DEF CloneOnlyInPoll, Idle, Garble, Launch, Start, CloneHistory, CollectFrom, PollSkipped, Send,
           Receive, Commit, RefuseEmission, Stop, Crash, provider
<1>3. QED
  BY <1>1, <1>2, PTL DEF Spec

(* A commit records what was owed between the old cursor and the new. *)
LEMMA NoVisitSkippedStep ==
  ASSUME HistoryInv, KeyInv, NoVisitSkipped, [Next]_vars
  PROVE  NoVisitSkipped'
<1>1. BrowserInv /\ BrowserInv' /\ Moved /\ SkipInv /\ StoredInv /\ OfferInv
  BY EveryStepMoves DEF HistoryInv
<1>2. stored' # NoState => \A k \in Keys : recorded[k] \subseteq recorded'[k]
  BY KeyStep
<1> SUFFICES ASSUME stored' # NoState, files' = 1, NEW i \in DOMAIN visits',
                    i > since', i <= stored'.cursor, visits'[i].url = "set"
             PROVE  VisitRecorded(i)'
  BY DEF NoVisitSkipped
<1>3. /\ files = 1 /\ last_id \in Nat /\ RevisitWindow \in Nat
      /\ i > last_id \/ (i \in DOMAIN visits /\ visits'[i].url = visits[i].url)
      /\ i \in Nat /\ i \in Ids
  <2>1. files = 1 /\ (i > last_id \/ (i \in DOMAIN visits /\ visits'[i].url = visits[i].url))
    BY <1>1 DEF Moved
  <2>2. i \in Ids /\ last_id \in 0..IdBound
    BY <1>1 DEF BrowserInv, IsTable
  <2>3. last_id \in Nat /\ RevisitWindow \in Nat /\ i \in Nat
    BY <2>2, HistoryAssumption DEF Ids
  <2>4. QED
    BY <2>1, <2>2, <2>3, Zenon
<1>4. VisitRecorded(i) => VisitRecorded(i)'
  <2>1. \A g \in Generations : <<g, i>> \in Keys
    BY <1>3 DEF Keys
  <2>2. QED
    BY <1>2, <2>1 DEF VisitRecorded
<1>5. CASE UNCHANGED <<stored, since>>
  <2>1. stored.cursor \in Nat /\ stored.cursor <= last_id
    BY <1>1, <1>3, <1>5, StateIs, HistoryAssumption DEF SkipInv, StoredInv, IsState
  <2>2. i \in DOMAIN visits /\ visits[i].url = "set"
    <3>1. ~ (i > last_id)
      BY <1>3, <1>5, <2>1
    <3>2. QED
      BY <1>3, <3>1, Zenon
  <2>3. VisitRecorded(i)
    BY <1>3, <1>5, <2>2 DEF NoVisitSkipped
  <2>4. QED
    BY <1>4, <2>3
<1>6. CASE Commit
  <2>1. /\ Open /\ stored' = outcome.state /\ visits' = visits
        /\ recorded' = [k \in Keys |->
             IF k[1] = outcome.generation /\ k[2] \in DOMAIN outcome.records
               THEN recorded[k] \cup {outcome.records[k[2]]} ELSE recorded[k]]
        /\ since' = IF stored = NoState THEN outcome.state.cursor - RevisitWindow ELSE since
    BY <1>6 DEF Commit, Open, browser
  <2>2. outcome.generation \in Generations
    BY <1>1, <2>1, OpenState
  <2>3. CASE Owed(outcome, stored, i)
    <3>1. i \in DOMAIN outcome.records
      BY <1>1, <1>3, <2>1, <2>3 DEF OfferInv
    <3>2. <<outcome.generation, i>> \in Keys
      BY <1>3, <2>2 DEF Keys
    <3>3. recorded'[<<outcome.generation, i>>] # {}
      BY <2>1, <3>1, <3>2
    <3>4. QED
      BY <2>2, <3>3 DEF VisitRecorded
  <2>4. CASE ~ Owed(outcome, stored, i)
    <3>1. stored # NoState /\ ~ (i > stored.cursor) /\ since' = since
      BY <2>1, <2>4 DEF Owed
    <3>2. stored.cursor \in Nat
      BY <1>1, <3>1, StateIs, HistoryAssumption DEF StoredInv, IsState
    <3>3. i <= stored.cursor /\ i > since
      BY <1>3, <3>1, <3>2
    <3>4. VisitRecorded(i)
      BY <1>3, <2>1, <3>1, <3>3 DEF NoVisitSkipped
    <3>5. QED
      BY <1>4, <3>4
  <2>5. QED
    BY <2>3, <2>4
<1>7. QED
  BY <1>5, <1>6, StepIs
     DEF Idle, Garble, Launch, Start, CloneHistory, CollectFrom, PollSkipped, Send, Receive,
         RefuseEmission, Stop, Crash, writer

(***************************************************************************)
(* The stored cursor never passes a visit that was not recorded, however   *)
(* polls, commits, refusals, stops, crashes and torn clones interleave     *)
(* with a browser that appends, rewrites and deletes, and whatever the     *)
(* page limit and the window are.                                          *)
(***************************************************************************)
THEOREM NoVisitSkippedAlways == Spec => []NoVisitSkipped
<1>1. Init => HistoryInv /\ KeyInv /\ NoVisitSkipped
  BY HistoryInit DEF Init, NoVisitSkipped
<1>2. HistoryInv /\ KeyInv /\ NoVisitSkipped /\ [Next]_vars
        => HistoryInv' /\ KeyInv' /\ NoVisitSkipped'
  BY HistoryStep, KeyStep, NoVisitSkippedStep
<1>3. QED
  BY <1>1, <1>2, PTL DEF Spec

(***************************************************************************)
(* A visit is sent again under its key only when its digest differs from   *)
(* the one the stored state has for it, and the state has one: the window  *)
(* in which rows are read again never outgrows the digests kept of it.     *)
(***************************************************************************)
THEOREM OnlyRevisionsAlways == Spec => OnlyRevisions
<1>1. Init => HistoryInv /\ KeyInv
  BY HistoryInit
<1>2. HistoryInv /\ KeyInv /\ [Next]_vars => HistoryInv' /\ KeyInv'
  BY HistoryStep, KeyStep
<1> DEFINE Sent(k) ==
      /\ stored # NoState /\ stored' \notin {stored, NoState} /\ recorded[k] # {}
      /\ k[1] = outcome.generation /\ k[2] \in DOMAIN outcome.records
      => LET before == stored.shipped
         IN  k[2] \in DOMAIN before /\ before[k[2]] # Digest(outcome.records[k[2]])
<1>3. HistoryInv /\ KeyInv /\ [Next]_vars => [\A k \in Keys : Sent(k)]_vars
  <2> SUFFICES ASSUME HistoryInv, KeyInv, [Next]_vars, NEW k \in Keys,
                      stored # NoState, stored' \notin {stored, NoState}, recorded[k] # {},
                      k[1] = outcome.generation, k[2] \in DOMAIN outcome.records
               PROVE  /\ k[2] \in DOMAIN stored.shipped
                      /\ stored.shipped[k[2]] # Digest(outcome.records[k[2]])
    OBVIOUS
  <2>1. Commit
    BY StepIs
       DEF Idle, Garble, Launch, Start, CloneHistory, CollectFrom, PollSkipped, Send, Receive,
           RefuseEmission, Stop, Crash, writer
  <2>2. Open /\ Follows(outcome, stored)
    BY <2>1 DEF Commit, Open, HistoryInv, OfferInv
  <2>3. stored.generation \in Nat /\ k[1] <= stored.generation
    BY StateIs, HistoryAssumption
       DEF KeyInv, HistoryInv, StoredInv, IsState, Generations
  <2>4. outcome.generation = stored.generation
    <3>1. outcome.generation \in {stored.generation, stored.generation + 1}
      BY <2>2 DEF Follows
    <3>2. QED
      BY <2>3, <3>1
  <2>5. /\ k[2] > stored.cursor - RevisitWindow
        /\ k[2] \in DOMAIN stored.shipped
             => stored.shipped[k[2]] # Digest(outcome.records[k[2]])
    BY <2>2, <2>4 DEF Follows
  <2>6. k[2] \in DOMAIN stored.shipped
    BY <2>4, <2>5 DEF KeyInv
  <2>7. QED
    BY <2>5, <2>6
<1>4. QED
  BY <1>1, <1>2, <1>3, PTL DEF Spec, OnlyRevisions
=============================================================================
