-------------------------- MODULE TranscriptProofs --------------------------
(***************************************************************************)
(* Theorems about the reading of a transcript, for all lines that may be   *)
(* written, all budgets and caps, and however often the file is copied     *)
(* anew, cut or replaced and the provider stopped, killed or refused.      *)
(***************************************************************************)
EXTENDS Transcript, FiniteSetTheorems, SequenceTheorems, WellFoundedInduction, TLAPS

-----------------------------------------------------------------------------
(* The inductive invariant. *)

(* What decides whether a cursor belongs to the file at the path. *)
Path == [identity |-> identity, inode |-> inode, session |-> session,
         cut |-> cut, whole |-> whole, times |-> times]

(* Every byte lies in its line: the bytes before it are those of the line, *)
(* and before them a line ends.                                            *)
InLines(bytes) ==
  \A i \in 1..Len(bytes) :
    /\ bytes[i][3] \in 1..i /\ bytes[i][3] <= Fields[bytes[i][2]].len
    /\ \A q \in 1..bytes[i][3] : bytes[i - bytes[i][3] + q] = <<bytes[i][1], bytes[i][2], q>>
    /\ bytes[i][3] < i => IsNewline(bytes[i - bytes[i][3]])

IsBytes(bytes) == bytes \in Seq(Nat \X Lines \X Nat)

(* The first bytes of a file. *)
Prefix(bytes, more) ==
  IsBytes(bytes) /\ Len(bytes) <= Len(more) /\ \A i \in 1..Len(bytes) : bytes[i] = more[i]

IsPath(p) ==
  /\ p.identity \in {"inode", "head"} /\ p.inode \in Nat /\ p.session \in Nat
  /\ p.cut \in BOOLEAN /\ (p.cut => p.identity = "inode")
  /\ IsBytes(p.whole) /\ Len(p.whole) <= MaxBytes
  /\ \A i \in 1..Len(p.whole) : p.whole[i][1] = p.session
  /\ ~ p.cut => /\ InLines(p.whole)
                /\ Len(p.whole) > 0 => IsNewline(p.whole[Len(p.whole)])

(* The cursor c was made for the file at the path, and not for one that    *)
(* was there before.                                                       *)
Mine(p, c) ==
  IF p.identity = "inode" THEN c.inode = p.inode /\ ~ p.cut
  ELSE c.head[1][1] = p.session

IsCursor(p, c) ==
  /\ c = [inode |-> c.inode, offset |-> c.offset, last_ts |-> c.last_ts,
          version |-> c.version, head |-> c.head, skipping |-> c.skipping]
  /\ c.inode \in Nat /\ c.inode <= p.inode
  /\ p.identity = "head" => /\ c.head # None
                            /\ c.head[1][1] \in Nat /\ c.head[1][1] <= p.session

(* A position that a read in one go would have come through: after a line, *)
(* or inside one that exceeds the cap, with the instant of the last        *)
(* message before it.                                                      *)
Sound(p, c) ==
  /\ c.offset \in 0..Len(p.whole) /\ c.skipping \in BOOLEAN
  /\ c.skipping => /\ p.identity = "head" /\ c.offset >= 1
                   /\ ~ IsNewline(p.whole[c.offset]) /\ p.whole[c.offset][3] >= MaxLine
  /\ ~ c.skipping => c.offset = 0 \/ IsNewline(p.whole[c.offset])
  /\ c.last_ts = LastTs(p.identity, LinesIn(p.whole, c.offset), c.offset + 1)

(* What lies before c is in done, if c is about the file at the path. *)
Good(p, done, c) ==
  /\ IsCursor(p, c)
  /\ Mine(p, c) => /\ Sound(p, c)
                   /\ Covered(p.identity, Expected(p.identity, p.whole, c.offset), p.times, done)

FileInv == IsPath(Path) /\ length \in 0..Len(whole)

CursorInv ==
  /\ stored # None => /\ stored.version \in {0, CursorVersion}
                      /\ stored.version = CursorVersion => Good(Path, recorded, stored)
  /\ known # <<>> => /\ known = <<known[1]>>
                     /\ known[1] # None => Good(Path, recorded, known[1])
  /\ pc = "stat" /\ cursor # None => Good(Path, recorded, cursor)
  /\ pc \in {"open", "read", "send", "await"} => Good(Path, recorded, start)

(* The open file is what is at the path, or was a prefix of it. *)
HeldInv ==
  /\ pc \notin {"read", "send"} => held = None
  /\ held # None /\ Mine(Path, start) =>
       Prefix(held, whole)

IncrementInv ==
  /\ pc \in {"idle", "stat", "open", "read", "send", "await"}
  /\ pc \in {"read", "send", "await"} =>
       /\ increment = [offset |-> increment.offset, last_ts |-> increment.last_ts,
                       skipping |-> increment.skipping, drafts |-> increment.drafts,
                       count |-> increment.count, text |-> increment.text]
       /\ Good(Path, recorded \cup increment.drafts, Advanced)
  /\ inflight => pc = "await" /\ receipt = "pending"
  /\ pc = "await" /\ receipt = "committed" => increment.drafts \subseteq recorded

ReadInv == FileInv /\ CursorInv /\ HeldInv /\ IncrementInv

(* The mtime the read began with is one the file at the path has had. *)
MtimeInv ==
  /\ length > 0 => modified \in times
  /\ pc \in {"open", "read"} /\ Mine(Path, start) => file_modified \in times

(* An emission is with the record writer, or none is. *)
FlightInv == inflight \in BOOLEAN
-----------------------------------------------------------------------------
(* Least elements. *)

(* The order of positions is contained in a well-founded relation. *)
LEMMA PositionsWellFounded ==
  \E R : IsWellFoundedOn(R, Nat) /\ \A x, y \in Nat : x < y => <<x, y>> \in R
<1>1. \A x, y \in Nat : x < y => <<x, y>> \in OpToRel(<, Nat)
  BY DEF OpToRel
<1>2. QED
  BY <1>1, NatLessThanWellFounded, Zenon

(* A nonempty set of positions has a minimal one by such a relation. *)
LEMMA MinimalPosition ==
  ASSUME NEW R, IsWellFoundedOn(R, Nat), NEW S, S \subseteq Nat, S # {}
  PROVE  \E x \in S : \A y \in S : ~ (<<y, x>> \in R)
BY WFMin

(* A nonempty set of positions has a least one, and that is Min's. *)
LEMMA MinIsLeast ==
  ASSUME NEW S, S \subseteq Nat, S # {}
  PROVE  Min(S) \in S /\ \A n \in S : Min(S) <= n
<1>1. PICK R : IsWellFoundedOn(R, Nat) /\ \A x, y \in Nat : x < y => <<x, y>> \in R
  BY PositionsWellFounded
<1>2. IsWellFoundedOn(R, Nat)
  BY <1>1
<1>3. PICK m \in S : \A y \in S : ~ (<<y, m>> \in R)
  BY <1>2, MinimalPosition, Zenon
<1>4. \A n \in S : ~ (n < m)
  BY <1>1, <1>3
<1>5. \A n \in S : m <= n
  BY <1>4
<1>6. QED
  BY <1>5 DEF Min

(* A greatest element is Max's. *)
LEMMA MaxIs ==
  ASSUME NEW S, S \subseteq Nat, NEW m \in S, \A n \in S : n <= m
  PROVE  Max(S) = m
<1>1. \A n \in S : m >= n
  OBVIOUS
<1>2. Max(S) \in S /\ Max(S) >= m
  BY <1>1 DEF Max
<1>3. m \in Nat /\ Max(S) \in Nat /\ Max(S) <= m
  BY <1>2
<1>4. QED
  BY <1>2, <1>3

(* A nonempty set of positions up to n has a greatest one. *)
LEMMA GreatestPosition ==
  ASSUME NEW n \in Nat, NEW S, S \subseteq 1..n, S # {}
  PROVE  \E m \in S : \A k \in S : k <= m
<1> DEFINE B == {b \in 1..n : \A k \in S : k <= b}
<1>0. n \in 1..n /\ \A k \in S : k \in Nat /\ k <= n
  <2>1. PICK k \in S : k \in 1..n
    OBVIOUS
  <2>2. QED
    BY <2>1
<1>1. S \subseteq Nat /\ B \subseteq Nat /\ n \in B
  BY <1>0
<1>2. PICK m \in B : \A b \in B : m <= b
  <2> HIDE DEF B
  <2>1. B \subseteq Nat /\ B # {}
    BY <1>1
  <2>2. Min(B) \in B /\ \A b \in B : Min(B) <= b
    BY <2>1, MinIsLeast
  <2>3. QED
    BY <2>2
<1>3. m \in 1..n /\ \A k \in S : k <= m
  BY <1>2
<1>4. m \in S
  <2>1. SUFFICES ASSUME m \notin S PROVE FALSE
    OBVIOUS
  <2>2. \A k \in S : k <= m - 1
    BY <1>3, <2>1
  <2>3. PICK k \in S : k \in 1..n
    OBVIOUS
  <2>4. m - 1 \in 1..n
    BY <1>3, <2>2, <2>3
  <2>5. m - 1 \in B
    BY <2>2, <2>4
  <2>6. QED
    BY <1>2, <1>3, <2>5
<1>5. QED
  BY <1>3, <1>4
-----------------------------------------------------------------------------
(* Lines and positions. *)

(* The fields of a byte. *)
LEMMA ByteAt ==
  ASSUME NEW bytes, IsBytes(bytes), NEW i \in 1..Len(bytes)
  PROVE  /\ bytes[i] = <<bytes[i][1], bytes[i][2], bytes[i][3]>>
         /\ bytes[i][1] \in Nat /\ bytes[i][2] \in Lines /\ bytes[i][3] \in Nat
         /\ Fields[bytes[i][2]].len \in Nat \ {0}
<1>1. bytes[i] \in Nat \X Lines \X Nat
  BY ElementOfSeq DEF IsBytes
<1>2. PICK a \in Nat, b \in Lines, c \in Nat : bytes[i] = <<a, b, c>>
  BY <1>1
<1>3. Fields[b].len \in Nat \ {0}
  BY TranscriptAssumption DEF Lines
<1>4. bytes[i][1] = a /\ bytes[i][2] = b /\ bytes[i][3] = c
  BY <1>2
<1>5. QED
  BY <1>2, <1>3, <1>4

(* The end of the line before the one byte m belongs to. *)
LEMMA LineAround ==
  ASSUME NEW bytes, IsBytes(bytes), InLines(bytes), NEW m \in 1..Len(bytes)
  PROVE  \E s \in 0..(m - 1) :
           /\ bytes[m][3] = m - s /\ m - s <= Fields[bytes[m][2]].len
           /\ \A j \in (s + 1)..m : bytes[j] = <<bytes[m][1], bytes[m][2], j - s>>
           /\ s = 0 \/ IsNewline(bytes[s])
<1>1. Len(bytes) \in Nat /\ m \in Nat /\ m >= 1
  BY LenProperties DEF IsBytes
<1>2. /\ bytes[m][3] \in 1..m /\ bytes[m][3] <= Fields[bytes[m][2]].len
      /\ \A q \in 1..bytes[m][3] : bytes[m - bytes[m][3] + q] = <<bytes[m][1], bytes[m][2], q>>
      /\ bytes[m][3] < m => IsNewline(bytes[m - bytes[m][3]])
  BY <1>1 DEF InLines
<1>3. PICK k \in 1..m : k = bytes[m][3]
  BY <1>2
<1>4. PICK s \in 0..(m - 1) : s = m - k /\ k = m - s
  BY <1>1
<1>5. \A q \in 1..k : bytes[s + q] = <<bytes[m][1], bytes[m][2], q>>
  BY <1>2, <1>3, <1>4
<1>6. \A j \in (s + 1)..m : j - s \in 1..k /\ s + (j - s) = j
  BY <1>1, <1>4
<1>7. \A j \in (s + 1)..m : bytes[j] = <<bytes[m][1], bytes[m][2], j - s>>
  <2>1. TAKE j \in (s + 1)..m
  <2>2. bytes[s + (j - s)] = <<bytes[m][1], bytes[m][2], j - s>>
    BY <1>5, <1>6
  <2>3. QED
    BY <1>6, <2>2
<1>8. s = 0 \/ IsNewline(bytes[s])
  <2>1. s = 0 \/ k < m
    BY <1>1, <1>4
  <2>2. k < m => IsNewline(bytes[m - k])
    BY <1>2, <1>3
  <2>3. QED
    BY <1>4, <2>1, <2>2
<1>9. bytes[m][3] = m - s /\ m - s <= Fields[bytes[m][2]].len
  BY <1>2, <1>3, <1>4
<1>10. QED
  BY <1>7, <1>8, <1>9

(* A newline with none between it and the end of a line ends a line whose  *)
(* bytes are all those in between.                                         *)
LEMMA NextLine ==
  ASSUME NEW bytes, IsBytes(bytes), InLines(bytes), NEW n \in 0..Len(bytes),
         n = 0 \/ IsNewline(bytes[n]), NEW m \in (n + 1)..Len(bytes),
         IsNewline(bytes[m]), \A i \in (n + 1)..(m - 1) : ~ IsNewline(bytes[i])
  PROVE  /\ Fields[bytes[m][2]].len = m - n
         /\ \A j \in (n + 1)..m : bytes[j] = <<bytes[m][1], bytes[m][2], j - n>>
<1>1. Len(bytes) \in Nat /\ n \in Nat /\ m \in Nat /\ m \in 1..Len(bytes) /\ n < m
  BY LenProperties DEF IsBytes
<1>2. PICK s \in 0..(m - 1) :
           /\ bytes[m][3] = m - s
           /\ \A j \in (s + 1)..m : bytes[j] = <<bytes[m][1], bytes[m][2], j - s>>
           /\ s = 0 \/ IsNewline(bytes[s])
  BY <1>1, LineAround
<1>3. Fields[bytes[m][2]].len = m - s
  BY <1>2 DEF IsNewline
<1>4. ~ (n < s)
  <2>1. SUFFICES ASSUME n < s PROVE FALSE
    OBVIOUS
  <2>2. s \in (n + 1)..(m - 1) /\ s # 0
    BY <1>1, <2>1
  <2>3. QED
    BY <1>2, <2>2
<1>5. ~ (s < n)
  <2>1. SUFFICES ASSUME s < n PROVE FALSE
    OBVIOUS
  <2>2. n \in (s + 1)..m /\ n # 0
    BY <1>1, <2>1
  <2>3. bytes[n] = <<bytes[m][1], bytes[m][2], n - s>>
    BY <1>2, <2>2
  <2>4. n - s = m - s
    BY <1>3, <2>2, <2>3 DEF IsNewline
  <2>5. QED
    BY <1>1, <2>4
<1>6. s = n
  BY <1>1, <1>4, <1>5
<1>7. QED
  BY <1>2, <1>3, <1>6

(* A newline with none between it and a byte inside a line ends that line. *)
LEMMA SkippedLine ==
  ASSUME NEW bytes, IsBytes(bytes), InLines(bytes), NEW n \in 1..Len(bytes),
         ~ IsNewline(bytes[n]), NEW m \in (n + 1)..Len(bytes),
         \A i \in (n + 1)..(m - 1) : ~ IsNewline(bytes[i])
  PROVE  /\ bytes[m][3] > bytes[n][3]
         /\ bytes[m][3] <= Fields[bytes[m][2]].len
<1>1. Len(bytes) \in Nat /\ n \in Nat /\ m \in Nat /\ m \in 1..Len(bytes) /\ n < m
  BY LenProperties DEF IsBytes
<1>2. PICK s \in 0..(m - 1) :
           /\ bytes[m][3] = m - s /\ m - s <= Fields[bytes[m][2]].len
           /\ \A j \in (s + 1)..m : bytes[j] = <<bytes[m][1], bytes[m][2], j - s>>
           /\ s = 0 \/ IsNewline(bytes[s])
  BY <1>1, LineAround
<1>3. ~ (n <= s)
  <2>1. SUFFICES ASSUME n <= s PROVE FALSE
    OBVIOUS
  <2>2. (s = n \/ s \in (n + 1)..(m - 1)) /\ s # 0
    BY <1>1, <2>1
  <2>3. QED
    BY <1>2, <2>2
<1>4. n \in (s + 1)..m
  BY <1>1, <1>3
<1>5. bytes[n] = <<bytes[m][1], bytes[m][2], n - s>>
  BY <1>2, <1>4
<1>6. bytes[n][3] = n - s
  BY <1>5
<1>7. QED
  BY <1>1, <1>2, <1>6

(* A byte with no newline between it and the end of a line is as deep in   *)
(* its line as it is behind that end.                                      *)
LEMMA InsideLine ==
  ASSUME NEW bytes, IsBytes(bytes), InLines(bytes), NEW n \in 0..Len(bytes),
         n = 0 \/ IsNewline(bytes[n]), NEW m \in (n + 1)..Len(bytes),
         \A i \in (n + 1)..m : ~ IsNewline(bytes[i])
  PROVE  bytes[m][3] = m - n
<1>1. Len(bytes) \in Nat /\ n \in Nat /\ m \in Nat /\ m \in 1..Len(bytes) /\ n < m
  BY LenProperties DEF IsBytes
<1>2. PICK s \in 0..(m - 1) :
           /\ bytes[m][3] = m - s /\ m - s <= Fields[bytes[m][2]].len
           /\ \A j \in (s + 1)..m : bytes[j] = <<bytes[m][1], bytes[m][2], j - s>>
           /\ s = 0 \/ IsNewline(bytes[s])
  BY <1>1, LineAround
<1>3. ~ (n < s)
  <2>1. SUFFICES ASSUME n < s PROVE FALSE
    OBVIOUS
  <2>2. s \in (n + 1)..m /\ s # 0
    BY <1>1, <2>1
  <2>3. QED
    BY <1>2, <2>2
<1>4. ~ (s < n)
  <2>1. SUFFICES ASSUME s < n PROVE FALSE
    OBVIOUS
  <2>2. n \in (s + 1)..m /\ n # 0
    BY <1>1, <2>1
  <2>3. bytes[n] = <<bytes[m][1], bytes[m][2], n - s>>
    BY <1>2, <2>2
  <2>4. Fields[bytes[m][2]].len = n - s
    BY <2>2, <2>3 DEF IsNewline
  <2>5. QED
    BY <1>1, <1>2, <2>4
<1>5. s = n
  BY <1>1, <1>3, <1>4
<1>6. QED
  BY <1>2, <1>5
-----------------------------------------------------------------------------
(* What a read in one go yields. *)

(* The messages before i that count. *)
Stamps(source, lines, i) ==
  {j \in DOMAIN lines : j < i /\ MessageTs(lines[j]) # None /\ Fits(source, lines[j])}

LEMMA LastTsBy ==
  ASSUME NEW source, NEW lines, NEW more, NEW i, NEW j, NEW n \in Nat,
         Stamps(source, lines, i) = Stamps(source, more, j),
         Stamps(source, lines, i) \subseteq 1..n,
         \A k \in Stamps(source, lines, i) : lines[k] = more[k]
  PROVE  LastTs(source, lines, i) = LastTs(source, more, j)
<1>1. CASE Stamps(source, lines, i) = {}
  BY <1>1 DEF LastTs, Stamps
<1>2. CASE Stamps(source, lines, i) # {}
  <2>1. PICK m \in Stamps(source, lines, i) : \A k \in Stamps(source, lines, i) : k <= m
    BY <1>2, GreatestPosition
  <2>2. Max(Stamps(source, lines, i)) = m
    BY <2>1, MaxIs
  <2>3. QED
    BY <1>2, <2>2 DEF LastTs, Stamps
<1>3. QED
  BY <1>1, <1>2

(* Only the bytes before n count. *)
LEMMA LinesAgree ==
  ASSUME NEW bytes, NEW more, NEW n \in Nat, \A i \in 1..n : bytes[i] = more[i]
  PROVE  LinesIn(bytes, n) = LinesIn(more, n)
<1>1. {i \in 1..n : IsNewline(bytes[i])} = {i \in 1..n : IsNewline(more[i])}
  BY DEF IsNewline
<1>2. \A i \in {i \in 1..n : IsNewline(bytes[i])} : LineOf(bytes[i]) = LineOf(more[i])
  OBVIOUS
<1>3. QED
  BY <1>1, <1>2 DEF LinesIn

LEMMA LinesDomain ==
  ASSUME NEW bytes, NEW n \in Nat
  PROVE  /\ DOMAIN LinesIn(bytes, n) = {i \in 1..n : IsNewline(bytes[i])}
         /\ \A i \in DOMAIN LinesIn(bytes, n) : LinesIn(bytes, n)[i] = LineOf(bytes[i])
         /\ DOMAIN LinesIn(bytes, n) \subseteq 1..n
BY DEF LinesIn

(* Bytes that end no line add nothing. *)
LEMMA NoMore ==
  ASSUME NEW bytes, NEW n \in Nat, NEW m \in Nat, n <= m,
         \A i \in (n + 1)..m : ~ IsNewline(bytes[i])
  PROVE  LinesIn(bytes, m) = LinesIn(bytes, n)
<1>1. \A i \in 1..m : i \in 1..n \/ i \in (n + 1)..m
  OBVIOUS
<1>2. {i \in 1..m : IsNewline(bytes[i])} = {i \in 1..n : IsNewline(bytes[i])}
  BY <1>1
<1>3. QED
  BY <1>2 DEF LinesIn

(* A line more: the lines before it are as they were. *)
LEMMA LinesGrow ==
  ASSUME NEW bytes, NEW n \in Nat, NEW m \in Nat, n < m, IsNewline(bytes[m]),
         \A i \in (n + 1)..(m - 1) : ~ IsNewline(bytes[i])
  PROVE  /\ DOMAIN LinesIn(bytes, m) = DOMAIN LinesIn(bytes, n) \cup {m}
         /\ \A i \in DOMAIN LinesIn(bytes, n) : LinesIn(bytes, m)[i] = LinesIn(bytes, n)[i]
         /\ LinesIn(bytes, m)[m] = LineOf(bytes[m])
<1>1. \A i \in 1..m : i \in 1..n \/ i \in (n + 1)..(m - 1) \/ i = m
  OBVIOUS
<1>2. 1..n \subseteq 1..m /\ m \in 1..m
  OBVIOUS
<1>3. {i \in 1..m : IsNewline(bytes[i])} = {i \in 1..n : IsNewline(bytes[i])} \cup {m}
  BY <1>1, <1>2
<1>4. QED
  BY <1>3 DEF LinesIn

(* The instant a line m more is given. *)
LEMMA StampBefore ==
  ASSUME NEW source, NEW bytes, NEW n \in Nat, NEW m \in Nat, n < m, IsNewline(bytes[m]),
         \A i \in (n + 1)..(m - 1) : ~ IsNewline(bytes[i])
  PROVE  /\ \A i \in DOMAIN LinesIn(bytes, n) :
              LastTs(source, LinesIn(bytes, m), i) = LastTs(source, LinesIn(bytes, n), i)
         /\ LastTs(source, LinesIn(bytes, m), m) = LastTs(source, LinesIn(bytes, n), n + 1)
<1> DEFINE old == LinesIn(bytes, n)
           new == LinesIn(bytes, m)
<1>0. DOMAIN old \subseteq 1..n
  BY LinesDomain
<1>1. /\ DOMAIN new = DOMAIN old \cup {m} /\ DOMAIN old \subseteq 1..n
      /\ \A i \in DOMAIN old : new[i] = old[i]
  BY <1>0, LinesGrow
<1> HIDE DEF old, new
<1>2. \A i \in DOMAIN old : i \in Nat /\ i < m /\ i < n + 1
  BY <1>1
<1>3. ASSUME NEW i \in DOMAIN old
      PROVE  LastTs(source, new, i) = LastTs(source, old, i)
  <2>1. Stamps(source, new, i) = Stamps(source, old, i)
    BY <1>1, <1>2 DEF Stamps
  <2>2. Stamps(source, new, i) \subseteq 1..n /\ Stamps(source, new, i) \subseteq DOMAIN old
    BY <1>1, <2>1 DEF Stamps
  <2>3. QED
    BY <1>1, <2>1, <2>2, LastTsBy
<1>4. LastTs(source, new, m) = LastTs(source, old, n + 1)
  <2>1. Stamps(source, new, m) = Stamps(source, old, n + 1)
    BY <1>1, <1>2 DEF Stamps
  <2>2. Stamps(source, new, m) \subseteq 1..n /\ Stamps(source, new, m) \subseteq DOMAIN old
    BY <1>1, <2>1 DEF Stamps
  <2>3. QED
    BY <1>1, <2>1, <2>2, LastTsBy
<1>5. QED
  BY <1>3, <1>4 DEF old, new

(* The instant after a line m more. *)
LEMMA StampAfter ==
  ASSUME NEW source, NEW bytes, NEW n \in Nat, NEW m \in Nat, n < m, IsNewline(bytes[m]),
         \A i \in (n + 1)..(m - 1) : ~ IsNewline(bytes[i])
  PROVE  LastTs(source, LinesIn(bytes, m), m + 1) =
           IF MessageTs(LineOf(bytes[m])) # None /\ Fits(source, LineOf(bytes[m]))
             THEN MessageTs(LineOf(bytes[m]))
           ELSE LastTs(source, LinesIn(bytes, n), n + 1)
<1>0. /\ DOMAIN LinesIn(bytes, m) = DOMAIN LinesIn(bytes, n) \cup {m}
      /\ \A i \in DOMAIN LinesIn(bytes, n) : LinesIn(bytes, m)[i] = LinesIn(bytes, n)[i]
      /\ LinesIn(bytes, m)[m] = LineOf(bytes[m])
  BY LinesGrow
<1> DEFINE old == LinesIn(bytes, n)
           new == LinesIn(bytes, m)
<1>1. /\ DOMAIN new = DOMAIN old \cup {m} /\ DOMAIN old \subseteq 1..n
      /\ \A i \in DOMAIN old : new[i] = old[i]
      /\ new[m] = LineOf(bytes[m])
  BY <1>0, LinesDomain
<1> HIDE DEF old, new
<1>2. \A i \in DOMAIN old : i \in Nat /\ i < m + 1 /\ i < n + 1 /\ i <= m
  BY <1>1
<1>3. CASE MessageTs(LineOf(bytes[m])) # None /\ Fits(source, LineOf(bytes[m]))
  <2>1. m \in Stamps(source, new, m + 1)
    BY <1>1, <1>3 DEF Stamps
  <2>2. Stamps(source, new, m + 1) \subseteq Nat /\ \A k \in Stamps(source, new, m + 1) : k <= m
    BY <1>1, <1>2 DEF Stamps
  <2>3. Max(Stamps(source, new, m + 1)) = m
    BY <2>1, <2>2, MaxIs
  <2>4. LastTs(source, new, m + 1) = MessageTs(new[m])
    BY <2>1, <2>3 DEF LastTs, Stamps
  <2>5. QED
    BY <1>1, <1>3, <2>4 DEF new
<1>4. CASE ~ (MessageTs(LineOf(bytes[m])) # None /\ Fits(source, LineOf(bytes[m])))
  <2>1. Stamps(source, new, m + 1) = Stamps(source, old, n + 1)
    BY <1>1, <1>2, <1>4 DEF Stamps
  <2>2. Stamps(source, new, m + 1) \subseteq 1..n /\ Stamps(source, new, m + 1) \subseteq DOMAIN old
    BY <1>1, <2>1 DEF Stamps
  <2>3. LastTs(source, new, m + 1) = LastTs(source, old, n + 1)
    BY <1>1, <2>1, <2>2, LastTsBy
  <2>4. QED
    BY <1>4, <2>3 DEF old, new
<1>5. QED
  BY <1>3, <1>4

(* A line that is skipped leaves it. *)
LEMMA StampSkipped ==
  ASSUME NEW source, NEW bytes, NEW n \in Nat, NEW m \in Nat, n < m, IsNewline(bytes[m]),
         \A i \in (n + 1)..(m - 1) : ~ IsNewline(bytes[i]), ~ Fits(source, LineOf(bytes[m]))
  PROVE  LastTs(source, LinesIn(bytes, m), m + 1) = LastTs(source, LinesIn(bytes, n), n + 1)
BY StampAfter

(* Without a line more the instant stays, too. *)
LEMMA StampStays ==
  ASSUME NEW source, NEW bytes, NEW n \in Nat, NEW m \in Nat, n <= m,
         \A i \in (n + 1)..m : ~ IsNewline(bytes[i])
  PROVE  LastTs(source, LinesIn(bytes, m), m + 1) = LastTs(source, LinesIn(bytes, n), n + 1)
<1> DEFINE old == LinesIn(bytes, n)
<1>1. LinesIn(bytes, m) = old /\ DOMAIN old \subseteq 1..n
  BY NoMore, LinesDomain
<1> HIDE DEF old
<1>2. \A i \in DOMAIN old : i \in Nat /\ i < m + 1 /\ i < n + 1
  BY <1>1
<1>3. Stamps(source, old, m + 1) = Stamps(source, old, n + 1)
  BY <1>2 DEF Stamps
<1>4. Stamps(source, old, m + 1) \subseteq 1..n
  BY <1>1 DEF Stamps
<1>5. QED
  BY <1>1, <1>3, <1>4, LastTsBy DEF old

(* What a line m more adds. *)
LEMMA OneMore ==
  ASSUME NEW source, NEW bytes, NEW n \in Nat, NEW m \in Nat, n < m, IsNewline(bytes[m]),
         \A i \in (n + 1)..(m - 1) : ~ IsNewline(bytes[i]),
         NEW d \in Expected(source, bytes, m)
  PROVE  \/ d \in Expected(source, bytes, n)
         \/ /\ Fits(source, LineOf(bytes[m]))
            /\ d = <<LineOf(bytes[m]), LastTs(source, LinesIn(bytes, n), n + 1)>>
<1> DEFINE old == LinesIn(bytes, n)
           new == LinesIn(bytes, m)
<1>1. PICK i \in DOMAIN new : Fits(source, new[i]) /\ d = <<new[i], LastTs(source, new, i)>>
  BY DEF Expected
<1>2. /\ DOMAIN new = DOMAIN old \cup {m}
      /\ \A j \in DOMAIN old : new[j] = old[j]
      /\ new[m] = LineOf(bytes[m])
  BY LinesGrow
<1>3. /\ \A j \in DOMAIN old : LastTs(source, new, j) = LastTs(source, old, j)
      /\ LastTs(source, new, m) = LastTs(source, old, n + 1)
  BY StampBefore
<1>4. CASE i = m
  BY <1>1, <1>2, <1>3, <1>4
<1>5. CASE i \in DOMAIN old
  <2>1. Fits(source, old[i]) /\ d = <<old[i], LastTs(source, old, i)>>
    BY <1>1, <1>2, <1>3, <1>5
  <2>2. QED
    BY <1>5, <2>1 DEF Expected
<1>6. QED
  BY <1>1, <1>2, <1>4, <1>5
-----------------------------------------------------------------------------
(* The steps of a read, from one sound position to the next. *)

LEMMA PathBytes ==
  ASSUME NEW p, IsPath(p)
  PROVE  IsBytes(p.whole) /\ Len(p.whole) \in Nat /\ MaxLine \in Nat \ {0} /\ MaxBytes \in Nat
BY LenProperties, TranscriptAssumption DEF IsPath, IsBytes

LEMMA SoundAfter ==
  ASSUME NEW p, NEW d, d.offset \in 0..Len(p.whole), d.skipping = FALSE,
         d.offset = 0 \/ IsNewline(p.whole[d.offset]),
         d.last_ts = LastTs(p.identity, LinesIn(p.whole, d.offset), d.offset + 1)
  PROVE  Sound(p, d)
BY Zenon DEF Sound

LEMMA SoundInside ==
  ASSUME NEW p, NEW d, d.offset \in 0..Len(p.whole), d.skipping = TRUE,
         p.identity = "head", d.offset >= 1, ~ IsNewline(p.whole[d.offset]),
         p.whole[d.offset][3] >= MaxLine,
         d.last_ts = LastTs(p.identity, LinesIn(p.whole, d.offset), d.offset + 1)
  PROVE  Sound(p, d)
BY Zenon DEF Sound

(* A sound position after a line. *)
LEMMA SoundReading ==
  ASSUME NEW p, IsPath(p), ~ p.cut, NEW c, Sound(p, c), ~ c.skipping
  PROVE  /\ IsBytes(p.whole) /\ Len(p.whole) \in Nat /\ InLines(p.whole)
         /\ MaxLine \in Nat \ {0}
         /\ c.offset \in 0..Len(p.whole) /\ (c.offset = 0 \/ IsNewline(p.whole[c.offset]))
         /\ c.last_ts = LastTs(p.identity, LinesIn(p.whole, c.offset), c.offset + 1)
<1>1. IsBytes(p.whole) /\ Len(p.whole) \in Nat /\ MaxLine \in Nat \ {0}
  BY PathBytes
<1>2. InLines(p.whole)
  BY DEF IsPath
<1>3. /\ c.offset \in 0..Len(p.whole) /\ (c.offset = 0 \/ IsNewline(p.whole[c.offset]))
      /\ c.last_ts = LastTs(p.identity, LinesIn(p.whole, c.offset), c.offset + 1)
  BY Zenon DEF Sound
<1>4. QED
  BY <1>1, <1>2, <1>3

(* A sound position inside a line. *)
LEMMA SoundSkipping ==
  ASSUME NEW p, IsPath(p), ~ p.cut, NEW c, Sound(p, c), c.skipping
  PROVE  /\ IsBytes(p.whole) /\ Len(p.whole) \in Nat /\ InLines(p.whole)
         /\ MaxLine \in Nat \ {0} /\ p.identity = "head"
         /\ c.offset \in 0..Len(p.whole) /\ c.offset >= 1
         /\ ~ IsNewline(p.whole[c.offset]) /\ p.whole[c.offset][3] >= MaxLine
         /\ c.last_ts = LastTs(p.identity, LinesIn(p.whole, c.offset), c.offset + 1)
<1>1. IsBytes(p.whole) /\ Len(p.whole) \in Nat /\ MaxLine \in Nat \ {0}
  BY PathBytes
<1>2. InLines(p.whole)
  BY DEF IsPath
<1>3. /\ p.identity = "head" /\ c.offset \in 0..Len(p.whole) /\ c.offset >= 1
      /\ ~ IsNewline(p.whole[c.offset]) /\ p.whole[c.offset][3] >= MaxLine
      /\ c.last_ts = LastTs(p.identity, LinesIn(p.whole, c.offset), c.offset + 1)
  BY Zenon DEF Sound
<1>4. QED
  BY <1>1, <1>2, <1>3

(* A whole line that does not exceed the cap. *)
LEMMA ReadOn ==
  ASSUME NEW p, IsPath(p), ~ p.cut, NEW c, Sound(p, c), ~ c.skipping,
         NEW m \in (c.offset + 1)..Len(p.whole), IsNewline(p.whole[m]),
         \A i \in (c.offset + 1)..(m - 1) : ~ IsNewline(p.whole[i]),
         p.identity = "head" => m - c.offset <= MaxLine,
         NEW d, d.offset = m, d.skipping = FALSE,
         d.last_ts = IF MessageTs(LineOf(p.whole[m])) = None THEN c.last_ts
                     ELSE MessageTs(LineOf(p.whole[m]))
  PROVE  /\ Sound(p, d)
         /\ Expected(p.identity, p.whole, m) \subseteq
              Expected(p.identity, p.whole, c.offset) \cup {<<LineOf(p.whole[m]), c.last_ts>>}
<1> DEFINE n == c.offset
<1>1. /\ IsBytes(p.whole) /\ Len(p.whole) \in Nat /\ InLines(p.whole)
      /\ n \in 0..Len(p.whole) /\ (n = 0 \/ IsNewline(p.whole[n]))
      /\ c.last_ts = LastTs(p.identity, LinesIn(p.whole, n), n + 1)
  BY SoundReading
<1> HIDE DEF n
<1>2. n \in Nat /\ m \in Nat /\ n < m /\ m \in (n + 1)..Len(p.whole) /\ m \in 0..Len(p.whole)
  BY <1>1 DEF n
<1>3. \A i \in (n + 1)..(m - 1) : ~ IsNewline(p.whole[i])
  BY DEF n
<1>4. Fields[p.whole[m][2]].len = m - n
  BY <1>1, <1>2, <1>3, NextLine
<1>5. Fits(p.identity, LineOf(p.whole[m]))
  <2>1. p.identity = "head" => m - n <= MaxLine
    BY DEF n
  <2>2. QED
    BY <1>4, <2>1 DEF Fits, LineOf
<1>6. LastTs(p.identity, LinesIn(p.whole, m), m + 1) = d.last_ts
  BY <1>1, <1>2, <1>3, <1>5, StampAfter
<1>7. Sound(p, d)
  BY <1>2, <1>6 DEF Sound
<1>8. ASSUME NEW x \in Expected(p.identity, p.whole, m)
      PROVE  x \in Expected(p.identity, p.whole, n) \cup {<<LineOf(p.whole[m]), c.last_ts>>}
  BY <1>1, <1>2, <1>3, <1>8, OneMore
<1>9. QED
  BY <1>7, <1>8 DEF n

(* The end of a line that exceeds the cap. *)
LEMMA SkippedEnd ==
  ASSUME NEW bytes, IsBytes(bytes), InLines(bytes), NEW n \in 1..Len(bytes),
         ~ IsNewline(bytes[n]), bytes[n][3] >= MaxLine,
         NEW m \in (n + 1)..Len(bytes), IsNewline(bytes[m]),
         \A i \in (n + 1)..(m - 1) : ~ IsNewline(bytes[i])
  PROVE  /\ LastTs("head", LinesIn(bytes, m), m + 1) = LastTs("head", LinesIn(bytes, n), n + 1)
         /\ Expected("head", bytes, m) \subseteq Expected("head", bytes, n)
<1>1. /\ Len(bytes) \in Nat /\ MaxLine \in Nat /\ n \in Nat /\ m \in Nat /\ n < m
      /\ m \in 1..Len(bytes)
  BY LenProperties, TranscriptAssumption DEF IsBytes
<1>2. PICK x, y, z : x = bytes[n][3] /\ y = bytes[m][3] /\ z = Fields[bytes[m][2]].len
  OBVIOUS
<1>3. y > x /\ y <= z
  BY <1>2, SkippedLine
<1>4. x \in Nat /\ y \in Nat /\ z \in Nat
  BY <1>1, <1>2, ByteAt
<1>5. ~ (z <= MaxLine)
  <2>1. x >= MaxLine
    BY <1>2
  <2>2. QED
    BY <1>1, <1>3, <1>4, <2>1
<1>6. LineOf(bytes[m]).len = z
  BY <1>2 DEF LineOf
<1>7. ~ Fits("head", LineOf(bytes[m]))
  BY <1>5, <1>6 DEF Fits
<1>8. LastTs("head", LinesIn(bytes, m), m + 1) = LastTs("head", LinesIn(bytes, n), n + 1)
  BY <1>1, <1>7, StampSkipped, SMTT(40)
<1>9. ASSUME NEW e \in Expected("head", bytes, m) PROVE e \in Expected("head", bytes, n)
  BY <1>1, <1>7, <1>9, OneMore
<1>10. QED
  BY <1>8, <1>9

LEMMA SkipToEnd ==
  ASSUME NEW p, IsPath(p), ~ p.cut, NEW c, Sound(p, c), c.skipping,
         NEW m \in (c.offset + 1)..Len(p.whole), IsNewline(p.whole[m]),
         \A i \in (c.offset + 1)..(m - 1) : ~ IsNewline(p.whole[i]),
         NEW d, d.offset = m, d.skipping = FALSE, d.last_ts = c.last_ts
  PROVE  /\ Sound(p, d)
         /\ Expected(p.identity, p.whole, m) \subseteq Expected(p.identity, p.whole, c.offset)
<1>1. PICK n, bytes : n = c.offset /\ bytes = p.whole
  OBVIOUS
<1>2. /\ IsBytes(bytes) /\ Len(bytes) \in Nat /\ InLines(bytes)
      /\ n \in 0..Len(bytes) /\ n >= 1 /\ ~ IsNewline(bytes[n])
      /\ p.identity = "head" /\ bytes[n][3] >= MaxLine
      /\ c.last_ts = LastTs(p.identity, LinesIn(bytes, n), n + 1)
  BY <1>1, SoundSkipping
<1>3. n \in 1..Len(bytes) /\ m \in (n + 1)..Len(bytes) /\ m \in 0..Len(bytes)
  BY <1>1, <1>2
<1>4. /\ LastTs("head", LinesIn(bytes, m), m + 1) = LastTs("head", LinesIn(bytes, n), n + 1)
      /\ Expected("head", bytes, m) \subseteq Expected("head", bytes, n)
  BY <1>1, <1>2, <1>3, SkippedEnd, SMTT(40)
<1>5. Sound(p, d)
  BY <1>1, <1>2, <1>3, <1>4, SoundAfter
<1>6. QED
  BY <1>1, <1>2, <1>4, <1>5

(* More of such a line, without its end. *)
LEMMA SkipMore ==
  ASSUME NEW p, IsPath(p), ~ p.cut, NEW c, Sound(p, c), c.skipping,
         NEW m \in c.offset..Len(p.whole),
         \A i \in (c.offset + 1)..m : ~ IsNewline(p.whole[i]),
         NEW d, d.offset = m, d.skipping = TRUE, d.last_ts = c.last_ts
  PROVE  /\ Sound(p, d)
         /\ Expected(p.identity, p.whole, m) = Expected(p.identity, p.whole, c.offset)
<1> DEFINE n == c.offset
<1>1. /\ IsBytes(p.whole) /\ Len(p.whole) \in Nat /\ InLines(p.whole)
      /\ n \in 0..Len(p.whole) /\ n >= 1 /\ ~ IsNewline(p.whole[n])
      /\ p.identity = "head" /\ p.whole[n][3] >= MaxLine /\ MaxLine \in Nat
      /\ c.last_ts = LastTs(p.identity, LinesIn(p.whole, n), n + 1)
  BY SoundSkipping
<1> HIDE DEF n
<1>2. n \in Nat /\ m \in Nat /\ n <= m /\ m \in 1..Len(p.whole) /\ n \in 1..Len(p.whole)
  BY <1>1 DEF n
<1>3. \A i \in (n + 1)..m : ~ IsNewline(p.whole[i])
  BY DEF n
<1>4. p.whole[m][3] \in Nat /\ p.whole[n][3] \in Nat
  BY <1>1, <1>2, ByteAt
<1>5. ~ IsNewline(p.whole[m]) /\ p.whole[m][3] >= MaxLine
  <2>1. CASE m = n
    BY <1>1, <2>1
  <2>2. CASE m > n
    <3>1. m \in (n + 1)..Len(p.whole) /\ m \in (n + 1)..m
      BY <1>1, <1>2, <2>2
    <3>2. \A i \in (n + 1)..(m - 1) : ~ IsNewline(p.whole[i])
      BY <1>2, <1>3
    <3>3. p.whole[m][3] > p.whole[n][3]
      BY <1>1, <1>2, <3>1, <3>2, SkippedLine
    <3>4. QED
      BY <1>1, <1>3, <1>4, <3>1, <3>3
  <2>3. QED
    BY <1>2, <2>1, <2>2
<1>6. LastTs(p.identity, LinesIn(p.whole, m), m + 1) = d.last_ts
  <2>1. LastTs(p.identity, LinesIn(p.whole, m), m + 1)
           = LastTs(p.identity, LinesIn(p.whole, n), n + 1)
    BY <1>2, <1>3, StampStays
  <2>2. QED
    BY <1>1, <2>1
<1>7. Sound(p, d)
  <2>1. m \in 0..Len(p.whole) /\ m >= 1
    BY <1>2
  <2>2. QED
    BY <1>1, <1>5, <1>6, <2>1, SoundInside
<1>8. LinesIn(p.whole, m) = LinesIn(p.whole, n)
  BY <1>2, <1>3, NoMore
<1>9. QED
  BY <1>7, <1>8 DEF Expected, n

(* The first bytes of such a line. *)
LEMMA BeginSkip ==
  ASSUME NEW p, IsPath(p), ~ p.cut, NEW c, Sound(p, c), ~ c.skipping,
         p.identity = "head", c.offset + MaxLine <= Len(p.whole),
         \A i \in (c.offset + 1)..(c.offset + MaxLine) : ~ IsNewline(p.whole[i]),
         NEW d, d.offset = c.offset + MaxLine, d.skipping = TRUE, d.last_ts = c.last_ts
  PROVE  /\ Sound(p, d)
         /\ Expected(p.identity, p.whole, d.offset) = Expected(p.identity, p.whole, c.offset)
<1> DEFINE n == c.offset
           m == n + MaxLine
<1>1. /\ IsBytes(p.whole) /\ Len(p.whole) \in Nat /\ InLines(p.whole) /\ MaxLine \in Nat \ {0}
      /\ n \in 0..Len(p.whole) /\ (n = 0 \/ IsNewline(p.whole[n]))
      /\ c.last_ts = LastTs(p.identity, LinesIn(p.whole, n), n + 1)
  BY SoundReading
<1> HIDE DEF n
<1>2. /\ n \in Nat /\ m \in Nat /\ n < m /\ n <= m /\ m \in (n + 1)..Len(p.whole) /\ m \in (n + 1)..m
      /\ m \in 0..Len(p.whole) /\ m >= 1 /\ m - n = MaxLine
  BY <1>1 DEF n
<1>3. \A i \in (n + 1)..m : ~ IsNewline(p.whole[i])
  BY DEF n
<1>4. d.offset = m
  BY DEF n
<1> HIDE DEF m
<1>5. p.whole[m][3] = m - n
  BY <1>1, <1>2, <1>3, InsideLine
<1>6. LastTs(p.identity, LinesIn(p.whole, m), m + 1) = d.last_ts
  <2>1. LastTs(p.identity, LinesIn(p.whole, m), m + 1)
           = LastTs(p.identity, LinesIn(p.whole, n), n + 1)
    BY <1>2, <1>3, StampStays
  <2>2. QED
    BY <1>1, <2>1
<1>7. Sound(p, d)
  <2>1. ~ IsNewline(p.whole[m]) /\ p.whole[m][3] >= MaxLine
    BY <1>1, <1>2, <1>3, <1>5
  <2>2. QED
    BY <1>2, <1>4, <1>6, <2>1, SoundInside
<1>8. LinesIn(p.whole, m) = LinesIn(p.whole, n)
  BY <1>2, <1>3, NoMore
<1>9. QED
  BY <1>4, <1>7, <1>8 DEF Expected, n
-----------------------------------------------------------------------------
(* What is read of the open file. *)

LEMMA SliceIs ==
  ASSUME NEW s, IsBytes(s), NEW a \in Nat \ {0}, NEW b \in 0..Len(s)
  PROVE  /\ IsBytes(SubSeq(s, a, b))
         /\ Len(SubSeq(s, a, b)) = IF a <= b THEN b - a + 1 ELSE 0
         /\ \A i \in 1..Len(SubSeq(s, a, b)) : SubSeq(s, a, b)[i] = s[a + i - 1]
<1>1. Len(s) \in Nat /\ \A i \in 1..Len(s) : s[i] \in Nat \X Lines \X Nat
  BY LenProperties, ElementOfSeq DEF IsBytes
<1>2. a \in Int /\ b \in Int /\ \A i \in a..b : s[i] \in Nat \X Lines \X Nat
  BY <1>1
<1>3. /\ SubSeq(s, a, b) \in Seq(Nat \X Lines \X Nat)
      /\ Len(SubSeq(s, a, b)) = IF a <= b THEN b - a + 1 ELSE 0
      /\ \A i \in 1..(b - a + 1) : SubSeq(s, a, b)[i] = s[a + i - 1]
  BY <1>2, SubSeqProperties
<1>4. \A i \in 1..Len(SubSeq(s, a, b)) : i \in 1..(b - a + 1)
  BY <1>1, <1>3
<1>5. QED
  BY <1>3, <1>4 DEF IsBytes

LEMMA PrefixIs ==
  ASSUME NEW s, IsBytes(s), NEW l \in 0..Len(s)
  PROVE  /\ IsBytes(SubSeq(s, 1, l)) /\ Len(SubSeq(s, 1, l)) = l
         /\ \A i \in 1..l : SubSeq(s, 1, l)[i] = s[i]
<1>1. /\ Len(s) \in Nat /\ IsBytes(SubSeq(s, 1, l))
      /\ Len(SubSeq(s, 1, l)) = IF 1 <= l THEN l - 1 + 1 ELSE 0
      /\ \A i \in 1..Len(SubSeq(s, 1, l)) : SubSeq(s, 1, l)[i] = s[1 + i - 1]
  BY SliceIs, LenProperties DEF IsBytes
<1>2. Len(SubSeq(s, 1, l)) = l /\ \A i \in 1..l : 1 + i - 1 = i
  BY <1>1
<1>3. QED
  BY <1>1, <1>2

(* The bytes up to a newline or a limit. *)
Upto(rest, limit) ==
  SubSeq(rest, 1, Min({i \in DOMAIN rest : IsNewline(rest[i])} \cup {Len(rest), limit}))

LEMMA UptoIs ==
  ASSUME NEW rest, IsBytes(rest), NEW limit \in Nat \ {0}
  PROVE  LET read == Upto(rest, limit)
         IN  /\ IsBytes(read) /\ Len(read) \in Nat /\ Len(read) <= limit /\ Len(read) <= Len(rest)
             /\ \A q \in 1..Len(read) : read[q] = rest[q]
             /\ \A q \in 1..(Len(read) - 1) : ~ IsNewline(rest[q])
<1> DEFINE ends == {i \in DOMAIN rest : IsNewline(rest[i])} \cup {Len(rest), limit}
<1>1. Len(rest) \in Nat /\ DOMAIN rest = 1..Len(rest)
  BY LenProperties DEF IsBytes
<1>2. Len(rest) \in ends /\ limit \in ends
  OBVIOUS
<1>3. ends \subseteq Nat
  BY <1>1
<1>4. \A i \in 1..Len(rest) : IsNewline(rest[i]) => i \in ends
  BY <1>1
<1>5. Upto(rest, limit) = SubSeq(rest, 1, Min(ends))
  BY DEF Upto
<1> HIDE DEF ends
<1>6. Min(ends) \in ends /\ \A n \in ends : Min(ends) <= n
  <2>1. ends # {}
    BY <1>2
  <2>2. QED
    BY <1>3, <2>1, MinIsLeast
<1>7. PICK k \in Nat : k = Min(ends)
  BY <1>3, <1>6
<1>8. k \in 0..Len(rest) /\ k <= limit
  <2>1. k <= Len(rest) /\ k <= limit
    BY <1>2, <1>6, <1>7
  <2>2. QED
    BY <1>1, <2>1
<1>9. \A i \in 1..(k - 1) : ~ IsNewline(rest[i])
  <2>1. SUFFICES ASSUME NEW i \in 1..(k - 1), IsNewline(rest[i]) PROVE FALSE
    OBVIOUS
  <2>2. i \in 1..Len(rest) /\ i \in Nat /\ i < k
    BY <1>1, <1>8
  <2>3. k <= i
    BY <1>4, <1>6, <1>7, <2>1, <2>2
  <2>4. QED
    BY <2>2, <2>3
<1>10. IsBytes(SubSeq(rest, 1, k)) /\ Len(SubSeq(rest, 1, k)) = k
       /\ \A i \in 1..k : SubSeq(rest, 1, k)[i] = rest[i]
  BY <1>8, PrefixIs
<1>11. Upto(rest, limit) = SubSeq(rest, 1, k)
  BY <1>5, <1>7
<1>12. QED
  BY <1>8, <1>9, <1>10, <1>11

(* What of the open file, the first l bytes of a file, is read. *)
LEMMA AvailableIs ==
  ASSUME NEW bytes, IsBytes(Content), NEW l \in Nat, Len(Content) = l,
         \A i \in 1..l : Content[i] = bytes[i],
         NEW o \in Nat, increment.offset = o, NEW limit \in Nat \ {0}
  PROVE  LET read == Available(limit)
         IN  /\ IsBytes(read) /\ Len(read) \in Nat /\ Len(read) <= limit
             /\ Len(read) > 0 => o + Len(read) <= l
             /\ \A q \in 1..Len(read) : read[q] = bytes[o + q]
             /\ \A q \in 1..(Len(read) - 1) : ~ IsNewline(bytes[o + q])
<1>1. PICK content : content = Content
  OBVIOUS
<1>2. PICK a \in Nat \ {0} : a = o + 1
  OBVIOUS
<1> DEFINE rest == SubSeq(content, a, l)
           read == Upto(rest, limit)
<1>3. Available(limit) = read
  BY <1>1, <1>2 DEF Available, Upto
<1>4. /\ IsBytes(rest) /\ Len(rest) = IF a <= l THEN l - a + 1 ELSE 0
      /\ \A i \in 1..Len(rest) : rest[i] = content[a + i - 1]
  <2>1. IsBytes(content) /\ l \in 0..Len(content)
    BY <1>1
  <2>2. QED
    BY <2>1, SliceIs, ZenonT(40)
<1> HIDE DEF rest
<1>5. \A i \in 1..Len(rest) : a + i - 1 = o + i /\ o + i \in 1..l
  BY <1>2, <1>4
<1>6. \A i \in 1..Len(rest) : rest[i] = bytes[o + i]
  BY <1>1, <1>4, <1>5
<1>7. /\ IsBytes(read) /\ Len(read) \in Nat /\ Len(read) <= limit /\ Len(read) <= Len(rest)
      /\ \A q \in 1..Len(read) : read[q] = rest[q]
      /\ \A q \in 1..(Len(read) - 1) : ~ IsNewline(rest[q])
  BY <1>4, UptoIs
<1> HIDE DEF read
<1>8. Len(rest) \in Nat
  BY <1>2, <1>4
<1>9. Len(read) > 0 => o + Len(read) <= l
  <2>1. PICK k \in Nat : k = Len(read)
    BY <1>7
  <2>2. k > 0 => k <= l - o
    BY <1>2, <1>4, <1>7, <1>8, <2>1
  <2>3. QED
    BY <2>1, <2>2
<1>10. \A q \in 1..Len(read) : read[q] = bytes[o + q]
  BY <1>6, <1>7, <1>8
<1>11. \A q \in 1..(Len(read) - 1) : ~ IsNewline(bytes[o + q])
  <2>1. TAKE q \in 1..(Len(read) - 1)
  <2>2. q \in 1..Len(rest)
    BY <1>7, <1>8
  <2>3. rest[q] = bytes[o + q] /\ ~ IsNewline(rest[q])
    BY <1>6, <1>7, <2>2
  <2>4. QED
    BY <2>3
<1>12. QED
  BY <1>3, <1>7, <1>9, <1>10, <1>11
-----------------------------------------------------------------------------
(* What becomes of a cursor when the file changes. *)

LEMMA SoundKept ==
  ASSUME NEW p, IsPath(p), NEW q, IsPath(q), q.identity = p.identity,
         Prefix(p.whole, q.whole), NEW c, Sound(p, c)
  PROVE  /\ Sound(q, c)
         /\ Expected(q.identity, q.whole, c.offset) = Expected(p.identity, p.whole, c.offset)
<1>1. Len(p.whole) \in Nat /\ Len(q.whole) \in Nat
  BY PathBytes
<1>2. PICK n \in 0..Len(p.whole) : n = c.offset
  BY DEF Sound
<1>3. n \in Nat /\ n \in 0..Len(q.whole) /\ \A i \in 1..n : p.whole[i] = q.whole[i]
  BY <1>1 DEF Prefix
<1>4. LinesIn(p.whole, n) = LinesIn(q.whole, n)
  BY <1>3, LinesAgree
<1>5. n = 0 \/ p.whole[n] = q.whole[n]
  BY <1>3
<1>6. /\ c.skipping \in BOOLEAN /\ c.last_ts = LastTs(p.identity, LinesIn(p.whole, n), n + 1)
      /\ c.skipping => /\ p.identity = "head" /\ n >= 1
                       /\ ~ IsNewline(p.whole[n]) /\ p.whole[n][3] >= MaxLine
      /\ ~ c.skipping => n = 0 \/ IsNewline(p.whole[n])
  BY <1>2, Zenon DEF Sound
<1>7. n >= 1 => n # 0
  BY <1>3
<1>8. Sound(q, c)
  <2>1. CASE c.skipping = TRUE
    BY <1>2, <1>3, <1>4, <1>5, <1>6, <1>7, <2>1, SoundInside, Zenon
  <2>2. CASE c.skipping = FALSE
    BY <1>2, <1>3, <1>4, <1>5, <1>6, <2>2, SoundAfter, Zenon
  <2>3. QED
    BY <1>6, <2>1, <2>2
<1>9. QED
  BY <1>2, <1>4, <1>8 DEF Expected

(* Fewer lines, more mtimes, more drafts. *)
LEMMA CoveredStill ==
  ASSUME NEW source, NEW expected, NEW from, NEW done, Covered(source, expected, from, done),
         NEW fewer, fewer \subseteq expected, NEW more, from \subseteq more,
         NEW all, done \subseteq all
  PROVE  Covered(source, fewer, more, all)
<1>1. SUFFICES ASSUME NEW e \in fewer
               PROVE  \E m \in more : Wanted(source, e[1], e[2], m) \subseteq all
  BY DEF Covered
<1>2. PICK m \in from : Wanted(source, e[1], e[2], m) \subseteq done
  BY DEF Covered
<1>3. QED
  BY <1>2

(* A line more, whose drafts are there for one of the mtimes. *)
LEMMA CoveredOneMore ==
  ASSUME NEW source, NEW expected, NEW from, NEW done, Covered(source, expected, from, done),
         NEW line, NEW ts, NEW m \in from,
         NEW all, done \subseteq all, Wanted(source, line, ts, m) \subseteq all
  PROVE  Covered(source, expected \cup {<<line, ts>>}, from, all)
<1>1. Covered(source, expected, from, all)
  BY CoveredStill
<1>2. <<line, ts>>[1] = line /\ <<line, ts>>[2] = ts
  OBVIOUS
<1>3. QED
  BY <1>1, <1>2 DEF Covered

(* The file grows, is written to or copied anew. *)
LEMMA GoodGrown ==
  ASSUME NEW p, IsPath(p), NEW q, IsPath(q), q.identity = p.identity,
         q.session = p.session, q.cut = p.cut, q.inode >= p.inode,
         p.identity = "inode" => q.inode = p.inode,
         Prefix(p.whole, q.whole), p.times \subseteq q.times, NEW done, NEW c, Good(p, done, c)
  PROVE  Good(q, done, c)
<1>1. IsCursor(q, c)
  BY DEF Good, IsCursor, IsPath
<1>2. Mine(q, c) => Mine(p, c)
  BY DEF Mine, IsPath
<1>3. Mine(q, c) => /\ Sound(p, c)
                    /\ Covered(p.identity, Expected(p.identity, p.whole, c.offset), p.times, done)
  BY <1>2 DEF Good
<1>4. Mine(q, c) => /\ Sound(q, c)
                    /\ Covered(q.identity, Expected(q.identity, q.whole, c.offset), q.times, done)
  BY <1>3, SoundKept, CoveredStill
<1>5. QED
  BY <1>1, <1>4 DEF Good

(* The file is cut or replaced. *)
LEMMA GoodLost ==
  ASSUME NEW p, IsPath(p), NEW q, IsPath(q), q.identity = p.identity,
         q.inode >= p.inode, q.session >= p.session,
         p.identity = "inode" => q.inode > p.inode \/ q.cut = TRUE,
         p.identity = "head" => q.session > p.session,
         NEW done, NEW c, Good(p, done, c)
  PROVE  Good(q, done, c) /\ ~ Mine(q, c)
<1>1. IsCursor(q, c)
  BY DEF Good, IsCursor, IsPath
<1>2. ~ Mine(q, c)
  <2>1. CASE p.identity = "inode"
    BY <2>1 DEF Good, IsCursor, IsPath, Mine
  <2>2. CASE p.identity = "head"
    BY <2>2 DEF Good, IsCursor, IsPath, Mine
  <2>3. QED
    BY <2>1, <2>2 DEF IsPath
<1>3. QED
  BY <1>1, <1>2 DEF Good

(* More is recorded. *)
LEMMA GoodMore ==
  ASSUME NEW p, NEW done, NEW more, done \subseteq more, NEW c, Good(p, done, c)
  PROVE  Good(p, more, c)
BY CoveredStill DEF Good

(* The position before the first line. *)
LEMMA SoundAtZero ==
  ASSUME NEW p, IsPath(p), NEW c, c.offset = 0, c.skipping = FALSE, c.last_ts = None
  PROVE  Sound(p, c) /\ Expected(p.identity, p.whole, 0) = {}
<1>1. Len(p.whole) \in Nat
  BY PathBytes
<1>2. DOMAIN LinesIn(p.whole, 0) = {}
  BY DEF LinesIn
<1>3. LastTs(p.identity, LinesIn(p.whole, 0), 0 + 1) = None
  BY <1>2 DEF LastTs
<1>4. Expected(p.identity, p.whole, 0) = {}
  BY <1>2 DEF Expected
<1>5. 0 \in 0..Len(p.whole)
  BY <1>1
<1>6. Sound(p, c)
  BY <1>3, <1>5, SoundAfter
<1>7. QED
  BY <1>4, <1>6

(* The cursor is a record of another inode or version with the position. *)
LEMMA GoodSame ==
  ASSUME NEW p, NEW done, NEW c, Good(p, done, c),
         NEW d, d = [inode |-> d.inode, offset |-> c.offset, last_ts |-> c.last_ts,
                     version |-> d.version, head |-> c.head, skipping |-> c.skipping],
         \/ d.inode = c.inode
         \/ p.identity # "inode" /\ d.inode \in Nat /\ d.inode <= p.inode
  PROVE  Good(p, done, d)
<1>1. /\ d.offset = c.offset /\ d.last_ts = c.last_ts /\ d.head = c.head
      /\ d.skipping = c.skipping
  OBVIOUS
<1>2. IsCursor(p, d)
  BY <1>1 DEF Good, IsCursor
<1>3. Mine(p, d) => Mine(p, c)
  BY <1>1 DEF Mine
<1>4. Sound(p, c) => Sound(p, d)
  BY <1>1, Zenon DEF Sound
<1>5. QED
  BY <1>1, <1>2, <1>3, <1>4 DEF Good

(* Only the inode and the head tell whose a cursor is. *)
LEMMA MineSame ==
  ASSUME NEW p, NEW c, NEW d, c.inode = d.inode, c.head = d.head
  PROVE  Mine(p, c) = Mine(p, d)
BY DEF Mine
-----------------------------------------------------------------------------
(* The writers of the file. *)

LEMMA LineIs ==
  ASSUME NEW s \in Nat, NEW line \in Lines
  PROVE  /\ IsBytes(Bytes(s, line)) /\ Fields[line].len \in Nat \ {0}
         /\ Len(Bytes(s, line)) = Fields[line].len
         /\ \A i \in 1..Fields[line].len : Bytes(s, line)[i] = <<s, line, i>>
<1>1. Fields[line].len \in Nat \ {0}
  BY TranscriptAssumption DEF Lines
<1>2. PICK k \in Nat \ {0} : k = Fields[line].len
  BY <1>1
<1>3. Bytes(s, line) = [i \in 1..k |-> <<s, line, i>>]
  BY <1>2 DEF Bytes
<1>4. [i \in 1..k |-> <<s, line, i>>] \in Seq(Nat \X Lines \X Nat)
      /\ Len([i \in 1..k |-> <<s, line, i>>]) = k
  OBVIOUS
<1>5. QED
  BY <1>1, <1>2, <1>3, <1>4 DEF IsBytes

(* A line is appended to whole lines. *)
LEMMA LineAppended ==
  ASSUME NEW bytes, IsBytes(bytes), NEW s \in Nat, NEW line \in Lines, NEW more,
         more = bytes \o Bytes(s, line)
  PROVE  /\ IsBytes(more) /\ Prefix(bytes, more)
         /\ Len(more) = Len(bytes) + Fields[line].len
         /\ \A i \in 1..Fields[line].len : more[Len(bytes) + i] = <<s, line, i>>
<1> DEFINE k == Fields[line].len
           l == Len(bytes)
<1>1. k \in Nat \ {0} /\ l \in Nat /\ IsBytes(Bytes(s, line)) /\ Len(Bytes(s, line)) = k
      /\ \A i \in 1..k : Bytes(s, line)[i] = <<s, line, i>>
  BY LineIs, LenProperties DEF IsBytes
<1>2. /\ more \in Seq(Nat \X Lines \X Nat) /\ Len(more) = l + Len(Bytes(s, line))
      /\ \A i \in 1..(l + Len(Bytes(s, line))) :
           more[i] = IF i <= l THEN bytes[i] ELSE Bytes(s, line)[i - l]
  BY <1>1, ConcatProperties DEF IsBytes
<1> HIDE DEF k, l
<1>3. Len(more) = l + k /\ \A i \in 1..(l + k) :
           more[i] = IF i <= l THEN bytes[i] ELSE Bytes(s, line)[i - l]
  BY <1>1, <1>2
<1>4. \A i \in 1..l : i \in 1..(l + k) /\ i <= l
  BY <1>1
<1>5. \A i \in 1..l : more[i] = bytes[i]
  BY <1>3, <1>4
<1>6. \A i \in 1..k : l + i \in 1..(l + k) /\ ~ (l + i <= l) /\ (l + i) - l = i
  BY <1>1
<1>7. \A i \in 1..k : more[l + i] = <<s, line, i>>
  <2>1. TAKE i \in 1..k
  <2>2. more[l + i] = Bytes(s, line)[(l + i) - l]
    BY <1>3, <1>6
  <2>3. QED
    BY <1>1, <1>6, <2>2
<1>8. l <= Len(more)
  BY <1>1, <1>3
<1>9. QED
  BY <1>2, <1>3, <1>5, <1>7, <1>8 DEF IsBytes, Prefix, k, l

LEMMA LinesAppended ==
  ASSUME NEW bytes, IsBytes(bytes), InLines(bytes),
         Len(bytes) > 0 => IsNewline(bytes[Len(bytes)]),
         NEW s \in Nat, NEW line \in Lines, NEW more, Prefix(bytes, more),
         Len(more) = Len(bytes) + Fields[line].len,
         \A i \in 1..Fields[line].len : more[Len(bytes) + i] = <<s, line, i>>
  PROVE  InLines(more) /\ IsNewline(more[Len(more)])
<1>1. PICK k \in Nat \ {0} : k = Fields[line].len
  BY LineIs
<1>2. PICK l \in Nat : l = Len(bytes)
  BY LenProperties DEF IsBytes
<1>3. Len(more) = l + k /\ (\A i \in 1..l : more[i] = bytes[i])
      /\ \A i \in 1..k : more[l + i] = <<s, line, i>>
  BY <1>1, <1>2 DEF Prefix
<1>4. k \in 1..k
  BY <1>1
<1>5. IsNewline(more[Len(more)])
  <2>1. more[Len(more)] = <<s, line, k>>
    BY <1>3, <1>4
  <2>2. QED
    BY <1>1, <2>1 DEF IsNewline
<1>6. ASSUME NEW i \in 1..Len(more)
      PROVE  /\ more[i][3] \in 1..i /\ more[i][3] <= Fields[more[i][2]].len
             /\ \A q \in 1..more[i][3] : more[i - more[i][3] + q] = <<more[i][1], more[i][2], q>>
             /\ more[i][3] < i => IsNewline(more[i - more[i][3]])
  <2>1. CASE i \in 1..l
    <3>1. PICK d : d = bytes[i][3]
      OBVIOUS
    <3>2. /\ d \in 1..i /\ d <= Fields[bytes[i][2]].len
          /\ \A q \in 1..d : bytes[i - d + q] = <<bytes[i][1], bytes[i][2], q>>
          /\ d < i => IsNewline(bytes[i - d])
      BY <1>2, <2>1, <3>1 DEF InLines
    <3>3. /\ \A q \in 1..d : i - d + q \in 1..l
          /\ d < i => i - d \in 1..l
      BY <2>1, <3>2
    <3>4. more[i] = bytes[i]
      BY <1>3, <2>1
    <3>5. \A q \in 1..d : more[i - d + q] = bytes[i - d + q]
      BY <1>3, <3>3
    <3>6. d < i => more[i - d] = bytes[i - d]
      BY <1>3, <3>3
    <3>7. QED
      BY <3>1, <3>2, <3>4, <3>5, <3>6
  <2>2. CASE i \notin 1..l
    <3>1. PICK d \in 1..k : i = l + d
      <4>1. i - l \in 1..k /\ i = l + (i - l)
        BY <1>3, <2>2
      <4>2. QED
        BY <4>1
    <3>2. more[i] = <<s, line, d>>
      BY <1>3, <3>1
    <3>3. d \in 1..i /\ d <= k /\ i - d = l /\ (d < i => l > 0) /\ \A q \in 1..d : q \in 1..k
      BY <3>1
    <3>4. l > 0 => IsNewline(more[l])
      <4>1. l > 0 => l \in 1..l
        OBVIOUS
      <4>2. QED
        BY <1>2, <1>3, <4>1
    <3>5. more[i][1] = s /\ more[i][2] = line /\ more[i][3] = d
      BY <3>2
    <3>6. \A q \in 1..d : more[l + q] = <<s, line, q>>
      BY <1>3, <3>3
    <3>7. QED
      BY <1>1, <3>3, <3>4, <3>5, <3>6
  <2>3. QED
    BY <2>1, <2>2
<1>7. QED
  BY <1>5, <1>6 DEF InLines
-----------------------------------------------------------------------------
(* The steps of the file. *)

(* The provider and the writer stand still while the file changes. *)
LEMMA FileChanges ==
  ASSUME ReadInv, UNCHANGED <<pc, known, cursor, start, increment, writer>>,
         \A done, c : Good(Path, done, c) => Good(Path', done, c)
  PROVE  CursorInv' /\ IncrementInv'
<1>1. /\ pc' = pc /\ known' = known /\ cursor' = cursor /\ start' = start
      /\ increment' = increment /\ inflight' = inflight /\ receipt' = receipt
      /\ stored' = stored /\ recorded' = recorded
  BY DEF writer
<1>2. Advanced' = Advanced
  BY <1>1 DEF Advanced
<1>3. CursorInv'
  BY <1>1 DEF ReadInv, CursorInv
<1>4. IncrementInv'
  BY <1>1, <1>2 DEF ReadInv, IncrementInv
<1>5. QED
  BY <1>3, <1>4

LEMMA PathIs ==
  /\ Path.identity = identity /\ Path.inode = inode /\ Path.session = session
  /\ Path.cut = cut /\ Path.whole = whole /\ Path.times = times
BY DEF Path

LEMMA PathIsNow ==
  /\ Path'.identity = identity' /\ Path'.inode = inode' /\ Path'.session = session'
  /\ Path'.cut = cut' /\ Path'.whole = whole' /\ Path'.times = times'
BY DEF Path

LEMMA PathFacts ==
  ASSUME ReadInv
  PROVE  /\ IsPath(Path) /\ identity \in {"inode", "head"} /\ inode \in Nat /\ session \in Nat
         /\ cut \in BOOLEAN /\ (cut => identity = "inode")
         /\ IsBytes(whole) /\ Len(whole) \in Nat /\ Len(whole) <= MaxBytes
         /\ (\A i \in 1..Len(whole) : whole[i][1] = session)
         /\ (~ cut => /\ InLines(whole)
                      /\ Len(whole) > 0 => IsNewline(whole[Len(whole)]))
         /\ length \in 0..Len(whole) /\ length \in Nat
<1>1. IsPath(Path) /\ length \in 0..Len(whole)
  BY DEF ReadInv, FileInv
<1>2. Len(whole) \in Nat
  BY <1>1, PathBytes, PathIs
<1>3. QED
  BY <1>1, <1>2, PathIs DEF IsPath

LEMMA ExtendStep ==
  ASSUME ReadInv, NEW line \in Lines, Extend(line)
  PROVE  ReadInv'
<1>1. /\ IsPath(Path) /\ IsBytes(whole) /\ Len(whole) \in Nat /\ session \in Nat
      /\ identity' = identity /\ inode' = inode /\ session' = session /\ cut' = cut
      /\ whole' = whole \o Bytes(session, line) /\ length' = length /\ times' = times
      /\ length \in 0..Len(whole)
      /\ Len(whole) + Fields[line].len <= MaxBytes
  <2>1. /\ IsPath(Path) /\ IsBytes(whole) /\ Len(whole) \in Nat /\ session \in Nat
        /\ length \in 0..Len(whole)
    BY PathFacts
  <2>2. /\ identity' = identity /\ inode' = inode /\ session' = session /\ cut' = cut
        /\ whole' = whole \o Bytes(session, line) /\ length' = length /\ times' = times
    BY DEF Extend, mtimes
  <2>3. Len(whole) + Fields[line].len <= MaxBytes
    BY Zenon DEF Extend
  <2>4. QED
    BY <2>1, <2>2, <2>3
<1>2. /\ IsBytes(whole') /\ Prefix(whole, whole')
      /\ Len(whole') = Len(whole) + Fields[line].len
      /\ \A i \in 1..Fields[line].len : whole'[Len(whole) + i] = <<session, line, i>>
  <2>1. PICK more : more = whole \o Bytes(session, line)
    OBVIOUS
  <2>2. /\ IsBytes(more) /\ Prefix(whole, more)
        /\ Len(more) = Len(whole) + Fields[line].len
        /\ \A i \in 1..Fields[line].len : more[Len(whole) + i] = <<session, line, i>>
    <3>1. IsBytes(whole) /\ session \in Nat
      BY <1>1
    <3>2. QED
      BY <2>1, <3>1, LineAppended
  <2>3. whole' = more
    BY <1>1, <2>1, Zenon
  <2>4. QED
    BY <2>2, <2>3
<1>3. Fields[line].len \in Nat \ {0}
  BY <1>1, LineIs
<1>4. \A i \in 1..Len(whole') : whole'[i][1] = session'
  <2>1. TAKE i \in 1..Len(whole')
  <2>2. CASE i \in 1..Len(whole)
    BY <1>1, <1>2, <2>2, PathIs DEF Prefix, IsPath
  <2>3. CASE i \notin 1..Len(whole)
    <3>1. i - Len(whole) \in 1..Fields[line].len /\ Len(whole) + (i - Len(whole)) = i
      BY <1>1, <1>2, <1>3, <2>3
    <3>2. whole'[i] = <<session, line, i - Len(whole)>>
      BY <1>2, <3>1
    <3>3. QED
      BY <1>1, <3>2
  <2>4. QED
    BY <2>2, <2>3
<1>5. ~ cut' => InLines(whole') /\ IsNewline(whole'[Len(whole')])
  <2>1. ~ cut => InLines(whole) /\ (Len(whole) > 0 => IsNewline(whole[Len(whole)]))
    BY <1>1, PathIs DEF IsPath
  <2>2. ASSUME InLines(whole), Len(whole) > 0 => IsNewline(whole[Len(whole)])
        PROVE  InLines(whole') /\ IsNewline(whole'[Len(whole')])
    <3>1. PICK w : w = whole'
      OBVIOUS
    <3>2. /\ Prefix(whole, w) /\ Len(w) = Len(whole) + Fields[line].len
          /\ \A i \in 1..Fields[line].len : w[Len(whole) + i] = <<session, line, i>>
      BY <1>2, <3>1
    <3>3. InLines(w) /\ IsNewline(w[Len(w)])
      BY <1>1, <2>2, <3>2, LinesAppended
    <3>4. QED
      BY <3>1, <3>3
  <2>3. QED
    BY <1>1, <2>1, <2>2
<1>6. IsPath(Path')
  <2>1. /\ identity' \in {"inode", "head"} /\ inode' \in Nat /\ session' \in Nat
        /\ cut' \in BOOLEAN /\ (cut' => identity' = "inode")
    BY <1>1, PathIs DEF IsPath
  <2>2. Len(whole') <= MaxBytes
    BY <1>1, <1>2
  <2>3. QED
    BY <1>2, <1>4, <1>5, <2>1, <2>2, PathIsNow DEF IsPath
<1>7. \A done, c : Good(Path, done, c) => Good(Path', done, c)
  <2>1. inode >= inode
    BY <1>1, PathIs DEF IsPath
  <2>2. TAKE done, c
  <2>3. QED
    BY <1>1, <1>2, <1>6, <2>1, GoodGrown, PathIs, PathIsNow
<1>8. CursorInv' /\ IncrementInv'
  BY <1>7, FileChanges DEF Extend, provider
<1>9. FileInv'
  <2>1. length' \in 0..Len(whole')
    BY <1>1, <1>2, <1>3
  <2>2. QED
    BY <1>6, <2>1 DEF FileInv
<1>10. HeldInv'
  <2>1. pc' = pc /\ held' = held /\ start' = start
    BY DEF Extend, provider
  <2>2. Mine(Path', start') => Mine(Path, start)
    BY <1>1, <2>1, PathIs, PathIsNow DEF Mine
  <2>3. Prefix(held, whole) => Prefix(held, whole')
    <3>1. HAVE Prefix(held, whole)
    <3>2. Len(held) \in Nat /\ Len(held) <= Len(whole)
      BY <3>1, LenProperties DEF Prefix, IsBytes
    <3>3. Len(held) <= Len(whole') /\ \A i \in 1..Len(held) : i \in 1..Len(whole)
      BY <1>1, <1>2, <1>3, <3>2
    <3>4. QED
      BY <1>2, <3>1, <3>3 DEF Prefix
  <2>4. QED
    BY <2>1, <2>2, <2>3 DEF ReadInv, HeldInv
<1>11. QED
  BY <1>8, <1>9, <1>10 DEF ReadInv

LEMMA PrefixSelf ==
  ASSUME NEW bytes, IsBytes(bytes)
  PROVE  Prefix(bytes, bytes)
BY LenProperties DEF Prefix, IsBytes

LEMMA FlushStep ==
  ASSUME ReadInv, NEW n \in 1..MaxBytes, Flush(n)
  PROVE  ReadInv'
<1>1. /\ identity' = identity /\ inode' = inode /\ session' = session /\ cut' = cut
      /\ whole' = whole /\ length' = n /\ times \subseteq times'
      /\ UNCHANGED <<pc, known, cursor, start, held, increment, writer>>
  BY DEF Flush, Touch, provider
<1>2. IsPath(Path) /\ IsBytes(whole) /\ inode \in Nat
  BY PathFacts
<1>3. IsPath(Path')
  BY <1>1, <1>2, PathIs, PathIsNow DEF IsPath
<1>4. \A done, c : Good(Path, done, c) => Good(Path', done, c)
  <2>1. inode >= inode /\ Prefix(whole, whole)
    BY <1>2, PrefixSelf
  <2>2. TAKE done, c
  <2>3. QED
    BY <1>1, <1>2, <1>3, <2>1, GoodGrown, PathIs, PathIsNow
<1>5. CursorInv' /\ IncrementInv'
  BY <1>1, <1>4, FileChanges
<1>6. FileInv'
  <2>1. n \in 0..Len(whole)
    BY PathFacts DEF Flush
  <2>2. QED
    BY <1>1, <1>3, <2>1 DEF FileInv
<1>7. HeldInv'
  <2>1. Mine(Path', start') => Mine(Path, start)
    BY <1>1, PathIs, PathIsNow DEF Mine
  <2>2. QED
    BY <1>1, <2>1 DEF ReadInv, HeldInv
<1>8. QED
  BY <1>5, <1>6, <1>7 DEF ReadInv

LEMMA OnDiskPrefix ==
  ASSUME ReadInv
  PROVE  Prefix(OnDisk, whole)
<1>1. IsBytes(whole) /\ length \in 0..Len(whole) /\ Len(whole) \in Nat
  BY PathFacts
<1>2. IsBytes(OnDisk) /\ Len(OnDisk) = length /\ \A i \in 1..length : OnDisk[i] = whole[i]
  BY <1>1, PrefixIs DEF OnDisk
<1>3. QED
  BY <1>1, <1>2 DEF Prefix

LEMMA RefillStep ==
  ASSUME ReadInv, Refill
  PROVE  ReadInv'
<1>1. /\ identity' = identity /\ inode' = inode + 1 /\ session' = session /\ cut' = cut
      /\ whole' = whole /\ length' = 0 /\ identity = "head" /\ times' = times
      /\ UNCHANGED <<pc, known, cursor, start, increment, writer>>
      /\ held' = IF pc = "read" /\ held = None THEN OnDisk ELSE held
  BY DEF Refill, Keep
<1>2. /\ IsPath(Path) /\ inode \in Nat /\ IsBytes(whole) /\ Len(whole) \in Nat
  BY PathFacts
<1>3. IsPath(Path')
  <2>1. inode' \in Nat
    BY <1>1, <1>2
  <2>2. QED
    BY <1>1, <1>2, <2>1, PathIs, PathIsNow DEF IsPath
<1>4. Prefix(whole, whole)
  BY <1>2, PrefixSelf
<1>5. \A done, c : Good(Path, done, c) => Good(Path', done, c)
  <2>1. inode' >= inode /\ identity # "inode"
    BY <1>1, <1>2
  <2>2. TAKE done, c
  <2>3. QED
    BY <1>1, <1>2, <1>3, <1>4, <2>1, GoodGrown, PathIs, PathIsNow
<1>6. CursorInv' /\ IncrementInv'
  BY <1>1, <1>5, FileChanges
<1>7. FileInv'
  BY <1>1, <1>2, <1>3 DEF FileInv
<1>8. HeldInv'
  <2>1. Mine(Path', start') => Mine(Path, start)
    BY <1>1, PathIs, PathIsNow DEF Mine
  <2>2. CASE pc = "read" /\ held = None
    <3>1. held' = OnDisk
      BY <1>1, <2>2
    <3>2. QED
      BY <1>1, <2>2, <3>1, OnDiskPrefix DEF HeldInv
  <2>3. CASE ~ (pc = "read" /\ held = None)
    BY <1>1, <2>1, <2>3 DEF ReadInv, HeldInv
  <2>4. QED
    BY <2>2, <2>3
<1>9. QED
  BY <1>6, <1>7, <1>8 DEF ReadInv

(* An open file is read with a cursor that was made for it. *)
LEMMA StartIsGood ==
  ASSUME ReadInv, pc \in {"open", "read", "send", "await"}
  PROVE  Good(Path, recorded, start)
BY DEF ReadInv, CursorInv

LEMMA ReplaceStep ==
  ASSUME ReadInv, Replace
  PROVE  ReadInv'
<1>1. /\ identity' = identity /\ inode' = inode + 1 /\ session' = session + 1 /\ cut' = FALSE
      /\ whole' = <<>> /\ length' = 0
      /\ UNCHANGED <<pc, known, cursor, start, increment, writer>>
      /\ held' = IF pc = "read" /\ held = None THEN OnDisk ELSE held
  BY DEF Replace, Keep
<1>2. /\ IsPath(Path) /\ inode \in Nat /\ session \in Nat /\ identity \in {"inode", "head"}
  BY PathFacts
<1>3. IsBytes(<<>>) /\ Len(<<>>) = 0 /\ InLines(<<>>)
  BY EmptySeq DEF IsBytes, InLines
<1>4. inode' \in Nat /\ session' \in Nat /\ 0 <= MaxBytes
  BY <1>1, <1>2, TranscriptAssumption
<1>5. IsPath(Path')
  <2>1. IsBytes(whole') /\ Len(whole') = 0 /\ InLines(whole')
    BY <1>1, <1>3, Zenon
  <2>2. /\ Len(whole') <= MaxBytes /\ ~ (Len(whole') > 0)
        /\ \A i \in 1..Len(whole') : whole'[i][1] = session'
    BY <1>4, <2>1
  <2>3. QED
    BY <1>1, <1>2, <1>4, <2>1, <2>2, PathIsNow, Zenon DEF IsPath
<1>6. \A done, c : Good(Path, done, c) => Good(Path', done, c) /\ ~ Mine(Path', c)
  <2>1. inode' >= inode /\ inode' > inode /\ session' >= session /\ session' > session
    BY <1>1, <1>2
  <2>2. TAKE done, c
  <2>3. QED
    BY <1>1, <1>2, <1>5, <2>1, GoodLost, PathIs, PathIsNow
<1>7. CursorInv' /\ IncrementInv'
  BY <1>1, <1>6, FileChanges
<1>8. FileInv'
  BY <1>1, <1>3, <1>5 DEF FileInv
<1>9. HeldInv'
  <2>1. pc \in {"read", "send"} => ~ Mine(Path', start')
    BY <1>1, <1>6, StartIsGood
  <2>2. pc \notin {"read", "send"} => held' = None
    BY <1>1 DEF ReadInv, HeldInv
  <2>3. QED
    BY <1>1, <2>1, <2>2 DEF HeldInv
<1>10. QED
  BY <1>7, <1>8, <1>9 DEF ReadInv

LEMMA CutStep ==
  ASSUME ReadInv, NEW n \in 1..MaxBytes, Cut(n)
  PROVE  ReadInv'
<1>1. /\ identity' = identity /\ inode' = inode /\ session' = session /\ cut' = TRUE
      /\ identity = "inode" /\ whole' = SubSeq(whole, 1, n) /\ length' = n /\ n < length
      /\ UNCHANGED <<pc, known, cursor, start, held, increment, writer>>
  BY DEF Cut, provider
<1>2. /\ IsPath(Path) /\ inode \in Nat /\ session \in Nat /\ IsBytes(whole) /\ Len(whole) \in Nat
      /\ Len(whole) <= MaxBytes /\ length \in 0..Len(whole)
      /\ \A i \in 1..Len(whole) : whole[i][1] = session
  BY PathFacts
<1>3. n \in 0..Len(whole) /\ n <= MaxBytes /\ n \in 0..n
  BY <1>1, <1>2, TranscriptAssumption
<1>4. /\ IsBytes(SubSeq(whole, 1, n)) /\ Len(SubSeq(whole, 1, n)) = n
      /\ \A i \in 1..n : SubSeq(whole, 1, n)[i] = whole[i]
  BY <1>2, <1>3, PrefixIs
<1>5. IsBytes(whole') /\ Len(whole') = n /\ \A i \in 1..n : whole'[i] = whole[i]
  BY <1>1, <1>4, Zenon
<1>6. \A i \in 1..n : whole'[i][1] = session
  BY <1>2, <1>3, <1>5
<1>7. IsPath(Path')
  BY <1>1, <1>2, <1>3, <1>5, <1>6, PathIsNow DEF IsPath
<1>8. \A done, c : Good(Path, done, c) => Good(Path', done, c) /\ ~ Mine(Path', c)
  <2>1. inode' >= inode /\ session' >= session /\ identity # "head"
    BY <1>1, <1>2
  <2>2. TAKE done, c
  <2>3. QED
    BY <1>1, <1>2, <1>7, <2>1, GoodLost, PathIs, PathIsNow
<1>9. CursorInv' /\ IncrementInv'
  BY <1>1, <1>8, FileChanges
<1>10. FileInv'
  BY <1>1, <1>3, <1>5, <1>7 DEF FileInv
<1>11. HeldInv'
  <2>1. pc \in {"read", "send"} => ~ Mine(Path', start')
    BY <1>1, <1>8, StartIsGood
  <2>2. QED
    BY <1>1, <2>1 DEF ReadInv, HeldInv
<1>12. QED
  BY <1>9, <1>10, <1>11 DEF ReadInv
-----------------------------------------------------------------------------
(* The steps of the provider. *)

LEMMA SamePath ==
  ASSUME ReadInv, UNCHANGED file
  PROVE  Path' = Path /\ FileInv'
<1>1. /\ identity' = identity /\ inode' = inode /\ session' = session /\ cut' = cut
      /\ whole' = whole /\ length' = length /\ times' = times
  BY DEF file, mtimes
<1>2. Path' = Path
  BY <1>1 DEF Path
<1>3. QED
  BY <1>1, <1>2 DEF ReadInv, FileInv

LEMMA LookupStep ==
  ASSUME ReadInv, Lookup
  PROVE  ReadInv'
<1>1. /\ pc = "idle" /\ pc' = "stat" /\ UNCHANGED <<file, start, held, increment, writer>>
      /\ known' = IF known = <<>> THEN <<Decoded(stored)>> ELSE known
      /\ cursor' = known'[1]
  BY DEF Lookup
<1>2. Path' = Path /\ FileInv'
  BY <1>1, SamePath
<1>3. /\ inflight' = inflight /\ receipt' = receipt /\ stored' = stored /\ recorded' = recorded
  BY <1>1 DEF writer
<1>4. Decoded(stored) # None => Good(Path, recorded, Decoded(stored))
  BY DEF ReadInv, CursorInv, Decoded, CursorVersion
<1>5. /\ known' = <<known'[1]>> /\ known' # <<>>
      /\ known'[1] # None => Good(Path, recorded, known'[1])
  <2>1. CASE known = <<>>
    BY <1>1, <1>4, <2>1
  <2>2. CASE known # <<>>
    BY <1>1, <2>2 DEF ReadInv, CursorInv
  <2>3. QED
    BY <2>1, <2>2
<1>6. CursorInv'
  BY <1>1, <1>2, <1>3, <1>5 DEF ReadInv, CursorInv
<1>7. HeldInv'
  BY <1>1 DEF ReadInv, HeldInv
<1>8. IncrementInv'
  BY <1>1, <1>3 DEF ReadInv, IncrementInv
<1>9. QED
  BY <1>2, <1>6, <1>7, <1>8 DEF ReadInv

(* The first line names the session of the file. *)
LEMMA HeadNamesSession ==
  ASSUME ReadInv, HeadDigest # None
  PROVE  HeadDigest[1][1] = session
<1> DEFINE ends == {i \in 1..length : IsNewline(whole[i]) \/ i = HeadBytes}
<1>1. /\ IsBytes(whole) /\ Len(whole) \in Nat /\ length \in 0..Len(whole) /\ length \in Nat
      /\ \A i \in 1..Len(whole) : whole[i][1] = session
  BY PathFacts
<1>2. ends # {} /\ HeadDigest = SubSeq(whole, 1, Min(ends))
  BY DEF HeadDigest
<1>3. ends \subseteq Nat /\ ends \subseteq 1..length
  BY <1>1
<1> HIDE DEF ends
<1>4. Min(ends) \in ends
  BY <1>2, <1>3, MinIsLeast
<1>5. PICK k \in 1..length : k = Min(ends)
  BY <1>3, <1>4
<1>6. k \in 0..Len(whole) /\ 1 \in 1..k /\ 1 \in 1..Len(whole)
  BY <1>1, <1>5
<1>7. \A i \in 1..k : SubSeq(whole, 1, k)[i] = whole[i]
  BY <1>1, <1>6, PrefixIs
<1>8. SubSeq(whole, 1, k)[1] = whole[1] /\ whole[1][1] = session
  BY <1>1, <1>6, <1>7
<1>9. QED
  BY <1>2, <1>5, <1>8

(* A read from the start of the file at the path. *)
LEMMA FromZeroGood ==
  ASSUME ReadInv, NEW head, identity = "head" => head # None /\ head[1][1] = session
  PROVE  Good(Path, recorded, FromZero(head))
<1> DEFINE c == FromZero(head)
<1>1. /\ c = [inode |-> inode, offset |-> 0, last_ts |-> None, version |-> CursorVersion,
              head |-> head, skipping |-> FALSE]
      /\ c.inode = inode /\ c.offset = 0 /\ c.last_ts = None /\ c.head = head
      /\ c.skipping = FALSE /\ c.version = CursorVersion
  BY DEF FromZero
<1> HIDE DEF c
<1>2. IsPath(Path) /\ inode \in Nat /\ session \in Nat
  BY PathFacts
<1>3. IsCursor(Path, c)
  BY <1>1, <1>2, PathIs DEF IsCursor
<1>4. /\ Sound(Path, c)
      /\ Covered(Path.identity, Expected(Path.identity, Path.whole, c.offset), Path.times, recorded)
  BY <1>1, <1>2, SoundAtZero DEF Covered
<1>5. QED
  BY <1>3, <1>4 DEF Good, c

LEMMA StartGood ==
  ASSUME ReadInv, pc = "stat", Start # None
  PROVE  Good(Path, recorded, Start)
<1>1. cursor # None => Good(Path, recorded, cursor)
  BY DEF ReadInv, CursorInv
<1>2. identity \in {"inode", "head"} /\ inode \in Nat /\ Path.identity = identity /\ Path.inode = inode
  BY PathFacts, PathIs
<1>3. CASE identity = "inode"
  <2>1. Good(Path, recorded, FromZero(None))
    BY <1>3, FromZeroGood
  <2>2. QED
    BY <1>1, <1>3, <2>1 DEF Start
<1>4. CASE identity = "head"
  <2>1. HeadDigest # None
    BY <1>4 DEF Start
  <2>2. HeadDigest[1][1] = session
    BY <2>1, HeadNamesSession
  <2>3. Good(Path, recorded, FromZero(HeadDigest))
    BY <2>1, <2>2, FromZeroGood
  <2>4. CASE cursor # None /\ cursor.head = HeadDigest
    <3>1. Start = [cursor EXCEPT !.inode = inode]
      BY <1>4, <2>1, <2>4 DEF Start
    <3>2. Good(Path, recorded, cursor) /\ IsCursor(Path, cursor)
      BY <1>1, <2>4 DEF Good
    <3>3. cursor = [inode |-> cursor.inode, offset |-> cursor.offset, last_ts |-> cursor.last_ts,
                    version |-> cursor.version, head |-> cursor.head, skipping |-> cursor.skipping]
      BY <3>2 DEF IsCursor
    <3>4. Start = [inode |-> inode, offset |-> cursor.offset, last_ts |-> cursor.last_ts,
                   version |-> cursor.version, head |-> cursor.head, skipping |-> cursor.skipping]
      BY <3>1, <3>3
    <3>5. Start.inode = inode /\ Start.version = cursor.version
      BY <3>4
    <3>6. inode <= inode
      BY <1>2
    <3>7. QED
      BY <1>2, <1>4, <3>2, <3>4, <3>5, <3>6, GoodSame
  <2>5. CASE ~ (cursor # None /\ cursor.head = HeadDigest)
    BY <1>4, <2>1, <2>3, <2>5 DEF Start
  <2>6. QED
    BY <2>4, <2>5
<1>5. QED
  BY <1>2, <1>3, <1>4

LEMMA StatStep ==
  ASSUME ReadInv, Stat
  PROVE  ReadInv'
<1>1. /\ pc = "stat" /\ UNCHANGED <<file, known, held, increment, writer>>
      /\ \/ pc' = "idle"
         \/ pc' = "open" /\ Start # None /\ start' = Start
  BY DEF Stat
<1>2. Path' = Path /\ FileInv'
  BY <1>1, SamePath
<1>3. /\ inflight' = inflight /\ receipt' = receipt /\ stored' = stored /\ recorded' = recorded
  BY <1>1 DEF writer
<1>4. pc' = "open" => Good(Path, recorded, start')
  BY <1>1, StartGood
<1>5. CursorInv'
  BY <1>1, <1>2, <1>3, <1>4 DEF ReadInv, CursorInv
<1>6. HeldInv'
  BY <1>1 DEF ReadInv, HeldInv
<1>7. IncrementInv'
  BY <1>1, <1>3 DEF ReadInv, IncrementInv
<1>8. QED
  BY <1>2, <1>5, <1>6, <1>7 DEF ReadInv

LEMMA OpenStep ==
  ASSUME ReadInv, Open
  PROVE  ReadInv'
<1>1. /\ pc = "open" /\ pc' = "read" /\ UNCHANGED <<file, known, cursor, start, held, writer>>
      /\ increment' = [offset |-> start.offset, last_ts |-> start.last_ts,
                       skipping |-> start.skipping, drafts |-> {}, count |-> 0, text |-> 0]
  BY DEF Open
<1>2. Path' = Path /\ FileInv'
  BY <1>1, SamePath
<1>3. /\ inflight' = inflight /\ receipt' = receipt /\ stored' = stored /\ recorded' = recorded
  BY <1>1 DEF writer
<1>4. Good(Path, recorded, start)
  BY <1>1, StartIsGood
<1>5. CursorInv'
  BY <1>1, <1>2, <1>3, <1>4 DEF ReadInv, CursorInv
<1>6. HeldInv'
  BY <1>1 DEF ReadInv, HeldInv
<1>7. /\ Advanced' = [inode |-> start.inode, offset |-> start.offset, last_ts |-> start.last_ts,
                      version |-> CursorVersion, head |-> start.head, skipping |-> start.skipping]
  BY <1>1 DEF Advanced
<1>8. Good(Path, recorded, Advanced')
  <2>1. PICK d : d = Advanced'
    OBVIOUS
  <2>2. d.inode = start.inode /\ d.version = CursorVersion
    BY <1>7, <2>1
  <2>3. Good(Path, recorded, d)
    BY <1>4, <1>7, <2>1, <2>2, GoodSame
  <2>4. QED
    BY <2>1, <2>3
<1>9. Good(Path', (recorded \cup increment.drafts)', Advanced')
  <2>1. (recorded \cup increment.drafts)' = recorded
    BY <1>1, <1>3
  <2>2. QED
    BY <1>2, <1>8, <2>1
<1>10. IncrementInv'
  BY <1>1, <1>3, <1>9 DEF ReadInv, IncrementInv
<1>11. QED
  BY <1>2, <1>5, <1>6, <1>10 DEF ReadInv

(* A read is under way. *)
LEMMA Reading ==
  ASSUME ReadInv, pc \in {"read", "send", "await"}
  PROVE  /\ Good(Path, recorded, start) /\ Good(Path, recorded \cup increment.drafts, Advanced)
         /\ increment = [offset |-> increment.offset, last_ts |-> increment.last_ts,
                         skipping |-> increment.skipping, drafts |-> increment.drafts,
                         count |-> increment.count, text |-> increment.text]
         /\ Mine(Path, Advanced) = Mine(Path, start)
<1>1. Advanced.inode = start.inode /\ Advanced.head = start.head
  BY DEF Advanced
<1>2. Mine(Path, Advanced) = Mine(Path, start)
  BY <1>1, MineSame
<1>3. QED
  BY <1>2, StartIsGood DEF ReadInv, IncrementInv

(* A step of the loop keeps the invariant if what it reads is sound. *)
LEMMA LoopStep ==
  ASSUME ReadInv, pc = "read", pc' \in {"read", "send"},
         UNCHANGED <<file, known, cursor, start, held, writer>>,
         increment' = [offset |-> increment'.offset, last_ts |-> increment'.last_ts,
                       skipping |-> increment'.skipping, drafts |-> increment'.drafts,
                       count |-> increment'.count, text |-> increment'.text],
         Mine(Path, start) =>
           /\ Sound(Path, Advanced')
           /\ Covered(identity, Expected(identity, whole, increment'.offset),
                      times, recorded \cup increment'.drafts)
  PROVE  ReadInv'
<1>1. Path' = Path /\ FileInv'
  BY SamePath
<1>2. /\ inflight' = inflight /\ receipt' = receipt /\ stored' = stored /\ recorded' = recorded
  BY DEF writer
<1>3. Good(Path, recorded, start)
  BY Reading
<1>4. CursorInv'
  BY <1>1, <1>2, <1>3 DEF ReadInv, CursorInv
<1>5. HeldInv'
  <2>1. whole' = whole
    BY DEF file
  <2>2. QED
    BY <1>1, <2>1 DEF ReadInv, HeldInv
<1>6. PICK d : d = Advanced'
  OBVIOUS
<1>7. d = [inode |-> start.inode, offset |-> increment'.offset, last_ts |-> increment'.last_ts,
           version |-> CursorVersion, head |-> start.head, skipping |-> increment'.skipping]
  BY <1>6 DEF Advanced
<1>8. d.inode = start.inode /\ d.head = start.head /\ d.offset = increment'.offset
  BY <1>7
<1>9. IsCursor(Path, d)
  BY <1>3, <1>7, <1>8 DEF Good, IsCursor
<1>10. Mine(Path, d) => Mine(Path, start)
  BY <1>8, MineSame
<1>11. Good(Path, recorded \cup increment'.drafts, d)
  BY <1>6, <1>8, <1>9, <1>10, PathIs DEF Good
<1>12. Good(Path', (recorded \cup increment.drafts)', Advanced')
  BY <1>1, <1>2, <1>6, <1>11
<1>13. IncrementInv'
  BY <1>2, <1>12 DEF ReadInv, IncrementInv
<1>14. QED
  BY <1>1, <1>4, <1>5, <1>13 DEF ReadInv

LEMMA BudgetSpentStep ==
  ASSUME ReadInv, BudgetSpent
  PROVE  ReadInv'
<1>1. /\ pc = "read" /\ pc' = "send" /\ increment' = increment
      /\ UNCHANGED <<file, known, cursor, start, held, writer>>
  BY DEF BudgetSpent
<1>2. Advanced' = Advanced
  BY <1>1 DEF Advanced
<1>3. Advanced.offset = increment.offset
  BY DEF Advanced
<1>4. Mine(Path, start) =>
         /\ Sound(Path, Advanced)
         /\ Covered(identity, Expected(identity, whole, increment.offset),
                    times, recorded \cup increment.drafts)
  BY <1>1, <1>3, Reading, PathIs DEF Good
<1>5. QED
  BY <1>1, <1>2, <1>4, Reading, LoopStep

(* The open file, as far as it is of the file at the path. *)
LEMMA ContentIs ==
  ASSUME ReadInv, pc = "read", Mine(Path, start)
  PROVE  Prefix(Content, whole)
<1>1. CASE held = None
  BY <1>1, OnDiskPrefix DEF Content
<1>2. CASE held # None
  BY <1>2 DEF Content, ReadInv, HeldInv
<1>3. QED
  BY <1>1, <1>2

(* What is read from the position of the increment. *)
LEMMA ReadIs ==
  ASSUME ReadInv, pc = "read", Mine(Path, start), NEW limit \in Nat \ {0},
         NEW read, read = Available(limit)
  PROVE  /\ ~ cut /\ Sound(Path, Advanced) /\ increment.offset \in Nat /\ start.offset \in Nat
         /\ Covered(identity, Expected(identity, whole, increment.offset),
                    times, recorded \cup increment.drafts)
         /\ IsBytes(read) /\ Len(read) \in Nat /\ Len(read) <= limit
         /\ increment.offset + Len(read) <= Len(whole)
         /\ \A q \in 1..Len(read) : read[q] = whole[increment.offset + q]
         /\ \A q \in 1..(Len(read) - 1) : ~ IsNewline(whole[increment.offset + q])
<1>1. /\ Advanced.offset = increment.offset /\ Path.whole = whole /\ Path.identity = identity
      /\ Path.times = times
  BY PathIs DEF Advanced
<1>2. /\ Sound(Path, Advanced) /\ Sound(Path, start)
      /\ Covered(identity, Expected(identity, whole, increment.offset),
                 times, recorded \cup increment.drafts)
  BY <1>1, Reading DEF Good
<1>3. Len(whole) \in Nat /\ (cut => identity = "inode") /\ cut \in BOOLEAN
  BY PathFacts
<1>4. increment.offset \in 0..Len(whole) /\ start.offset \in 0..Len(whole)
  BY <1>1, <1>2 DEF Sound
<1>5. increment.offset \in Nat /\ start.offset \in Nat /\ increment.offset <= Len(whole)
  BY <1>3, <1>4
<1>6. ~ cut
  BY <1>3, PathIs DEF Mine
<1>7. Prefix(Content, whole)
  BY ContentIs
<1>8. /\ IsBytes(Content) /\ Len(Content) \in Nat /\ Len(Content) <= Len(whole)
      /\ \A i \in 1..Len(Content) : Content[i] = whole[i]
  BY <1>7, LenProperties DEF Prefix, IsBytes
<1>9. /\ IsBytes(read) /\ Len(read) \in Nat /\ Len(read) <= limit
      /\ Len(read) > 0 => increment.offset + Len(read) <= Len(Content)
      /\ \A q \in 1..Len(read) : read[q] = whole[increment.offset + q]
      /\ \A q \in 1..(Len(read) - 1) : ~ IsNewline(whole[increment.offset + q])
  <2>1. PICK o \in Nat : increment.offset = o
    BY <1>5
  <2>2. PICK l \in Nat : Len(Content) = l
    BY <1>8
  <2>3. IsBytes(Content) /\ \A i \in 1..l : Content[i] = whole[i]
    BY <1>8, <2>2
  <2>4. PICK bytes : bytes = whole
    OBVIOUS
  <2>5. /\ IsBytes(read) /\ Len(read) \in Nat /\ Len(read) <= limit
        /\ Len(read) > 0 => o + Len(read) <= l
        /\ \A q \in 1..Len(read) : read[q] = bytes[o + q]
        /\ \A q \in 1..(Len(read) - 1) : ~ IsNewline(bytes[o + q])
    BY <2>1, <2>2, <2>3, <2>4, AvailableIs, SMTT(40)
  <2>6. QED
    BY <2>1, <2>2, <2>4, <2>5
<1>10. increment.offset + Len(read) <= Len(whole)
  BY <1>3, <1>5, <1>8, <1>9
<1>11. QED
  BY <1>2, <1>5, <1>6, <1>9, <1>10

(* The bytes that were read from o end at m. *)
ReadTo(bytes, o, read, m) ==
  /\ o \in Nat /\ Len(bytes) \in Nat /\ m \in o..Len(bytes)
  /\ m - o = Len(read) /\ Len(read) \in Nat
  /\ EndsLine(read) => /\ m \in (o + 1)..Len(bytes) /\ IsNewline(bytes[m])
                       /\ \A i \in (o + 1)..(m - 1) : ~ IsNewline(bytes[i])
  /\ ~ EndsLine(read) => \A i \in (o + 1)..m : ~ IsNewline(bytes[i])

LEMMA ReadEnds ==
  ASSUME ReadInv, pc = "read", Mine(Path, start), NEW limit \in Nat \ {0},
         NEW read, read = Available(limit), NEW m, m = increment.offset + Len(read)
  PROVE  ReadTo(whole, increment.offset, read, m) /\ Len(read) <= limit
<1>1. /\ increment.offset \in Nat /\ Len(whole) \in Nat
      /\ IsBytes(read) /\ Len(read) \in Nat /\ Len(read) <= limit
      /\ increment.offset + Len(read) <= Len(whole)
      /\ \A q \in 1..Len(read) : read[q] = whole[increment.offset + q]
      /\ \A q \in 1..(Len(read) - 1) : ~ IsNewline(whole[increment.offset + q])
  BY ReadIs, PathFacts
<1>2. PICK o \in Nat : o = increment.offset
  BY <1>1
<1>3. PICK k \in Nat : k = Len(read)
  BY <1>1
<1>4. m \in o..Len(whole) /\ m - o = k /\ m = o + k /\ m \in Nat
  BY <1>1, <1>2, <1>3
<1>5. ASSUME NEW i \in (o + 1)..(m - 1) PROVE ~ IsNewline(whole[i])
  <2>1. i - o \in 1..(k - 1) /\ o + (i - o) = i
    BY <1>4
  <2>2. ~ IsNewline(whole[o + (i - o)])
    BY <1>1, <1>2, <1>3, <2>1
  <2>3. QED
    BY <2>1, <2>2
<1>6. read = <<>> <=> k = 0
  BY <1>1, <1>3, EmptySeq DEF IsBytes
<1>7. k # 0 => k \in 1..k /\ read[k] = whole[m] /\ m \in (o + 1)..Len(whole)
  <2>1. HAVE k # 0
  <2>2. k \in 1..k /\ m \in (o + 1)..Len(whole)
    BY <1>1, <1>4, <2>1
  <2>3. QED
    BY <1>1, <1>2, <1>3, <1>4, <2>2
<1>8. EndsLine(read) => k # 0 /\ IsNewline(whole[m])
  BY <1>3, <1>6, <1>7 DEF EndsLine
<1>9. ~ EndsLine(read) => k = 0 \/ ~ IsNewline(whole[m])
  BY <1>3, <1>6, <1>7 DEF EndsLine
<1>10. ~ EndsLine(read) => \A i \in (o + 1)..m : ~ IsNewline(whole[i])
  <2>1. SUFFICES ASSUME ~ EndsLine(read), NEW i \in (o + 1)..m PROVE ~ IsNewline(whole[i])
    OBVIOUS
  <2>2. k # 0 /\ (i = m \/ i \in (o + 1)..(m - 1))
    BY <1>4
  <2>3. QED
    BY <1>5, <1>9, <2>1, <2>2
<1>11. QED
  BY <1>1, <1>2, <1>3, <1>4, <1>5, <1>7, <1>8, <1>10 DEF ReadTo

LEMMA AdvancedIs ==
  /\ Advanced.offset = increment.offset /\ Advanced.last_ts = increment.last_ts
  /\ Advanced.skipping = increment.skipping
BY DEF Advanced

LEMMA SkipSound ==
  ASSUME ReadInv, pc = "read", Mine(Path, start), increment.skipping,
         NEW limit \in Nat \ {0}, NEW read, read = Available(limit),
         NEW d, d.offset = increment.offset + Len(read), d.last_ts = increment.last_ts,
         d.skipping = ~ EndsLine(read)
  PROVE  /\ Sound(Path, d)
         /\ Covered(identity, Expected(identity, whole, d.offset),
                    times, recorded \cup increment.drafts)
<1>1. PICK m : m = increment.offset + Len(read)
  OBVIOUS
<1>2. PICK o : o = increment.offset
  OBVIOUS
<1>3. /\ m \in o..Len(whole)
      /\ EndsLine(read) =>
              /\ m \in (o + 1)..Len(whole) /\ IsNewline(whole[m])
              /\ \A i \in (o + 1)..(m - 1) : ~ IsNewline(whole[i])
      /\ ~ EndsLine(read) => \A i \in (o + 1)..m : ~ IsNewline(whole[i])
  <2>1. ReadTo(whole, o, read, m)
    BY <1>1, <1>2, ReadEnds
  <2>2. QED
    BY <2>1 DEF ReadTo
<1>4. /\ Sound(Path, Advanced) /\ ~ Path.cut /\ IsPath(Path)
      /\ Path.whole = whole /\ Path.identity = identity
      /\ Covered(identity, Expected(identity, whole, o), times, recorded \cup increment.drafts)
  BY <1>2, ReadIs, PathIs, PathFacts
<1>5. PICK c : c = Advanced
  OBVIOUS
<1>6. c.offset = o /\ c.last_ts = d.last_ts /\ c.skipping /\ Sound(Path, c)
  BY <1>2, <1>4, <1>5, AdvancedIs
<1>7. CASE EndsLine(read)
  <2>1. d.skipping = FALSE
    BY <1>7
  <2>2. Sound(Path, d) /\ Expected(Path.identity, Path.whole, m)
          \subseteq Expected(Path.identity, Path.whole, c.offset)
    BY <1>1, <1>3, <1>4, <1>6, <1>7, <2>1, SkipToEnd
  <2>3. QED
    BY <1>1, <1>4, <1>6, <2>2, CoveredStill
<1>8. CASE ~ EndsLine(read)
  <2>1. d.skipping = TRUE
    BY <1>8
  <2>2. Sound(Path, d) /\ Expected(Path.identity, Path.whole, m)
          = Expected(Path.identity, Path.whole, c.offset)
    BY <1>1, <1>3, <1>4, <1>6, <1>8, <2>1, SkipMore
  <2>3. QED
    BY <1>1, <1>4, <1>6, <2>2
<1>9. QED
  BY <1>7, <1>8

LEMMA SkipStep ==
  ASSUME ReadInv, Skip
  PROVE  ReadInv'
<1> DEFINE read == Available(MaxScan - Scanned)
<1>1. /\ pc = "read" /\ pc' \in {"read", "send"} /\ increment.skipping /\ Scanned < MaxScan
      /\ UNCHANGED <<file, known, cursor, start, held, writer>>
      /\ increment' = [increment EXCEPT !.offset = @ + Len(read), !.skipping = ~ EndsLine(read)]
  BY DEF Skip, WithinBudget
<1>2. increment' = [offset |-> increment.offset + Len(read), last_ts |-> increment.last_ts,
                    skipping |-> ~ EndsLine(read), drafts |-> increment.drafts,
                    count |-> increment.count, text |-> increment.text]
  BY <1>1, Reading
<1> HIDE DEF read
<1>3. increment' = [offset |-> increment'.offset, last_ts |-> increment'.last_ts,
                    skipping |-> increment'.skipping, drafts |-> increment'.drafts,
                    count |-> increment'.count, text |-> increment'.text]
  BY <1>2
<1>4. /\ increment'.offset = increment.offset + Len(read)
      /\ increment'.last_ts = increment.last_ts /\ increment'.skipping = ~ EndsLine(read)
      /\ increment'.drafts = increment.drafts
  BY <1>2
<1>5. PICK d : d = Advanced'
  OBVIOUS
<1>6. /\ d.offset = increment'.offset /\ d.last_ts = increment'.last_ts
      /\ d.skipping = increment'.skipping
  BY <1>5 DEF Advanced
<1>7. ASSUME Mine(Path, start)
      PROVE  /\ Sound(Path, d)
             /\ Covered(identity, Expected(identity, whole, d.offset),
                        times, recorded \cup increment.drafts)
  <2>1. increment.offset \in Nat /\ start.offset \in Nat
    <3>1. 1 \in Nat \ {0}
      OBVIOUS
    <3>2. QED
      BY <1>1, <1>7, <3>1, ReadIs
  <2>2. MaxScan - Scanned \in Nat \ {0}
    BY <1>1, <2>1, TranscriptAssumption DEF Scanned
  <2>3. PICK limit \in Nat \ {0} : limit = MaxScan - Scanned
    BY <2>2
  <2>4. read = Available(limit)
    BY <2>3 DEF read
  <2>5. QED
    BY <1>1, <1>4, <1>6, <1>7, <2>4, SkipSound
<1>8. QED
  BY <1>1, <1>3, <1>4, <1>5, <1>6, <1>7, LoopStep

(* The position of an increment that is not skipping. *)
LEMMA AtLine ==
  ASSUME ReadInv, pc = "read", Mine(Path, start), ~ increment.skipping
  PROVE  /\ InLines(whole) /\ IsBytes(whole) /\ increment.offset \in 0..Len(whole)
         /\ increment.offset = 0 \/ IsNewline(whole[increment.offset])
<1>1. 1 \in Nat \ {0}
  OBVIOUS
<1>2. Sound(Path, Advanced) /\ ~ cut
  BY <1>1, ReadIs
<1>3. InLines(whole) /\ IsBytes(whole)
  <2>1. IsPath(Path)
    BY PathFacts
  <2>2. QED
    BY <1>2, <2>1, PathIs DEF IsPath
<1>4. ~ Advanced.skipping /\ Advanced.offset = increment.offset /\ Path.whole = whole
  BY AdvancedIs, PathIs
<1>5. /\ increment.offset \in 0..Len(whole)
      /\ increment.offset = 0 \/ IsNewline(whole[increment.offset])
  BY <1>2, <1>4, Zenon DEF Sound
<1>6. QED
  BY <1>3, <1>5

(* What begins and ends with a line is all of it. *)
LEMMA LineParses ==
  ASSUME NEW bytes, IsBytes(bytes), InLines(bytes), NEW o \in 0..Len(bytes),
         o = 0 \/ IsNewline(bytes[o]), NEW m \in (o + 1)..Len(bytes), IsNewline(bytes[m]),
         \A i \in (o + 1)..(m - 1) : ~ IsNewline(bytes[i]),
         NEW read, IsBytes(read), Len(read) = m - o,
         \A q \in 1..(m - o) : read[q] = bytes[o + q]
  PROVE  Parses(read) /\ LineOf(read[1]) = LineOf(bytes[m])
<1>1. Len(bytes) \in Nat /\ o \in Nat /\ m \in Nat /\ m \in 1..Len(bytes)
  BY LenProperties DEF IsBytes
<1>2. /\ Fields[bytes[m][2]].len = m - o
      /\ \A j \in (o + 1)..m : bytes[j] = <<bytes[m][1], bytes[m][2], j - o>>
  BY NextLine
<1>3. PICK a, b : a = bytes[m][1] /\ b = bytes[m][2]
  OBVIOUS
<1>4. a \in Nat /\ b \in Lines
  BY <1>1, <1>3, ByteAt
<1>5. ASSUME NEW q \in 1..(m - o) PROVE read[q] = <<a, b, q>>
  <2>1. o + q \in (o + 1)..m /\ (o + q) - o = q
    BY <1>1
  <2>2. bytes[o + q] = <<a, b, (o + q) - o>>
    BY <1>2, <1>3, <2>1
  <2>3. QED
    BY <2>1, <2>2
<1>6. /\ IsBytes(Bytes(a, b)) /\ Len(Bytes(a, b)) = Fields[b].len
      /\ \A q \in 1..Fields[b].len : Bytes(a, b)[q] = <<a, b, q>>
  BY <1>4, LineIs
<1>7. Fields[b].len = Len(read)
  BY <1>2, <1>3
<1>8. read = Bytes(a, b)
  <2>1. \A q \in 1..Len(read) : read[q] = Bytes(a, b)[q]
    BY <1>5, <1>6, <1>7
  <2>2. read \in Seq(Nat \X Lines \X Nat) /\ Bytes(a, b) \in Seq(Nat \X Lines \X Nat)
    BY <1>6 DEF IsBytes
  <2>3. Len(read) = Len(Bytes(a, b))
    BY <1>6, <1>7
  <2>4. QED
    BY <2>1, <2>2, <2>3, SeqEqual
<1>9. read[1] = <<a, b, 1>>
  <2>1. 1 \in 1..(m - o)
    BY <1>1
  <2>2. QED
    BY <1>5, <2>1
<1>10. read[1][1] = a /\ read[1][2] = b
  BY <1>9
<1>11. Parses(read)
  BY <1>8, <1>10 DEF Parses
<1>12. LineOf(read[1]) = LineOf(bytes[m])
  BY <1>3, <1>10 DEF LineOf
<1>13. QED
  BY <1>11, <1>12

LEMMA WholeLine ==
  ASSUME ReadInv, pc = "read", Mine(Path, start), ~ increment.skipping,
         NEW limit \in Nat \ {0}, NEW read, read = Available(limit),
         NEW m, m = increment.offset + Len(read)
  PROVE  EndsLine(read) => Parses(read) /\ LineOf(read[1]) = LineOf(whole[m])
<1>1. PICK o : o = increment.offset
  OBVIOUS
<1>2. ReadTo(whole, o, read, m)
  BY <1>1, ReadEnds
<1>3. HAVE EndsLine(read)
<1>4. /\ InLines(whole) /\ IsBytes(whole) /\ o \in 0..Len(whole)
      /\ (o = 0 \/ IsNewline(whole[o]))
  BY <1>1, AtLine
<1>5. IsBytes(read) /\ \A q \in 1..Len(read) : read[q] = whole[o + q]
  BY <1>1, ReadIs
<1>6. PICK n : n = m
  OBVIOUS
<1>7. PICK bytes : bytes = whole
  OBVIOUS
<1>8. /\ IsBytes(bytes) /\ InLines(bytes) /\ IsBytes(read)
      /\ o \in 0..Len(bytes) /\ n \in (o + 1)..Len(bytes) /\ Len(read) = n - o
      /\ \A i \in (o + 1)..(n - 1) : ~ IsNewline(bytes[i])
      /\ IsNewline(bytes[n]) /\ (o = 0 \/ IsNewline(bytes[o]))
      /\ \A q \in 1..(n - o) : read[q] = bytes[o + q]
  BY <1>2, <1>3, <1>4, <1>5, <1>6, <1>7 DEF ReadTo
<1>9. Parses(read) /\ LineOf(read[1]) = LineOf(bytes[n])
  BY <1>8, LineParses
<1>10. QED
  BY <1>6, <1>7, <1>9

(* The caps of a read. *)
LEMMA CapIs ==
  ASSUME ReadInv, pc = "read", Mine(Path, start), Scanned < MaxScan
  PROVE  /\ ReadCap \in Nat \ {0} /\ LineCap \in Nat \ {0} /\ ReadCap <= LineCap
         /\ identity = "head" => LineCap = MaxLine
         /\ identity # "head" => LineCap > Len(whole)
<1>1. 1 \in Nat \ {0}
  OBVIOUS
<1>2. increment.offset \in Nat /\ start.offset \in Nat
  BY <1>1, ReadIs
<1>3. MaxScan \in Nat \ {0} /\ MaxLine \in Nat \ {0} /\ MaxBytes \in Nat
  BY TranscriptAssumption
<1>4. PICK rest \in Nat \ {0} : rest = MaxScan - Scanned
  BY <1>2, <1>3 DEF Scanned
<1>5. LineCap \in Nat \ {0}
  BY <1>3 DEF LineCap
<1>6. /\ identity = "head" => LineCap = MaxLine
      /\ identity # "head" => LineCap > Len(whole)
  BY <1>3, PathFacts DEF LineCap
<1>7. ReadCap \in {LineCap, rest} /\ ReadCap <= LineCap
  <2>1. CASE Scanned = 0
    BY <1>5, <2>1 DEF ReadCap
  <2>2. CASE Scanned # 0
    <3>1. ReadCap = Min({LineCap, rest})
      BY <1>4, <2>2 DEF ReadCap
    <3>2. {LineCap, rest} \subseteq Nat /\ {LineCap, rest} # {} /\ LineCap \in {LineCap, rest}
      BY <1>5
    <3>3. Min({LineCap, rest}) \in {LineCap, rest}
          /\ \A n \in {LineCap, rest} : Min({LineCap, rest}) <= n
      BY <3>2, MinIsLeast
    <3>4. QED
      BY <3>1, <3>2, <3>3
  <2>3. QED
    BY <2>1, <2>2
<1>8. QED
  BY <1>5, <1>6, <1>7

(* A line that is read whole. *)
LEMMA LineSound ==
  ASSUME ReadInv, pc = "read", Mine(Path, start), increment.skipping = FALSE,
         Scanned < MaxScan, NEW read, read = Available(ReadCap), EndsLine(read),
         NEW mtime \in times, NEW m, m = increment.offset + Len(read),
         NEW d, d.offset = m, d.skipping = FALSE,
         d.last_ts = IF MessageTs(LineOf(whole[m])) = None THEN increment.last_ts
                     ELSE MessageTs(LineOf(whole[m]))
  PROVE  /\ Sound(Path, d)
         /\ Covered(identity, Expected(identity, whole, m), times,
              recorded \cup (increment.drafts
                               \cup Wanted(identity, LineOf(whole[m]), increment.last_ts, mtime)))
<1>1. PICK limit \in Nat \ {0} : limit = ReadCap
  BY CapIs
<1>2. limit <= LineCap /\ LineCap \in Nat \ {0} /\ (identity = "head" => LineCap = MaxLine)
  BY <1>1, CapIs
<1>3. PICK o : o = increment.offset
  OBVIOUS
<1>4. ReadTo(whole, o, read, m) /\ Len(read) <= limit
  BY <1>1, <1>3, ReadEnds
<1>5. PICK c : c = Advanced
  OBVIOUS
<1>6. /\ Sound(Path, c) /\ ~ Path.cut /\ IsPath(Path)
      /\ Path.whole = whole /\ Path.identity = identity
      /\ Covered(identity, Expected(identity, whole, o), times, recorded \cup increment.drafts)
  BY <1>1, <1>3, <1>5, ReadIs, PathIs, PathFacts
<1>7. c.offset = o /\ c.last_ts = increment.last_ts /\ c.skipping = FALSE
  BY <1>3, <1>5, AdvancedIs
<1>8. /\ m \in (o + 1)..Len(whole) /\ IsNewline(whole[m]) /\ m - o = Len(read)
      /\ Len(read) \in Nat
      /\ \A i \in (o + 1)..(m - 1) : ~ IsNewline(whole[i])
  BY <1>4 DEF ReadTo
<1>9. identity = "head" => m - o <= MaxLine
  BY <1>2, <1>4, <1>8
<1>10. PICK p : p = Path
  OBVIOUS
<1>11. /\ IsPath(p) /\ ~ p.cut /\ Sound(p, c) /\ ~ c.skipping
       /\ m \in (c.offset + 1)..Len(p.whole) /\ IsNewline(p.whole[m])
       /\ \A i \in (c.offset + 1)..(m - 1) : ~ IsNewline(p.whole[i])
       /\ p.identity = "head" => m - c.offset <= MaxLine
       /\ d.last_ts = IF MessageTs(LineOf(p.whole[m])) = None THEN c.last_ts
                      ELSE MessageTs(LineOf(p.whole[m]))
  BY <1>6, <1>7, <1>8, <1>9, <1>10
<1>12. /\ Sound(p, d)
       /\ Expected(p.identity, p.whole, m) \subseteq
            Expected(p.identity, p.whole, c.offset) \cup {<<LineOf(p.whole[m]), c.last_ts>>}
  BY <1>11, ReadOn
<1>13. PICK line, ts, all :
         /\ line = LineOf(whole[m]) /\ ts = increment.last_ts
         /\ all = recorded \cup (increment.drafts \cup Wanted(identity, line, ts, mtime))
  OBVIOUS
<1>14. recorded \cup increment.drafts \subseteq all /\ Wanted(identity, line, ts, mtime) \subseteq all
  BY <1>13
<1>15. Covered(identity, Expected(identity, whole, o) \cup {<<line, ts>>}, times, all)
  BY <1>6, <1>14, CoveredOneMore
<1>16. Expected(identity, whole, m) \subseteq Expected(identity, whole, o) \cup {<<line, ts>>}
  BY <1>6, <1>7, <1>10, <1>12, <1>13
<1>17. Covered(identity, Expected(identity, whole, m), times, all)
  BY <1>15, <1>16, CoveredStill
<1>18. QED
  BY <1>6, <1>10, <1>12, <1>13, <1>17

(* A line that exceeds the cap. *)
LEMMA CapSound ==
  ASSUME ReadInv, pc = "read", Mine(Path, start), increment.skipping = FALSE,
         Scanned < MaxScan, NEW read, read = Available(ReadCap), ~ EndsLine(read),
         ~ (Len(read) < ReadCap), ~ (ReadCap < LineCap),
         NEW d, d.offset = increment.offset + Len(read), d.skipping = TRUE,
         d.last_ts = increment.last_ts
  PROVE  /\ Sound(Path, d)
         /\ Covered(identity, Expected(identity, whole, d.offset),
                    times, recorded \cup increment.drafts)
<1>1. PICK limit \in Nat \ {0} : limit = ReadCap
  BY CapIs
<1>2. /\ limit <= LineCap /\ LineCap \in Nat \ {0} /\ Len(whole) \in Nat
      /\ (identity = "head" => LineCap = MaxLine) /\ (identity # "head" => LineCap > Len(whole))
  BY <1>1, CapIs, PathFacts
<1>3. PICK o : o = increment.offset
  OBVIOUS
<1>4. PICK m : m = increment.offset + Len(read)
  OBVIOUS
<1>5. ReadTo(whole, o, read, m) /\ Len(read) <= limit
  BY <1>1, <1>3, <1>4, ReadEnds
<1>6. PICK c : c = Advanced
  OBVIOUS
<1>7. /\ Sound(Path, c) /\ ~ Path.cut /\ IsPath(Path)
      /\ Path.whole = whole /\ Path.identity = identity
      /\ Covered(identity, Expected(identity, whole, o), times, recorded \cup increment.drafts)
  BY <1>1, <1>3, <1>6, ReadIs, PathIs, PathFacts
<1>8. c.offset = o /\ c.last_ts = increment.last_ts /\ c.skipping = FALSE
  BY <1>3, <1>6, AdvancedIs
<1>9. /\ o \in Nat /\ m \in o..Len(whole) /\ m - o = Len(read) /\ Len(read) \in Nat
      /\ \A i \in (o + 1)..m : ~ IsNewline(whole[i])
  BY <1>5 DEF ReadTo
<1>10. Len(read) = LineCap
  BY <1>1, <1>2, <1>5, <1>9
<1>11. identity = "head" /\ Len(read) = MaxLine
  BY <1>2, <1>9, <1>10
<1>12. m = o + MaxLine /\ MaxLine \in Nat \ {0}
  BY <1>2, <1>9, <1>11
<1>13. PICK p : p = Path
  OBVIOUS
<1>14. /\ IsPath(p) /\ ~ p.cut /\ Sound(p, c) /\ ~ c.skipping
       /\ p.identity = "head" /\ c.offset + MaxLine <= Len(p.whole)
       /\ \A i \in (c.offset + 1)..(c.offset + MaxLine) : ~ IsNewline(p.whole[i])
       /\ d.offset = c.offset + MaxLine /\ d.last_ts = c.last_ts
  <2>1. IsPath(p) /\ ~ p.cut /\ Sound(p, c) /\ ~ c.skipping /\ p.identity = "head"
    BY <1>7, <1>8, <1>11, <1>13
  <2>2. p.whole = whole /\ m <= Len(whole) /\ d.offset = m
    BY <1>2, <1>4, <1>7, <1>9, <1>13
  <2>3. c.offset + MaxLine <= Len(p.whole) /\ d.offset = c.offset + MaxLine
    BY <1>8, <1>12, <2>2
  <2>4. \A i \in (c.offset + 1)..(c.offset + MaxLine) : ~ IsNewline(p.whole[i])
    BY <1>8, <1>9, <1>12, <2>2
  <2>5. QED
    BY <1>8, <2>1, <2>3, <2>4
<1>15. /\ Sound(p, d)
       /\ Expected(p.identity, p.whole, d.offset) = Expected(p.identity, p.whole, c.offset)
  BY <1>14, BeginSkip
<1>16. QED
  BY <1>7, <1>8, <1>13, <1>15

LEMMA ReadLineStep ==
  ASSUME ReadInv, MtimeInv, ReadLine
  PROVE  ReadInv'
<1>1. /\ pc = "read" /\ ~ increment.skipping /\ Scanned < MaxScan
      /\ UNCHANGED <<file, known, cursor, start, held, writer>>
  BY DEF ReadLine, WithinBudget
<1>2. PICK read : read = Available(ReadCap)
  OBVIOUS
<1>3. IF EndsLine(read)
        THEN /\ pc' = "read"
             /\ increment' = IF Parses(read)
                             THEN [Absorb(LineOf(read[1])) EXCEPT !.offset = @ + Len(read)]
                             ELSE [increment EXCEPT !.offset = @ + Len(read)]
      ELSE IF Len(read) < ReadCap \/ ReadCap < LineCap
        THEN pc' = "send" /\ UNCHANGED increment
      ELSE /\ pc' = "read"
           /\ increment' = [[increment EXCEPT !.offset = @ + Len(read)] EXCEPT !.skipping = TRUE]
  BY <1>2 DEF ReadLine
<1>4. increment = [offset |-> increment.offset, last_ts |-> increment.last_ts,
                   skipping |-> increment.skipping, drafts |-> increment.drafts,
                   count |-> increment.count, text |-> increment.text]
  BY <1>1, Reading
<1>5. PICK d : d = Advanced'
  OBVIOUS
<1>6. /\ d.offset = increment'.offset /\ d.last_ts = increment'.last_ts
      /\ d.skipping = increment'.skipping
  BY <1>5 DEF Advanced
<1>7. Mine(Path, start) =>
         /\ Sound(Path, Advanced) /\ increment.skipping = FALSE
         /\ Covered(identity, Expected(identity, whole, increment.offset),
                    times, recorded \cup increment.drafts)
  <2>1. HAVE Mine(Path, start)
  <2>2. /\ Sound(Path, Advanced)
        /\ Covered(identity, Expected(identity, whole, increment.offset),
                   times, recorded \cup increment.drafts)
    <3>1. 1 \in Nat \ {0}
      OBVIOUS
    <3>2. QED
      BY <1>1, <2>1, <3>1, ReadIs
  <2>3. Advanced.skipping \in BOOLEAN
    BY <2>2 DEF Sound
  <2>4. increment.skipping = FALSE
    BY <1>1, <2>3, AdvancedIs
  <2>5. QED
    BY <2>2, <2>4
<1>8. CASE EndsLine(read) /\ Parses(read)
  <2>1. PICK line : line = LineOf(read[1])
    OBVIOUS
  <2>2. PICK drafts : drafts = Wanted(identity, line, increment.last_ts, file_modified)
    OBVIOUS
  <2>3. PICK ts : ts = IF MessageTs(line) = None THEN increment.last_ts ELSE MessageTs(line)
    OBVIOUS
  <2>4. Absorb(line) =
          [increment EXCEPT !.drafts = @ \cup drafts,
                            !.count = @ + Cardinality(drafts),
                            !.text = @ + Cardinality({e \in drafts : e.kind = "message"}),
                            !.last_ts = ts]
    BY <2>2, <2>3 DEF Absorb
  <2>5. PICK count, text :
          Absorb(line) = [offset |-> increment.offset, last_ts |-> ts,
                          skipping |-> increment.skipping,
                          drafts |-> increment.drafts \cup drafts,
                          count |-> count, text |-> text]
    BY <1>4, <2>4
  <2>6. increment' = [Absorb(line) EXCEPT !.offset = @ + Len(read)] /\ pc' = "read"
    BY <1>3, <1>8, <2>1
  <2>7. increment' = [offset |-> increment.offset + Len(read), last_ts |-> ts,
                      skipping |-> increment.skipping,
                      drafts |-> increment.drafts \cup drafts, count |-> count, text |-> text]
    <3>1. PICK a, o, k, e : /\ a = Absorb(line) /\ o = increment.offset /\ k = increment.skipping
                            /\ e = increment.drafts \cup drafts
      OBVIOUS
    <3>2. a = [offset |-> o, last_ts |-> ts, skipping |-> k, drafts |-> e,
               count |-> count, text |-> text]
      BY <2>5, <3>1
    <3>3. [a EXCEPT !.offset = @ + Len(read)]
            = [offset |-> o + Len(read), last_ts |-> ts, skipping |-> k, drafts |-> e,
               count |-> count, text |-> text]
      BY <3>2
    <3>4. QED
      BY <2>6, <3>1, <3>3
  <2>8. /\ increment'.offset = increment.offset + Len(read) /\ increment'.last_ts = ts
        /\ increment'.skipping = increment.skipping
        /\ increment'.drafts = increment.drafts \cup drafts
    BY <2>7
  <2>9. increment' = [offset |-> increment'.offset, last_ts |-> increment'.last_ts,
                      skipping |-> increment'.skipping, drafts |-> increment'.drafts,
                      count |-> increment'.count, text |-> increment'.text]
    BY <2>7
  <2>10. ASSUME Mine(Path, start)
         PROVE  /\ Sound(Path, d)
                /\ Covered(identity, Expected(identity, whole, d.offset),
                           times, recorded \cup increment'.drafts)
    <3>1. PICK m : m = increment.offset + Len(read)
      OBVIOUS
    <3>2. PICK limit \in Nat \ {0} : limit = ReadCap
      BY <1>1, <2>10, CapIs
    <3>3. LineOf(read[1]) = LineOf(whole[m])
      BY <1>1, <1>2, <1>8, <2>10, <3>1, <3>2, WholeLine
    <3>4. /\ d.offset = m /\ d.skipping = FALSE /\ line = LineOf(whole[m])
          /\ d.last_ts = IF MessageTs(LineOf(whole[m])) = None THEN increment.last_ts
                         ELSE MessageTs(LineOf(whole[m]))
      BY <1>6, <1>7, <2>1, <2>3, <2>8, <2>10, <3>1, <3>3
    <3>5. /\ Sound(Path, d)
          /\ Covered(identity, Expected(identity, whole, m), times,
               recorded \cup (increment.drafts
                  \cup Wanted(identity, LineOf(whole[m]), increment.last_ts, file_modified)))
      <4>1. file_modified \in times
        BY <1>1, <2>10 DEF MtimeInv
      <4>2. QED
        BY <1>1, <1>2, <1>7, <1>8, <2>10, <3>1, <3>4, <4>1, LineSound
    <3>6. increment'.drafts = increment.drafts
            \cup Wanted(identity, LineOf(whole[m]), increment.last_ts, file_modified)
      BY <2>2, <2>8, <3>4
    <3>7. QED
      BY <3>4, <3>5, <3>6
  <2>11. QED
    BY <1>1, <1>5, <1>6, <2>6, <2>9, <2>10, LoopStep
<1>9. CASE EndsLine(read) /\ ~ Parses(read)
  <2>1. increment' = [increment EXCEPT !.offset = @ + Len(read)] /\ pc' = "read"
    BY <1>3, <1>9
  <2>2. increment' = [offset |-> increment'.offset, last_ts |-> increment'.last_ts,
                      skipping |-> increment'.skipping, drafts |-> increment'.drafts,
                      count |-> increment'.count, text |-> increment'.text]
    BY <1>4, <2>1
  <2>3. ~ Mine(Path, start)
    <3>1. SUFFICES ASSUME Mine(Path, start) PROVE FALSE
      OBVIOUS
    <3>2. PICK limit \in Nat \ {0} : limit = ReadCap
      BY <1>1, <3>1, CapIs
    <3>3. PICK m : m = increment.offset + Len(read)
      OBVIOUS
    <3>4. Parses(read)
      BY <1>1, <1>2, <1>9, <3>1, <3>2, <3>3, WholeLine
    <3>5. QED
      BY <1>9, <3>4
  <2>4. QED
    BY <1>1, <2>1, <2>2, <2>3, LoopStep
<1>10. CASE ~ EndsLine(read) /\ (Len(read) < ReadCap \/ ReadCap < LineCap)
  <2>1. increment' = increment /\ pc' = "send"
    BY <1>3, <1>10
  <2>2. Advanced' = Advanced
    BY <1>1, <2>1 DEF Advanced
  <2>3. QED
    BY <1>1, <1>4, <1>7, <2>1, <2>2, LoopStep
<1>11. CASE ~ EndsLine(read) /\ ~ (Len(read) < ReadCap \/ ReadCap < LineCap)
  <2>1. /\ pc' = "read"
        /\ increment' = [[increment EXCEPT !.offset = @ + Len(read)] EXCEPT !.skipping = TRUE]
    BY <1>3, <1>11
  <2>2. increment' = [offset |-> increment.offset + Len(read), last_ts |-> increment.last_ts,
                      skipping |-> TRUE, drafts |-> increment.drafts,
                      count |-> increment.count, text |-> increment.text]
    BY <1>4, <2>1
  <2>3. /\ increment'.offset = increment.offset + Len(read)
        /\ increment'.last_ts = increment.last_ts /\ increment'.skipping = TRUE
        /\ increment'.drafts = increment.drafts
    BY <2>2
  <2>4. increment' = [offset |-> increment'.offset, last_ts |-> increment'.last_ts,
                      skipping |-> increment'.skipping, drafts |-> increment'.drafts,
                      count |-> increment'.count, text |-> increment'.text]
    BY <2>2
  <2>5. ASSUME Mine(Path, start)
        PROVE  /\ Sound(Path, d)
               /\ Covered(identity, Expected(identity, whole, d.offset),
                          times, recorded \cup increment.drafts)
    BY <1>1, <1>2, <1>6, <1>7, <1>11, <2>3, <2>5, CapSound
  <2>6. QED
    BY <1>1, <1>5, <1>6, <2>1, <2>3, <2>4, <2>5, LoopStep
<1>12. QED
  BY <1>8, <1>9, <1>10, <1>11

(* ship_file returned: no local is left to be good. *)
LEMMA Returned ==
  ASSUME ReadInv, Return, UNCHANGED file, known' = known \/ known' = <<>>,
         recorded \subseteq recorded', inflight' = FALSE,
         stored' = stored \/ (stored' = Advanced /\ Good(Path, recorded', Advanced))
  PROVE  ReadInv'
<1>1. pc' = "idle" /\ held' = None
  BY DEF Return
<1>2. Path' = Path /\ FileInv'
  BY SamePath
<1>3. known' # <<>> => /\ known' = <<known'[1]>>
                       /\ known'[1] # None => Good(Path, recorded', known'[1])
  BY GoodMore DEF ReadInv, CursorInv
<1>4. Advanced.version = CursorVersion
  BY DEF Advanced
<1>5. stored' # None => /\ stored'.version \in {0, CursorVersion}
                        /\ stored'.version = CursorVersion => Good(Path, recorded', stored')
  BY <1>4, GoodMore DEF ReadInv, CursorInv
<1>6. CursorInv'
  BY <1>1, <1>2, <1>3, <1>5 DEF CursorInv
<1>7. HeldInv'
  BY <1>1 DEF HeldInv
<1>8. IncrementInv'
  BY <1>1 DEF IncrementInv
<1>9. QED
  BY <1>2, <1>6, <1>7, <1>8 DEF ReadInv

LEMMA UnreadableStep ==
  ASSUME ReadInv, FlightInv, Unreadable
  PROVE  ReadInv'
<1>1. /\ pc \in {"stat", "open", "read"} /\ Return /\ UNCHANGED <<file, known, writer>>
  BY DEF Unreadable
<1>2. inflight' = FALSE
  BY <1>1 DEF ReadInv, IncrementInv, FlightInv, writer
<1>3. recorded \subseteq recorded' /\ stored' = stored /\ known' = known /\ UNCHANGED file
  BY <1>1 DEF writer
<1>4. QED
  BY <1>1, <1>2, <1>3, Returned

LEMMA SendStep ==
  ASSUME ReadInv, FlightInv, Send
  PROVE  ReadInv'
<1>1. pc = "send" /\ UNCHANGED <<file, known, stored, recorded>>
  BY DEF Send
<1>2. CASE Return /\ UNCHANGED <<inflight, receipt>>
  <2>1. inflight' = FALSE
    BY <1>1, <1>2 DEF ReadInv, IncrementInv, FlightInv
  <2>2. recorded \subseteq recorded' /\ stored' = stored /\ known' = known /\ UNCHANGED file
    BY <1>1
  <2>3. QED
    BY <1>2, <2>1, <2>2, Returned
<1>3. CASE /\ pc' = "await" /\ inflight' = TRUE /\ receipt' = "pending"
           /\ held' = None /\ UNCHANGED <<cursor, start, increment>>
  <2>1. Path' = Path /\ FileInv'
    BY <1>1, SamePath
  <2>2. Advanced' = Advanced
    BY <1>3 DEF Advanced
  <2>3. Good(Path, recorded, start) /\ Good(Path, recorded \cup increment.drafts, Advanced)
    BY <1>1, Reading
  <2>4. CursorInv'
    BY <1>1, <1>3, <2>1, <2>3 DEF ReadInv, CursorInv
  <2>5. HeldInv'
    BY <1>3 DEF HeldInv
  <2>6. IncrementInv'
    BY <1>1, <1>3, <2>1, <2>2, <2>3 DEF ReadInv, IncrementInv
  <2>7. QED
    BY <2>1, <2>4, <2>5, <2>6 DEF ReadInv
<1>4. QED
  BY <1>2, <1>3 DEF Send

LEMMA ReceiveStep ==
  ASSUME ReadInv, FlightInv, Receive
  PROVE  ReadInv'
<1>1. /\ pc = "await" /\ receipt # "pending"
      /\ UNCHANGED <<file, inflight, stored, recorded>>
  BY DEF Receive
<1>2. inflight' = FALSE
  BY <1>1 DEF ReadInv, IncrementInv, FlightInv
<1>3. CASE /\ receipt = "committed" /\ known' = <<Advanced>> /\ cursor' = Advanced
           /\ pc' = "stat" /\ UNCHANGED held
  <2>1. Path' = Path /\ FileInv'
    BY <1>1, SamePath
  <2>2. Good(Path, recorded, Advanced)
    <3>1. recorded \cup increment.drafts \subseteq recorded
      BY <1>1, <1>3 DEF ReadInv, IncrementInv
    <3>2. QED
      BY <1>1, <3>1, Reading, GoodMore
  <2>3. known'[1] = Advanced /\ known' = <<known'[1]>>
    BY <1>3
  <2>4. CursorInv'
    BY <1>1, <1>3, <2>1, <2>2, <2>3 DEF ReadInv, CursorInv
  <2>5. HeldInv'
    BY <1>1, <1>3 DEF ReadInv, HeldInv
  <2>6. IncrementInv'
    BY <1>2, <1>3 DEF IncrementInv
  <2>7. QED
    BY <2>1, <2>4, <2>5, <2>6 DEF ReadInv
<1>4. CASE Return /\ UNCHANGED known
  <2>1. recorded \subseteq recorded' /\ stored' = stored /\ known' = known /\ UNCHANGED file
    BY <1>1, <1>4
  <2>2. QED
    BY <1>2, <1>4, <2>1, Returned
<1>5. QED
  BY <1>3, <1>4 DEF Receive

LEMMA CommitStep ==
  ASSUME ReadInv, Commit
  PROVE  ReadInv'
<1>1. /\ inflight /\ inflight' = FALSE /\ receipt' = "committed" /\ stored' = Advanced
      /\ recorded' = recorded \cup increment.drafts /\ UNCHANGED <<file, provider>>
  BY DEF Commit
<1>2. pc = "await"
  BY <1>1 DEF ReadInv, IncrementInv
<1>3. Path' = Path /\ FileInv'
  BY <1>1, SamePath
<1>4. /\ pc' = pc /\ known' = known /\ cursor' = cursor /\ start' = start /\ held' = held
      /\ increment' = increment
  BY <1>1 DEF provider
<1>5. Advanced' = Advanced /\ Advanced.version = CursorVersion
  BY <1>4 DEF Advanced
<1>6. /\ Good(Path, recorded', Advanced) /\ Good(Path, recorded', start)
      /\ recorded \subseteq recorded' /\ increment.drafts \subseteq recorded'
  BY <1>1, <1>2, Reading, GoodMore
<1>7. known # <<>> => /\ known = <<known[1]>>
                      /\ known[1] # None => Good(Path, recorded', known[1])
  BY <1>6, GoodMore DEF ReadInv, CursorInv
<1>8. CursorInv'
  BY <1>1, <1>2, <1>3, <1>4, <1>5, <1>6, <1>7 DEF CursorInv
<1>9. HeldInv'
  BY <1>2, <1>4 DEF ReadInv, HeldInv
<1>10. Good(Path', (recorded \cup increment.drafts)', Advanced')
  BY <1>3, <1>4, <1>5, <1>6, GoodMore
<1>11. IncrementInv'
  BY <1>1, <1>2, <1>4, <1>6, <1>10 DEF ReadInv, IncrementInv
<1>12. QED
  BY <1>3, <1>8, <1>9, <1>11 DEF ReadInv

LEMMA RefuseEmissionStep ==
  ASSUME ReadInv, RefuseEmission
  PROVE  ReadInv'
<1>1. /\ inflight' = FALSE /\ receipt' = "dropped" /\ UNCHANGED <<file, provider, stored, recorded>>
  BY DEF RefuseEmission
<1>2. Path' = Path /\ FileInv'
  BY <1>1, SamePath
<1>3. /\ pc' = pc /\ known' = known /\ cursor' = cursor /\ start' = start /\ held' = held
      /\ increment' = increment /\ stored' = stored /\ recorded' = recorded
      /\ whole' = whole
  BY <1>1 DEF provider, file
<1>4. Advanced' = Advanced
  BY <1>3 DEF Advanced
<1>5. CursorInv'
  BY <1>2, <1>3 DEF ReadInv, CursorInv
<1>6. HeldInv'
  BY <1>2, <1>3 DEF ReadInv, HeldInv
<1>7. IncrementInv'
  BY <1>1, <1>2, <1>3, <1>4 DEF ReadInv, IncrementInv
<1>8. QED
  BY <1>2, <1>5, <1>6, <1>7 DEF ReadInv

LEMMA RestartStep ==
  ASSUME ReadInv, FlightInv, Restart
  PROVE  ReadInv'
<1>1. Return /\ known' = <<>> /\ UNCHANGED file
  BY DEF Restart
<1>2. CASE inflight' = FALSE /\ UNCHANGED <<stored, recorded>>
  <2>1. recorded \subseteq recorded' /\ stored' = stored
    BY <1>2
  <2>2. QED
    BY <1>1, <1>2, <2>1, Returned
<1>3. CASE /\ inflight /\ stored' = Advanced /\ recorded' = recorded \cup increment.drafts
           /\ inflight' = FALSE
  <2>1. pc = "await"
    BY <1>3 DEF ReadInv, IncrementInv
  <2>2. Good(Path, recorded', Advanced) /\ recorded \subseteq recorded'
    BY <1>3, <2>1, Reading
  <2>3. QED
    BY <1>1, <1>3, <2>2, Returned
<1>4. CASE ~ inflight /\ UNCHANGED <<inflight, stored, recorded>>
  <2>1. recorded \subseteq recorded' /\ stored' = stored /\ inflight' = FALSE
    BY <1>4 DEF FlightInv
  <2>2. QED
    BY <1>1, <2>1, Returned
<1>5. QED
  BY <1>2, <1>3, <1>4 DEF Restart
-----------------------------------------------------------------------------
(* The initial states. *)

LEMMA FirstPath ==
  ASSUME Init
  PROVE  FileInv
<1>1. /\ identity \in {"inode", "head"} /\ inode = 1 /\ session = 1 /\ cut = FALSE
  BY DEF Init
<1>2. MaxBytes \in Nat
  BY TranscriptAssumption
<1>3. IsBytes(<<>>) /\ Len(<<>>) = 0 /\ InLines(<<>>)
  BY EmptySeq DEF IsBytes, InLines
<1>4. CASE whole = <<>> /\ length = 0
  <2>1. IsBytes(whole) /\ Len(whole) = 0 /\ InLines(whole)
    BY <1>3, <1>4, Zenon
  <2>2. /\ Len(whole) <= MaxBytes /\ ~ (Len(whole) > 0) /\ length \in 0..Len(whole)
        /\ \A i \in 1..Len(whole) : whole[i][1] = session
    BY <1>2, <1>4, <2>1
  <2>3. inode \in Nat /\ session \in Nat
    BY <1>1
  <2>4. IsPath(Path)
    BY <1>1, <2>1, <2>2, <2>3, PathIs, Zenon DEF IsPath
  <2>5. QED
    BY <2>2, <2>4 DEF FileInv
<1>5. CASE \E line \in Lines :
             /\ Fields[line].len <= MaxBytes
             /\ whole = Bytes(1, line) /\ length = Fields[line].len
  <2>1. PICK line \in Lines :
          /\ Fields[line].len <= MaxBytes
          /\ whole = Bytes(1, line) /\ length = Fields[line].len
    BY <1>5
  <2>2. PICK more : more = Bytes(1, line)
    OBVIOUS
  <2>3. /\ IsBytes(more) /\ Fields[line].len \in Nat \ {0} /\ Len(more) = Fields[line].len
        /\ \A i \in 1..Fields[line].len : more[i] = <<1, line, i>>
    <3>1. 1 \in Nat
      OBVIOUS
    <3>2. QED
      BY <2>2, <3>1, LineIs
  <2>4. InLines(more) /\ IsNewline(more[Len(more)])
    <3>1. PICK none : none = <<>>
      OBVIOUS
    <3>2. /\ IsBytes(none) /\ InLines(none) /\ Len(none) = 0 /\ 1 \in Nat
      BY <1>3, <3>1
    <3>3. /\ Prefix(none, more) /\ Len(more) = Len(none) + Fields[line].len
          /\ \A i \in 1..Fields[line].len : more[Len(none) + i] = <<1, line, i>>
          /\ ~ (Len(none) > 0)
      BY <2>3, <3>2 DEF Prefix
    <3>4. QED
      BY <3>2, <3>3, LinesAppended
  <2>5. whole = more
    BY <2>1, <2>2, Zenon
  <2>6. /\ Len(whole) <= MaxBytes /\ length \in 0..Len(whole)
        /\ \A i \in 1..Len(whole) : whole[i][1] = session
    BY <1>1, <2>1, <2>3, <2>5
  <2>7. inode \in Nat /\ session \in Nat
    BY <1>1
  <2>8. IsPath(Path)
    BY <1>1, <2>3, <2>4, <2>5, <2>6, <2>7, PathIs, Zenon DEF IsPath
  <2>9. QED
    BY <2>6, <2>8 DEF FileInv
<1>6. QED
  BY <1>4, <1>5 DEF Init

LEMMA ReadInit == Init => ReadInv
<1>1. HAVE Init
<1>2. FileInv
  BY <1>1, FirstPath
<1>3. stored # None => stored.version = 0
  BY <1>1 DEF Init, FromZero
<1>4. /\ pc = "idle" /\ known = <<>> /\ held = None /\ inflight = FALSE
  BY <1>1 DEF Init
<1>5. CursorInv
  BY <1>3, <1>4 DEF CursorInv, CursorVersion
<1>6. HeldInv
  BY <1>4 DEF HeldInv
<1>7. IncrementInv
  BY <1>4 DEF IncrementInv
<1>8. QED
  BY <1>2, <1>5, <1>6, <1>7 DEF ReadInv
-----------------------------------------------------------------------------
(* The mtime of the file. *)

LEMMA MtimeInit == Init => MtimeInv
<1>1. HAVE Init
<1>2. pc = "idle"
  BY <1>1 DEF Init
<1>3. CASE length = 0
  BY <1>2, <1>3 DEF MtimeInv
<1>4. CASE times = {modified}
  BY <1>2, <1>4 DEF MtimeInv
<1>5. QED
  BY <1>1, <1>3, <1>4 DEF Init

(* The file is replaced or cut: no cursor in use was made for it. *)
LEMMA Forgotten ==
  ASSUME ReadInv, pc \in {"open", "read"}, start' = start,
         \/ Replace
         \/ \E n \in 1..MaxBytes : Cut(n)
  PROVE  ~ Mine(Path', start')
<1>1. Good(Path, recorded, start) /\ Path.identity = identity /\ Path.inode = inode
      /\ Path.session = session
  BY StartIsGood, PathIs
<1>2. identity \in {"inode", "head"} /\ inode \in Nat /\ session \in Nat
  BY PathFacts
<1>3. CASE Replace
  <2>1. identity' = identity /\ inode' = inode + 1 /\ session' = session + 1
    BY <1>3 DEF Replace
  <2>2. CASE identity = "inode"
    BY <1>1, <1>2, <2>1, <2>2, PathIsNow DEF Good, IsCursor, Mine
  <2>3. CASE identity = "head"
    BY <1>1, <1>2, <2>1, <2>3, PathIsNow DEF Good, IsCursor, Mine
  <2>4. QED
    BY <1>2, <2>2, <2>3
<1>4. CASE \E n \in 1..MaxBytes : Cut(n)
  <2>1. identity' = "inode" /\ cut' = TRUE
    BY <1>4 DEF Cut
  <2>2. QED
    BY <2>1, PathIsNow DEF Mine
<1>5. QED
  BY <1>3, <1>4

(* There is something to read, so the file is not empty. *)
LEMMA StartBeforeEnd ==
  ASSUME ReadInv, pc = "stat", Start # None, Start.offset # length, Mine(Path, Start)
  PROVE  length > 0
<1>1. length \in Nat /\ identity \in {"inode", "head"}
  BY PathFacts
<1>2. CASE identity = "inode"
  <2>1. CASE Start = FromZero(None)
    <3>1. Start.offset = 0
      BY <2>1 DEF FromZero
    <3>2. QED
      BY <1>1, <3>1
  <2>2. CASE Start = cursor /\ cursor.offset <= length
    <3>1. Sound(Path, Start)
      BY StartGood DEF Good
    <3>2. Start.offset \in 0..Len(Path.whole) /\ Len(Path.whole) \in Nat
      BY <3>1, PathFacts, PathBytes DEF Sound
    <3>3. QED
      BY <1>1, <2>2, <3>2
  <2>3. QED
    BY <1>2, <2>1, <2>2 DEF Start
<1>3. CASE identity = "head"
  <2>1. HeadDigest # None
    BY <1>3 DEF Start
  <2>2. PICK i \in 1..length : IsNewline(whole[i]) \/ i = HeadBytes
    BY <2>1 DEF HeadDigest
  <2>3. QED
    BY <1>1, <2>2
<1>4. QED
  BY <1>1, <1>2, <1>3

LEMMA MtimeStep ==
  ASSUME ReadInv, MtimeInv, [Next]_vars
  PROVE  MtimeInv'
<1>1. CASE /\ UNCHANGED <<file, start, file_modified>>
           /\ pc' \in {"open", "read"} => pc \in {"open", "read"}
  <2>1. Path' = Path /\ length' = length /\ modified' = modified /\ times' = times
    BY <1>1, SamePath DEF file, mtimes
  <2>2. QED
    BY <1>1, <2>1 DEF MtimeInv
<1>2. CASE UNCHANGED file /\ pc' \notin {"open", "read"}
  <2>1. length' = length /\ modified' = modified /\ times' = times
    BY <1>2 DEF file, mtimes
  <2>2. QED
    BY <1>2, <2>1 DEF MtimeInv
<1>3. ASSUME NEW line \in Lines, Extend(line) PROVE MtimeInv'
  <2>1. /\ length' = length /\ modified' = modified /\ times' = times /\ pc' = pc
        /\ start' = start /\ file_modified' = file_modified
        /\ identity' = identity /\ inode' = inode /\ session' = session /\ cut' = cut
    BY <1>3 DEF Extend, mtimes, provider
  <2>2. Mine(Path', start') => Mine(Path, start)
    BY <2>1, PathIs, PathIsNow DEF Mine
  <2>3. QED
    BY <2>1, <2>2 DEF MtimeInv
<1>4. ASSUME NEW n \in 1..MaxBytes, Flush(n) PROVE MtimeInv'
  <2>1. /\ times' = times \cup {modified'} /\ pc' = pc
        /\ start' = start /\ file_modified' = file_modified
        /\ identity' = identity /\ inode' = inode /\ session' = session /\ cut' = cut
    BY <1>4 DEF Flush, Touch, provider
  <2>2. Mine(Path', start') => Mine(Path, start)
    BY <2>1, PathIs, PathIsNow DEF Mine
  <2>3. QED
    BY <2>1, <2>2 DEF MtimeInv
<1>5. ASSUME NEW n \in 1..MaxBytes, Cut(n) PROVE MtimeInv'
  <2>1. times' = times \cup {modified'} /\ pc' = pc /\ start' = start
    BY <1>5 DEF Cut, Touch, provider
  <2>2. pc' \in {"open", "read"} => ~ Mine(Path', start')
    BY <1>5, <2>1, Forgotten
  <2>3. QED
    BY <2>1, <2>2 DEF MtimeInv
<1>6. CASE Refill
  <2>1. /\ length' = 0 /\ times' = times /\ pc' = pc
        /\ start' = start /\ file_modified' = file_modified
        /\ identity = "head" /\ identity' = identity /\ session' = session
    BY <1>6 DEF Refill
  <2>2. Mine(Path', start') => Mine(Path, start)
    BY <2>1, PathIs, PathIsNow DEF Mine
  <2>3. QED
    BY <2>1, <2>2 DEF MtimeInv
<1>7. CASE Replace
  <2>1. length' = 0 /\ pc' = pc /\ start' = start
    BY <1>7 DEF Replace
  <2>2. pc' \in {"open", "read"} => ~ Mine(Path', start')
    BY <1>7, <2>1, Forgotten
  <2>3. QED
    BY <2>1, <2>2 DEF MtimeInv
<1>8. CASE Stat
  <2>1. /\ pc = "stat" /\ UNCHANGED file
        /\ pc' = "open" => /\ Start # None /\ Start.offset # length
                            /\ start' = Start /\ file_modified' = modified
    BY <1>8 DEF Stat
  <2>2. CASE pc' = "open" /\ Mine(Path', start')
    <3>1. Path' = Path /\ length' = length /\ modified' = modified /\ times' = times
      BY <2>1, SamePath DEF file, mtimes
    <3>2. length > 0
      BY <2>1, <2>2, <3>1, StartBeforeEnd
    <3>3. QED
      BY <2>1, <2>2, <3>1, <3>2 DEF MtimeInv
  <2>3. CASE ~ (pc' = "open" /\ Mine(Path', start'))
    <3>1. length' = length /\ modified' = modified /\ times' = times /\ pc' # "read"
      BY <1>8, <2>1 DEF Stat, file, mtimes
    <3>2. QED
      BY <2>3, <3>1 DEF MtimeInv
  <2>4. QED
    BY <2>2, <2>3
<1>9. CASE Lookup \/ Send \/ Receive \/ Unreadable \/ Restart
  <2>1. UNCHANGED file /\ pc' \notin {"open", "read"}
    BY <1>9 DEF Lookup, Send, Receive, Unreadable, Restart, Return
  <2>2. QED
    BY <1>2, <2>1
<1>10. CASE Open \/ Skip \/ ReadLine \/ BudgetSpent
  <2>1. UNCHANGED <<file, start, file_modified>> /\ pc \in {"open", "read"}
    BY <1>10 DEF Open, Skip, ReadLine, BudgetSpent
  <2>2. QED
    BY <1>1, <2>1
<1>11. CASE Commit \/ RefuseEmission \/ UNCHANGED vars
  <2>1. UNCHANGED <<file, start, file_modified>> /\ pc' = pc
    BY <1>11 DEF Commit, RefuseEmission, vars, provider
  <2>2. QED
    BY <1>1, <2>1
<1>12. QED
  BY <1>3, <1>4, <1>5, <1>6, <1>7, <1>8, <1>9, <1>10, <1>11 DEF Next
-----------------------------------------------------------------------------
(* The theorems. *)

LEMMA FlightStep ==
  ASSUME FlightInv, [Next]_vars
  PROVE  FlightInv'
<1>1. CASE UNCHANGED vars
  BY <1>1 DEF FlightInv, vars, writer
<1>2. CASE Next
  <2>1. inflight' = inflight \/ inflight' = TRUE \/ inflight' = FALSE
    BY <1>2 DEF Next, Extend, Flush, Cut, Refill, Replace, Lookup, Stat, Open, Skip, ReadLine,
                BudgetSpent, Send, Receive, Unreadable, Commit, RefuseEmission, Restart, writer
  <2>2. QED
    BY <2>1 DEF FlightInv
<1>3. QED
  BY <1>1, <1>2

LEMMA ReadStep ==
  ASSUME ReadInv, FlightInv, MtimeInv, [Next]_vars
  PROVE  ReadInv'
<1>1. CASE UNCHANGED vars
  <2>1. /\ UNCHANGED file /\ UNCHANGED <<pc, known, cursor, start, increment, writer>>
        /\ held' = held /\ whole' = whole /\ pc' = pc /\ start' = start
    BY <1>1 DEF vars, provider, file
  <2>2. Path' = Path /\ FileInv'
    BY <2>1, SamePath
  <2>3. CursorInv' /\ IncrementInv'
    BY <2>1, <2>2, FileChanges
  <2>4. HeldInv'
    BY <2>1, <2>2 DEF ReadInv, HeldInv
  <2>5. QED
    BY <2>2, <2>3, <2>4 DEF ReadInv
<1>2. CASE \E line \in Lines : Extend(line)
  BY <1>2, ExtendStep
<1>3. CASE \E n \in 1..MaxBytes : Flush(n) \/ Cut(n)
  BY <1>3, FlushStep, CutStep
<1>4. CASE Refill
  BY <1>4, RefillStep
<1>5. CASE Replace
  BY <1>5, ReplaceStep
<1>6. CASE Lookup
  BY <1>6, LookupStep
<1>7. CASE Stat
  BY <1>7, StatStep
<1>8. CASE Open
  BY <1>8, OpenStep
<1>9. CASE Skip
  BY <1>9, SkipStep
<1>10. CASE ReadLine
  BY <1>10, ReadLineStep
<1>11. CASE BudgetSpent
  BY <1>11, BudgetSpentStep
<1>12. CASE Send
  BY <1>12, SendStep
<1>13. CASE Receive
  BY <1>13, ReceiveStep
<1>14. CASE Unreadable
  BY <1>14, UnreadableStep
<1>15. CASE Commit
  BY <1>15, CommitStep
<1>16. CASE RefuseEmission
  BY <1>16, RefuseEmissionStep
<1>17. CASE Restart
  BY <1>17, RestartStep
<1>18. QED
  BY <1>1, <1>2, <1>3, <1>4, <1>5, <1>6, <1>7, <1>8, <1>9, <1>10, <1>11, <1>12, <1>13,
     <1>14, <1>15, <1>16, <1>17 DEF Next

LEMMA ReadAlways == Spec => []ReadInv
<1>1. Init => ReadInv /\ FlightInv /\ MtimeInv
  BY ReadInit, MtimeInit DEF Init, FlightInv
<1>2. ReadInv /\ FlightInv /\ MtimeInv /\ [Next]_vars => ReadInv' /\ FlightInv' /\ MtimeInv'
  BY ReadStep, FlightStep, MtimeStep
<1>3. QED
  BY <1>1, <1>2, PTL DEF Spec

(* The stored cursor that belongs to the file at the path is good. *)
LEMMA StoredGood ==
  ASSUME ReadInv, SameFile
  PROVE  /\ Sound(Path, stored)
         /\ Covered(identity, Expected(identity, whole, stored.offset), times, recorded)
<1>1. Good(Path, recorded, stored)
  BY DEF ReadInv, CursorInv, SameFile
<1>2. /\ identity \in {"inode", "head"} /\ Path.identity = identity /\ Path.whole = whole
      /\ Path.times = times
  BY PathFacts, PathIs
<1>3. Mine(Path, stored)
  <2>1. CASE identity = "inode"
    BY <2>1, PathIs DEF SameFile, Mine
  <2>2. CASE identity = "head"
    <3>1. stored.head # None /\ stored.head = HeadDigest
      BY <1>1, <1>2, <2>2 DEF SameFile, Good, IsCursor
    <3>2. HeadDigest[1][1] = session
      BY <3>1, HeadNamesSession
    <3>3. QED
      BY <2>2, <3>1, <3>2, PathIs DEF Mine
  <2>3. QED
    BY <1>2, <2>1, <2>2
<1>4. QED
  BY <1>1, <1>2, <1>3 DEF Good

(***************************************************************************)
(* Whatever the lines, the budgets and the caps are, and however often the *)
(* file is copied anew, cut or replaced, and the provider stopped, killed  *)
(* or refused: what lies before the stored offset of the transcript has    *)
(* been recorded, with the instants a read in one go would have given it,  *)
(* those of a title before any message being an mtime that the file had.   *)
(***************************************************************************)
THEOREM ReadSoFarAlways == Spec => []ReadSoFar
<1>1. ReadInv => ReadSoFar
  BY StoredGood DEF ReadSoFar
<1>2. QED
  BY <1>1, ReadAlways, PTL

(***************************************************************************)
(* The stored offset is never inside a line, but for one that exceeds the  *)
(* cap and is being skipped: a line the writer of the file has half        *)
(* written is left for a later read.                                       *)
(***************************************************************************)
THEOREM OffsetAtLineAlways == Spec => []OffsetAtLine
<1>1. ASSUME ReadInv PROVE OffsetAtLine
  <2>1. SUFFICES ASSUME SameFile, stored.offset \in 1..length
                 PROVE  IsNewline(whole[stored.offset]) <=> ~ stored.skipping
    BY DEF OffsetAtLine
  <2>2. Sound(Path, stored) /\ Path.whole = whole
    BY <1>1, <2>1, StoredGood, PathIs
  <2>3. stored.offset # 0
    BY <1>1, <2>1, PathFacts
  <2>4. QED
    BY <2>2, <2>3, Zenon DEF Sound
<1>2. QED
  BY <1>1, ReadAlways, PTL
=============================================================================
