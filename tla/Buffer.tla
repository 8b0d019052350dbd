------------------------------- MODULE Buffer -------------------------------
(***************************************************************************)
(* The durable buffer of src/runtime/buffer.rs: one SQLite database owned  *)
(* by one thread (`serve`), which executes the commands of its callers one *)
(* after the other, each in one transaction.  An action is therefore the   *)
(* whole handler of one command.  A command that fails rolls back and is a *)
(* stuttering step.                                                        *)
(*                                                                         *)
(* The tables `pending` and `dead_letter` are functions from row ids to    *)
(* rows.  Their ids are SQLite rowids WITHOUT the AUTOINCREMENT keyword: a *)
(* new row takes the greatest id in the table plus one, so an id is handed *)
(* out again as soon as the table has been emptied.                        *)
(*                                                                         *)
(* An envelope is abstracted to its `seq`, which identifies it, and to its *)
(* size in the `bytes` column.                                             *)
(***************************************************************************)
EXTENDS Integers, FiniteSets, FiniteSetsExt, Functions

CONSTANTS
  MaxRows,        \* the row cap of `pending` (config: buffer.max_rows)
  MaxBytes,       \* the byte cap of `pending` (config: buffer.max_bytes)
  Headroom,       \* OVERFLOW_HEADROOM_BYTES
  DeadMaxRows,    \* DEAD_LETTER_MAX_ROWS
  DeadMaxBytes,   \* DEAD_LETTER_MAX_BYTES
  Sizes,          \* the sizes the envelope of a captured record may have
  MarkerBytes,    \* the size of the envelope of a buffer_overflow record
  CursorKeys,     \* the (provider, key) pairs of the table `cursors`
  CursorValues,   \* the values a provider stores there
  NoCursor,       \* no row for this key
  MaxBatch,       \* the greatest limit a batch is taken with
  MaxDrafts,      \* bound: the number of drafts of one emission
  SeqBound        \* bound: the last seq the model hands out

(***************************************************************************)
(* What the configuration is refused without (validate in src/config.rs),  *)
(* and that an overflow marker fits the headroom kept for it.              *)
(***************************************************************************)
ASSUME CapsAssumption ==
  /\ MaxRows \in Nat \ {0}
  /\ Headroom \in Nat /\ MaxBytes \in Nat /\ MaxBytes > Headroom
  /\ DeadMaxRows \in Nat /\ DeadMaxBytes \in Nat

ASSUME SizesAssumption ==
  /\ Sizes \subseteq Nat \ {0}
  /\ MarkerBytes \in 1..Headroom

ASSUME BoundsAssumption ==
  /\ MaxBatch \in Nat \ {0}
  /\ MaxDrafts \in Nat
  /\ SeqBound \in Nat
  /\ NoCursor \notin CursorValues

VARIABLES
  pending,        \* records waiting to be shipped
  dead_letter,    \* records the service refuses for good
  seq,            \* the counter in `meta`: the last seq handed out
  cursors,        \* how far each provider has read its source
  batch,          \* the rows the shipper has taken and not yet settled
  \* History variables: what became of the records that left `pending`.
  acked,          \* seqs the shipper deleted because the service answered for them
  parked,         \* seqs moved to the dead letter table
  dropped         \* evicted seqs, each with the seq of the marker that reports it

durable == <<pending, dead_letter, seq, cursors>>
history == <<acked, parked, dropped>>
vars == <<durable, batch, history>>
-----------------------------------------------------------------------------
Row == [seq : Nat, bytes : Sizes \cup {MarkerBytes}]

EmptyTable == [i \in {} |-> 0]

Seqs(table) == {table[i].seq : i \in DOMAIN table}

(***************************************************************************)
(* SUM(bytes) over a set of rows, counted byte by byte: the sum of sizes   *)
(* is the number of pairs <<row, byte of that row>>.                       *)
(***************************************************************************)
BytesOf(table, rows) ==
  Cardinality(UNION {{i} \X (1..table[i].bytes) : i \in rows})

(* Mutant of LastId: ids start over whenever the oldest row has left. *)
LowestFreeId(table) == IF 1 \notin DOMAIN table THEN 0 ELSE Max(DOMAIN table)

(* The rowid SQLite gives a new row is LastId + 1. *)
LastId(table) == IF DOMAIN table = {} THEN 0 ELSE Max(DOMAIN table)

Over(table, rows, bytes) ==
  \/ Cardinality(DOMAIN table) > rows
  \/ BytesOf(table, DOMAIN table) > bytes

(***************************************************************************)
(* plan_eviction walks the rows from the oldest and drops one as long as   *)
(* the rows from it on do not meet both targets.  A row survives when it   *)
(* and everything newer do.                                                *)
(***************************************************************************)
Newer(table, i) == {j \in DOMAIN table : j >= i}

Survivors(table, rows, bytes) ==
  {i \in DOMAIN table : /\ Cardinality(Newer(table, i)) <= rows
                        /\ BytesOf(table, Newer(table, i)) <= bytes}

(* pending after the drafts of one emission, `size` giving each its size. *)
Inserted(n, size) ==
  LET last == LastId(pending)
  IN  [i \in DOMAIN pending \cup ((last + 1)..(last + n)) |->
         IF i \in DOMAIN pending
           THEN pending[i]
           ELSE [seq |-> seq + (i - last), bytes |-> size[i - last]]]

(* A table with the buffer_overflow record appended. *)
WithMarker(table, s) ==
  [i \in DOMAIN table \cup {LastId(table) + 1} |->
     IF i \in DOMAIN table
       THEN table[i]
       ELSE [seq |-> s, bytes |-> MarkerBytes]]

(* Mutant of Upsert: the update takes the place of the whole table. *)
ReplaceAll(update) == update

Upsert(update) ==
  [k \in CursorKeys |-> IF k \in DOMAIN update THEN update[k] ELSE cursors[k]]

CursorUpdates ==
  {EmptyTable} \cup UNION {[{k} -> CursorValues] : k \in CursorKeys}
-----------------------------------------------------------------------------
Init ==
  /\ pending = EmptyTable
  /\ dead_letter = EmptyTable
  /\ seq = 0
  /\ cursors = [k \in CursorKeys |-> NoCursor]
  /\ batch = EmptyTable
  /\ acked = {}
  /\ parked = {}
  /\ dropped = EmptyTable

(* The transaction of an emission that stays within both caps. *)
StoreAll(stored, n) ==
  /\ ~ Over(stored, MaxRows, MaxBytes)
  /\ pending' = stored
  /\ seq' = seq + n
  /\ UNCHANGED dropped

(* Mutant of Kept: evicts to the caps, with no room for the marker. *)
KeptAtTheCaps(stored) == Survivors(stored, MaxRows, MaxBytes)

(* evict_pending: one row and Headroom bytes are freed for the marker. *)
Kept(stored) == Survivors(stored, MaxRows - 1, MaxBytes - Headroom)

(* Mutant of Evicted: does not see the rows of the emission that overflows. *)
EvictedOldRows(stored) == {stored[i].seq : i \in DOMAIN pending \ Kept(stored)}

(* What the marker reports. *)
Evicted(stored) == {stored[i].seq : i \in DOMAIN stored \ Kept(stored)}

(* Mutant of StoreEvicting: the counter is written before the marker. *)
MarkerSeqNotWritten(stored, n) ==
  /\ Over(stored, MaxRows, MaxBytes)
  /\ pending' = WithMarker(Restrict(stored, Kept(stored)), seq + n + 1)
  /\ seq' = seq + n
  /\ dropped' = [s \in DOMAIN dropped \cup Evicted(stored) |->
                   IF s \in DOMAIN dropped THEN dropped[s] ELSE seq + n + 1]

(***************************************************************************)
(* The transaction of an emission that exceeds a cap: the oldest rows go,  *)
(* then one marker that reports them is appended under the next seq.       *)
(***************************************************************************)
StoreEvicting(stored, n) ==
  LET marker == seq + n + 1
  IN  /\ Over(stored, MaxRows, MaxBytes)
      /\ pending' = WithMarker(Restrict(stored, Kept(stored)), marker)
      /\ seq' = marker
      /\ dropped' = [s \in DOMAIN dropped \cup Evicted(stored) |->
                       IF s \in DOMAIN dropped THEN dropped[s] ELSE marker]

(* Command::Enqueue: n drafts and an optional cursor, all or nothing. *)
Enqueue(n, size, update) ==
  /\ seq + n < SeqBound
  /\ \/ StoreAll(Inserted(n, size), n)
     \/ StoreEvicting(Inserted(n, size), n)
  /\ cursors' = Upsert(update)
  /\ UNCHANGED <<dead_letter, batch, acked, parked>>

(* Mutant of Oldest: ORDER BY id DESC. *)
Newest(table, limit) ==
  {i \in DOMAIN table : Cardinality({j \in DOMAIN table : j >= i}) <= limit}

(* The ids of the `limit` oldest rows. *)
Oldest(table, limit) ==
  {i \in DOMAIN table : Cardinality({j \in DOMAIN table : j <= i}) <= limit}

(* Command::TakeBatch: the rows stay in the table. *)
TakeBatch(limit) ==
  /\ batch = EmptyTable
  /\ batch' = Restrict(pending, Oldest(pending, limit))
  /\ UNCHANGED <<durable, history>>

(* Command::DeleteBatch: every row of pending under an id of the batch. *)
DeleteBatch ==
  /\ batch # EmptyTable
  /\ pending' = Restrict(pending, DOMAIN pending \ DOMAIN batch)
  /\ batch' = EmptyTable
  /\ acked' = acked \cup Seqs(batch)
  /\ UNCHANGED <<dead_letter, seq, cursors, parked, dropped>>

(* The dead letter table with the rows of the batch appended in their order. *)
WithDead ==
  LET last == LastId(dead_letter)
      place(i) == last + Cardinality({j \in DOMAIN batch : j <= i})
  IN  [d \in DOMAIN dead_letter \cup {place(i) : i \in DOMAIN batch} |->
         IF d \in DOMAIN dead_letter
           THEN dead_letter[d]
           ELSE batch[CHOOSE i \in DOMAIN batch : place(i) = d]]

(* Mutant of EvictDead: the dead letter table has no caps. *)
EvictNoDead(table) == table

(* evict_dead_letter: the table drops its own oldest rows. *)
EvictDead(table) ==
  IF Over(table, DeadMaxRows, DeadMaxBytes)
    THEN Restrict(table, Survivors(table, DeadMaxRows, DeadMaxBytes))
    ELSE table

(***************************************************************************)
(* Command::DeadLetter: the rows of the batch are copied as they were      *)
(* taken, their ids leave pending, and the table keeps to its own caps.    *)
(***************************************************************************)
DeadLetter ==
  /\ batch # EmptyTable
  /\ pending' = Restrict(pending, DOMAIN pending \ DOMAIN batch)
  /\ dead_letter' = EvictDead(WithDead)
  /\ batch' = EmptyTable
  /\ parked' = parked \cup Seqs(batch)
  /\ UNCHANGED <<seq, cursors, acked, dropped>>

(***************************************************************************)
(* The caller lets go of the batch: it keeps it for a retry, its future is *)
(* cancelled at shutdown, or the process dies.  What is committed stays.   *)
(***************************************************************************)
Forget ==
  /\ batch # EmptyTable
  /\ batch' = EmptyTable
  /\ UNCHANGED <<durable, history>>

Next ==
  \/ \E n \in 0..MaxDrafts : \E size \in [1..n -> Sizes] :
       \E update \in CursorUpdates : Enqueue(n, size, update)
  \/ \E limit \in 1..MaxBatch : TakeBatch(limit)
  \/ DeleteBatch
  \/ DeadLetter
  \/ Forget

Spec == Init /\ [][Next]_vars
-----------------------------------------------------------------------------
IsTable(table) ==
  /\ DOMAIN table \subseteq Nat \ {0}
  /\ IsFiniteSet(DOMAIN table)
  /\ table \in [DOMAIN table -> Row]

(* Every variable has its type. *)
TypeOK ==
  /\ IsTable(pending)
  /\ IsTable(dead_letter)
  /\ seq \in Nat
  /\ cursors \in [CursorKeys -> CursorValues \cup {NoCursor}]
  /\ IsTable(batch)
  /\ acked \subseteq 1..seq
  /\ parked \subseteq 1..seq
  /\ DOMAIN dropped \subseteq 1..seq
  /\ dropped \in [DOMAIN dropped -> 1..seq]

(***************************************************************************)
(* Both caps hold after every command, the marker of an overflow included: *)
(* the row and the bytes enqueue frees before it appends the marker are    *)
(* enough for it.                                                          *)
(***************************************************************************)
CapsHold == ~ Over(pending, MaxRows, MaxBytes)

(* The dead letter table keeps to its own caps, whatever it is sent. *)
DeadCapsHold == ~ Over(dead_letter, DeadMaxRows, DeadMaxBytes)

(***************************************************************************)
(* Row ids follow capture order, so a batch "ORDER BY id" is the oldest    *)
(* records in the order they were captured and eviction really drops the   *)
(* oldest ones.                                                            *)
(***************************************************************************)
CaptureOrder ==
  \A i, j \in DOMAIN pending : i < j => pending[i].seq < pending[j].seq

(***************************************************************************)
(* While the shipper holds a batch, a row of pending under one of its ids  *)
(* is the row it took: deleting by id settles the records that were        *)
(* posted and no other, although enqueues and evictions ran in between.    *)
(***************************************************************************)
BatchIntact ==
  \A i \in DOMAIN batch \cap DOMAIN pending : pending[i] = batch[i]

(***************************************************************************)
(* Every seq the buffer ever handed out is accounted for: it is pending,   *)
(* the service answered for it, it was dead lettered, or it was evicted    *)
(* and a marker reports it.                                                *)
(***************************************************************************)
NoSilentLoss ==
  1..seq \subseteq Seqs(pending) \cup acked \cup parked \cup DOMAIN dropped

(***************************************************************************)
(* A record the service has answered for, a dead lettered one and an       *)
(* evicted one are never pending (again): nothing settled is shipped anew, *)
(* and a seq is never given to a second record.                            *)
(***************************************************************************)
SettledStaysSettled ==
  Seqs(pending) \cap (acked \cup parked \cup DOMAIN dropped) = {}

(***************************************************************************)
(* README, "The buffer": a loss "appears in the timeline ... instead of    *)
(* being invisible".  The marker that reports an evicted record is not     *)
(* evicted itself.                                                         *)
(***************************************************************************)
EveryLossAnnounced ==
  \A s \in DOMAIN dropped :
    s \notin Range(dropped) => dropped[s] \notin DOMAIN dropped

(***************************************************************************)
(* Room for more than the marker: an eviction never empties the table.     *)
(* The default caps, 200 000 rows and 512 MiB, leave it.                   *)
(***************************************************************************)
Roomy ==
  /\ MaxRows >= 2
  /\ \A b \in Sizes \cup {MarkerBytes} : b <= MaxBytes - Headroom
-----------------------------------------------------------------------------
(* The seqs of a table lie in 1..top and follow its ids. *)
Ordered(table, top) ==
  /\ IsTable(table)
  /\ \A i \in DOMAIN table : table[i].seq \in 1..top
  /\ \A i, j \in DOMAIN table : i < j => table[i].seq < table[j].seq

(***************************************************************************)
(* What makes the types, the order and SettledStaysSettled inductive: a    *)
(* record of the batch that is still pending is pending under the id it    *)
(* was taken with.                                                         *)
(***************************************************************************)
OrderInv ==
  /\ TypeOK
  /\ Ordered(pending, seq)
  /\ \A i \in DOMAIN batch : batch[i].seq \in 1..seq
  /\ \A i \in DOMAIN batch, j \in DOMAIN pending :
       batch[i].seq = pending[j].seq => i = j
  /\ SettledStaysSettled

(***************************************************************************)
(* What makes BatchIntact and NoSilentLoss inductive in a roomy buffer: as *)
(* long as a batch is held, pending has a row at or above every id of it,  *)
(* so no id of the batch is handed out again.                              *)
(***************************************************************************)
LossInv ==
  /\ OrderInv
  /\ \A b \in DOMAIN batch : \E i \in DOMAIN pending : b <= i
  /\ BatchIntact
  /\ NoSilentLoss
=============================================================================
