--------------------------- MODULE ShipperProofs ----------------------------
(***************************************************************************)
(* The running daemon uses the buffer only through its commands, so the    *)
(* theorems of BufferProofs hold of it.                                    *)
(***************************************************************************)
EXTENDS Shipper, BufferProofs

(***************************************************************************)
(* What a step needs to be a step of the buffer: the limit a batch is      *)
(* taken with is one the buffer allows, and stays one when it is halved.   *)
(***************************************************************************)
BatchInv ==
  /\ OrderInv
  /\ batch_size \in MinBatch..MaxBatch
  /\ Cardinality(DOMAIN batch) \in 0..MaxBatch

(* A batch is no longer than its limit. *)
LEMMA OldestIsWithinLimit ==
  ASSUME NEW table, IsTable(table), NEW limit \in Nat
  PROVE  Cardinality(Oldest(table, limit)) \in 0..limit
<1> DEFINE S == Oldest(table, limit)
           upTo(m) == {j \in DOMAIN table : j <= m}
<1>1. /\ S \subseteq DOMAIN table /\ DOMAIN table \subseteq Nat
      /\ IsFiniteSet(DOMAIN table)
  BY DEF Oldest, IsTable
<1>2. \A i \in S : Cardinality(upTo(i)) <= limit
  BY DEF Oldest
<1> HIDE DEF S
<1>3. IsFiniteSet(S) /\ Cardinality(S) \in Nat
  BY <1>1, FS_Subset, FS_CardinalityType
<1>4. CASE S = {}
  BY <1>3, <1>4, FS_EmptySet DEF S
<1>5. CASE S # {}
  <2>1. PICK m \in S : \A i \in S : m >= i
    BY <1>1, <1>3, <1>5, GreatestNat
  <2>2. S \subseteq upTo(m)
    BY <1>1, <2>1
  <2>3. IsFiniteSet(upTo(m))
    BY <1>1, FS_Subset
  <2> HIDE DEF upTo
  <2>4. Cardinality(S) <= Cardinality(upTo(m)) /\ Cardinality(upTo(m)) \in Nat
    BY <2>2, <2>3, FS_Subset, FS_CardinalityType
  <2>5. Cardinality(upTo(m)) <= limit
    BY <1>2
  <2>6. Cardinality(S) \in 0..limit
    BY <1>3, <2>4, <2>5
  <2>7. QED
    BY <2>6 DEF S
<1>6. QED
  BY <1>4, <1>5

(* Half of a batch is a limit again. *)
LEMMA HalfIsALimit ==
  ASSUME NEW n \in 0..MaxBatch
  PROVE  Half(n) \in MinBatch..MaxBatch
<1>1. MaxBatch \in Nat /\ MinBatch \in 1..MaxBatch
  BY BoundsAssumption, ShipperAssumption
<1>2. n \div 2 \in Nat /\ n \div 2 <= n
  BY <1>1
<1>3. QED
  BY <1>1, <1>2 DEF Half

(* Letting go of a batch is a step of the buffer, or none at all. *)
LEMMA LetGoIsABufferStep == LetGo => [Next]_vars
<1> SUFFICES ASSUME LetGo PROVE [Next]_vars
  OBVIOUS
<1>1. CASE batch = EmptyTable
  BY <1>1 DEF LetGo, vars
<1>2. CASE batch # EmptyTable
  BY <1>2 DEF LetGo, Forget, Next
<1>3. QED
  BY <1>1, <1>2

(* The shipper holds no batch after the step. *)
Empties == batch' = EmptyTable

(* What the answer to a POST does to the buffer and to the batch size. *)
LEMMA AnswerStep ==
  ASSUME BatchInv, NEW d, Apply(d)
  PROVE  [Next]_vars /\ batch_size' \in MinBatch..MaxBatch /\ Empties
<1>1. batch_size \in MinBatch..MaxBatch
  BY DEF BatchInv
<1>2. CASE Delete
  BY <1>1, <1>2 DEF Delete, DeleteBatch, Next, Empties
<1>3. CASE Keep
  BY <1>1, <1>3 DEF Keep, Forget, Next, Empties
<1>4. CASE Refuse
  BY <1>1, <1>4 DEF Refuse, DeadLetter, Next, Empties
<1>5. CASE Shrink
  <2>1. CASE Refuse
    BY <1>4, <2>1
  <2>2. CASE batch_size' = Half(Cardinality(DOMAIN batch)) /\ Forget
    <3>1. Half(Cardinality(DOMAIN batch)) \in MinBatch..MaxBatch
      BY HalfIsALimit DEF BatchInv
    <3>2. QED
      BY <2>2, <3>1 DEF Forget, Next, Empties
  <2>3. QED
    BY <1>5, <2>1, <2>2 DEF Shrink
<1>6. QED
  BY <1>2, <1>3, <1>4, <1>5 DEF Apply

(* Every step of the daemon is a step of the buffer and keeps BatchInv. *)
LEMMA RunStep ==
  ASSUME BatchInv, [RunNext]_runVars
  PROVE  [Next]_vars /\ BatchInv'
<1>1. OrderInv /\ batch_size \in MinBatch..MaxBatch /\ batch_size \in 1..MaxBatch
  BY BoundsAssumption, ShipperAssumption DEF BatchInv
<1>2. MinBatch \in 1..MaxBatch /\ MaxBatch \in Nat
  BY BoundsAssumption, ShipperAssumption
<1>3. ASSUME Empties PROVE Cardinality(DOMAIN batch') \in 0..MaxBatch
  BY <1>2, <1>3, EmptyIsTable, FS_EmptySet DEF Empties
<1>4. ASSUME [Next]_vars, batch_size' \in MinBatch..MaxBatch,
             Cardinality(DOMAIN batch') \in 0..MaxBatch
      PROVE  [Next]_vars /\ BatchInv'
  BY <1>1, <1>4, NextOrderInv DEF BatchInv
<1>5. ASSUME UNCHANGED vars, UNCHANGED batch_size
      PROVE  [Next]_vars /\ BatchInv'
  <2>1. UNCHANGED batch
    BY <1>5 DEF vars
  <2>2. QED
    BY <1>4, <1>5, <2>1 DEF BatchInv
<1>6. ASSUME LetGo, batch_size' \in MinBatch..MaxBatch
      PROVE  [Next]_vars /\ BatchInv'
  BY <1>3, <1>4, <1>6, LetGoIsABufferStep DEF LetGo, Empties
<1>7. ASSUME NEW n \in 0..MaxDrafts, NEW size \in [1..n -> Sizes],
             NEW update \in CursorUpdates, Store(n, size, update)
      PROVE  [Next]_vars /\ BatchInv'
  <2>1. Enqueue(n, size, update) /\ UNCHANGED batch_size
    BY <1>7 DEF Store, shipping
  <2>2. UNCHANGED batch /\ Next
    BY <2>1 DEF Enqueue, Next
  <2>3. QED
    BY <1>4, <2>1, <2>2 DEF BatchInv
<1>8. CASE GiveUp
  BY <1>5, <1>8 DEF GiveUp, shipping
<1>9. CASE Ship
  <2>1. TakeBatch(batch_size) /\ UNCHANGED batch_size
    BY <1>9 DEF Ship
  <2>2. Next
    BY <1>1, <2>1 DEF Next
  <2>3. batch' = Restrict(pending, Oldest(pending, batch_size))
    BY <2>1 DEF TakeBatch
  <2>4. DOMAIN batch' = Oldest(pending, batch_size)
    BY <2>3 DEF Restrict, Oldest
  <2>5. Cardinality(Oldest(pending, batch_size)) \in 0..batch_size
    BY <1>1, <1>2, OldestIsWithinLimit DEF OrderInv, TypeOK
  <2>6. Cardinality(DOMAIN batch') \in 0..MaxBatch
    BY <1>1, <1>2, <2>4, <2>5
  <2>7. QED
    BY <1>1, <1>4, <2>1, <2>2, <2>6
<1>10. ASSUME NEW s \in 1..SeqBound, Serve(s)
       PROVE  [Next]_vars /\ BatchInv'
  BY <1>5, <1>10 DEF Serve, shipping
<1>11. ASSUME NEW status \in Statuses, NEW counted \in 0..MaxBatch,
              Answered(status, counted)
       PROVE  [Next]_vars /\ BatchInv'
  BY <1>3, <1>4, <1>11, AnswerStep DEF Answered
<1>12. CASE Failed
  <2>1. Apply("keep")
    BY <1>12 DEF Failed, Apply
  <2>2. QED
    BY <1>3, <1>4, <2>1, AnswerStep
<1>13. CASE Wake
  BY <1>5, <1>13 DEF Wake
<1>14. CASE TakeRequest
  BY <1>5, <1>14 DEF TakeRequest
<1>15. CASE Stop
  BY <1>1, <1>6, <1>15 DEF Stop
<1>16. CASE Finish
  BY <1>5, <1>16 DEF Finish, shipping
<1>17. CASE FinalFails
  BY <1>1, <1>6, <1>17 DEF FinalFails
<1>18. CASE Relaunch \/ Crash
  <2>1. LetGo /\ batch_size' = MaxBatch
    BY <1>18 DEF Relaunch, Crash, Reopen
  <2>2. QED
    BY <1>2, <1>6, <2>1
<1>19. CASE UNCHANGED runVars
  BY <1>5, <1>19 DEF runVars, shipping
<1>20. QED
  BY <1>7, <1>8, <1>9, <1>10, <1>11, <1>12, <1>13, <1>14, <1>15, <1>16, <1>17,
     <1>18, <1>19 DEF RunNext

(* The daemon starts with an empty batch and the greatest batch size. *)
LEMMA RunStart == RunInit => Init /\ BatchInv
<1> SUFFICES ASSUME RunInit PROVE Init /\ BatchInv
  OBVIOUS
<1>1. Init /\ OrderInv
  BY InitOrderInv DEF RunInit
<1>2. MinBatch \in 1..MaxBatch /\ MaxBatch \in Nat
  BY BoundsAssumption, ShipperAssumption
<1>3. batch_size \in MinBatch..MaxBatch
  BY <1>2 DEF RunInit
<1>4. Cardinality(DOMAIN batch) = 0
  BY <1>1, EmptyIsTable, FS_EmptySet DEF Init
<1>5. QED
  BY <1>1, <1>2, <1>3, <1>4 DEF BatchInv

(***************************************************************************)
(* Writer, shipper and daemon together behave, as far as the database is   *)
(* concerned, like the buffer with some caller.                            *)
(***************************************************************************)
THEOREM DaemonImplementsBuffer == RunSpec => BufferSpec
<1>1. RunInit => Init /\ BatchInv
  BY RunStart
<1>2. BatchInv /\ [RunNext]_runVars => [Next]_vars /\ BatchInv'
  BY RunStep
<1>3. QED
  BY <1>1, <1>2, PTL DEF RunSpec, BufferSpec, Spec

(***************************************************************************)
(* Both caps, the capture order and the identity of settled records hold   *)
(* while the daemon runs, stops, crashes and starts again.                 *)
(***************************************************************************)
THEOREM DaemonKeepsBuffer ==
  RunSpec => [](CapsHold /\ DeadCapsHold /\ CaptureOrder /\ SettledStaysSettled)
BY DaemonImplementsBuffer, CapsHoldAlways, DeadCapsHoldAlways, CaptureOrderHolds,
   SettledHolds, PTL DEF BufferSpec

(***************************************************************************)
(* In a roomy buffer no record that was captured disappears without a      *)
(* trace, and a settled batch is the batch that was posted.                *)
(***************************************************************************)
THEOREM DaemonLosesNothing ==
  Roomy /\ RunSpec => [](NoSilentLoss /\ BatchIntact)
<1>1. ASSUME Roomy PROVE RunSpec => [](NoSilentLoss /\ BatchIntact)
  <2>1. Spec => []NoSilentLoss
    BY <1>1, NoSilentLossHolds
  <2>2. Spec => []BatchIntact
    BY <1>1, BatchIntactHolds
  <2>3. QED
    BY <2>1, <2>2, DaemonImplementsBuffer, PTL DEF BufferSpec
<1>2. QED
  BY <1>1

-----------------------------------------------------------------------------
(* What goes over the wire. *)

(***************************************************************************)
(* The seven things a step of the daemon can be to the database, the wire  *)
(* and the service: an emission, a batch taken and posted, a batch deleted *)
(* for which the service holds every record, a batch dead lettered, a      *)
(* batch let go, a record taken in by the service, and nothing.            *)
(***************************************************************************)
StoresEmission ==
  /\ \E n \in 0..MaxDrafts : \E size \in [1..n -> Sizes] :
       \E update \in CursorUpdates : Enqueue(n, size, update)
  /\ UNCHANGED <<posted, held>>
PostsBatch ==
  /\ TakeBatch(batch_size)
  /\ posted' = posted \cup Seqs(batch')
  /\ UNCHANGED held
DeletesAnswered ==
  DeleteBatch /\ Seqs(batch) \subseteq held /\ UNCHANGED <<posted, held>>
ParksBatch == DeadLetter /\ UNCHANGED <<posted, held>>
LetsGo == LetGo /\ UNCHANGED <<posted, held>>
Hears ==
  /\ UNCHANGED <<vars, posted>>
  /\ \E s \in posted : held' = held \cup {s}
Idles == UNCHANGED <<vars, posted, held>>

WireStep ==
  \/ StoresEmission \/ PostsBatch \/ DeletesAnswered \/ ParksBatch
  \/ LetsGo \/ Hears \/ Idles

(* Only a body that accounts for the whole batch deletes it. *)
LEMMA DecidesDelete ==
  ASSUME NEW status, NEW counted, NEW len, Decide(status, counted, len) = "delete"
  PROVE  status = 200 /\ counted = len
BY DEF Decide

LEMMA AnswerIsWireStep ==
  ASSUME NEW status, NEW counted, Answered(status, counted)
  PROVE  WireStep
<1> DEFINE d == Decide(status, counted, Cardinality(DOMAIN batch))
<1>1. Apply(d)
  BY DEF Answered
<1>2. CASE d = "delete" /\ Delete
  <2>1. Seqs(batch) \subseteq held
    BY <1>2, DecidesDelete DEF Answered, MayCount
  <2>2. QED
    BY <1>2, <2>1 DEF Delete, Settled, DeletesAnswered, WireStep
<1>3. CASE Keep
  BY <1>3 DEF Keep, Settled, Forget, LetGo, LetsGo, WireStep
<1>4. CASE Refuse
  BY <1>4 DEF Refuse, Settled, ParksBatch, WireStep
<1>5. CASE Shrink
  BY <1>4, <1>5 DEF Shrink, Settled, Forget, LetGo, LetsGo, WireStep
<1>6. QED
  BY <1>1, <1>2, <1>3, <1>4, <1>5 DEF Apply

LEMMA RunIsWireStep ==
  ASSUME [RunNext]_runVars
  PROVE  WireStep
<1>1. CASE \E n \in 0..MaxDrafts : \E size \in [1..n -> Sizes] :
             \E update \in CursorUpdates : Store(n, size, update)
  BY <1>1 DEF Store, StoresEmission, WireStep
<1>2. CASE Ship
  <2>1. batch' = EmptyTable => Seqs(batch') = {}
    BY EmptyIsTable DEF Seqs
  <2>2. QED
    BY <1>2, <2>1 DEF Ship, PostsBatch, WireStep
<1>3. CASE \E s \in 1..SeqBound : Serve(s)
  BY <1>3 DEF Serve, Hears, WireStep
<1>4. CASE \E status \in Statuses : \E counted \in 0..MaxBatch : Answered(status, counted)
  BY <1>4, AnswerIsWireStep
<1>5. CASE Failed
  BY <1>5 DEF Failed, Keep, Settled, Forget, LetGo, LetsGo, WireStep
<1>6. CASE Stop \/ FinalFails \/ Relaunch \/ Crash
  BY <1>6 DEF Stop, FinalFails, Relaunch, Crash, Reopen, LetsGo, WireStep
<1>7. CASE GiveUp \/ Wake \/ TakeRequest \/ Finish \/ UNCHANGED runVars
  BY <1>7 DEF GiveUp, Wake, TakeRequest, Finish, runVars, Idles, WireStep
<1>8. QED
  BY <1>1, <1>2, <1>3, <1>4, <1>5, <1>6, <1>7 DEF RunNext

-----------------------------------------------------------------------------
(* Types of the running daemon. *)

WireTypeInv ==
  /\ BatchInv
  /\ posted \subseteq 1..seq
  /\ held \subseteq posted

ControlTypes ==
  /\ phase \in {"running", "stopping", "final", "closed"}
  /\ pc \in {"loop", "posting", "paused"}
  /\ backoff \in BackoffStart..BackoffCeiling
  /\ draining \in BOOLEAN /\ awaited \in BOOLEAN
  /\ urgent \in 0..ShipNowQueue
  /\ progress \in {"idle", "shipped", "kept", "dead_lettered", "shrunk"}
  /\ deaths \in 0..Lives

(* The counter in `meta` never goes back. *)
LEMMA SeqGrows ==
  ASSUME OrderInv, [Next]_vars
  PROVE  seq \in Nat /\ seq' \in Nat /\ seq' >= seq
<1>1. seq \in Nat
  BY DEF OrderInv, TypeOK
<1>2. ASSUME NEW n \in 0..MaxDrafts, NEW size \in [1..n -> Sizes],
             NEW update \in CursorUpdates, Enqueue(n, size, update)
      PROVE  seq' \in Nat /\ seq' >= seq
  BY <1>2, EnqueueHasEffect DEF EnqueueEffect
<1>3. ASSUME UNCHANGED seq PROVE seq' \in Nat /\ seq' >= seq
  BY <1>1, <1>3
<1>4. QED
  BY <1>1, <1>2, <1>3 DEF Next, TakeBatch, DeleteBatch, DeadLetter, Forget, vars, durable

LEMMA NextWireTypeInv ==
  ASSUME WireTypeInv, [RunNext]_runVars
  PROVE  WireTypeInv'
<1>1. BatchInv' /\ [Next]_vars /\ OrderInv /\ OrderInv'
  BY RunStep DEF WireTypeInv, BatchInv
<1>2. 1..seq \subseteq 1..seq'
  BY <1>1, SeqGrows
<1>3. Seqs(batch') \subseteq 1..seq'
  BY <1>1 DEF OrderInv, Seqs
<1>4. WireStep
  BY RunIsWireStep
<1>5. posted' \subseteq posted \cup Seqs(batch')
  BY <1>4 DEF WireStep, StoresEmission, PostsBatch, DeletesAnswered, ParksBatch,
              LetsGo, Hears, Idles
<1>6. held' \subseteq posted'
  BY <1>4 DEF WireTypeInv, WireStep, StoresEmission, PostsBatch, DeletesAnswered,
              ParksBatch, LetsGo, Hears, Idles
<1>7. QED
  BY <1>1, <1>2, <1>3, <1>5, <1>6 DEF WireTypeInv

(* The rest of ship_once keeps the control state within its types. *)
LEMMA AfterTypes ==
  ASSUME ControlTypes, NEW result \in {"idle", "shipped", "kept", "dead_lettered", "shrunk"},
         After(result), UNCHANGED deaths
  PROVE  ControlTypes'
<1>1. Doubled \in BackoffStart..BackoffCeiling /\ BackoffStart \in BackoffStart..BackoffCeiling
  BY ShipperAssumption DEF Doubled, ControlTypes
<1>2. CASE AfterFinal
  BY <1>2 DEF After, AfterFinal, ControlTypes, asking
<1>3. CASE AfterDrain(result)
  BY <1>3 DEF After, AfterDrain, ControlTypes, asking, Released
<1>4. CASE AfterRun(result)
  BY <1>1, <1>4 DEF After, AfterRun, ControlTypes, asking
<1>5. QED
  BY <1>2, <1>3, <1>4 DEF After

LEMMA ApplyTypes ==
  ASSUME ControlTypes, NEW d, Apply(d)
  PROVE  ControlTypes'
BY AfterTypes DEF Apply, Delete, Keep, Refuse, Shrink, Settled

LEMMA NextControlTypes ==
  ASSUME ControlTypes, [RunNext]_runVars
  PROVE  ControlTypes'
<1>1. CASE \E n \in 0..MaxDrafts : \E size \in [1..n -> Sizes] :
             \E update \in CursorUpdates : Store(n, size, update)
  <2>1. UNCHANGED <<phase, shipping, deaths>> /\ (UNCHANGED asking \/ Ask)
    BY <1>1 DEF Store
  <2>2. urgent' \in 0..ShipNowQueue
    BY <2>1, ShipperAssumption DEF Ask, asking, ControlTypes
  <2>3. awaited' \in BOOLEAN
    BY <2>1, Zenon DEF Ask, asking, ControlTypes
  <2>4. QED
    BY <2>1, <2>2, <2>3 DEF ControlTypes, shipping
<1>2. CASE Ship
  <2>1. CASE After("idle") /\ UNCHANGED deaths
    BY <2>1, AfterTypes
  <2>2. CASE pc' = "posting" /\ UNCHANGED <<phase, backoff, draining, progress, asking, deaths>>
    BY <2>2 DEF ControlTypes, asking
  <2>3. QED
    BY <1>2, <2>1, <2>2 DEF Ship
<1>3. CASE \E s \in 1..SeqBound : Serve(s)
  BY <1>3 DEF Serve, ControlTypes, shipping, asking
<1>4. CASE \E status \in Statuses : \E counted \in 0..MaxBatch : Answered(status, counted)
  BY <1>4, ApplyTypes DEF Answered
<1>5. CASE Failed
  BY <1>5, ApplyTypes DEF Failed, Apply
<1>6. CASE GiveUp
  BY <1>6 DEF GiveUp, ControlTypes, shipping
<1>7. CASE Wake
  BY <1>7 DEF Wake, ControlTypes, asking
<1>8. CASE TakeRequest
  BY <1>8, ShipperAssumption DEF TakeRequest, ControlTypes
<1>9. CASE Stop
  <2>1. deaths' \in 0..Lives
    BY <1>9, ShipperAssumption DEF Stop, ControlTypes
  <2>2. draining' \in BOOLEAN /\ awaited' \in BOOLEAN
    BY <1>9, Zenon DEF Stop, Released
  <2>3. QED
    BY <1>9, <2>1, <2>2 DEF Stop, ControlTypes
<1>10. CASE Finish
  BY <1>10 DEF Finish, ControlTypes, shipping, asking
<1>11. CASE FinalFails
  BY <1>11 DEF FinalFails, ControlTypes, asking
<1>12. ASSUME Reopen, deaths' \in 0..Lives PROVE ControlTypes'
  <2>1. backoff' \in BackoffStart..BackoffCeiling /\ urgent' \in 0..ShipNowQueue
    BY <1>12, ShipperAssumption DEF Reopen
  <2>2. draining' \in BOOLEAN /\ awaited' \in BOOLEAN
    BY <1>12, Zenon DEF Reopen
  <2>3. QED
    BY <1>12, <2>1, <2>2 DEF Reopen, ControlTypes
<1>13. CASE Relaunch \/ Crash
  <2>1. deaths' \in 0..Lives
    BY <1>13, ShipperAssumption DEF Relaunch, Crash, ControlTypes
  <2>2. QED
    BY <1>12, <1>13, <2>1 DEF Relaunch, Crash
<1>14. CASE UNCHANGED runVars
  BY <1>14 DEF runVars, ControlTypes, shipping, asking
<1>15. QED
  BY <1>1, <1>2, <1>3, <1>4, <1>5, <1>6, <1>7, <1>8, <1>9, <1>10, <1>11, <1>13,
     <1>14 DEF RunNext

LEMMA RunInitTypes == RunInit => WireTypeInv /\ ControlTypes
<1> SUFFICES ASSUME RunInit PROVE WireTypeInv /\ ControlTypes
  OBVIOUS
<1>1. WireTypeInv
  BY RunStart DEF RunInit, WireTypeInv
<1>2. ControlTypes
  <2>1. /\ backoff \in BackoffStart..BackoffCeiling /\ urgent \in 0..ShipNowQueue
        /\ deaths \in 0..Lives
    BY ShipperAssumption DEF RunInit
  <2>2. draining \in BOOLEAN /\ awaited \in BOOLEAN
    BY Zenon DEF RunInit
  <2>3. QED
    BY <2>1, <2>2 DEF RunInit, ControlTypes
<1>3. QED
  BY <1>1, <1>2

(***************************************************************************)
(* Types of the whole runtime: the batch size stays between MIN_BATCH and  *)
(* the configured limit, the backoff between its start and its ceiling,    *)
(* the channel `urgent` within its capacity, and the service knows only    *)
(* records that were captured and posted.                                  *)
(***************************************************************************)
THEOREM RunTypesHold == RunSpec => []RunTypeOK
<1>1. WireTypeInv /\ ControlTypes /\ [RunNext]_runVars => WireTypeInv' /\ ControlTypes'
  BY NextWireTypeInv, NextControlTypes
<1>2. WireTypeInv /\ ControlTypes => RunTypeOK
  BY DEF WireTypeInv, ControlTypes, BatchInv, OrderInv, RunTypeOK
<1>3. QED
  BY <1>1, <1>2, RunInitTypes, PTL DEF RunSpec
-----------------------------------------------------------------------------
(* Order on the wire. *)

(***************************************************************************)
(* A held batch is on the wire and its records are pending or evicted;     *)
(* what is settled was posted.  Together with the accounting of the buffer *)
(* this puts every record before a posted one on the wire as well.         *)
(***************************************************************************)
WireInv ==
  /\ LossInv
  /\ WireTypeInv
  /\ Seqs(batch) \subseteq posted
  /\ Seqs(batch) \subseteq Seqs(pending) \cup DOMAIN dropped
  /\ acked \cup parked \subseteq posted
  /\ NoOvertaking

(* A batch leaves out no row older than one it holds. *)
LEMMA OldestIsClosed ==
  ASSUME NEW table, IsTable(table), NEW limit \in Nat,
         NEW i \in Oldest(table, limit), NEW j \in DOMAIN table, j <= i
  PROVE  j \in Oldest(table, limit)
<1> DEFINE upTo(m) == {k \in DOMAIN table : k <= m}
<1>1. DOMAIN table \subseteq Nat /\ IsFiniteSet(DOMAIN table) /\ i \in DOMAIN table
  BY DEF IsTable, Oldest
<1>2. upTo(j) \subseteq upTo(i) /\ upTo(i) \subseteq DOMAIN table
  BY <1>1
<1>3. Cardinality(upTo(i)) <= limit
  BY DEF Oldest
<1> HIDE DEF upTo
<1>4. IsFiniteSet(upTo(i)) /\ IsFiniteSet(upTo(j))
  BY <1>1, <1>2, FS_Subset
<1>5. Cardinality(upTo(j)) <= Cardinality(upTo(i))
  BY <1>2, <1>4, FS_Subset
<1>6. Cardinality(upTo(j)) <= limit
  BY <1>3, <1>4, <1>5, FS_CardinalityType
<1>7. QED
  BY <1>6 DEF Oldest, upTo

(* A posted batch overtakes nothing. *)
LEMMA PostsInOrder ==
  ASSUME WireInv, PostsBatch
  PROVE  /\ Seqs(batch') \subseteq Seqs(pending)
         /\ \A s \in Seqs(batch') : 1..s \subseteq posted' \cup DOMAIN dropped
<1> DEFINE S == Oldest(pending, batch_size)
<1>1. /\ OrderInv /\ NoSilentLoss /\ IsTable(pending) /\ Ordered(pending, seq)
      /\ seq \in Nat /\ batch_size \in Nat
  BY ShipperAssumption, BoundsAssumption
  DEF WireInv, LossInv, WireTypeInv, BatchInv, OrderInv, TypeOK
<1>2. S \subseteq DOMAIN pending
  BY DEF Oldest
<1>3. batch' = Restrict(pending, S)
  BY DEF PostsBatch, TakeBatch
<1>4. DOMAIN batch' = S /\ \A i \in S : batch'[i] = pending[i]
  BY <1>2, <1>3 DEF Restrict
<1>5. ASSUME NEW i \in S, NEW t \in 1..pending[i].seq
      PROVE  t \in posted' \cup DOMAIN dropped
  <2>1. pending[i].seq \in 1..seq
    BY <1>1, <1>2 DEF Ordered
  <2>2. t \in Seqs(pending) \cup acked \cup parked \cup DOMAIN dropped
    BY <1>1, <2>1 DEF NoSilentLoss
  <2>3. CASE t \in Seqs(pending)
    <3>1. PICK j \in DOMAIN pending : pending[j].seq = t
      BY <2>3 DEF Seqs
    <3>2. j <= i
      <4>1. i \in Nat /\ j \in Nat
        BY <1>1, <1>2 DEF IsTable
      <4>2. i < j => pending[i].seq < pending[j].seq
        BY <1>1, <1>2 DEF Ordered
      <4>3. QED
        BY <2>1, <3>1, <4>1, <4>2
    <3>3. j \in S
      BY <1>1, <3>2, OldestIsClosed
    <3>4. t \in Seqs(batch')
      BY <1>4, <3>1, <3>3 DEF Seqs
    <3>5. QED
      BY <3>4 DEF PostsBatch
  <2>4. CASE t \in acked \cup parked \cup DOMAIN dropped
    BY <2>4 DEF WireInv, PostsBatch
  <2>5. QED
    BY <2>2, <2>3, <2>4
<1>6. QED
  BY <1>2, <1>4, <1>5 DEF Seqs

LEMMA NextWireInv ==
  ASSUME Roomy, WireInv, [RunNext]_runVars
  PROVE  WireInv'
<1>1. WireTypeInv' /\ [Next]_vars
  BY NextWireTypeInv, RunStep DEF WireInv, WireTypeInv
<1>2. LossInv'
  BY <1>1, NextLossInv DEF WireInv
<1>3. WireStep
  BY RunIsWireStep
<1> DEFINE Wire == /\ Seqs(batch) \subseteq posted
                   /\ Seqs(batch) \subseteq Seqs(pending) \cup DOMAIN dropped
                   /\ acked \cup parked \subseteq posted
                   /\ NoOvertaking
<1>4. CASE StoresEmission
  <2>1. EnqueueEffect /\ UNCHANGED <<batch, acked, parked>>
    BY <1>4, EnqueueHasEffect DEF StoresEmission, WireInv, LossInv
  <2>2. Seqs(batch') = Seqs(batch) /\ UNCHANGED posted
    BY <1>4, <2>1 DEF Seqs, StoresEmission
  <2>3. /\ DOMAIN dropped \subseteq DOMAIN dropped'
        /\ Seqs(pending) \subseteq Seqs(pending') \cup DOMAIN dropped'
    BY <2>1 DEF EnqueueEffect
  <2>4. QED
    BY <1>1, <1>2, <2>1, <2>2, <2>3 DEF WireInv, NoOvertaking, Seqs
<1>5. CASE PostsBatch
  <2>1. UNCHANGED <<pending, acked, parked, dropped>> /\ posted' = posted \cup Seqs(batch')
    BY <1>5 DEF PostsBatch, TakeBatch, durable, history
  <2>2. /\ Seqs(batch') \subseteq Seqs(pending)
        /\ \A s \in Seqs(batch') : 1..s \subseteq posted' \cup DOMAIN dropped
    BY <1>5, PostsInOrder
  <2>3. NoOvertaking'
    BY <2>1, <2>2 DEF WireInv, NoOvertaking
  <2>4. QED
    BY <1>1, <1>2, <2>1, <2>2, <2>3 DEF WireInv, Seqs
<1>6. ASSUME batch' = EmptyTable, UNCHANGED <<posted, dropped>>,
             acked' \cup parked' \subseteq acked \cup parked \cup Seqs(batch)
      PROVE  WireInv'
  <2>1. Seqs(batch') = {}
    BY <1>6, EmptyIsTable DEF Seqs
  <2>2. NoOvertaking'
    BY <1>6 DEF WireInv, NoOvertaking
  <2>3. acked' \cup parked' \subseteq posted'
    BY <1>6 DEF WireInv
  <2>4. (Seqs(batch))' = {}
    BY <2>1 DEF Seqs
  <2>5. QED
    BY <1>1, <1>2, <2>2, <2>3, <2>4 DEF WireInv
<1>7. CASE DeletesAnswered
  BY <1>6, <1>7 DEF DeletesAnswered, DeleteBatch
<1>8. CASE ParksBatch
  BY <1>6, <1>8 DEF ParksBatch, DeadLetter
<1>9. CASE LetsGo
  BY <1>6, <1>9 DEF LetsGo, LetGo, history
<1>10. CASE Hears \/ Idles
  <2>1. UNCHANGED <<pending, batch, acked, parked, dropped, posted>>
    BY <1>10 DEF Hears, Idles, vars, durable, history
  <2>2. QED
    BY <1>1, <1>2, <2>1 DEF WireInv, NoOvertaking, Seqs
<1>11. QED
  BY <1>3, <1>4, <1>5, <1>7, <1>8, <1>9, <1>10 DEF WireStep

LEMMA InitWireInv == RunInit => WireInv
<1> SUFFICES ASSUME RunInit PROVE WireInv
  OBVIOUS
<1>1. LossInv /\ WireTypeInv
  BY InitLossInv, RunInitTypes DEF RunInit
<1>2. Seqs(batch) = {}
  BY EmptyIsTable DEF RunInit, Init, Seqs
<1>3. QED
  BY <1>1, <1>2 DEF RunInit, Init, WireInv, NoOvertaking

(***************************************************************************)
(* In a roomy buffer the service sees records in capture order, whatever   *)
(* batches are retried, shrunk, dead lettered, evicted in flight or lost   *)
(* with the process.                                                       *)
(***************************************************************************)
THEOREM NoOvertakingHolds == Roomy /\ RunSpec => []NoOvertaking
<1>1. WireInv => NoOvertaking
  BY DEF WireInv
<1>2. ASSUME Roomy PROVE RunSpec => []NoOvertaking
  <2>1. WireInv /\ [RunNext]_runVars => WireInv'
    BY <1>2, NextWireInv
  <2>2. QED
    BY <1>1, <2>1, InitWireInv, PTL DEF RunSpec
<1>3. QED
  BY <1>2

-----------------------------------------------------------------------------
(* Requests. *)

(* A limit of one row or more takes something from a table that has rows. *)
LEMMA OldestTakesSome ==
  ASSUME NEW table, IsTable(table), NEW limit \in Nat \ {0}, DOMAIN table # {}
  PROVE  Oldest(table, limit) # {}
<1>1. DOMAIN table \subseteq Nat
  BY DEF IsTable
<1>2. PICK m \in DOMAIN table : \A i \in DOMAIN table : m <= i
  BY <1>1, LeastNat
<1>3. {j \in DOMAIN table : j <= m} = {m}
  BY <1>1, <1>2
<1>4. Cardinality({j \in DOMAIN table : j <= m}) <= limit
  BY <1>3, FS_Singleton
<1>5. QED
  BY <1>4 DEF Oldest

(* ship_once is idle only when the table is empty. *)
LEMMA IdleMeansEmpty ==
  ASSUME BatchInv, TakeBatch(batch_size), batch' = EmptyTable
  PROVE  pending' = EmptyTable
<1>1. IsTable(pending) /\ batch_size \in Nat \ {0}
  BY BoundsAssumption, ShipperAssumption DEF BatchInv, OrderInv, TypeOK
<1>2. Restrict(pending, Oldest(pending, batch_size)) = EmptyTable /\ pending' = pending
  BY DEF TakeBatch, durable
<1>3. Oldest(pending, batch_size) = {}
  BY <1>2, EmptyIsTable DEF Restrict, Oldest
<1>4. DOMAIN pending = {}
  BY <1>1, <1>3, OldestTakesSome
<1>5. pending = EmptyTable
  BY <1>1, <1>4 DEF IsTable, EmptyTable
<1>6. QED
  BY <1>2, <1>5

(* The shipper, up and running, answers the request of a waiting writer. *)
Answers ==
  /\ phase = "running" /\ phase' = "running" /\ deaths' = deaths
  /\ draining /\ awaited /\ ~ draining' /\ ~ awaited'

(* Only the end of a drain answers. *)
LEMMA AnswersAfterDrain ==
  ASSUME NEW result, After(result), Answers
  PROVE  result \in {"idle", "kept"} /\ progress' = result
<1>1. AfterDrain(result)
  BY Zenon DEF After, AfterFinal, AfterRun, Answers
<1>2. Drained(result)
  BY <1>1, Zenon DEF AfterDrain, Answers
<1>3. QED
  BY <1>2 DEF Drained, After

LEMMA ApplyAnswers ==
  ASSUME NEW d, Apply(d), Answers
  PROVE  progress' = "kept"
<1>1. CASE Delete
  BY <1>1, AnswersAfterDrain DEF Delete, Settled
<1>2. CASE Keep
  BY <1>2, AnswersAfterDrain DEF Keep, Settled
<1>3. CASE Refuse
  BY <1>3, AnswersAfterDrain DEF Refuse, Settled
<1>4. CASE Shrink
  BY <1>3, <1>4, AnswersAfterDrain DEF Shrink, Settled
<1>5. QED
  BY <1>1, <1>2, <1>3, <1>4 DEF Apply

LEMMA StepHonoursRequest ==
  ASSUME BatchInv, ControlTypes, [RunNext]_runVars, Answers
  PROVE  pending' = EmptyTable \/ progress' = "kept"
<1>1. CASE Ship
  <2>1. CASE TakeBatch(batch_size) /\ batch' = EmptyTable /\ After("idle")
    BY <2>1, IdleMeansEmpty
  <2>2. CASE UNCHANGED draining
    BY <2>2, Zenon DEF Answers
  <2>3. QED
    BY <1>1, <2>1, <2>2 DEF Ship
<1>2. CASE \E status \in Statuses : \E counted \in 0..MaxBatch : Answered(status, counted)
  BY <1>2, ApplyAnswers DEF Answered
<1>3. CASE Failed
  BY <1>3, ApplyAnswers DEF Failed, Apply
<1>4. ~ UNCHANGED draining
  BY Zenon DEF Answers
<1>5. ~ \E n \in 0..MaxDrafts : \E size \in [1..n -> Sizes] :
          \E update \in CursorUpdates : Store(n, size, update)
  BY <1>4 DEF Store, shipping
<1>6. ~ (GiveUp \/ Finish \/ UNCHANGED runVars \/ \E s \in 1..SeqBound : Serve(s))
  BY <1>4 DEF GiveUp, Finish, Serve, runVars, shipping
<1>7. ~ Wake /\ ~ FinalFails
  BY <1>4 DEF Wake, FinalFails
<1>8. ~ TakeRequest
  BY Zenon DEF TakeRequest, Answers
<1>9. ~ Stop /\ ~ Relaunch
  BY DEF Stop, Relaunch, Answers
<1>10. ~ Crash
  BY ShipperAssumption DEF Crash, Answers, ControlTypes
<1>11. QED
  BY <1>1, <1>2, <1>3, <1>5, <1>6, <1>7, <1>8, <1>9, <1>10 DEF RunNext

(***************************************************************************)
(* A writer that waits for an urgent shipment is answered only when        *)
(* nothing is pending any longer or the service could not be reached.      *)
(***************************************************************************)
THEOREM RequestHonouredAlways == RunSpec => RequestHonoured
<1> DEFINE Honours == Answers => pending' = EmptyTable \/ progress' = "kept"
<1>1. WireTypeInv /\ ControlTypes /\ [RunNext]_runVars
        => WireTypeInv' /\ ControlTypes' /\ Honours
  BY NextWireTypeInv, NextControlTypes, StepHonoursRequest DEF WireTypeInv
<1> HIDE DEF Honours
<1>2. RunSpec => [][Honours]_runVars
  BY <1>1, RunInitTypes, PTL DEF RunSpec
<1>3. QED
  BY <1>2, PTL DEF Honours, Answers, RequestHonoured
-----------------------------------------------------------------------------
(* The promise of Outbox. *)

(* What has been promised of every record so far. *)
fates == [s \in 1..seq |-> Fate(s)]

(* A function on 1..n is a sequence of n elements. *)
LEMMA LenOfFates ==
  ASSUME NEW n \in Nat, NEW f, DOMAIN f = 1..n, NEW S, f \in [1..n -> S]
  PROVE  Len(f) = n /\ f \in Seq(S)
<1>1. f \in Seq(S)
  OBVIOUS
<1>2. Len(f) \in Nat /\ DOMAIN f = 1..Len(f)
  BY <1>1
<1>3. QED
  BY <1>1, <1>2

(* What the fate of a record depends on. *)
LEMMA FateIs ==
  ASSUME NEW s
  PROVE  /\ Fate(s) \in {"owed", "lost", "parked", "answered"}
         /\ Fate(s) = "owed" <=> s \in Seqs(pending)
         /\ Fate(s) = "lost" <=> s \notin Seqs(pending) /\ s \in DOMAIN dropped
         /\ Fate(s) = "parked" <=> /\ s \notin Seqs(pending) /\ s \notin DOMAIN dropped
                                   /\ s \in parked
BY DEF Fate

LEMMA FateBecomes ==
  ASSUME NEW CONSTANT s
  PROVE  /\ Fate(s)' \in {"owed", "lost", "parked", "answered"}
         /\ Fate(s)' = "owed" <=> s \in Seqs(pending')
         /\ Fate(s)' = "lost" <=> s \notin Seqs(pending') /\ s \in DOMAIN dropped'
         /\ Fate(s)' = "parked" <=> /\ s \notin Seqs(pending') /\ s \notin DOMAIN dropped'
                                    /\ s \in parked'
BY DEF Fate, Seqs

(* An eviction reports rows that were pending or just captured, last of    *)
(* all the marker, which stays.                                            *)
LEMMA EvictionReports ==
  ASSUME OrderInv, NEW n \in Nat, NEW size \in [1..n -> Sizes],
         StoreEvicting(Inserted(n, size), n)
  PROVE  /\ seq' = seq + n + 1 /\ seq' \in Seqs(pending')
         /\ DOMAIN dropped' \subseteq DOMAIN dropped \cup Seqs(pending) \cup ((seq + 1)..seq')
<1> DEFINE stored == Inserted(n, size)
           last == LastId(pending)
           rest == Restrict(stored, Kept(stored))
           id == LastId(rest) + 1
<1>1. seq \in Nat /\ Ordered(pending, seq)
  BY DEF OrderInv, TypeOK
<1>2. /\ Ordered(stored, seq + n)
      /\ DOMAIN stored = DOMAIN pending \cup ((last + 1)..(last + n))
      /\ \A i \in DOMAIN pending : stored[i] = pending[i]
      /\ \A k \in 1..n : stored[last + k].seq = seq + k
      /\ last \in Nat
  BY <1>1, InsertedIsOrdered
<1>3. /\ pending' = WithMarker(rest, seq + n + 1) /\ seq' = seq + n + 1
      /\ DOMAIN dropped' = DOMAIN dropped \cup Evicted(stored)
  BY DEF StoreEvicting
<1>4. Evicted(stored) \subseteq {stored[i].seq : i \in DOMAIN stored}
  BY DEF Evicted
<1>5. Kept(stored) \subseteq DOMAIN stored
  BY DEF Kept, Survivors
<1> HIDE DEF stored, last
<1>6. \A j \in (last + 1)..(last + n) : j - last \in 1..n /\ last + (j - last) = j
  BY <1>2
<1>7. ASSUME NEW i \in DOMAIN stored
      PROVE  stored[i].seq \in Seqs(pending) \cup ((seq + 1)..seq')
  <2>1. CASE i \in DOMAIN pending
    BY <1>2, <2>1 DEF Seqs
  <2>2. CASE i \in (last + 1)..(last + n)
    <3>1. stored[last + (i - last)].seq = seq + (i - last) /\ i - last \in 1..n
      BY <1>2, <1>6, <2>2
    <3>2. stored[i].seq = seq + (i - last)
      BY <1>6, <2>2, <3>1
    <3>3. QED
      BY <1>1, <1>3, <3>1, <3>2
  <2>3. QED
    BY <1>2, <2>1, <2>2
<1>8. seq + n \in Nat /\ Ordered(rest, seq + n)
  BY <1>1, <1>2, <1>5, RestrictIsOrdered
<1> HIDE DEF rest
<1>9. id \in DOMAIN pending' /\ pending'[id] = [seq |-> seq + n + 1, bytes |-> MarkerBytes]
  BY <1>3, <1>8, WithMarkerIsOrdered
<1>10. seq' \in Seqs(pending')
  BY <1>3, <1>9 DEF Seqs
<1>11. QED
  BY <1>3, <1>4, <1>7, <1>10

(* Without an eviction every row stays. *)
LEMMA StoringKeepsRows ==
  ASSUME OrderInv, NEW n \in Nat, NEW size \in [1..n -> Sizes],
         StoreAll(Inserted(n, size), n)
  PROVE  seq' = seq + n /\ dropped' = dropped /\ Seqs(pending) \subseteq Seqs(pending')
<1> DEFINE stored == Inserted(n, size)
<1>1. pending' = stored /\ seq' = seq + n /\ dropped' = dropped
  BY DEF StoreAll
<1>2. \A i \in DOMAIN pending : i \in DOMAIN stored /\ stored[i] = pending[i]
  <2>1. seq \in Nat /\ Ordered(pending, seq)
    BY DEF OrderInv, TypeOK
  <2>2. QED
    BY <2>1, InsertedIsOrdered
<1> HIDE DEF stored
<1>3. Seqs(pending) \subseteq Seqs(stored)
  BY <1>2 DEF Seqs
<1>4. QED
  BY <1>1, <1>3

(* s is lost by this step. *)
Loses(s) == Fate(s)' = "lost" /\ (s \in 1..seq => Fate(s) # "lost")

(* What an emission does to the fates. *)
LEMMA EmissionFates ==
  ASSUME OrderInv, NEW n \in 0..MaxDrafts, NEW size \in [1..n -> Sizes],
         NEW update \in CursorUpdates, Enqueue(n, size, update)
  PROVE  /\ seq \in Nat /\ seq' \in Nat /\ seq' \in seq..(seq + MaxDrafts + 1)
         /\ \A s \in 1..seq : \/ Fate(s)' = Fate(s)
                              \/ Fate(s) = "owed" /\ Fate(s)' = "lost"
         /\ \A s \in (seq + 1)..seq' : Fate(s)' \in {"owed", "lost"}
         /\ (\E s \in 1..seq' : Loses(s)) => seq' > seq /\ seq' \in Seqs(pending')
<1>1. EnqueueEffect /\ UNCHANGED parked /\ n \in Nat /\ seq \in Nat /\ MaxDrafts \in Nat
  <2>1. EnqueueEffect /\ UNCHANGED parked
    BY EnqueueHasEffect
  <2>2. n \in Nat /\ seq \in Nat /\ MaxDrafts \in Nat
    BY BoundsAssumption DEF OrderInv, TypeOK
  <2>3. QED
    BY <2>1, <2>2
<1>2. /\ seq' \in {seq + n, seq + n + 1}
      /\ DOMAIN dropped' \subseteq DOMAIN dropped \cup Seqs(pending) \cup ((seq + 1)..seq')
  BY <1>1, EvictionReports, StoringKeepsRows DEF Enqueue
<1>3. seq' \in Nat /\ seq' \in seq..(seq + MaxDrafts + 1)
  BY <1>1, <1>2
<1>4. ASSUME NEW s \in 1..seq
      PROVE  \/ Fate(s)' = Fate(s)
             \/ Fate(s) = "owed" /\ Fate(s)' = "lost"
  <2>1. CASE s \in Seqs(pending)
    <3>1. s \in Seqs(pending') \/ s \in DOMAIN dropped'
      BY <1>1, <2>1 DEF EnqueueEffect
    <3>2. QED
      BY <2>1, <3>1, FateIs, FateBecomes
  <2>2. CASE s \notin Seqs(pending)
    <3>1. s \notin Seqs(pending')
      BY <1>1, <2>2 DEF EnqueueEffect, Seqs
    <3>2. s \in DOMAIN dropped' <=> s \in DOMAIN dropped
      BY <1>1, <1>2, <2>2 DEF EnqueueEffect
    <3>3. QED
      BY <1>1, <2>2, <3>1, <3>2, FateIs, FateBecomes
  <2>3. QED
    BY <2>1, <2>2
<1>5. ASSUME NEW s \in (seq + 1)..seq'
      PROVE  Fate(s)' \in {"owed", "lost"}
  <2>1. s \in Seqs(pending') \/ s \in DOMAIN dropped'
    BY <1>1 DEF EnqueueEffect
  <2>2. QED
    BY <2>1, FateBecomes
<1>6. ASSUME NEW s \in 1..seq', Loses(s)
      PROVE  seq' > seq /\ seq' \in Seqs(pending')
  <2>1. s \in DOMAIN dropped' /\ s \notin Seqs(pending') /\ (s \in 1..seq => Fate(s) # "lost")
    BY <1>6, FateBecomes DEF Loses
  <2>2. CASE StoreAll(Inserted(n, size), n)
    <3>1. s \in DOMAIN dropped /\ s \notin Seqs(pending)
      BY <1>1, <2>1, <2>2, StoringKeepsRows
    <3>2. s \in 1..seq
      BY <3>1 DEF OrderInv, TypeOK
    <3>3. QED
      BY <2>1, <3>1, <3>2, FateIs
  <2>3. CASE StoreEvicting(Inserted(n, size), n)
    BY <1>1, <2>3, EvictionReports
  <2>4. QED
    BY <2>2, <2>3 DEF Enqueue
<1>7. QED
  BY <1>1, <1>3, <1>4, <1>5, <1>6

(* What settling a batch does to the fates, for either reason. *)
LEMMA SettlementFates ==
  ASSUME WireInv, DeleteBatch \/ DeadLetter
  PROVE  /\ UNCHANGED <<seq, dropped>>
         /\ Seqs(pending') \subseteq Seqs(pending)
         /\ Seqs(pending) \ Seqs(pending') \subseteq Seqs(batch) \ DOMAIN dropped
<1>1. /\ pending' = Restrict(pending, DOMAIN pending \ DOMAIN batch)
      /\ UNCHANGED <<seq, dropped>>
  BY DEF DeleteBatch, DeadLetter
<1>2. /\ DOMAIN pending' = DOMAIN pending \ DOMAIN batch
      /\ \A i \in DOMAIN pending' : pending'[i] = pending[i]
  BY <1>1 DEF Restrict
<1>3. Seqs(pending') \subseteq Seqs(pending)
  BY <1>2 DEF Seqs
<1>4. ASSUME NEW s \in Seqs(pending), s \notin Seqs(pending')
      PROVE  s \in Seqs(batch) \ DOMAIN dropped
  <2>1. PICK i \in DOMAIN pending : pending[i].seq = s
    BY DEF Seqs
  <2>2. i \in DOMAIN batch
    BY <1>2, <1>4, <2>1 DEF Seqs
  <2>3. batch[i] = pending[i]
    BY <2>2 DEF WireInv, LossInv, BatchIntact
  <2>4. s \notin DOMAIN dropped
    BY DEF WireInv, LossInv, OrderInv, SettledStaysSettled
  <2>5. QED
    BY <2>1, <2>2, <2>3, <2>4 DEF Seqs
<1>5. QED
  BY <1>1, <1>3, <1>4

(* The fates form a sequence with one element per seq. *)
LEMMA FatesAreASequence ==
  ASSUME seq \in Nat
  PROVE  Len(fates) = seq /\ \A s \in 1..seq : fates[s] = Fate(s)
<1>1. fates \in [1..seq -> {"owed", "lost", "parked", "answered"}]
  BY FateIs DEF fates
<1>2. DOMAIN fates = 1..seq /\ \A s \in 1..seq : fates[s] = Fate(s)
  BY DEF fates
<1>3. QED
  BY <1>1, <1>2, LenOfFates

LEMMA FatesStayASequence ==
  ASSUME seq' \in Nat
  PROVE  Len(fates') = seq' /\ \A s \in 1..seq' : fates'[s] = Fate(s)'
<1>1. fates' \in [1..seq' -> {"owed", "lost", "parked", "answered"}]
  BY FateBecomes DEF fates
<1>2. DOMAIN fates' = 1..seq' /\ \A s \in 1..seq' : fates'[s] = Fate(s)'
  BY DEF fates
<1>3. QED
  BY <1>1, <1>2, LenOfFates

(* An emission is a capture, or changes no fate. *)
LEMMA EmissionIsCapture ==
  ASSUME WireInv, StoresEmission
  PROVE  Promise!Capture \/ UNCHANGED <<fates, held>>
<1>1. PICK n \in 0..MaxDrafts : \E size \in [1..n -> Sizes] :
        \E update \in CursorUpdates : Enqueue(n, size, update)
  BY DEF StoresEmission
<1>2. /\ seq \in Nat /\ seq' \in Nat /\ seq' \in seq..(seq + MaxDrafts + 1)
      /\ \A s \in 1..seq : \/ Fate(s)' = Fate(s)
                           \/ Fate(s) = "owed" /\ Fate(s)' = "lost"
      /\ \A s \in (seq + 1)..seq' : Fate(s)' \in {"owed", "lost"}
      /\ (\E s \in 1..seq' : Loses(s)) => seq' > seq /\ seq' \in Seqs(pending')
  BY <1>1, EmissionFates DEF WireInv, LossInv
<1>3. /\ Len(fates) = seq /\ \A s \in 1..seq : fates[s] = Fate(s)
      /\ Len(fates') = seq' /\ \A s \in 1..seq' : fates'[s] = Fate(s)'
  BY <1>2, FatesAreASequence, FatesStayASequence
<1>4. UNCHANGED held
  BY DEF StoresEmission
<1>5. CASE seq' = seq
  <2>1. \A s \in 1..seq : Fate(s)' = Fate(s)
    <3>1. SUFFICES ASSUME NEW s \in 1..seq, Fate(s) = "owed", Fate(s)' = "lost"
                   PROVE  FALSE
      BY <1>2
    <3>2. Loses(s)
      BY <3>1 DEF Loses
    <3>3. QED
      BY <1>2, <1>5, <3>2
  <2>2. fates' = fates
    BY <1>5, <2>1 DEF fates
  <2>3. QED
    BY <1>4, <2>2
<1>6. CASE seq' # seq
  <2>1. seq' \in (seq + 1)..(seq + (MaxDrafts + 1)) /\ 1..seq \subseteq 1..seq'
    BY <1>2, <1>6, BoundsAssumption
  <2>2. \A s \in (seq + 1)..seq' : s \in 1..seq'
    BY <1>2
  <2>3. ASSUME NEW s \in 1..seq', fates'[s] = "lost", s \in 1..seq => fates[s] # "lost"
        PROVE  fates'[seq'] = "owed"
    <3>1. Loses(s)
      BY <1>3, <2>3 DEF Loses
    <3>2. seq' \in Seqs(pending') /\ seq' \in 1..seq'
      BY <1>2, <3>1
    <3>3. QED
      BY <3>2 DEF fates, Fate, Seqs
  <2>4. QED
    BY <1>2, <1>3, <1>4, <2>1, <2>2, <2>3 DEF Promise!Capture, Promise!LostNow, fates
<1>7. QED
  BY <1>5, <1>6

(* A deleted batch is answered for, and the answer is true. *)
LEMMA DeletionIsSettled ==
  ASSUME WireInv, DeletesAnswered
  PROVE  Promise!Settle("answered")
<1>1. /\ UNCHANGED <<seq, dropped, parked, held>> /\ Seqs(batch) \subseteq held
      /\ Seqs(pending') \subseteq Seqs(pending)
      /\ Seqs(pending) \ Seqs(pending') \subseteq Seqs(batch) \ DOMAIN dropped
      /\ seq \in Nat
  BY SettlementFates DEF DeletesAnswered, DeleteBatch, WireInv, LossInv, OrderInv, TypeOK
<1>2. Seqs(pending) \cap parked = {}
  BY DEF WireInv, LossInv, OrderInv, SettledStaysSettled
<1>3. ASSUME NEW s \in 1..seq
      PROVE  \/ Fate(s)' = Fate(s)
             \/ Fate(s) = "owed" /\ Fate(s)' = "answered" /\ s \in held
  <2>1. CASE s \in Seqs(pending')
    BY <1>1, <2>1, FateIs, FateBecomes
  <2>2. CASE s \in Seqs(pending) \ Seqs(pending')
    BY <1>1, <1>2, <2>2, FateIs, FateBecomes
  <2>3. CASE s \notin Seqs(pending)
    BY <1>1, <2>3, FateIs, FateBecomes
  <2>4. QED
    BY <2>1, <2>2, <2>3
<1>4. /\ Len(fates) = seq /\ \A s \in 1..seq : fates[s] = Fate(s)
      /\ Len(fates') = seq /\ \A s \in 1..seq : fates'[s] = Fate(s)'
  BY <1>1, FatesAreASequence, FatesStayASequence
<1>5. QED
  BY <1>1, <1>3, <1>4 DEF Promise!Settle, fates

(* A dead lettered batch is parked; what was evicted from it stays lost. *)
LEMMA ParkingIsSettled ==
  ASSUME WireInv, ParksBatch
  PROVE  Promise!Settle("parked")
<1>1. /\ UNCHANGED <<seq, dropped, held>> /\ parked' = parked \cup Seqs(batch)
      /\ Seqs(pending') \subseteq Seqs(pending)
      /\ Seqs(pending) \ Seqs(pending') \subseteq Seqs(batch) \ DOMAIN dropped
      /\ seq \in Nat
  BY SettlementFates DEF ParksBatch, DeadLetter, WireInv, LossInv, OrderInv, TypeOK
<1>2. Seqs(batch) \subseteq Seqs(pending) \cup DOMAIN dropped
  BY DEF WireInv
<1>3. ASSUME NEW s \in 1..seq
      PROVE  \/ Fate(s)' = Fate(s)
             \/ Fate(s) = "owed" /\ Fate(s)' = "parked"
  <2>1. CASE s \in Seqs(pending')
    BY <1>1, <2>1, FateIs, FateBecomes
  <2>2. CASE s \in Seqs(pending) \ Seqs(pending')
    BY <1>1, <2>2, FateIs, FateBecomes
  <2>3. CASE s \notin Seqs(pending)
    BY <1>1, <1>2, <2>3, FateIs, FateBecomes
  <2>4. QED
    BY <2>1, <2>2, <2>3
<1>4. /\ Len(fates) = seq /\ \A s \in 1..seq : fates[s] = Fate(s)
      /\ Len(fates') = seq /\ \A s \in 1..seq : fates'[s] = Fate(s)'
  BY <1>1, FatesAreASequence, FatesStayASequence
<1>5. QED
  BY <1>1, <1>3, <1>4 DEF Promise!Settle, fates

(* A record the service takes in was captured. *)
LEMMA HearingIsHearing ==
  ASSUME WireInv, Hears
  PROVE  Promise!Hear
<1>1. UNCHANGED <<seq, pending, dropped, parked>> /\ seq \in Nat
  BY DEF Hears, vars, durable, history, WireInv, LossInv, OrderInv, TypeOK
<1>2. PICK s \in posted : held' = held \cup {s}
  BY DEF Hears
<1>3. s \in 1..seq
  BY DEF WireInv, WireTypeInv
<1>4. Len(fates) = seq /\ UNCHANGED fates
  BY <1>1, FatesAreASequence DEF fates, Fate, Seqs
<1>5. QED
  BY <1>2, <1>3, <1>4 DEF Promise!Hear, fates

LEMMA WireStepKeepsPromise ==
  ASSUME WireInv, WireStep
  PROVE  [Promise!Next]_<<fates, held>>
<1>1. CASE PostsBatch \/ LetsGo \/ Idles
  <2>1. UNCHANGED <<seq, pending, dropped, parked, held>>
    BY <1>1 DEF PostsBatch, TakeBatch, LetsGo, LetGo, Idles, vars, durable, history
  <2>2. UNCHANGED fates
    BY <2>1 DEF fates, Fate, Seqs
  <2>3. QED
    BY <2>1, <2>2
<1>2. QED
  BY <1>1, EmissionIsCapture, DeletionIsSettled, ParkingIsSettled, HearingIsHearing
  DEF WireStep, Promise!Next

(***************************************************************************)
(* In a roomy buffer the runtime keeps the promise of Outbox: whatever is  *)
(* retried, evicted, refused or crashes, a record is owed until the        *)
(* service really answered for it, until it is parked, or until a record   *)
(* that reports its loss is owed in its place.                             *)
(***************************************************************************)
THEOREM RuntimeKeepsPromise == Roomy /\ RunSpec => OutboxSpec
<1>1. RunInit => Promise!Init
  <2> SUFFICES ASSUME RunInit PROVE Promise!Init
    OBVIOUS
  <2>1. seq = 0 /\ held = {}
    BY DEF RunInit, Init
  <2>2. 1..seq = {}
    BY <2>1
  <2>3. fates = <<>>
    BY <2>2 DEF fates
  <2>4. QED
    BY <2>1, <2>3 DEF Promise!Init, fates
<1>2. ASSUME Roomy PROVE RunSpec => OutboxSpec
  <2>1. WireInv /\ [RunNext]_runVars => WireInv' /\ [Promise!Next]_<<fates, held>>
    BY <1>2, NextWireInv, RunIsWireStep, WireStepKeepsPromise
  <2>2. QED
    BY <1>1, <2>1, InitWireInv, PTL DEF RunSpec, OutboxSpec, Promise!Spec, fates
<1>3. QED
  BY <1>2
=============================================================================
