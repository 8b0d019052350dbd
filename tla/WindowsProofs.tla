--------------------------- MODULE WindowsProofs ----------------------------
(***************************************************************************)
(* Theorems about the window provider, for every choice of the debounce,   *)
(* its ceiling, the budgets, the tick, the queue and the counter's width.  *)
(***************************************************************************)
EXTENDS Windows, SequenceTheorems, TLAPS

Event == [event : Samples \cup Markers \cup {"will_sleep"},
          at : Stamps, application : Apps \cup {NoApp}]

(* An activation carries its application, nothing else carries one. *)
Carries(e) ==
  IF e.event = "application_activated" THEN e.application \in Apps
  ELSE e.application = NoApp

(***************************************************************************)
(* What makes the types inductive: events carry what their signals need,   *)
(* and were stamped no later than now.                                     *)
(***************************************************************************)
TypeInv ==
  /\ TypeOK
  /\ \A i \in 1 .. Len(events) : Carries(events[i])
  /\ told \in 0 .. Inputs /\ waited \in Nat

-----------------------------------------------------------------------------
(* Sequences at the ends of a channel. *)

LEMMA AppendToChannel ==
  ASSUME NEW S, NEW s \in Seq(S), NEW e \in S
  PROVE  /\ Append(s, e) \in Seq(S) /\ Append(s, e) # <<>>
         /\ Len(Append(s, e)) = Len(s) + 1 /\ Len(s) \in Nat
         /\ \A i \in 1 .. Len(s) : Append(s, e)[i] = s[i]
         /\ Append(s, e)[Len(s) + 1] = e
BY AppendProperties, LenProperties

LEMMA TakeFromChannel ==
  ASSUME NEW S, NEW s \in Seq(S), s # <<>>
  PROVE  /\ Head(s) \in S /\ Head(s) = s[1] /\ Len(s) \in Nat \ {0}
         /\ Tail(s) \in Seq(S) /\ Len(Tail(s)) = Len(s) - 1
         /\ \A i \in 1 .. Len(Tail(s)) : Tail(s)[i] = s[i + 1]
BY HeadTailProperties, EmptySeq, LenProperties

(* A countdown stays in its range. *)
LEMMA LessInRange ==
  ASSUME NEW n \in Nat, NEW m \in 0 .. n
  PROVE  Less(m) \in 0 .. n /\ Less(m) <= m
BY DEF Less

(* A key press counts modulo the width of the counter. *)
LEMMA ModSmall ==
  ASSUME NEW w \in Nat \ {0}, NEW n \in 0 .. (w - 1)
  PROVE  n % w = n
OBVIOUS

LEMMA ModOnce ==
  ASSUME NEW w \in Nat \ {0}, NEW n \in 0 .. (w - 1)
  PROVE  (n + w) % w = n
OBVIOUS

-----------------------------------------------------------------------------
(* Types. *)

LEMMA RecordType ==
  ASSUME NEW kind \in {"none", "tick", "focus", "state_change", "lock",
                       "unlock", "sleep", "wake"},
         NEW ts \in Stamps, NEW a \in Apps \cup {NoApp}
  PROVE  Record(kind, ts, a) \in Records
BY DEF Record, Records

LEMMA NoRecordType == NoRecord \in Records /\ 0 \in Stamps
<1>1. 0 \in Stamps
  BY WindowsAssumption DEF Stamps
<1>2. QED
  BY <1>1, RecordType DEF NoRecord

LEMMA NoPendingType ==
  NoPending \in [record : Records, left : 0 .. Debounce, room : 0 .. Ceiling]
BY NoRecordType, WindowsAssumption DEF NoPending

(* Every event that is emitted asks for a record. *)
LEMMA SignalType ==
  ASSUME NEW e \in Samples \cup Markers \cup {"will_sleep"}
  PROVE  /\ Signal(e) \in {"focus", "state_change", "lock", "unlock", "sleep", "wake"}
         /\ Signal(e) = "focus" <=> e = "application_activated"
         /\ e \in Samples => Signal(e) \in {"focus", "state_change"}
         /\ Signal(e) = "sleep" <=> e = "will_sleep"
BY DEF Signal, Samples, Markers

LEMMA ReceivedType ==
  ASSUME NEW e \in Event
  PROVE  Record(Signal(e.event), e.at, e.application) \in Records
<1>1. /\ e.event \in Samples \cup Markers \cup {"will_sleep"}
      /\ e.at \in Stamps /\ e.application \in Apps \cup {NoApp}
  BY DEF Event
<1>2. Signal(e.event) \in {"focus", "state_change", "lock", "unlock", "sleep", "wake"}
  BY <1>1, SignalType
<1>3. QED
  BY <1>1, <1>2, RecordType

(* A burst collapsed into one record is a record. *)
LEMMA CombinedType ==
  ASSUME NEW old \in Records, NEW new \in Records
  PROVE  Combined(old, new) \in Records
BY DEF Combined, Records

LEMMA ScheduleType ==
  ASSUME TypeOK, NEW new \in Records
  PROVE  Schedule(new) \in [record : Records, left : 0 .. Debounce, room : 0 .. Ceiling]
<1>1. pending.record \in Records /\ pending.room \in 0 .. Ceiling
  BY DEF TypeOK
<1>2. Combined(pending.record, new) \in Records
  BY <1>1, CombinedType
<1>3. Deadline(pending.room) \in 0 .. Debounce
  BY <1>1, WindowsAssumption DEF Deadline, Least
<1>4. QED
  BY <1>1, <1>2, <1>3, WindowsAssumption DEF Schedule

LEMMA CounterType ==
  ASSUME NEW n \in 0 .. Inputs
  PROVE  /\ Counter(n) = (IF n = 0 THEN Width - 1 ELSE n - 1)
         /\ Counter(n) \in 0 .. (Width - 1)
<1>1. Width \in Nat \ {0} /\ Inputs \in 0 .. (Width - 1) /\ n \in 0 .. (Width - 1)
  BY WindowsAssumption
<1>2. CASE n = 0
  <2>1. (Width - 1) % Width = Width - 1
    BY <1>1, ModSmall
  <2>2. QED
    BY <1>1, <1>2, <2>1 DEF Counter
<1>3. CASE n # 0
  <2>1. n - 1 \in 0 .. (Width - 1)
    BY <1>1, <1>3
  <2>2. ((n - 1) + Width) % Width = n - 1
    BY <1>1, <2>1, ModOnce
  <2>3. (n - 1) + Width = Width - 1 + n
    BY <1>1
  <2>4. QED
    BY <1>1, <1>3, <2>1, <2>2, <2>3 DEF Counter
<1>4. QED
  BY <1>2, <1>3

LEMMA InitTypeInv == Init => TypeInv
<1> SUFFICES ASSUME Init PROVE TypeInv
  OBVIOUS
<1>1. pending \in [record : Records, left : 0 .. Debounce, room : 0 .. Ceiling]
  BY NoPendingType DEF Init
<1>2. hand \in Records /\ posted \in Stamps /\ flush \in Stamps /\ shipping \in Stamps
  BY NoRecordType DEF Init
<1>3. /\ events \in Seq(Event) /\ out \in Seq(Records)
      /\ Len(events) = 0 /\ Len(out) = 0
  BY EmptySeq DEF Init
<1>4. QED
  BY <1>1, <1>2, <1>3, WindowsAssumption DEF Init, TypeInv, TypeOK, Event

(* Inbox::emit stamps an event with the time and what it carries. *)
LEMMA EmitTypeInv ==
  ASSUME TypeInv, NEW event \in Samples \cup Markers \cup {"will_sleep"},
         NEW a \in Apps \cup {NoApp}, Emit(event, a),
         IF event = "application_activated" THEN a \in Apps ELSE a = NoApp
  PROVE  /\ posted' = posted + 1 /\ posted' \in Stamps /\ events' \in Seq(Event)
         /\ \A i \in 1 .. Len(events') : Carries(events'[i])
<1> DEFINE e == [event |-> event, at |-> posted', application |-> a]
<1>1. posted' = posted + 1 /\ posted' \in Stamps
  BY WindowsAssumption DEF Emit, TypeInv, TypeOK, Stamps
<1>2. e \in Event /\ Carries(e)
  BY <1>1 DEF Event, Carries
<1>3. events' = Append(events, e) /\ events \in Seq(Event)
  BY DEF Emit, TypeInv, TypeOK, Event
<1> HIDE DEF e
<1>4. /\ events' \in Seq(Event) /\ Len(events') = Len(events) + 1 /\ Len(events) \in Nat
      /\ \A i \in 1 .. Len(events) : events'[i] = events[i]
      /\ events'[Len(events) + 1] = e
  BY <1>2, <1>3, AppendToChannel
<1>5. ASSUME NEW i \in 1 .. Len(events') PROVE Carries(events'[i])
  <2>1. CASE i \in 1 .. Len(events)
    BY <1>4, <2>1 DEF TypeInv
  <2>2. CASE i = Len(events) + 1
    BY <1>2, <1>4, <2>2
  <2>3. QED
    BY <1>4, <2>1, <2>2
<1>6. QED
  BY <1>1, <1>4, <1>5

(* What the callbacks make of a notification is an event or nothing. *)
LEMMA NotifyEmits ==
  ASSUME NEW name, Notify(name)
  PROVE  \E event \in Samples \cup Markers, a \in Apps \cup {NoApp} :
           /\ Emit(event, a)
           /\ IF event = "application_activated" THEN a \in Apps ELSE a = NoApp
BY DEF Notify, Samples

LEMMA NotifyTypeInv ==
  ASSUME TypeInv, NEW name, Notify(name)
  PROVE  TypeInv'
<1>1. PICK event \in Samples \cup Markers, a \in Apps \cup {NoApp} :
        /\ Emit(event, a)
        /\ IF event = "application_activated" THEN a \in Apps ELSE a = NoApp
  BY NotifyEmits
<1>2. /\ posted' \in Stamps /\ events' \in Seq(Event)
      /\ \A i \in 1 .. Len(events') : Carries(events'[i])
  BY <1>1, EmitTypeInv
<1>3. QED
  BY <1>2 DEF Notify, TypeInv, TypeOK, Event, sleeping, debounce, sending, writing, input

LEMMA WillSleepTypeInv == TypeInv /\ WillSleep => TypeInv'
<1> SUFFICES ASSUME TypeInv, WillSleep PROVE TypeInv'
  OBVIOUS
<1>1. /\ posted' \in Stamps /\ events' \in Seq(Event)
      /\ \A i \in 1 .. Len(events') : Carries(events'[i])
  BY EmitTypeInv DEF WillSleep, Samples
<1>2. expiry' \in 0 .. Budget
  BY WindowsAssumption DEF WillSleep
<1>3. QED
  BY <1>1, <1>2 DEF WillSleep, TypeInv, TypeOK, Event, debounce, sending, writing, input

LEMMA ReceiveTypeInv == TypeInv /\ Receive => TypeInv'
<1> SUFFICES ASSUME TypeInv, Receive PROVE TypeInv'
  OBVIOUS
<1> DEFINE e == Head(events)
           new == Record(Signal(e.event), e.at, e.application)
<1>1. events \in Seq(Event) /\ events # <<>>
  BY DEF TypeInv, TypeOK, Event, Receive
<1>2. /\ e \in Event /\ Len(events) \in Nat \ {0}
      /\ events' \in Seq(Event) /\ Len(events') = Len(events) - 1
      /\ \A i \in 1 .. Len(events') : events'[i] = events[i + 1]
  BY <1>1, TakeFromChannel DEF Receive
<1>3. \A i \in 1 .. Len(events') : Carries(events'[i])
  <2>1. \A i \in 1 .. Len(events') : i + 1 \in 1 .. Len(events)
    BY <1>2
  <2>2. QED
    BY <1>2, <2>1 DEF TypeInv
<1>4. new \in Records
  BY <1>2, ReceivedType
<1> HIDE DEF new
<1>5. /\ pending' \in [record : Records, left : 0 .. Debounce, room : 0 .. Ceiling]
      /\ hand' \in Records
      /\ pc' \in {"select", "send"}
      /\ UNCHANGED waited
  <2>1. CASE pending' = Schedule(new) /\ UNCHANGED <<pc, hand, waited>>
    BY <1>4, <2>1, ScheduleType DEF Receive, TypeInv, TypeOK
  <2>2. CASE pc' = "send" /\ hand' = new /\ UNCHANGED debounce
    BY <1>4, <2>2 DEF TypeInv, TypeOK, debounce
  <2>3. QED
    BY <2>1, <2>2 DEF Receive, new
<1>6. QED
  BY <1>2, <1>3, <1>5 DEF Receive, TypeInv, TypeOK, Event, sleeping, writing, input

LEMMA ProviderTypeInv ==
  ASSUME TypeInv,
         \/ Tick \/ Fire \/ Assembled \/ NothingInFront \/ Acknowledge \/ Restart
         \/ Panic \/ Stop \/ FlushExpires \/ Type
  PROVE  TypeInv'
<1> USE DEF TypeInv, TypeOK, inbox, sleeping, sending, debounce, writing, input
<1>1. TickInterval \in 0 .. TickInterval
  BY WindowsAssumption
<1>2. CASE Tick
  BY <1>1, <1>2 DEF Tick
<1>3. CASE Fire
  BY <1>3, NoPendingType DEF Fire
<1>4. CASE Assembled
  <2>1. Record("tick", 0, NoApp) \in Records
    BY NoRecordType, RecordType
  <2>2. Counter(seen) \in 0 .. Width
    BY CounterType, WindowsAssumption
  <2>3. CASE pc = "tick" /\ hand' = Record("tick", 0, NoApp) /\ Advance
    BY <1>4, <2>1, <2>2, <2>3 DEF Assembled, Advance
  <2>4. CASE pc = "sample" /\ UNCHANGED <<hand, input>>
    BY <1>4, <2>4 DEF Assembled
  <2>5. QED
    BY <1>4, <2>3, <2>4 DEF Assembled
<1>5. CASE NothingInFront
  BY <1>5, NoRecordType DEF NothingInFront
<1>6. CASE Acknowledge
  BY <1>6, NoRecordType, WindowsAssumption DEF Acknowledge
<1>7. CASE Restart
  BY <1>1, <1>7 DEF Restart
<1>8. CASE Panic
  BY <1>8, NoRecordType, NoPendingType, WindowsAssumption DEF Panic
<1>9. CASE Stop
  <2>1. events' \in Seq(Event) /\ Len(events') = 0
    BY <1>9, EmptySeq DEF Stop
  <2>2. QED
    BY <1>9, <2>1, NoRecordType, NoPendingType, WindowsAssumption DEF Stop, Event
<1>10. CASE FlushExpires
  BY <1>10, NoRecordType DEF FlushExpires
<1>11. CASE Type
  BY <1>11, WindowsAssumption DEF Type
<1>12. QED
  BY <1>2, <1>3, <1>4, <1>5, <1>6, <1>7, <1>8, <1>9, <1>10, <1>11

LEMMA WriterTypeInv ==
  ASSUME TypeInv, Send \/ Store \/ StoreFails \/ Shipped
  PROVE  TypeInv'
<1> USE DEF TypeInv, TypeOK, inbox, sleeping, sending, debounce, writing, input
<1>1. CASE Send
  <2>1. /\ out' \in Seq(Records) /\ Len(out') = Len(out) + 1 /\ Len(out) \in Nat
    BY <1>1, AppendToChannel DEF Send
  <2>2. Len(out') <= Queue
    BY <1>1, <2>1, WindowsAssumption DEF Send, Room
  <2>3. QED
    BY <1>1, <2>1, <2>2, NoRecordType, WindowsAssumption DEF Send
<1>2. ASSUME out # <<>>, out' = Tail(out)
      PROVE  /\ out' \in Seq(Records) /\ Len(out') <= Queue
             /\ Head(out).ts \in Stamps
  <2>1. /\ out' \in Seq(Records) /\ Len(out') = Len(out) - 1 /\ Len(out) \in Nat
        /\ Head(out) \in Records
    BY <1>2, TakeFromChannel
  <2>2. QED
    BY <2>1, WindowsAssumption DEF Records
<1>3. CASE Store
  <2>1. /\ out' \in Seq(Records) /\ Len(out') <= Queue
        /\ Head(out).ts \in Stamps
    BY <1>2, <1>3 DEF Store
  <2>2. shipping' \in {0, Head(out).ts} /\ settled' \subseteq settled \cup {Head(out).ts}
    BY <1>3 DEF Store
  <2>3. patience' \in {patience, Budget}
    BY <1>3 DEF Store
  <2>4. /\ shipping' \in Stamps /\ settled' \subseteq Stamps
        /\ patience' \in 0 .. Budget
    BY <2>1, <2>2, <2>3, NoRecordType, WindowsAssumption
  <2>5. QED
    BY <1>3, <2>1, <2>4 DEF Store
<1>4. CASE StoreFails
  <2>1. /\ out' \in Seq(Records) /\ Len(out') <= Queue
        /\ Head(out).ts \in Stamps
    BY <1>2, <1>4 DEF StoreFails
  <2>2. /\ settled' \subseteq Stamps
        /\ receipt' \in {"none", "awaited", "committed", "dropped"}
    BY <1>4, <2>1 DEF StoreFails, Answer
  <2>3. faults' \in 0 .. Faults
    BY <1>4, WindowsAssumption DEF StoreFails
  <2>4. QED
    BY <1>4, <2>1, <2>2, <2>3 DEF StoreFails
<1>5. CASE Shipped
  BY <1>5, NoRecordType, WindowsAssumption DEF Shipped, Answer
<1>6. QED
  BY <1>1, <1>3, <1>4, <1>5

LEMMA PassTypeInv == TypeInv /\ Pass => TypeInv'
<1> SUFFICES ASSUME TypeInv, Pass PROVE TypeInv'
  OBVIOUS
<1> USE DEF TypeInv, TypeOK, inbox, sleeping, sending, debounce, writing, input
<1>1. /\ expiry' \in 0 .. Budget /\ grace' \in 0 .. Budget /\ patience' \in 0 .. Budget
      /\ ticker' \in 0 .. TickInterval
  BY LessInRange, WindowsAssumption DEF Pass
<1>2. Less(pending.left) \in 0 .. Debounce /\ Less(pending.room) \in 0 .. Ceiling
  BY LessInRange, WindowsAssumption
<1>3. pending' \in [record : Records, left : 0 .. Debounce, room : 0 .. Ceiling]
  BY <1>2 DEF Pass
<1>4. waited' \in Nat
  BY DEF Pass
<1>5. QED
  BY <1>1, <1>3, <1>4 DEF Pass

LEMMA NextTypeInv == TypeInv /\ [Next]_vars => TypeInv'
<1> SUFFICES ASSUME TypeInv, [Next]_vars PROVE TypeInv'
  OBVIOUS
<1>1. CASE UNCHANGED vars
  BY <1>1 DEF vars, TypeInv, TypeOK, inbox, sleeping, sending, debounce, writing, input
<1>2. QED
  BY <1>1, NotifyTypeInv, WillSleepTypeInv, ReceiveTypeInv, ProviderTypeInv,
     WriterTypeInv, PassTypeInv DEF Next, Provide, Write

(***************************************************************************)
(* Types: the emission channel never exceeds its capacity, no deadline     *)
(* lies further ahead than its constant, and the counter keeps its width.  *)
(***************************************************************************)
THEOREM TypesHold == Spec => []TypeOK
<1>1. TypeInv => TypeOK
  BY DEF TypeInv
<1>2. QED
  BY <1>1, InitTypeInv, NextTypeInv, PTL DEF Spec

-----------------------------------------------------------------------------
(* The ceiling. *)

(***************************************************************************)
(* The time a burst has waited and the time its ceiling leaves it never    *)
(* add up to more than the ceiling, and its deadline lies within that      *)
(* room: while there is time to pass there is room to take it from.        *)
(***************************************************************************)
CeilingInv ==
  /\ IsPending => /\ pending.record.kind \in {"focus", "state_change"}
                  /\ pending.left <= pending.room
                  /\ waited + pending.room <= Ceiling
  /\ ~ IsPending => waited = 0

LEMMA InitCeilingInv == Init => CeilingInv
BY DEF Init, CeilingInv, IsPending

(* What a burst collapses into is itself an activation or a change. *)
LEMMA CombinedKind ==
  ASSUME NEW old, NEW new
  PROVE  Combined(old, new).kind \in {"focus", "state_change"}
BY DEF Combined

(* Only a record that stands for nothing is no record. *)
LEMMA PendingKind ==
  ASSUME NEW p, p.record.kind \in {"focus", "state_change"}
  PROVE  p # NoPending
BY DEF NoPending, NoRecord, Record

LEMMA ReceiveCeilingInv == TypeInv /\ CeilingInv /\ Receive => CeilingInv'
<1> SUFFICES ASSUME TypeInv, CeilingInv, Receive PROVE CeilingInv'
  OBVIOUS
<1> DEFINE e == Head(events)
           new == Record(Signal(e.event), e.at, e.application)
<1>1. CASE UNCHANGED debounce
  BY <1>1 DEF CeilingInv, IsPending, debounce
<1>2. CASE e.event \in Samples /\ pending' = Schedule(new) /\ UNCHANGED waited
  <2>1. new.kind \in {"focus", "state_change"}
    BY <1>2, SignalType DEF Record
  <2> HIDE DEF e, new
  <2>2. pending.room \in 0 .. Ceiling /\ waited \in Nat
    BY DEF TypeInv, TypeOK
  <2>3. CASE IsPending
    <3>1. pending' = [record |-> Combined(pending.record, new),
                      left |-> Deadline(pending.room), room |-> pending.room]
      BY <1>2, <2>3 DEF Schedule
    <3>2. pending'.record.kind \in {"focus", "state_change"}
      BY <3>1, CombinedKind
    <3>3. pending'.left <= pending'.room /\ pending'.room = pending.room
      BY <2>2, <3>1, WindowsAssumption DEF Deadline, Least
    <3>4. QED
      BY <1>2, <2>3, <3>2, <3>3, PendingKind DEF CeilingInv, IsPending
  <2>4. CASE ~ IsPending
    <3>1. pending' = [record |-> new, left |-> Debounce, room |-> Ceiling]
      BY <1>2, <2>4 DEF Schedule
    <3>2. waited' = 0
      BY <1>2, <2>4 DEF CeilingInv
    <3>3. QED
      BY <2>1, <3>1, <3>2, PendingKind, WindowsAssumption DEF CeilingInv, IsPending
  <2>5. QED
    BY <2>3, <2>4
<1>3. QED
  BY <1>1, <1>2 DEF Receive

LEMMA PassCeilingInv == TypeInv /\ CeilingInv /\ Pass => CeilingInv'
<1> SUFFICES ASSUME TypeInv, CeilingInv, Pass PROVE CeilingInv'
  OBVIOUS
<1>1. /\ pending \in [record : Records, left : 0 .. Debounce, room : 0 .. Ceiling]
      /\ waited \in Nat
  BY DEF TypeInv, TypeOK
<1>2. /\ pending'.record = pending.record
      /\ pending'.left = Less(pending.left) /\ pending'.room = Less(pending.room)
  BY <1>1 DEF Pass
<1>3. CASE IsPending
  <2>1. pending'.record.kind \in {"focus", "state_change"}
    BY <1>2, <1>3 DEF CeilingInv
  <2>2. pending'.left <= pending'.room
    BY <1>1, <1>2, <1>3, WindowsAssumption DEF CeilingInv, Less
  <2>3. waited' + pending'.room <= Ceiling
    <3>1. CASE pc = "select"
      <4>1. pending.left # 0 /\ waited' = waited + 1
        BY <1>3, <3>1 DEF Pass, Ready
      <4>2. QED
        BY <1>1, <1>2, <1>3, <4>1, WindowsAssumption DEF CeilingInv, Less
    <3>2. CASE pc # "select"
      <4>1. waited' = waited
        BY <3>2 DEF Pass
      <4>2. QED
        BY <1>1, <1>2, <1>3, <4>1, WindowsAssumption DEF CeilingInv, Less
    <3>3. QED
      BY <3>1, <3>2
  <2>4. QED
    BY <2>1, <2>2, <2>3, PendingKind DEF CeilingInv, IsPending
<1>4. CASE ~ IsPending
  <2>1. pending' = NoPending /\ waited' = 0
    <3>1. pending = NoPending
      BY <1>4 DEF IsPending
    <3>2. pending' = pending
      BY <3>1 DEF Pass, NoPending, Less
    <3>3. QED
      BY <1>4, <3>1, <3>2 DEF Pass, CeilingInv
  <2>2. QED
    BY <2>1 DEF CeilingInv, IsPending
<1>5. QED
  BY <1>3, <1>4

(* Every other step takes the burst or leaves it. *)
LEMMA BurstTakenOrKept ==
  ASSUME [Next]_vars, ~ Receive, ~ Pass
  PROVE  \/ UNCHANGED debounce
         \/ pending' = NoPending /\ burst' = <<>> /\ waited' = 0
<1> USE DEF debounce
<1>1. CASE UNCHANGED vars
  BY <1>1 DEF vars
<1>2. CASE \E name \in Notifications : Notify(name)
  BY <1>2 DEF Notify
<1>3. CASE WillSleep \/ FlushExpires \/ Type
  BY <1>3 DEF WillSleep, FlushExpires, Type
<1>4. CASE Tick \/ Fire \/ Assembled \/ NothingInFront
  BY <1>4 DEF Tick, Fire, Assembled, NothingInFront
<1>5. CASE Send \/ Acknowledge \/ Restart \/ Panic \/ Stop
  BY <1>5 DEF Send, Acknowledge, Restart, Panic, Stop
<1>6. CASE Store \/ Shipped \/ StoreFails
  BY <1>6 DEF Store, Shipped, StoreFails
<1>7. QED
  BY <1>1, <1>2, <1>3, <1>4, <1>5, <1>6 DEF Next, Provide, Write

LEMMA NextCeilingInv == TypeInv /\ CeilingInv /\ [Next]_vars => CeilingInv'
<1> SUFFICES ASSUME TypeInv, CeilingInv, [Next]_vars PROVE CeilingInv'
  OBVIOUS
<1>1. CASE UNCHANGED debounce
  BY <1>1 DEF CeilingInv, IsPending, debounce
<1>2. CASE pending' = NoPending /\ burst' = <<>> /\ waited' = 0
  BY <1>2 DEF CeilingInv, IsPending
<1>3. QED
  BY <1>1, <1>2, ReceiveCeilingInv, PassCeilingInv, BurstTakenOrKept

LEMMA CeilingInvImplies == TypeInv /\ CeilingInv => WithinCeiling
BY WindowsAssumption DEF TypeInv, TypeOK, CeilingInv, WithinCeiling

(***************************************************************************)
(* However fast events come, no burst is kept waiting by the debounce past *)
(* DEBOUNCE_CEILING (windows.rs, Schedule and the select of `run`).        *)
(***************************************************************************)
THEOREM WithinCeilingAlways == Spec => []WithinCeiling
<1>1. TypeInv /\ CeilingInv /\ [Next]_vars => TypeInv' /\ CeilingInv'
  BY NextTypeInv, NextCeilingInv
<1>2. QED
  BY <1>1, InitTypeInv, InitCeilingInv, CeilingInvImplies, PTL DEF Spec

-----------------------------------------------------------------------------
(* What a burst is told as. *)

(* An activation has its application; any other change has none. *)
Plain(r) ==
  \/ r.kind = "focus" /\ r.application \in Apps
  \/ r.kind = "state_change" /\ r.application = NoApp

Focused(b) == {i \in 1 .. Len(b) : b[i].kind = "focus"}

(* The record a burst calls for. *)
Tells(r, b) ==
  /\ b = <<>> => r = NoRecord
  /\ Focused(b) # {} => \E i \in Focused(b) : /\ \A j \in Focused(b) : j <= i
                                            /\ r = b[i]
  /\ b # <<>> /\ Focused(b) = {}
       => r = Record("state_change", b[1].ts, NoApp)

(***************************************************************************)
(* The record of a burst can be told from the last record of it and the    *)
(* one it had before only because activations, and nothing else, carry an  *)
(* application.                                                            *)
(***************************************************************************)
BurstInv ==
  /\ burst \in Seq(Records)
  /\ \A i \in 1 .. Len(burst) : Plain(burst[i])
  /\ burst = <<>> <=> pending = NoPending
  /\ Tells(pending.record, burst)

LEMMA InitBurstInv == Init => BurstInv
<1> SUFFICES ASSUME Init PROVE BurstInv
  OBVIOUS
<1>1. burst = <<>> /\ Len(burst) = 0 /\ burst \in Seq(Records)
  BY EmptySeq DEF Init
<1>2. Focused(burst) = {} /\ pending.record = NoRecord
  BY <1>1 DEF Focused, Init, NoPending
<1>3. QED
  BY <1>1, <1>2 DEF BurstInv, Tells, Init

(* Which records of a longer burst are activations. *)
LEMMA FocusedOfAppend ==
  ASSUME NEW b \in Seq(Records), NEW new \in Records
  PROVE  /\ new.kind # "focus" => Focused(Append(b, new)) = Focused(b)
         /\ new.kind = "focus" =>
              Focused(Append(b, new)) = Focused(b) \cup {Len(b) + 1}
<1>1. /\ Len(Append(b, new)) = Len(b) + 1 /\ Len(b) \in Nat
      /\ \A i \in 1 .. Len(b) : Append(b, new)[i] = b[i]
      /\ Append(b, new)[Len(b) + 1] = new
  BY AppendToChannel
<1>2. 1 .. (Len(b) + 1) = (1 .. Len(b)) \cup {Len(b) + 1}
  BY <1>1
<1>3. QED
  BY <1>1, <1>2 DEF Focused

(* An activation replaces what was told before it. *)
LEMMA ActivationWins ==
  ASSUME NEW old \in Records, NEW new \in Records, new.kind = "focus",
         new.application \in Apps
  PROVE  Combined(old, new) = new
<1>1. new.application # NoApp
  BY WindowsAssumption
<1>2. QED
  BY <1>1 DEF Combined, Records

(* Any other change leaves what was told. *)
LEMMA ChangeKeeps ==
  ASSUME NEW old \in Records, NEW new \in Records, new.kind = "state_change",
         new.application = NoApp, old.kind \in {"focus", "state_change"}
  PROVE  Combined(old, new) = old
BY DEF Combined, Records

(* One more record in a burst that has been told right is told right. *)
LEMMA TellsAppend ==
  ASSUME NEW b \in Seq(Records), NEW new \in Records, Plain(new),
         NEW r \in Records, Tells(r, b), b # <<>>,
         r.kind \in {"focus", "state_change"}
  PROVE  Tells(Combined(r, new), Append(b, new))
<1>1. /\ Append(b, new) # <<>> /\ Len(b) \in Nat \ {0}
      /\ \A i \in 1 .. Len(b) : Append(b, new)[i] = b[i]
      /\ Append(b, new)[Len(b) + 1] = new
  BY AppendToChannel, TakeFromChannel
<1>2. Focused(b) \subseteq 1 .. Len(b)
  BY DEF Focused
<1>3. CASE new.kind = "focus"
  <2>1. Focused(Append(b, new)) = Focused(b) \cup {Len(b) + 1}
    BY <1>3, FocusedOfAppend
  <2>2. Combined(r, new) = new
    BY <1>3, ActivationWins DEF Plain
  <2>3. \A j \in Focused(Append(b, new)) : j <= Len(b) + 1
    BY <1>1, <1>2, <2>1
  <2>4. QED
    BY <1>1, <2>1, <2>2, <2>3 DEF Tells
<1>4. CASE new.kind = "state_change"
  <2>1. Focused(Append(b, new)) = Focused(b)
    BY <1>4, FocusedOfAppend
  <2>2. Combined(r, new) = r
    BY <1>4, ChangeKeeps DEF Plain
  <2>3. Append(b, new)[1] = b[1]
    BY <1>1
  <2>4. ASSUME Focused(b) # {}
        PROVE  \E i \in Focused(b) : /\ \A j \in Focused(b) : j <= i
                                     /\ r = Append(b, new)[i]
    BY <1>1, <1>2, <2>4 DEF Tells
  <2>5. QED
    BY <1>1, <2>1, <2>2, <2>3, <2>4 DEF Tells
<1>5. QED
  BY <1>3, <1>4 DEF Plain

(* A burst of one record is told as that record. *)
LEMMA TellsFirst ==
  ASSUME NEW new \in Records, Plain(new)
  PROVE  Tells(new, Append(<<>>, new))
<1>1. <<>> \in Seq(Records) /\ Len(<<>>) = 0
  BY EmptySeq
<1>2. /\ Append(<<>>, new) # <<>> /\ Append(<<>>, new)[1] = new
  <2>1. Append(<<>>, new)[Len(<<>>) + 1] = new /\ Append(<<>>, new) # <<>>
    BY <1>1, AppendToChannel
  <2>2. QED
    BY <1>1, <2>1
<1>3. Focused(<<>>) = {}
  BY <1>1 DEF Focused
<1>4. CASE new.kind = "focus"
  <2>1. Focused(Append(<<>>, new)) = Focused(<<>>) \cup {Len(<<>>) + 1}
    BY <1>1, <1>4, FocusedOfAppend
  <2>2. Focused(Append(<<>>, new)) = {1}
    BY <1>1, <1>3, <2>1
  <2>3. QED
    BY <1>2, <2>2 DEF Tells
<1>5. CASE new.kind = "state_change"
  <2>1. Focused(Append(<<>>, new)) = {}
    BY <1>1, <1>3, <1>5, FocusedOfAppend
  <2>2. new = Record("state_change", new.ts, NoApp)
    BY <1>5 DEF Plain, Record, Records
  <2>3. QED
    BY <1>2, <2>1, <2>2 DEF Tells
<1>6. QED
  BY <1>4, <1>5 DEF Plain

LEMMA ReceiveBurstInv == TypeInv /\ CeilingInv /\ BurstInv /\ Receive => BurstInv'
<1> SUFFICES ASSUME TypeInv, CeilingInv, BurstInv, Receive PROVE BurstInv'
  OBVIOUS
<1> DEFINE e == Head(events)
           new == Record(Signal(e.event), e.at, e.application)
<1>1. CASE UNCHANGED debounce
  BY <1>1 DEF BurstInv, debounce
<1>2. CASE /\ e.event \in Samples /\ pending' = Schedule(new)
           /\ burst' = Append(burst, new)
  <2>1. events \in Seq(Event) /\ events # <<>>
    BY DEF TypeInv, TypeOK, Event, Receive
  <2>2. e \in Event /\ Carries(e)
    BY <2>1, TakeFromChannel DEF TypeInv
  <2>3. new \in Records
    BY <2>2, ReceivedType
  <2>4. Plain(new)
    <3>1. new.kind = Signal(e.event) /\ new.application = e.application
      BY DEF Record
    <3>2. QED
      BY <1>2, <2>2, <3>1, SignalType DEF Plain, Carries
  <2> HIDE DEF e, new
  <2>5. /\ burst' \in Seq(Records) /\ burst' # <<>> /\ Len(burst) \in Nat
        /\ Len(burst') = Len(burst) + 1
        /\ \A i \in 1 .. Len(burst) : burst'[i] = burst[i]
        /\ burst'[Len(burst) + 1] = new
    BY <1>2, <2>3, AppendToChannel DEF BurstInv
  <2>6. \A i \in 1 .. Len(burst') : Plain(burst'[i])
    <3>1. ASSUME NEW i \in 1 .. Len(burst') PROVE Plain(burst'[i])
      <4>1. i \in 1 .. Len(burst) \/ i = Len(burst) + 1
        BY <2>5
      <4>2. QED
        BY <2>4, <2>5, <4>1 DEF BurstInv
    <3>2. QED
      BY <3>1
  <2>7. pending' # NoPending /\ Tells(pending'.record, burst')
    <3>1. CASE IsPending
      <4>1. pending'.record = Combined(pending.record, new)
        BY <1>2, <3>1 DEF Schedule
      <4>2. pending.record \in Records /\ pending.record.kind \in {"focus", "state_change"}
        BY <3>1 DEF TypeInv, TypeOK, CeilingInv
      <4>3. burst # <<>> /\ Tells(pending.record, burst)
        BY <3>1 DEF BurstInv, IsPending
      <4>4. Tells(pending'.record, burst')
        BY <1>2, <2>3, <2>4, <4>1, <4>2, <4>3, TellsAppend DEF BurstInv
      <4>5. QED
        BY <4>1, <4>4, CombinedKind, PendingKind
    <3>2. CASE ~ IsPending
      <4>1. pending'.record = new
        BY <1>2, <3>2 DEF Schedule
      <4>2. burst' = Append(<<>>, new)
        BY <1>2, <3>2 DEF BurstInv, IsPending
      <4>3. QED
        BY <2>3, <2>4, <4>1, <4>2, TellsFirst, PendingKind DEF Plain
    <3>3. QED
      BY <3>1, <3>2
  <2>8. QED
    BY <2>5, <2>6, <2>7 DEF BurstInv
<1>3. QED
  BY <1>1, <1>2 DEF Receive

LEMMA NextBurstInv ==
  TypeInv /\ CeilingInv /\ BurstInv /\ [Next]_vars => BurstInv'
<1> SUFFICES ASSUME TypeInv, CeilingInv, BurstInv, [Next]_vars PROVE BurstInv'
  OBVIOUS
<1>1. CASE UNCHANGED debounce
  BY <1>1 DEF BurstInv, debounce
<1>2. CASE pending' = NoPending /\ burst' = <<>> /\ waited' = 0
  <2>1. Len(burst') = 0 /\ burst' \in Seq(Records)
    BY <1>2, EmptySeq
  <2>2. Focused(burst') = {} /\ pending'.record = NoRecord
    BY <1>2, <2>1 DEF Focused, NoPending
  <2>3. QED
    BY <1>2, <2>1, <2>2 DEF BurstInv, Tells
<1>3. CASE Pass
  <2>1. pending'.record = pending.record /\ burst' = burst
    BY <1>3 DEF Pass, TypeInv, TypeOK
  <2>2. burst = <<>> => pending' = NoPending
    <3>1. burst = <<>> => pending = NoPending
      BY DEF BurstInv
    <3>2. ASSUME pending = NoPending PROVE pending' = pending
      BY <1>3, <3>2 DEF Pass, NoPending, Less
    <3>3. QED
      BY <3>1, <3>2
  <2>3. burst # <<>> => pending' # NoPending
    BY <2>1, PendingKind DEF BurstInv, CeilingInv, IsPending
  <2>4. QED
    BY <2>1, <2>2, <2>3 DEF BurstInv
<1>4. QED
  BY <1>1, <1>2, <1>3, ReceiveBurstInv, BurstTakenOrKept

LEMMA BurstInvImplies == BurstInv => BurstTold
BY DEF BurstInv, Tells, Focused, BurstTold

(***************************************************************************)
(* One sample stands for a burst of any length and any order: an           *)
(* activation in it is recorded with its own time and application, and the *)
(* last one wins (windows.rs, Combined and Schedule; README 651-656).      *)
(***************************************************************************)
THEOREM BurstToldAlways == Spec => []BurstTold
<1>1. TypeInv /\ CeilingInv /\ BurstInv /\ [Next]_vars
        => TypeInv' /\ CeilingInv' /\ BurstInv'
  BY NextTypeInv, NextCeilingInv, NextBurstInv
<1>2. QED
  BY <1>1, InitTypeInv, InitCeilingInv, InitBurstInv, BurstInvImplies, PTL DEF Spec

-----------------------------------------------------------------------------
(* Input. *)

(***************************************************************************)
(* The tracker holds the counter as it was at the last sampled tick, which *)
(* never lies ahead of the tick under way or of the keyboard.              *)
(***************************************************************************)
InputInv ==
  /\ told <= seen /\ seen <= typed
  /\ previous # Width => previous = Counter(told) /\ account = told

LEMMA InitInputInv == Init => InputInv
BY DEF Init, InputInv

(* The difference of two readings is what was typed between them, though   *)
(* the counter wrapped there.                                              *)
LEMMA DeltaOfCounters ==
  ASSUME NEW m \in 0 .. Inputs, NEW n \in 0 .. Inputs, m <= n
  PROVE  Delta(Counter(n), Counter(m)) = n - m
<1>1. /\ Width \in Nat \ {0} /\ Inputs \in 0 .. (Width - 1)
      /\ m \in 0 .. (Width - 1) /\ n \in 0 .. (Width - 1)
      /\ n - m \in 0 .. (Width - 1)
  BY WindowsAssumption
<1>2. /\ Counter(n) = (IF n = 0 THEN Width - 1 ELSE n - 1)
      /\ Counter(m) = (IF m = 0 THEN Width - 1 ELSE m - 1)
  BY CounterType
<1>3. CASE m = 0 /\ n # 0
  <2>1. Counter(n) + Width - Counter(m) = n
    BY <1>1, <1>2, <1>3
  <2>2. n % Width = n
    BY <1>1, ModSmall
  <2>3. QED
    BY <1>1, <1>3, <2>1, <2>2 DEF Delta
<1>4. CASE ~(m = 0 /\ n # 0)
  <2>1. Counter(n) + Width - Counter(m) = (n - m) + Width
    BY <1>1, <1>2, <1>4
  <2>2. ((n - m) + Width) % Width = n - m
    BY <1>1, ModOnce
  <2>3. QED
    BY <2>1, <2>2 DEF Delta
<1>5. QED
  BY <1>3, <1>4

LEMMA AdvanceInputInv ==
  ASSUME TypeInv, InputInv, Advance, UNCHANGED typed
  PROVE  InputInv'
<1>1. told \in 0 .. Inputs /\ seen \in 0 .. Inputs /\ told <= seen /\ seen <= typed
  BY DEF TypeInv, TypeOK, InputInv
<1>2. told' = seen /\ seen' = seen /\ previous' = Counter(seen)
  BY DEF Advance
<1>3. account' = seen
  <2>1. CASE previous = Width
    BY <2>1 DEF Advance
  <2>2. CASE previous # Width
    <3>1. account = told /\ previous = Counter(told)
      BY <2>2 DEF InputInv
    <3>2. Delta(Counter(seen), previous) = seen - told
      BY <1>1, <3>1, DeltaOfCounters
    <3>3. account' = told + (seen - told)
      BY <2>2, <3>1, <3>2 DEF Advance
    <3>4. QED
      BY <1>1, <3>3
  <2>3. QED
    BY <2>1, <2>2
<1>4. QED
  BY <1>1, <1>2, <1>3 DEF InputInv

(* Only a tick reads the counters and only a sampled tick moves the tracker. *)
LEMMA InputStep ==
  ASSUME [Next]_vars, ~ Type, ~ Tick
  PROVE  /\ UNCHANGED typed
         /\ Advance \/ UNCHANGED input
<1> USE DEF input
<1>1. CASE UNCHANGED vars
  BY <1>1 DEF vars
<1>2. CASE \E name \in Notifications : Notify(name)
  BY <1>2 DEF Notify
<1>3. CASE WillSleep \/ FlushExpires
  BY <1>3 DEF WillSleep, FlushExpires
<1>4. CASE Receive \/ Fire \/ Assembled \/ NothingInFront
  BY <1>4 DEF Receive, Fire, Assembled, NothingInFront
<1>5. CASE Send \/ Acknowledge \/ Restart \/ Panic \/ Stop
  BY <1>5 DEF Send, Acknowledge, Restart, Panic, Stop
<1>6. CASE Store \/ Shipped \/ StoreFails
  BY <1>6 DEF Store, Shipped, StoreFails
<1>7. CASE Pass
  BY <1>7 DEF Pass
<1>8. QED
  BY <1>1, <1>2, <1>3, <1>4, <1>5, <1>6, <1>7 DEF Next, Provide, Write

LEMMA NextInputInv == TypeInv /\ InputInv /\ [Next]_vars => InputInv'
<1> SUFFICES ASSUME TypeInv, InputInv, [Next]_vars PROVE InputInv'
  OBVIOUS
<1>1. told \in Nat /\ seen \in Nat /\ typed \in Nat
  BY WindowsAssumption DEF TypeInv, TypeOK
<1>2. CASE Type
  BY <1>1, <1>2 DEF Type, InputInv, input
<1>3. CASE Tick
  BY <1>1, <1>3 DEF Tick, InputInv
<1>4. CASE ~ Type /\ ~ Tick
  <2>1. UNCHANGED typed /\ (Advance \/ UNCHANGED input)
    BY <1>4, InputStep
  <2>2. CASE UNCHANGED <<typed, input>>
    BY <2>2 DEF InputInv, input
  <2>3. QED
    BY <2>1, <2>2, AdvanceInputInv
<1>5. QED
  BY <1>2, <1>3, <1>4

(***************************************************************************)
(* No key press is counted twice and none is lost: the deltas since the    *)
(* first sampled tick add up to what was typed, across wraps of the        *)
(* counter, skipped ticks and restarts (InputCounterTracker::advance).     *)
(***************************************************************************)
THEOREM InputConservedAlways == Spec => []InputConserved
<1>1. TypeInv /\ InputInv /\ [Next]_vars => TypeInv' /\ InputInv'
  BY NextTypeInv, NextInputInv
<1>2. InputInv => InputConserved
  BY DEF InputInv, InputConserved
<1>3. QED
  BY <1>1, <1>2, InitTypeInv, InitInputInv, PTL DEF Spec
-----------------------------------------------------------------------------
(* Sleep. *)

(***************************************************************************)
(* A marker whose receipt is in has been settled with the buffer, and the  *)
(* provider gives up on the receipt no earlier than the callback does on   *)
(* the same marker: its budget starts later.  A later callback cannot be   *)
(* mistaken for it, since every marker was stamped before now.             *)
(***************************************************************************)
SleepInv ==
  /\ \A i \in 1 .. Len(events) : events[i].at <= posted
  /\ hand.kind = "sleep" => hand.ts <= posted
  /\ shipping # 0 => shipping \in settled
  /\ pc = "receipt" => /\ hand.kind = "sleep" /\ receipt # "none"
                       /\ receipt # "awaited" => hand.ts \in settled
                       /\ flush # 0 /\ flush = hand.ts => expiry <= grace

LEMMA InitSleepInv == Init => SleepInv
<1> SUFFICES ASSUME Init PROVE SleepInv
  OBVIOUS
<1>1. Len(events) = 0
  BY EmptySeq DEF Init
<1>2. hand.kind = "none"
  BY DEF Init, NoRecord, Record
<1>3. QED
  BY <1>1, <1>2 DEF Init, SleepInv

LEMMA EmitSleepInv ==
  ASSUME TypeInv, SleepInv, NEW event \in Samples \cup Markers \cup {"will_sleep"},
         NEW a \in Apps \cup {NoApp}, Emit(event, a)
  PROVE  /\ posted' = posted + 1 /\ posted \in Nat
         /\ \A i \in 1 .. Len(events') : events'[i].at <= posted'
<1> DEFINE e == [event |-> event, at |-> posted', application |-> a]
<1>1. posted' = posted + 1 /\ posted' \in Stamps /\ posted \in Nat
  BY WindowsAssumption DEF Emit, TypeInv, TypeOK, Stamps
<1>2. e \in Event /\ e.at = posted'
  BY <1>1 DEF Event
<1>3. events' = Append(events, e) /\ events \in Seq(Event)
  BY DEF Emit, TypeInv, TypeOK, Event
<1> HIDE DEF e
<1>4. /\ Len(events') = Len(events) + 1 /\ Len(events) \in Nat
      /\ \A i \in 1 .. Len(events) : events'[i] = events[i]
      /\ events'[Len(events) + 1] = e
  BY <1>2, <1>3, AppendToChannel
<1>5. ASSUME NEW i \in 1 .. Len(events') PROVE events'[i].at <= posted'
  <2>1. CASE i \in 1 .. Len(events)
    <3>1. events[i] \in Event /\ events[i].at <= posted
      BY <1>3, <2>1, ElementOfSeq DEF SleepInv
    <3>2. events[i].at \in Nat
      BY <3>1, WindowsAssumption DEF Event, Stamps
    <3>3. QED
      BY <1>1, <1>4, <2>1, <3>1, <3>2
  <2>2. CASE i = Len(events) + 1
    BY <1>1, <1>2, <1>4, <2>2
  <2>3. QED
    BY <1>4, <2>1, <2>2
<1>6. QED
  BY <1>1, <1>5

LEMMA PostSleepInv ==
  ASSUME TypeInv, SleepInv, WillSleep \/ \E name \in Notifications : Notify(name)
  PROVE  SleepInv'
<1>1. hand.ts \in Nat /\ posted \in Nat
  BY WindowsAssumption DEF TypeInv, TypeOK, Records, Stamps
<1>2. CASE \E name \in Notifications : Notify(name)
  <2>1. PICK name \in Notifications : Notify(name)
    BY <1>2
  <2>2. PICK event \in Samples \cup Markers, a \in Apps \cup {NoApp} : Emit(event, a)
    BY <2>1, NotifyEmits
  <2>3. posted' = posted + 1 /\ \A i \in 1 .. Len(events') : events'[i].at <= posted'
    BY <2>2, EmitSleepInv
  <2>4. UNCHANGED <<flush, expiry, pc, hand, grace, receipt, shipping, settled>>
    BY <2>1 DEF Notify, sleeping, sending, writing
  <2>5. QED
    BY <1>1, <2>3, <2>4 DEF SleepInv
<1>3. CASE WillSleep
  <2>1. posted' = posted + 1 /\ \A i \in 1 .. Len(events') : events'[i].at <= posted'
    BY <1>3, EmitSleepInv DEF WillSleep
  <2>2. UNCHANGED <<pc, hand, grace, receipt, shipping, settled>> /\ flush' = posted'
    BY <1>3 DEF WillSleep, sending, writing
  <2>3. QED
    BY <1>1, <2>1, <2>2 DEF SleepInv
<1>4. QED
  BY <1>2, <1>3

LEMMA ReceiveSleepInv == TypeInv /\ SleepInv /\ Receive => SleepInv'
<1> SUFFICES ASSUME TypeInv, SleepInv, Receive PROVE SleepInv'
  OBVIOUS
<1>1. /\ Len(events) \in Nat \ {0} /\ Head(events) = events[1]
      /\ Len(events') = Len(events) - 1
      /\ \A i \in 1 .. Len(events') : events'[i] = events[i + 1]
  BY TakeFromChannel DEF Receive, TypeInv, TypeOK
<1>2. \A i \in 1 .. Len(events') : events'[i].at <= posted'
  <2>1. \A i \in 1 .. Len(events') : i + 1 \in 1 .. Len(events)
    BY <1>1
  <2>2. QED
    BY <1>1, <2>1 DEF SleepInv, Receive
<1>3. hand'.kind = "sleep" => hand'.ts <= posted'
  <2>1. CASE UNCHANGED hand
    BY <2>1 DEF SleepInv, Receive
  <2>2. CASE hand' = Record(Signal(Head(events).event), Head(events).at,
                            Head(events).application)
    BY <1>1, <2>2 DEF SleepInv, Receive, Record
  <2>3. QED
    BY <2>1, <2>2 DEF Receive
<1>4. pc' # "receipt" /\ UNCHANGED <<shipping, settled>>
  BY DEF Receive, writing
<1>5. QED
  BY <1>2, <1>3, <1>4 DEF SleepInv

LEMMA ProviderSleepInv ==
  ASSUME TypeInv, CeilingInv, SleepInv,
         \/ Tick \/ Fire \/ Assembled \/ NothingInFront \/ Restart \/ Panic \/ Stop
         \/ Acknowledge \/ FlushExpires \/ Type
  PROVE  SleepInv'
<1> USE DEF SleepInv, inbox, sleeping, sending, writing
<1>1. NoRecord.kind # "sleep"
  BY DEF NoRecord, Record
<1>2. CASE Tick
  BY <1>2 DEF Tick
<1>3. CASE Fire
  <2>1. hand'.kind # "sleep"
    BY <1>3 DEF Fire, CeilingInv
  <2>2. QED
    BY <1>3, <2>1 DEF Fire
<1>4. CASE Assembled
  BY <1>4 DEF Assembled, Record
<1>5. CASE NothingInFront
  BY <1>1, <1>5 DEF NothingInFront
<1>6. CASE Restart
  BY <1>6 DEF Restart
<1>7. CASE Panic
  BY <1>1, <1>7 DEF Panic
<1>8. CASE Stop
  <2>1. Len(events') = 0
    BY <1>8, EmptySeq DEF Stop
  <2>2. QED
    BY <1>1, <1>8, <2>1 DEF Stop
<1>9. CASE Acknowledge
  BY <1>1, <1>9 DEF Acknowledge
<1>10. CASE FlushExpires
  BY <1>10 DEF FlushExpires
<1>11. CASE Type
  BY <1>11 DEF Type
<1>12. QED
  BY <1>2, <1>3, <1>4, <1>5, <1>6, <1>7, <1>8, <1>9, <1>10, <1>11

LEMMA WriterSleepInv ==
  ASSUME TypeInv, SleepInv, Send \/ Store \/ StoreFails \/ Shipped
  PROVE  SleepInv'
<1> USE DEF SleepInv, inbox, sleeping, sending, writing
<1>1. CASE Send
  <2>1. expiry <= Budget
    BY DEF TypeInv, TypeOK
  <2>2. NoRecord.kind # "sleep"
    BY DEF NoRecord, Record
  <2>3. QED
    BY <1>1, <2>1, <2>2 DEF Send
<1>2. CASE Store
  <2>1. settled \subseteq settled'
    BY <1>2 DEF Store
  <2>2. shipping' # 0 => shipping' \in settled'
    BY <1>2 DEF Store
  <2>3. QED
    BY <1>2, <2>1, <2>2 DEF Store
<1>3. CASE StoreFails
  <2>1. settled \subseteq settled'
    BY <1>3 DEF StoreFails
  <2>2. pc = "receipt" => /\ receipt' # "none"
                          /\ receipt' # "awaited" => hand.ts \in settled'
    BY <1>3, <2>1 DEF StoreFails, Answer
  <2>3. QED
    BY <1>3, <2>1, <2>2 DEF StoreFails
<1>4. CASE Shipped
  <2>1. pc = "receipt" => /\ receipt' # "none"
                          /\ receipt' # "awaited" => hand.ts \in settled
    BY <1>4 DEF Shipped, Answer
  <2>2. QED
    BY <1>4, <2>1 DEF Shipped
<1>5. QED
  BY <1>1, <1>2, <1>3, <1>4

LEMMA NextSleepInv ==
  TypeInv /\ CeilingInv /\ SleepInv /\ [Next]_vars => SleepInv'
<1> SUFFICES ASSUME TypeInv, CeilingInv, SleepInv, [Next]_vars PROVE SleepInv'
  OBVIOUS
<1>1. CASE UNCHANGED vars
  BY <1>1 DEF vars, SleepInv, inbox, sleeping, sending, writing
<1>2. CASE Pass
  <2>1. UNCHANGED <<posted, events, flush, pc, hand, receipt, shipping, settled>>
    BY <1>2 DEF Pass, inbox
  <2>2. expiry <= grace => expiry' <= grace'
    <3>1. expiry \in Nat /\ grace \in Nat
      BY WindowsAssumption DEF TypeInv, TypeOK
    <3>2. expiry' = Less(expiry) /\ grace' = Less(grace)
      BY <1>2 DEF Pass
    <3>3. QED
      BY <3>1, <3>2 DEF Less
  <2>3. QED
    BY <2>1, <2>2 DEF SleepInv
<1>3. QED
  BY <1>1, <1>2, PostSleepInv, ReceiveSleepInv, ProviderSleepInv, WriterSleepInv
  DEF Next, Provide, Write

LEMMA StepLetsGoWhenSettled ==
  ASSUME TypeInv, SleepInv, [Next]_vars,
         flush # 0, flush' = 0, expiry > 0, pc' # "gone"
  PROVE  flush \in settled
<1> USE DEF inbox, sleeping
<1>1. CASE Acknowledge
  <2>1. pc = "receipt" /\ Answered /\ flush = hand.ts
    BY <1>1 DEF Acknowledge
  <2>2. grace # 0
    BY <2>1, WindowsAssumption DEF SleepInv, TypeInv, TypeOK
  <2>3. QED
    BY <2>1, <2>2 DEF SleepInv, Answered
<1>2. ~ UNCHANGED vars
  BY DEF vars
<1>3. ~ \E name \in Notifications : Notify(name)
  BY DEF Notify
<1>4. ~ WillSleep
  BY DEF WillSleep, Emit
<1>5. ~ (FlushExpires \/ Type \/ Panic \/ Stop \/ Pass)
  BY DEF FlushExpires, Type, Panic, Stop, Pass
<1>6. ~ (Receive \/ Tick \/ Fire \/ Assembled)
  BY DEF Receive, Tick, Fire, Assembled
<1>7. ~ (NothingInFront \/ Send \/ Restart)
  BY DEF NothingInFront, Send, Restart
<1>8. ~ (Store \/ Shipped \/ StoreFails)
  BY DEF Store, Shipped, StoreFails
<1>9. QED
  BY <1>1, <1>2, <1>3, <1>4, <1>5, <1>6, <1>7, <1>8 DEF Next, Provide, Write

(***************************************************************************)
(* The machine is let go to sleep before the callback's budget ends only   *)
(* once the marker was committed or refused, or the daemon is stopping     *)
(* (deliver_will_sleep and deliver_sleep share one budget, started in that *)
(* order).                                                                 *)
(***************************************************************************)
THEOREM LetGoWhenSettledAlways == Spec => LetGoWhenSettled
<1> DEFINE LetsGo == flush # 0 /\ flush' = 0 /\ expiry > 0 /\ pc' # "gone"
                       => flush \in settled
<1>1. TypeInv /\ CeilingInv /\ SleepInv /\ [Next]_vars
        => TypeInv' /\ CeilingInv' /\ SleepInv' /\ LetsGo
  BY NextTypeInv, NextCeilingInv, NextSleepInv, StepLetsGoWhenSettled
<1> HIDE DEF LetsGo
<1>2. Spec => [][LetsGo]_vars
  BY <1>1, InitTypeInv, InitCeilingInv, InitSleepInv, PTL DEF Spec
<1>3. QED
  BY <1>2, PTL DEF LetsGo, LetGoWhenSettled
=============================================================================
