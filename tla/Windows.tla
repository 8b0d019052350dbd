------------------------------ MODULE Windows ------------------------------
(***************************************************************************)
(* The window provider between the event thread and the record writer:     *)
(* events are stamped in the run loop callbacks and queued, bursts of them *)
(* are debounced into one sample, a ticker asks for a sample of its own,   *)
(* and a will-sleep callback holds the event thread until its marker is    *)
(* acknowledged or its budget ends.                                        *)
(*                                                                         *)
(* Time is discrete.  Every deadline is kept as the time left to it, and   *)
(* time passes only when nothing is ready to run: assembling a sample and  *)
(* shipping take any time, all other code takes none.                      *)
(***************************************************************************)
EXTENDS Naturals, Sequences

CONSTANTS
  Apps,         \* applications that can be activated
  NoApp,        \* None: no application
  Notifications, \* what the system notifies of, apart from a sleep
  Debounce,     \* DEBOUNCE
  Ceiling,      \* DEBOUNCE_CEILING
  Budget,       \* SLEEP_FLUSH_BUDGET
  TickInterval, \* tick_interval
  Queue,        \* EMISSION_QUEUE
  Width,        \* input counters hold 0 .. Width - 1
  Posts,        \* bound: events posted
  Inputs,       \* bound: key presses
  Faults        \* bound: panics and failed commits

ASSUME WindowsAssumption ==
  /\ NoApp \notin Apps
  /\ Debounce \in Nat /\ Ceiling \in Nat /\ Debounce <= Ceiling
  /\ Budget \in Nat
  /\ TickInterval \in Nat \ {0} /\ Queue \in Nat \ {0}
  /\ Width \in Nat /\ Posts \in Nat /\ Faults \in Nat
  /\ Inputs \in 0 .. (Width - 1)

VARIABLES
  posted,   \* events posted so far: the timestamp of the last one
  events,   \* the unbounded channel of the event thread
  flush,    \* timestamp of the sleep the event thread is blocked on, or 0
  expiry,   \* time left to the callback
  pc,       \* where the provider stands
  pending,  \* Pending, or NoPending
  ticker,   \* time to the next tick
  hand,     \* the record being assembled, sent or awaited
  grace,    \* time left to deliver_sleep
  receipt,  \* what came of the awaited emission
  out,      \* the emission channel
  shipping, \* timestamp of the sleep marker being shipped, or 0
  patience, \* time left to ShipNow::within
  faults,   \* panics and failed commits so far
  typed,    \* key presses so far
  seen,     \* typed when the tick under way read the counters
  previous, \* InputCounterTracker.previous, or Width for None
  burst,    \* ghost: the events behind `pending`
  waited,   \* ghost: time `pending` was kept waiting by nothing else
  settled,  \* ghost: sleep markers the buffer took or refused
  told,     \* ghost: typed at the last sampled tick
  account   \* ghost: typed at the first sampled tick, and the deltas since

inbox == <<posted, events>>
sleeping == <<flush, expiry>>
sending == <<hand, grace, receipt>>
debounce == <<pending, burst, waited>>
writing == <<shipping, patience, settled>>
input == <<seen, previous, told, account>>
vars == <<inbox, sleeping, pc, debounce, ticker, sending, out, writing,
          faults, typed, input>>

Samples == {"application_activated", "focused_window_changed",
            "title_changed", "window_created", "window_destroyed",
            "displays_reconfigured"}
Markers == {"screen_locked", "screen_unlocked", "did_wake"}

(* The kind of record an event asks for. *)
Signal(event) ==
  CASE event = "application_activated" -> "focus"
    [] event \in Samples \ {"application_activated"} -> "state_change"
    [] event = "screen_locked" -> "lock"
    [] event = "screen_unlocked" -> "unlock"
    [] event = "did_wake" -> "wake"
    [] event = "will_sleep" -> "sleep"

Record(kind, ts, application) ==
  [kind |-> kind, ts |-> ts, application |-> application]
NoRecord == Record("none", 0, NoApp)
NoPending == [record |-> NoRecord, left |-> 0, room |-> 0]
IsPending == pending # NoPending

Init ==
  /\ posted = 0 /\ events = <<>>
  /\ flush = 0 /\ expiry = 0
  /\ pc = "select"
  /\ pending = NoPending /\ burst = <<>> /\ waited = 0
  /\ ticker = TickInterval
  /\ hand = NoRecord /\ grace = 0 /\ receipt = "none"
  /\ out = <<>>
  /\ shipping = 0 /\ patience = 0 /\ settled = {}
  /\ faults = 0
  /\ typed = 0 /\ seen = 0 /\ previous = Width /\ told = 0 /\ account = 0
-----------------------------------------------------------------------------
(* The event thread. *)

(* What the callbacks make of accessibility notifications: a deactivation  *)
(* is dropped, an activation carries its application.                      *)
AxEvent(name) ==
  CASE name = "AXApplicationActivated" -> "application_activated"
    [] name = "AXApplicationDeactivated" -> "none"
    [] name = "AXFocusedWindowChanged" -> "focused_window_changed"
    [] name = "AXTitleChanged" -> "title_changed"
    [] name = "AXWindowCreated" -> "window_created"
    [] name = "AXUIElementDestroyed" -> "window_destroyed"
    [] OTHER -> "none"

(* ... and of those of the workspace, the login window and the displays. *)
SystemEvent(name) ==
  CASE name = "NSWorkspaceDidActivateApplication" -> "application_activated"
    [] name = "NSWorkspaceDidWake" -> "did_wake"
    [] name = "com.apple.screenIsLocked" -> "screen_locked"
    [] name = "com.apple.screenIsUnlocked" -> "screen_unlocked"
    [] name = "CGDisplayReconfigured" -> "displays_reconfigured"
    [] name = "CGDisplayBeginConfiguration" -> "none"
    [] OTHER -> AxEvent(name)

(* Inbox::emit, with the time and the application of the callback. *)
Emit(event, application) ==
  /\ flush = 0 /\ pc # "gone"
  /\ posted < Posts
  /\ posted' = posted + 1
  /\ events' = Append(events, [event |-> event, at |-> posted',
                               application |-> application])

Notify(name) ==
  /\ LET event == SystemEvent(name)
     IN \/ event = "application_activated" /\ \E a \in Apps : Emit(event, a)
        \/ event \in (Samples \cup Markers) \ {"application_activated"}
             /\ Emit(event, NoApp)
  /\ UNCHANGED <<sleeping, pc, debounce, ticker, sending, out, writing,
                 faults, typed, input>>

(* deliver_will_sleep up to recv_timeout. *)
WillSleep ==
  /\ Emit("will_sleep", NoApp)
  /\ flush' = posted' /\ expiry' = Budget
  /\ UNCHANGED <<pc, debounce, ticker, sending, out, writing, faults, typed,
                 input>>

(* recv_timeout ends without an acknowledgement. *)
FlushExpires ==
  /\ flush # 0 /\ expiry = 0
  /\ flush' = 0
  /\ UNCHANGED <<inbox, expiry, pc, debounce, ticker, sending, out, writing,
                 faults, typed, input>>

(* The user presses a key; the counter of the session follows. *)
Type ==
  /\ typed < Inputs
  /\ typed' = typed + 1
  /\ UNCHANGED <<inbox, sleeping, pc, debounce, ticker, sending, out,
                 writing, faults, input>>
-----------------------------------------------------------------------------
(* WindowProvider::run. *)

Least(m, n) == IF m < n THEN m ELSE n

(* Mutant of Deadline: every event postpones the sample. *)
DeadlineWithoutCeiling(room) == Debounce

Deadline(room) == Least(Debounce, room)

(* Mutant of Combined: an activation keeps the time the burst began at. *)
CombinedAtFirst(old, new) ==
  [kind |-> IF "focus" \in {old.kind, new.kind} THEN "focus"
            ELSE "state_change",
   ts |-> old.ts,
   application |-> IF new.application # NoApp THEN new.application
                   ELSE old.application]

(* A later activation wins, and any activation outlives other changes. *)
Combined(old, new) ==
  [kind |-> IF "focus" \in {old.kind, new.kind} THEN "focus"
            ELSE "state_change",
   ts |-> IF new.kind = "focus" THEN new.ts ELSE old.ts,
   application |-> IF new.application # NoApp THEN new.application
                   ELSE old.application]

Schedule(new) ==
  IF IsPending
  THEN [record |-> Combined(pending.record, new),
        left |-> Deadline(pending.room), room |-> pending.room]
  ELSE [record |-> new, left |-> Debounce, room |-> Ceiling]

Receive ==
  /\ pc = "select" /\ events # <<>>
  /\ LET e == Head(events)
         record == Record(Signal(e.event), e.at, e.application)
     IN \/ /\ e.event \in Samples
           /\ pending' = Schedule(record)
           /\ burst' = Append(burst, record)
           /\ UNCHANGED <<pc, hand, waited>>
        \/ /\ e.event \notin Samples
           /\ pc' = "send" /\ hand' = record
           /\ UNCHANGED debounce
  /\ events' = Tail(events)
  /\ UNCHANGED <<posted, sleeping, ticker, grace, receipt, out, writing,
                 faults, typed, input>>

(* The ticker: the counters are read before the sample is assembled. *)
Tick ==
  /\ pc = "select" /\ ticker = 0
  /\ ticker' = TickInterval
  /\ seen' = typed
  /\ pc' = "tick"
  /\ UNCHANGED <<inbox, sleeping, debounce, sending, out, writing, faults,
                 typed, previous, told, account>>

(* Mutant of Fire: the scheduled sample is looked at, not taken. *)
FireAndKeep ==
  /\ pc = "select" /\ IsPending /\ pending.left = 0
  /\ hand' = pending.record
  /\ pc' = "sample"
  /\ UNCHANGED <<inbox, sleeping, debounce, ticker, grace, receipt, out,
                 writing, faults, typed, input>>

Fire ==
  /\ pc = "select" /\ IsPending /\ pending.left = 0
  /\ hand' = pending.record
  /\ pending' = NoPending /\ burst' = <<>> /\ waited' = 0
  /\ pc' = "sample"
  /\ UNCHANGED <<inbox, sleeping, ticker, grace, receipt, out, writing,
                 faults, typed, input>>

Counter(n) == (Width - 1 + n) % Width

(* Mutant of Delta: a difference that stops at zero. *)
DeltaSaturating(current, before) ==
  IF current >= before THEN current - before ELSE 0

(* wrapping_sub *)
Delta(current, before) == (current + Width - before) % Width

(* InputCounterTracker::advance *)
Advance ==
  /\ previous' = Counter(seen)
  /\ told' = seen
  /\ account' = IF previous = Width THEN seen
                ELSE account + Delta(Counter(seen), previous)
  /\ UNCHANGED seen

Assembled ==
  /\ \/ pc = "tick" /\ hand' = Record("tick", 0, NoApp) /\ Advance
     \/ pc = "sample" /\ UNCHANGED <<hand, input>>
  /\ pc' = "send"
  /\ UNCHANGED <<inbox, sleeping, debounce, ticker, grace, receipt, out,
                 writing, faults, typed>>

(* No application is in front, so there is no sample. *)
NothingInFront ==
  /\ pc \in {"tick", "sample"}
  /\ pc' = "select" /\ hand' = NoRecord
  /\ UNCHANGED <<inbox, sleeping, debounce, ticker, grace, receipt, out,
                 writing, faults, typed, input>>

(* Mutant of Room: the channel takes one more than its capacity. *)
RoomForOneMore == Len(out) <= Queue

Room == Len(out) < Queue

(* out.send waits for room; a sleep marker then waits for its receipt. *)
Send ==
  /\ pc = "send" /\ Room
  /\ out' = Append(out, hand)
  /\ \/ /\ hand.kind = "sleep"
        /\ pc' = "receipt" /\ grace' = Budget /\ receipt' = "awaited"
        /\ UNCHANGED hand
     \/ /\ hand.kind # "sleep"
        /\ pc' = "select" /\ hand' = NoRecord
        /\ UNCHANGED <<grace, receipt>>
  /\ UNCHANGED <<inbox, sleeping, debounce, ticker, writing, faults, typed,
                 input>>

(* Mutant of Answered: the marker counts as delivered once it was sent. *)
AnsweredOnceSent == pc = "receipt"

Answered == receipt # "awaited" \/ grace = 0

(* deliver_sleep acknowledges whatever came of the marker. *)
Acknowledge ==
  /\ pc = "receipt" /\ Answered
  /\ flush' = IF flush = hand.ts THEN 0 ELSE flush
  /\ pc' = "select" /\ hand' = NoRecord /\ receipt' = "none" /\ grace' = 0
  /\ UNCHANGED <<inbox, expiry, debounce, ticker, out, writing, faults,
                 typed, input>>

(* A panic while assembling: `run` starts over, the tracker lives on. *)
Panic ==
  /\ pc \in {"tick", "sample"} /\ faults < Faults
  /\ faults' = faults + 1
  /\ pc' = "pause" /\ hand' = NoRecord
  /\ pending' = NoPending /\ burst' = <<>> /\ waited' = 0
  /\ UNCHANGED <<inbox, sleeping, ticker, grace, receipt, out, writing,
                 typed, input>>

Restart ==
  /\ pc = "pause"
  /\ pc' = "select" /\ ticker' = TickInterval
  /\ UNCHANGED <<inbox, sleeping, debounce, sending, out, writing, faults,
                 typed, input>>

(* main aborts the provider: its channel and its acknowledgements drop. *)
Stop ==
  /\ pc # "gone"
  /\ pc' = "gone"
  /\ events' = <<>> /\ flush' = 0
  /\ hand' = NoRecord /\ receipt' = "none" /\ grace' = 0
  /\ pending' = NoPending /\ burst' = <<>> /\ waited' = 0
  /\ UNCHANGED <<posted, expiry, ticker, out, writing, faults, typed, input>>
-----------------------------------------------------------------------------
(* The record writer. *)

Answer(ts, what) ==
  receipt' = IF pc = "receipt" /\ hand.ts = ts THEN what ELSE receipt

(* store: a sleep marker also asks for a shipment. *)
Store ==
  /\ shipping = 0 /\ out # <<>>
  /\ out' = Tail(out)
  /\ LET ts == IF Head(out).kind = "sleep" THEN Head(out).ts ELSE 0
     IN /\ shipping' = ts
        /\ patience' = IF ts = 0 THEN patience ELSE Budget
        /\ settled' = settled \cup ({ts} \ {0})
  /\ UNCHANGED <<inbox, sleeping, pc, debounce, ticker, sending, faults,
                 typed, input>>

(* The commit fails: the receipt is dropped unsent. *)
StoreFails ==
  /\ shipping = 0 /\ out # <<>> /\ faults < Faults
  /\ faults' = faults + 1
  /\ out' = Tail(out)
  /\ \/ /\ Head(out).kind = "sleep"
        /\ Answer(Head(out).ts, "dropped")
        /\ settled' = settled \cup {Head(out).ts}
     \/ Head(out).kind # "sleep" /\ UNCHANGED <<receipt, settled>>
  /\ UNCHANGED <<inbox, sleeping, pc, debounce, ticker, hand, grace,
                 shipping, patience, typed, input>>

(* ShipNow::within ends, with the shipment or with the budget. *)
Shipped ==
  /\ shipping # 0
  /\ Answer(shipping, "committed")
  /\ shipping' = 0 /\ patience' = 0
  /\ UNCHANGED <<inbox, sleeping, pc, debounce, ticker, hand, grace, out,
                 settled, faults, typed, input>>
-----------------------------------------------------------------------------
(* Something runs before any time passes. *)
Ready ==
  \/ flush # 0 /\ expiry = 0
  \/ pc = "select" /\ (events # <<>> \/ ticker = 0)
  \/ pc = "select" /\ IsPending /\ pending.left = 0
  \/ pc = "send" /\ Room
  \/ pc = "receipt" /\ (receipt # "awaited" \/ grace = 0)
  \/ shipping = 0 /\ out # <<>>
  \/ shipping # 0 /\ patience = 0

Less(n) == IF n = 0 THEN 0 ELSE n - 1

Pass ==
  /\ ~ Ready
  /\ expiry' = Less(expiry)
  /\ ticker' = Less(ticker)
  /\ grace' = Less(grace)
  /\ patience' = Less(patience)
  /\ pending' = [pending EXCEPT !.left = Less(@), !.room = Less(@)]
  /\ waited' = IF pc = "select" /\ IsPending THEN waited + 1 ELSE waited
  /\ UNCHANGED <<inbox, flush, pc, burst, hand, receipt, out, shipping,
                 settled, faults, typed, input>>

Provide == Receive \/ Tick \/ Fire \/ Assembled \/ NothingInFront \/ Send
           \/ Acknowledge \/ Restart

Write == Store \/ Shipped

Next ==
  \/ \E name \in Notifications : Notify(name)
  \/ WillSleep \/ FlushExpires \/ Type
  \/ Provide \/ Panic \/ Stop
  \/ Write \/ StoreFails
  \/ Pass

(* Time passes, every task runs when it can, and select!, which looks at   *)
(* its branches in random order, passes over none of them for ever.        *)
Spec == Init /\ [][Next]_vars
        /\ WF_vars(Provide) /\ SF_vars(Receive) /\ SF_vars(Fire)
        /\ WF_vars(Write) /\ WF_vars(FlushExpires) /\ WF_vars(Pass)
-----------------------------------------------------------------------------
Stamps == 0 .. Posts
Records == [kind : {"none", "tick", "focus", "state_change", "lock",
                    "unlock", "sleep", "wake"},
            ts : Stamps, application : Apps \cup {NoApp}]

(* Every variable has its type; the emission channel keeps its capacity,   *)
(* and a deadline never lies further ahead than the debounce allows.       *)
TypeOK ==
  /\ posted \in Stamps /\ flush \in Stamps /\ shipping \in Stamps
  /\ events \in Seq([event : Samples \cup Markers \cup {"will_sleep"},
                     at : Stamps, application : Apps \cup {NoApp}])
  /\ expiry \in 0 .. Budget /\ grace \in 0 .. Budget
  /\ patience \in 0 .. Budget /\ ticker \in 0 .. TickInterval
  /\ pc \in {"select", "tick", "sample", "send", "receipt", "pause", "gone"}
  /\ pending \in [record : Records, left : 0 .. Debounce,
                  room : 0 .. Ceiling]
  /\ hand \in Records
  /\ receipt \in {"none", "awaited", "committed", "dropped"}
  /\ out \in Seq(Records) /\ Len(out) <= Queue
  /\ settled \subseteq Stamps /\ faults \in 0 .. Faults
  /\ typed \in 0 .. Inputs /\ seen \in 0 .. Inputs
  /\ previous \in 0 .. Width

(* One sample stands for a burst: if an application was activated in it,   *)
(* the record is a focus record with the time and the application of the   *)
(* last activation, whatever title changes came around it; otherwise it is *)
(* a state change at the time the burst began (README 651-656).            *)
BurstTold ==
  LET focused == {i \in 1 .. Len(burst) : burst[i].kind = "focus"}
  IN /\ burst = <<>> => pending.record = NoRecord
     /\ focused # {} => \E i \in focused : /\ \A j \in focused : j <= i
                                         /\ pending.record = burst[i]
     /\ burst # <<>> /\ focused = {}
          => pending.record = Record("state_change", burst[1].ts, NoApp)

(* However fast events come, a burst is not postponed past the ceiling:    *)
(* the provider never waits longer than DEBOUNCE_CEILING with a burst in   *)
(* hand and nothing else to do.                                            *)
WithinCeiling == waited <= Ceiling

(* The deltas of the sampled ticks add up to what was typed, across the    *)
(* wrap of the counter, ticks that found no application in front and       *)
(* restarts of the provider.                                               *)
InputConserved == previous # Width => account = told

(* The will-sleep callback lets the machine go before its budget ends only *)
(* when the sleep marker was buffered, the buffer refused it, or the       *)
(* daemon is stopping.                                                     *)
LetGoWhenSettled ==
  [][flush # 0 /\ flush' = 0 /\ expiry > 0 /\ pc' # "gone"
       => flush \in settled]_vars

(* The event thread, the provider and the writer, each of which waits for  *)
(* another, always get through what was posted, and the callback returns.  *)
Handled ==
  []<>(events = <<>> /\ ~ IsPending /\ flush = 0)
=============================================================================
