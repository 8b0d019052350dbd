----------------------------- MODULE Observers -----------------------------
(***************************************************************************)
(* The event thread's registry of accessibility observers: one run loop    *)
(* source drains a script or rescans the window owners, another thread and *)
(* the activation callback ask for rescans, and processes come and go      *)
(* while a rescan is under way.                                            *)
(***************************************************************************)
EXTENDS Naturals, Sequences, Functions

CONSTANTS
  Pids,      \* process ids
  Regular,   \* those of regular applications (is_regular_application)
  Scripts,   \* scripted event files; the empty one where there is none
  Lives      \* bound: processes that ever run under one pid

ASSUME ObserversAssumption ==
  Regular \subseteq Pids /\ Lives \in Nat /\ <<>> \in Scripts

VARIABLES
  running,   \* pid -> which of its processes runs now, or 0
  born,      \* pid -> processes that ran under it so far
  owners,    \* pids that own a window of layer 0, on any screen or Space
  trusted,   \* accessibility is granted
  register,  \* RegisterSystemSources
  rescan,    \* Inbox.rescan
  signalled, \* the run loop source is signalled
  asker,     \* where RescanHandle::request stands
  pc,        \* where the event thread stands
  present,   \* the applications perform_source listed
  attach,    \* ObserverPlan.attach that is left
  observers, \* pid -> the process its observer is attached to
  refused,   \* pid -> the process that refused (ghost but for its domain)
  injected,  \* scripted events not drained yet
  asked,     \* ghost: a rescan was asked for and no list was read since
  scanned,   \* ghost: the applications of the last rescan
  lingering  \* ghost: pids whose process exited since it was attached to or
             \* refused, and that no rescan has missed since

world == <<running, born, owners, trusted, lingering>>
requests == <<rescan, signalled, asker, asked>>
registry == <<observers, refused, scanned>>
script == <<register, injected>>
vars == <<world, requests, pc, present, attach, registry, script>>

Attached == DOMAIN observers
Refused == DOMAIN refused
Nobody == [p \in {} |-> 0]

(* scripted_event: the lines that name an event, with the pid it needs. *)
NeedsPid == {"application_activated", "focused_window_changed",
             "title_changed", "window_created", "window_destroyed"}
Plain == {"displays_reconfigured", "screen_locked", "screen_unlocked",
          "did_wake", "will_sleep"}
Understood(line) ==
  line.name \in Plain \/ (line.name \in NeedsPid /\ line.pid)

(* scripted_events skips blank lines and those it does not understand. *)
ScriptedEvents(lines) == SelectSeq(lines, Understood)

(* spawn, start and run_event_loop up to CFRunLoop::run: the registration  *)
(* of the system sources asks for the first rescan.                        *)
Init ==
  /\ running = [p \in Pids |-> 0] /\ born = running
  /\ owners = {} /\ lingering = {}
  /\ trusted \in BOOLEAN
  /\ \E lines \in Scripts :
       /\ injected = ScriptedEvents(lines)
       /\ register = (lines = <<>>)
  /\ rescan = register /\ asked = register
  /\ signalled = TRUE /\ asker = "idle"
  /\ pc = "idle" /\ present = {} /\ attach = {}
  /\ observers = Nobody /\ refused = Nobody /\ scanned = {}
-----------------------------------------------------------------------------
(* The world: processes, their windows, the permission.                    *)

(* A pid that is free may be taken at once, rescan or not. *)
Launch(p) ==
  /\ running[p] = 0 /\ born[p] < Lives
  /\ born' = [born EXCEPT ![p] = @ + 1]
  /\ running' = [running EXCEPT ![p] = born'[p]]
  /\ UNCHANGED <<owners, trusted, lingering, requests, pc, present, attach,
                 registry, script>>

Exit(p) ==
  /\ running[p] # 0
  /\ running' = [running EXCEPT ![p] = 0]
  /\ owners' = owners \ {p}
  /\ lingering' = lingering \cup ({p} \cap (Attached \cup Refused))
  /\ UNCHANGED <<born, trusted, requests, pc, present, attach, registry,
                 script>>

OpenOrClose(p) ==
  /\ running[p] # 0
  /\ owners' = IF p \in owners THEN owners \ {p} ELSE owners \cup {p}
  /\ UNCHANGED <<running, born, trusted, lingering, requests, pc, present,
                 attach, registry, script>>

Grant ==
  /\ trusted' = ~ trusted
  /\ UNCHANGED <<running, born, owners, lingering, requests, pc, present,
                 attach, registry, script>>
-----------------------------------------------------------------------------
(* Asking for a rescan. *)

(* Mutant of Request: the source is signalled before the flag is set. *)
SignalThenStore ==
  /\ \/ /\ asker = "idle" /\ pc # "stopped"
        /\ signalled' = TRUE /\ asker' = "between"
        /\ UNCHANGED <<rescan, asked>>
     \/ /\ asker = "between"
        /\ rescan' = TRUE /\ asked' = TRUE /\ asker' = "idle"
        /\ UNCHANGED signalled
  /\ UNCHANGED <<world, pc, present, attach, registry, script>>

(* RescanHandle::request, on a thread of its own: the flag, then the       *)
(* signal; nothing once the event thread is gone.                          *)
Request ==
  /\ \/ /\ asker = "idle" /\ pc # "stopped"
        /\ rescan' = TRUE /\ asked' = TRUE /\ asker' = "between"
        /\ UNCHANGED signalled
     \/ /\ asker = "between"
        /\ signalled' = TRUE /\ asker' = "idle"
        /\ UNCHANGED <<rescan, asked>>
  /\ UNCHANGED <<world, pc, present, attach, registry, script>>

(* The activation callback runs on the event thread, between performs. *)
Activated ==
  /\ pc = "idle" /\ register
  /\ rescan' = TRUE /\ asked' = TRUE /\ signalled' = TRUE
  /\ UNCHANGED <<world, asker, pc, present, attach, registry, script>>
-----------------------------------------------------------------------------
(* perform_source *)

(* The script is emitted; the flag is taken before the windows are read. *)
Perform ==
  /\ pc = "idle" /\ signalled
  /\ signalled' = FALSE
  /\ injected' = <<>>
  /\ rescan' = FALSE
  /\ pc' = IF rescan /\ register THEN "taken" ELSE "idle"
  /\ asked' = (asked /\ register)
  /\ UNCHANGED <<world, asker, present, attach, registry, register>>

(* application_pids of every_window *)
ApplicationPids == owners \cap Regular

List ==
  /\ pc = "taken"
  /\ present' = ApplicationPids
  /\ asked' = FALSE
  /\ pc' = "listed"
  /\ UNCHANGED <<world, rescan, signalled, asker, attach, registry, script>>

(* Mutant of StillThere: no observer is ever detached. *)
NoneDetached == Attached

StillThere == Attached \cap present

(* Mutant of Forgotten: a refusal is remembered for ever. *)
NeverForgotten == Refused

Forgotten == Refused \cap present

(* Mutant of Newcomers: an application that refused is tried again. *)
AllUnattached == present \ Attached

Newcomers == present \ (Attached \cup Refused)

(* rescan_observers, observer_plan and the observers it drops. *)
Plan ==
  /\ pc = "listed"
  /\ \/ /\ ~ trusted
        /\ pc' = "idle"
        /\ UNCHANGED <<attach, registry, lingering>>
     \/ /\ trusted
        /\ attach' = Newcomers
        /\ observers' = Restrict(observers, StillThere)
        /\ refused' = Restrict(refused, Forgotten)
        /\ scanned' = present
        /\ lingering' = lingering \cap present
        /\ pc' = IF attach' = {} THEN "idle" ELSE "attaching"
  /\ UNCHANGED <<running, born, owners, trusted, requests, present, script>>

(* HashMap::insert *)
With(entries, p, process) ==
  [q \in DOMAIN entries \cup {p} |-> IF q = p THEN process ELSE entries[q]]

(* ObserverRegistration::create: a process that is gone takes no           *)
(* notification, one that runs takes some or none.  The entry is about     *)
(* whoever runs at this moment.                                            *)
Attach(p) ==
  /\ pc = "attaching" /\ p \in attach
  /\ \/ /\ running[p] # 0
        /\ observers' = With(observers, p, running[p])
        /\ UNCHANGED refused
     \/ /\ refused' = With(refused, p, running[p])
        /\ UNCHANGED observers
  /\ attach' = attach \ {p}
  /\ pc' = IF attach' = {} THEN "idle" ELSE "attaching"
  /\ lingering' = IF running[p] = 0 THEN lingering \cup {p} ELSE lingering \ {p}
  /\ UNCHANGED <<running, born, owners, trusted, requests, present, scanned,
                 script>>

(* EventThread::stop: the loop ends between callbacks, and all is dropped. *)
Stop ==
  /\ pc = "idle"
  /\ pc' = "stopped"
  /\ observers' = Nobody /\ refused' = Nobody /\ scanned' = {}
  /\ asked' = FALSE
  /\ UNCHANGED <<world, rescan, signalled, asker, present, attach, script>>

EventLoop == Perform \/ List \/ Plan \/ \E p \in Pids : Attach(p)

Next ==
  \/ \E p \in Pids : Launch(p) \/ Exit(p) \/ OpenOrClose(p)
  \/ Grant
  \/ Request \/ Activated
  \/ EventLoop \/ Stop

(* The run loop is pumped, and a request that began is finished. *)
Spec == Init /\ [][Next]_vars
        /\ WF_vars(EventLoop) /\ WF_vars(Request /\ asker = "between")
-----------------------------------------------------------------------------
Entries(S) == UNION {[T -> 0 .. Lives] : T \in SUBSET S}

(* Every variable has its type, and a pid is never both observed and       *)
(* remembered as refusing.                                                 *)
TypeOK ==
  /\ running \in [Pids -> 0 .. Lives] /\ born \in [Pids -> 0 .. Lives]
  /\ owners \subseteq Pids /\ lingering \subseteq Pids
  /\ trusted \in BOOLEAN /\ register \in BOOLEAN
  /\ rescan \in BOOLEAN /\ signalled \in BOOLEAN /\ asked \in BOOLEAN
  /\ asker \in {"idle", "between"}
  /\ pc \in {"idle", "taken", "listed", "attaching", "stopped"}
  /\ present \subseteq Regular /\ attach \subseteq present
  /\ observers \in Entries(Regular) /\ refused \in Entries(Regular)
  /\ Attached \cap Refused = {} /\ scanned \subseteq Regular

(* After a rescan the registry speaks of exactly the applications that     *)
(* were listed: each is observed or known to refuse, and nothing is kept   *)
(* for one that has no window any more, so observers do not accumulate.    *)
RegistryFollows ==
  pc \in {"idle", "stopped"} => Attached \cup Refused = scanned

(* An entry outlives its process only until a rescan finds the pid without *)
(* a window: whatever exits, launches and is listed in between, an entry   *)
(* is about the process that runs now unless its pid changed hands and no  *)
(* rescan has missed it since (observer_plan's detach and forget).         *)
NoStaleEntry ==
  /\ \A p \in Attached \ lingering : running[p] = observers[p]
  /\ \A p \in Refused \ lingering : running[p] = refused[p]

(* "A refusing pid is forgotten once it goes away, so its successor at the *)
(* same pid is tried again" (README 972): a rescan that lists the          *)
(* successor of a process that refused attaches to it.  observer_plan      *)
(* compares pids alone, so a successor that shows a window before the next *)
(* rescan inherits the refusal.                                            *)
SuccessorTried ==
  [][\A p \in Refused \cap present \cap owners :
       Plan /\ trusted /\ running[p] # refused[p] => p \in attach']_vars

(* Whoever asks for a rescan gets one that looks at the windows after the  *)
(* request, even if it is made while another rescan is under way.          *)
RequestScanned == asked ~> ~ asked
=============================================================================
