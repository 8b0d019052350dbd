-------------------------- MODULE ObserversProofs ---------------------------
(***************************************************************************)
(* Theorems about the registry of accessibility observers, for every set   *)
(* of processes, every script and any number of processes under one pid.   *)
(***************************************************************************)
EXTENDS Observers, TLAPS

(***************************************************************************)
(* What makes the types and RegistryFollows inductive: while observers are *)
(* being attached, what is left to attach is neither observed nor refused, *)
(* and together with what is it makes up the applications that were        *)
(* listed.                                                                 *)
(***************************************************************************)
PlanInv ==
  /\ TypeOK
  /\ IF pc = "attaching"
     THEN /\ attach \cap (Attached \cup Refused) = {}
          /\ Attached \cup Refused \cup attach = scanned
     ELSE attach = {} /\ Attached \cup Refused = scanned

(***************************************************************************)
(* What makes NoStaleEntry inductive: an entry whose pid does not linger   *)
(* is about a process that still runs, so a pid that is free, and may be   *)
(* taken by another process, has no entry or lingers.                      *)
(***************************************************************************)
Decided(p, life) ==
  p \in lingering \/ (running[p] # 0 /\ running[p] = life)

FreshInv ==
  /\ \A p \in Attached : Decided(p, observers[p])
  /\ \A p \in Refused : Decided(p, refused[p])

(* A request is never forgotten: until the windows are read, either the    *)
(* flag is up and its signal sent or about to be, or the event thread has  *)
(* just taken it.  A wake-up between the two stores cannot lose it.        *)
RequestKept ==
  asked => \/ pc = "taken"
           \/ rescan /\ (signalled \/ asker = "between")
-----------------------------------------------------------------------------
(* The registry as a function. *)

(* A registry has entries for regular applications only. *)
LEMMA EntriesAre ==
  ASSUME NEW f, NEW S
  PROVE  f \in Entries(S) <=> DOMAIN f \subseteq S /\ f \in [DOMAIN f -> 0 .. Lives]
BY DEF Entries

-----------------------------------------------------------------------------
(* Types and what the registry speaks of. *)

(* The event thread starts with an empty registry. *)
LEMMA InitPlanInv == Init => PlanInv
<1> SUFFICES ASSUME Init PROVE PlanInv
  OBVIOUS
<1>1. Attached = {} /\ Refused = {}
  BY DEF Init, Attached, Refused, Nobody
<1>2. observers \in Entries(Regular) /\ refused \in Entries(Regular)
  BY EntriesAre DEF Init, Nobody
<1>3. running \in [Pids -> 0 .. Lives]
  BY ObserversAssumption DEF Init
<1>4. register \in BOOLEAN
  BY DEF Init
<1>5. QED
  BY <1>1, <1>2, <1>3, <1>4 DEF Init, PlanInv, TypeOK

(* A rescan plans for the applications that were listed. *)
LEMMA PlanPlanInv == PlanInv /\ Plan => PlanInv'
<1> SUFFICES ASSUME PlanInv, Plan PROVE PlanInv'
  OBVIOUS
<1>1. /\ attach = {} /\ Attached \cup Refused = scanned
      /\ pc = "listed"
  BY DEF PlanInv, Plan
<1>2. CASE ~ trusted
  BY <1>1, <1>2 DEF Plan, PlanInv, TypeOK, registry, script, requests, Attached, Refused
<1>3. CASE trusted
  <2>1. /\ attach' = present \ (Attached \cup Refused)
        /\ observers' = [q \in Attached \cap present |-> observers[q]]
        /\ refused' = [q \in Refused \cap present |-> refused[q]]
        /\ scanned' = present /\ lingering' = lingering \cap present
        /\ pc' = IF attach' = {} THEN "idle" ELSE "attaching"
        /\ UNCHANGED <<running, born, owners, trusted, requests, present, script>>
    BY <1>3 DEF Plan, Newcomers, StillThere, Forgotten, Restrict
  <2>2. Attached' = Attached \cap present /\ Refused' = Refused \cap present
    BY <2>1 DEF Attached, Refused
  <2>3. /\ Attached \subseteq Regular /\ observers \in [Attached -> 0 .. Lives]
        /\ Refused \subseteq Regular /\ refused \in [Refused -> 0 .. Lives]
    BY EntriesAre DEF PlanInv, TypeOK, Attached, Refused
  <2>4. observers' \in Entries(Regular)
    <3>1. observers' \in [Attached' -> 0 .. Lives] /\ Attached' \subseteq Regular
      BY <2>1, <2>2, <2>3
    <3>2. QED
      BY <3>1, EntriesAre DEF Attached
  <2>5. refused' \in Entries(Regular)
    <3>1. refused' \in [Refused' -> 0 .. Lives] /\ Refused' \subseteq Regular
      BY <2>1, <2>2, <2>3
    <3>2. QED
      BY <3>1, EntriesAre DEF Refused
  <2>6. TypeOK'
    BY <2>1, <2>2, <2>4, <2>5 DEF PlanInv, TypeOK, requests, script
  <2>7. QED
    BY <2>1, <2>2, <2>6 DEF PlanInv
<1>4. QED
  BY <1>2, <1>3 DEF PlanInv, TypeOK

(* An entry is added under a pid that has none. *)
LEMMA AttachPlanInv ==
  ASSUME PlanInv, NEW p \in Pids, Attach(p)
  PROVE  PlanInv'
<1>1. /\ pc = "attaching" /\ p \in attach /\ p \in Regular
      /\ p \notin Attached /\ p \notin Refused
      /\ Attached \cup Refused \cup attach = scanned
      /\ running[p] \in 0 .. Lives
  BY DEF PlanInv, TypeOK, Attach
<1>2. /\ Attached \subseteq Regular /\ observers \in [Attached -> 0 .. Lives]
      /\ Refused \subseteq Regular /\ refused \in [Refused -> 0 .. Lives]
  BY EntriesAre DEF PlanInv, TypeOK, Attached, Refused
<1>3. /\ attach' = attach \ {p}
      /\ pc' = IF attach' = {} THEN "idle" ELSE "attaching"
      /\ lingering' \subseteq lingering \cup {p}
      /\ UNCHANGED <<running, born, owners, trusted, requests, present, scanned,
                     script>>
  BY DEF Attach
<1>4. /\ observers' \in Entries(Regular) /\ refused' \in Entries(Regular)
      /\ Attached' \cap Refused' = {}
      /\ Attached' \cup Refused' = Attached \cup Refused \cup {p}
  <2>1. CASE observers' = With(observers, p, running[p]) /\ UNCHANGED refused
    <3>1. Attached' = Attached \cup {p} /\ Refused' = Refused
      BY <2>1 DEF With, Attached, Refused
    <3>2. observers' \in [Attached' -> 0 .. Lives]
      BY <1>1, <1>2, <2>1, <3>1 DEF With, Attached
    <3>3. observers' \in Entries(Regular)
      BY <1>1, <1>2, <3>1, <3>2, EntriesAre DEF Attached
    <3>4. QED
      BY <1>1, <2>1, <3>1, <3>3 DEF PlanInv, TypeOK
  <2>2. CASE refused' = With(refused, p, running[p]) /\ UNCHANGED observers
    <3>1. Refused' = Refused \cup {p} /\ Attached' = Attached
      BY <2>2 DEF With, Attached, Refused
    <3>2. refused' \in [Refused' -> 0 .. Lives]
      BY <1>1, <1>2, <2>2, <3>1 DEF With, Refused
    <3>3. refused' \in Entries(Regular)
      BY <1>1, <1>2, <3>1, <3>2, EntriesAre DEF Refused
    <3>4. QED
      BY <1>1, <2>2, <3>1, <3>3 DEF PlanInv, TypeOK
  <2>3. QED
    BY <2>1, <2>2 DEF Attach
<1>5. TypeOK'
  BY <1>3, <1>4 DEF PlanInv, TypeOK, requests, script
<1>6. QED
  BY <1>1, <1>3, <1>4, <1>5 DEF PlanInv

(* Every step of the event thread and of its surroundings keeps PlanInv. *)
LEMMA NextPlanInv == PlanInv /\ [Next]_vars => PlanInv'
<1> SUFFICES ASSUME PlanInv, [Next]_vars PROVE PlanInv'
  OBVIOUS
<1> USE DEF PlanInv, TypeOK, Attached, Refused
<1>1. ASSUME NEW p \in Pids, Launch(p) PROVE PlanInv'
  <2>1. born' \in [Pids -> 0 .. Lives] /\ born'[p] \in 0 .. Lives
    BY <1>1, ObserversAssumption DEF Launch
  <2>2. running' \in [Pids -> 0 .. Lives]
    BY <1>1, <2>1 DEF Launch
  <2>3. QED
    BY <1>1, <2>1, <2>2 DEF Launch, requests, registry, script
<1>2. ASSUME NEW p \in Pids, Exit(p) PROVE PlanInv'
  BY <1>2, ObserversAssumption DEF Exit, requests, registry, script
<1>3. ASSUME NEW p \in Pids, OpenOrClose(p) PROVE PlanInv'
  BY <1>3 DEF OpenOrClose, requests, registry, script
<1>4. CASE Grant
  BY <1>4 DEF Grant, requests, registry, script
<1>5. CASE Request
  BY <1>5 DEF Request, world, registry, script
<1>6. CASE Activated
  BY <1>6 DEF Activated, world, registry, script
<1>7. CASE Perform
  BY <1>7 DEF Perform, world, registry
<1>8. CASE List
  BY <1>8 DEF List, world, registry, script, ApplicationPids
<1>9. CASE Plan
  BY <1>9, PlanPlanInv
<1>10. ASSUME NEW p \in Pids, Attach(p) PROVE PlanInv'
  BY <1>10, AttachPlanInv
<1>11. CASE Stop
  <2>1. observers' \in Entries(Regular) /\ refused' \in Entries(Regular)
    BY <1>11, EntriesAre DEF Stop, Nobody
  <2>2. QED
    BY <1>11, <2>1 DEF Stop, world, script, Nobody
<1>12. CASE UNCHANGED vars
  BY <1>12 DEF vars, world, requests, registry, script
<1>13. QED
  BY <1>1, <1>2, <1>3, <1>4, <1>5, <1>6, <1>7, <1>8, <1>9, <1>10, <1>11, <1>12
     DEF Next, EventLoop
-----------------------------------------------------------------------------
(* Entries are about the process that runs. *)

(* The whole inductive invariant. *)
Inv == PlanInv /\ FreshInv

LEMMA InitInv == Init => Inv
BY InitPlanInv DEF Init, Inv, FreshInv, Attached, Refused, Nobody

(* A process that takes a pid finds no entry there, or one that lingers. *)
LEMMA LaunchFresh ==
  ASSUME Inv, NEW p \in Pids, Launch(p)
  PROVE  FreshInv'
<1>1. /\ UNCHANGED <<lingering, observers, refused>>
      /\ running[p] = 0
      /\ running' = [running EXCEPT ![p] = born'[p]]
      /\ running \in [Pids -> 0 .. Lives]
  BY DEF Launch, registry, Inv, PlanInv, TypeOK
<1>2. \A q : q # p => running'[q] = running[q]
  BY <1>1
<1>3. /\ p \in Attached => p \in lingering
      /\ p \in Refused => p \in lingering
  BY <1>1 DEF Inv, FreshInv, Decided
<1>4. QED
  BY <1>1, <1>2, <1>3 DEF Inv, FreshInv, Decided, Attached, Refused

(* A process that exits frees its pid, and an entry it has lingers. *)
LEMMA ExitFresh ==
  ASSUME Inv, NEW p \in Pids, Exit(p)
  PROVE  FreshInv'
<1>1. /\ UNCHANGED <<observers, refused>>
      /\ running' = [running EXCEPT ![p] = 0]
      /\ lingering' = lingering \cup ({p} \cap (Attached \cup Refused))
      /\ running \in [Pids -> 0 .. Lives]
  BY DEF Exit, registry, Inv, PlanInv, TypeOK
<1>2. \A q : q # p => running'[q] = running[q]
  BY <1>1
<1>3. QED
  BY <1>1, <1>2 DEF Inv, FreshInv, Decided, Attached, Refused

(* What the plan keeps was listed, so it lingers on if it did. *)
LEMMA PlanFresh == Inv /\ Plan => FreshInv'
<1> SUFFICES ASSUME Inv, Plan PROVE FreshInv'
  OBVIOUS
<1>1. CASE ~ trusted
  BY <1>1 DEF Plan, Inv, FreshInv, Decided, registry, Attached, Refused
<1>2. CASE trusted
  <2>1. /\ observers' = [q \in Attached \cap present |-> observers[q]]
        /\ refused' = [q \in Refused \cap present |-> refused[q]]
        /\ lingering' = lingering \cap present
        /\ UNCHANGED running
    BY <1>2 DEF Plan, StillThere, Forgotten, Restrict
  <2>2. Attached' = Attached \cap present /\ Refused' = Refused \cap present
    BY <2>1 DEF Attached, Refused
  <2>3. \A q \in Attached' : observers'[q] = observers[q]
    BY <2>1, <2>2
  <2>4. \A q \in Refused' : refused'[q] = refused[q]
    BY <2>1, <2>2
  <2>5. QED
    BY <2>1, <2>2, <2>3, <2>4 DEF Inv, FreshInv, Decided
<1>3. QED
  BY <1>1, <1>2

(* What is entered is the process that runs; or nobody does, and it lingers. *)
LEMMA AttachFresh ==
  ASSUME Inv, NEW p \in Pids, Attach(p)
  PROVE  FreshInv'
<1>1. /\ p \notin Attached /\ p \notin Refused
      /\ lingering' = IF running[p] = 0 THEN lingering \cup {p} ELSE lingering \ {p}
      /\ UNCHANGED running
  BY DEF Inv, PlanInv, Attach
<1>2. CASE observers' = With(observers, p, running[p]) /\ UNCHANGED refused
  <2>1. /\ Attached' = Attached \cup {p} /\ Refused' = Refused
        /\ observers'[p] = running[p]
        /\ \A q \in Attached \ {p} : observers'[q] = observers[q]
    BY <1>2 DEF With, Attached, Refused
  <2>2. QED
    BY <1>1, <1>2, <2>1 DEF Inv, FreshInv, Decided
<1>3. CASE refused' = With(refused, p, running[p]) /\ UNCHANGED observers
  <2>1. /\ Refused' = Refused \cup {p} /\ Attached' = Attached
        /\ refused'[p] = running[p]
        /\ \A q \in Refused \ {p} : refused'[q] = refused[q]
    BY <1>3 DEF With, Attached, Refused
  <2>2. QED
    BY <1>1, <1>3, <2>1 DEF Inv, FreshInv, Decided
<1>4. QED
  BY <1>2, <1>3 DEF Attach

(* Every step keeps both parts. *)
LEMMA NextInv == Inv /\ [Next]_vars => Inv'
<1> SUFFICES ASSUME Inv, [Next]_vars PROVE FreshInv'
  BY NextPlanInv DEF Inv
<1> USE DEF FreshInv, Decided, Attached, Refused
<1>1. ASSUME NEW p \in Pids, Launch(p) PROVE FreshInv'
  BY <1>1, LaunchFresh
<1>2. ASSUME NEW p \in Pids, Exit(p) PROVE FreshInv'
  BY <1>2, ExitFresh
<1>3. ASSUME NEW p \in Pids, OpenOrClose(p) PROVE FreshInv'
  BY <1>3 DEF Inv, OpenOrClose, registry
<1>4. CASE Grant
  BY <1>4 DEF Inv, Grant, registry
<1>5. CASE Request
  BY <1>5 DEF Inv, Request, world, registry
<1>6. CASE Activated
  BY <1>6 DEF Inv, Activated, world, registry
<1>7. CASE Perform
  BY <1>7 DEF Inv, Perform, world, registry
<1>8. CASE List
  BY <1>8 DEF Inv, List, world, registry, ApplicationPids
<1>9. CASE Plan
  BY <1>9, PlanFresh
<1>10. ASSUME NEW p \in Pids, Attach(p) PROVE FreshInv'
  BY <1>10, AttachFresh
<1>11. CASE Stop
  BY <1>11 DEF Inv, Stop, world, Nobody
<1>12. CASE UNCHANGED vars
  BY <1>12 DEF Inv, vars, world, registry
<1>13. QED
  BY <1>1, <1>2, <1>3, <1>4, <1>5, <1>6, <1>7, <1>8, <1>9, <1>10, <1>11, <1>12
     DEF Next, EventLoop

(***************************************************************************)
(* Types; and no pid is both observed and remembered as refusing, however  *)
(* rescans, exits and launches interleave.                                 *)
(***************************************************************************)
THEOREM TypesHold == Spec => []TypeOK
<1>1. Init => Inv
  BY InitInv
<1>2. Inv /\ [Next]_vars => Inv'
  BY NextInv
<1>3. Inv => TypeOK
  BY DEF Inv, PlanInv
<1>4. QED
  BY <1>1, <1>2, <1>3, PTL DEF Spec

(***************************************************************************)
(* Between rescans the registry holds exactly the applications of the last *)
(* one: rescan_observers leaves none out and lets no entry accumulate.     *)
(***************************************************************************)
THEOREM RegistryFollowsAlways == Spec => []RegistryFollows
<1>1. Init => Inv
  BY InitInv
<1>2. Inv /\ [Next]_vars => Inv'
  BY NextInv
<1>3. Inv => RegistryFollows
  BY DEF Inv, PlanInv, RegistryFollows
<1>4. QED
  BY <1>1, <1>2, <1>3, PTL DEF Spec

(***************************************************************************)
(* Once a rescan has found a pid without a window, no entry decided about  *)
(* an earlier process of that pid is left, although processes exit and     *)
(* pids are taken in the middle of a rescan.  That a successor may be      *)
(* listed before such a rescan, and inherit the entry, is what             *)
(* SuccessorTried shows.                                                   *)
(***************************************************************************)
THEOREM NoStaleEntryAlways == Spec => []NoStaleEntry
<1>1. Init => Inv
  BY InitInv
<1>2. Inv /\ [Next]_vars => Inv'
  BY NextInv
<1>3. Inv => NoStaleEntry
  BY DEF Inv, FreshInv, Decided, NoStaleEntry
<1>4. QED
  BY <1>1, <1>2, <1>3, PTL DEF Spec

(***************************************************************************)
(* No request for a rescan is lost between its two stores and the event    *)
(* thread that takes the flag: the safety half of RequestScanned.          *)
(***************************************************************************)
THEOREM RequestKeptAlways == Spec => []RequestKept
<1> DEFINE KeptInv == RequestKept /\ (pc = "taken" => register)
<1>1. Init => KeptInv
  BY DEF Init, RequestKept
<1>2. KeptInv /\ [Next]_vars => KeptInv'
  <2> SUFFICES ASSUME KeptInv, [Next]_vars PROVE KeptInv'
    OBVIOUS
  <2> USE DEF RequestKept
  <2>1. ASSUME NEW p \in Pids, Launch(p) \/ Exit(p) \/ OpenOrClose(p) PROVE KeptInv'
    BY <2>1 DEF Launch, Exit, OpenOrClose, requests, script
  <2>2. CASE Grant
    BY <2>2 DEF Grant, requests, script
  <2>3. CASE Request
    BY <2>3 DEF Request, script
  <2>4. CASE Activated
    BY <2>4 DEF Activated, script
  <2>5. CASE Perform
    BY <2>5 DEF Perform
  <2>6. CASE List \/ Stop
    BY <2>6 DEF List, Stop
  <2>7. CASE Plan
    BY <2>7 DEF Plan, requests, script
  <2>8. ASSUME NEW p \in Pids, Attach(p) PROVE KeptInv'
    BY <2>8 DEF Attach, requests, script
  <2>9. CASE UNCHANGED vars
    BY <2>9 DEF vars, requests, script
  <2>10. QED
    BY <2>1, <2>2, <2>3, <2>4, <2>5, <2>6, <2>7, <2>8, <2>9 DEF Next, EventLoop
<1>3. KeptInv => RequestKept
  OBVIOUS
<1>4. QED
  BY <1>1, <1>2, <1>3, PTL DEF Spec
=============================================================================
