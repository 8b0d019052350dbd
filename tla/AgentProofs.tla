---------------------------- MODULE AgentProofs -----------------------------
(***************************************************************************)
(* Theorems about the daemon as an agent of launchd, for every period of a *)
(* pull, any number of binaries and a clock set back any distance.         *)
(***************************************************************************)
EXTENDS Agent, TLAPS

-----------------------------------------------------------------------------
(* Processes. *)

States == {"none", "starting", "up", "stopping"}

(* Every agent has a process, or the trace of none. *)
ProcInv ==
  /\ DOMAIN proc = Labels
  /\ proc = [l \in Labels |-> proc[l]]
  /\ \A l \in Labels :
       /\ DOMAIN proc[l] = {"st", "image", "watched"}
       /\ proc[l].st \in States

(* What may replace the process of one agent. *)
IsProcess(r) ==
  DOMAIN r = {"st", "image", "watched"} /\ r.st \in States

LEMMA ProcUpdate ==
  ASSUME ProcInv, NEW l \in Labels, NEW r, IsProcess(r),
         proc' = [proc EXCEPT ![l] = r]
  PROVE  ProcInv' /\ proc'[l] = r /\ \A k \in Labels \ {l} : proc'[k] = proc[k]
BY DEF ProcInv, IsProcess

(* The process asked to stop. *)
LEMMA ProcStops ==
  ASSUME ProcInv, NEW l \in Labels, proc' = [proc EXCEPT ![l].st = "stopping"]
  PROVE  ProcInv' /\ proc'[l].st = "stopping" /\ \A k \in Labels \ {l} : proc'[k] = proc[k]
BY DEF ProcInv, States

LEMMA OverKeepsProc ==
  ASSUME ProcInv, NEW l \in Labels, Over(l)
  PROVE  ProcInv' /\ proc'[l].st = "none" /\ \A k \in Labels \ {l} : proc'[k] = proc[k]
<1>1. IsProcess(NoProcess) /\ NoProcess.st = "none"
  BY DEF IsProcess, NoProcess, Process, States
<1>2. proc' = [proc EXCEPT ![l] = NoProcess]
  BY DEF Over
<1>3. QED
  BY <1>1, <1>2, ProcUpdate

(* launchctl bootout leaves no process where there was none. *)
LEMMA UnloadKeepsProc ==
  ASSUME ProcInv, NEW l \in Labels, Unload(l)
  PROVE  /\ ProcInv'
         /\ \A k \in Labels : proc[k].st = "none" => proc'[k].st = "none"
<1>1. CASE UNCHANGED proc
  BY <1>1 DEF ProcInv
<1>2. CASE Over(l)
  BY <1>2, OverKeepsProc
<1>3. CASE Is(l, "up") /\ proc' = [proc EXCEPT ![l].st = "stopping"]
  BY <1>3, ProcStops DEF Is
<1>4. QED
  BY <1>1, <1>2, <1>3 DEF Unload, Nothing

LEMMA StartKeepsProc ==
  ASSUME ProcInv, NEW l \in Labels, Start(l)
  PROVE  ProcInv' /\ \A k \in Labels \ {l} : proc'[k] = proc[k]
<1>1. PICK watched \in {0, OnDisk(l)} :
        proc' = [proc EXCEPT ![l] = Process("up", @.image, watched)]
  BY DEF Start
<1> DEFINE r == Process("up", proc[l].image, watched)
<1>2. IsProcess(r)
  BY DEF IsProcess, Process, States
<1>3. proc' = [proc EXCEPT ![l] = r]
  BY <1>1 DEF ProcInv
<1>4. QED
  BY <1>2, <1>3, ProcUpdate

(* A process appears only where launchd launches it. *)
Appears(l) == proc[l].st = "none" /\ proc'[l].st # "none"

LEMMA NextKeepsProc ==
  ASSUME ProcInv, [Next]_vars
  PROVE  ProcInv' /\ \A l \in Labels : Appears(l) => l \in loaded \ unloading
<1> DEFINE Goal == ProcInv' /\ \A l \in Labels : Appears(l) => l \in loaded \ unloading
<1>1. ASSUME UNCHANGED proc PROVE Goal
  BY <1>1 DEF ProcInv, Appears
<1>2. ASSUME NEW l \in Labels, Unload(l) PROVE Goal
  BY <1>2, UnloadKeepsProc DEF Appears
<1>3. ASSUME NEW l \in Labels, Over(l) PROVE Goal
  BY <1>3, OverKeepsProc DEF Appears
<1>4. ASSUME NEW l \in Labels, Launch(l) PROVE Goal
  <2>1. IsProcess(Process("starting", OnDisk(l), 0))
    BY DEF IsProcess, Process, States
  <2>2. QED
    BY <1>4, <2>1, ProcUpdate DEF Launch, Appears
<1>5. ASSUME NEW l \in Labels, Start(l) PROVE Goal
  BY <1>5, StartKeepsProc DEF Appears, Start, Is
<1>6. ASSUME NEW l \in Labels, Stop(l) PROVE Goal
  BY <1>6, ProcStops DEF Stop, Appears, Is
<1>7. CASE Login
  BY <1>7 DEF Login, ProcInv, NoProcess, Process, States, Appears
<1>8. CASE Install
  <2>1. PICK then \in Steps : InstallStep(service, then)
    BY <1>8 DEF Install
  <2>2. Unload(BrewLabel) \/ Unload(Label) \/ UNCHANGED proc
    BY <2>1 DEF InstallStep, RemoveFile, Nothing
  <2>3. QED
    BY <1>1, <1>2, <2>2 DEF Labels
<1>9. CASE Uninstall
  BY <1>1, <1>2, <1>9 DEF Uninstall, RemoveFile, Labels
<1>10. ASSUME NEW l \in Labels, StartFails(l) \/ Exit(l) \/ Crash(l) PROVE Goal
  BY <1>3, <1>10 DEF StartFails, Exit, Crash
<1>11. ASSUME NEW l \in Labels, Unloaded(l) PROVE Goal
  BY <1>1, <1>11 DEF Unloaded
<1>12. CASE Remove \/ Place \/ Command \/ Bootstrap \/ Pass \/ SetBack
  BY <1>1, <1>12 DEF Remove, Place, Command, Bootstrap, Pass, SetBack
<1>13. CASE Fail \/ Restart \/ Pull \/ PullEnds \/ Commit
  BY <1>1, <1>13 DEF Fail, Restart, Pull, PullEnds, Commit
<1>14. CASE UNCHANGED vars
  BY <1>1, <1>14 DEF vars
<1>15. QED
  BY <1>4, <1>5, <1>6, <1>7, <1>8, <1>9, <1>10, <1>11, <1>12, <1>13, <1>14
     DEF Next, Daemon

LEMMA InitProc == Init => ProcInv
BY DEF Init, ProcInv, NoProcess, Process, States, Labels

-----------------------------------------------------------------------------
(* The agent of brew services. *)

(***************************************************************************)
(* An install that gets past its second call has removed the plist of      *)
(* brew's agent, and nothing brings it back.  Whether the bootout before   *)
(* it did anything is not known.                                           *)
(***************************************************************************)
BrewInv ==
  installed \/ service \in {"unload", "wait", "write", "bootstrap"}
    => BrewLabel \notin plists

LEMMA InitBrew == Init => BrewInv
BY DEF Init, BrewInv

(* No call of the command line, no login and no exit undoes that. *)
LEMMA NextBrew == BrewInv /\ [Next]_vars => BrewInv'
<1> SUFFICES ASSUME BrewInv, [Next]_vars PROVE BrewInv'
  OBVIOUS
<1> USE DEF BrewInv
<1>1. CASE Install
  <2>1. PICK then \in Steps : InstallStep(service, then) /\ service' = then
    BY <1>1 DEF Install
  <2>2. UNCHANGED installed
    BY <1>1 DEF Install
  <2>3. CASE service = "unload_brew" /\ then = "remove_brew" /\ Unload(BrewLabel)
    BY <2>1, <2>2, <2>3 DEF Unload, Nothing, launchd
  <2>4. CASE service = "remove_brew" /\ then = "unload" /\ RemoveFile(BrewLabel)
    BY <2>1, <2>2, <2>4 DEF RemoveFile
  <2>5. CASE service = "unload" /\ then = "wait" /\ Unload(Label)
    BY <2>1, <2>2, <2>5 DEF Unload, Nothing, launchd
  <2>6. CASE service = "wait" /\ then = "write" /\ Nothing
    BY <2>1, <2>2, <2>6 DEF Nothing, launchd
  <2>7. CASE /\ service = "write" /\ then = "bootstrap"
             /\ plists' = plists \cup {Label} /\ UNCHANGED <<loaded, unloading>>
    BY <2>1, <2>2, <2>7 DEF Label, BrewLabel
  <2>8. QED
    BY <2>1, <2>3, <2>4, <2>5, <2>6, <2>7 DEF InstallStep
<1>2. CASE Bootstrap
  BY <1>2 DEF Bootstrap, Label, BrewLabel
<1>3. CASE Uninstall
  BY <1>3 DEF Uninstall, Unload, Nothing, RemoveFile, launchd
<1>4. CASE Command
  BY <1>4 DEF Command, launchd
<1>5. CASE Login
  BY <1>5 DEF Login
<1>6. ASSUME NEW l \in Labels, Unloaded(l) PROVE BrewInv'
  BY <1>6 DEF Unloaded, cli
<1>7. ASSUME UNCHANGED <<launchd, cli>> PROVE BrewInv'
  BY <1>7 DEF launchd, cli
<1>8. ASSUME NEW l \in Labels, Launch(l) \/ Daemon(l) \/ Crash(l) PROVE BrewInv'
  BY <1>7, <1>8 DEF Launch, Daemon, Start, StartFails, Stop, Exit, Crash
<1>9. CASE Remove \/ Place \/ Pass \/ SetBack
  BY <1>7, <1>9 DEF Remove, Place, Pass, SetBack
<1>10. CASE Fail \/ Restart \/ Pull \/ PullEnds \/ Commit
  BY <1>7, <1>10 DEF Fail, Restart, Pull, PullEnds, Commit
<1>11. CASE UNCHANGED vars
  BY <1>7, <1>11 DEF vars
<1>12. QED
  BY <1>1, <1>2, <1>3, <1>4, <1>5, <1>6, <1>8, <1>9, <1>10, <1>11 DEF Next

(* launchd loads brew's agent at a login only, and lets go of it for good. *)
LEMMA NextBrewGone ==
  ASSUME BrewInv, [Next]_vars, installed, BrewGone \/ Login
  PROVE  BrewGone'
<1> USE DEF BrewGone
<1>1. CASE Login
  BY <1>1 DEF Login, BrewInv
<1> SUFFICES ASSUME BrewGone PROVE BrewGone'
  BY <1>1
<1>2. ASSUME NEW l \in Labels, Unload(l) PROVE BrewGone'
  BY <1>2 DEF Unload, Nothing, launchd
<1>3. CASE Install
  <2>1. PICK then \in Steps : InstallStep(service, then)
    BY <1>3 DEF Install
  <2>2. Unload(BrewLabel) \/ Unload(Label) \/ UNCHANGED <<loaded, unloading>>
    BY <2>1 DEF InstallStep, RemoveFile, Nothing, launchd
  <2>3. QED
    BY <1>2, <2>2 DEF Labels
<1>4. CASE Uninstall
  <2>1. Unload(Label) \/ UNCHANGED <<loaded, unloading>>
    BY <1>4 DEF Uninstall, RemoveFile
  <2>2. QED
    BY <1>2, <2>1 DEF Labels
<1>5. CASE Bootstrap
  <2>1. loaded' \subseteq loaded \cup {Label} /\ UNCHANGED unloading
    BY <1>5 DEF Bootstrap
  <2>2. BrewLabel # Label
    BY DEF Label, BrewLabel
  <2>3. QED
    BY <2>1, <2>2
<1>6. ASSUME NEW l \in Labels, Unloaded(l) PROVE BrewGone'
  BY <1>6 DEF Unloaded
<1>7. ASSUME UNCHANGED launchd PROVE BrewGone'
  BY <1>7 DEF launchd
<1>8. ASSUME NEW l \in Labels, Launch(l) \/ Daemon(l) \/ Crash(l) PROVE BrewGone'
  BY <1>7, <1>8 DEF Launch, Daemon, Start, StartFails, Stop, Exit, Crash
<1>9. CASE Remove \/ Place \/ Command \/ Pass \/ SetBack
  BY <1>7, <1>9 DEF Remove, Place, Command, Pass, SetBack
<1>10. CASE Fail \/ Restart \/ Pull \/ PullEnds \/ Commit
  BY <1>7, <1>10 DEF Fail, Restart, Pull, PullEnds, Commit
<1>11. CASE UNCHANGED vars
  BY <1>7, <1>11 DEF vars
<1>12. QED
  BY <1>1, <1>3, <1>4, <1>5, <1>6, <1>8, <1>9, <1>10, <1>11 DEF Next

(***************************************************************************)
(* After an install that reported success, a login is rid of the agent of  *)
(* brew services, and once launchd has let go of it, it is neither loaded  *)
(* nor started again, whatever commands, failures and logins follow.       *)
(***************************************************************************)
THEOREM BrewStaysGoneAlways == Spec => BrewStaysGone
<1> DEFINE Step == installed =>
                     /\ BrewGone \/ Login => BrewGone'
                     /\ BrewGone /\ Is(BrewLabel, "none")
                          => proc'[BrewLabel].st = "none"
<1>1. ProcInv /\ BrewInv /\ [Next]_vars => [Step]_vars
  <2> SUFFICES ASSUME ProcInv, BrewInv, [Next]_vars, installed PROVE Step
    OBVIOUS
  <2>1. BrewGone \/ Login => BrewGone'
    BY NextBrewGone
  <2>2. BrewGone /\ Is(BrewLabel, "none") => proc'[BrewLabel].st = "none"
    BY NextKeepsProc DEF BrewGone, Appears, Is, Labels
  <2>3. QED
    BY <2>1, <2>2
<1>2. ProcInv /\ [Next]_vars => ProcInv'
  BY NextKeepsProc
<1>3. QED
  BY <1>1, <1>2, InitProc, InitBrew, NextBrew, PTL DEF Spec, BrewStaysGone

-----------------------------------------------------------------------------
(* The schedule of the pulls. *)

(***************************************************************************)
(* The clock shows at most as much time since the stored attempt as has    *)
(* really passed: it may be set back, and an attempt that is not stored    *)
(* leaves both as they were.                                               *)
(***************************************************************************)
ScheduleInv ==
  /\ since \in Int /\ rested \in 0 .. Every
  /\ IF since = Never THEN rested = Every ELSE since <= rested
  /\ OncePerPeriod

LEMMA InitSchedule == Init => ScheduleInv
BY AgentAssumption DEF Init, ScheduleInv, Never, OncePerPeriod

LEMMA NextSchedule == ScheduleInv /\ [Next]_vars => ScheduleInv'
<1> SUFFICES ASSUME ScheduleInv, [Next]_vars PROVE ScheduleInv'
  OBVIOUS
<1>1. Every \in Nat \ {0} /\ Never = Every + 1 /\ SetBacks \in Nat
  BY AgentAssumption DEF Never
<1> USE DEF ScheduleInv, OncePerPeriod
<1>2. CASE Pass
  BY <1>1, <1>2 DEF Pass, supervision
<1>3. CASE SetBack
  BY <1>1, <1>3 DEF SetBack, supervision
<1>4. CASE Commit
  BY <1>1, <1>4 DEF Commit, Stored, schedule
<1>5. CASE Pull
  BY <1>1, <1>5 DEF Pull, Due, schedule
<1>6. ASSUME UNCHANGED schedule, pull' = "running" => pull = "running" PROVE ScheduleInv'
  BY <1>6 DEF schedule
<1>7. CASE PullEnds \/ Fail \/ Restart
  BY <1>6, <1>7 DEF PullEnds, Fail, Restart
<1>8. ASSUME NEW l \in Labels, Over(l) \/ Unload(l)
      PROVE  pull' = "running" => pull = "running"
  BY <1>8 DEF Over, Unload, Nothing, supervision
<1>9. CASE Install
  <2>1. PICK then \in Steps : InstallStep(service, then)
    BY <1>9 DEF Install
  <2>2. Unload(BrewLabel) \/ Unload(Label) \/ UNCHANGED pull
    BY <2>1 DEF InstallStep, RemoveFile, Nothing, supervision
  <2>3. UNCHANGED schedule
    BY <1>9 DEF Install
  <2>4. QED
    BY <1>6, <1>8, <2>2, <2>3 DEF Labels
<1>10. CASE Uninstall
  <2>1. Unload(Label) \/ UNCHANGED pull
    BY <1>10 DEF Uninstall, RemoveFile, supervision
  <2>2. QED
    BY <1>6, <1>8, <1>10, <2>1 DEF Labels, Uninstall
<1>11. ASSUME NEW l \in Labels, StartFails(l) \/ Exit(l) \/ Crash(l) PROVE ScheduleInv'
  BY <1>6, <1>8, <1>11 DEF StartFails, Exit, Crash
<1>12. ASSUME NEW l \in Labels, Launch(l) \/ Unloaded(l) \/ Start(l) \/ Stop(l)
       PROVE  ScheduleInv'
  BY <1>6, <1>12 DEF Launch, Unloaded, Start, Stop, supervision
<1>13. CASE Remove \/ Place \/ Login \/ Command \/ Bootstrap
  BY <1>6, <1>13 DEF Remove, Place, Login, Command, Bootstrap, supervision
<1>14. CASE UNCHANGED vars
  BY <1>6, <1>14 DEF vars, supervision
<1>15. QED
  BY <1>2, <1>3, <1>4, <1>5, <1>7, <1>9, <1>10, <1>11, <1>12, <1>13, <1>14
     DEF Next, Daemon

(***************************************************************************)
(* No pull begins before its period has passed since the last attempt that *)
(* was stored, for every period, however often the provider fails, the     *)
(* daemon crashes or is upgraded, and how far back the clock is set in     *)
(* between.  An attempt whose store is lost does not count.                *)
(***************************************************************************)
THEOREM OncePerPeriodAlways == Spec => []OncePerPeriod
<1>1. ScheduleInv => OncePerPeriod
  BY DEF ScheduleInv
<1>2. QED
  BY <1>1, InitSchedule, NextSchedule, PTL DEF Spec
=============================================================================
