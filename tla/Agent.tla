------------------------------- MODULE Agent -------------------------------
(***************************************************************************)
(* The daemon as an agent of launchd: installing and removing it, coming   *)
(* up, noticing that its binary was swapped, the restart of a provider     *)
(* that failed, and the pulls of an import, whose schedule outlives them   *)
(* all.  launchd and the file system are external.                         *)
(***************************************************************************)
EXTENDS Integers

CONSTANTS
  BackoffStart,   \* RESTART_BACKOFF_START
  BackoffCeiling, \* RESTART_BACKOFF_CEILING
  Every,          \* Pull.every
  Versions,       \* bound: binaries that are ever put in place
  SetBacks        \* bound: how far the clock may be behind the schedule

ASSUME AgentAssumption ==
  /\ BackoffStart \in Nat \ {0} /\ BackoffCeiling \in Nat
  /\ BackoffStart <= BackoffCeiling
  /\ Every \in Nat \ {0} /\ Versions \in Nat /\ SetBacks \in Nat

VARIABLES
  disk,      \* which binary is at the path of the agent, or 0
  placed,    \* binaries put in place so far
  plists,    \* agents with a plist in LaunchAgents
  loaded,    \* agents launchd has loaded, those it is unloading included
  unloading, \* agents launchd is unloading
  proc,      \* agent -> its process
  service,   \* where `nikki install` or `nikki uninstall` stands
  installed, \* ghost: an install reported success
  prov,      \* the supervised provider of the pulls
  pause,     \* the restart pause of supervise
  pull,      \* where pull_if_due stands
  since,     \* wall clock time since the stored attempt, or Never
  rested     \* ghost: time since the last attempt that was stored

launchd == <<plists, loaded, unloading>>
binary == <<disk, placed>>
cli == <<service, installed>>
supervision == <<prov, pause, pull>>
schedule == <<since, rested>>
vars == <<binary, launchd, proc, cli, supervision, schedule>>

Label == "dev.pkarpovich.nikki"
BrewLabel == "homebrew.mxcl.nikki"
Labels == {Label, BrewLabel}
Never == Every + 1

(* A process, the binary it was executed from, and the one it watches, or  *)
(* 0 where there is none to watch.                                         *)
Process(st, image, watched) ==
  [st |-> st, image |-> image, watched |-> watched]
NoProcess == Process("none", 0, 0)
Is(l, st) == proc[l].st = st

(* The binary an agent runs; the one brew services used never changes. *)
OnDisk(l) == IF l = Label THEN disk ELSE 1

(* The machine before `nikki install`: brew services may run the daemon. *)
Init ==
  /\ disk = 1 /\ placed = 1
  /\ plists \in {{}, {BrewLabel}} /\ loaded = plists /\ unloading = {}
  /\ proc = [l \in Labels |-> NoProcess]
  /\ service = "idle" /\ installed = FALSE
  /\ prov = "off" /\ pause = BackoffStart /\ pull = "idle"
  /\ since = Never /\ rested = Every
-----------------------------------------------------------------------------
(* launchd, the user and the file system. *)

(* brew swaps the bundle: the old binary goes, a new one comes. *)
Remove ==
  /\ disk # 0
  /\ disk' = 0
  /\ UNCHANGED <<placed, launchd, proc, cli, supervision, schedule>>

Place ==
  /\ placed < Versions
  /\ placed' = placed + 1 /\ disk' = placed'
  /\ UNCHANGED <<launchd, proc, cli, supervision, schedule>>

(* The process of an agent ends, and with it the supervised provider. *)
Over(l) ==
  /\ proc' = [proc EXCEPT ![l] = NoProcess]
  /\ IF l = Label
     THEN prov' = "off" /\ pause' = BackoffStart /\ pull' = "idle"
     ELSE UNCHANGED supervision

(* KeepAlive with PathState: the agent runs while its binary exists. *)
Launch(l) ==
  /\ l \in loaded \ unloading /\ Is(l, "none") /\ OnDisk(l) # 0
  /\ proc' = [proc EXCEPT ![l] = Process("starting", OnDisk(l), 0)]
  /\ UNCHANGED <<binary, launchd, cli, supervision, schedule>>

Unloaded(l) ==
  /\ l \in unloading /\ Is(l, "none")
  /\ loaded' = loaded \ {l} /\ unloading' = unloading \ {l}
  /\ UNCHANGED <<binary, plists, proc, cli, supervision, schedule>>

(* A new login session loads what is in LaunchAgents. *)
Login ==
  /\ loaded' = plists /\ unloading' = {}
  /\ proc' = [l \in Labels |-> NoProcess]
  /\ service' = "idle"
  /\ prov' = "off" /\ pause' = BackoffStart /\ pull' = "idle"
  /\ UNCHANGED <<binary, plists, installed, schedule>>
-----------------------------------------------------------------------------
(* service.rs *)

Nothing == UNCHANGED <<launchd, proc, supervision>>

(* launchctl bootout returns before the agent is gone; a daemon that runs  *)
(* is asked to stop, one that is starting just ends.  Its exit status is   *)
(* logged and not looked at: an agent that is not loaded and a bootout     *)
(* that failed are the same to the caller.                                 *)
Unload(l) ==
  \/ Nothing
  \/ /\ l \in loaded
     /\ unloading' = unloading \cup {l}
     /\ \/ Is(l, "starting") /\ Over(l)
        \/ Is(l, "up") /\ proc' = [proc EXCEPT ![l].st = "stopping"]
                       /\ UNCHANGED supervision
        \/ proc[l].st \in {"none", "stopping"}
                       /\ UNCHANGED <<proc, supervision>>
     /\ UNCHANGED <<plists, loaded>>

RemoveFile(l) ==
  plists' = plists \ {l} /\ UNCHANGED <<loaded, unloading, proc, supervision>>

(* Mutant of InstallStep: brew's agent is unloaded, its plist is kept. *)
InstallBesideBrew(at, then) ==
  \/ at = "unload_brew" /\ then = "unload" /\ Unload(BrewLabel)
  \/ at = "unload" /\ then = "wait" /\ Unload(Label)
  \/ at = "wait" /\ then = "write" /\ Nothing
  \/ /\ at = "write" /\ then = "bootstrap"
     /\ plists' = plists \cup {Label}
     /\ UNCHANGED <<loaded, unloading, proc, supervision>>

(* install, one call after the other, up to the one that loads the agent;  *)
(* wait_unloaded waits for the agent to go, but not for ever.              *)
InstallStep(at, then) ==
  \/ at = "unload_brew" /\ then = "remove_brew" /\ Unload(BrewLabel)
  \/ at = "remove_brew" /\ then = "unload" /\ RemoveFile(BrewLabel)
  \/ at = "unload" /\ then = "wait" /\ Unload(Label)
  \/ at = "wait" /\ then = "write" /\ Nothing
  \/ /\ at = "write" /\ then = "bootstrap"
     /\ plists' = plists \cup {Label}
     /\ UNCHANGED <<loaded, unloading, proc, supervision>>

Steps == {"unload_brew", "remove_brew", "unload", "wait", "write",
          "bootstrap", "uninstall", "remove"}

Install ==
  /\ \E then \in Steps : InstallStep(service, then) /\ service' = then
  /\ UNCHANGED <<binary, installed, schedule>>

(* bootstrap is refused while launchd still knows the agent. *)
Bootstrap ==
  /\ service = "bootstrap"
  /\ service' = "idle"
  /\ \/ Label \notin loaded /\ loaded' = loaded \cup {Label}
          /\ installed' = TRUE
     \/ Label \in loaded /\ UNCHANGED <<loaded, installed>>
  /\ UNCHANGED <<binary, plists, unloading, proc, supervision, schedule>>

Uninstall ==
  /\ \/ service = "uninstall" /\ service' = "remove" /\ Unload(Label)
     \/ service = "remove" /\ service' = "idle" /\ RemoveFile(Label)
  /\ UNCHANGED <<binary, installed, schedule>>

(* The user starts a command; any of its calls may fail and end it. *)
Command ==
  /\ \/ service = "idle" /\ service' \in {"unload_brew", "uninstall"}
     \/ service # "idle" /\ service' = "idle"
  /\ UNCHANGED <<binary, launchd, proc, installed, supervision, schedule>>
-----------------------------------------------------------------------------
(* main.rs *)

(* run, up to the watch on the binary, which is identified only here, some *)
(* time after it was executed: whatever is at the path by then, or nothing *)
(* where the path is empty or cannot be resolved (Executable::current).    *)
Start(l) ==
  /\ Is(l, "starting")
  /\ \E watched \in {0, OnDisk(l)} :
       proc' = [proc EXCEPT ![l] = Process("up", @.image, watched)]
  /\ prov' = IF l = Label THEN "running" ELSE prov
  /\ UNCHANGED <<binary, launchd, cli, pause, pull, schedule>>

(* A configuration that is refused, or any other step of the start. *)
StartFails(l) ==
  /\ Is(l, "starting")
  /\ Over(l)
  /\ UNCHANGED <<binary, launchd, cli, schedule>>

(* Mutant of Replaced: a binary that is gone is not taken for swapped. *)
ReplacedByAnother(original, current) == current \notin {0, original}

Replaced(original, current) == current # original

(* swapped, where there is a binary to watch: the daemon stops and         *)
(* flushes.                                                                *)
Stop(l) ==
  /\ Is(l, "up") /\ proc[l].watched # 0
  /\ Replaced(proc[l].watched, OnDisk(l))
  /\ proc' = [proc EXCEPT ![l].st = "stopping"]
  /\ UNCHANGED <<binary, launchd, cli, supervision, schedule>>

Exit(l) ==
  /\ Is(l, "stopping")
  /\ Over(l)
  /\ UNCHANGED <<binary, launchd, cli, schedule>>

Crash(l) ==
  /\ Is(l, "up")
  /\ Over(l)
  /\ UNCHANGED <<binary, launchd, cli, schedule>>
-----------------------------------------------------------------------------
(* supervise, around the provider of the pulls *)

Fail ==
  /\ prov = "running"
  /\ prov' = "pausing" /\ pull' = "idle"
  /\ UNCHANGED <<binary, launchd, proc, cli, pause, schedule>>

Doubled == IF 2 * pause < BackoffCeiling THEN 2 * pause ELSE BackoffCeiling

Restart ==
  /\ prov = "pausing"
  /\ prov' = "running" /\ pause' = Doubled
  /\ UNCHANGED <<binary, launchd, proc, cli, pull, schedule>>

(* pull_due *)
Due == since = Never \/ since >= Every

Pull ==
  /\ prov = "running" /\ pull = "idle" /\ Due
  /\ pull' = "running"
  /\ UNCHANGED <<binary, launchd, proc, cli, prov, pause, schedule>>

(* run_pull ends, well or badly or killed at its deadline. *)
PullEnds ==
  /\ pull = "running"
  /\ pull' = "storing"
  /\ UNCHANGED <<binary, launchd, proc, cli, prov, pause, schedule>>

(* Mutant of Stored: the schedule is kept where a restart forgets it. *)
StoredNowhere == since' = since

Stored == since' = 0

(* The attempt is stored, whatever came of it; or the commit fails. *)
Commit ==
  /\ pull = "storing"
  /\ pull' = "idle"
  /\ \/ Stored /\ rested' = 0
     \/ UNCHANGED schedule
  /\ UNCHANGED <<binary, launchd, proc, cli, prov, pause>>

Pass ==
  /\ pull # "storing"
  /\ since' = IF since \in {Every, Never} THEN since ELSE since + 1
  /\ rested' = IF rested = Every THEN rested ELSE rested + 1
  /\ UNCHANGED <<binary, launchd, proc, cli, supervision>>

SetBack ==
  /\ since # Never /\ since > - SetBacks /\ pull # "storing"
  /\ since' = since - 1
  /\ UNCHANGED <<binary, launchd, proc, cli, supervision, rested>>

Daemon(l) == Start(l) \/ StartFails(l) \/ Stop(l) \/ Exit(l)

Next ==
  \/ Remove \/ Place \/ Login
  \/ \E l \in Labels : Launch(l) \/ Unloaded(l) \/ Daemon(l) \/ Crash(l)
  \/ Command \/ Install \/ Bootstrap \/ Uninstall
  \/ Fail \/ Restart \/ Pull \/ PullEnds \/ Commit
  \/ Pass \/ SetBack

(* The daemon runs, and looks at its binary every POLL. *)
Spec == Init /\ [][Next]_vars /\ WF_vars(Daemon(Label))
-----------------------------------------------------------------------------
(* A daemon that found the binary it was executed from stops once that is  *)
(* swapped or removed, in whichever half of the swap its poll falls.       *)
UpgradeTaken ==
  []<>(\/ ~ Is(Label, "up")
       \/ proc[Label].watched # proc[Label].image
       \/ proc[Label].image = disk)

(* "An upgrade needs nothing further.  [...] the running daemon notices    *)
(* that its own executable is no longer the file it started from" (README  *)
(* 82-86): so does every daemon that has a binary to watch.  The watch     *)
(* begins with the file found some time after the exec, so a swap in       *)
(* between leaves the old version watching the new file.                   *)
UpgradeNeedsNothing ==
  []<>(\/ ~ Is(Label, "up")
       \/ proc[Label].watched = 0
       \/ proc[Label].image = disk)

(* launchd will not start the agent of brew services. *)
BrewGone == BrewLabel \notin loaded \ unloading

(* From an install that reported success on, the agent of brew services    *)
(* never comes back: at the latest a new login is rid of it, and once      *)
(* launchd has let go of it, it is neither loaded nor started again.       *)
BrewStaysGone ==
  [][installed =>
       /\ BrewGone \/ Login => BrewGone'
       /\ BrewGone /\ Is(BrewLabel, "none") => proc'[BrewLabel].st = "none"]_vars

(* "unloads and removes the agent `brew services` used to write so the two *)
(* never run at once" (README 79-80).  install waits for its own agent to  *)
(* be gone but not for brew's, and does not notice a bootout that failed.  *)
NeverBoth ==
  installed => \E l \in Labels : ~ Is(l, "up") /\ ~ Is(l, "stopping")

(* The command of an import is not run before `every` has passed since the *)
(* last attempt that was stored, across failures, crashes, upgrades and a  *)
(* clock that is set back.  An attempt whose store is lost, to a crash or  *)
(* a failed commit, is run again and counts for nothing here.              *)
OncePerPeriod == pull = "running" => rested >= Every
=============================================================================
