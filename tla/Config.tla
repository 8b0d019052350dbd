------------------------------- MODULE Config -------------------------------
(***************************************************************************)
(* What config.rs accepts.  A file is a record of its fields; a text field *)
(* is "missing", "blank" or a value, a path is a record that says how it   *)
(* begins and what its last directory is called, an absent table is None.  *)
(***************************************************************************)
EXTENDS Integers, Sequences

CONSTANTS
  None,               \* a field that is absent
  TickIntervalMax,    \* TICK_INTERVAL_MAX
  OverflowHeadroom    \* OVERFLOW_HEADROOM_BYTES

TickIntervalMin == 1
HistoryPollIntervalMin == 1
ClaudeCodePollIntervalMin == 1
ClaudeCodePullEveryMin == 1

(* serde's defaults, for what the file leaves out. *)
Defaults ==
  [tick_interval |-> 30, history_poll_interval |-> 300, poll_interval |-> 60,
   max_rows |-> 200000, max_bytes |-> 536870912, imports |-> <<>>,
   roots |-> <<[start |-> "home", name |-> "claude"],
               [start |-> "home", name |-> "claude-work"]>>]

WithDefaults(file) ==
  [f \in DOMAIN file |->
     IF f \in DOMAIN Defaults /\ file[f] = None THEN Defaults[f] ELSE file[f]]

(* required: present, and not blank. *)
Required(value) == value \notin {"missing", "blank"}

(* service_url_from: only an http or https url without credentials, query  *)
(* and fragment, and with a host.                                          *)
ServiceUrl(url) == Required(url) /\ url \in {"http", "https"}

(* expand_home: a path under ~/ needs HOME, any other must be absolute. *)
ExpandsHome(path, home) ==
  \/ path.start = "home" /\ home
  \/ path.start = "absolute"

(* claude_root_from: the profile is the last directory without its dot. *)
RootAccepted(root, home) == ExpandsHome(root, home) /\ root.name # ""

(* pull_from: an argv that names a program, and a period. *)
PullAccepted(command, every, home) ==
  /\ command # <<>>
  /\ every >= ClaudeCodePullEveryMin
  /\ ExpandsHome(Head(command), home)

(* claude_import_from *)
ImportAccepted(import, device, home) ==
  /\ Required(import.device) /\ import.device # device
  /\ import.dir # None /\ ExpandsHome(import.dir, home)
  /\ import.since = "rfc3339"
  /\ (import.command = None) <=> (import.every = None)
  /\ import.command # None => PullAccepted(import.command, import.every, home)

(* Mutant of Distinct: an entry is compared with the one before it only. *)
DistinctFromLast(s) == \A i \in 2 .. Len(s) : s[i] # s[i - 1]

Distinct(s) == \A i, j \in 1 .. Len(s) : s[i] = s[j] => i = j

Field(s, name) == [i \in 1 .. Len(s) |-> s[i][name]]

(* claude_code_from *)
ClaudeCodeAccepted(file, home) ==
  /\ file.poll_interval >= ClaudeCodePollIntervalMin
  /\ \A i \in 1 .. Len(file.roots) : RootAccepted(file.roots[i], home)
  /\ Distinct(Field(file.roots, "name"))
  /\ \A i \in 1 .. Len(file.imports) :
       ImportAccepted(file.imports[i], file.device, home)
  /\ Distinct(Field(file.imports, "device"))

(* parse *)
Accepted(file, home) ==
  /\ ServiceUrl(file.service_url)
  /\ Required(file.device) /\ Required(file.profile)
  /\ file.tick_interval \in TickIntervalMin .. TickIntervalMax
  /\ file.history_poll_interval >= HistoryPollIntervalMin
  /\ file.max_rows >= 1
  /\ file.max_bytes > OverflowHeadroom
  /\ ClaudeCodeAccepted(file, home)

(* Paths::resolve: HOME is needed for whichever path is not set itself. *)
PathsResolve(env) == env.home \/ (env.config /\ env.state_dir)
=============================================================================
