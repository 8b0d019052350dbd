------------------------------ MODULE Sources ------------------------------
(***************************************************************************)
(* The sources of transcripts under a configuration the daemon accepts:    *)
(* each root and each import keeps a cursor row per file, each pull one    *)
(* for its schedule, and all of them share one table of the buffer and one *)
(* service.  A text is the sequence of its characters, or of longer pieces *)
(* where no two texts differ inside one.                                   *)
(***************************************************************************)
EXTENDS Config, TLC

CONSTANTS
  Files,       \* configuration files the daemon may find
  Spelling,    \* device -> its name as a text
  Transcripts  \* paths of transcripts, as texts, below a projects directory

VARIABLES
  file,  \* the configuration
  rows,  \* key of a cursor row -> ghost: what was stored under it, by whom
  names  \* device and profile of a record -> ghost: the sources they stand for

vars == <<file, rows, names>>

(* Which of HOME, NIKKI_CONFIG and NIKKI_STATE_DIR are set. *)
Environments == [home : BOOLEAN, config : BOOLEAN, state_dir : BOOLEAN]

(* What main and run accept; `run` needs HOME whatever the paths are. *)
Usable ==
  {f \in {WithDefaults(g) : g \in Files} :
     \E env \in Environments :
       PathsResolve(env) /\ Accepted(f, env.home) /\ env.home}

(* IMPORT_PROFILE *)
ImportProfile == "claude"

(* Under an absolute directory, the home expanded. *)
Below(dir, rest) == <<"/", dir.start, dir.name>> \o rest

(* Mutant of CursorKey: the length of the device is left out. *)
UnmarkedKey(path, device) ==
  IF device = None THEN path
  ELSE <<"import-file:">> \o Spelling[device] \o <<":">> \o path

(* cursor_key: a local file goes by its path alone. *)
CursorKey(path, device) ==
  IF device = None THEN path
  ELSE <<"import-file:", ToString(Len(Spelling[device])), ":">>
         \o Spelling[device] \o <<":">> \o path

PullKey(device) == <<"import-pull:">> \o Spelling[device]

(* What the table holds, and to whom it belongs. *)
With(table, key, owner) ==
  [k \in DOMAIN table \cup {key} |->
     (IF k \in DOMAIN table THEN table[k] ELSE {})
       \cup (IF k = key THEN {owner} ELSE {})]

Init ==
  /\ file \in Usable
  /\ rows = [k \in {} |-> {}] /\ names = rows

(* ship_file over the transcripts of one source: each commit stores the    *)
(* file's cursor with records that name the device and the profile.        *)
Ship(source, dir, device, named) ==
  /\ rows' = [k \in DOMAIN rows \cup {CursorKey(Below(dir, t), device) : t \in Transcripts} |->
                (IF k \in DOMAIN rows THEN rows[k] ELSE {})
                  \cup {<<source, t>> : t \in {u \in Transcripts :
                                              k = CursorKey(Below(dir, u), device)}}]
  /\ names' = With(names, named, source)
  /\ UNCHANGED file

Root(i) ==
  LET root == file.roots[i]
  IN  Ship(<<"root", i>>, root, None, <<file.device, root.name>>)

Import(i) ==
  LET import == file.imports[i]
  IN  Ship(<<"import", i>>, import.dir, import.device,
           <<import.device, ImportProfile>>)

(* pull_if_due: the attempt is stored under the device. *)
PullAttempt(i) ==
  /\ file.imports[i].command # None
  /\ rows' = With(rows, PullKey(file.imports[i].device), <<"pull", i>>)
  /\ UNCHANGED <<file, names>>

(* tick goes over the roots and then the imports, and skips those whose    *)
(* directory cannot be read: any of them may be the next to store.         *)
Next ==
  \/ \E i \in 1 .. Len(file.roots) : Root(i)
  \/ \E i \in 1 .. Len(file.imports) : Import(i) \/ PullAttempt(i)

Spec == Init /\ [][Next]_vars
-----------------------------------------------------------------------------
OneOwner(table) == \A k \in DOMAIN table : \A a, b \in table[k] : a = b

(* Under a configuration that was accepted no cursor row is stored by two  *)
(* sources, or for two files, so no source resumes from another's offset   *)
(* or waits on another's schedule; and the device and profile on a record  *)
(* name one source.  It takes the checks of claude_code_from on devices    *)
(* and profiles and the form of both keys together.                        *)
SourcesApart == OneOwner(rows) /\ OneOwner(names)
=============================================================================
