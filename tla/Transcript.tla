----------------------------- MODULE Transcript -----------------------------
(***************************************************************************)
(* The Claude Code provider of src/providers/claude_code.rs reading one    *)
(* transcript: a local one, known by its inode, or an imported one, known  *)
(* by its first line.  The file is written by other programs (external)    *)
(* while it is read: it grows byte by byte, is copied anew, cut or         *)
(* replaced.  Each increment of the read is sent with the cursor it        *)
(* advances to, and the record writer commits both or neither.             *)
(*                                                                         *)
(* A byte is a triple <<session, line, position in the line>>; the last    *)
(* position is the newline.  A sequence of bytes parses as a line only     *)
(* when it is all the bytes of one: a fragment of a line is not JSON.      *)
(* What the provider sees of a line is its JSON fields: `texts` are its    *)
(* text blocks by their leading tag, `tools` its tool calls.  The drafts of *)
(* a line differ from each other and make up a set.                        *)
(***************************************************************************)
EXTENDS Integers, Sequences, FiniteSets, FiniteSetsExt

CONSTANTS
  Fields,          \* the lines that may be written: the JSON fields of each
  MaxRecords,      \* READ_BUDGET.max_records
  MaxText,         \* READ_BUDGET.max_bytes
  MaxScan,         \* READ_BUDGET.max_scan_bytes
  MaxLine,         \* MAX_LINE_BYTES
  HeadBytes,       \* HEAD_HASH_BYTES
  Since,           \* config: since of the import
  Mtimes,          \* the instants a change of the file may be given
  Home,            \* the home directory, as the directories of its path
  Repos,           \* the directories with a .git
  NoCursor,        \* None, for a cursor, a timestamp, an id
  MaxBytes,        \* bound: the length of the file
  Changes,         \* bound: how often the file is copied anew, cut or replaced
  Faults           \* bound: stops, crashes, failing reads and refused commits

ASSUME TranscriptAssumption ==
  /\ \A l \in DOMAIN Fields : Fields[l].len \in Nat \ {0}
  /\ {MaxRecords, MaxText, MaxScan, MaxLine, HeadBytes} \subseteq Nat \ {0}
  /\ {Since, MaxBytes, Changes, Faults} \subseteq Nat /\ Mtimes \subseteq Nat

VARIABLES
  \* the file
  identity,        \* Identity: "inode" for a local root, "head" for an import
  whole,           \* all the bytes its writer means to be in it
  length,          \* how many of them are there
  inode,
  modified,        \* its mtime, once it has bytes
  session,         \* the session that writes it: one per file at the path
  changes,
  cut,             \* history: the file was cut short in place
  times,           \* history: the mtimes the session's file has had
  \* the provider
  pc,              \* idle, stat, open, read, send, await
  known,           \* the cursor of this file in `known`, if it was looked up
  cursor,          \* ship_file's cursor
  start,           \* read_increment's start
  file_modified,   \* its file_modified: the mtime when the read began
  held,            \* the bytes of the open file if it is no longer at the path
  increment,       \* what the loop has read
  \* the record writer
  inflight, receipt,
  stored,          \* this file's row of the table `cursors`
  recorded,        \* history: the committed drafts
  faults

mtimes == <<modified, times>>
file == <<identity, whole, length, inode, mtimes, session, changes, cut>>
provider == <<pc, known, cursor, start, file_modified, held, increment>>
writer == <<inflight, receipt, stored, recorded>>
vars == <<file, provider, writer, faults>>

CursorVersion == 1
Lines == DOMAIN Fields
None == NoCursor
-----------------------------------------------------------------------------
(* What one line is turned into. *)

LeadingTags == [command |-> {"<command-name>", "<command-message>", "<bash-input>"},
                command_output |-> {"<local-command-stdout>", "<local-command-stderr>",
                                    "<bash-stdout>", "<bash-stderr>"},
                notification |-> {"<task-notification>"}]

(* The message_kind of a text: prompt when no tag leads it. *)
MessageKind(line, tag) ==
  IF line.type = "assistant" THEN "text"
  ELSE IF line.compact THEN "compact_summary"
  ELSE IF \E kind \in DOMAIN LeadingTags : tag \in LeadingTags[kind]
    THEN CHOOSE kind \in DOMAIN LeadingTags : tag \in LeadingTags[kind]
  ELSE "prompt"

(* message_drafts returns early for these. *)
NoMessage(line) ==
  \/ line.sidechain
  \/ line.type = "user" /\ line.meta
  \/ line.uuid = None \/ line.ts = None
  \/ line.texts = <<>>

(* The dedup keys: what the service takes for the same record. *)
MessageKey(line, block) == <<"message", line.session, line.uuid, block>>
SessionKey(line, field) == <<"session", line.session, field, line.value>>
TouchKey(line, repo, action) == <<"touch", line.session, line.uuid, repo, action>>

Draft(kind, ts, label, key) == [kind |-> kind, ts |-> ts, label |-> label, key |-> key]

MessageDrafts(line) ==
  IF NoMessage(line) THEN {}
  ELSE {Draft("message", line.ts, MessageKind(line, line.texts[b]), MessageKey(line, b)) :
          b \in DOMAIN line.texts}

(* LineOutcome::message_ts. *)
MessageTs(line) ==
  IF line.type \in {"user", "assistant"} /\ ~ NoMessage(line) THEN line.ts ELSE None

(* session_drafts: stamped by the line, the last message, or the file. *)
SessionDrafts(line, field, last_ts, mtime) ==
  IF line.value = None THEN {}
  ELSE {Draft("session",
              IF line.ts # None THEN line.ts ELSE IF last_ts # None THEN last_ts ELSE mtime,
              field, SessionKey(line, field))}

ToolActions == [Edit |-> "edit", Write |-> "edit", MultiEdit |-> "edit",
                NotebookEdit |-> "edit", Read |-> "read", Glob |-> "read",
                Grep |-> "read", Bash |-> "run"]

(* tool_paths and command_paths: the paths a call names, with the action. *)
ToolPaths(tool) ==
  IF tool.name \in DOMAIN ToolActions
    THEN {<<path, ToolActions[tool.name]>> : path \in tool.paths} ELSE {}

(* GitRoots::expand and repo_of, without its cache: the nearest directory  *)
(* with a .git at or above the path, below the home directory or the root. *)
Expand(path) ==
  CASE path.start = "home" -> Home \o path.dirs
    [] path.start = "root" -> path.dirs
    [] path.start = "relative" -> None

RepoOf(path) ==
  LET dirs == Expand(path)
      boundary(n) == SubSeq(dirs, 1, n) \in {<<>>, Home}
      nearest == Max({n \in 0..Len(dirs) : boundary(n) \/ SubSeq(dirs, 1, n) \in Repos})
  IN  IF dirs = None \/ boundary(nearest) THEN None ELSE SubSeq(dirs, 1, nearest)

(* touch_drafts: one draft for each repository and action of the line. *)
TouchDrafts(line) ==
  IF line.sidechain \/ line.uuid = None \/ line.ts = None THEN {}
  ELSE LET named == UNION {ToolPaths(line.tools[t]) : t \in DOMAIN line.tools}
           touched == {<<RepoOf(n[1]), n[2]>> : n \in {n \in named : RepoOf(n[1]) # None}}
       IN  {Draft("touch", line.ts, t[2], TouchKey(line, t[1], t[2])) : t \in touched}

(* drafts_from_line for a source known by its inode or its head; only the *)
(* former has touches.                                                     *)
DraftsFromLine(source, line, last_ts, mtime) ==
  CASE line.type = "user" -> MessageDrafts(line)
    [] line.type = "assistant" ->
         MessageDrafts(line) \cup (IF source = "inode" THEN TouchDrafts(line) ELSE {})
    [] line.type = "custom-title" -> SessionDrafts(line, "custom_title", last_ts, mtime)
    [] line.type = "ai-title" -> SessionDrafts(line, "ai_title", last_ts, mtime)
    [] line.type = "pr-link" -> SessionDrafts(line, "pr", last_ts, mtime)
    [] OTHER -> {}

(* An import drops what is older than `since`. *)
Wanted(source, line, last_ts, mtime) ==
  {d \in DraftsFromLine(source, line, last_ts, mtime) : source = "head" => d.ts >= Since}
-----------------------------------------------------------------------------
(* The file and its writers, external. *)

Bytes(s, line) == [i \in 1..Fields[line].len |-> <<s, line, i>>]
IsNewline(byte) == byte[3] = Fields[byte[2]].len
OnDisk == SubSeq(whole, 1, length)

(* The bytes the open file has, also after another took its path. *)
Content == IF held = None THEN OnDisk ELSE held
Keep == held' = IF pc = "read" /\ held = None THEN OnDisk ELSE held

(* A write gives the file some mtime: a clock may be set back, and a pull  *)
(* may keep the one the file had where it came from.  That of an empty     *)
(* file is left out: nothing is read of it.                                *)
Touch == modified' \in Mtimes /\ times' = times \cup {modified'}

(* A session writes its next line; the bytes reach the file in any portions. *)
Extend(line) ==
  /\ length = Len(whole) /\ Len(whole) + Fields[line].len <= MaxBytes
  /\ whole' = whole \o Bytes(session, line)
  /\ UNCHANGED <<identity, length, inode, mtimes, session, changes, cut, provider, writer, faults>>

Flush(n) ==
  /\ n > length /\ n <= Len(whole)
  /\ length' = n /\ Touch
  /\ UNCHANGED <<identity, whole, inode, session, changes, cut, provider, writer, faults>>

(* A pull copies the import anew: a new inode that fills up again. *)
Refill ==
  /\ identity = "head" /\ changes < Changes /\ changes' = changes + 1
  /\ inode' = inode + 1 /\ length' = 0 /\ modified' = None /\ UNCHANGED times
  /\ Keep
  /\ UNCHANGED <<identity, whole, session, cut, pc, known, cursor, start, file_modified, increment>>
  /\ UNCHANGED <<writer, faults>>

(* Another session's file takes the path. *)
Replace ==
  /\ changes < Changes /\ changes' = changes + 1
  /\ inode' = inode + 1 /\ session' = session + 1 /\ length' = 0 /\ whole' = <<>> /\ cut' = FALSE
  /\ modified' = None /\ times' = {} /\ Keep
  /\ UNCHANGED <<identity, pc, known, cursor, start, file_modified, increment, writer, faults>>

(* A local transcript is cut short in place. *)
Cut(n) ==
  /\ identity = "inode" /\ changes < Changes /\ changes' = changes + 1
  /\ n < length /\ length' = n /\ whole' = SubSeq(whole, 1, n) /\ cut' = TRUE
  /\ Touch
  /\ UNCHANGED <<identity, inode, session, provider, writer, faults>>
-----------------------------------------------------------------------------
(* FileCursor::decode: an older version counts as no cursor. *)
Decoded(value) == IF value # None /\ value.version < CursorVersion THEN None ELSE value

(* cursor_for: what is in memory, or else what is stored. *)
Lookup ==
  /\ pc = "idle"
  /\ LET found == IF known = <<>> THEN <<Decoded(stored)>> ELSE known
     IN  known' = found /\ cursor' = found[1]
  /\ pc' = "stat"
  /\ UNCHANGED <<file, start, file_modified, held, increment, writer, faults>>

(* head_digest: the first line, or as much as is hashed, once it is there. *)
HeadDigest ==
  LET ends == {i \in 1..length : IsNewline(whole[i]) \/ i = HeadBytes}
  IN  IF ends = {} THEN None ELSE SubSeq(whole, 1, Min(ends))

FromZero(head) ==
  [inode |-> inode, offset |-> 0, last_ts |-> None, version |-> CursorVersion,
   head |-> head, skipping |-> FALSE]

(* Mutant of Start: the inode is not compared. *)
StartAnyInode ==
  IF identity = "inode"
    THEN IF cursor # None /\ cursor.offset <= length THEN cursor ELSE FromZero(None)
  ELSE IF HeadDigest = None THEN None
  ELSE IF cursor # None /\ cursor.head = HeadDigest
    THEN IF cursor.offset > length THEN None ELSE [cursor EXCEPT !.inode = inode]
  ELSE FromZero(HeadDigest)

(* Where read_increment starts, or None when there is nothing to read yet. *)
Start ==
  IF identity = "inode"
    THEN IF cursor # None /\ cursor.inode = inode /\ cursor.offset <= length
           THEN cursor ELSE FromZero(None)
  ELSE IF HeadDigest = None THEN None
  ELSE IF cursor # None /\ cursor.head = HeadDigest
    THEN IF cursor.offset > length THEN None ELSE [cursor EXCEPT !.inode = inode]
  ELSE FromZero(HeadDigest)

(* read_increment up to the open: the metadata and the first line. *)
Stat ==
  /\ pc = "stat"
  /\ LET nothing == Start = None \/ Start.offset = length
     IN  /\ pc' = IF nothing THEN "idle" ELSE "open"
         /\ start' = IF nothing THEN None ELSE Start
         /\ file_modified' = IF nothing THEN None ELSE modified
  /\ cursor' = None
  /\ UNCHANGED <<file, known, held, increment, writer, faults>>

Open ==
  /\ pc = "open"
  /\ increment' = [offset |-> start.offset, last_ts |-> start.last_ts,
                   skipping |-> start.skipping, drafts |-> {}, count |-> 0, text |-> 0]
  /\ pc' = "read"
  /\ UNCHANGED <<file, known, cursor, start, file_modified, held, writer, faults>>

Scanned == increment.offset - start.offset

WithinBudget ==
  /\ increment.count < MaxRecords
  /\ increment.text < MaxText
  /\ Scanned < MaxScan

(* The bytes up to a newline, the end of the file or a limit. *)
Available(limit) ==
  LET rest == SubSeq(Content, increment.offset + 1, Len(Content))
      ends == {i \in DOMAIN rest : IsNewline(rest[i])} \cup {Len(rest), limit}
  IN  SubSeq(rest, 1, Min(ends))

EndsLine(read) == read # <<>> /\ IsNewline(read[Len(read)])

(* skip_through_newline. *)
Skip ==
  /\ pc = "read" /\ WithinBudget /\ increment.skipping
  /\ LET read == Available(MaxScan - Scanned)
     IN  /\ increment' = [increment EXCEPT !.offset = @ + Len(read), !.skipping = ~ EndsLine(read)]
         /\ pc' = IF EndsLine(read) THEN "read" ELSE "send"
  /\ UNCHANGED <<file, known, cursor, start, file_modified, held, writer, faults>>

(* A local line is read however long it is. *)
LineCap == IF identity = "head" THEN MaxLine ELSE MaxBytes + 1
ReadCap == IF Scanned = 0 THEN LineCap ELSE Min({LineCap, MaxScan - Scanned})

(* serde_json::from_slice: only all the bytes of a line are JSON. *)
Parses(read) == read = Bytes(read[1][1], read[1][2])

(* The line a byte belongs to: its fields and its session. *)
LineOf(byte) ==
  LET line == Fields[byte[2]]
  IN  [session |-> byte[1], len |-> line.len, type |-> line.type,
       sidechain |-> line.sidechain, meta |-> line.meta, compact |-> line.compact,
       uuid |-> line.uuid, ts |-> line.ts, texts |-> line.texts,
       tools |-> line.tools, value |-> line.value]

(* The drafts of a parsed line, and the instant a later title is given. *)
Absorb(line) ==
  LET drafts == Wanted(identity, line, increment.last_ts, file_modified)
      ts == MessageTs(line)
  IN  [increment EXCEPT !.drafts = @ \cup drafts,
                        !.count = @ + Cardinality(drafts),
                        !.text = @ + Cardinality({d \in drafts : d.kind = "message"}),
                        !.last_ts = IF ts = None THEN @ ELSE ts]

(* Mutant of ReadLine: a line cut off by the end of the file is consumed. *)
ReadTornLine ==
  /\ pc = "read" /\ WithinBudget /\ ~ increment.skipping
  /\ LET read == Available(ReadCap)
         after == [increment EXCEPT !.offset = @ + Len(read)]
     IN  IF EndsLine(read)
           THEN /\ pc' = "read"
                /\ increment' = IF Parses(read)
                                THEN [Absorb(LineOf(read[1])) EXCEPT !.offset = @ + Len(read)]
                                ELSE after
         ELSE increment' = after /\ pc' = "send"
  /\ UNCHANGED <<file, known, cursor, start, file_modified, held, writer, faults>>

ReadLine ==
  /\ pc = "read" /\ WithinBudget /\ ~ increment.skipping
  /\ \E read \in {Available(ReadCap)} :
     LET after == [increment EXCEPT !.offset = @ + Len(read)]
     IN  IF EndsLine(read)
           THEN /\ pc' = "read"
                /\ increment' = IF Parses(read)
                                THEN [Absorb(LineOf(read[1])) EXCEPT !.offset = @ + Len(read)]
                                ELSE after
         ELSE IF Len(read) < ReadCap \/ ReadCap < LineCap
           THEN pc' = "send" /\ UNCHANGED increment
         ELSE pc' = "read" /\ increment' = [after EXCEPT !.skipping = TRUE]
  /\ UNCHANGED <<file, known, cursor, start, file_modified, held, writer, faults>>

BudgetSpent ==
  /\ pc = "read" /\ ~ WithinBudget
  /\ pc' = "send"
  /\ UNCHANGED <<file, known, cursor, start, file_modified, held, increment, writer, faults>>

(* ship_file returns: its locals are gone. *)
Return ==
  /\ pc' = "idle" /\ cursor' = None /\ start' = None
  /\ file_modified' = None /\ held' = None /\ increment' = None

(* The file is not there, or reading it fails: it waits for the next tick. *)
Unreadable ==
  /\ pc \in {"stat", "open", "read"}
  /\ faults < Faults /\ faults' = faults + 1
  /\ Return
  /\ UNCHANGED <<file, known, writer>>

(* The cursor the increment advances to. *)
Advanced ==
  [inode |-> start.inode, offset |-> increment.offset, last_ts |-> increment.last_ts,
   version |-> CursorVersion, head |-> start.head, skipping |-> increment.skipping]

(* An increment that did not move is none; any other is sent. *)
Send ==
  /\ pc = "send"
  /\ \/ Scanned = 0 /\ Return /\ UNCHANGED <<inflight, receipt>>
     \/ /\ Scanned > 0 /\ pc' = "await" /\ inflight' = TRUE /\ receipt' = "pending"
        /\ file_modified' = None /\ held' = None /\ UNCHANGED <<cursor, start, increment>>
  /\ UNCHANGED <<file, known, stored, recorded, faults>>

(* Mutant of Receive: the cursor in memory advances without a receipt. *)
ReceiveAnyway ==
  /\ pc = "await" /\ receipt # "pending" /\ receipt' = "pending"
  /\ known' = <<Advanced>> /\ cursor' = Advanced /\ pc' = "stat"
  /\ start' = None /\ increment' = None
  /\ UNCHANGED <<file, file_modified, held, inflight, stored, recorded, faults>>

Receive ==
  /\ pc = "await" /\ receipt # "pending" /\ receipt' = "pending"
  /\ \/ /\ receipt = "committed" /\ known' = <<Advanced>> /\ cursor' = Advanced
        /\ pc' = "stat" /\ start' = None /\ increment' = None
        /\ UNCHANGED <<file_modified, held>>
     \/ receipt = "dropped" /\ Return /\ UNCHANGED known
  /\ UNCHANGED <<file, inflight, stored, recorded, faults>>

(* The record writer. *)
Commit ==
  /\ inflight /\ inflight' = FALSE /\ receipt' = "committed"
  /\ stored' = Advanced
  /\ recorded' = recorded \cup increment.drafts
  /\ UNCHANGED <<file, provider, faults>>

RefuseEmission ==
  /\ inflight /\ inflight' = FALSE /\ receipt' = "dropped"
  /\ faults < Faults /\ faults' = faults + 1
  /\ UNCHANGED <<file, provider, stored, recorded>>

(* The daemon stops and starts again; a crash also loses the channel. *)
Restart ==
  /\ faults < Faults /\ faults' = faults + 1
  /\ Return /\ known' = <<>>
  /\ \/ inflight /\ inflight' = FALSE /\ receipt' = "pending" /\ UNCHANGED <<stored, recorded>>
     \/ inflight /\ stored' = Advanced /\ recorded' = recorded \cup increment.drafts
          /\ inflight' = FALSE /\ receipt' = "pending"
     \/ ~ inflight /\ receipt' = "pending" /\ UNCHANGED <<inflight, stored, recorded>>
  /\ UNCHANGED file

(* The file may have been read to its end by a version that knew no touches. *)
Init ==
  /\ identity \in {"inode", "head"}
  /\ inode = 1 /\ session = 1 /\ changes = 0 /\ cut = FALSE
  /\ \/ whole = <<>> /\ length = 0 /\ stored = None /\ modified = None /\ times = {}
     \/ \E line \in Lines :
          /\ identity = "inode" /\ Fields[line].len <= MaxBytes
          /\ whole = Bytes(1, line) /\ length = Fields[line].len
          /\ modified \in Mtimes /\ times = {modified}
          /\ stored = [FromZero(None) EXCEPT !.offset = length, !.version = 0]
  /\ pc = "idle" /\ known = <<>> /\ cursor = None /\ start = None
  /\ file_modified = None /\ held = None /\ increment = None
  /\ inflight = FALSE /\ receipt = "pending" /\ recorded = {} /\ faults = 0

Next ==
  \/ \E line \in Lines : Extend(line)
  \/ \E n \in 1..MaxBytes : Flush(n) \/ Cut(n)
  \/ Refill \/ Replace
  \/ Lookup \/ Stat \/ Open \/ Skip \/ ReadLine \/ BudgetSpent \/ Send \/ Receive
  \/ Unreadable \/ Commit \/ RefuseEmission \/ Restart

(***************************************************************************)
(* Fairness: the ticker ticks, the tasks of the provider and of the writer *)
(* are polled, and what the writer of the file began it completes.         *)
(***************************************************************************)
ProviderStep ==
  Lookup \/ Stat \/ Open \/ Skip \/ ReadLine \/ BudgetSpent \/ Send \/ Receive

Fairness ==
  /\ WF_vars(ProviderStep) /\ WF_vars(Commit) /\ WF_vars(Flush(Len(whole)))

Spec == Init /\ [][Next]_vars /\ Fairness
-----------------------------------------------------------------------------
(***************************************************************************)
(* The reference: the lines the first n bytes of the transcript hold, read *)
(* in one go with nothing in between.                                      *)
(***************************************************************************)
LinesIn(bytes, n) == [i \in {i \in 1..n : IsNewline(bytes[i])} |-> LineOf(bytes[i])]

(* An import skips lines that exceed the cap. *)
Fits(source, line) == source = "head" => line.len <= MaxLine

LastTs(source, lines, i) ==
  LET before == {j \in DOMAIN lines : j < i /\ MessageTs(lines[j]) # None /\ Fits(source, lines[j])}
  IN  IF before = {} THEN None ELSE MessageTs(lines[Max(before)])

(* Those that count, each with the instant of the last message before it. *)
Expected(source, bytes, n) ==
  LET lines == LinesIn(bytes, n)
  IN  {<<lines[i], LastTs(source, lines, i)>> :
         i \in {i \in DOMAIN lines : Fits(source, lines[i])}}

(* Each of them has its drafts in `done`, for one mtime out of `from`. *)
Covered(source, expected, from, done) ==
  \A e \in expected : \E m \in from : Wanted(source, e[1], e[2], m) \subseteq done

(* The stored cursor belongs to the file at the path. *)
SameFile ==
  /\ stored # None /\ stored.version = CursorVersion
  /\ IF identity = "inode" THEN stored.inode = inode /\ ~ cut ELSE stored.head = HeadDigest

(***************************************************************************)
(* What lies before the stored offset has been recorded, each record with  *)
(* the instant a read in one go would have given it: no cut of the read by *)
(* the budgets, no restart, no lost or refused commit, no copy in progress *)
(* makes a line lost, or stamps a title by anything but its own instant,   *)
(* that of the last message before it or, before any message, an mtime the *)
(* file really had.  (That mtime may change between two reads of a line,   *)
(* and with it what `since` keeps: code and property take either.)         *)
(***************************************************************************)
ReadSoFar ==
  SameFile /\ stored.offset <= length =>
    Covered(identity, Expected(identity, whole, stored.offset), times, recorded)

(***************************************************************************)
(* The offset is never inside a line, unless the line is one that exceeds  *)
(* the cap and is being skipped: a half-written line is left for later.    *)
(***************************************************************************)
OffsetAtLine ==
  SameFile /\ stored.offset \in 1..length =>
    IsNewline(whole[stored.offset]) <=> ~ stored.skipping

(***************************************************************************)
(* A file that is neither cut nor replaced any longer is caught up with    *)
(* again and again: the stored cursor is past every complete line of it,   *)
(* however small the budgets and however long the line; by ReadSoFar all   *)
(* of it was recorded then.                                                *)
(***************************************************************************)
PastEveryLine ==
  \A i \in 1..length : IsNewline(whole[i]) => SameFile /\ stored.offset >= i

CaughtUp == []<>(changes < Changes \/ cut \/ PastEveryLine)
=============================================================================
