--------------------------- MODULE BrowserHistory ---------------------------
(***************************************************************************)
(* The browser history provider of src/providers/browser_history.rs.  The  *)
(* browser (external) writes its History database at any time; the         *)
(* provider clones it, reads the clone from a window below its cursor, and *)
(* sends the visits that are new or changed, with the cursor, in one       *)
(* emission.  The record writer commits both in one transaction or drops   *)
(* the receipt.  The daemon may be stopped or crash between any two steps. *)
(*                                                                         *)
(* A visit is abstracted to its id, to `born`, which tells two visits with *)
(* the same id apart, and to `content`: title, transition and duration,    *)
(* what the digest covers and what the browser rewrites.  Its url is set,  *)
(* empty, or missing: a row of `visits` that has none in `urls`.           *)
(***************************************************************************)
EXTENDS Integers, FiniteSets, FiniteSetsExt, Functions

CONSTANTS
  RevisitWindow,   \* config: revisit_window
  PageLimit,       \* PAGE_LIMIT
  Profile,         \* config: browser.profile, a name
  Names,           \* the names profiles may have
  Directories,     \* the profile directories, ordered as Local State lists them
  Contents,        \* the contents a visit may have
  Untitled,        \* contents whose digest is that of a visit with no title
  NoState,         \* None
  IdBound,         \* bound: the greatest visit id
  Edits,           \* bound: rewrites, deletions, renamings, new files, damaged cursors
  Deaths           \* bound: how often the daemon stops or crashes

ASSUME HistoryAssumption ==
  /\ RevisitWindow \in Nat /\ PageLimit \in Nat \ {0}
  /\ Profile \in Names /\ \E n \in Names : n # Profile
  /\ Directories \subseteq Nat /\ Directories # {}
  /\ Untitled \subseteq Contents
  /\ {IdBound, Edits, Deaths} \subseteq Nat

VARIABLES
  \* the browser
  info_cache,      \* the profile name of each directory
  visits,          \* the table `visits` by id, with its url's row of `urls`
  last_id,         \* the greatest id handed out: ids are not used again
  edits, files,    \* edits so far; History files begun
  \* the provider
  pc,              \* down, start, tick, cloned, send, await
  state,           \* run's `state`
  clone,           \* the clone on disk, if there is one
  outcome,         \* poll_once's result
  \* the record writer
  inflight,        \* an emission is in the channel
  receipt,         \* what the receipt says: pending, committed, dropped
  stored,          \* the provider's row of the table `cursors`, if it decodes
  recorded,        \* history: what was committed under each key since it does
  since,           \* history: visits above this id are owed
  deaths

browser == <<info_cache, visits, last_id, edits, files>>
provider == <<pc, state, clone, outcome>>
writer == <<inflight, receipt, stored, recorded, since>>
vars == <<browser, provider, writer, deaths>>

Ids == 1..IdBound
Urls == {"set", "empty", "missing"}
Visit == [born : Nat, url : Urls, content : Contents]
EmptyTable == [i \in {} |-> 0]
Generations == 1..(Edits + 1)
Keys == Generations \X Ids

(* HistoryState: the value of the cursor row, with the digests it holds. *)
HistoryState ==
  [cursor : 0..IdBound, generation : Generations,
   shipped : UNION {[S -> Contents \cup {"untitled"}] : S \in SUBSET Ids}]

ASSUME NoStateAssumption == NoState \notin HistoryState
-----------------------------------------------------------------------------
(* The browser, external: it appends, rewrites and deletes visits. *)

Append(url, content) ==
  /\ last_id < IdBound /\ (url = "set" \/ content \in Untitled)
  /\ last_id' = last_id + 1
  /\ visits' = [i \in DOMAIN visits \cup {last_id'} |->
                  IF i = last_id' THEN [born |-> files, url |-> url, content |-> content]
                  ELSE visits[i]]
  /\ UNCHANGED <<info_cache, edits, files, provider, writer, deaths>>

Rewrite(i, content) ==
  /\ edits < Edits /\ i \in DOMAIN visits /\ visits[i].content # content
  /\ visits' = [visits EXCEPT ![i].content = content]
  /\ edits' = edits + 1
  /\ UNCHANGED <<info_cache, last_id, files, provider, writer, deaths>>

Delete(i) ==
  /\ edits < Edits /\ i \in DOMAIN visits
  /\ visits' = Restrict(visits, DOMAIN visits \ {i})
  /\ edits' = edits + 1
  /\ UNCHANGED <<info_cache, last_id, files, provider, writer, deaths>>

(* The History file is deleted and begun again: ids restart. *)
Recreate ==
  /\ edits < Edits /\ edits' = edits + 1
  /\ files' = files + 1
  /\ visits' = EmptyTable /\ last_id' = 0
  /\ UNCHANGED <<info_cache, provider, writer, deaths>>

(* The user renames the profile: it does not resolve until renamed back. *)
Rename(d, name) ==
  /\ d = Min(Directories) /\ info_cache[d] # name
  /\ info_cache' = [info_cache EXCEPT ![d] = name]
  /\ \/ name = Profile /\ UNCHANGED edits
     \/ name # Profile /\ edits < Edits /\ edits' = edits + 1
  /\ UNCHANGED <<visits, last_id, files, provider, writer, deaths>>

(* The row of `cursors` is damaged while the daemon is down: decode fails. *)
Garble ==
  /\ pc = "down" /\ ~ inflight /\ stored # NoState
  /\ edits < Edits /\ edits' = edits + 1
  /\ stored' = NoState /\ recorded' = [k \in Keys |-> {}]
  /\ UNCHANGED <<info_cache, visits, last_id, files, provider, inflight, receipt, since, deaths>>
-----------------------------------------------------------------------------
(* resolve_directory: the first directory of that name, if there is one. *)
Resolves == \E d \in Directories : info_cache[d] = Profile
Directory == Min({d \in Directories : info_cache[d] = Profile})

(* The History of the resolved directory; the model writes the first only. *)
HistoryOf(d) == IF d = Min(Directories) THEN visits ELSE EmptyTable

(* HistoryState::fresh and regenerated. *)
Fresh(highest) == [cursor |-> highest, generation |-> 1, shipped |-> EmptyTable]

Regenerated(s, highest) ==
  [cursor |-> highest, generation |-> s.generation + 1, shipped |-> EmptyTable]

(* highest_visit_id: of `visits` alone. *)
HighestVisitId(rows) == IF DOMAIN rows = {} THEN 0 ELSE Max(DOMAIN rows)

(* The state collect starts from. *)
Begun(rows, s) ==
  LET highest == HighestVisitId(rows)
  IN  IF s = NoState THEN Fresh(highest)
      ELSE IF highest < s.cursor THEN Regenerated(s, highest)
      ELSE s

(* digest: no title and an empty one are the same. *)
Digest(row) == IF row.content \in Untitled THEN "untitled" ELSE row.content

(* The rows of `visits` joined with `urls`. *)
Joined(rows) == {i \in DOMAIN rows : rows[i].url # "missing"}

(* read_page: the first PageLimit ids above `from` of the joined rows. *)
ReadPage(rows, from) ==
  {i \in Joined(rows) :
     i > from /\ Cardinality({j \in Joined(rows) : from < j /\ j <= i}) <= PageLimit}

(* The loop of collect: pages are read until one is not full. *)
ReadPages(rows, from) ==
  LET walk[p \in 0..IdBound] ==
        LET page == ReadPage(rows, p)
        IN  IF Cardinality(page) < PageLimit THEN page ELSE page \cup walk[Max(page)]
  IN  walk[from]

(* Mutant of Position: only what lies above the cursor is read. *)
PositionAtCursor(s) == s.cursor

Position(s) == IF s.cursor > RevisitWindow THEN s.cursor - RevisitWindow ELSE 0

(* The rows of the pages that are sent: those not shipped as they are. *)
Changed(rows, s, read) ==
  {i \in read : rows[i].url = "set" /\ (i \in DOMAIN s.shipped => s.shipped[i] # Digest(rows[i]))}

(* Mutants of Retained: the first row of the window goes too, or none goes. *)
RetainedAboveFloor(shipped, cursor) ==
  Restrict(shipped, {i \in DOMAIN shipped : i > cursor - RevisitWindow + 1})

RetainedForEver(shipped, cursor) == shipped

Retained(shipped, cursor) ==
  Restrict(shipped, {i \in DOMAIN shipped : i > cursor - RevisitWindow})

(* collect: the records to send, and the state after them. *)
Collect(rows, s0) ==
  LET s == Begun(rows, s0)
      read == ReadPages(rows, Position(s))
      sent == Changed(rows, s, read)
      cursor == Max({s.cursor, Position(s)} \cup read)
      shipped == [i \in DOMAIN s.shipped \cup sent |->
                    IF i \in sent THEN Digest(rows[i]) ELSE s.shipped[i]]
  IN  [records |-> [i \in sent |-> rows[i]],
       generation |-> s.generation,
       state |-> [cursor |-> cursor, generation |-> s.generation,
                  shipped |-> Retained(shipped, cursor)]]
-----------------------------------------------------------------------------
Init ==
  /\ info_cache = [d \in Directories |->
       IF d = Min(Directories) THEN Profile ELSE CHOOSE n \in Names : n # Profile]
  /\ visits = EmptyTable /\ last_id = 0 /\ edits = 0 /\ files = 1
  /\ pc = "down" /\ state = NoState /\ clone = FALSE /\ outcome = NoState
  /\ inflight = FALSE /\ receipt = "pending" /\ stored = NoState
  /\ recorded = [k \in Keys |-> {}] /\ since = 0 /\ deaths = 0

(* discard_stale_snapshot, before main does anything else. *)
Launch ==
  /\ pc = "down" /\ ~ inflight
  /\ pc' = "start" /\ clone' = FALSE
  /\ UNCHANGED <<browser, state, outcome, writer, deaths>>

(* run up to its loop: stored_state is None with no row, and with one that *)
(* does not decode.  A profile that does not resolve is an error, and      *)
(* supervise tries again: the step waits for it.                           *)
Start ==
  /\ pc = "start" /\ Resolves
  /\ state' = stored
  /\ pc' = "tick"
  /\ UNCHANGED <<browser, clone, outcome, writer, deaths>>

(* clone_history: the file is copied, perhaps in the middle of a write. *)
CloneHistory ==
  /\ pc = "tick" /\ Resolves
  /\ pc' = "cloned" /\ clone' = TRUE
  /\ LET rows == HistoryOf(Directory)
     IN  \/ outcome' = [rows |-> rows, torn |-> FALSE]
         \/ \E i \in DOMAIN rows :
              outcome' = [rows |-> Restrict(rows, DOMAIN rows \ {i}), torn |-> TRUE]
  /\ UNCHANGED <<browser, state, writer, deaths>>

(* Mutant of OpenSnapshot: no quick_check. *)
OpenTornSnapshot == TRUE

OpenSnapshot == ~ outcome.torn

(* poll_once ends in a result, or in a poll that is skipped; SnapshotGuard. *)
CollectFrom ==
  /\ pc = "cloned" /\ OpenSnapshot
  /\ outcome' = Collect(outcome.rows, state)
  /\ pc' = "send" /\ clone' = FALSE
  /\ UNCHANGED <<browser, state, writer, deaths>>

(* Mutant of PollSkipped: the clone is removed by the poll that succeeds only. *)
PollSkippedInHaste ==
  /\ pc = "cloned"
  /\ pc' = "tick" /\ outcome' = NoState
  /\ UNCHANGED <<browser, state, clone, writer, deaths>>

PollSkipped ==
  /\ pc = "cloned"
  /\ pc' = "tick" /\ clone' = FALSE /\ outcome' = NoState
  /\ UNCHANGED <<browser, state, writer, deaths>>

Send ==
  /\ pc = "send"
  /\ pc' = "await" /\ inflight' = TRUE /\ receipt' = "pending"
  /\ UNCHANGED <<browser, state, clone, outcome, stored, recorded, since, deaths>>

Receive ==
  /\ pc = "await" /\ receipt # "pending"
  /\ state' = IF receipt = "committed" THEN outcome.state ELSE state
  /\ pc' = "tick" /\ outcome' = NoState /\ receipt' = "pending"
  /\ UNCHANGED <<browser, clone, inflight, stored, recorded, since, deaths>>
-----------------------------------------------------------------------------
(* The record writer: store enqueues the emission, or cannot. *)
Commit ==
  /\ inflight
  /\ inflight' = FALSE /\ receipt' = "committed"
  /\ stored' = outcome.state
  /\ recorded' = [k \in Keys |->
       IF k[1] = outcome.generation /\ k[2] \in DOMAIN outcome.records
         THEN recorded[k] \cup {outcome.records[k[2]]} ELSE recorded[k]]
  /\ since' = IF stored = NoState THEN outcome.state.cursor - RevisitWindow ELSE since
  /\ UNCHANGED <<browser, provider, deaths>>

RefuseEmission ==
  /\ inflight
  /\ inflight' = FALSE /\ receipt' = "dropped"
  /\ UNCHANGED <<browser, provider, stored, recorded, since, deaths>>

(* main aborts the provider; the writer still stores what is in the channel. *)
Stop ==
  /\ pc # "down" /\ deaths < Deaths /\ deaths' = deaths + 1
  /\ pc' = "down" /\ state' = NoState /\ clone' = FALSE
  /\ outcome' = IF inflight THEN outcome ELSE NoState
  /\ UNCHANGED <<browser, writer>>

(* The process dies: the channel goes, the clone stays. *)
Crash ==
  /\ pc # "down" /\ deaths < Deaths /\ deaths' = deaths + 1
  /\ pc' = "down" /\ state' = NoState /\ outcome' = NoState
  /\ inflight' = FALSE /\ receipt' = "pending"
  /\ UNCHANGED <<browser, clone, stored, recorded, since>>

Next ==
  \/ \E url \in Urls, content \in Contents : Append(url, content)
  \/ \E i \in Ids, content \in Contents : Rewrite(i, content)
  \/ \E i \in Ids : Delete(i)
  \/ Recreate
  \/ \E d \in Directories, name \in Names : Rename(d, name)
  \/ Garble \/ Launch \/ Start \/ CloneHistory \/ CollectFrom \/ PollSkipped
  \/ Send \/ Receive \/ Commit \/ RefuseEmission \/ Stop \/ Crash

(***************************************************************************)
(* Fairness: launchd starts the daemon, tokio polls its tasks, the ticker  *)
(* ticks.  The environment: a profile renamed away is renamed back, and    *)
(* not every clone is torn nor every commit refused.                       *)
(***************************************************************************)
Fairness ==
  /\ WF_vars(Launch) /\ WF_vars(Start) /\ WF_vars(Send) /\ WF_vars(Receive)
  /\ WF_vars(\E d \in Directories : Rename(d, Profile))
  /\ WF_vars(CollectFrom \/ PollSkipped)
  /\ SF_vars(CloneHistory /\ ~ outcome'.torn)
  /\ SF_vars(CollectFrom) /\ SF_vars(Commit)

Spec == Init /\ [][Next]_vars /\ Fairness
-----------------------------------------------------------------------------
(* The value of the cursor row: it has digests for one window at most. *)
IsState(s) ==
  s # NoState =>
    /\ s \in HistoryState
    /\ DOMAIN s.shipped \subseteq (s.cursor - RevisitWindow + 1)..s.cursor

(* Every variable has its type. *)
TypeOK ==
  /\ info_cache \in [Directories -> Names]
  /\ DOMAIN visits \subseteq 1..last_id /\ \A i \in DOMAIN visits : visits[i] \in Visit
  /\ last_id \in 0..IdBound /\ edits \in 0..Edits /\ files \in 1..(Edits + 1)
  /\ pc \in {"down", "start", "tick", "cloned", "send", "await"}
  /\ IsState(state) /\ IsState(stored)
  /\ clone \in BOOLEAN /\ inflight \in BOOLEAN
  /\ receipt \in {"pending", "committed", "dropped"}
  /\ pc \in {"send", "await"} \/ inflight => IsState(outcome.state)
  /\ since \in (0 - RevisitWindow)..IdBound /\ deaths \in 0..Deaths

InWindow(i) == stored # NoState /\ i > stored.cursor - RevisitWindow

VisitRecorded(i) == \E g \in Generations : recorded[<<g, i>>] # {}

(***************************************************************************)
(* The stored cursor never passes a visit that was not recorded, whatever  *)
(* crashes, refused commits, skipped polls, deletions of recent visits and *)
(* torn clones come in between: a visit it passed would never be read.     *)
(* (As long as it is the same file, see KeyNamesOneVisit; and since the    *)
(* row of the cursor last had to be begun afresh.)                         *)
(***************************************************************************)
NoVisitSkipped ==
  stored # NoState /\ files = 1 =>
    \A i \in DOMAIN visits :
      i > since /\ i <= stored.cursor /\ visits[i].url = "set" => VisitRecorded(i)

(***************************************************************************)
(* A row read again is sent only when title, transition or duration differ *)
(* from what was last recorded under its key: every commit that adds to a  *)
(* key adds a digest other than the one the stored state has for it, as    *)
(* long as the stored state can be read back.                              *)
(***************************************************************************)
OnlyRevisions ==
  [][\A k \in Keys :
       /\ stored # NoState /\ stored' \notin {stored, NoState} /\ recorded[k] # {}
       /\ k[1] = outcome.generation /\ k[2] \in DOMAIN outcome.records
       => LET before == stored.shipped
          IN  k[2] \in DOMAIN before /\ before[k[2]] # Digest(outcome.records[k[2]])]_vars

(***************************************************************************)
(* The unredacted copy of the history is on disk only while a poll reads   *)
(* it: a finished, skipped or cancelled poll removes it, and a clone left  *)
(* by a crash is gone before the next run does anything.                   *)
(***************************************************************************)
CloneOnlyInPoll == clone => pc \in {"cloned", "down"}

(***************************************************************************)
(* A visit the browser titles, when it appends it or by a revision inside  *)
(* the revisit window, is recorded with its title, unless it is revised    *)
(* again or deleted, or leaves the window because newer visits were        *)
(* committed from a clone made before the revision, or the file is         *)
(* replaced.                                                               *)
(***************************************************************************)
RevisionRecorded ==
  \A i \in Ids, c \in Contents \ Untitled :
    (InWindow(i) /\ i \in DOMAIN visits /\ visits[i].url = "set" /\ visits[i].content = c)
      ~> \/ \E g \in Generations : \E r \in recorded[<<g, i>>] :
              Digest(r) = Digest([content |-> c])
         \/ i \notin DOMAIN visits \/ visits[i].content # c
         \/ ~ InWindow(i) \/ files > 1

(***************************************************************************)
(* What the dedup key is built for: one key never names two visits, so the *)
(* service does not merge unrelated visits.                                *)
(***************************************************************************)
KeyNamesOneVisit ==
  \A k \in Keys : \A r, q \in recorded[k] : r.born = q.born
=============================================================================
