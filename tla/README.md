# A TLA+ model of nikki

nikki is a macOS daemon that captures what is on screen, which pages were visited
and which Claude Code sessions ran, and ships the records to a service over HTTP.
Its own logic is what happens to a record from capture to service: three providers
read things that change under them, one writer commits their records with their
cursors, a buffer keeps them through crashes and outages, and a shipper gets them
out. Paths are relative to the repository (`src/runtime/ship.rs`); "README" with a
line number is the repository's own.

## Inventory

| Component | State | Operations | Interacts through | Modules |
|---|---|---|---|---|
| durable buffer `runtime/buffer.rs` | tables `pending`, `dead_letter`, `cursors`, the counter `seq` | enqueue (with eviction and marker), take_batch, delete_batch, dead_letter, read_cursor, flush, close | one owner thread, a FIFO of commands | `Buffer` |
| shipper `runtime/ship.rs` | `batch_size`, `backoff`, the channel `urgent` | ship_once, decide, shrink, run, drain, ShipNow::within | buffer commands, POSTs, requests of the writer | `Shipper`, `Outbox` |
| record writer `runtime/mod.rs` | the emission it handles | absorb, store | emission channel (64), buffer, `within`, receipts | `Shipper`, and from the providers' side `Windows`, `BrowserHistory`, `Transcript` |
| daemon `main.rs`, `executable.rs` | running, stopping, the identity of its binary | start, stop on a signal, a swapped binary or a lost buffer, final flush, close | aborts tasks, drops the shipper's future | `Shipper`, `Agent` |
| supervision `providers/mod.rs` | restart pause | supervise | spawns a provider, restarts it | `Agent`, `Windows` |
| window provider `providers/windows.rs` | pending sample, deadline, counters | run, schedule, deliver_sleep, assemble | events of the event thread, emissions, acknowledgements | `Windows`, `Sample` |
| event thread `macos/events.rs` | observer registry, refusing pids, rescan flag | callbacks, rescan_observers, deliver_will_sleep, shutdown | CFRunLoop, unbounded channel | `Observers`, `Windows` |
| browser history `providers/browser_history.rs` | cursor, generation, shipped digests | poll_once, clone_history, collect | clone of a foreign database, receipts | `BrowserHistory` |
| Claude Code `providers/claude_code.rs`, `repo_roots.rs` | offset, inode and digest per transcript, time of the last pull | tick, ship_file, read_increment, pull_if_due | files other programs write, receipts | `Transcript`, `Agent`, `Sources` |
| helpers `window/visibility.rs`, `macos/window_list.rs`, `macos/activity.rs`, `runtime/redact.rs`, `runtime/dedup.rs` | none, or one previous value | visible area, frontmost, counter deltas, redaction, keys | called while sampling and enqueueing | `Sample`, `Windows`, `BrowserHistory`, `Transcript` |
| extractors `extract/`, `macos/processes.rs` | none | run_with_deadline, parsers | subprocesses | `Sample` |
| service `service.rs`, configuration `config.rs` | files, the launchd agent | install, uninstall, load, validate | launchctl | `Agent`, `Config`, `Sources` |

What makes each correct: the buffer keeps its caps, its order, the identity of its
rows and an account of every `seq`; the shipper deletes a record only when the
service has answered for it, never blocks on one record and serves urgent requests;
the daemon may stop anywhere without losing a committed record and does not outlive a
binary it could locate; a provider's cursor moves with the records it stands for; the sleep path
deals with its marker before it lets the machine go; a sample names the right
application and shows nothing that a rule drops. `PROJECT.json` lists the hazards
behind these, each at its line.

## Modules

`Buffer` models the database and its owner thread. An action is one command, which
is one transaction; a command that fails rolls back and is a stuttering step. A table
is a function from row ids to rows, and a new row gets the greatest id plus one, as
SQLite does for an `INTEGER PRIMARY KEY` without `AUTOINCREMENT`: ids start over when
the table empties. An envelope is its `seq` and its size. `batch` is what the shipper
holds between take_batch and the command that settles it. `acked`, `parked` and
`dropped` are history variables that record what became of a `seq`; `dropped` maps an
evicted `seq` to that of the marker that reports it. SQL's sum of the bytes is the
number of pairs of a row and a byte of it, which the provers can reason about.

`Shipper` extends `Buffer` with the shipper, the writer and the daemon. A step ends
where the code awaits: take_batch, the POST, and the answer with the buffer command
it leads to. `decide` is a function of the status and of the number of records the
body accounts for. `After` is what the caller of `ship_once` does with its result:
`run`, `drain` or `main`. `urgent` counts the requests in the channel; `awaited` says
that the writer waits for the last one it sent, which may be the one being served.
Stopping drops the shipper's future (its batch and the request it serves), lets the
writer finish, posts one final batch and closes; a crash may happen at any point and
keeps only the database. The check of `shutdown` inside `run` is left out: main sends
that signal only after it has dropped `run`. The service is external: it takes in any
posted record at any time, also after the shipper has given up on the answer, and may
claim a whole batch only if it holds all of it (stored, recognised as a duplicate, or
refused for good, which the code treats alike). Every other answer, and no answer, is
always possible.

`Outbox` is the abstract specification: a record is owed until the service answered
for it, it is parked, or it is lost and the same commit adds a report. `Shipper`
implements it with `fate` computed from the tables and history variables.

`BrowserHistory` has the browser as an external writer that appends, rewrites and
deletes visits, begins a new file or renames the profile between any two steps of the
provider. A poll is four steps: clone (perhaps torn), open and collect, send, receive.
`collect` is translated as a pure operator, page by page. A visit is its id, the file
it was born in and what the digest covers; the digest maps a missing title to an empty
one, as the code does. The join of visits and urls is not trusted to be total: a visit
without its url row is not read but counts for the highest id. A stored cursor may fail
to decode (`Garble`), and then the provider starts afresh.

`Transcript` reads one transcript, local (known by its inode) or imported (known by
its first line). The file is a sequence of bytes that a session appends in portions,
that a pull copies anew, that is cut or replaced; an open file keeps its old bytes. Each
write may change the mtime, which the provider takes anew at each read.
The loop of read_increment is one action per iteration, with its three budgets and its
line cap; what a line becomes (messages and their kinds, titles, touched repositories,
their keys and instants) is a set of pure operators, and the reference the reads are
compared with (`Expected`, `Covered`) applies them to all lines at once, with some mtime
the file has had. Drafts are sets: the order
of the records of one emission is not observed.

`Windows` composes the event thread's callbacks, the window provider's select loop, the
emission channel and the writer in discrete time. Deadlines are kept as the time left
to them, and time passes only when nothing is ready to run; assembling a sample and
shipping take any time. The nested waits of the sleep path (callback, receipt,
shipment, one budget each) are all there, and so is the wrapping input counter.

`Sample` is one run of `assemble`: window list, displays, application in front, focused
window, details, titles of the others, and the redactor. The scene may change and
applications may quit between any two reads. A process may run before any lookup knows
it (`Late`, `Register`), so an activation may carry no bundle id and the second lookup of
`assemble` may answer where the first did not. Rectangles are integer, the fifth is
exact. A window list is a function from the positions that are left of the list to its
windows, so that what is filtered keeps its order. A title is the window it belongs to,
a command the process it was read from, so that a record says where each of its parts
comes from. The loop of `best_display` is a recursive function on the displays.

`Observers` is the registry of accessibility observers. `perform_source` is split where
other threads and processes can interfere: taking the flag, reading the windows,
planning, attaching each pid. Pids may be reused at any moment; a registry entry
remembers which process at the pid it was decided about.

`Agent` is the daemon under launchd: install and uninstall call by call (a bootout may
fail unnoticed, as `unload` ignores its exit status), the agent of brew services, logins,
swaps of the binary at any moment, exec, the later look at the file that begins the
watch (or finds no file to watch), stop, supervision with its backoff, and the schedule
of pulls, the one piece of provider state that must outlive all of that.

`Config` is what the configuration must be to be accepted. `Sources` extends it with
what the sources of transcripts do under an accepted file: each root and each import
keeps a cursor row per file, each pull one for its schedule, all in one table, and the
records carry a device and a profile. Keys are texts there, so that two different ones
can be spelled alike.

The `MC` modules supply constants to TLC. The theorems about `M` are in `MProofs`, for
`Buffer`, `Shipper`, `Observers`, `Agent`, `Windows`, `BrowserHistory`,
`Transcript` and `Sample`. Definitions whose comment begins with "Mutant of" are deliberate bugs, used
to show that the properties can fail; nothing refers to them.

## Runs

| Run | Checks | Result |
|---|---|---|
| `buffer` | types, both caps, order, batch identity, accounting, settled records stay settled | holds, 90 346 states |
| `buffer_smallest` | `NoSilentLoss` with `MaxRows = 1` | violated, see Findings |
| `buffer_overflow` | `EveryLossAnnounced` | violated, see Findings |
| `shipper` | types, `NoOvertaking`, `RequestHonoured`, refinement of the buffer and of `Outbox`, `EveryRecordLeaves`, `RequestTakenUp` | holds, 154 157 states |
| `browser` | no visit skipped, revisions recorded and only those, no clone left behind | holds, 196 369 states |
| `browser_keys` | `KeyNamesOneVisit` | violated, see Findings |
| `transcript` | `ReadSoFar`, `OffsetAtLine`, `CaughtUp` | holds, 180 189 states |
| `windows` | `BurstTold`, `WithinCeiling`, `InputConserved`, `LetGoWhenSettled`, `Handled`, types with the channel's capacity | holds, 1 012 683 states |
| `observers` | `RegistryFollows`, `NoStaleEntry`, `RequestScanned`, types | holds, 1 297 548 states |
| `agent` | `OncePerPeriod`, `BrewStaysGone`, `UpgradeTaken` | holds, 762 894 states |
| `sources` | `SourcesApart` | holds, 1 277 states |
| `sample` | `TitlesDropped`, `NoLockScreen`, `VisibleAsSeen`, `PaneOnScreen` | holds, 726 432 states |

What the provider runs show:

- `browser`: whatever the browser does to its file, whichever clone is torn, commit
  refused or daemon killed, the stored cursor never passes a visit that was not
  recorded; a commit repeats a key only with a new digest; a title given inside the
  revisit window is recorded eventually.
- `transcript`: everything before the stored offset has been recorded,
  although reads stop at budgets, half lines, errors and restarts. A title has its own
  instant, that of the last message before it or, before any message, an mtime the file
  has had; which one depends on the read. The offset is inside a line only while an
  oversized line is skipped; and the reader gets past every complete line.
- `windows`: a burst becomes one record with the time and the application of its last
  activation; it waits no longer than the ceiling; deltas add up across wraps, ticks
  without a sample and restarts; the will-sleep callback returns early only when the
  marker was buffered or refused or the daemon stops; and nobody waits for ever.
- `observers`: after a rescan the registry speaks of exactly the applications listed; an
  entry outlives its process only until a rescan finds the pid without a window; a
  request made during a rescan leads to another one. That the successor at a pid is
  always tried does not hold (`SuccessorTried`, see Findings).
- `agent`: no pull begins before its period has passed since the last attempt that was
  stored, across crashes, upgrades and a clock that is set back (an attempt whose store
  was lost is made again); after a successful install the agent of brew services does not
  come back once launchd has let go of it, at the latest at the next login; a daemon that
  found the binary it was executed from stops when that is swapped or removed. Neither
  that the two daemons never run at once (`NeverBoth`) nor that every swap is noticed
  (`UpgradeNeedsNothing`) holds, see Findings.
- `sources`: under an accepted file no cursor row belongs to two sources or two files,
  and a device and a profile name one source.
- `sample`: a tab or a command of an application whose titles are dropped is never shown,
  its title only if no lookup ever told which application it is, and a title of a listed
  window only if the lookup for its entry answered nothing; urls keep their path only by a
  rule; a record whose application was chosen by its bundle id is not about the lock
  screen; windows and displays are those a count of cells gives; and a command belongs to
  the only foreground process of the pane in view, by the tree and the table as they were
  read. The two stronger claims of the repository's README do not hold (`NeverLockScreen`,
  `FocusedTitleDropped`, see Findings).

Bounds. `MaxRows = 3` with five bytes lets either cap trip first, lets an emission of
two overflow on its own, and leaves a row besides the marker. `SeqBound` ends
capturing after two overflows; `MaxDrafts` is the size of an emission. In `shipper`, two
rows and batches of two still overflow, shrink to the floor of one and retry, two queued
requests fill the channel, and `Lives = 1` allows one stop or crash at every point,
followed by a relaunch; its safety properties are proved for all bounds. `browser` has two ids, a window and a page of one, so that a row leaves the
window and a full page is followed by another, with one edit and one death at any
point. `transcript` has three bytes and lines of one, two and three against budgets and a
cap of two, so that a line is split by a budget, exceeds the cap, or is half there; one
change of the file and one fault fall anywhere, and of its two mtimes one is older than
`since`. What follows an oversized line is left to the proof, which covers all lengths.
`windows` has three events, enough for a
debounce to be renewed past the ceiling, a counter of four values that starts just below
its wrap, and a channel of one, so that the provider blocks on it. `observers` has two
applications, a pid that is none, and two processes per pid. `agent` has three binaries,
which allow a swap during a restart, a backoff with one step below its ceiling, and a
period of two with a clock that may fall one behind. `sources` has all files that differ
from a good one in two fields, at and around every limit, with up to three roots and
imports, one device spelled like another followed by the start of a path. `sample` has
two scenes (two displays with ties and an exact fifth; the lock screen in front, with a
window of no area), a lock screen whose process may be known late, five terminal trees,
three process tables and two rule sets.

Fairness. Tasks that can go on do (tokio polls them), a POST ends because the client
has a 30 s timeout, pauses and budgets end because they are timers, the run loop is
pumped, and launchd relaunches the daemon (KeepAlive). Branches of a `select!` that are
ready again and again are strongly fair (`TakeRequest`, and `Receive` and `Fire` of
`Windows`), because it picks among the ready branches at random. `EveryRecordLeaves` has
a premise, `ServiceRecovers`: asked again and again, the service eventually gives an
answer other than "try again"; it need not be a 200. `RequestTakenUp` assumes nothing of
the service. `BrowserHistory` assumes an environment in which not every clone is torn,
not every poll skipped and not every commit refused, and a profile renamed away is
renamed back. Faults, crashes and edits are bounded, as no progress is possible under
endless ones.

Assumptions on the environment. `Transcript`: repositories do not come and go while it
runs. `Windows`: code that waits for nothing takes no time.

## Findings

*Row ids are reused under a batch in flight* (`buffer_smallest`). If an enqueue evicts
every row while a batch is out, the overflow marker gets an id of that batch, and
`delete_batch` or `dead_letter` removes the marker unsent. This needs `max_rows = 1`,
which the configuration accepts, or a record larger than `max_bytes - 512`. With room
for one more row it cannot happen: that is `Roomy`, and it is proved.

*Markers are evicted like any row* (`buffer_overflow`). In a long outage each new
record evicts two rows and adds a marker; the first marker is evicted in turn, and
the next one counts it as one dropped row, so the losses it reported vanish from the
timeline although the README says they appear in it.

*A replaced history database may go unnoticed* (`browser_keys`). The generation advances
only if the highest id is below the cursor at the moment of a poll. A database that was
deleted and has grown back to the cursor between two polls keeps the generation, and
its visits get the keys of old ones, which the README (870) and a test say the
generation prevents.

Five more claims of the README do not hold of the model, and for the reason given not of
the code. They have no run of their own: each is a definition next to the property that
does hold, and TLC refutes it when it takes the place of the properties in `MCObservers.cfg`,
`MCAgent.cfg` (with `UpgradeNeedsNothing` as a PROPERTY) or `MCSample.cfg`.

*A successor inherits a refusal* (`SuccessorTried`). `observer_plan` compares pids alone.
A process that exits while its observer is created is remembered as refusing; another
that takes the pid and shows a window before the next rescan is never tried, although the
README (972) says that it is. It takes a pid reused within one tick.

*A swap before the first look goes unnoticed* (`UpgradeNeedsNothing`). The identity to watch is
read from the path some time after the exec. A bundle swapped in between leaves the old
version running and watching the new file, although "an upgrade needs nothing further"
(README 82).

*Two daemons may run after an install* (`NeverBoth`). `install` boots brew's agent out
without looking at the exit status and waits only for its own label to go, so the old
daemon may still stop, or run on, beside the new one (README 79).

*The lock screen may be named* (`NeverLockScreen`). An activation or a focus whose process no
lookup knows has no bundle id and is not recognised as the lock screen; `assemble` asks
once more, and a late answer puts `com.apple.loginwindow` on the record, which the README
(693) says counts as no answer.

*A dropped title may stay on a listed window* (`FocusedTitleDropped`). The entry of the focused
window looks its bundle id up again after the extractor was awaited. If the application
quit meanwhile the entry has none, and keeps the title that the rule took from the record
itself (README 291).

## Proofs

`BufferProofs` proves, for every value of the constants that satisfies the
assumptions of `Buffer`:

- `TypeCorrect`, `CaptureOrderHolds`, `SettledHolds`, from the inductive invariant
  `OrderInv`: the seqs of `pending` follow its ids and lie in `1..seq`, and a record
  of the batch that is still pending has the id it was taken with. Without the last
  part, deleting by id could leave a settled record behind.
- `CapsHoldAlways`, `DeadCapsHoldAlways`, from `CapsInv`. The argument: the survivors
  of an eviction are the rows from some row on, that row bounds them all
  (`SurvivorsFit`), and the marker costs one row and at most `Headroom` bytes
  (`WithMarkerCosts`). Cardinality facts come from FiniteSetTheorems.
- `BatchIntactHolds`, `NoSilentLossHolds`, for a `Roomy` buffer, from `LossInv`: while
  a batch is out, `pending` has a row at or above each id of it, so none of its ids is
  handed out again. `LastSurvives` is where roominess is used; the violated run shows
  that it is needed.

`ShipperProofs`, about writer, shipper, service and daemon together:

- `DaemonImplementsBuffer` (`RunSpec => BufferSpec`): every step is a command of the
  buffer or leaves it alone. `BatchInv` says that the batch size stays in
  `MinBatch..MaxBatch` and that no batch is longer than `MaxBatch`, so that half of one is
  a limit again. `DaemonKeepsBuffer` and `DaemonLosesNothing` carry the theorems above
  over to the running system, crashes and restarts included.
- `RunTypesHold` and `RequestHonouredAlways`, from `WireTypeInv` and `ControlTypes`: what
  was posted was captured, what the service holds was posted, and control stays within its
  states and limits; the waiting writer is released only where `drain` or `run` ends.
- `NoOvertakingHolds`, for a roomy buffer, from `WireInv`: a batch is on the
  wire and its records are pending or evicted, and what is settled was posted. With the
  accounting of the buffer, and because a batch leaves out no row older than one it holds
  (`OldestIsClosed`), every record before a posted one was posted or evicted.
- `RuntimeKeepsPromise` (`Roomy /\ RunSpec => OutboxSpec`): the refinement of `Outbox`,
  one lemma per action. The step that needs the invariants is the answer: the service may
  only account for records it holds, and what is deleted by id is what was posted.

`ObserversProofs`: `TypesHold` and `RegistryFollowsAlways` from `PlanInv` (what is left to
attach is disjoint from the registry and together with it is what was listed),
`NoStaleEntryAlways` from `FreshInv` (an entry is about the process at its pid unless that
pid changed hands and no rescan has missed it since; pids may be reused at any moment), and
`RequestKeptAlways`, the safety half of `RequestScanned`: until the windows are read, the
flag is up with its signal sent or about to be, or the event thread has just taken it.

`AgentProofs`: `BrewStaysGoneAlways` from `BrewInv` (from remove_brew on, and for ever after
an install that succeeded, brew's plist is gone, so no login and no bootstrap can load it;
whether the bootout took effect is left open) and `ProcInv` (what a process may be);
`OncePerPeriodAlways` from `ScheduleInv`: the clock never shows more time since the stored
attempt than has passed.

`WindowsProofs`: `TypesHold`; `WithinCeilingAlways` from `CeilingInv` (time waited plus
room left never exceeds the ceiling, and the deadline lies in that room);
`BurstToldAlways` from `BurstInv`, for bursts of any length (only activations carry an
application, which is why the last record and the one before tell enough);
`InputConservedAlways` from `InputInv` and the lemma that the difference of two readings
modulo the width is what was typed between them; `LetGoWhenSettledAlways` from `SleepInv`:
the provider's budget for a marker starts after the callback's, so it cannot run out first.

`BrowserHistoryProofs`: `PagesReadAll` (the loop of `collect` over pages returns the rows
above its start, for every page limit); `TypesHold`, `NoVisitSkippedAlways`,
`OnlyRevisionsAlways` and `CloneOnlyInPollAlways`. `HistoryInv` follows an emission through
its life: the state in memory is the stored one but for a receipt not yet looked at
(`SyncInv`), an open clone agrees with what is left of the table (`CloneInv`), an emission
that may still be committed brings all that its cursor passes (`OfferInv`), and each
generation has been paid for by an edit (`Paid`), which bounds them. `KeyInv` adds that the
digests kept cover what may be read again. As in the run, `NoVisitSkipped` speaks of the
first history file; a replaced one is the subject of the finding.

`TranscriptProofs`: `ReadSoFarAlways` and `OffsetAtLineAlways`, for all lines, budgets and
caps, from `ReadInv`. Neither property is inductive, because the offset travels: it is read
from the buffer or from `known`, becomes the start of a read, advances line by line over an
open file that may no longer be the one at the path, and comes back through an emission
that may be committed, refused or lost. `Good` is what every cursor on that way must be. If
it belongs to the file at the path (`Mine`), it is at a position that a read in one go
would pass through, with the instant of the last message before it (`Sound`), and what
lies before it is recorded or, for the increment, among its drafts. `FileInv` says how
bytes lie in lines, `MtimeInv` that the mtime a read works with is one the file has had, `HeldInv` that an open file which still counts is a prefix of the one at
the path. The lines of a longer prefix are those of a shorter one and what was read since;
that, not an induction over the file, is how one more line read extends `Expected` by the
drafts of that line.

`SampleProofs`: `NoLockScreenAlways` and `TitlesDroppedAlways` from `AppInv` (the
application of a sample is not one known as the lock screen, and a bundle id looked up
later is its own), `PaneOnScreenAlways` from `DetailsInv` (the details stem from one tree
and one process table, or from the tab, by the extractor that the bundle id chose),
and `VisibleAsSeenAlways` from `ScreenInv` (the display of a sample is that of its
foremost listed window, by the windows and displays it was assembled from). The geometry
is proved apart from the steps: areas count cells (`AreaCounts`, `IntersectionCounts`), the
loop of `best_display` finds the best display (`BestDisplayIsBest`, by the least number of
displays at which it would not), and so a window is listed where its cells are seen
(`VisibleByCells`). They hold for all scenes, rule sets, trees and tables.

The parts of each inductive invariant were model-checked as well as proved.

Assumptions. The constants satisfy what the configuration is refused without
(`CapsAssumption`), what the constants of the code satisfy (`Debounce <= Ceiling`: 300 ms
and 1 s; backoff start and ceiling; `MinBatch`), what a unit test pins (a marker fits the headroom, `SizesAssumption`; the test
uses a short device name, and `config.rs` does not bound the length of one). `HistoryAssumption` lets a profile have another name
besides the one looked up, `SampleAssumption` gives the shapes of scenes, trees and
process tables (bounds in whole units), `TranscriptAssumption` has lines of at least one
byte, positive budgets and caps and nothing else, and `NoStateAssumption` and the like keep placeholders apart from values.
`WindowsAssumption` has fewer inputs in all than the counter has values: it wraps at most
once, as between two ticks in reality. Bounds such as `SeqBound`, `Edits`, `Posts`, `Lives`
and `Faults` are arbitrary naturals, so the theorems cover behaviours of any length.
`Roomy` is a hypothesis, not an assumption: the run `buffer_smallest` shows the need.

Every invariant and every safety property over steps that a passing run checks is stated
by a theorem, but for `SourcesApart`. Only model-checked:

- liveness, out of the prover's reach: `EveryRecordLeaves`, `RequestTakenUp`,
  `RevisionRecorded`, `CaughtUp`, `Handled`, `RequestScanned`, `UpgradeTaken`;
- `SourcesApart`: that no two keys are spelled alike needs the spelling of numbers, and so
  an induction over texts;
- the violated properties, of course.

## Not modelled, and limits

Durations outside `Windows`, wording, logging and JSON are abstracted. A power failure
is taken to keep committed transactions, as SQLite's default synchronous mode promises.
Dedup keys are compared by their fields: the hash is taken to be injective.

- Foreign interfaces: creating and releasing CoreFoundation objects, reading
  CFDictionaries, `parse_procargs`, reads of idle time, microphone and screen state
  (copied into a record, no decision depends on them).
- `providers/scripted.rs`, a test double. (The event script of `events.rs` is modelled.)
- The cache of `repo_roots.rs`, the walk over transcript directories, the splitting of a
  shell command into words, and `extract/document.rs`.
- A local transcript that is cut in place and regrows past the stored offset: the inode
  is the same, so the code cannot tell; the properties except a cut file.
- A window whose owner no lookup knows has no bundle id in the record, so a title rule
  cannot apply to it; `TitlesDropped` excepts it. The focused one is the subject of
  `FocusedTitleDropped`.
- `PaneOnScreen` is about the tree and the process table as they were read, one after the
  other: a pane that changes between the two reads is reported with the process found.
- A crash or a failed commit between the end of a pull and its store makes the next daemon
  run the command again; the code means that (`OncePerPeriod` counts stored attempts).
- Errors of discarding the browser's clone, and the text of the scripts that the
  extractors inject.
- How long a pull waits after the clock was set back, and that the restart pause of
  `supervise` is never reset: the code means both, so no property is stated.

## What is left

1. The walk over the transcript directories and the cache of `repo_roots.rs`, which keeps
   the answer for a directory without a repository after one was created there.
2. The splitting of a shell command into words, on which the touched repositories of a
   Bash tool call depend.
3. Liveness: a proof needs the temporal rules for fairness, which the prover does not
   support; the invariants proved above are the premises such proofs would start from.
