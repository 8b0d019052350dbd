------------------------------- MODULE Sample -------------------------------
(***************************************************************************)
(* Assembling one sample: the window list, the displays, the application   *)
(* in front, its focused window, what an extractor says of it and the      *)
(* other visible windows are read one after the other from a screen that   *)
(* changes in between, and the record is redacted when it is stored.       *)
(*                                                                         *)
(* A title is the window it belongs to, a command the process it was read  *)
(* from, so that a record shows where each of its parts comes from.  A     *)
(* list of windows is a function on positions, front to back; a part of    *)
(* the list keeps the positions it has there.                              *)
(***************************************************************************)
EXTENDS Integers, Sequences, FiniteSets, SequencesExt

CONSTANTS
  None,       \* absent
  Apps,       \* processes that own windows
  BundleOf,   \* app -> bundle id; None where it has none
  Late,       \* those that may run before a lookup knows them
  LockScreen, \* LOCK_SCREEN_BUNDLE_ID
  Dia,        \* DIA_BUNDLE_ID
  Agterm,     \* AGTERM_BUNDLE_ID
  Scenes,     \* what may be on screen
  Trees,      \* what agtermctl may answer
  Tables,     \* process tables
  Tabs,       \* what the script about the browser's tab may answer
  RuleSets    \* redaction rules

IsRect(r) == r.x \in Int /\ r.y \in Int /\ r.width \in Int /\ r.height \in Int

(* Only the shape of what is read: an application, a tree with its zoomed  *)
(* surface, a process and a url are records, windows and displays have     *)
(* bounds in whole units, and a session has a name.                        *)
ASSUME SampleAssumption ==
  /\ None \notin {LockScreen, Dia, Agterm}
  /\ None \notin Nat
  /\ Late \subseteq Apps
  /\ \A p \in Apps : [pid |-> p, bundle |-> BundleOf[p]] # None
  /\ \A s \in Scenes :
       /\ DOMAIN s.windows \subseteq Nat
       /\ \A i \in DOMAIN s.windows : IsRect(s.windows[i].bounds)
       /\ Len(s.displays) \in Nat
       /\ \A i \in 1 .. Len(s.displays) : IsRect(s.displays[i])
  /\ \A t \in Trees :
       /\ t.session # None
       /\ t.zoomed = None
            \/ t.zoomed = [session |-> t.zoomed.session, kind |-> t.zoomed.kind]
  /\ \A ps \in Tables :
       /\ IsFiniteSet(ps)
       /\ \A p \in ps : p = [pid |-> p.pid, pgid |-> p.pgid, tpgid |-> p.tpgid,
                            tty |-> p.tty, enabled |-> p.enabled,
                            session |-> p.session, pane |-> p.pane,
                            argv |-> p.argv, cwd |-> p.cwd]
  /\ \A tab \in Tabs : tab.url = None
       \/ tab.url = [parses |-> tab.url.parses, host |-> tab.url.host,
                     shown |-> tab.url.shown]
  /\ \A rs \in RuleSets : Len(rs) \in Nat

VARIABLES
  scene,     \* windows, displays and the focused application now
  alive,     \* processes that run now
  unknown,   \* those of them NSRunningApplication does not know yet
  trusted,   \* accessibility is granted
  rules,     \* the rules of the configuration
  pc,        \* where assemble stands
  activated, \* the application the sample is about, or None
  windows,   \* the window list as read
  displays,  \* the displays as read
  app,       \* the application in front as read
  bundle_id, \* its bundle id, looked up once more where app has none
  focused,   \* its focused window as read
  display,   \* the display it is on
  details,   \* what the extractor found
  tree,      \* the terminal's answer as read
  table,     \* the processes as read
  record,    \* the last record stored
  origin     \* ghost: what that record was made from, and who was known

world == <<scene, alive, unknown, trusted, rules>>
locals ==
  <<activated, windows, displays, app, bundle_id, focused, display, details, tree, table>>
result == <<record, origin>>
vars == <<world, pc, locals, result>>
-----------------------------------------------------------------------------
(* Geometry: window/visibility.rs and Rect. *)

Largest(m, n) == IF m > n THEN m ELSE n
Smallest(m, n) == IF m < n THEN m ELSE n

Area(r) == Largest(r.width, 0) * Largest(r.height, 0)

IntersectionArea(r, s) ==
  LET width == Smallest(r.x + r.width, s.x + s.width) - Largest(r.x, s.x)
      height == Smallest(r.y + r.height, s.y + s.height) - Largest(r.y, s.y)
  IN IF width <= 0 \/ height <= 0 THEN 0 ELSE width * height

(* VISIBLE_AREA_FRACTION is a fifth. *)
ShowsEnough(bounds, screen) ==
  5 * IntersectionArea(bounds, screen) >= Area(bounds)

(* Mutant of Better: a display further down the list wins a tie. *)
BetterOrEqual(bounds, ds, i, best) ==
  IntersectionArea(bounds, ds[i]) >= IntersectionArea(bounds, ds[best])

(* The displays are looked at in order of their index. *)
Better(bounds, ds, i, best) ==
  IntersectionArea(bounds, ds[i]) > IntersectionArea(bounds, ds[best])

BestDisplay(bounds, ds) ==
  LET best[n \in 0 .. Len(ds)] ==
        IF n = 0 THEN None
        ELSE IF /\ ShowsEnough(bounds, ds[n])
                /\ best[n - 1] = None \/ Better(bounds, ds, n, best[n - 1])
             THEN n ELSE best[n - 1]
  IN IF Area(bounds) <= 0 THEN None ELSE best[Len(ds)]

IsVisible(w, ds) == w.layer = 0 /\ BestDisplay(w.bounds, ds) # None

VisibleWindows(ws, ds) == {i \in DOMAIN ws : IsVisible(ws[i], ds)}

(* display_index_at the cursor, or the first display. *)
CursorDisplay(ds) ==
  LET under == {i \in 1 .. Len(ds) :
                  /\ scene.cursor[1] \in ds[i].x .. ds[i].x + ds[i].width - 1
                  /\ scene.cursor[2] \in ds[i].y .. ds[i].y + ds[i].height - 1}
  IN IF under = {} THEN 1 ELSE CHOOSE i \in under : \A j \in under : i <= j
-----------------------------------------------------------------------------
(* Reading the machine: window_list.rs and ax.rs. *)

WindowList ==
  Restrict(scene.windows,
           {i \in DOMAIN scene.windows : scene.windows[i].pid \in alive})

(* NSRunningApplication, while the process runs and is known to it. *)
ApplicationFor(pid) ==
  IF pid \in alive \ unknown THEN [pid |-> pid, bundle |-> BundleOf[pid]] ELSE None

BundleIdFor(pid) == IF pid \in alive \ unknown THEN BundleOf[pid] ELSE None

IsLockScreen(a) == a.bundle = LockScreen

Ordinary(pid) ==
  {i \in DOMAIN WindowList :
     WindowList[i].layer = 0 /\ WindowList[i].pid = pid}

(* focused_application: nobody, when accessibility does not answer. *)
FocusedApplications == {None} \cup (IF trusted THEN {scene.focus} ELSE {})

(* focused_of: what accessibility says is in front. *)
FocusedOf(pid) ==
  IF pid = None THEN None
  ELSE IF ApplicationFor(pid) = None
       THEN (IF Ordinary(pid) = {} THEN None
             ELSE [pid |-> pid, bundle |-> None])
  ELSE IF IsLockScreen(ApplicationFor(pid)) THEN None
  ELSE ApplicationFor(pid)

(* The ordinary windows whose owners are applications: is_application. *)
Candidates ==
  {i \in DOMAIN WindowList :
     LET owner == ApplicationFor(WindowList[i].pid)
     IN /\ WindowList[i].layer = 0 /\ owner # None
        /\ owner.bundle # None /\ ~ IsLockScreen(owner)}

FrontmostApplication(pid) ==
  IF FocusedOf(pid) # None THEN FocusedOf(pid)
  ELSE IF Candidates # {} THEN ApplicationFor(WindowList[Min(Candidates)].pid)
  ELSE None

(* The windows an application shows to accessibility. *)
AxWindows(pid) ==
  {scene.windows[i].number : i \in {j \in 1 .. Len(scene.windows) :
                                      scene.windows[j].pid = pid}}

(* FocusedWindow: a title is the number of its window; an application that *)
(* does not answer in time has none.                                       *)
FocusedWindows(pid) ==
  IF ~ trusted THEN {"unavailable"}
  ELSE {"absent"} \cup (IF pid \in alive /\ AxWindows(pid) # {}
                        THEN {"untitled"} \cup AxWindows(pid) ELSE {})

(* WindowTitle of an application with a single window. *)
WindowTitle(pid, silent) ==
  IF trusted /\ pid \in alive \ silent /\ Cardinality(AxWindows(pid)) = 1
  THEN CHOOSE n \in AxWindows(pid) : TRUE ELSE None
-----------------------------------------------------------------------------
(* The terminal: extract/agterm.rs and processes.rs. *)

IsForeground(p) == p.tty /\ p.pgid = p.tpgid
LeadsItsGroup(p) == p.pid = p.pgid

(* agterm_panes and pane_of: a pane without a name is the left one. *)
Panes(processes) ==
  {[p EXCEPT !.pane = IF @ = None THEN "left" ELSE @] :
     p \in {q \in processes : /\ IsForeground(q) /\ LeadsItsGroup(q)
                              /\ q.enabled /\ q.session # None}}

(* surface_on_screen: the quick terminal covers the dashboard, which covers *)
(* a zoomed surface; one of another session says nothing.                  *)
SurfaceOnScreen(t) ==
  IF t.quick THEN "quick"
  ELSE IF t.dashboard THEN "dashboard"
  ELSE IF t.zoomed = None
       THEN (IF \E s \in t.surfaces : s.active /\ s.visible
             THEN (CHOOSE s \in t.surfaces : s.active /\ s.visible).kind
             ELSE None)
  ELSE IF t.zoomed.kind = "quick" THEN "quick"
  ELSE IF t.zoomed.session = t.session THEN t.zoomed.kind
  ELSE None

(* Mutant of PaneOn: the first process that fits is taken. *)
FirstPaneOn(panes, session, surface) ==
  LET fits == {p \in panes : p.session = session /\ p.pane = surface}
  IN IF fits = {} THEN None ELSE CHOOSE p \in fits : TRUE

(* pane_on: the process of the pane, unless two of them could be it. *)
PaneOn(panes, session, surface) ==
  LET fits == {p \in panes : p.session = session /\ p.pane = surface}
  IN IF Cardinality(fits) # 1 THEN None ELSE CHOOSE p \in fits : TRUE

NoDetails == [tab |-> None, url |-> None, surface |-> None,
              command |-> None, cwd |-> None]

(* compose: only the left pane falls back on the session's directory. *)
Compose(t, panes) ==
  LET surface == SurfaceOnScreen(t)
      pane == IF surface = None THEN None
              ELSE PaneOn(panes, t.session, surface)
  IN [NoDetails EXCEPT
        !.surface = surface,
        !.command = IF pane # None /\ pane.argv THEN pane ELSE None,
        !.cwd = IF pane # None /\ pane.cwd THEN pane
                ELSE IF surface = "left" /\ t.cwd THEN "session" ELSE None]

(* parse_tree: no active workspace or session, nothing to say. *)
ParseTree(t, panes) == IF t = None THEN NoDetails ELSE Compose(t, panes)

(* parse_tab: an answer in four fields, with a url. *)
ParseTab(tab) ==
  IF tab = None \/ tab.fields # 4 \/ tab.url = None THEN NoDetails
  ELSE [NoDetails EXCEPT !.url = tab.url, !.tab = tab.title]
-----------------------------------------------------------------------------
(* The redactor: runtime/redact.rs. *)

(* The last rule for a host wins; without one the wildcard's decides. *)
Keep(host) ==
  LET about(h) == {i \in 1 .. Len(rules) : rules[i].host = h}
      last(S) == LET keep == rules[CHOOSE i \in S : \A j \in S : j <= i].keep
                 IN IF keep = None THEN "host" ELSE keep
  IN IF about(host) # {} THEN last(about(host))
     ELSE IF about("*") # {} THEN last(about("*"))
     ELSE "host"

Titleless == {rules[i].bundle : i \in {j \in 1 .. Len(rules) :
                                         rules[j].drop}} \ {None}

(* reduce: a url keeps its path only where a rule says so. *)
Reduce(url) ==
  IF url = None THEN None
  ELSE IF ~ url.parses THEN [url EXCEPT !.shown = "nothing"]
  ELSE IF url.host = None THEN [url EXCEPT !.shown = "scheme"]
  ELSE [url EXCEPT !.shown = Keep(url.host)]

DropsTitle(bundle) == bundle \in Titleless

(* Mutant of RedactEntry: the titles of other windows are left alone. *)
EntryAsRead(entry) == entry

RedactEntry(entry) ==
  IF DropsTitle(entry.bundle) THEN [entry EXCEPT !.title = None] ELSE entry

RedactDetails(bundle, d) ==
  [d EXCEPT !.url = Reduce(@),
            !.tab = IF DropsTitle(bundle) THEN None ELSE @,
            !.command = IF DropsTitle(bundle) THEN None ELSE @]

Redacted(r) ==
  [r EXCEPT !.title = IF DropsTitle(r.bundle) THEN None ELSE @,
            !.details = RedactDetails(r.bundle, @),
            !.visible = [i \in DOMAIN @ |-> RedactEntry(@[i])]]
-----------------------------------------------------------------------------
NoRecord == [pid |-> None, bundle |-> None, title |-> None,
             details |-> NoDetails, display |-> 0, degraded |-> FALSE,
             visible |-> <<>>]

Init ==
  /\ scene \in Scenes /\ alive = Apps /\ unknown \in SUBSET Late
  /\ trusted \in BOOLEAN
  /\ rules \in RuleSets
  /\ pc = "idle"
  /\ activated = None /\ windows = <<>> /\ displays = <<>>
  /\ app = None /\ bundle_id = None /\ focused = "absent" /\ display = 0
  /\ details = NoDetails /\ tree = None /\ table = {}
  /\ record = NoRecord /\ origin = None

(* The screen changes, and applications come to be known and quit. *)
Change ==
  /\ scene' \in Scenes
  /\ UNCHANGED <<alive, unknown, trusted, rules, pc, locals, result>>

Register(pid) ==
  /\ unknown' = unknown \ {pid}
  /\ UNCHANGED <<scene, alive, trusted, rules, pc, locals, result>>

Quit(pid) ==
  /\ BundleOf[pid] # LockScreen
  /\ alive' = alive \ {pid}
  /\ UNCHANGED <<scene, unknown, trusted, rules, pc, locals, result>>

(* assemble returns, with a sample or without one. *)
ResetLocals(reset) ==
  /\ reset
  /\ activated' = None /\ windows' = <<>> /\ displays' = <<>>
  /\ app' = None /\ bundle_id' = None /\ focused' = "absent" /\ display' = 0
  /\ details' = NoDetails /\ tree' = None /\ table' = {}

(* The applications an activation may carry: ax_event reports one that no  *)
(* lookup knew, or that had quit by then, without its bundle id.           *)
Activations ==
  {[pid |-> p, bundle |-> BundleOf[p]] : p \in Apps}
    \cup {[pid |-> p, bundle |-> None] : p \in Late \cup (Apps \ alive)}

(* The window list is read first; a sample may be about an activation. *)
Begin ==
  /\ pc = "idle"
  /\ activated' \in {None} \cup Activations
  /\ windows' = WindowList
  /\ record' = NoRecord /\ origin' = None
  /\ pc' = "displays"
  /\ UNCHANGED <<world, displays, app, bundle_id, focused, display, details,
                 tree, table>>

ReadDisplays ==
  /\ pc = "displays"
  /\ displays' = scene.displays
  /\ pc' = "choose"
  /\ UNCHANGED <<world, activated, windows, app, bundle_id, focused, display,
                 details, tree, table, result>>

(* Mutant of Chosen: whatever was activated is in front. *)
ChosenAsActivated(pid) ==
  IF activated # None THEN activated ELSE FrontmostApplication(pid)

(* The lock screen is activated, too, but is never what the user is at. *)
Chosen(pid) ==
  IF activated # None /\ ~ IsLockScreen(activated) THEN activated
  ELSE FrontmostApplication(pid)

Choose(pid) ==
  /\ pc = "choose"
  /\ pid \in FocusedApplications
  /\ \/ /\ Chosen(pid) # None
        /\ app' = Chosen(pid)
        /\ pc' = "focus"
        /\ UNCHANGED <<activated, windows, displays, bundle_id, focused, display,
                       details, tree, table>>
     \/ ResetLocals(Chosen(pid) = None) /\ pc' = "idle"
  /\ UNCHANGED <<world, result>>

DisplayFor ==
  LET own == {i \in VisibleWindows(windows, displays) : windows[i].pid = app.pid}
  IN IF own = {} THEN CursorDisplay(displays)
     ELSE BestDisplay(windows[Min(own)].bounds, displays)

(* A missing bundle id is looked up once more; then the focused window is  *)
(* asked for, and the cursor where no window shows the display.            *)
Focus ==
  /\ pc = "focus"
  /\ bundle_id' = IF app.bundle # None THEN app.bundle ELSE BundleIdFor(app.pid)
  /\ focused' \in FocusedWindows(app.pid)
  /\ display' = DisplayFor
  /\ pc' = "details"
  /\ UNCHANGED <<world, activated, windows, displays, app, details, tree, table,
                 result>>

(* details_for_focused: the browser's tab, or the terminal's tree; a       *)
(* command that fails or passes its deadline says nothing.                 *)
Extract ==
  /\ pc = "details"
  /\ \/ /\ bundle_id = Agterm
        /\ tree' \in Trees \cup {None}
        /\ pc' = "panes"
        /\ UNCHANGED details
     \/ /\ bundle_id # Agterm
        /\ IF bundle_id = Dia
           THEN \E tab \in Tabs \cup {None} : details' = ParseTab(tab)
           ELSE UNCHANGED details
        /\ pc' = "entries"
        /\ UNCHANGED tree
  /\ UNCHANGED <<world, activated, windows, displays, app, bundle_id, focused,
                 display, table, result>>

ReadPanes ==
  /\ pc = "panes"
  /\ table' \in Tables
  /\ details' = ParseTree(tree, Panes(table'))
  /\ pc' = "entries"
  /\ UNCHANGED <<world, activated, windows, displays, app, bundle_id, focused,
                 display, tree, result>>

Title ==
  IF focused \in {"absent", "unavailable", "untitled"} THEN None ELSE focused

FrontWindow ==
  LET own == {i \in DOMAIN windows : windows[i].layer = 0 /\ windows[i].pid = app.pid}
  IN IF own = {} THEN None ELSE windows[Min(own)].number

(* visible_entries: the focused window has the title read before, others   *)
(* are asked for theirs now.                                               *)
Entry(w, silent) ==
  [number |-> w.number, bundle |-> BundleIdFor(w.pid),
   display |-> BestDisplay(w.bounds, displays),
   title |-> IF w.pid = app.pid /\ w.number = FrontWindow THEN Title
             ELSE WindowTitle(w.pid, silent)]

VisibleEntries(silent) ==
  [i \in VisibleWindows(windows, displays) |-> Entry(windows[i], silent)]

Degraded ==
  \/ focused = "unavailable"
  \/ focused = "absent" /\ FrontWindow # None

(* The sample becomes a record, and is redacted on its way to the buffer. *)
Store(silent) ==
  /\ pc = "entries"
  /\ record' = Redacted([pid |-> app.pid, bundle |-> bundle_id,
                         title |-> Title, details |-> details,
                         display |-> display, degraded |-> Degraded,
                         visible |-> VisibleEntries(silent)])
  /\ origin' = [app |-> app, known |-> alive \ unknown, windows |-> windows,
                displays |-> displays, tree |-> tree, table |-> table]
  /\ ResetLocals(TRUE)
  /\ pc' = "idle"
  /\ UNCHANGED world

Next ==
  \/ Change \/ \E pid \in Apps : Quit(pid)
  \/ \E pid \in Late : Register(pid)
  \/ Begin \/ ReadDisplays
  \/ \E pid \in Apps \cup {None} : Choose(pid)
  \/ Focus \/ Extract \/ ReadPanes
  \/ \E silent \in SUBSET alive : Store(silent)

Spec == Init /\ [][Next]_vars
-----------------------------------------------------------------------------
(* Whatever quits or becomes known while a sample is taken, its record     *)
(* shows no tab and no command of an application whose titles are dropped, *)
(* its title only if no lookup ever told which application it is, a title  *)
(* of another window only if the owner's own lookup answered nothing, and  *)
(* no path of a url that no rule keeps in full.                            *)
TitlesDropped ==
  origin # None =>
    /\ (\/ record.details.tab # None \/ record.details.command # None
        \/ record.title # None /\ record.bundle # None)
         => BundleOf[record.pid] \notin Titleless
    /\ \A i \in DOMAIN record.visible :
         LET owner == origin.windows[i].pid
         IN record.visible[i].title # None /\ owner \in origin.known
            => BundleOf[owner] \notin Titleless
    /\ LET url == record.details.url
       IN url # None /\ url.shown = "full"
          => \E i \in 1 .. Len(rules) : /\ rules[i].keep = "full"
                                        /\ rules[i].host \in {url.host, "*"}

(* drop = ["title"] applies to the visible windows too: when the record's  *)
(* own application is one whose titles are dropped, none of its windows is *)
(* listed with a title.  The code looks the bundle id of the focused       *)
(* window up a second time after the extractor was awaited.                *)
FocusedTitleDropped ==
  origin # None /\ record.bundle \in Titleless =>
    \A i \in DOMAIN record.visible :
      origin.windows[i].pid = record.pid => record.visible[i].title = None

(* The lock screen is activated like an application and may hold the       *)
(* focus and the first window; no record is about it that knew the bundle  *)
(* id of the application it chose.                                         *)
NoLockScreen ==
  origin # None /\ origin.app.bundle # None => record.bundle # LockScreen

(* An answer of the lock screen counts as none, so that no record is about *)
(* it, however late a lookup comes to know its process.                    *)
NeverLockScreen == origin # None => record.bundle # LockScreen

Cells(r) == (r.x .. r.x + r.width - 1) \X (r.y .. r.y + r.height - 1)

(* By counting cells: the windows listed are the ordinary ones of which a  *)
(* fifth lies on one display, each on the display that shows most of it,   *)
(* the first of equals; and the record is on the display of its            *)
(* application's foremost listed window.                                   *)
VisibleAsSeen ==
  origin # None =>
    LET shown(w, i) == Cardinality(Cells(w.bounds) \cap Cells(origin.displays[i]))
        on(w) == {i \in 1 .. Len(origin.displays) :
                    /\ w.layer = 0 /\ shown(w, i) > 0
                    /\ 5 * shown(w, i) >= Cardinality(Cells(w.bounds))}
        listed == {i \in DOMAIN origin.windows : on(origin.windows[i]) # {}}
        own == {i \in listed : origin.windows[i].pid = record.pid}
    IN /\ DOMAIN record.visible = listed
       /\ \A i \in listed :
            LET w == origin.windows[i]
                d == record.visible[i].display
            IN /\ record.visible[i].number = w.number
               /\ d \in on(w)
               /\ \A j \in on(w) :
                    shown(w, d) > shown(w, j) \/ (shown(w, d) = shown(w, j) /\ d <= j)
       /\ own # {} => record.display = record.visible[Min(own)].display

(* A command is that of the one foreground process of the pane in sight:   *)
(* the surface the tree calls active and visible, unless one covers it -   *)
(* the quick terminal, the dashboard or a zoomed surface of the session.   *)
(* A job in the background says nothing, nor do two that could be it.      *)
PaneOnScreen ==
  origin # None /\ record.details.command # None =>
    LET p == record.details.command
        t == origin.tree
        leads(q) == /\ q.tty /\ q.enabled /\ q.session = t.session
                    /\ q.pid = q.pgid /\ q.pid = q.tpgid
                    /\ q.pane = p.pane \/ (q.pane = None /\ p.pane = "left")
        zoomed == /\ t.zoomed # None /\ t.zoomed.kind = p.pane
                  /\ p.pane = "quick" \/ t.zoomed.session = t.session
        active == \E s \in t.surfaces : s.active /\ s.visible /\ s.kind = p.pane
    IN /\ {q.pid : q \in {r \in origin.table : leads(r)}} = {p.pid}
       /\ t.quick => p.pane = "quick"
       /\ t.dashboard => p.pane \in {"quick", "dashboard"}
       /\ \/ t.quick \/ t.dashboard \/ zoomed
          \/ t.zoomed = None /\ active
=============================================================================
