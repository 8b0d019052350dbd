---------------------------- MODULE SampleProofs ----------------------------
(***************************************************************************)
(* Theorems about one sample of the screen, for all scenes, process        *)
(* tables, answers and redaction rules.                                    *)
(***************************************************************************)
EXTENDS Sample, FiniteSetTheorems, WellFoundedInduction, TLAPS

-----------------------------------------------------------------------------
(* The inductive invariant. *)

(* An application as read: a process by its bundle id, or without one. *)
IsApp(a) ==
  \E p \in Apps : \E b \in {None, BundleOf[p]} : a = [pid |-> p, bundle |-> b]

(* The application a sample is about does not go by the lock screen's      *)
(* bundle id; where it goes by none, the one looked up later is its own.   *)
AppInv ==
  /\ scene \in Scenes /\ rules \in RuleSets /\ alive \subseteq Apps
  /\ activated = None \/ IsApp(activated)
  /\ pc \in {"focus", "details", "panes", "entries"} =>
       IsApp(app) /\ app.bundle # LockScreen
  /\ pc \in {"details", "panes", "entries"} =>
       /\ bundle_id \in {None, BundleOf[app.pid]}
       /\ app.bundle # None => bundle_id = app.bundle

(* The details are those of one answer: a tab, or a tree and a table; and  *)
(* an extractor was chosen by a bundle id.                                 *)
DetailsInv ==
  /\ pc # "entries" => details = NoDetails
  /\ pc = "panes" => tree \in Trees \cup {None} /\ bundle_id # None
  /\ bundle_id = None => details = NoDetails
  /\ pc = "entries" =>
       \/ details = NoDetails
       \/ \E tab \in Tabs : details = ParseTab(tab)
       \/ tree \in Trees /\ table \in Tables /\ details = Compose(tree, Panes(table))

-----------------------------------------------------------------------------
(* Foremost and last positions. *)

(* The order of positions is contained in a well-founded relation. *)
LEMMA PositionsWellFounded ==
  \E R : IsWellFoundedOn(R, Nat) /\ \A x, y \in Nat : x < y => <<x, y>> \in R
<1>1. \A x, y \in Nat : x < y => <<x, y>> \in OpToRel(<, Nat)
  BY DEF OpToRel
<1>2. QED
  BY <1>1, NatLessThanWellFounded, Zenon

(* A nonempty set of positions has a minimal one. *)
LEMMA MinimalPosition ==
  ASSUME NEW R, IsWellFoundedOn(R, Nat), NEW S, S \subseteq Nat, S # {}
  PROVE  \E x \in S : \A y \in S : ~ (<<y, x>> \in R)
BY WFMin

(* A nonempty set of positions has a foremost one. *)
LEMMA Foremost ==
  ASSUME NEW S, S \subseteq Nat, S # {}
  PROVE  \E m \in S : \A n \in S : m <= n
<1>1. PICK R : IsWellFoundedOn(R, Nat) /\ \A x, y \in Nat : x < y => <<x, y>> \in R
  BY PositionsWellFounded
<1>2. IsWellFoundedOn(R, Nat)
  BY <1>1
<1>3. PICK m \in S : \A y \in S : ~ (<<y, m>> \in R)
  BY <1>2, MinimalPosition, Zenon
<1>4. \A n \in S : ~ (n < m)
  BY <1>1, <1>3
<1>5. QED
  BY <1>4

(* A nonempty set of rules has a last one. *)
LEMMA LastOfRules ==
  ASSUME NEW n \in Nat, NEW S, S \subseteq 1..n, S # {}
  PROVE  (CHOOSE i \in S : \A j \in S : j <= i) \in S
<1> DEFINE Behind == {k \in 0..n : n - k \in S}
<1>1. \A i \in S : n - i \in Behind
  <2> SUFFICES ASSUME NEW i \in S PROVE n - i \in Behind
    OBVIOUS
  <2>1. PICK k \in 0..n : k = n - i /\ n - k = i
    OBVIOUS
  <2>2. k \in Behind
    BY <2>1
  <2>3. QED
    BY <2>1, <2>2
<1>2. PICK k \in Behind : \A j \in Behind : k <= j
  <2>1. Behind \subseteq Nat
    OBVIOUS
  <2>2. PICK i \in S : TRUE
    OBVIOUS
  <2>3. n - i \in Behind
    BY <1>1
  <2> HIDE DEF Behind
  <2>4. QED
    BY <2>1, <2>3, Foremost
<1>3. \A i \in S : i \in Nat /\ k <= n - i
  BY <1>1, <1>2
<1>4. n - k \in S /\ \A i \in S : i <= n - k
  BY <1>2, <1>3
<1>5. QED
  BY <1>4

-----------------------------------------------------------------------------
(* The application that is chosen. *)

(* What NSRunningApplication knows of a process. *)
LEMMA KnownIs ==
  ASSUME AppInv, NEW pid, ApplicationFor(pid) # None
  PROVE  IsApp(ApplicationFor(pid))
<1>1. pid \in Apps /\ ApplicationFor(pid) = [pid |-> pid, bundle |-> BundleOf[pid]]
  BY DEF ApplicationFor, AppInv
<1>2. QED
  BY <1>1 DEF IsApp

(* Accessibility's answer is taken only for a process that is not known as *)
(* the lock screen; one nobody knows is taken without a bundle id.         *)
LEMMA FocusedIs ==
  ASSUME AppInv, NEW pid \in Apps \cup {None}, FocusedOf(pid) # None
  PROVE  IsApp(FocusedOf(pid)) /\ FocusedOf(pid).bundle # LockScreen
<1>1. pid # None /\ pid \in Apps
  BY DEF FocusedOf
<1>2. CASE ApplicationFor(pid) = None
  <2>1. FocusedOf(pid) = [pid |-> pid, bundle |-> None]
    BY <1>1, <1>2 DEF FocusedOf
  <2>2. QED
    BY <1>1, <2>1, SampleAssumption DEF IsApp
<1>3. CASE ApplicationFor(pid) # None
  <2>1. FocusedOf(pid) = ApplicationFor(pid) /\ ~ IsLockScreen(ApplicationFor(pid))
    BY <1>1, <1>3 DEF FocusedOf
  <2>2. QED
    BY <1>3, <2>1, KnownIs DEF IsLockScreen
<1>4. QED
  BY <1>2, <1>3

(* So is the owner of the foremost window that may be one. *)
LEMMA FrontmostIs ==
  ASSUME AppInv, NEW pid \in Apps \cup {None}, FrontmostApplication(pid) # None
  PROVE  IsApp(FrontmostApplication(pid)) /\ FrontmostApplication(pid).bundle # LockScreen
<1>1. CASE FocusedOf(pid) # None
  BY <1>1, FocusedIs DEF FrontmostApplication
<1>2. CASE FocusedOf(pid) = None
  <2>1. /\ Candidates # {}
        /\ FrontmostApplication(pid) = ApplicationFor(WindowList[Min(Candidates)].pid)
    BY <1>2 DEF FrontmostApplication
  <2>2. Candidates \subseteq Nat
    BY SampleAssumption DEF Candidates, WindowList, Restrict, AppInv
  <2>3. Min(Candidates) \in Candidates
    <3>1. \E m \in Candidates : \A n \in Candidates : m <= n
      BY <2>1, <2>2, Foremost
    <3>2. QED
      BY <3>1 DEF Min
  <2>4. ~ IsLockScreen(FrontmostApplication(pid))
    BY <2>1, <2>3 DEF Candidates
  <2>5. QED
    BY <2>1, <2>4, KnownIs DEF IsLockScreen
<1>3. QED
  BY <1>1, <1>2

(* An activation known to be the lock screen's is not followed. *)
LEMMA ChosenIs ==
  ASSUME AppInv, NEW pid \in Apps \cup {None}, Chosen(pid) # None
  PROVE  IsApp(Chosen(pid)) /\ Chosen(pid).bundle # LockScreen
<1>1. CASE activated # None /\ ~ IsLockScreen(activated)
  BY <1>1 DEF Chosen, IsLockScreen, AppInv
<1>2. CASE ~ (activated # None /\ ~ IsLockScreen(activated))
  <2>1. Chosen(pid) = FrontmostApplication(pid)
    BY <1>2 DEF Chosen
  <2>2. QED
    BY <2>1, FrontmostIs
<1>3. QED
  BY <1>1, <1>2
-----------------------------------------------------------------------------
(* Every step keeps the invariant. *)

(* The application, from the choice to the record. *)
LEMMA AppStep ==
  ASSUME AppInv, [Next]_vars
  PROVE  AppInv'
<1>1. CASE UNCHANGED vars
  BY <1>1 DEF AppInv, vars, world, locals
<1>2. CASE Change
  BY <1>2 DEF AppInv, Change, locals
<1>3. ASSUME NEW pid \in Apps, Quit(pid) PROVE AppInv'
  BY <1>3 DEF AppInv, Quit, locals
<1>4. CASE Begin
  <2>1. activated' = None \/ IsApp(activated')
    BY <1>4, SampleAssumption DEF Begin, Activations, IsApp
  <2>2. QED
    BY <1>4, <2>1 DEF AppInv, Begin, world
<1>5. CASE ReadDisplays
  BY <1>5 DEF AppInv, ReadDisplays, world
<1>6. ASSUME NEW pid \in Apps \cup {None}, Choose(pid) PROVE AppInv'
  <2>1. CASE Chosen(pid) # None /\ app' = Chosen(pid) /\ pc' = "focus" /\ UNCHANGED activated
    <3>1. IsApp(app') /\ app'.bundle # LockScreen
      BY <2>1, ChosenIs
    <3>2. QED
      BY <1>6, <2>1, <3>1 DEF AppInv, Choose, world
  <2>2. CASE activated' = None /\ pc' = "idle"
    BY <1>6, <2>2 DEF AppInv, Choose, world
  <2>3. QED
    BY <1>6, <2>1, <2>2 DEF Choose, ResetLocals
<1>7. CASE Focus
  <2>1. /\ IsApp(app) /\ app.bundle # LockScreen /\ pc' = "details"
        /\ UNCHANGED <<scene, rules, alive, activated, app>>
    BY <1>7 DEF AppInv, Focus, world
  <2>2. /\ bundle_id' \in {None, BundleOf[app.pid]}
        /\ app.bundle # None => bundle_id' = app.bundle
    BY <1>7, <2>1 DEF Focus, BundleIdFor, IsApp
  <2>3. QED
    BY <2>1, <2>2 DEF AppInv
<1>8. CASE Extract
  BY <1>8 DEF AppInv, Extract, world
<1>9. CASE ReadPanes
  BY <1>9 DEF AppInv, ReadPanes, world
<1>10. ASSUME NEW silent, Store(silent) PROVE AppInv'
  BY <1>10 DEF AppInv, Store, ResetLocals, world
<1>11. ASSUME NEW pid \in Late, Register(pid) PROVE AppInv'
  BY <1>11 DEF AppInv, Register, locals
<1>12. QED
  BY <1>1, <1>2, <1>3, <1>4, <1>5, <1>6, <1>7, <1>8, <1>9, <1>10, <1>11 DEF Next

(* The details, from the answer to the record. *)
LEMMA DetailsStep ==
  ASSUME DetailsInv, [Next]_vars
  PROVE  DetailsInv'
<1>1. CASE UNCHANGED <<pc, locals>>
  BY <1>1 DEF DetailsInv, locals
<1>2. CASE Begin \/ ReadDisplays \/ Focus
  BY <1>2 DEF DetailsInv, Begin, ReadDisplays, Focus
<1>3. ASSUME NEW pid \in Apps \cup {None}, Choose(pid) PROVE DetailsInv'
  BY <1>3 DEF DetailsInv, Choose, ResetLocals
<1>4. CASE Extract
  <2>1. CASE /\ tree' \in Trees \cup {None} /\ pc' = "panes" /\ UNCHANGED details
             /\ bundle_id = Agterm
    BY <1>4, <2>1, SampleAssumption DEF DetailsInv, Extract
  <2>2. CASE pc' = "entries" /\ UNCHANGED details
    BY <1>4, <2>2 DEF DetailsInv, Extract
  <2>3. ASSUME NEW tab \in Tabs \cup {None}, details' = ParseTab(tab), pc' = "entries",
               bundle_id = Dia
        PROVE  DetailsInv'
    <3> bundle_id' # None
      BY <1>4, <2>3, SampleAssumption DEF Extract
    <3>1. CASE tab = None
      BY <2>3, <3>1 DEF DetailsInv, ParseTab
    <3>2. CASE tab \in Tabs
      BY <2>3, <3>2 DEF DetailsInv
    <3>3. QED
      BY <3>1, <3>2
  <2>4. QED
    BY <1>4, <2>1, <2>2, <2>3 DEF Extract
<1>5. CASE ReadPanes
  <2>1. /\ tree \in Trees \cup {None} /\ tree' = tree /\ table' \in Tables /\ pc' = "entries"
        /\ details' = ParseTree(tree, Panes(table')) /\ bundle_id' # None
    BY <1>5 DEF DetailsInv, ReadPanes
  <2>2. CASE tree = None
    BY <2>1, <2>2 DEF DetailsInv, ParseTree
  <2>3. CASE tree # None
    BY <2>1, <2>3 DEF DetailsInv, ParseTree
  <2>4. QED
    BY <2>2, <2>3
<1>6. ASSUME NEW silent, Store(silent) PROVE DetailsInv'
  BY <1>6 DEF DetailsInv, Store, ResetLocals
<1>7. QED
  BY <1>1, <1>2, <1>3, <1>4, <1>5, <1>6 DEF Next, vars, Change, Quit, Register
-----------------------------------------------------------------------------
(* The record. *)

(* The record is left alone, begun anew or stored. *)
LEMMA RecordSteps ==
  ASSUME [Next]_vars
  PROVE  \/ UNCHANGED <<record, origin, rules>> \/ origin' = None
         \/ \E silent \in SUBSET alive : Store(silent)
BY DEF Next, vars, world, result, Change, Quit, Register, Begin, ReadDisplays, Choose, Focus, Extract,
       ReadPanes

(* What Redacted leaves of the sample. *)
LEMMA StoredRecord ==
  ASSUME NEW silent, Store(silent)
  PROVE  /\ record'.pid = app.pid /\ record'.bundle = bundle_id
         /\ record'.display = display
         /\ record'.title = IF DropsTitle(bundle_id) THEN None ELSE Title
         /\ record'.details = RedactDetails(bundle_id, details)
         /\ record'.visible = [i \in VisibleWindows(windows, displays) |->
                                 RedactEntry(Entry(windows[i], silent))]
         /\ origin' = [app |-> app, known |-> alive \ unknown, windows |-> windows,
                       displays |-> displays, tree |-> tree, table |-> table]
         /\ UNCHANGED rules /\ pc = "entries"
<1>1. record' = Redacted([pid |-> app.pid, bundle |-> bundle_id,
                          title |-> Title, details |-> details,
                          display |-> display, degraded |-> Degraded,
                          visible |-> VisibleEntries(silent)])
  BY DEF Store
<1>2. DOMAIN VisibleEntries(silent) = VisibleWindows(windows, displays)
  BY DEF VisibleEntries
<1>3. \A i \in VisibleWindows(windows, displays) :
        VisibleEntries(silent)[i] = Entry(windows[i], silent)
  BY DEF VisibleEntries
<1>4. record'.visible = [i \in VisibleWindows(windows, displays) |->
                           RedactEntry(Entry(windows[i], silent))]
  <2>1. record'.visible = [i \in DOMAIN VisibleEntries(silent) |->
                             RedactEntry(VisibleEntries(silent)[i])]
    BY <1>1 DEF Redacted
  <2>2. QED
    BY <1>2, <1>3, <2>1
<1>5. /\ record'.pid = app.pid /\ record'.bundle = bundle_id
      /\ record'.display = display
      /\ record'.title = IF DropsTitle(bundle_id) THEN None ELSE Title
      /\ record'.details = RedactDetails(bundle_id, details)
  BY <1>1 DEF Redacted
<1>6. /\ origin' = [app |-> app, known |-> alive \ unknown, windows |-> windows,
                    displays |-> displays, tree |-> tree, table |-> table]
      /\ UNCHANGED rules /\ pc = "entries"
  BY DEF Store, world
<1>7. QED
  BY <1>4, <1>5, <1>6

IsDetails(d) == d = [tab |-> d.tab, url |-> d.url, surface |-> d.surface,
                     command |-> d.command, cwd |-> d.cwd]

(* The details are the record Redacted takes them for. *)
LEMMA DetailsAre ==
  ASSUME DetailsInv, pc = "entries"
  PROVE  /\ IsDetails(details)
         /\ details.url = None \/ \E tab \in Tabs : details.url = tab.url
         /\ details.command = None
              \/ /\ tree \in Trees /\ table \in Tables
                 /\ details = Compose(tree, Panes(table))
<1>1. CASE details = NoDetails
  BY <1>1 DEF NoDetails, IsDetails
<1>2. ASSUME NEW tab \in Tabs, details = ParseTab(tab)
      PROVE  /\ IsDetails(details) /\ details.command = None
             /\ details.url = None \/ details.url = tab.url
  BY <1>2 DEF NoDetails, IsDetails, ParseTab
<1>3. ASSUME tree \in Trees, table \in Tables, details = Compose(tree, Panes(table))
      PROVE  IsDetails(details) /\ details.url = None
  BY <1>3 DEF NoDetails, IsDetails, Compose
<1>4. QED
  BY <1>1, <1>2, <1>3 DEF DetailsInv

(* What RedactDetails leaves of them. *)
LEMMA RedactedDetails ==
  ASSUME NEW d, IsDetails(d), NEW bundle
  PROVE  LET r == RedactDetails(bundle, d)
         IN  /\ r.url = Reduce(d.url)
             /\ r.tab = IF DropsTitle(bundle) THEN None ELSE d.tab
             /\ r.command = IF DropsTitle(bundle) THEN None ELSE d.command
BY DEF RedactDetails, IsDetails

(* A url is kept in full only by a rule for its host, or for every host. *)
LEMMA FullByRule ==
  ASSUME AppInv, NEW host, Keep(host) = "full"
  PROVE  \E i \in 1 .. Len(rules) : rules[i].keep = "full" /\ rules[i].host \in {host, "*"}
<1> DEFINE About(h) == {i \in 1 .. Len(rules) : rules[i].host = h}
           Latest(S) == CHOOSE i \in S : \A j \in S : j <= i
<1>1. Len(rules) \in Nat
  BY SampleAssumption DEF AppInv
<1>2. ASSUME NEW h, About(h) # {} PROVE Latest(About(h)) \in About(h)
  BY <1>1, <1>2, LastOfRules
<1>3. Keep(host) =
        IF About(host) # {}
          THEN (IF rules[Latest(About(host))].keep = None THEN "host"
                ELSE rules[Latest(About(host))].keep)
        ELSE IF About("*") # {}
          THEN (IF rules[Latest(About("*"))].keep = None THEN "host"
                ELSE rules[Latest(About("*"))].keep)
        ELSE "host"
  BY DEF Keep
<1>4. ASSUME NEW h, About(h) # {}, rules[Latest(About(h))].keep = "full"
      PROVE  \E i \in 1 .. Len(rules) : rules[i].keep = "full" /\ rules[i].host = h
  BY <1>2, <1>4
<1> HIDE DEF About, Latest
<1>5. CASE About(host) # {}
  BY <1>3, <1>4, <1>5
<1>6. CASE About(host) = {} /\ About("*") # {}
  BY <1>3, <1>4, <1>6
<1>7. CASE About(host) = {} /\ About("*") = {}
  BY <1>3, <1>7
<1>8. QED
  BY <1>5, <1>6, <1>7

(* So a url that is still whole is one a rule keeps. *)
LEMMA WholeUrl ==
  ASSUME AppInv, NEW url,
         url = None \/ url = [parses |-> url.parses, host |-> url.host, shown |-> url.shown],
         Reduce(url) # None, Reduce(url).shown = "full"
  PROVE  \E i \in 1 .. Len(rules) :
           rules[i].keep = "full" /\ rules[i].host \in {Reduce(url).host, "*"}
<1>1. url # None
  BY DEF Reduce
<1>2. /\ Reduce(url) = [url EXCEPT !.shown = Keep(url.host)]
      /\ Keep(url.host) = "full"
  BY <1>1 DEF Reduce
<1>3. Reduce(url).host = url.host
  BY <1>1, <1>2
<1>4. QED
  BY <1>2, <1>3, FullByRule
-----------------------------------------------------------------------------
(* At first nothing was read. *)
LEMMA SampleInit == Init => AppInv /\ DetailsInv
BY DEF Init, AppInv, DetailsInv

(***************************************************************************)
(* In whatever order the screen locks, the focus moves and processes come  *)
(* to be known, a record is about the lock screen only when the sample     *)
(* chose its application without a bundle id: an activation and a focus    *)
(* that are known to be the lock screen's are passed over.                 *)
(***************************************************************************)
THEOREM NoLockScreenAlways == Spec => []NoLockScreen
<1>1. Init => AppInv /\ NoLockScreen
  BY SampleInit DEF Init, NoLockScreen
<1>2. AppInv /\ NoLockScreen /\ [Next]_vars => AppInv' /\ NoLockScreen'
  <2> SUFFICES ASSUME AppInv, NoLockScreen, [Next]_vars PROVE NoLockScreen'
    BY AppStep
  <2>1. CASE UNCHANGED <<record, origin, rules>> \/ origin' = None
    BY <2>1 DEF NoLockScreen
  <2>2. ASSUME NEW silent, Store(silent) PROVE NoLockScreen'
    <3>1. record'.bundle = bundle_id /\ pc = "entries"
      BY <2>2, StoredRecord
    <3>2. origin'.app = app
      BY <2>2 DEF Store
    <3>3. app.bundle # None => bundle_id # LockScreen
      BY <3>1 DEF AppInv
    <3>4. QED
      BY <3>1, <3>2, <3>3 DEF NoLockScreen
  <2>3. QED
    BY <2>1, <2>2, RecordSteps
<1>3. QED
  BY <1>1, <1>2, PTL DEF Spec

(* A record that is stored shows no dropped title and no path of a url     *)
(* that no rule keeps.                                                     *)
LEMMA StoreDropsTitles ==
  ASSUME AppInv, DetailsInv, NEW silent, Store(silent)
  PROVE  TitlesDropped'
<1>1. /\ record'.pid = app.pid /\ record'.bundle = bundle_id
      /\ record'.title = IF DropsTitle(bundle_id) THEN None ELSE Title
      /\ record'.details = RedactDetails(bundle_id, details)
      /\ record'.visible = [i \in VisibleWindows(windows, displays) |->
                              RedactEntry(Entry(windows[i], silent))]
      /\ origin' = [app |-> app, known |-> alive \ unknown, windows |-> windows,
                    displays |-> displays, tree |-> tree, table |-> table]
      /\ UNCHANGED rules /\ pc = "entries"
  BY StoredRecord
<1>2. /\ bundle_id # None => bundle_id = BundleOf[app.pid]
      /\ bundle_id = None => details = NoDetails
  BY <1>1 DEF AppInv, DetailsInv
<1>3. details.tab # None \/ details.command # None => bundle_id # None
  BY <1>2 DEF NoDetails
<1>4. Titleless' = Titleless
  BY <1>1 DEF Titleless
<1>5. /\ record'.details.url = Reduce(details.url)
      /\ record'.details.tab = IF DropsTitle(bundle_id) THEN None ELSE details.tab
      /\ record'.details.command = IF DropsTitle(bundle_id) THEN None ELSE details.command
  BY <1>1, DetailsAre, RedactedDetails
<1>6. (\/ record'.details.tab # None \/ record'.details.command # None
       \/ record'.title # None /\ record'.bundle # None)
        => BundleOf[record'.pid] \notin Titleless'
  BY <1>1, <1>2, <1>3, <1>4, <1>5 DEF DropsTitle
<1>7. ASSUME NEW i \in DOMAIN record'.visible,
             record'.visible[i].title # None, origin'.windows[i].pid \in origin'.known
      PROVE  BundleOf[origin'.windows[i].pid] \notin Titleless'
  <2> DEFINE entry == Entry(windows[i], silent)
             owner == windows[i].pid
  <2>1. record'.visible[i] = RedactEntry(entry) /\ owner \in alive \ unknown
    BY <1>1, <1>7
  <2>2. entry.bundle = BundleOf[owner]
    BY <2>1 DEF Entry, BundleIdFor
  <2>3. entry = [number |-> entry.number, bundle |-> entry.bundle,
                 display |-> entry.display, title |-> entry.title]
    BY DEF Entry
  <2>4. ~ DropsTitle(entry.bundle)
    <3> HIDE DEF entry
    <3>1. SUFFICES ASSUME DropsTitle(entry.bundle) PROVE RedactEntry(entry).title = None
      BY <1>7, <2>1
    <3>2. QED
      BY <2>3, <3>1 DEF RedactEntry
  <2>5. QED
    BY <1>1, <1>4, <2>2, <2>4 DEF DropsTitle
<1>8. ASSUME record'.details.url # None, record'.details.url.shown = "full"
      PROVE  \E i \in 1 .. Len(rules') :
               rules'[i].keep = "full" /\ rules'[i].host \in {record'.details.url.host, "*"}
  <2>1. \/ details.url = None
        \/ details.url = [parses |-> details.url.parses, host |-> details.url.host,
                          shown |-> details.url.shown]
    BY <1>1, DetailsAre, SampleAssumption
  <2>2. Reduce(details.url) # None /\ Reduce(details.url).shown = "full"
    BY <1>5, <1>8
  <2>3. \E i \in 1 .. Len(rules) :
          rules[i].keep = "full" /\ rules[i].host \in {Reduce(details.url).host, "*"}
    BY <2>1, <2>2, WholeUrl
  <2>4. QED
    BY <1>1, <1>5, <2>3
<1>9. QED
  BY <1>6, <1>7, <1>8 DEF TitlesDropped

(***************************************************************************)
(* For all rules and whatever quits or becomes known while the sample is   *)
(* assembled: no record shows the tab or command of an application whose   *)
(* titles are dropped, nor its title once its bundle id is known, nor a    *)
(* title of a window whose owner's lookup answered when the record was     *)
(* made, nor the path of a url that no rule keeps in full.                 *)
(***************************************************************************)
THEOREM TitlesDroppedAlways == Spec => []TitlesDropped
<1>1. Init => AppInv /\ DetailsInv /\ TitlesDropped
  BY SampleInit DEF Init, TitlesDropped
<1>2. AppInv /\ DetailsInv /\ TitlesDropped /\ [Next]_vars
        => AppInv' /\ DetailsInv' /\ TitlesDropped'
  <2> SUFFICES ASSUME AppInv, DetailsInv, TitlesDropped, [Next]_vars PROVE TitlesDropped'
    BY AppStep, DetailsStep
  <2>1. CASE UNCHANGED <<record, origin, rules>>
    BY <2>1 DEF TitlesDropped, Titleless
  <2>2. CASE origin' = None
    BY <2>2 DEF TitlesDropped
  <2>3. QED
    BY <2>1, <2>2, RecordSteps, StoreDropsTitles
<1>3. QED
  BY <1>1, <1>2, PTL DEF Spec
-----------------------------------------------------------------------------
(* The pane on screen. *)

Named(q) == [q EXCEPT !.pane = IF @ = None THEN "left" ELSE @]

(* The processes of a table that may be in front in the pane p of t. *)
Leads(q, t, pane) ==
  /\ q.tty /\ q.enabled /\ q.session = t.session
  /\ q.pid = q.pgid /\ q.pid = q.tpgid
  /\ q.pane = pane \/ (q.pane = None /\ pane = "left")

(* A process of a table with its pane named. *)
LEMMA NamedIs ==
  ASSUME NEW ps \in Tables, NEW q \in ps
  PROVE  /\ Named(q).pane = IF q.pane = None THEN "left" ELSE q.pane
         /\ Named(q).pid = q.pid /\ Named(q).session = q.session
<1>1. q = [pid |-> q.pid, pgid |-> q.pgid, tpgid |-> q.tpgid, tty |-> q.tty,
           enabled |-> q.enabled, session |-> q.session, pane |-> q.pane,
           argv |-> q.argv, cwd |-> q.cwd]
  BY SampleAssumption
<1>2. QED
  BY <1>1 DEF Named

(* The process pane_on answers with is the only one that fits. *)
LEMMA OnlyOneFits ==
  ASSUME NEW t \in Trees, NEW ps \in Tables, NEW surface, surface # None,
         NEW p, p = PaneOn(Panes(ps), t.session, surface), p # None
  PROVE  p.pane = surface /\ {q.pid : q \in {r \in ps : Leads(r, t, surface)}} = {p.pid}
<1> DEFINE fits == {q \in Panes(ps) : q.session = t.session /\ q.pane = surface}
           able == {q \in ps : /\ IsForeground(q) /\ LeadsItsGroup(q)
                               /\ q.enabled /\ q.session # None}
<1>1. Panes(ps) = {Named(q) : q \in able}
  BY DEF Panes, Named
<1>2. Cardinality(fits) = 1 /\ p = CHOOSE q \in fits : TRUE
  BY DEF PaneOn
<1>3. IsFiniteSet(fits)
  <2>1. IsFiniteSet(able)
    BY SampleAssumption, FS_Subset
  <2>2. IsFiniteSet(Panes(ps))
    <3> DEFINE f == [q \in able |-> Named(q)]
    <3>1. f \in Surjection(able, Panes(ps))
      BY <1>1 DEF Surjection
    <3>2. QED
      BY <2>1, <3>1, FS_Surjection
  <2>3. QED
    BY <2>2, FS_Subset
<1>4. fits = {p}
  <2>1. PICK x : fits = {x}
    BY <1>2, <1>3, FS_Singleton
  <2> HIDE DEF fits
  <2>2. QED
    BY <1>2, <2>1
<1>5. PICK q \in able : p = Named(q) /\ p.session = t.session /\ p.pane = surface
  BY <1>1, <1>4
<1>6. q \in ps /\ q.pid = p.pid /\ Leads(q, t, surface)
  <2>1. q \in ps /\ q.pid = p.pid /\ q.session = t.session
    BY <1>5, NamedIs
  <2>2. q.pane = surface \/ (q.pane = None /\ surface = "left")
    BY <1>5, NamedIs
  <2>3. QED
    BY <1>5, <2>1, <2>2 DEF Leads, IsForeground, LeadsItsGroup
<1>7. ASSUME NEW r \in ps, Leads(r, t, surface) PROVE r.pid = p.pid
  <2>1. r \in able
    BY <1>7, SampleAssumption DEF Leads, IsForeground, LeadsItsGroup
  <2>2. Named(r).session = t.session /\ Named(r).pane = surface
    BY <1>7, NamedIs DEF Leads
  <2>3. Named(r) \in fits
    BY <1>1, <2>1, <2>2
  <2>4. Named(r) = p
    BY <1>4, <2>3
  <2>5. QED
    BY <2>4, NamedIs
<1>8. QED
  BY <1>5, <1>6, <1>7

(* The surface on screen is the one that covers the others, or the active  *)
(* and visible one.                                                        *)
Covers(t, surface) ==
  /\ t.quick => surface = "quick"
  /\ t.dashboard => surface \in {"quick", "dashboard"}
  /\ \/ t.quick \/ t.dashboard
     \/ /\ t.zoomed # None /\ t.zoomed.kind = surface
        /\ surface = "quick" \/ t.zoomed.session = t.session
     \/ /\ t.zoomed = None
        /\ \E s \in t.surfaces : s.active /\ s.visible /\ s.kind = surface

(* That is what surface_on_screen answers with. *)
LEMMA SurfaceCovers ==
  ASSUME NEW t \in Trees, SurfaceOnScreen(t) # None
  PROVE  Covers(t, SurfaceOnScreen(t))
<1>1. CASE t.quick
  BY <1>1 DEF SurfaceOnScreen, Covers
<1>2. CASE ~ t.quick /\ t.dashboard
  BY <1>2 DEF SurfaceOnScreen, Covers
<1>3. CASE ~ t.quick /\ ~ t.dashboard /\ t.zoomed = None
  <2>1. /\ \E s \in t.surfaces : s.active /\ s.visible
        /\ SurfaceOnScreen(t) = (CHOOSE s \in t.surfaces : s.active /\ s.visible).kind
    BY <1>3 DEF SurfaceOnScreen
  <2>2. \E s \in t.surfaces : s.active /\ s.visible /\ s.kind = SurfaceOnScreen(t)
    BY <2>1
  <2>3. QED
    BY <1>3, <2>2 DEF Covers
<1>4. CASE ~ t.quick /\ ~ t.dashboard /\ t.zoomed # None
  <2>1. CASE t.zoomed.kind = "quick"
    BY <1>4, <2>1 DEF SurfaceOnScreen, Covers
  <2>2. CASE t.zoomed.kind # "quick"
    <3>1. t.zoomed.session = t.session /\ SurfaceOnScreen(t) = t.zoomed.kind
      BY <1>4, <2>2 DEF SurfaceOnScreen
    <3>2. QED
      BY <1>4, <3>1 DEF Covers
  <2>3. QED
    BY <2>1, <2>2
<1>5. QED
  BY <1>1, <1>2, <1>3, <1>4

(* A record that is stored shows a command of that pane only. *)
LEMMA StoreShowsPane ==
  ASSUME DetailsInv, NEW silent, Store(silent)
  PROVE  PaneOnScreen'
<1>1. /\ record'.details = RedactDetails(bundle_id, details) /\ pc = "entries"
      /\ origin' = [app |-> app, known |-> alive \ unknown, windows |-> windows,
                    displays |-> displays, tree |-> tree, table |-> table]
  BY StoredRecord
<1> SUFFICES ASSUME record'.details.command # None PROVE PaneOnScreen'
  BY DEF PaneOnScreen
<1>2. record'.details.command = details.command /\ details.command # None
  BY <1>1, DetailsAre, RedactedDetails
<1>3. tree \in Trees /\ table \in Tables /\ details = Compose(tree, Panes(table))
  BY <1>1, <1>2, DetailsAre
<1> DEFINE surface == SurfaceOnScreen(tree)
           p == details.command
<1>4. surface # None /\ p = PaneOn(Panes(table), tree.session, surface) /\ p # None
  BY <1>2, <1>3 DEF Compose, NoDetails
<1>5. /\ p.pane = surface
      /\ {q.pid : q \in {r \in table : Leads(r, tree, surface)}} = {p.pid}
  BY <1>3, <1>4, OnlyOneFits
<1>6. Covers(tree, surface)
  BY <1>3, <1>4, SurfaceCovers
<1>7. origin'.tree = tree /\ origin'.table = table /\ record'.details.command = p
  BY <1>1, <1>2
<1> HIDE DEF surface, p
<1>8. QED
  BY <1>5, <1>6, <1>7 DEF PaneOnScreen, Leads, Covers

(***************************************************************************)
(* For every tree and every process table that were read: a command in a   *)
(* record is that of the one foreground process of the pane in sight, the  *)
(* active and visible surface or the one that covers it.                   *)
(***************************************************************************)
THEOREM PaneOnScreenAlways == Spec => []PaneOnScreen
<1>1. Init => DetailsInv /\ PaneOnScreen
  BY SampleInit DEF Init, PaneOnScreen
<1>2. DetailsInv /\ PaneOnScreen /\ [Next]_vars => DetailsInv' /\ PaneOnScreen'
  <2> SUFFICES ASSUME DetailsInv, PaneOnScreen, [Next]_vars PROVE PaneOnScreen'
    BY DetailsStep
  <2>1. CASE UNCHANGED <<record, origin, rules>>
    BY <2>1 DEF PaneOnScreen
  <2>2. CASE origin' = None
    BY <2>2 DEF PaneOnScreen
  <2>3. QED
    BY <2>1, <2>2, RecordSteps, StoreShowsPane
<1>3. QED
  BY <1>1, <1>2, PTL DEF Spec
-----------------------------------------------------------------------------
(* Areas count cells. *)

(* The size of an interval of a given width. *)
LEMMA IntervalSize ==
  ASSUME NEW lo \in Int, NEW hi \in Int
  PROVE  /\ IsFiniteSet(lo .. hi - 1)
         /\ Cardinality(lo .. hi - 1) = IF hi - lo <= 0 THEN 0 ELSE hi - lo
<1>1. hi - 1 \in Int
  OBVIOUS
<1>2. /\ IsFiniteSet(lo .. hi - 1)
      /\ Cardinality(lo .. hi - 1) = IF lo > hi - 1 THEN 0 ELSE (hi - 1) - lo + 1
  BY <1>1, FS_Interval
<1>3. QED
  BY <1>2

(* A product with an empty side has no cells. *)
LEMMA Products ==
  ASSUME NEW m \in Int, NEW n \in Int
  PROVE  /\ m * n \in Int
         /\ m > 0 /\ n > 0 => m * n > 0
         /\ m = 0 \/ n = 0 => m * n = 0
OBVIOUS

(* Area is the number of cells of a rectangle. *)
LEMMA AreaCounts ==
  ASSUME NEW r, IsRect(r)
  PROVE  IsFiniteSet(Cells(r)) /\ Area(r) = Cardinality(Cells(r)) /\ Area(r) \in Nat
<1> DEFINE across == r.x .. r.x + r.width - 1
           down == r.y .. r.y + r.height - 1
<1>1. IsFiniteSet(across) /\ Cardinality(across) = Largest(r.width, 0)
  <2>1. r.x \in Int /\ r.x + r.width \in Int /\ (r.x + r.width) - r.x = r.width
    BY DEF IsRect
  <2>2. QED
    BY <2>1, IntervalSize DEF Largest, IsRect
<1>2. IsFiniteSet(down) /\ Cardinality(down) = Largest(r.height, 0)
  <2>1. r.y \in Int /\ r.y + r.height \in Int /\ (r.y + r.height) - r.y = r.height
    BY DEF IsRect
  <2>2. QED
    BY <2>1, IntervalSize DEF Largest, IsRect
<1>3. Cells(r) = across \X down
  BY DEF Cells
<1> HIDE DEF across, down
<1>4. Cardinality(Cells(r)) = Largest(r.width, 0) * Largest(r.height, 0)
  BY <1>1, <1>2, <1>3, FS_Product
<1>5. IsFiniteSet(Cells(r)) /\ Cardinality(Cells(r)) \in Nat
  BY <1>1, <1>2, <1>3, FS_Product, FS_CardinalityType
<1>6. QED
  BY <1>4, <1>5 DEF Area

(* IntersectionArea is the number of cells two rectangles share. *)
LEMMA IntersectionCounts ==
  ASSUME NEW r, IsRect(r), NEW s, IsRect(s)
  PROVE  /\ IntersectionArea(r, s) = Cardinality(Cells(r) \cap Cells(s))
         /\ IntersectionArea(r, s) \in Nat
<1> DEFINE left == Largest(r.x, s.x)
           right == Smallest(r.x + r.width, s.x + s.width)
           top == Largest(r.y, s.y)
           bottom == Smallest(r.y + r.height, s.y + s.height)
           across == left .. right - 1
           down == top .. bottom - 1
<1>1. left \in Int /\ right \in Int /\ top \in Int /\ bottom \in Int
  BY DEF Largest, Smallest, IsRect
<1>2. Cells(r) \cap Cells(s) = across \X down
  <2>1. /\ (r.x .. r.x + r.width - 1) \cap (s.x .. s.x + s.width - 1) = across
        /\ (r.y .. r.y + r.height - 1) \cap (s.y .. s.y + s.height - 1) = down
    <3>1. /\ r.x \in Int /\ r.width \in Int /\ s.x \in Int /\ s.width \in Int
          /\ r.y \in Int /\ r.height \in Int /\ s.y \in Int /\ s.height \in Int
      BY DEF IsRect
    <3>2. (r.x .. r.x + r.width - 1) \cap (s.x .. s.x + s.width - 1)
            = Largest(r.x, s.x) .. Smallest(r.x + r.width, s.x + s.width) - 1
      BY <3>1 DEF Largest, Smallest
    <3>3. (r.y .. r.y + r.height - 1) \cap (s.y .. s.y + s.height - 1)
            = Largest(r.y, s.y) .. Smallest(r.y + r.height, s.y + s.height) - 1
      BY <3>1 DEF Largest, Smallest
    <3>4. QED
      BY <3>2, <3>3
  <2> HIDE DEF across, down
  <2>2. ASSUME NEW A, NEW B, NEW C, NEW D
        PROVE  (A \X B) \cap (C \X D) = (A \cap C) \X (B \cap D)
    <3>1. ASSUME NEW e PROVE e \in (A \X B) \cap (C \X D) <=> e \in (A \cap C) \X (B \cap D)
      OBVIOUS
    <3>2. QED
      BY <3>1, Zenon
  <2>3. QED
    BY <2>1, <2>2 DEF Cells
<1>3. IntersectionArea(r, s)
        = IF right - left <= 0 \/ bottom - top <= 0 THEN 0 ELSE (right - left) * (bottom - top)
  BY DEF IntersectionArea
<1> HIDE DEF left, right, top, bottom
<1>4. /\ IsFiniteSet(across) /\ IsFiniteSet(down)
      /\ Cardinality(across) = IF right - left <= 0 THEN 0 ELSE right - left
      /\ Cardinality(down) = IF bottom - top <= 0 THEN 0 ELSE bottom - top
  BY <1>1, IntervalSize
<1> HIDE DEF across, down
<1>5. /\ Cardinality(across \X down) = Cardinality(across) * Cardinality(down)
      /\ IsFiniteSet(across \X down)
  BY <1>4, FS_Product
<1>6. Cardinality(Cells(r) \cap Cells(s)) \in Nat
  BY <1>2, <1>5, FS_CardinalityType
<1>7. CASE right - left <= 0 \/ bottom - top <= 0
  <2>1. Cardinality(across) = 0 \/ Cardinality(down) = 0
    BY <1>4, <1>7
  <2>2. Cardinality(across) \in Int /\ Cardinality(down) \in Int
    BY <1>4, FS_CardinalityType
  <2>3. Cardinality(across) * Cardinality(down) = 0
    BY <2>1, <2>2, Products
  <2>4. IntersectionArea(r, s) = 0
    BY <1>3, <1>7
  <2>5. Cardinality(Cells(r) \cap Cells(s)) = 0
    BY <1>2, <1>5, <2>3, Zenon
  <2>6. QED
    BY <2>4, <2>5
<1>8. CASE ~ (right - left <= 0 \/ bottom - top <= 0)
  <2>1. Cardinality(across) = right - left /\ Cardinality(down) = bottom - top
    BY <1>4, <1>8
  <2>2. QED
    BY <1>2, <1>3, <1>5, <1>6, <1>8, <2>1
<1>9. QED
  BY <1>7, <1>8
-----------------------------------------------------------------------------
(* The display BestDisplay answers with. *)

IsScreens(ds) == Len(ds) \in Nat /\ \A i \in 1 .. Len(ds) : IsRect(ds[i])

(* The displays up to n that show enough of a window. *)
Showing(bounds, ds, n) == {i \in 1 .. n : ShowsEnough(bounds, ds[i])}

(* Of two displays, x shows more, or as much and comes first. *)
Beats(bounds, ds, x, j) ==
  \/ IntersectionArea(bounds, ds[x]) > IntersectionArea(bounds, ds[j])
  \/ IntersectionArea(bounds, ds[x]) = IntersectionArea(bounds, ds[j]) /\ x <= j

(* What the loop has found after n displays. *)
IsBest(bounds, ds, n, x) ==
  IF Showing(bounds, ds, n) = {} THEN x = None
  ELSE x \in Showing(bounds, ds, n) /\ \A j \in Showing(bounds, ds, n) : Beats(bounds, ds, x, j)

(* One round of the loop. *)
NextBest(bounds, ds, n, x) ==
  IF ShowsEnough(bounds, ds[n]) /\ (x = None \/ Better(bounds, ds, n, x)) THEN n ELSE x

(* At most one display is best. *)
LEMMA OneBest ==
  ASSUME NEW bounds, IsRect(bounds), NEW ds, IsScreens(ds), NEW n \in 0 .. Len(ds),
         NEW x, NEW y, IsBest(bounds, ds, n, x), IsBest(bounds, ds, n, y)
  PROVE  x = y
<1>1. CASE Showing(bounds, ds, n) = {}
  BY <1>1 DEF IsBest
<1>2. CASE Showing(bounds, ds, n) # {}
  <2>1. /\ x \in Showing(bounds, ds, n) /\ y \in Showing(bounds, ds, n)
        /\ Beats(bounds, ds, x, y) /\ Beats(bounds, ds, y, x)
    BY <1>2 DEF IsBest
  <2>2. x \in 1 .. Len(ds) /\ y \in 1 .. Len(ds)
    BY <2>1 DEF Showing, IsScreens
  <2>3. /\ IntersectionArea(bounds, ds[x]) \in Nat
        /\ IntersectionArea(bounds, ds[y]) \in Nat
    BY <2>2, IntersectionCounts DEF IsScreens
  <2>4. QED
    BY <2>1, <2>2, <2>3 DEF Beats
<1>3. QED
  BY <1>1, <1>2

(* A round of the loop keeps the best display the best. *)
LEMMA NextBestIsBest ==
  ASSUME NEW bounds, IsRect(bounds), NEW ds, IsScreens(ds), NEW n \in 1 .. Len(ds),
         NEW x, IsBest(bounds, ds, n - 1, x)
  PROVE  IsBest(bounds, ds, n, NextBest(bounds, ds, n, x))
<1> DEFINE before == Showing(bounds, ds, n - 1)
           now == Showing(bounds, ds, n)
           share(i) == IntersectionArea(bounds, ds[i])
<1>1. \A i \in 1 .. Len(ds) : share(i) \in Nat
  BY IntersectionCounts DEF IsScreens
<1>2. before \subseteq 1 .. (n - 1) /\ now \subseteq 1 .. n /\ n \in Nat /\ Len(ds) \in Nat
  BY DEF Showing, IsScreens
<1>3. now = IF ShowsEnough(bounds, ds[n]) THEN before \cup {n} ELSE before
  <2>1. \A i : i \in 1 .. n <=> i \in 1 .. (n - 1) \/ i = n
    BY <1>2
  <2>2. QED
    BY <2>1 DEF Showing
<1>4. \A i, j \in 1 .. Len(ds) :
        Beats(bounds, ds, i, j) <=> share(i) > share(j) \/ (share(i) = share(j) /\ i <= j)
  BY DEF Beats
<1>5. \A i \in 1 .. Len(ds) : Better(bounds, ds, n, i) <=> share(n) > share(i)
  BY DEF Better
<1>6. IF before = {} THEN x = None
      ELSE x \in before /\ \A j \in before : Beats(bounds, ds, x, j)
  BY DEF IsBest
<1>7. \A i \in Nat : i # None
  BY SampleAssumption
<1>8. before \subseteq 1 .. Len(ds) /\ n \in 1 .. Len(ds)
  BY <1>2
<1> DEFINE y == NextBest(bounds, ds, n, x)
<1>9. y = IF ShowsEnough(bounds, ds[n]) /\ (x = None \/ Better(bounds, ds, n, x)) THEN n ELSE x
  BY DEF NextBest
<1> HIDE DEF before, now, share, y
<1>10. CASE ~ ShowsEnough(bounds, ds[n])
  <2>1. now = before /\ y = x
    BY <1>3, <1>9, <1>10
  <2>2. QED
    BY <1>6, <2>1 DEF IsBest, before, now, y
<1>11. CASE ShowsEnough(bounds, ds[n]) /\ before = {}
  <2>1. now = {n} /\ y = n
    BY <1>3, <1>6, <1>9, <1>11
  <2>2. Beats(bounds, ds, n, n)
    BY <1>1, <1>4, <1>8
  <2>3. QED
    BY <2>1, <2>2 DEF IsBest, now, y
<1>12. CASE ShowsEnough(bounds, ds[n]) /\ before # {}
  <2>1. /\ now = before \cup {n} /\ x \in before /\ x # None
        /\ \A j \in before : Beats(bounds, ds, x, j)
    <3>1. x \in before /\ \A j \in before : Beats(bounds, ds, x, j)
      BY <1>6, <1>12
    <3>2. x \in Nat
      BY <1>2, <3>1
    <3>3. QED
      BY <1>3, <1>7, <1>12, <3>1, <3>2
  <2>2. x \in 1 .. Len(ds) /\ x < n
    BY <1>2, <1>8, <2>1
  <2>3. CASE share(n) > share(x)
    <3>1. y = n
      BY <1>5, <1>9, <1>12, <2>2, <2>3
    <3>2. ASSUME NEW j \in now PROVE Beats(bounds, ds, n, j)
      <4>1. CASE j = n
        BY <1>1, <1>4, <1>8, <4>1
      <4>2. CASE j \in before
        <5>1. j \in 1 .. Len(ds) /\ share(x) >= share(j)
          BY <1>1, <1>4, <1>8, <2>1, <2>2, <4>2
        <5>2. share(n) > share(j)
          BY <1>1, <1>8, <2>2, <2>3, <5>1
        <5>3. QED
          BY <1>4, <1>8, <5>1, <5>2
      <4>3. QED
        BY <2>1, <4>1, <4>2
    <3>3. QED
      BY <2>1, <3>1, <3>2 DEF IsBest, now, y
  <2>4. CASE ~ (share(n) > share(x))
    <3>1. y = x
      BY <1>5, <1>9, <2>1, <2>2, <2>4
    <3>2. Beats(bounds, ds, x, n)
      BY <1>1, <1>2, <1>4, <1>8, <2>2, <2>4
    <3>3. QED
      BY <2>1, <3>1, <3>2 DEF IsBest, now, y
  <2>5. QED
    BY <2>3, <2>4
<1>13. QED
  BY <1>10, <1>11, <1>12

(* Among the displays up to n that show enough, one is best. *)
LEMMA BestExists ==
  ASSUME NEW bounds, IsRect(bounds), NEW ds, IsScreens(ds)
  PROVE  \A n \in 0 .. Len(ds) : \E x : IsBest(bounds, ds, n, x)
<1> DEFINE without == {n \in 0 .. Len(ds) : ~ \E x : IsBest(bounds, ds, n, x)}
<1> SUFFICES ASSUME without # {} PROVE FALSE
  OBVIOUS
<1>1. PICK n \in without : \A m \in without : n <= m
  <2>1. without \subseteq Nat
    BY DEF IsScreens
  <2> HIDE DEF without
  <2>2. QED
    BY <2>1, Foremost
<1>2. n # 0
  <2>1. IsBest(bounds, ds, 0, None)
    BY DEF IsBest, Showing
  <2>2. QED
    BY <2>1
<1>3. n \in 1 .. Len(ds) /\ n - 1 \in 0 .. Len(ds) /\ n - 1 < n
  BY <1>2 DEF IsScreens
<1>4. n - 1 \notin without
  BY <1>1, <1>3
<1>5. PICK x : IsBest(bounds, ds, n - 1, x)
  BY <1>3, <1>4
<1>6. IsBest(bounds, ds, n, NextBest(bounds, ds, n, x))
  BY <1>3, <1>5, NextBestIsBest
<1>7. QED
  BY <1>6

(* The loop, as a recursive function, finds it. *)
LEMMA LoopFindsBest ==
  ASSUME NEW bounds, IsRect(bounds), NEW ds, IsScreens(ds), NEW f,
         f = [n \in 0 .. Len(ds) |-> IF n = 0 THEN None ELSE NextBest(bounds, ds, n, f[n - 1])]
  PROVE  \A n \in 0 .. Len(ds) : IsBest(bounds, ds, n, f[n])
<1> DEFINE wrong == {n \in 0 .. Len(ds) : ~ IsBest(bounds, ds, n, f[n])}
<1> SUFFICES ASSUME wrong # {} PROVE FALSE
  OBVIOUS
<1>1. PICK n \in wrong : \A m \in wrong : n <= m
  <2>1. wrong \subseteq Nat
    BY DEF IsScreens
  <2> HIDE DEF wrong
  <2>2. QED
    BY <2>1, Foremost
<1>2. n # 0
  <2>1. IsBest(bounds, ds, 0, None)
    BY DEF IsBest, Showing
  <2>2. f[0] = None
    BY DEF IsScreens
  <2>3. QED
    BY <2>1, <2>2
<1>3. n \in 1 .. Len(ds) /\ n - 1 \in 0 .. Len(ds) /\ n - 1 < n
  BY <1>2 DEF IsScreens
<1>4. n - 1 \notin wrong
  BY <1>1, <1>3
<1>5. IsBest(bounds, ds, n - 1, f[n - 1])
  BY <1>3, <1>4
<1>6. f[n] = NextBest(bounds, ds, n, f[n - 1])
  BY <1>2
<1>7. IsBest(bounds, ds, n, f[n])
  BY <1>3, <1>5, <1>6, NextBestIsBest
<1>8. QED
  BY <1>7

(* BestDisplay answers with the best of all displays. *)
LEMMA BestDisplayIsBest ==
  ASSUME NEW bounds, IsRect(bounds), NEW ds, IsScreens(ds), Area(bounds) > 0
  PROVE  IsBest(bounds, ds, Len(ds), BestDisplay(bounds, ds))
<1> DEFINE Body(f) ==
      [n \in 0 .. Len(ds) |-> IF n = 0 THEN None ELSE NextBest(bounds, ds, n, f[n - 1])]
           g == [n \in 0 .. Len(ds) |-> CHOOSE x : IsBest(bounds, ds, n, x)]
           best == CHOOSE f : f = Body(f)
<1>1. \A n \in 0 .. Len(ds) : IsBest(bounds, ds, n, g[n])
  BY BestExists
<1>2. g = Body(g)
  <2>1. ASSUME NEW n \in 0 .. Len(ds)
        PROVE  g[n] = IF n = 0 THEN None ELSE NextBest(bounds, ds, n, g[n - 1])
    <3>1. CASE n = 0
      <4>1. IsBest(bounds, ds, n, g[n])
        BY <1>1
      <4>2. Showing(bounds, ds, n) = {}
        BY <3>1 DEF Showing
      <4>3. QED
        BY <3>1, <4>1, <4>2 DEF IsBest
    <3>2. CASE n # 0
      <4>1. n \in 1 .. Len(ds) /\ n - 1 \in 0 .. Len(ds)
        BY <3>2 DEF IsScreens
      <4>2. IsBest(bounds, ds, n, g[n]) /\ IsBest(bounds, ds, n - 1, g[n - 1])
        BY <1>1, <4>1
      <4> HIDE DEF g
      <4>3. IsBest(bounds, ds, n, NextBest(bounds, ds, n, g[n - 1]))
        BY <4>1, <4>2, NextBestIsBest
      <4>4. QED
        BY <3>2, <4>2, <4>3, OneBest
    <3>3. QED
      BY <3>1, <3>2
  <2>2. g = [n \in 0 .. Len(ds) |-> g[n]]
    OBVIOUS
  <2> HIDE DEF g
  <2>3. QED
    BY <2>1, <2>2
<1> HIDE DEF g
<1>3. best = Body(best)
  <2> HIDE DEF Body
  <2>1. QED
    BY <1>2, Zenon
<1>4. BestDisplay(bounds, ds) = best[Len(ds)]
  <2>1. ~ (Area(bounds) <= 0)
    BY AreaCounts
  <2>2. QED
    BY <2>1, Zenon DEF BestDisplay, NextBest
<1> HIDE DEF best
<1>5. IsBest(bounds, ds, Len(ds), best[Len(ds)])
  BY <1>3, LoopFindsBest DEF IsScreens
<1>6. QED
  BY <1>4, <1>5
-----------------------------------------------------------------------------
(* What a record shows of the screen. *)

(* The share of a window a display shows, and the displays that show       *)
(* enough of it, by counting cells.                                        *)
CellsOn(w, ds, i) == Cardinality(Cells(w.bounds) \cap Cells(ds[i]))

DisplaysOf(w, ds) ==
  {i \in 1 .. Len(ds) : /\ w.layer = 0 /\ CellsOn(w, ds, i) > 0
                        /\ 5 * CellsOn(w, ds, i) >= Cardinality(Cells(w.bounds))}

(* They are the displays BestDisplay considers. *)
LEMMA DisplaysByCells ==
  ASSUME NEW w, IsRect(w.bounds), NEW ds, IsScreens(ds), w.layer = 0, Area(w.bounds) > 0
  PROVE  DisplaysOf(w, ds) = Showing(w.bounds, ds, Len(ds))
<1> SUFFICES ASSUME NEW i \in 1 .. Len(ds)
             PROVE  /\ CellsOn(w, ds, i) > 0
                    /\ 5 * CellsOn(w, ds, i) >= Cardinality(Cells(w.bounds))
                    <=> ShowsEnough(w.bounds, ds[i])
  BY DEF DisplaysOf, Showing
<1>1. Area(w.bounds) = Cardinality(Cells(w.bounds)) /\ Area(w.bounds) \in Nat
  BY AreaCounts
<1>2. /\ IntersectionArea(w.bounds, ds[i]) = CellsOn(w, ds, i)
      /\ IntersectionArea(w.bounds, ds[i]) \in Nat
  BY IntersectionCounts DEF IsScreens, CellsOn
<1>3. QED
  BY <1>1, <1>2 DEF ShowsEnough

(* A window is listed where cells of it are seen, on its best display. *)
LEMMA VisibleByCells ==
  ASSUME NEW w, IsRect(w.bounds), NEW ds, IsScreens(ds)
  PROVE  LET d == BestDisplay(w.bounds, ds)
         IN  /\ IsVisible(w, ds) <=> DisplaysOf(w, ds) # {}
             /\ IsVisible(w, ds) =>
                  /\ d \in DisplaysOf(w, ds)
                  /\ \A j \in DisplaysOf(w, ds) :
                       \/ CellsOn(w, ds, d) > CellsOn(w, ds, j)
                       \/ CellsOn(w, ds, d) = CellsOn(w, ds, j) /\ d <= j
<1> DEFINE d == BestDisplay(w.bounds, ds)
<1>1. CASE w.layer # 0
  BY <1>1 DEF IsVisible, DisplaysOf
<1>2. CASE w.layer = 0 /\ ~ (Area(w.bounds) > 0)
  <2>1. Area(w.bounds) = 0 /\ Cardinality(Cells(w.bounds)) = 0
    BY <1>2, AreaCounts
  <2>2. d = None
    BY <2>1 DEF BestDisplay
  <2>3. ASSUME NEW i \in 1 .. Len(ds) PROVE ~ (CellsOn(w, ds, i) > 0)
    <3>1. IsFiniteSet(Cells(w.bounds))
      BY AreaCounts
    <3>2. Cells(w.bounds) = {}
      BY <2>1, <3>1, FS_EmptySet
    <3>3. CellsOn(w, ds, i) = 0
      BY <3>2, FS_EmptySet DEF CellsOn
    <3>4. QED
      BY <3>3
  <2>4. QED
    BY <2>2, <2>3 DEF IsVisible, DisplaysOf
<1>3. CASE w.layer = 0 /\ Area(w.bounds) > 0
  <2>1. DisplaysOf(w, ds) = Showing(w.bounds, ds, Len(ds))
    BY <1>3, DisplaysByCells
  <2>2. IsBest(w.bounds, ds, Len(ds), d)
    BY <1>3, BestDisplayIsBest
  <2> HIDE DEF d
  <2>3. CASE DisplaysOf(w, ds) = {}
    <3>1. d = None
      BY <2>1, <2>2, <2>3 DEF IsBest
    <3>2. QED
      BY <2>3, <3>1 DEF IsVisible, d
  <2>4. CASE DisplaysOf(w, ds) # {}
    <3>1. d \in DisplaysOf(w, ds) /\ \A j \in DisplaysOf(w, ds) : Beats(w.bounds, ds, d, j)
      BY <2>1, <2>2, <2>4 DEF IsBest
    <3>2. d \in 1 .. Len(ds) /\ d # None
      <4>1. d \in 1 .. Len(ds) /\ d \in Nat
        BY <3>1 DEF DisplaysOf, IsScreens
      <4>2. QED
        BY <4>1, SampleAssumption
    <3>3. \A i \in 1 .. Len(ds) : IntersectionArea(w.bounds, ds[i]) = CellsOn(w, ds, i)
      BY IntersectionCounts DEF IsScreens, CellsOn
    <3>4. \A j \in DisplaysOf(w, ds) :
            \/ CellsOn(w, ds, d) > CellsOn(w, ds, j)
            \/ CellsOn(w, ds, d) = CellsOn(w, ds, j) /\ d <= j
      <4>1. \A j \in DisplaysOf(w, ds) : j \in 1 .. Len(ds)
        BY DEF DisplaysOf
      <4>2. QED
        BY <3>1, <3>2, <3>3, <4>1 DEF Beats
    <3>5. IsVisible(w, ds)
      BY <1>3, <3>2 DEF IsVisible, d
    <3>6. QED
      BY <2>4, <3>1, <3>4, <3>5 DEF d
  <2>5. QED
    BY <2>3, <2>4
<1>4. QED
  BY <1>1, <1>2, <1>3

(* The screen as read has bounds in whole units, and once the focus was    *)
(* read the sample is on the display of its foremost listed window.        *)
Own == {i \in VisibleWindows(windows, displays) : windows[i].pid = app.pid}

ScreenInv ==
  /\ DOMAIN windows \subseteq Nat /\ \A i \in DOMAIN windows : IsRect(windows[i].bounds)
  /\ IsScreens(displays)
  /\ pc \in {"details", "panes", "entries"} /\ Own # {} =>
       display = BestDisplay(windows[Min(Own)].bounds, displays)

(* At first no window and no display was read. *)
LEMMA ScreenInit ==
  ASSUME windows = <<>>, displays = <<>>, pc = "idle"
  PROVE  ScreenInv
BY DEF ScreenInv, IsScreens

(* Every step keeps the screen as it was read. *)
LEMMA ScreenStep ==
  ASSUME AppInv, ScreenInv, [Next]_vars
  PROVE  ScreenInv'
<1>1. CASE UNCHANGED <<pc, locals>>
  BY <1>1 DEF ScreenInv, Own, VisibleWindows, locals
<1>2. CASE Begin
  <2>1. windows' = WindowList /\ displays' = displays /\ pc' = "displays"
    BY <1>2 DEF Begin
  <2>2. /\ DOMAIN WindowList \subseteq DOMAIN scene.windows
        /\ \A i \in DOMAIN WindowList : WindowList[i] = scene.windows[i]
    BY DEF WindowList, Restrict
  <2>3. /\ DOMAIN WindowList \subseteq Nat
        /\ \A i \in DOMAIN WindowList : IsRect(WindowList[i].bounds)
    BY <2>2, SampleAssumption DEF AppInv
  <2>4. QED
    BY <2>1, <2>3 DEF ScreenInv
<1>3. CASE ReadDisplays
  <2>1. displays' = scene.displays /\ windows' = windows /\ pc' = "choose"
    BY <1>3 DEF ReadDisplays
  <2>2. IsScreens(scene.displays)
    BY SampleAssumption DEF AppInv, IsScreens
  <2>3. QED
    BY <2>1, <2>2 DEF ScreenInv
<1>4. ASSUME NEW pid \in Apps \cup {None}, Choose(pid) PROVE ScreenInv'
  <2>1. CASE UNCHANGED <<windows, displays>> /\ pc' = "focus"
    BY <2>1 DEF ScreenInv
  <2>2. CASE windows' = <<>> /\ displays' = <<>> /\ pc' = "idle"
    BY <2>2 DEF ScreenInv, IsScreens
  <2>3. QED
    BY <1>4, <2>1, <2>2 DEF Choose, ResetLocals
<1>5. CASE Focus
  <2>1. /\ UNCHANGED <<windows, displays>> /\ pc = "focus" /\ display' = DisplayFor
        /\ app' = app
    BY <1>5 DEF Focus
  <2>2. Own' = Own
    BY <2>1 DEF Own, VisibleWindows
  <2>3. Own # {} => display' = BestDisplay(windows[Min(Own)].bounds, displays)
    BY <2>1 DEF DisplayFor, Own
  <2>4. QED
    BY <2>1, <2>2, <2>3 DEF ScreenInv
<1>6. CASE Extract
  <2>1. /\ UNCHANGED <<windows, displays, app, display>> /\ pc = "details"
    BY <1>6 DEF Extract
  <2>2. Own' = Own
    BY <2>1 DEF Own, VisibleWindows
  <2>3. QED
    BY <2>1, <2>2 DEF ScreenInv
<1>7. CASE ReadPanes
  <2>1. /\ UNCHANGED <<windows, displays, app, display>> /\ pc = "panes"
    BY <1>7 DEF ReadPanes
  <2>2. Own' = Own
    BY <2>1 DEF Own, VisibleWindows
  <2>3. QED
    BY <2>1, <2>2 DEF ScreenInv
<1>8. ASSUME NEW silent, Store(silent) PROVE ScreenInv'
  <2>1. windows' = <<>> /\ displays' = <<>> /\ pc' = "idle"
    BY <1>8 DEF Store, ResetLocals
  <2>2. QED
    BY <2>1 DEF ScreenInv, IsScreens
<1>9. QED
  BY <1>1, <1>2, <1>3, <1>4, <1>5, <1>6, <1>7, <1>8 DEF Next, vars, Change, Quit, Register

(* What VisibleAsSeen says of a record about pid on display at, made from  *)
(* the windows ws and the displays ds.                                     *)
AsSeen(ws, ds, visible, pid, at) ==
  LET listed == {i \in DOMAIN ws : DisplaysOf(ws[i], ds) # {}}
      own == {i \in listed : ws[i].pid = pid}
  IN  /\ DOMAIN visible = listed
      /\ \A i \in listed :
           LET w == ws[i]
               d == visible[i].display
           IN  /\ visible[i].number = w.number
               /\ d \in DisplaysOf(w, ds)
               /\ \A j \in DisplaysOf(w, ds) :
                    \/ CellsOn(w, ds, d) > CellsOn(w, ds, j)
                    \/ CellsOn(w, ds, d) = CellsOn(w, ds, j) /\ d <= j
      /\ own # {} => at = visible[Min(own)].display

(* A record that is stored shows the windows on the displays they are on. *)
LEMMA StoreShowsVisible ==
  ASSUME ScreenInv, NEW silent, Store(silent)
  PROVE  VisibleAsSeen'
<1> DEFINE on(w) == DisplaysOf(w, displays)
           listed == {i \in DOMAIN windows : on(windows[i]) # {}}
           visible == record'.visible
           own == {i \in listed : windows[i].pid = app.pid}
<1>1. /\ record'.pid = app.pid /\ record'.display = display
      /\ visible = [i \in VisibleWindows(windows, displays) |->
                      RedactEntry(Entry(windows[i], silent))]
      /\ origin' = [app |-> app, known |-> alive \ unknown, windows |-> windows,
                    displays |-> displays, tree |-> tree, table |-> table]
      /\ pc = "entries"
  BY StoredRecord
<1>2. \A i \in DOMAIN windows :
        LET w == windows[i]
            d == BestDisplay(w.bounds, displays)
        IN  /\ IsVisible(w, displays) <=> on(w) # {}
            /\ IsVisible(w, displays) =>
                 /\ d \in on(w)
                 /\ \A j \in on(w) :
                      \/ CellsOn(w, displays, d) > CellsOn(w, displays, j)
                      \/ CellsOn(w, displays, d) = CellsOn(w, displays, j) /\ d <= j
  BY VisibleByCells DEF ScreenInv
<1>3. VisibleWindows(windows, displays) = listed
  BY <1>2 DEF VisibleWindows
<1>4. DOMAIN visible = listed
  BY <1>1, <1>3
<1>5. \A i \in listed :
        /\ visible[i].number = windows[i].number
        /\ visible[i].display = BestDisplay(windows[i].bounds, displays)
  <2> SUFFICES ASSUME NEW i \in listed
               PROVE  /\ visible[i].number = windows[i].number
                      /\ visible[i].display = BestDisplay(windows[i].bounds, displays)
    OBVIOUS
  <2> DEFINE entry == Entry(windows[i], silent)
  <2>1. visible[i] = RedactEntry(entry)
    BY <1>1, <1>3
  <2>2. /\ entry.number = windows[i].number
        /\ entry.display = BestDisplay(windows[i].bounds, displays)
        /\ entry = [number |-> entry.number, bundle |-> entry.bundle,
                    display |-> entry.display, title |-> entry.title]
    BY DEF Entry
  <2> HIDE DEF entry
  <2>3. RedactEntry(entry).number = entry.number /\ RedactEntry(entry).display = entry.display
    BY <2>2 DEF RedactEntry
  <2>4. QED
    BY <2>1, <2>2, <2>3
<1>6. \A i \in listed :
        LET w == windows[i]
            d == visible[i].display
        IN  /\ visible[i].number = w.number
            /\ d \in on(w)
            /\ \A j \in on(w) :
                 \/ CellsOn(w, displays, d) > CellsOn(w, displays, j)
                 \/ CellsOn(w, displays, d) = CellsOn(w, displays, j) /\ d <= j
  <2>1. \A i \in listed : i \in DOMAIN windows /\ IsVisible(windows[i], displays)
    BY <1>2
  <2> HIDE DEF listed, visible, on
  <2>2. QED
    BY <1>2, <1>5, <2>1
<1>7. own # {} => display = visible[Min(own)].display
  <2>1. own = Own
    BY <1>3 DEF Own
  <2>2. own \subseteq listed /\ own \subseteq Nat
    BY DEF ScreenInv
  <2> HIDE DEF own, listed, visible
  <2> SUFFICES ASSUME own # {} PROVE display = visible[Min(own)].display
    OBVIOUS
  <2>3. Min(own) \in own
    <3>1. \E m \in own : \A n \in own : m <= n
      BY <2>2, Foremost
    <3>2. QED
      BY <3>1 DEF Min
  <2>4. display = BestDisplay(windows[Min(own)].bounds, displays)
    BY <1>1, <2>1 DEF ScreenInv
  <2>5. QED
    BY <1>5, <2>2, <2>3, <2>4
<1>8. AsSeen(windows, displays, visible, app.pid, display)
  BY <1>4, <1>6, <1>7 DEF AsSeen
<1>9. AsSeen(origin'.windows, origin'.displays, record'.visible, record'.pid, record'.display)
  BY <1>1, <1>8
<1>10. QED
  BY <1>9, Zenon DEF VisibleAsSeen, AsSeen, DisplaysOf, CellsOn

(***************************************************************************)
(* By counting cells, a record lists exactly the ordinary windows of which *)
(* a fifth lies on one display, each on the display that shows most of it  *)
(* and the first of equals, and is itself on the display of its foremost   *)
(* listed window: best_display's areas, its threshold and its order, for   *)
(* every screen and however it changes while the sample is assembled.      *)
(***************************************************************************)
THEOREM VisibleAsSeenAlways == Spec => []VisibleAsSeen
<1>1. Init => AppInv /\ ScreenInv /\ VisibleAsSeen
  BY SampleInit, ScreenInit DEF Init, VisibleAsSeen
<1>2. AppInv /\ ScreenInv /\ VisibleAsSeen /\ [Next]_vars
        => AppInv' /\ ScreenInv' /\ VisibleAsSeen'
  <2> SUFFICES ASSUME AppInv, ScreenInv, VisibleAsSeen, [Next]_vars PROVE VisibleAsSeen'
    BY AppStep, ScreenStep
  <2>1. CASE UNCHANGED <<record, origin, rules>>
    BY <2>1, ZenonT(40) DEF VisibleAsSeen
  <2>2. CASE origin' = None
    BY <2>2 DEF VisibleAsSeen
  <2>3. QED
    BY <2>1, <2>2, RecordSteps, StoreShowsVisible
<1>3. QED
  BY <1>1, <1>2, PTL DEF Spec
=============================================================================
