------------------------------ MODULE MCSample ------------------------------
EXTENDS Sample

MCBundleOf(a) == [dia |-> "Dia", term |-> "Agterm", lock |-> "Lock",
                  tool |-> None][a]
MCBundles == [a \in {"dia", "term", "lock", "tool"} |-> MCBundleOf(a)]

Rectangle(x, y, w, h) == [x |-> x, y |-> y, width |-> w, height |-> h]
Window(pid, n, layer, bounds) ==
  [pid |-> pid, number |-> n, layer |-> layer, bounds |-> bounds]

(* The browser across two displays of equal size, the terminal a fifth on *)
(* the second, a tool with a panel above; or one display with the lock     *)
(* screen in front, the browser's two windows and the terminal hardly on it. *)
Desk ==
  [windows |-> <<Window("tool", "w1", 3, Rectangle(0, 0, 1, 1)),
                 Window("dia", "w2", 0, Rectangle(2, 0, 4, 2)),
                 Window("term", "w3", 0, Rectangle(3, 2, 5, 1)),
                 Window("tool", "w4", 0, Rectangle(9, 9, 1, 1))>>,
   displays |-> <<Rectangle(0, 0, 4, 3), Rectangle(4, 0, 4, 3)>>,
   focus |-> "dia", cursor |-> <<5, 1>>]
Locked ==
  [windows |-> <<Window("lock", "w5", 0, Rectangle(0, 0, 4, 3)),
                 Window("term", "w3", 0, Rectangle(3, 2, 5, 1)),
                 Window("dia", "w2", 0, Rectangle(0, 0, 2, 2)),
                 Window("dia", "w6", 0, Rectangle(1, 1, 3, 1)),
                 Window("tool", "w4", 0, Rectangle(0, 0, 0, 1))>>,
   displays |-> <<Rectangle(0, 0, 4, 3)>>,
   focus |-> "lock", cursor |-> <<7, 2>>]
MCScenes == {Desk, Locked}

Tree(quick, dashboard, zoomed) ==
  [session |-> "s", quick |-> quick, dashboard |-> dashboard,
   zoomed |-> zoomed, cwd |-> TRUE,
   surfaces |-> {[kind |-> "left", active |-> TRUE, visible |-> TRUE],
                 [kind |-> "right", active |-> FALSE, visible |-> TRUE]}]
MCTrees == {Tree(FALSE, FALSE, None), Tree(TRUE, FALSE, None),
            Tree(FALSE, TRUE, [session |-> "s", kind |-> "left"]),
            Tree(FALSE, FALSE, [session |-> "s", kind |-> "right"]),
            Tree(FALSE, FALSE, [session |-> "other", kind |-> "left"])}

Process(pid, pgid, tpgid, pane) ==
  [pid |-> pid, pgid |-> pgid, tpgid |-> tpgid, tty |-> TRUE,
   enabled |-> TRUE, session |-> "s", pane |-> pane, argv |-> TRUE,
   cwd |-> pane # None]
MCTables == {{Process(1, 1, 2, "left"), Process(2, 2, 2, "left"),
              Process(3, 2, 2, "left"), Process(4, 4, 4, "right")},
             {Process(2, 2, 2, None), Process(5, 5, 5, "left"),
              Process(6, 6, 6, "quick")},
             {[Process(2, 2, 2, "left") EXCEPT !.session = "other"],
              Process(7, 7, 7, None)}}

Url(parses, host) == [parses |-> parses, host |-> host, shown |-> "full"]
MCTabs == {[fields |-> 4, url |-> Url(TRUE, "bank"), title |-> "tab"],
           [fields |-> 4, url |-> Url(TRUE, "docs"), title |-> None],
           [fields |-> 4, url |-> Url(TRUE, None), title |-> "tab"],
           [fields |-> 4, url |-> Url(FALSE, None), title |-> "tab"],
           [fields |-> 1, url |-> None, title |-> None]}

Rule(host, keep, bundle, drop) ==
  [host |-> host, keep |-> keep, bundle |-> bundle, drop |-> drop]
MCRuleSets == {<<Rule("*", "full", None, FALSE), Rule("bank", None, "Dia", TRUE)>>,
               <<Rule("docs", "host", "Agterm", TRUE),
                 Rule("docs", "full", "Dia", FALSE)>>}
=============================================================================
