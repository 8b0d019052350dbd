----------------------------- MODULE MCWindows -----------------------------
(* Two applications to tell the last activation of a burst from the first, *)
(* a title change, a marker, and counters of two bits that wrap at once.   *)
EXTENDS Windows

MCNotifications == {"AXApplicationActivated", "AXApplicationDeactivated",
                    "AXTitleChanged", "NSWorkspaceDidWake"}
=============================================================================
