---------------------------- MODULE MCObservers ----------------------------
(* Two applications and a view service that is none; the system sources,   *)
(* or a script with a line that is not understood.                         *)
EXTENDS Observers

MCScripts == {<<>>,
              <<[name |-> "title_changed", pid |-> TRUE],
                [name |-> "title_changed", pid |-> FALSE],
                [name |-> "screen_locked", pid |-> FALSE]>>}
=============================================================================
