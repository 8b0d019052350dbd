---------------------------- MODULE MCTranscript ----------------------------
(* A reply with tool calls, a title without an instant of its own, and an  *)
(* injected line that exceeds the cap of an import.                        *)
EXTENDS Transcript

Plain == [type |-> "user", len |-> 1, sidechain |-> FALSE, meta |-> FALSE, compact |-> FALSE,
          uuid |-> "u", ts |-> 5, texts |-> <<>>, tools |-> <<>>, value |-> NoCursor]

At(origin, dirs) == [start |-> origin, dirs |-> dirs]
Inside == At("home", <<"repo", "src">>)
Named == {Inside, At("root", <<"h", "notes">>), At("relative", <<"src">>)}

TestLines ==
  [reply |-> [Plain EXCEPT !.type = "assistant", !.len = 2, !.texts = <<"">>,
                           !.tools = <<[name |-> "Edit", paths |-> {Inside}],
                                       [name |-> "Bash", paths |-> Named]>>],
   title |-> [Plain EXCEPT !.type = "ai-title", !.ts = NoCursor, !.value = "title"],
   injected |-> [Plain EXCEPT !.len = 3, !.uuid = "v", !.ts = 7, !.meta = TRUE, !.texts = <<"">>]]

(* An import is older than `since` by one of its mtimes. *)
TwoTimes == {4, 9}

(* The home directory is under version control, too. *)
HomeDirectory == <<"h">>
TwoRepos == {<<"h">>, <<"h", "repo">>}
=============================================================================
