----------------------------- MODULE MCSources -----------------------------
(* The files are a good one and all that differ from it in two fields, at  *)
(* and around every limit, with up to three roots and imports.             *)
EXTENDS Sources

Path(start, name) == [start |-> start, name |-> name]
Work == Path("home", "claude-work")
Own == Path("absolute", "claude")
Entry(device, command, every) ==
  [device |-> device, dir |-> Own, since |-> "rfc3339",
   command |-> command, every |-> every]
Folder(device) == Entry(device, None, None)

Good == [service_url |-> "https", device |-> "mac", profile |-> "default",
         tick_interval |-> 1, history_poll_interval |-> 1, max_rows |-> 1,
         max_bytes |-> OverflowHeadroom + 1, poll_interval |-> 1,
         roots |-> <<Own, Work>>,
         imports |-> <<Entry("pi", <<Own>>, 1), Folder("nas")>>]

Choices ==
  [service_url |-> {"missing", "blank", "malformed", "ftp", "credentials",
                    "query", "http"},
   device |-> {"missing", "blank", "pi", "nas"},
   profile |-> {"missing", "blank"},
   tick_interval |-> {None, -1, 0, TickIntervalMax, TickIntervalMax + 1},
   history_poll_interval |-> {None, 0}, max_rows |-> {None, 0},
   max_bytes |-> {None, OverflowHeadroom}, poll_interval |-> {None, 0},
   roots |-> {None, <<>>, <<Path("relative", "claude")>>, <<Path("home", "")>>,
              <<Own, Own>>, <<Own, Work, Path("home", "claude")>>},
   imports |-> {None, <<>>, <<Folder("mac")>>, <<Folder("blank")>>,
                <<Folder("pi"), Folder("nas"), Folder("pi")>>,
                <<Entry("pi", <<>>, 1)>>, <<Entry("pi", <<Own>>, 0)>>,
                <<Entry("pi", <<Own>>, None)>>, <<Entry("pi", None, 1)>>,
                <<[Folder("pi") EXCEPT !.since = "malformed"]>>,
                <<[Folder("pi") EXCEPT !.dir = None]>>}]

Set(f, x, v) == [f EXCEPT ![x] = v]

MCFiles ==
  {Good} \cup
  UNION {UNION {UNION {{Set(Set(Good, x, v), y, w) : w \in Choices[y]}
                       : v \in Choices[x]} : y \in DOMAIN Choices}
         : x \in DOMAIN Choices}

(* One device is spelled like another with the start of a path after it. *)
MCSpelling ==
  [mac |-> <<"mac">>, pi |-> <<"p">>,
   nas |-> <<"p", ":", "/", "absolute", "claude">>]

MCTranscripts == {<<"/s">>, <<":", "/", "absolute", "claude", "/s">>}
=============================================================================
