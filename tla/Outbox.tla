------------------------------- MODULE Outbox -------------------------------
(***************************************************************************)
(* What the runtime promises about a captured record, without tables,      *)
(* batches, caps or a protocol.  A record is owed to the service from the  *)
(* moment it is captured until one of three things, each final, happens to *)
(* it: the service has answered for it, it is parked because the service   *)
(* refuses the batch it was in, or it is lost to make room.  Losses happen *)
(* only while something is captured, and the same capture adds a record    *)
(* that reports them.                                                      *)
(***************************************************************************)
EXTENDS Integers, Sequences

CONSTANT Burst    \* the greatest number of records one commit captures

VARIABLES
  fate,           \* the fate of every record captured so far, by its seq
  held            \* the records the service has stored or refused for good

Fates == {"owed", "answered", "parked", "lost"}

TypeInvariant == fate \in Seq(Fates) /\ held \subseteq 1..Len(fate)

Init == fate = <<>> /\ held = {}

(* Losing s is a change of its fate, or its fate from the start. *)
LostNow(s) == fate'[s] = "lost" /\ (s \in 1..Len(fate) => fate[s] # "lost")

Capture ==
  /\ Len(fate') \in (Len(fate) + 1)..(Len(fate) + Burst)
  /\ \A s \in 1..Len(fate) :
       \/ fate'[s] = fate[s]
       \/ fate[s] = "owed" /\ fate'[s] = "lost"
  /\ \A s \in (Len(fate) + 1)..Len(fate') : fate'[s] \in {"owed", "lost"}
  /\ (\E s \in 1..Len(fate') : LostNow(s)) => fate'[Len(fate')] = "owed"
  /\ UNCHANGED held

(* The service takes in a record. *)
Hear == \E s \in 1..Len(fate) : held' = held \cup {s} /\ UNCHANGED fate

(* Owed records get their final fate; "answered" only when it is true. *)
Settle(final) ==
  /\ Len(fate') = Len(fate)
  /\ \A s \in 1..Len(fate) :
       \/ fate'[s] = fate[s]
       \/ /\ fate[s] = "owed" /\ fate'[s] = final
          /\ final = "answered" => s \in held
  /\ UNCHANGED held

Next == Capture \/ Hear \/ Settle("answered") \/ Settle("parked")

Spec == Init /\ [][Next]_<<fate, held>>
=============================================================================
