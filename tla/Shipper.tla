------------------------------ MODULE Shipper -------------------------------
(***************************************************************************)
(* The shipper of src/runtime/ship.rs at work on the buffer, with the two  *)
(* tasks it shares the runtime with: the record writer (absorb and store   *)
(* in src/runtime/mod.rs), which enqueues emissions and may ask for an     *)
(* urgent shipment, and main (src/main.rs), which stops the daemon, flushes*)
(* one last batch and exits to be started again.                           *)
(*                                                                         *)
(* A step of the shipper ends at the await where another task may run: the *)
(* take_batch command, the POST, and the answer together with the buffer   *)
(* command it leads to.  The service is external.                          *)
(***************************************************************************)
EXTENDS Buffer, Sequences

CONSTANTS
  MinBatch,        \* MIN_BATCH
  BackoffStart,    \* BACKOFF_START
  BackoffCeiling,  \* BACKOFF_CEILING
  ShipNowQueue,    \* SHIP_NOW_QUEUE
  Statuses,        \* the HTTP statuses the service and its proxies answer with
  Lives            \* bound: how often the daemon is stopped or crashes

ASSUME ShipperAssumption ==
  /\ MinBatch \in 1..MaxBatch
  /\ BackoffStart \in Nat \ {0}
  /\ BackoffCeiling \in Nat /\ BackoffCeiling >= BackoffStart
  /\ ShipNowQueue \in Nat \ {0}
  /\ Statuses \subseteq Nat
  /\ Lives \in Nat

VARIABLES
  phase,           \* where main is: running, stopping, final, closed
  pc,              \* where the shipper is: loop, posting, paused
  batch_size,      \* Shipper::batch_size
  backoff,         \* run's backoff
  draining,        \* in drain, for a request taken from urgent
  urgent,          \* requests waiting in the channel `urgent`
  awaited,         \* the record writer waits for the last request it made
  progress,        \* what the last ship_once returned
  deaths,          \* stops and crashes so far
  posted,          \* history: seqs the shipper has put on the wire
  held             \* the service: seqs it has stored or refused for good

shipping == <<pc, batch_size, backoff, draining, progress>>
asking == <<urgent, awaited>>
runVars == <<vars, phase, shipping, asking, deaths, posted, held>>
-----------------------------------------------------------------------------
(***************************************************************************)
(* decide: what becomes of a batch of `len` records answered with `status` *)
(* and a body that accounts for `counted` of them.  A body that does not   *)
(* parse counts as one that does not add up.                               *)
(***************************************************************************)
Configuration == {401, 403, 404, 405, 407}
TryLater == {408, 425, 429}

(* Mutant of Decide: deletes on the strength of the status line. *)
TrustStatusLine(status, counted, len) ==
  IF status = 200 THEN "delete"
  ELSE IF status \in Configuration \cup TryLater THEN "keep"
  ELSE IF status = 413 THEN "shrink"
  ELSE IF status \in 400..499 THEN "dead_letter"
  ELSE "keep"

Decide(status, counted, len) ==
  IF status = 200 THEN (IF counted = len THEN "delete" ELSE "keep")
  ELSE IF status \in Configuration \cup TryLater THEN "keep"
  ELSE IF status = 413 THEN "shrink"
  ELSE IF status \in 400..499 THEN "dead_letter"
  ELSE "keep"

RunInit ==
  /\ Init
  /\ phase = "running"
  /\ pc = "loop"
  /\ batch_size = MaxBatch
  /\ backoff = BackoffStart
  /\ draining = FALSE
  /\ progress = "idle"
  /\ urgent = 0
  /\ awaited = FALSE
  /\ deaths = 0
  /\ posted = {}
  /\ held = {}
-----------------------------------------------------------------------------
(* The record writer. *)

(* ShipNow::within: a request finds room in the channel, or is given up. *)
Ask ==
  \/ urgent < ShipNowQueue /\ urgent' = urgent + 1 /\ awaited' = TRUE
  \/ urgent = ShipNowQueue /\ UNCHANGED asking

(***************************************************************************)
(* store: one emission is enqueued, and one with ships_before_commit also  *)
(* asks for a shipment.  The writer handles one emission at a time, and    *)
(* those still queued when the daemon stops.                               *)
(***************************************************************************)
Store(n, size, update) ==
  /\ phase \in {"running", "stopping"}
  /\ ~ awaited
  /\ Enqueue(n, size, update)
  /\ UNCHANGED asking \/ Ask
  /\ UNCHANGED <<phase, shipping, deaths, posted, held>>

(* The budget of `within` runs out: the request stays in the channel. *)
GiveUp ==
  /\ awaited
  /\ awaited' = FALSE
  /\ UNCHANGED <<vars, phase, shipping, urgent, deaths, posted, held>>
-----------------------------------------------------------------------------
(* The shipper. *)

(* The awaited request, if it is the one being served, is not any longer. *)
Released == awaited' = (awaited /\ ~ (draining /\ urgent = 0))

(***************************************************************************)
(* What follows ship_once: main closes the buffer after the final one;     *)
(* drain goes on until nothing is left or a batch is kept, and answers;    *)
(* run pauses when it is idle or kept a batch, and resets or doubles its   *)
(* backoff.                                                                *)
(***************************************************************************)
AfterFinal ==
  /\ phase = "final"
  /\ phase' = "closed" /\ pc' = "loop"
  /\ UNCHANGED <<backoff, draining, asking>>

(* Mutant of Drained: one batch is taken for all of them. *)
DrainedOnce(result) == result # "shrunk"

Drained(result) == result \in {"idle", "kept"}

AfterDrain(result) ==
  /\ phase = "running" /\ draining
  /\ pc' = "loop"
  /\ \/ Drained(result) /\ draining' = FALSE /\ Released /\ UNCHANGED urgent
     \/ ~ Drained(result) /\ UNCHANGED <<draining, asking>>
  /\ UNCHANGED <<phase, backoff>>

Doubled == IF 2 * backoff < BackoffCeiling THEN 2 * backoff ELSE BackoffCeiling

AfterRun(result) ==
  /\ phase = "running" /\ ~ draining
  /\ \/ result = "idle" /\ pc' = "paused" /\ UNCHANGED backoff
     \/ result = "kept" /\ pc' = "paused" /\ backoff' = Doubled
     \/ ~ Drained(result) /\ pc' = "loop" /\ backoff' = BackoffStart
  /\ UNCHANGED <<phase, draining, asking>>

After(result) ==
  /\ progress' = result
  /\ AfterFinal \/ AfterDrain(result) \/ AfterRun(result)

(* ship_once up to the POST, or all of it when nothing is pending. *)
Ship ==
  /\ phase \in {"running", "final"} /\ pc = "loop"
  /\ TakeBatch(batch_size)
  /\ \/ batch' = EmptyTable /\ After("idle") /\ UNCHANGED posted
     \/ /\ batch' # EmptyTable
        /\ pc' = "posting"
        /\ posted' = posted \cup Seqs(batch')
        /\ UNCHANGED <<phase, backoff, draining, progress, asking>>
  /\ UNCHANGED <<batch_size, deaths, held>>

(* Whatever the outcome, the rest of ship_once runs to the next await. *)
Settled(result) == After(result) /\ UNCHANGED <<deaths, posted, held>>

(* Mutant of Half: no floor. *)
HalfWithoutFloor(n) == n \div 2

Half(n) == IF n \div 2 > MinBatch THEN n \div 2 ELSE MinBatch

Delete ==
  DeleteBatch /\ UNCHANGED batch_size /\ Settled("shipped")

Keep ==
  Forget /\ UNCHANGED batch_size /\ Settled("kept")

Refuse ==
  DeadLetter /\ UNCHANGED batch_size /\ Settled("dead_lettered")

(* Mutant of Shrink: 413 at the floor tries the same batch again. *)
ShrinkForEver ==
  /\ batch_size' = Half(Cardinality(DOMAIN batch))
  /\ Forget
  /\ Settled("shrunk")

Shrink ==
  \/ batch_size <= MinBatch /\ Refuse
  \/ /\ batch_size > MinBatch
     /\ batch_size' = Half(Cardinality(DOMAIN batch))
     /\ Forget
     /\ Settled("shrunk")

Apply(disposition) ==
  \/ disposition = "delete" /\ Delete
  \/ disposition = "keep" /\ Keep
  \/ disposition = "dead_letter" /\ Refuse
  \/ disposition = "shrink" /\ Shrink

(***************************************************************************)
(* The service (external) takes in a posted record at any time, also after *)
(* the shipper stopped waiting for the answer; a record it holds already   *)
(* is a duplicate.  It accounts for every record of a batch only when it   *)
(* holds them all.                                                         *)
(***************************************************************************)
Serve(s) ==
  /\ s \in posted \ held
  /\ held' = held \cup {s}
  /\ UNCHANGED <<vars, phase, shipping, asking, deaths, posted>>

MayCount(counted) == counted = Cardinality(DOMAIN batch) => Seqs(batch) \subseteq held

(* The POST returns an answer. *)
Answered(status, counted) ==
  /\ pc = "posting"
  /\ status = 200 => MayCount(counted)
  /\ Apply(Decide(status, counted, Cardinality(DOMAIN batch)))

(* The POST fails: no connection, no answer in time, a body cut short. *)
Failed == pc = "posting" /\ Keep

(* The pause ends by itself, or with a request for an urgent shipment. *)
Wake ==
  /\ phase = "running" /\ pc = "paused"
  /\ pc' = "loop"
  /\ UNCHANGED <<vars, phase, batch_size, backoff, draining, progress, asking,
                 deaths, posted, held>>

(* Mutant of TakeRequest: no request interrupts a backoff. *)
TakeRequestWhenIdle ==
  /\ phase = "running" /\ pc = "paused" /\ urgent > 0 /\ progress = "idle"
  /\ pc' = "loop" /\ draining' = TRUE
  /\ urgent' = urgent - 1
  /\ UNCHANGED <<vars, phase, batch_size, backoff, progress, awaited,
                 deaths, posted, held>>

TakeRequest ==
  /\ phase = "running" /\ pc = "paused" /\ urgent > 0
  /\ pc' = "loop" /\ draining' = TRUE
  /\ urgent' = urgent - 1
  /\ UNCHANGED <<vars, phase, batch_size, backoff, progress, awaited,
                 deaths, posted, held>>
-----------------------------------------------------------------------------
(* The daemon. *)

(* Mutant of LetGo: the counter is not read back from the database. *)
LetGoOfSeq ==
  /\ batch' = EmptyTable /\ seq' = 0
  /\ UNCHANGED <<pending, dead_letter, cursors, history>>

(* Forget, also when no batch is held. *)
LetGo == batch' = EmptyTable /\ UNCHANGED <<durable, history>>

(***************************************************************************)
(* A signal, a replaced binary or a buffer command that fails in the       *)
(* shipper ends `run`: its future is dropped where it stands, the request  *)
(* it serves with it.  The providers are aborted, the record writer goes   *)
(* on with what is queued.                                                 *)
(***************************************************************************)
Stop ==
  /\ phase = "running" /\ deaths < Lives
  /\ phase' = "stopping" /\ deaths' = deaths + 1
  /\ LetGo
  /\ pc' = "loop" /\ draining' = FALSE /\ Released
  /\ UNCHANGED <<batch_size, backoff, progress, urgent, posted, held>>

(* The record writer is done: main flushes the final batch. *)
Finish ==
  /\ phase = "stopping" /\ ~ awaited
  /\ phase' = "final"
  /\ UNCHANGED <<vars, shipping, asking, deaths, posted, held>>

(* The final ship_once loses the buffer: main logs it and closes. *)
FinalFails ==
  /\ phase = "final"
  /\ phase' = "closed" /\ pc' = "loop"
  /\ LetGo
  /\ UNCHANGED <<batch_size, backoff, draining, progress, asking,
                 deaths, posted, held>>

(* Pipeline::open after an exit: only the database survives. *)
Reopen ==
  /\ phase' = "running"
  /\ LetGo
  /\ pc' = "loop"
  /\ batch_size' = MaxBatch
  /\ backoff' = BackoffStart
  /\ draining' = FALSE
  /\ progress' = "idle"
  /\ urgent' = 0
  /\ awaited' = FALSE
  /\ UNCHANGED <<posted, held>>

Relaunch == phase = "closed" /\ Reopen /\ UNCHANGED deaths

(* The process dies anywhere and is launched again. *)
Crash == deaths < Lives /\ Reopen /\ deaths' = deaths + 1

RunNext ==
  \/ \E n \in 0..MaxDrafts : \E size \in [1..n -> Sizes] :
       \E update \in CursorUpdates : Store(n, size, update)
  \/ GiveUp
  \/ Ship
  \/ \E s \in 1..SeqBound : Serve(s)
  \/ \E status \in Statuses : \E counted \in 0..MaxBatch : Answered(status, counted)
  \/ Failed
  \/ Wake
  \/ TakeRequest
  \/ Stop
  \/ Finish
  \/ FinalFails
  \/ Relaunch
  \/ Crash

RunSpec == RunInit /\ [][RunNext]_runVars

(***************************************************************************)
(* Fairness.  The shipper's task, the record writer's and main's are       *)
(* polled as long as they can go on, and launchd keeps the daemon alive.   *)
(* A POST ends within REQUEST_TIMEOUT.  A request in the channel is ready  *)
(* the moment a pause begins, and select chooses among the ready branches. *)
(***************************************************************************)
PostEnds ==
  \/ Failed
  \/ \E status \in Statuses : \E counted \in 0..MaxBatch : Answered(status, counted)

(* An answer that does not keep the batch; 413 or 400 is good enough. *)
Useful ==
  \E status \in Statuses : \E counted \in 0..MaxBatch :
    /\ Answered(status, counted)
    /\ Decide(status, counted, Cardinality(DOMAIN batch)) # "keep"

Fairness ==
  /\ WF_runVars(Ship) /\ WF_runVars(PostEnds)
  /\ WF_runVars(Wake) /\ SF_runVars(TakeRequest)
  /\ WF_runVars(GiveUp) /\ WF_runVars(Finish) /\ WF_runVars(Relaunch)

(* Not a word about the service, which may be away for ever. *)
FairSpec == RunSpec /\ Fairness
-----------------------------------------------------------------------------
(* Every variable has its type. *)
RunTypeOK ==
  /\ TypeOK
  /\ phase \in {"running", "stopping", "final", "closed"}
  /\ pc \in {"loop", "posting", "paused"}
  /\ batch_size \in MinBatch..MaxBatch
  /\ backoff \in BackoffStart..BackoffCeiling
  /\ draining \in BOOLEAN /\ awaited \in BOOLEAN
  /\ urgent \in 0..ShipNowQueue
  /\ progress \in {"idle", "shipped", "kept", "dead_lettered", "shrunk"}
  /\ deaths \in 0..Lives
  /\ posted \subseteq 1..seq
  /\ held \subseteq posted

(***************************************************************************)
(* The service sees records in capture order: when a record is posted,     *)
(* every earlier one has been posted before or with it, or was evicted.    *)
(* Retries, shrunk batches, restarts and evictions under a batch in flight *)
(* do not let a later record overtake an earlier one.                      *)
(***************************************************************************)
NoOvertaking ==
  \A s \in posted : 1..s \subseteq posted \cup DOMAIN dropped

(***************************************************************************)
(* What `within` is answered for: when the writer that waits is released   *)
(* by the shipper, nothing it had buffered is pending any longer, or the   *)
(* last batch was kept because the service could not be reached.           *)
(***************************************************************************)
RequestHonoured ==
  [][phase = "running" /\ phase' = "running" /\ deaths' = deaths
       /\ draining /\ awaited /\ ~ draining' /\ ~ awaited'
     => pending' = EmptyTable \/ progress' = "kept"]_runVars

(***************************************************************************)
(* The composition only ever uses the buffer through its commands, so what *)
(* is proved of the buffer holds of it at work.                            *)
(***************************************************************************)
BufferSpec == Spec

(***************************************************************************)
(* The runtime keeps the promise of Outbox: a record leaves pending only   *)
(* when the service has really answered for it, when it is dead lettered   *)
(* or when an eviction reports it.                                         *)
(***************************************************************************)
Fate(s) ==
  IF s \in Seqs(pending) THEN "owed"
  ELSE IF s \in DOMAIN dropped THEN "lost"
  ELSE IF s \in parked THEN "parked"
  ELSE "answered"

Promise == INSTANCE Outbox WITH
  Burst <- MaxDrafts + 1, fate <- [s \in 1..seq |-> Fate(s)], held <- held

OutboxSpec == Promise!Spec

(***************************************************************************)
(* No record is stuck: where a service that is asked again and again does  *)
(* not keep the shipper retrying for ever, each one leaves pending         *)
(* eventually, whichever useful answers it gives, 413 every time included. *)
(***************************************************************************)
ServiceRecovers == SF_runVars(Useful)

EveryRecordLeaves ==
  ServiceRecovers =>
    \A s \in 1..SeqBound : s \in Seqs(pending) ~> s \notin Seqs(pending)

(***************************************************************************)
(* A request for an urgent shipment is taken up unless the daemon stops    *)
(* first, also while the service is away and the shipper backs off.        *)
(***************************************************************************)
RequestTakenUp ==
  \A d \in 0..Lives :
    (urgent > 0 /\ phase = "running" /\ deaths = d) ~> (draining \/ deaths > d)
=============================================================================
