---------------------------- MODULE WebhookQueue ----------------------------
(***************************************************************************)
(* The durable webhook queue: the table sd_webhook_events and everything   *)
(* that moves a row of it while WEBHOOK_WORKER_ENABLED is true.            *)
(*                                                                         *)
(*   webhooks.ts          the endpoint that stores a delivery              *)
(*   webhook-worker.ts    the loop, its lease, the sweeper, the recovery   *)
(*   webhook-lifecycle.ts the states, the attempt budget                   *)
(*   sync.service.ts      an operator's replay, and payload retention      *)
(*                                                                         *)
(* One SQL statement is one step: every statement of the worker is a       *)
(* single conditional UPDATE.  A process may stop between any two steps,   *)
(* and a statement may commit without its reply reaching the process.      *)
(* What a payload does to the mirror is abstracted to the set of events    *)
(* whose payload has been offered to it.                                   *)
(***************************************************************************)
EXTENDS Naturals

CONSTANTS
  Events,       \* webhook ids Shopify delivers, possibly more than once
  Workers,      \* worker processes, by the id they write in lease_owner
  NoWorker,     \* lease_owner IS NULL
  Former,       \* the id of a process that is gone and comes back under another
  NoEvent,      \* no event in hand
  MaxAttempts,  \* MAX_ATTEMPTS
  LeaseTicks,   \* the lease, in ticks of its clock
  Poison,       \* events whose payload kills the process that applies it
  StableId,     \* is WEBHOOK_WORKER_ID set, so an id survives a restart?
  MaxStops,     \* bound: shutdowns and crashes not caused by a payload
  MaxReplays    \* bound: replays an operator asks for

ASSUME BudgetAssumption == MaxAttempts \in Nat \ {0} /\ LeaseTicks \in Nat \ {0}
ASSUME NullAssumption ==
  /\ NoWorker \notin Workers /\ NoEvent \notin Events
  /\ Former \notin Workers \cup {NoWorker}
ASSUME PoisonAssumption == Poison \subseteq Events /\ StableId \in BOOLEAN
ASSUME BoundAssumption == MaxStops \in Nat /\ MaxReplays \in Nat

VARIABLES
  row,         \* sd_webhook_events: one row per event
  mode,        \* life of each worker process
  recovering,  \* is the reclaimOwn of start() still in flight?
  pc,          \* where runOnce is
  hand,        \* what runOnce holds in its local variables
  applied,     \* events whose payload has been offered to the mirror
  announced,   \* events whose announcement was started
  replaying,   \* the event whose replay has passed its checks
  stops,       \* stops so far
  replays      \* replays so far

tables == <<row, applied, announced>>
process == <<mode, recovering, pc, hand>>
vars == <<row, mode, recovering, pc, hand, applied, announced,
          replaying, stops, replays>>

-----------------------------------------------------------------------------
(* The row.  due abstracts next_attempt_at: never (NULL), later, or now.   *)
(* lease counts down to 0, where lease_expires_at has passed.              *)

Finished == {"PROCESSED", "STALE"}
Terminal == Finished \cup {"DEAD"}
Status == {"PENDING", "PROCESSING", "FAILED"} \cup Terminal

Row == [status: Status \cup {"absent"}, attempts: 0..MaxAttempts,
        owner: Workers \cup {NoWorker, Former}, lease: 0..LeaseTicks,
        due: {"never", "later", "now"}, payload: BOOLEAN]

Hand == [event: Events \cup {NoEvent}, attempts: 0..MaxAttempts,
         payload: BOOLEAN, outcome: {"none", "FAILED"} \cup Terminal]

NoRow == [status |-> "absent", attempts |-> 0, owner |-> NoWorker,
          lease |-> 0, due |-> "never", payload |-> FALSE]

NewRow == [status |-> "PENDING", attempts |-> 0, owner |-> NoWorker,
           lease |-> 0, due |-> "now", payload |-> TRUE]

EmptyHand == [event |-> NoEvent, attempts |-> 0, payload |-> FALSE, outcome |-> "none"]

(* Names ending in _Bug are the definition that follows them with a        *)
(* plausible mistake in it.  Nothing uses them: they are there to show     *)
(* which property would notice the mistake.                                *)

Claimable(r) == r.status \in {"PENDING", "FAILED"} /\ r.due = "now"
Expired_Bug(r) == r.status = "PROCESSING"
Expired_Bug2(r) == r.status = "PROCESSING" /\ r.owner = NoWorker /\ r.lease = 0
Expired(r) == r.status = "PROCESSING" /\ r.lease = 0
OwnedBy(r, w) == r.status = "PROCESSING" /\ r.owner = w /\ r.lease > 0

Claimed(r, w) == [r EXCEPT !.status = "PROCESSING", !.owner = w, !.lease = LeaseTicks]
Requeued_Bug(r) == [r EXCEPT !.status = "PENDING", !.lease = 0, !.due = "now"]
Requeued(r) == [r EXCEPT !.status = "PENDING", !.owner = NoWorker,
                         !.lease = 0, !.due = "now"]

AfterFailure_Bug(n) == IF n > MaxAttempts THEN "DEAD" ELSE "FAILED"
AfterFailure(n) == IF n >= MaxAttempts THEN "DEAD" ELSE "FAILED"

Completed(r, outcome) ==
  [r EXCEPT !.status = outcome, !.attempts = @ + 1, !.owner = NoWorker, !.lease = 0,
            !.due = IF outcome = "FAILED" THEN "later" ELSE "never"]

Swept_Bug(r) == Requeued(r)

\* The sweeper counts the abandoned attempt; the last one retires the event.
Swept(r) ==
  IF r.attempts + 1 >= MaxAttempts
  THEN Completed(r, "DEAD")
  ELSE [Requeued(r) EXCEPT !.attempts = @ + 1]

Replayed(r) == [Requeued(r) EXCEPT !.attempts = 0]

Init ==
  /\ row = [e \in Events |-> NoRow]
  /\ mode = [w \in Workers |-> "down"]
  /\ recovering = [w \in Workers |-> FALSE]
  /\ pc = [w \in Workers |-> "idle"]
  /\ hand = [w \in Workers |-> EmptyHand]
  /\ applied = {}
  /\ announced = {}
  /\ replaying = NoEvent
  /\ stops = 0
  /\ replays = 0

-----------------------------------------------------------------------------
(* Deliveries, and the passing of time.                                    *)

\* A second delivery of the same id conflicts, and inserts nothing.
Receive(e) ==
  /\ row[e].status = "absent"
  /\ row' = [row EXCEPT ![e] = NewRow]
  /\ UNCHANGED <<process, applied, announced, replaying, stops, replays>>

LeaseTick(e) ==
  /\ row[e].status = "PROCESSING"
  /\ row[e].lease > 0
  /\ row' = [row EXCEPT ![e].lease = @ - 1]
  /\ UNCHANGED <<process, applied, announced, replaying, stops, replays>>

BecomeDue(e) ==
  /\ row[e].due = "later"
  /\ row' = [row EXCEPT ![e].due = "now"]
  /\ UNCHANGED <<process, applied, announced, replaying, stops, replays>>

\* runRetention clears old payloads, whatever state their event is in.
TrimPayload(e) ==
  /\ row[e].payload
  /\ row' = [row EXCEPT ![e].payload = FALSE]
  /\ UNCHANGED <<process, applied, announced, replaying, stops, replays>>

-----------------------------------------------------------------------------
(* The life of a worker process.                                           *)

\* reclaimOwn is started here and not awaited, so the loop runs beside it, and
\* its UPDATE may come after a claim of the process that is starting.
Start(w) ==
  /\ mode[w] = "down"
  /\ mode' = [mode EXCEPT ![w] = "up"]
  /\ recovering' = [recovering EXCEPT ![w] = TRUE]
  /\ UNCHANGED <<pc, hand, tables, replaying, stops, replays>>

ReclaimOwn(w) ==
  /\ recovering[w]
  /\ recovering' = [recovering EXCEPT ![w] = FALSE]
  /\ row' = [e \in Events |->
               IF row[e].status = "PROCESSING" /\ row[e].owner = w
               THEN Requeued(row[e]) ELSE row[e]]
  /\ UNCHANGED <<mode, pc, hand, applied, announced, replaying, stops, replays>>

\* The query fails: logged, never retried.
ReclaimOwnFails(w) ==
  /\ recovering[w]
  /\ recovering' = [recovering EXCEPT ![w] = FALSE]
  /\ UNCHANGED <<mode, pc, hand, tables, replaying, stops, replays>>

\* Rows keep the id they were claimed under, which the next process in this place
\* has only if the id is configured.  Otherwise nobody will ever match it again.
Orphaned(w) ==
  [e \in Events |->
     IF row[e].owner = w THEN [row[e] EXCEPT !.owner = Former] ELSE row[e]]

\* The process is gone, and with it everything it held in memory.
Die(w) ==
  /\ row' = IF StableId THEN row ELSE Orphaned(w)
  /\ mode' = [mode EXCEPT ![w] = "down"]
  /\ recovering' = [recovering EXCEPT ![w] = FALSE]
  /\ pc' = [pc EXCEPT ![w] = "idle"]
  /\ hand' = [hand EXCEPT ![w] = EmptyHand]
  /\ UNCHANGED <<applied, announced, replaying, replays>>

Crash(w) ==
  /\ mode[w] # "down"
  /\ stops < MaxStops
  /\ stops' = stops + 1
  /\ Die(w)

Kills(h) == h.event \in Poison /\ h.payload

PoisonCrash(w) ==
  /\ pc[w] = "applying"
  /\ Kills(hand[w])
  /\ Die(w)
  /\ UNCHANGED stops

\* onApplicationShutdown: no more claims and no more sweeps ...
Shutdown(w) ==
  /\ mode[w] = "up"
  /\ stops < MaxStops
  /\ stops' = stops + 1
  /\ mode' = [mode EXCEPT ![w] = "stopping"]
  /\ UNCHANGED <<recovering, pc, hand, tables, replaying, replays>>

\* ... and the process ends once the event in hand is finished.
Stopped(w) ==
  /\ mode[w] = "stopping"
  /\ pc[w] = "idle"
  /\ Die(w)
  /\ UNCHANGED stops

-----------------------------------------------------------------------------
(* runOnce: claim, apply, complete, announce.                              *)

Release(w) ==
  /\ pc' = [pc EXCEPT ![w] = "idle"]
  /\ hand' = [hand EXCEPT ![w] = EmptyHand]

\* FOR UPDATE SKIP LOCKED: one worker gets the row.  Oldest first is a matter
\* of latency; here any due row may be the one that is taken.
Claim(w, e) ==
  /\ mode[w] = "up"
  /\ pc[w] = "idle"
  /\ Claimable(row[e])
  /\ row' = [row EXCEPT ![e] = Claimed(row[e], w)]
  /\ pc' = [pc EXCEPT ![w] = "applying"]
  /\ hand' = [hand EXCEPT ![w] =
       [event |-> e, attempts |-> row[e].attempts,
        payload |-> row[e].payload, outcome |-> "none"]]
  /\ UNCHANGED <<mode, recovering, applied, announced, replaying, stops, replays>>

\* The claim commits and its reply is lost: the loop logs an error and waits.
ClaimReplyLost(w, e) ==
  /\ mode[w] = "up"
  /\ pc[w] = "idle"
  /\ Claimable(row[e])
  /\ row' = [row EXCEPT ![e] = Claimed(row[e], w)]
  /\ UNCHANGED <<process, applied, announced, replaying, stops, replays>>

\* The payload goes through its guarded writes: written, or older than what is
\* stored.  Deliberately no look at the lease.
Apply(w) ==
  /\ pc[w] = "applying"
  /\ hand[w].payload
  /\ ~ Kills(hand[w])
  /\ applied' = applied \cup {hand[w].event}
  /\ \E outcome \in Finished : hand' = [hand EXCEPT ![w].outcome = outcome]
  /\ pc' = [pc EXCEPT ![w] = "completing"]
  /\ UNCHANGED <<row, mode, recovering, announced, replaying, stops, replays>>

\* It throws, as it must when retention has cleared the payload.  fail() picks
\* the outcome from the attempts read at the claim.
ApplyThrows(w) ==
  /\ pc[w] = "applying"
  /\ ~ Kills(hand[w])
  /\ hand' = [hand EXCEPT ![w].outcome = AfterFailure(hand[w].attempts + 1)]
  /\ pc' = [pc EXCEPT ![w] = "completing"]
  /\ UNCHANGED <<mode, recovering, tables, replaying, stops, replays>>

\* The completing statement without its ownership predicate.
Complete_Bug(w) ==
  LET e == hand[w].event IN
  /\ pc[w] = "completing"
  /\ row' = [row EXCEPT ![e] = Completed(row[e], hand[w].outcome)]
  /\ IF hand[w].outcome = "PROCESSED"
     THEN pc' = [pc EXCEPT ![w] = "announcing"] /\ UNCHANGED hand
     ELSE Release(w)
  /\ UNCHANGED <<mode, recovering, applied, announced, replaying, stops, replays>>

\* Only PROCESSED is announced; any other outcome ends the round.
Complete(w) ==
  LET e == hand[w].event IN
  /\ pc[w] = "completing"
  /\ OwnedBy(row[e], w)
  /\ row' = [row EXCEPT ![e] = Completed(row[e], hand[w].outcome)]
  /\ IF hand[w].outcome = "PROCESSED"
     THEN pc' = [pc EXCEPT ![w] = "announcing"] /\ UNCHANGED hand
     ELSE Release(w)
  /\ UNCHANGED <<mode, recovering, applied, announced, replaying, stops, replays>>

\* The guarded UPDATE returned no row: say nothing, write nothing.
LoseClaim(w) ==
  /\ pc[w] = "completing"
  /\ ~ OwnedBy(row[hand[w].event], w)
  /\ Release(w)
  /\ UNCHANGED <<mode, recovering, tables, replaying, stops, replays>>

\* The completing statement throws, having committed or not.  Recording success
\* falls into the catch and tries to record a failure; recording a failure
\* leaves the round to the loop's own catch.
CompleteErrors(w) ==
  LET e == hand[w].event IN
  /\ pc[w] = "completing"
  /\ \/ UNCHANGED row
     \/ /\ OwnedBy(row[e], w)
        /\ row' = [row EXCEPT ![e] = Completed(row[e], hand[w].outcome)]
  /\ IF hand[w].outcome \in Finished
     THEN /\ hand' = [hand EXCEPT ![w].outcome = AfterFailure(hand[w].attempts + 1)]
          /\ UNCHANGED pc
     ELSE Release(w)
  /\ UNCHANGED <<mode, recovering, applied, announced, replaying, stops, replays>>

\* Whatever announcing throws is logged: the event is finished.
Announce(w) ==
  /\ pc[w] = "announcing"
  /\ announced' = announced \cup {hand[w].event}
  /\ Release(w)
  /\ UNCHANGED <<row, mode, recovering, applied, replaying, stops, replays>>

\* The renewal timer runs until the round ends.
Renew(w) ==
  LET e == hand[w].event IN
  /\ pc[w] # "idle"
  /\ OwnedBy(row[e], w)
  /\ row[e].lease < LeaseTicks
  /\ row' = [row EXCEPT ![e].lease = LeaseTicks]
  /\ UNCHANGED <<process, applied, announced, replaying, stops, replays>>

-----------------------------------------------------------------------------
(* The sweep, one statement over the table, on any running worker's timer. *)

SweepExpiredLeases(w) ==
  /\ mode[w] = "up"
  /\ \E e \in Events : Expired(row[e])
  /\ row' = [e \in Events |-> IF Expired(row[e]) THEN Swept(row[e]) ELSE row[e]]
  /\ UNCHANGED <<process, applied, announced, replaying, stops, replays>>

(* A replay reads the row, decides, and then updates it conditionally.     *)

Replayable(r) == r.status \in {"DEAD", "FAILED"}

ReplayCheck(e) ==
  /\ replaying = NoEvent
  /\ replays < MaxReplays
  /\ Replayable(row[e])
  /\ row[e].payload
  /\ replaying' = e
  /\ replays' = replays + 1
  /\ UNCHANGED <<process, tables, stops>>

ReplayWrite(e) ==
  /\ replaying = e
  /\ replaying' = NoEvent
  /\ row' = IF Replayable(row[e]) THEN [row EXCEPT ![e] = Replayed(row[e])] ELSE row
  /\ UNCHANGED <<process, applied, announced, stops, replays>>

-----------------------------------------------------------------------------

Clock == \E e \in Events : LeaseTick(e) \/ BecomeDue(e)

Outside == \E e \in Events :
  Receive(e) \/ TrimPayload(e) \/ ReplayCheck(e) \/ ReplayWrite(e)

Lifetime(w) ==
  \/ Start(w) \/ ReclaimOwn(w) \/ ReclaimOwnFails(w)
  \/ Crash(w) \/ PoisonCrash(w) \/ Shutdown(w) \/ Stopped(w)

RunOnce(w) ==
  \/ \E e \in Events : Claim(w, e) \/ ClaimReplyLost(w, e)
  \/ Apply(w) \/ ApplyThrows(w)
  \/ Complete(w) \/ LoseClaim(w) \/ CompleteErrors(w)
  \/ Announce(w) \/ Renew(w)

Next ==
  \/ Clock
  \/ Outside
  \/ \E w \in Workers : Lifetime(w) \/ RunOnce(w) \/ SweepExpiredLeases(w)

Spec == Init /\ [][Next]_vars

\* Leases run out, retries come due, and every awaited step of the loop returns.
\* systemd restarts a worker that died, and whoever stopped one starts it again.
\* Nothing makes a renewal, an error, a crash or an operator's action happen.
Fairness ==
  /\ \A e \in Events : WF_vars(LeaseTick(e)) /\ WF_vars(BecomeDue(e))
                       /\ WF_vars(ReplayWrite(e))
  /\ \A w \in Workers :
       /\ WF_vars(Start(w))
       /\ WF_vars(ReclaimOwn(w) \/ ReclaimOwnFails(w))
       /\ WF_vars(PoisonCrash(w))
       /\ WF_vars(Stopped(w))
       /\ WF_vars(\E e \in Events : Claim(w, e))
       /\ WF_vars(Apply(w) \/ ApplyThrows(w))
       /\ WF_vars(Complete(w) \/ LoseClaim(w))
       /\ WF_vars(Announce(w))
       /\ WF_vars(SweepExpiredLeases(w))

FairSpec == Spec /\ Fairness

-----------------------------------------------------------------------------
(* What must hold.                                                         *)

\* A row has an owner exactly while it is claimed, and a lease to run out only
\* then: migration 0023 has the database check half of it.
RowShape ==
  \A e \in Events :
    /\ row[e].status = "PROCESSING" <=> row[e].owner # NoWorker
    /\ row[e].status # "PROCESSING" => row[e].lease = 0

\* A worker has an event in hand exactly while it is busy, and a dead process
\* has nothing.
HandShape ==
  \A w \in Workers :
    /\ pc[w] = "idle" <=> hand[w].event = NoEvent
    /\ mode[w] = "down" => pc[w] = "idle" /\ ~ recovering[w]
    /\ pc[w] = "completing" => hand[w].outcome # "none"
    /\ pc[w] = "announcing" => hand[w].outcome = "PROCESSED"

\* The type of every variable, and the two shapes above.
TypeOK ==
  /\ row \in [Events -> Row]
  /\ mode \in [Workers -> {"down", "up", "stopping"}]
  /\ recovering \in [Workers -> BOOLEAN]
  /\ pc \in [Workers -> {"idle", "applying", "completing", "announcing"}]
  /\ hand \in [Workers -> Hand]
  /\ applied \subseteq Events
  /\ announced \subseteq Events
  /\ replaying \in Events \cup {NoEvent}
  /\ stops \in 0..MaxStops
  /\ replays \in 0..MaxReplays
  /\ RowShape
  /\ HandShape

\* An event still to be done has attempts left, and one that was given up on
\* has none: no path retires an event early, and none leaves an exhausted one
\* claimable.  The worker decides from the count it read at the claim, the
\* sweeper from the row, and they must never disagree.
BudgetRespected ==
  \A e \in Events :
    /\ row[e].status \in {"PENDING", "PROCESSING", "FAILED"} =>
         row[e].attempts < MaxAttempts
    /\ row[e].status = "FAILED" => row[e].attempts > 0
    /\ row[e].status = "DEAD" => row[e].attempts = MaxAttempts

\* Whoever may still finalize an event read the count the row holds now, however
\* many crashes, sweeps and replays came between.
CountIsCurrent ==
  \A w \in Workers :
    /\ pc[w] \in {"applying", "completing"}
    /\ OwnedBy(row[hand[w].event], w)
    => hand[w].attempts = row[hand[w].event].attempts

\* Work that is waiting is scheduled, and work that is over is not: an event in
\* PENDING or FAILED with no next attempt would wait for ever and be in nobody's
\* backlog count.
OutstandingIsScheduled ==
  \A e \in Events :
    /\ row[e].status \in {"PENDING", "FAILED"} => row[e].due # "never"
    /\ row[e].status \in Terminal => row[e].due = "never"

\* An event is recorded as done only after its payload was offered to the
\* mirror, by this worker or by one that held it before.
DoneMeansApplied ==
  \A e \in Events : row[e].status \in Finished => e \in applied

\* Of all the workers that ever held an event at most one announces it, once,
\* and by then the event is finished: losing a lease costs nothing visible.
AnnouncedByOne ==
  /\ \A e \in announced : row[e].status = "PROCESSED"
  /\ \A w \in Workers : pc[w] = "announcing" =>
       /\ row[hand[w].event].status = "PROCESSED"
       /\ hand[w].event \notin announced
       /\ \A v \in Workers \ {w} :
            pc[v] = "announcing" => hand[v].event # hand[w].event

\* PROCESSED and STALE are final: a worker that wakes up after its lease ran
\* out, a sweep, a redelivery or a replay never moves an event out of them.
FinishedIsFinal ==
  [][\A e \in Events : row[e].status \in Finished =>
       row'[e].status = row[e].status /\ row'[e].attempts = row[e].attempts]_vars

\* While a lease runs the claim is its owner's.  It is ended by the owner's own
\* completing statement or by the recovery of the process that bears the owner's
\* id, and by nothing else: no sweep, claim, completion or recovery of another
\* worker ends it, however slow the owner is or whether it still lives.
LiveClaimIsRespected ==
  [][\A e \in Events : row[e].status = "PROCESSING" /\ row[e].lease > 0 =>
       \/ row'[e].status = "PROCESSING" /\ row'[e].owner = row[e].owner
       \/ \E w \in Workers :
            /\ row[e].owner = w
            /\ \/ /\ pc[w] = "completing" /\ hand[w].event = e
                  /\ <<pc'[w], hand'[w]>> # <<pc[w], hand[w]>>
               \/ recovering[w] /\ ~ recovering'[w] /\ row'[e] = Requeued(row[e])
               \/ mode'[w] = "down" /\ row'[e] = [row[e] EXCEPT !.owner = Former]]_vars

\* The recovery of w puts back an event that w has in hand: reclaimOwn came after
\* a claim of the process that had just started it.
TakesBackOwn(w) ==
  /\ recovering[w] /\ ~ recovering'[w] /\ mode'[w] # "down"
  /\ \E e \in Events : hand[w].event = e /\ row[e].owner = w /\ row'[e] # row[e]

\* From some point on no recovery does.
ClaimsStand == <>[][~ \E w \in Workers : TakesBackOwn(w)]_vars

\* An event whose payload kills every worker that applies it is given up on in
\* the end, under ids of which each belongs to one run: each death costs it one
\* attempt, unless the recovery of the worker that dies had put it back uncounted.
PoisonIsRetired ==
  ClaimsStand =>
    \A e \in Poison : row[e].status # "absent" ~> row[e].status = "DEAD"

(* The promise the queue keeps.                                            *)

PhaseOf(status) ==
  CASE status = "absent" -> "absent"
    [] status = "PROCESSED" -> "processed"
    [] status = "STALE" -> "stale"
    [] status = "DEAD" -> "dead"
    [] OTHER -> "outstanding"

Promise == INSTANCE WebhookPromise WITH
  phase <- [e \in Events |-> PhaseOf(row[e].status)]

\* Every behaviour of the queue is one the promise allows ...
KeepsPromise == Promise!Safe

\* ... and a fair one retires what it accepts, unless recoveries put back what
\* their own process has just taken for ever.
KeepsPromiseFairly == ClaimsStand => Promise!Fair

-----------------------------------------------------------------------------
(* What the comments say, and the code does not do.                        *)

\* webhook-worker.ts:328, of reclaimOwn: "the lease cannot belong to a live
\* worker".  The loop is started without waiting for it, so it can be.
ReclaimsOnlyAbandoned == [][~ \E w \in Workers : TakesBackOwn(w)]_vars

\* webhook-worker.ts:293: counting an abandoned attempt "means such an event
\* reaches DEAD", of an event whose payload reliably kills its worker.  A claim
\* that reclaimOwn puts back before its worker dies is not counted.
PoisonReachesDead ==
  \A e \in Poison : row[e].status # "absent" ~> row[e].status = "DEAD"

\* sync.service.ts:1246: refusing a replay without a payload "is better than
\* queueing an event that will fail for a reason the screen does not explain".
ReplayHasPayload ==
  [][\A e \in Events : replaying = e /\ row'[e] # row[e] /\ replaying' = NoEvent =>
       row'[e].payload]_vars
=============================================================================
