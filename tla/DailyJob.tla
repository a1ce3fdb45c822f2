------------------------------ MODULE DailyJob ------------------------------
(***************************************************************************)
(* A job that several processes schedule and that is to run once a day:    *)
(* the tick of scheduler.service.ts, runDailyOnce and withJobLock of       *)
(* common/job-lock.ts, and the row the job has in core_job_locks.          *)
(*                                                                         *)
(* Each statement on the row is one step.  Time is counted in the interval *)
(* at which a running job renews its lease, of which the lease lasts       *)
(* Intervals; now() of the database is the only clock, as in the code.     *)
(***************************************************************************)
EXTENDS Naturals

CONSTANTS
  Processes,  \* the API processes that schedule the job
  Nobody,     \* the owner of a row that was never taken
  Intervals   \* how many intervals of renewal a lease lasts (3 in the code)

ASSUME ConstantsFit == Intervals \in Nat \ {0} /\ Nobody \notin Processes

VARIABLES
  row,    \* of core_job_locks: the owner, the intervals left until
          \* expires_at, and whether last_ok_at is of today
  stage,  \* where each process is in its tick
  missed, \* intervals since a process last had its lease extended
  today   \* what happened since the day began

vars == <<row, stage, missed, today>>

\* A process whose call of withJobLock has the renewal timer running.
Renewing == {"inside", "work", "succeeded", "skipped", "failed"}

\* One that is about to give the lease back.
Ending == {"succeeded", "skipped", "failed"}

Stages == {"down", "idle", "take"} \cup Renewing

Row == [owner : Processes \cup {Nobody}, left : 0 .. Intervals, ok : BOOLEAN]

\* `open': the hour the job runs in has not passed.  `looked': some process had
\* its tick in that hour.  `trouble': a process died or a statement or the job
\* failed.  `finished' and `recorded' count, to two, the times the job ended
\* well and the times that was written down.
Today == [open : BOOLEAN, looked : BOOLEAN, trouble : BOOLEAN,
          finished : 0 .. 2, recorded : 0 .. 2]

Morning == [open |-> TRUE, looked |-> FALSE, trouble |-> FALSE,
            finished |-> 0, recorded |-> 0]

Once(n) == IF n = 2 THEN 2 ELSE n + 1

Init ==
  /\ row = [owner |-> Nobody, left |-> 0, ok |-> FALSE]
  /\ stage \in [Processes -> {"down", "idle"}]
  /\ missed = [p \in Processes |-> 0]
  /\ today = Morning

Move(p, from, to) == stage[p] = from /\ stage' = [stage EXCEPT ![p] = to]
Troubled == today' = [today EXCEPT !.trouble = TRUE]

-----------------------------------------------------------------------------
(* The statements on the row.                                              *)

\* INSERT ... ON CONFLICT DO UPDATE ... WHERE expires_at <= now()
Free == row.left = 0
Acquired(p) == row' = [row EXCEPT !.owner = p, !.left = Intervals]

\* UPDATE ... WHERE owner = $2
Owned_Bug(p) == TRUE
Owned(p) == row.owner = p
Released(p, ok) ==
  row' = IF Owned(p) THEN [row EXCEPT !.left = 0, !.ok = ok \/ @] ELSE row

\* SELECT last_ok_at, of today?
RanToday_Bug == row.owner # Nobody
RanToday == row.ok

-----------------------------------------------------------------------------
(* The tick, and runDailyOnce.                                             *)

\* The tick in the hour of the job, if the previous tick of this process has
\* ended, and the first look: it goes on only if the job is still to be done.
Tick(p) ==
  /\ today.open
  /\ stage[p] = "idle"
  /\ stage' = [stage EXCEPT ![p] = IF RanToday THEN "idle" ELSE "take"]
  /\ today' = [today EXCEPT !.looked = TRUE]
  /\ UNCHANGED <<row, missed>>

Take(p) ==
  /\ Move(p, "take", "inside")
  /\ Free
  /\ Acquired(p)
  /\ missed' = [missed EXCEPT ![p] = 0]
  /\ UNCHANGED today

HeldElsewhere(p) ==
  /\ Move(p, "take", "idle")
  /\ ~ Free
  /\ UNCHANGED <<row, missed, today>>

\* acquire() throws, its statement having been carried out or not.
TakeThrows(p) ==
  /\ Move(p, "take", "idle")
  /\ (Free /\ Acquired(p)) \/ UNCHANGED row
  /\ Troubled
  /\ UNCHANGED missed

\* The second look, inside the lease.
Again_Bug(p) == "work"
Again(p) == IF RanToday THEN "skipped" ELSE "work"
LookAgain(p) ==
  /\ Move(p, "inside", Again(p))
  /\ UNCHANGED <<row, missed, today>>

Finish(p) ==
  /\ Move(p, "work", "succeeded")
  /\ today' = [today EXCEPT !.finished = Once(@)]
  /\ UNCHANGED <<row, missed>>

\* The job throws, or the second look does.
Throw(p) ==
  /\ stage[p] \in {"inside", "work"}
  /\ Move(p, stage[p], "failed")
  /\ Troubled
  /\ UNCHANGED <<row, missed>>

\* A job that did its work, or found it done, releases the lease as a success.
Release(p) ==
  /\ \/ /\ Move(p, "succeeded", "idle")
        /\ today' = [today EXCEPT !.recorded = IF Owned(p) THEN Once(@) ELSE @]
     \/ /\ Move(p, "skipped", "idle")
        /\ UNCHANGED today
  /\ Released(p, TRUE)
  /\ UNCHANGED missed

\* The release throws inside the try, after the statement or instead of it, and
\* the catch takes that for a failure of the job.
ReleaseThrows(p) ==
  /\ stage[p] \in {"succeeded", "skipped"}
  /\ Move(p, stage[p], "failed")
  /\ \/ /\ Released(p, TRUE)
        /\ today' = [today EXCEPT
             !.trouble = TRUE,
             !.recorded = IF stage[p] = "succeeded" /\ Owned(p) THEN Once(@) ELSE @]
     \/ Troubled /\ UNCHANGED row
  /\ UNCHANGED missed

\* The release of a failure, which may itself fail.
ReleaseFailed(p) ==
  /\ Move(p, "failed", "idle")
  /\ Released(p, FALSE) \/ UNCHANGED row
  /\ UNCHANGED <<missed, today>>

\* The timer of withJobLock, an interval after the lease was last extended.
\* A renewal that fails is caught and forgotten: the job goes on.
Extended_Bug == row' = [row EXCEPT !.left = @ + Intervals]
Extended == row' = [row EXCEPT !.left = Intervals]
Renew(p) ==
  /\ stage[p] \in Renewing
  /\ missed[p] > 0
  /\ Owned(p) /\ row.left > 0
  /\ Extended
  /\ missed' = [missed EXCEPT ![p] = 0]
  /\ UNCHANGED <<stage, today>>

-----------------------------------------------------------------------------
(* Processes, and time.                                                    *)

Crash(p) ==
  /\ stage[p] # "down"
  /\ stage' = [stage EXCEPT ![p] = "down"]
  /\ today' = [today EXCEPT !.trouble = @ \/ stage[p] # "idle"]
  /\ UNCHANGED <<row, missed>>

Boot(p) ==
  /\ Move(p, "down", "idle")
  /\ UNCHANGED <<row, missed, today>>

\* An interval passes, whoever managed to renew in it.
Interval_Bug == row' = row
Interval == row' = [row EXCEPT !.left = IF @ = 0 THEN 0 ELSE @ - 1]
Pass ==
  /\ Interval
  /\ missed' = [p \in Processes |->
       IF stage[p] \in Renewing /\ missed[p] < Intervals THEN missed[p] + 1 ELSE missed[p]]
  /\ UNCHANGED <<stage, today>>

CloseHour ==
  /\ today.open
  /\ today' = [today EXCEPT !.open = FALSE]
  /\ UNCHANGED <<row, stage, missed>>

\* No run, and no lease that one leaves behind, lasts into the same hour of the
\* next day.
Quiet == row.left = 0 /\ \A p \in Processes : stage[p] \in {"down", "idle"}

\* The Cairo day changes, and with it what `today' means for last_ok_at.
NewDay ==
  /\ ~ today.open
  /\ Quiet
  /\ row' = [row EXCEPT !.ok = FALSE]
  /\ today' = Morning
  /\ UNCHANGED <<stage, missed>>

Job(p) ==
  \/ Tick(p) \/ Take(p) \/ HeldElsewhere(p) \/ TakeThrows(p)
  \/ LookAgain(p) \/ Finish(p) \/ Throw(p)
  \/ Release(p) \/ ReleaseThrows(p) \/ ReleaseFailed(p)

Next ==
  \/ \E p \in Processes : Job(p) \/ Renew(p) \/ Crash(p) \/ Boot(p)
  \/ Pass \/ CloseHour \/ NewDay

Spec == Init /\ [][Next]_vars

\* Statements are answered and jobs end, one way or another; time passes.
Fairness ==
  /\ WF_vars(Pass)
  /\ \A p \in Processes : WF_vars(Job(p) /\ stage[p] # "idle")

FairSpec == Spec /\ Fairness

-----------------------------------------------------------------------------
(* Properties.                                                             *)

\* The rows, stages and counters of job-lock.ts and its table are of their type.
TypeOK ==
  /\ row \in Row
  /\ stage \in [Processes -> Stages]
  /\ missed \in [Processes -> 0 .. Intervals]
  /\ today \in Today

\* Two processes do the job at once only if one of them went without a renewal
\* for as long as its lease lasts: crashes, straggling releases, late timers and
\* lost replies never make room for a second (acquire, renew and release).
OneAtATime ==
  \A p, q \in Processes :
    p # q /\ stage[p] = "work" /\ stage[q] = "work" =>
      missed[p] = Intervals \/ missed[q] = Intervals

\* The day's success is written down exactly once for as long as last_ok_at says
\* so, even by processes that overran their leases (both looks of runDailyOnce).
RecordedOnce == today.recorded = IF row.ok THEN 1 ELSE 0

\* What last_ok_at says was done today was done today, by a run that ended well:
\* a run that found it done and releases as a success cannot make it up.
RecordIsTrue == row.ok => today.finished > 0

\* A day on which a process had its tick in the hour of the job, and on which
\* nothing failed, does not pass without the job, however ticks interleave and
\* however late renewals are.
QuietDayIsDone == ~ today.open /\ Quiet /\ today.looked /\ ~ today.trouble => row.ok

\* A lease that runs is nobody's but its holder's: it is not taken over, only
\* time or its holder ends it, and only its holder's running job extends it
\* (the WHERE clauses of acquire, release and renew).
LeaseIsRespected ==
  [][row.left > 0 =>
       /\ row'.owner = row.owner
       /\ row'.left = 0 => stage' = stage \/ stage[row.owner] \in Ending
       /\ row'.left > row.left => stage[row.owner] \in Renewing]_vars

\* A crashed process does not hold the job for ever (job-lock.ts:10).
LeaseComesFree == []<>(row.left = 0)

-----------------------------------------------------------------------------
(* The inductive invariant.                                                *)

\* While its renewals keep up, a process that runs the job has the row.
KeepsUp ==
  \A p \in Processes : stage[p] \in {"inside", "work", "succeeded", "skipped"} =>
    \/ missed[p] = Intervals
    \/ row.owner = p /\ row.left + missed[p] = Intervals

\* A run by the owner of the row is of a day not yet recorded, and it has ended
\* well before it says so.
RunIsDue ==
  /\ row.left > 0 => row.owner # Nobody
  /\ \A p \in Processes :
       /\ stage[p] \in {"work", "succeeded"} /\ row.owner = p => ~ row.ok
       /\ stage[p] = "succeeded" => today.finished > 0
       /\ stage[p] = "skipped" => row.ok

Engaged == row.owner # Nobody /\ stage[row.owner] \in {"inside", "work", "succeeded"}

\* As long as nothing fails, somebody is on the way to doing the job.
SomebodyWill ==
  ~ row.ok /\ ~ today.trouble =>
    /\ row.left > 0 => Engaged
    /\ today.looked => Engaged \/ \E p \in Processes : stage[p] = "take"

IInv ==
  /\ TypeOK
  /\ KeepsUp /\ RunIsDue /\ SomebodyWill
  /\ RecordedOnce /\ RecordIsTrue

-----------------------------------------------------------------------------
(* What a comment says, and the code does not do.                          *)

\* job-lock.ts:130: "Run `fn` at most once per calendar day, across every
\* instance."  A run whose release fails is taken for a failed one.
DoneAtMostOnce == today.finished <= 1
=============================================================================
