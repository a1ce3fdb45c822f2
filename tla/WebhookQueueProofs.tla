------------------------- MODULE WebhookQueueProofs -------------------------
(***************************************************************************)
(* Proofs about the webhook queue, for any number of events, workers,      *)
(* stops and replays, any budget of attempts and any length of lease.      *)
(*                                                                         *)
(* Most of the work is about one row at a time, so GoodRow gathers what    *)
(* the invariants say of one row, and a lemma per statement says that it   *)
(* leaves the row good.  The step theorem then has one step per action.    *)
(***************************************************************************)
EXTENDS WebhookQueue, TLAPS

(* What a worker holds, and is about to record, agrees with what it read and *)
(* did: the strengthening that makes the safety invariants inductive.        *)
HandFits ==
  \A w \in Workers :
    /\ pc[w] # "idle" => /\ hand[w].attempts < MaxAttempts
                         /\ row[hand[w].event].status # "absent"
    /\ pc[w] = "completing" /\ hand[w].outcome \in Finished =>
         hand[w].event \in applied
    /\ pc[w] = "completing" /\ hand[w].outcome \in {"FAILED", "DEAD"} =>
         hand[w].outcome = AfterFailure(hand[w].attempts + 1)

RowInv == BudgetRespected /\ OutstandingIsScheduled /\ DoneMeansApplied

IInv == TypeOK /\ RowInv /\ CountIsCurrent /\ AnnouncedByOne /\ HandFits

-----------------------------------------------------------------------------
(* One row.                                                                *)

GoodRow(r) ==
  /\ r \in Row
  /\ r.status = "PROCESSING" <=> r.owner # NoWorker
  /\ r.status # "PROCESSING" => r.lease = 0
  /\ r.status \in {"PENDING", "PROCESSING", "FAILED"} => r.attempts < MaxAttempts
  /\ r.status = "FAILED" => r.attempts > 0
  /\ r.status = "DEAD" => r.attempts = MaxAttempts
  /\ r.status \in {"PENDING", "FAILED"} => r.due # "never"
  /\ r.status \in Terminal => r.due = "never"

GoodRows == \A e \in Events : GoodRow(row[e])

\* The row half of the invariant, said row by row.
LEMMA RowByRow ==
  ASSUME row \in [Events -> Row]
  PROVE  RowShape /\ BudgetRespected /\ OutstandingIsScheduled <=> GoodRows
  BY DEF RowShape, BudgetRespected, OutstandingIsScheduled, GoodRows, GoodRow

\* The row an accepted delivery inserts is good.
LEMMA NewRowIsGood == GoodRow(NewRow)
  BY BudgetAssumption, NullAssumption
  DEF GoodRow, NewRow, Row, Status, Terminal, Finished

\* A claim leaves a good row good, and keeps its count.
LEMMA ClaimedIsGood ==
  ASSUME NEW r \in Row, GoodRow(r), NEW w \in Workers, Claimable(r)
  PROVE  /\ GoodRow(Claimed(r, w))
         /\ Claimed(r, w).status = "PROCESSING"
         /\ Claimed(r, w).owner = w
         /\ Claimed(r, w).attempts = r.attempts
  <1>1. Claimed(r, w) \in Row
    <2>1. LeaseTicks \in 0..LeaseTicks  BY BudgetAssumption
    <2>2. "PROCESSING" \in Status \cup {"absent"}  BY DEF Status
    <2> QED  BY <2>1, <2>2, Zenon DEF Claimed, Row
  <1>2. /\ Claimed(r, w).status = "PROCESSING"
        /\ Claimed(r, w).owner = w
        /\ Claimed(r, w).attempts = r.attempts
    BY DEF Claimed, Row
  <1> QED  BY <1>1, <1>2, NullAssumption
           DEF GoodRow, Claimable, Row, Status, Terminal, Finished

\* Putting a claimed row back leaves it good.
LEMMA RequeuedIsGood ==
  ASSUME NEW r \in Row, r.attempts < MaxAttempts
  PROVE  /\ GoodRow(Requeued(r))
         /\ Requeued(r).status = "PENDING"
  <1>1. Requeued(r) \in Row
    <2>1. 0 \in 0..LeaseTicks  BY BudgetAssumption
    <2>2. "PENDING" \in Status \cup {"absent"}  BY DEF Status
    <2> QED  BY <2>1, <2>2, Zenon DEF Requeued, Row
  <1>2. /\ Requeued(r).status = "PENDING"
        /\ Requeued(r).owner = NoWorker
        /\ Requeued(r).attempts = r.attempts
        /\ Requeued(r).lease = 0
        /\ Requeued(r).due = "now"
    BY DEF Requeued, Row
  <1> QED  BY <1>1, <1>2 DEF GoodRow, Terminal, Finished

\* Recording an outcome leaves a claimed row good, if giving up happens on the
\* last attempt and only then.
LEMMA CompletedIsGood ==
  ASSUME NEW r \in Row, r.attempts < MaxAttempts,
         NEW o \in {"FAILED"} \cup Terminal,
         o = "FAILED" => r.attempts + 1 < MaxAttempts,
         o = "DEAD" => r.attempts + 1 >= MaxAttempts
  PROVE  GoodRow(Completed(r, o)) /\ Completed(r, o).status = o
  <1>1. Completed(r, o) \in Row
    <2>1. 0 \in 0..LeaseTicks  BY BudgetAssumption
    <2>2. o \in Status \cup {"absent"}  BY DEF Status, Terminal, Finished
    <2>3. r.attempts + 1 \in 0..MaxAttempts  BY BudgetAssumption DEF Row
    <2>4. (IF o = "FAILED" THEN "later" ELSE "never") \in {"never", "later", "now"}
      OBVIOUS
    <2> QED  BY <2>1, <2>2, <2>3, <2>4, Zenon DEF Completed, Row
  <1>2. /\ Completed(r, o).status = o
        /\ Completed(r, o).owner = NoWorker
        /\ Completed(r, o).attempts = r.attempts + 1
        /\ Completed(r, o).lease = 0
        /\ Completed(r, o).due = IF o = "FAILED" THEN "later" ELSE "never"
    BY DEF Completed, Row
  <1>3. r.attempts \in Nat /\ MaxAttempts \in Nat  BY BudgetAssumption DEF Row
  <1> QED  BY <1>1, <1>2, <1>3 DEF GoodRow, Terminal, Finished

\* So does the sweep, which never marks anything done.
LEMMA SweptIsGood ==
  ASSUME NEW r \in Row, r.attempts < MaxAttempts
  PROVE  GoodRow(Swept(r)) /\ Swept(r).status \in {"PENDING", "DEAD"}
  <1>1. r.attempts \in Nat /\ MaxAttempts \in Nat  BY BudgetAssumption DEF Row
  <1>2. CASE r.attempts + 1 >= MaxAttempts
    BY <1>2, CompletedIsGood DEF Swept, Terminal
  <1>3. CASE ~ (r.attempts + 1 >= MaxAttempts)
    <2> DEFINE counted == [r EXCEPT !.attempts = @ + 1]
    <2>1. counted \in Row /\ counted.attempts < MaxAttempts
      BY <1>1, <1>3 DEF Row
    <2>2. Swept(r) = Requeued(counted)
      BY <1>3, Zenon DEF Swept, Requeued, Row
    <2> QED  BY <2>1, <2>2, RequeuedIsGood
  <1> QED  BY <1>2, <1>3

\* And a replay.
LEMMA ReplayedIsGood ==
  ASSUME NEW r \in Row
  PROVE  GoodRow(Replayed(r)) /\ Replayed(r).status = "PENDING"
  <1> DEFINE reset == [r EXCEPT !.attempts = 0]
  <1>1. reset \in Row /\ reset.attempts < MaxAttempts
    BY BudgetAssumption DEF Row
  <1>2. Replayed(r) = Requeued(reset)
    BY Zenon DEF Replayed, Requeued, Row
  <1> QED  BY <1>1, <1>2, RequeuedIsGood

-----------------------------------------------------------------------------
(* All rows, and what the workers hold.                                    *)

\* The half of the invariant that ties the table to the workers.
Tied == DoneMeansApplied /\ CountIsCurrent /\ AnnouncedByOne /\ HandFits

\* The inductive invariant is the types, what a row says on its own, and what
\* ties the rows to the workers.
LEMMA Halves == IInv <=> TypeOK /\ GoodRows /\ Tied
  BY DEF IInv, Tied, RowInv, TypeOK, RowShape, BudgetRespected,
         OutstandingIsScheduled, GoodRows, GoodRow

\* The table after a statement that writes one row, a good one.
LEMMA OneRowWritten ==
  ASSUME row \in [Events -> Row], GoodRows, NEW e \in Events, NEW r, GoodRow(r),
         row' = [row EXCEPT ![e] = r]
  PROVE  /\ row' \in [Events -> Row]
         /\ GoodRows'
         /\ \A x \in Events : row'[x] = IF x = e THEN r ELSE row[x]
  BY DEF GoodRows, GoodRow

\* A change from row q to row r that finishes nothing, unfinishes nothing, hands
\* the event to nobody and keeps the count of whoever still owns it.
Quiet(q, r) ==
  /\ q.status \in Finished \/ r.status \in Finished => r.status = q.status
  /\ r.status = "absent" => q.status = "absent"
  /\ \A w \in Workers : OwnedBy(r, w) => OwnedBy(q, w) /\ r.attempts = q.attempts

\* Quiet changes to the table disturb no worker.
LEMMA QuietChanges ==
  ASSUME TypeOK, Tied, UNCHANGED <<pc, hand, applied, announced>>,
         \A x \in Events : Quiet(row[x], row'[x])
  PROVE  Tied'
  <1>1. DoneMeansApplied'
    BY DEF Tied, DoneMeansApplied, Quiet
  <1>2. CountIsCurrent'
    BY DEF Tied, CountIsCurrent, Quiet, TypeOK, HandShape, Hand
  <1>3. AnnouncedByOne'
    BY DEF Tied, AnnouncedByOne, Quiet, TypeOK, HandShape, Hand, Finished
  <1>4. HandFits'
    BY DEF Tied, HandFits, Quiet, TypeOK, HandShape, Hand
  <1> QED  BY <1>1, <1>2, <1>3, <1>4 DEF Tied

-----------------------------------------------------------------------------
(* The steps, by what they write.                                          *)

\* Steps that write rows and leave every worker's hand alone.
LEMMA TableStep ==
  ASSUME TypeOK, GoodRows, Tied,
         \/ \E e \in Events : \/ Receive(e) \/ LeaseTick(e) \/ BecomeDue(e)
                            \/ TrimPayload(e) \/ ReplayWrite(e)
         \/ \E w \in Workers : Renew(w) \/ ReclaimOwn(w) \/ SweepExpiredLeases(w)
  PROVE  TypeOK' /\ GoodRows' /\ Tied'
  <1>1. ASSUME row' \in [Events -> Row], GoodRows',
               \A x \in Events : Quiet(row[x], row'[x]),
               UNCHANGED <<pc, hand, applied, announced, mode, stops, replays>>,
               recovering' = recovering \/ \E v \in Workers : recovering' = [recovering EXCEPT ![v] = FALSE],
               replaying' \in Events \cup {NoEvent}
        PROVE  TypeOK' /\ GoodRows' /\ Tied'
    <2>1. TypeOK'
      BY <1>1 DEF TypeOK, HandShape, RowShape, GoodRows, GoodRow
    <2> QED  BY <1>1, <2>1, QuietChanges
  <1>2. ASSUME NEW x \in Events, NEW r, GoodRow(r), Quiet(row[x], r),
               row' = [row EXCEPT ![x] = r]
        PROVE  /\ row' \in [Events -> Row]
               /\ GoodRows'
               /\ \A y \in Events : Quiet(row[y], row'[y])
    BY <1>2, OneRowWritten DEF TypeOK, Quiet
  <1>3. ASSUME NEW e \in Events, Receive(e)
        PROVE  TypeOK' /\ GoodRows' /\ Tied'
    <2>1. Quiet(row[e], NewRow)
      BY <1>3 DEF Receive, Quiet, NewRow, OwnedBy, Finished
    <2> QED  BY <1>1, <1>2, <1>3, <2>1, NewRowIsGood
             DEF Receive, process, TypeOK
  <1>4. ASSUME NEW e \in Events, LeaseTick(e)
        PROVE  TypeOK' /\ GoodRows' /\ Tied'
    <2> DEFINE r == [row[e] EXCEPT !.lease = @ - 1]
    <2>1. GoodRow(r) /\ Quiet(row[e], r)
      BY <1>4, BudgetAssumption
      DEF LeaseTick, TypeOK, GoodRows, GoodRow, Row, Quiet, OwnedBy
    <2> QED  BY <1>1, <1>2, <1>4, <2>1 DEF LeaseTick, process, TypeOK
  <1>5. ASSUME NEW e \in Events, BecomeDue(e)
        PROVE  TypeOK' /\ GoodRows' /\ Tied'
    <2> DEFINE r == [row[e] EXCEPT !.due = "now"]
    <2>1. GoodRow(r) /\ Quiet(row[e], r)
      BY <1>5 DEF BecomeDue, TypeOK, GoodRows, GoodRow, Row, Quiet, OwnedBy
    <2> QED  BY <1>1, <1>2, <1>5, <2>1 DEF BecomeDue, process, TypeOK
  <1>6. ASSUME NEW e \in Events, TrimPayload(e)
        PROVE  TypeOK' /\ GoodRows' /\ Tied'
    <2> DEFINE r == [row[e] EXCEPT !.payload = FALSE]
    <2>1. GoodRow(r) /\ Quiet(row[e], r)
      BY <1>6 DEF TrimPayload, TypeOK, GoodRows, GoodRow, Row, Quiet, OwnedBy
    <2> QED  BY <1>1, <1>2, <1>6, <2>1 DEF TrimPayload, process, TypeOK
  <1>7. ASSUME NEW w \in Workers, Renew(w)
        PROVE  TypeOK' /\ GoodRows' /\ Tied'
    <2> DEFINE x == hand[w].event
               r == [row[x] EXCEPT !.lease = LeaseTicks]
    <2>1. x \in Events
      BY <1>7 DEF Renew, TypeOK, HandShape, Hand
    <2>2. GoodRow(r) /\ Quiet(row[x], r)
      <3>1. row[x] \in Row /\ GoodRow(row[x]) /\ row[x].status = "PROCESSING" /\ row[x].lease > 0
        BY <1>7, <2>1 DEF Renew, TypeOK, GoodRows, OwnedBy
      <3> HIDE DEF x
      <3>2. /\ r.status = row[x].status /\ r.owner = row[x].owner /\ r.due = row[x].due
            /\ r.attempts = row[x].attempts
        BY <3>1 DEF Row
      <3>3. r \in Row  BY <3>1, BudgetAssumption DEF Row
      <3> HIDE DEF r
      <3>4. GoodRow(r)  BY <3>1, <3>2, <3>3 DEF GoodRow
      <3> QED  BY <3>1, <3>2, <3>4 DEF Quiet, OwnedBy
    <2> QED  BY <1>1, <1>2, <1>7, <2>1, <2>2 DEF Renew, process, TypeOK
  <1>8. ASSUME NEW e \in Events, ReplayWrite(e)
        PROVE  TypeOK' /\ GoodRows' /\ Tied'
    <2>1. CASE Replayable(row[e])
      <3>1. /\ GoodRow(Replayed(row[e]))
            /\ Replayed(row[e]).status = "PENDING"
        BY <2>1, ReplayedIsGood DEF TypeOK
      <3>2. Quiet(row[e], Replayed(row[e]))
        BY <2>1, <3>1 DEF Replayable, Quiet, OwnedBy, Finished
      <3> QED  BY <1>1, <1>2, <1>8, <2>1, <3>1, <3>2
               DEF ReplayWrite, process, TypeOK
    <2>2. CASE ~ Replayable(row[e])
      <3>1. row' = row /\ \A x \in Events : Quiet(row[x], row'[x])
        BY <1>8, <2>2 DEF ReplayWrite, Quiet
      <3> QED  BY <1>1, <1>8, <3>1 DEF ReplayWrite, process, TypeOK, GoodRows
    <2> QED  BY <2>1, <2>2
  <1>9. ASSUME NEW w \in Workers, ReclaimOwn(w)
        PROVE  TypeOK' /\ GoodRows' /\ Tied'
    <2> DEFINE mine(x) == row[x].status = "PROCESSING" /\ row[x].owner = w
    <2>1. ASSUME NEW x \in Events, mine(x)
          PROVE  /\ GoodRow(Requeued(row[x]))
                 /\ Quiet(row[x], Requeued(row[x]))
      <3>1. /\ GoodRow(Requeued(row[x]))
            /\ Requeued(row[x]).status = "PENDING"
        BY <2>1, RequeuedIsGood DEF TypeOK, GoodRows, GoodRow
      <3> QED  BY <2>1, <3>1 DEF Quiet, OwnedBy, Finished
    <2>2. \A x \in Events : row'[x] = IF mine(x) THEN Requeued(row[x]) ELSE row[x]
      BY <1>9 DEF ReclaimOwn
    <2>3. \A x \in Events : GoodRow(row'[x]) /\ Quiet(row[x], row'[x])
      BY <2>1, <2>2 DEF GoodRows, Quiet
    <2>4. row' \in [Events -> Row] /\ GoodRows'
      BY <1>9, <2>3 DEF ReclaimOwn, GoodRows, GoodRow
    <2> QED  BY <1>1, <1>9, <2>3, <2>4 DEF ReclaimOwn, TypeOK
  <1>10. ASSUME NEW w \in Workers, SweepExpiredLeases(w)
        PROVE  TypeOK' /\ GoodRows' /\ Tied'
    <2>1. ASSUME NEW x \in Events, Expired(row[x])
          PROVE  GoodRow(Swept(row[x])) /\ Quiet(row[x], Swept(row[x]))
      <3>1. /\ GoodRow(Swept(row[x]))
            /\ Swept(row[x]).status \in {"PENDING", "DEAD"}
        BY <2>1, SweptIsGood DEF TypeOK, GoodRows, GoodRow, Expired
      <3> QED  BY <2>1, <3>1 DEF Expired, Quiet, OwnedBy, Finished
    <2>2. \A x \in Events :
             row'[x] = IF Expired(row[x]) THEN Swept(row[x]) ELSE row[x]
      BY <1>10 DEF SweepExpiredLeases
    <2>3. \A x \in Events : GoodRow(row'[x]) /\ Quiet(row[x], row'[x])
      BY <2>1, <2>2 DEF GoodRows, Quiet
    <2>4. row' \in [Events -> Row] /\ GoodRows'
      BY <1>10, <2>3 DEF SweepExpiredLeases, GoodRows, GoodRow
    <2> QED  BY <1>1, <1>10, <2>3, <2>4 DEF SweepExpiredLeases, process, TypeOK
  <1> QED  BY <1>3, <1>4, <1>5, <1>6, <1>7, <1>8, <1>9, <1>10

\* A row whose owner is gone for good is as good as before, and nobody's.
LEMMA OrphanedIsGood ==
  ASSUME TypeOK, GoodRows, NEW w \in Workers
  PROVE  /\ Orphaned(w) \in [Events -> Row]
         /\ \A x \in Events : GoodRow(Orphaned(w)[x]) /\ Quiet(row[x], Orphaned(w)[x])
  <1>1. ASSUME NEW x \in Events
        PROVE  GoodRow(Orphaned(w)[x]) /\ Quiet(row[x], Orphaned(w)[x])
    <2>1. row[x] \in Row /\ GoodRow(row[x])
      BY DEF TypeOK, GoodRows
    <2>2. CASE row[x].owner = w
      <3> DEFINE r == [row[x] EXCEPT !.owner = Former]
      <3>1. /\ r \in Row /\ r.owner = Former /\ r.status = row[x].status
            /\ r.lease = row[x].lease /\ r.due = row[x].due
            /\ r.attempts = row[x].attempts
        BY <2>1 DEF Row
      <3>2. Orphaned(w)[x] = r
        BY <2>2 DEF Orphaned
      <3> HIDE DEF r
      <3>3. GoodRow(r)
        BY <2>1, <2>2, <3>1, NullAssumption DEF GoodRow
      <3>4. Quiet(row[x], r)
        BY <3>1, NullAssumption DEF Quiet, OwnedBy
      <3> QED  BY <3>2, <3>3, <3>4
    <2>3. CASE row[x].owner # w
      BY <2>1, <2>3 DEF Orphaned, Quiet
    <2> QED  BY <2>2, <2>3
  <1> QED  BY <1>1 DEF Orphaned, GoodRow

\* Starting, stopping and dying: a row at most loses its owner for good, and a
\* hand is only emptied.
LEMMA LifetimeStep ==
  ASSUME TypeOK, GoodRows, Tied, NEW w \in Workers,
         \/ Start(w) \/ ReclaimOwnFails(w) \/ Crash(w) \/ PoisonCrash(w)
         \/ Shutdown(w) \/ Stopped(w) \/ LoseClaim(w)
  PROVE  TypeOK' /\ GoodRows' /\ Tied'
  <1>0. /\ UNCHANGED <<applied, announced>>
        /\ row' = row \/ row' = Orphaned(w)
        /\ \/ UNCHANGED <<pc, hand>>
           \/ /\ pc' = [pc EXCEPT ![w] = "idle"]
              /\ hand' = [hand EXCEPT ![w] = EmptyHand]
    BY PoisonAssumption
    DEF Start, ReclaimOwnFails, Crash, PoisonCrash, Shutdown, Stopped, Die,
        LoseClaim, Release, tables, process
  <1>1. /\ UNCHANGED <<applied, announced>>
        /\ row' \in [Events -> Row]
        /\ \A x \in Events : GoodRow(row'[x]) /\ Quiet(row[x], row'[x])
        /\ \/ UNCHANGED <<pc, hand>>
           \/ /\ pc' = [pc EXCEPT ![w] = "idle"]
              /\ hand' = [hand EXCEPT ![w] = EmptyHand]
    BY <1>0, OrphanedIsGood DEF TypeOK, GoodRows, Quiet
  <1>2. EmptyHand \in Hand /\ EmptyHand.event = NoEvent
    BY BudgetAssumption DEF EmptyHand, Hand
  <1>3. TypeOK'
    <2>1. mode' \in [Workers -> {"down", "up", "stopping"}]
      BY DEF TypeOK, Start, ReclaimOwnFails, Crash, PoisonCrash, Shutdown,
             Stopped, Die, LoseClaim, process
    <2>2. recovering' \in [Workers -> BOOLEAN]
      BY PoisonAssumption
      DEF TypeOK, Start, ReclaimOwnFails, Crash, PoisonCrash, Shutdown,
          Stopped, Die, LoseClaim, process
    <2>3. replaying' \in Events \cup {NoEvent}
      BY DEF TypeOK, Start, ReclaimOwnFails, Crash, PoisonCrash, Shutdown,
             Stopped, Die, LoseClaim
    <2>4. /\ stops' = stops \/ (stops < MaxStops /\ stops' = stops + 1)
          /\ replays' = replays
      BY DEF Start, ReclaimOwnFails, Crash, PoisonCrash, Shutdown,
             Stopped, Die, LoseClaim, tables, process
    <2>5. stops' \in 0..MaxStops /\ replays' \in 0..MaxReplays
      BY <2>4, BoundAssumption DEF TypeOK
    <2>6. /\ pc' \in [Workers -> {"idle", "applying", "completing", "announcing"}]
          /\ hand' \in [Workers -> Hand]
      BY <1>1, <1>2 DEF TypeOK
    <2>7. \A v \in Workers : pc'[v] = "idle" <=> hand'[v].event = NoEvent
      BY <1>1, <1>2 DEF TypeOK, HandShape
    <2>8. \A v \in Workers :
            /\ pc'[v] = "completing" => hand'[v].outcome # "none"
            /\ pc'[v] = "announcing" => hand'[v].outcome = "PROCESSED"
      BY <1>1 DEF TypeOK, HandShape
    <2>9. \A v \in Workers : mode'[v] = "down" => pc'[v] = "idle" /\ ~ recovering'[v]
      BY <1>1
      DEF TypeOK, HandShape, Start, ReclaimOwnFails, Crash, PoisonCrash, Shutdown,
          Stopped, Die, LoseClaim, Release, tables, process
    <2> QED  BY <1>1, <2>1, <2>2, <2>3, <2>4, <2>5, <2>6, <2>7, <2>8, <2>9
          DEF TypeOK, RowShape, HandShape, GoodRow
  <1>4. Tied'
    <2>1. DoneMeansApplied'
      BY <1>1 DEF Tied, DoneMeansApplied, Quiet
    <2>2. \A v \in Workers : pc'[v] # "idle" =>
            /\ pc[v] = pc'[v] /\ hand[v] = hand'[v] /\ hand[v].event \in Events
      BY <1>1, <1>2 DEF TypeOK, HandShape, Hand
    <2>3. CountIsCurrent'
      BY <1>1, <2>2 DEF Tied, CountIsCurrent, Quiet
    <2>4. AnnouncedByOne'
      BY <1>1, <2>2 DEF Tied, AnnouncedByOne, Quiet, TypeOK, Finished
    <2>5. HandFits'
      BY <1>1, <2>2 DEF Tied, HandFits, Quiet
    <2> QED  BY <2>1, <2>3, <2>4, <2>5 DEF Tied
  <1> QED  BY <1>1, <1>3, <1>4 DEF GoodRows

\* Checking a replay only remembers which event it is for.
LEMMA ReplayCheckStep ==
  ASSUME TypeOK, GoodRows, Tied, NEW e \in Events, ReplayCheck(e)
  PROVE  TypeOK' /\ GoodRows' /\ Tied'
  <1>1. TypeOK'
    BY BoundAssumption DEF ReplayCheck, process, tables, TypeOK, RowShape, HandShape
  <1>2. Tied'
    BY DEF ReplayCheck, process, tables, Tied, DoneMeansApplied, CountIsCurrent,
           AnnouncedByOne, HandFits
  <1> QED  BY <1>1, <1>2 DEF ReplayCheck, tables, GoodRows

\* Taking an event: the row gets its owner, and the hand what the row holds.
LEMMA ClaimStep ==
  ASSUME TypeOK, GoodRows, Tied, NEW e \in Events, NEW w \in Workers,
         Claim(w, e) \/ ClaimReplyLost(w, e)
  PROVE  TypeOK' /\ GoodRows' /\ Tied'
  <1> DEFINE r == Claimed(row[e], w)
             h == [event |-> e, attempts |-> row[e].attempts,
                   payload |-> row[e].payload, outcome |-> "none"]
  <1>1. /\ mode[w] = "up" /\ pc[w] = "idle" /\ Claimable(row[e])
        /\ row' = [row EXCEPT ![e] = r]
        /\ \/ UNCHANGED <<pc, hand>>
           \/ /\ pc' = [pc EXCEPT ![w] = "applying"]
              /\ hand' = [hand EXCEPT ![w] = h]
        /\ UNCHANGED <<mode, recovering, applied, announced, replaying, stops, replays>>
    BY DEF Claim, ClaimReplyLost, process
  <1>2. row[e] \in Row /\ row[e].attempts < MaxAttempts
    BY <1>1 DEF TypeOK, GoodRows, GoodRow, Claimable
  <1>3. /\ GoodRow(r)
        /\ r.status = "PROCESSING" /\ r.owner = w /\ r.attempts = row[e].attempts
    BY <1>1, <1>2, ClaimedIsGood DEF GoodRows
  <1>4. /\ row' \in [Events -> Row]
        /\ GoodRows'
        /\ \A x \in Events : row'[x] = IF x = e THEN r ELSE row[x]
    BY <1>1, <1>3, OneRowWritten DEF TypeOK
  <1>5. h \in Hand
    BY <1>2 DEF Hand, Row
  <1>6. TypeOK'
    <2>1. RowShape'
      BY <1>4 DEF RowShape, GoodRows, GoodRow
    <2>2. HandShape'
      BY <1>1, <1>5, NullAssumption DEF TypeOK, HandShape
    <2>3. /\ pc' \in [Workers -> {"idle", "applying", "completing", "announcing"}]
          /\ hand' \in [Workers -> Hand]
      BY <1>1, <1>5 DEF TypeOK
    <2> QED  BY <1>1, <1>4, <2>1, <2>2, <2>3 DEF TypeOK
  <1>7. DoneMeansApplied'
    BY <1>1, <1>3, <1>4 DEF Tied, DoneMeansApplied, Finished
  <1>8. CountIsCurrent'
    BY <1>1, <1>3, <1>4 DEF Tied, CountIsCurrent, TypeOK, HandShape, Hand, OwnedBy
  <1>9. AnnouncedByOne'
    BY <1>1, <1>3, <1>4 DEF Tied, AnnouncedByOne, TypeOK, HandShape, Hand, Claimable
  <1>10. HandFits'
    BY <1>1, <1>2, <1>3, <1>4 DEF Tied, HandFits, TypeOK, HandShape, Hand
  <1> QED  BY <1>4, <1>6, <1>7, <1>8, <1>9, <1>10 DEF Tied

\* Applying a payload decides the outcome, and touches no row.
LEMMA ApplyStep ==
  ASSUME TypeOK, GoodRows, Tied, NEW w \in Workers, Apply(w) \/ ApplyThrows(w)
  PROVE  TypeOK' /\ GoodRows' /\ Tied'
  <1>1. PICK o \in {"FAILED"} \cup Terminal :
          /\ hand' = [hand EXCEPT ![w].outcome = o]
          /\ o \in {"FAILED", "DEAD"} => o = AfterFailure(hand[w].attempts + 1)
          /\ o \in Finished => hand[w].event \in applied'
    BY DEF Apply, ApplyThrows, AfterFailure, Finished, Terminal, TypeOK, tables
  <1>2. /\ pc[w] = "applying" /\ pc' = [pc EXCEPT ![w] = "completing"]
        /\ applied \subseteq applied' /\ applied' \subseteq Events
        /\ UNCHANGED <<row, mode, recovering, announced, replaying, stops, replays>>
    BY DEF Apply, ApplyThrows, tables, TypeOK, HandShape, Hand
  <1>3. TypeOK'
    BY <1>1, <1>2 DEF TypeOK, RowShape, HandShape, Hand, Terminal, Finished
  <1>4. DoneMeansApplied'
    BY <1>2 DEF Tied, DoneMeansApplied
  <1>5. CountIsCurrent'
    BY <1>1, <1>2 DEF Tied, CountIsCurrent, TypeOK, Hand, OwnedBy
  <1>6. AnnouncedByOne'
    BY <1>1, <1>2 DEF Tied, AnnouncedByOne, TypeOK, Hand
  <1>7. HandFits'
    BY <1>1, <1>2 DEF Tied, HandFits, TypeOK, Hand
  <1> QED  BY <1>2, <1>3, <1>4, <1>5, <1>6, <1>7 DEF Tied, GoodRows

\* Recording an outcome: only the owner does it, and what it records is right.
LEMMA CompleteStep ==
  ASSUME TypeOK, GoodRows, Tied, NEW w \in Workers,
         Complete(w) \/ CompleteErrors(w)
  PROVE  TypeOK' /\ GoodRows' /\ Tied'
  <1> DEFINE e == hand[w].event
             o == hand[w].outcome
             r == Completed(row[e], o)
             n == AfterFailure(hand[w].attempts + 1)
  <1>1. /\ pc[w] = "completing" /\ pc \in [Workers -> {"idle", "applying", "completing", "announcing"}]
        /\ e \in Events /\ hand \in [Workers -> Hand]
        /\ o \in {"FAILED"} \cup Terminal
    BY DEF Complete, CompleteErrors, TypeOK, HandShape, Hand
  <1>2. UNCHANGED <<mode, recovering, applied, announced, replaying, stops, replays>>
    BY DEF Complete, CompleteErrors
  <1>3. \/ row' = row
        \/ OwnedBy(row[e], w) /\ row' = [row EXCEPT ![e] = r]
    BY DEF Complete, CompleteErrors
  <1>4. \/ /\ pc' = [pc EXCEPT ![w] = "idle"]
           /\ hand' = [hand EXCEPT ![w] = EmptyHand]
        \/ /\ pc' = [pc EXCEPT ![w] = "announcing"] /\ hand' = hand
           /\ o = "PROCESSED" /\ OwnedBy(row[e], w)
           /\ row' = [row EXCEPT ![e] = r]
        \/ /\ pc' = pc
           /\ hand' = [hand EXCEPT ![w].outcome = n]
    BY DEF Complete, CompleteErrors, Release
  <1>5. ASSUME OwnedBy(row[e], w)
        PROVE  GoodRow(r) /\ r.status = o
    <2>1. /\ row[e] \in Row /\ row[e].attempts < MaxAttempts
          /\ row[e].attempts = hand[w].attempts
      BY <1>1, <1>5 DEF TypeOK, GoodRows, GoodRow, OwnedBy, Tied, CountIsCurrent
    <2>2. o \in {"FAILED", "DEAD"} => o = n
      BY <1>1 DEF Tied, HandFits
    <2>3. /\ o = "FAILED" => row[e].attempts + 1 < MaxAttempts
          /\ o = "DEAD" => row[e].attempts + 1 >= MaxAttempts
      BY <2>1, <2>2, BudgetAssumption DEF AfterFailure, Row
    <2> QED  BY <1>1, <2>1, <2>3, CompletedIsGood
  <1>6. /\ row' \in [Events -> Row]
        /\ GoodRows'
    BY <1>1, <1>3, <1>5, OneRowWritten DEF TypeOK, GoodRows
  <1>7. \A x \in Events :
          \/ row'[x] = row[x]
          \/ x = e /\ OwnedBy(row[e], w) /\ row'[x] = r /\ r.status = o
    BY <1>1, <1>3, <1>5 DEF TypeOK
  <1>8. EmptyHand \in Hand /\ EmptyHand.event = NoEvent
    BY BudgetAssumption DEF EmptyHand, Hand
  <1>9. n \in {"FAILED", "DEAD"}
    BY DEF AfterFailure
  <1>10. TypeOK'
    <2>1. /\ pc' \in [Workers -> {"idle", "applying", "completing", "announcing"}]
          /\ hand' \in [Workers -> Hand]
      BY <1>1, <1>4, <1>8, <1>9, SMTT(20) DEF TypeOK, Hand, Terminal
    <2>2. HandShape'
      BY <1>1, <1>2, <1>4, <1>8, <1>9, NullAssumption DEF TypeOK, HandShape, Hand
    <2> QED  BY <1>2, <1>6, <2>1, <2>2 DEF TypeOK, RowShape, GoodRows, GoodRow
  <1>11. DoneMeansApplied'
    BY <1>1, <1>2, <1>7 DEF Tied, DoneMeansApplied, HandFits
  <1>12. CountIsCurrent'
    <2>1. r.owner = NoWorker \/ ~ OwnedBy(row[e], w)
      BY <1>1 DEF Completed, TypeOK, Row
    <2> QED  BY <1>1, <1>4, <1>7, <2>1, NullAssumption, SMTT(20)
             DEF Tied, CountIsCurrent, TypeOK, HandShape, Hand, OwnedBy
  <1>13. AnnouncedByOne'
    <2>1. ASSUME OwnedBy(row[e], w)
          PROVE  /\ e \notin announced
                 /\ \A v \in Workers : pc[v] = "announcing" => hand[v].event # e
      BY <1>1, <2>1 DEF Tied, AnnouncedByOne, OwnedBy
    <2>2. \A x \in announced : row'[x].status = "PROCESSED"
      BY <1>7, <2>1 DEF Tied, AnnouncedByOne, TypeOK
    <2>3. \A v \in Workers \ {w} : pc'[v] = pc[v] /\ hand'[v] = hand[v]
      BY <1>1, <1>4
    <2>4. pc'[w] = "announcing" =>
            /\ hand'[w].event = e /\ OwnedBy(row[e], w)
            /\ row'[e].status = "PROCESSED"
      BY <1>1, <1>4, <1>5, <1>7 DEF TypeOK
    <2>5. \A v \in Workers \ {w} : pc[v] = "announcing" =>
            /\ hand[v].event \in Events
            /\ row'[hand[v].event].status = "PROCESSED"
      BY <1>1, <1>7, <2>1 DEF Tied, AnnouncedByOne, TypeOK, HandShape, Hand
    <2> QED  BY <1>2, <2>1, <2>2, <2>3, <2>4, <2>5 DEF Tied, AnnouncedByOne
  <1>14. HandFits'
    <2>1. \A x \in Events : row[x].status # "absent" => row'[x].status # "absent"
      BY <1>1, <1>7 DEF Terminal, Finished
    <2> QED  BY <1>1, <1>2, <1>4, <1>9, <2>1
             DEF Tied, HandFits, TypeOK, HandShape, Hand, Finished
  <1> QED  BY <1>6, <1>10, <1>11, <1>12, <1>13, <1>14 DEF Tied

\* Announcing: the event was finished by this worker and by nobody else.
LEMMA AnnounceStep ==
  ASSUME TypeOK, GoodRows, Tied, NEW w \in Workers, Announce(w)
  PROVE  TypeOK' /\ GoodRows' /\ Tied'
  <1>1. EmptyHand \in Hand /\ EmptyHand.event = NoEvent
    BY BudgetAssumption DEF EmptyHand, Hand
  <1>2. hand[w].event \in Events
    BY DEF Announce, TypeOK, HandShape, Hand
  <1>3. TypeOK'
    BY <1>1, <1>2 DEF Announce, Release, TypeOK, RowShape, HandShape
  <1>4. Tied'
    BY <1>2 DEF Announce, Release, TypeOK, Tied, DoneMeansApplied, CountIsCurrent,
                AnnouncedByOne, HandFits, OwnedBy
  <1> QED  BY <1>3, <1>4 DEF Announce, GoodRows

-----------------------------------------------------------------------------

\* The inductive invariant holds of an empty table and stopped workers.
LEMMA InitIInv == Init => IInv
  BY BudgetAssumption, NullAssumption, BoundAssumption
  DEF Init, IInv, TypeOK, RowShape, HandShape, RowInv, BudgetRespected,
      OutstandingIsScheduled, DoneMeansApplied, CountIsCurrent, AnnouncedByOne,
      HandFits, NoRow, EmptyHand, Row, Hand, Status, Finished, Terminal, OwnedBy

\* Every step keeps it.
LEMMA StepIInv ==
  ASSUME TypeOK, GoodRows, Tied, [Next]_vars
  PROVE  TypeOK' /\ GoodRows' /\ Tied'
  <1>1. CASE UNCHANGED vars
    BY <1>1 DEF vars, TypeOK, RowShape, HandShape, GoodRows, Tied, DoneMeansApplied,
                CountIsCurrent, AnnouncedByOne, HandFits
  <1>2. ASSUME NEW e \in Events,
               LeaseTick(e) \/ BecomeDue(e) \/ Receive(e) \/ TrimPayload(e) \/ ReplayWrite(e)
        PROVE  TypeOK' /\ GoodRows' /\ Tied'
    BY <1>2, TableStep
  <1>3. ASSUME NEW e \in Events, ReplayCheck(e)
        PROVE  TypeOK' /\ GoodRows' /\ Tied'
    BY <1>3, ReplayCheckStep
  <1>4. ASSUME NEW w \in Workers, Lifetime(w)
        PROVE  TypeOK' /\ GoodRows' /\ Tied'
    BY <1>4, LifetimeStep, TableStep DEF Lifetime
  <1>5. ASSUME NEW w \in Workers, RunOnce(w)
        PROVE  TypeOK' /\ GoodRows' /\ Tied'
    BY <1>5, TableStep, LifetimeStep, ClaimStep, ApplyStep, CompleteStep, AnnounceStep
    DEF RunOnce
  <1>6. ASSUME NEW w \in Workers, SweepExpiredLeases(w)
        PROVE  TypeOK' /\ GoodRows' /\ Tied'
    BY <1>6, TableStep
  <1> QED  BY <1>1, <1>2, <1>3, <1>4, <1>5, <1>6 DEF Next, Clock, Outside

\* The inductive invariant holds in every reachable state.
THEOREM Invariance == Spec => []IInv
  <1>1. IInv /\ [Next]_vars => IInv'
    <2>1. IInv' <=> TypeOK' /\ GoodRows' /\ Tied'
      BY Halves, PTL
    <2> QED  BY <2>1, Halves, StepIInv
  <1> QED  BY <1>1, InitIInv, PTL DEF Spec

\* Every variable has its type, a row has an owner exactly while it is claimed,
\* and a worker an event exactly while it is busy.
THEOREM TypeCorrect == Spec => []TypeOK
  BY Invariance, PTL DEF IInv

\* However workers crash, sweep, retry and replay, an event is given up on after
\* exactly MaxAttempts counted attempts, never earlier, and never outlives them.
THEOREM BudgetIsRespected == Spec => []BudgetRespected
  BY Invariance, PTL DEF IInv, RowInv

\* Whoever may still record an outcome for an event decides from the count the
\* row holds at that moment.
THEOREM CountStaysCurrent == Spec => []CountIsCurrent
  BY Invariance, PTL DEF IInv

\* No waiting event is without a next attempt.
THEOREM NothingIsForgotten == Spec => []OutstandingIsScheduled
  BY Invariance, PTL DEF IInv, RowInv

\* No event is recorded as done before its payload reached the mirror.
THEOREM DoneIsApplied == Spec => []DoneMeansApplied
  BY Invariance, PTL DEF IInv, RowInv

\* However many workers held an event, one at most announces it, once.
THEOREM OneAnnouncer == Spec => []AnnouncedByOne
  BY Invariance, PTL DEF IInv

\* PROCESSED and STALE are final, in every execution.
THEOREM FinishedStaysFinished == Spec => FinishedIsFinal
  <1> DEFINE Kept == \A e \in Events : row[e].status \in Finished =>
               row'[e].status = row[e].status /\ row'[e].attempts = row[e].attempts
  <1>1. ASSUME TypeOK, GoodRows, [Next]_vars  PROVE  [Kept]_vars
    <2> SUFFICES ASSUME NEW x \in Events, row[x].status \in Finished, Next
                 PROVE  row'[x].status = row[x].status /\ row'[x].attempts = row[x].attempts
      BY <1>1
    <2>1. ASSUME NEW e \in Events, Receive(e) \/ ReplayWrite(e) \/ ReplayCheck(e)
          PROVE  row'[x] = row[x]
      BY <1>1, <2>1 DEF Receive, ReplayWrite, ReplayCheck, Replayable, tables, Finished, TypeOK
    <2>2. ASSUME NEW e \in Events, LeaseTick(e) \/ BecomeDue(e) \/ TrimPayload(e)
          PROVE  row'[x].status = row[x].status /\ row'[x].attempts = row[x].attempts
      <3>1. row[x] \in Row /\ row \in [Events -> Row]  BY <1>1 DEF TypeOK
      <3>2. CASE LeaseTick(e)  BY <3>1, <3>2 DEF LeaseTick, Row
      <3>3. CASE BecomeDue(e)  BY <3>1, <3>3 DEF BecomeDue, Row
      <3>4. CASE TrimPayload(e)  BY <3>1, <3>4 DEF TrimPayload, Row
      <3> QED  BY <2>2, <3>2, <3>3, <3>4
    <2>3. ASSUME NEW w \in Workers, Lifetime(w)  PROVE  row'[x] = row[x]
      <3>1. CASE ReclaimOwn(w)  BY <3>1 DEF ReclaimOwn, Finished
      <3>2. CASE Start(w) \/ ReclaimOwnFails(w) \/ Shutdown(w)
        BY <3>2 DEF Start, ReclaimOwnFails, Shutdown, tables
      <3>3. CASE Die(w)
        <4>1. row[x].owner = NoWorker
          BY <1>1 DEF GoodRows, GoodRow, Finished
        <4> QED  BY <3>3, <4>1, NullAssumption DEF Die, Orphaned
      <3> QED  BY <2>3, <3>1, <3>2, <3>3 DEF Lifetime, Crash, PoisonCrash, Stopped
    <2>4. ASSUME NEW w \in Workers, RunOnce(w)  PROVE  row'[x] = row[x]
      <3>1. \/ row' = row
            \/ \E e \in Events : \E r : row' = [row EXCEPT ![e] = r] /\ Claimable(row[e])
            \/ \E r : /\ row' = [row EXCEPT ![hand[w].event] = r]
                      /\ OwnedBy(row[hand[w].event], w)
        <4>1. ASSUME NEW e \in Events, Claim(w, e) \/ ClaimReplyLost(w, e)
              PROVE  \E r : row' = [row EXCEPT ![e] = r] /\ Claimable(row[e])
          BY <4>1 DEF Claim, ClaimReplyLost
        <4>2. CASE Complete(w)  BY <4>2 DEF Complete
        <4>3. CASE CompleteErrors(w)  BY <4>3 DEF CompleteErrors
        <4>4. CASE Renew(w)
          <5> DEFINE e == hand[w].event
          <5>1. row' = [row EXCEPT ![e] = [row[e] EXCEPT !.lease = LeaseTicks]]
            BY <4>4 DEF Renew
          <5> QED  BY <4>4, <5>1 DEF Renew
        <4>5. CASE Apply(w) \/ ApplyThrows(w) \/ LoseClaim(w) \/ Announce(w)
          BY <4>5 DEF Apply, ApplyThrows, LoseClaim, Announce, tables
        <4> QED  BY <2>4, <4>1, <4>2, <4>3, <4>4, <4>5 DEF RunOnce
      <3> QED  BY <1>1, <3>1 DEF Claimable, OwnedBy, Finished, TypeOK
    <2>5. ASSUME NEW w \in Workers, SweepExpiredLeases(w)  PROVE  row'[x] = row[x]
      BY <2>5 DEF SweepExpiredLeases, Expired, Finished
    <2> QED  BY <2>1, <2>2, <2>3, <2>4, <2>5 DEF Next, Clock, Outside
  <1>2. IInv /\ [Next]_vars => [Kept]_vars
    BY <1>1, Halves
  <1> QED  BY <1>2, Invariance, PTL DEF Spec, FinishedIsFinal

-----------------------------------------------------------------------------
(* The queue implements its promise: every step is a step of the promise,  *)
(* or changes nothing the promise speaks of.                               *)

ph == [e \in Events |-> PhaseOf(row[e].status)]

PromiseStep == [Promise!Next]_(Promise!vars)

\* The phases the statuses stand for.
LEMMA Phases ==
  /\ PhaseOf("absent") = "absent"
  /\ PhaseOf("PENDING") = "outstanding"
  /\ PhaseOf("PROCESSING") = "outstanding"
  /\ PhaseOf("FAILED") = "outstanding"
  /\ PhaseOf("PROCESSED") = "processed"
  /\ PhaseOf("STALE") = "stale"
  /\ PhaseOf("DEAD") = "dead"
  BY DEF PhaseOf

\* A step that keeps every phase, and announces and applies nothing, stutters.
LEMMA Stutters ==
  ASSUME UNCHANGED <<applied, announced>>,
         \A x \in Events : PhaseOf(row'[x].status) = PhaseOf(row[x].status)
  PROVE  PromiseStep
  BY DEF PromiseStep, Promise!vars

\* A step that writes one row moves one phase.
LEMMA OnePhase ==
  ASSUME TypeOK, NEW e \in Events, NEW r, row' = [row EXCEPT ![e] = r]
  PROVE  ph' = [ph EXCEPT ![e] = PhaseOf(r.status)]
  BY DEF ph, TypeOK

\* Time, claims, renewals and retention are invisible to the promise.
LEMMA HiddenSteps ==
  ASSUME TypeOK,
         \/ \E e \in Events : LeaseTick(e) \/ BecomeDue(e) \/ TrimPayload(e) \/ ReplayCheck(e)
         \/ \E w \in Workers :
              \/ \E e \in Events : Claim(w, e) \/ ClaimReplyLost(w, e)
              \/ ApplyThrows(w) \/ LoseClaim(w) \/ Renew(w) \/ Lifetime(w)
  PROVE  PromiseStep
  <1>1. UNCHANGED <<applied, announced>>
    BY DEF LeaseTick, BecomeDue, TrimPayload, ReplayCheck, Claim, ClaimReplyLost,
           ApplyThrows, LoseClaim, Renew, Lifetime, Start, ReclaimOwn,
           ReclaimOwnFails, Crash, PoisonCrash, Shutdown, Stopped, Die, tables
  <1>2. ASSUME NEW e \in Events, LeaseTick(e) \/ BecomeDue(e) \/ TrimPayload(e), NEW x \in Events
        PROVE  row'[x].status = row[x].status
    <2>1. row[x] \in Row /\ row \in [Events -> Row]  BY DEF TypeOK
    <2>2. CASE LeaseTick(e)  BY <2>1, <2>2 DEF LeaseTick, Row
    <2>3. CASE BecomeDue(e)  BY <2>1, <2>3 DEF BecomeDue, Row
    <2>4. CASE TrimPayload(e)  BY <2>1, <2>4 DEF TrimPayload, Row
    <2> QED  BY <1>2, <2>2, <2>3, <2>4
  <1>3. ASSUME NEW w \in Workers, NEW e \in Events, Claim(w, e) \/ ClaimReplyLost(w, e), NEW x \in Events
        PROVE  PhaseOf(row'[x].status) = PhaseOf(row[x].status)
    <2>1. row' = [row EXCEPT ![e] = Claimed(row[e], w)] /\ Claimable(row[e])
      BY <1>3 DEF Claim, ClaimReplyLost
    <2>2. row[e] \in Row /\ Claimed(row[e], w).status = "PROCESSING"
      BY DEF TypeOK, Claimed, Row
    <2> QED  BY <2>1, <2>2, Phases DEF Claimable, TypeOK
  <1>4. ASSUME NEW w \in Workers, Renew(w), NEW x \in Events
        PROVE  row'[x].status = row[x].status
    <2>1. row[x] \in Row /\ row \in [Events -> Row]  BY DEF TypeOK
    <2> QED  BY <1>4, <2>1 DEF Renew, Row
  <1>5. ASSUME NEW w \in Workers, ReclaimOwn(w), NEW x \in Events
        PROVE  PhaseOf(row'[x].status) = PhaseOf(row[x].status)
    <2>1. Requeued(row[x]).status = "PENDING"
      BY DEF Requeued, TypeOK, Row
    <2> QED  BY <1>5, <2>1, Phases DEF ReclaimOwn
  <1>6. ASSUME NEW w \in Workers, NEW x \in Events,
               \/ ApplyThrows(w) \/ LoseClaim(w)
               \/ Lifetime(w) /\ ~ ReclaimOwn(w)
        PROVE  row'[x].status = row[x].status
    <2>1. row' = row \/ row' = Orphaned(w)
      BY <1>6 DEF ApplyThrows, LoseClaim, Lifetime, Start, ReclaimOwnFails, Crash,
                  PoisonCrash, Shutdown, Stopped, Die, tables
    <2>2. row[x] \in Row  BY DEF TypeOK
    <2> QED  BY <2>1, <2>2 DEF Orphaned, Row
  <1>7. ASSUME NEW e \in Events, ReplayCheck(e)  PROVE  row' = row
    BY <1>7 DEF ReplayCheck, tables
  <1>8. \A x \in Events : PhaseOf(row'[x].status) = PhaseOf(row[x].status)
    BY <1>2, <1>3, <1>4, <1>5, <1>6, <1>7
  <1> QED  BY <1>1, <1>8, Stutters

\* Recording an outcome finishes the event, gives it up, or leaves it waiting.
LEMMA CompleteKeepsPromise ==
  ASSUME TypeOK, GoodRows, Tied, NEW w \in Workers, Complete(w) \/ CompleteErrors(w)
  PROVE  PromiseStep
  <1> DEFINE e == hand[w].event
             o == hand[w].outcome
             r == Completed(row[e], o)
  <1>1. /\ e \in Events /\ o \in {"FAILED", "DEAD"} \cup Finished
        /\ UNCHANGED <<applied, announced>>
        /\ o \in Finished => e \in applied
    BY DEF Complete, CompleteErrors, TypeOK, HandShape, Hand, Terminal, Tied, HandFits
  <1>2. CASE row' = row
    BY <1>1, <1>2, Stutters
  <1>3. CASE OwnedBy(row[e], w) /\ row' = [row EXCEPT ![e] = r]
    <2>1. PhaseOf(row[e].status) = "outstanding" /\ ph[e] = "outstanding"
      BY <1>1, <1>3, Phases DEF OwnedBy, ph
    <2>2. r.status = o
      BY <1>1 DEF Completed, TypeOK, Row
    <2>3. ph' = [ph EXCEPT ![e] = PhaseOf(o)]
      BY <1>1, <1>3, <2>2, OnePhase
    <2>4. CASE o = "FAILED"
      BY <1>1, <1>3, <2>1, <2>2, <2>4, Phases, Stutters DEF TypeOK
    <2>5. CASE o = "DEAD"
      <3>1. ph' = [x \in Events |-> IF x \in {e} THEN "dead" ELSE ph[x]]
        BY <2>3, <2>5, Phases DEF ph
      <3>2. Promise!GiveUp({e})
        BY <1>1, <2>1, <3>1 DEF Promise!GiveUp, ph
      <3> QED  BY <1>1, <3>2 DEF PromiseStep, Promise!Next
    <2>6. CASE o \in Finished
      <3>1. ph' = [ph EXCEPT ![e] = "processed"] \/ ph' = [ph EXCEPT ![e] = "stale"]
        BY <2>3, <2>6, Phases DEF Finished
      <3>2. Promise!Finish(e)
        BY <1>1, <2>1, <2>6, <3>1 DEF Promise!Finish, ph
      <3> QED  BY <1>1, <3>2 DEF PromiseStep, Promise!Next
    <2> QED  BY <1>1, <2>4, <2>5, <2>6
  <1> QED  BY <1>2, <1>3 DEF Complete, CompleteErrors

\* A sweep gives up on the events whose last attempt was abandoned.
LEMMA SweepKeepsPromise ==
  ASSUME TypeOK, GoodRows, NEW w \in Workers, SweepExpiredLeases(w)
  PROVE  PromiseStep
  <1> DEFINE S == {x \in Events : Expired(row[x]) /\ Swept(row[x]).status = "DEAD"}
  <1>1. \A x \in Events :
          row'[x] = IF Expired(row[x]) THEN Swept(row[x]) ELSE row[x]
    BY DEF SweepExpiredLeases
  <1>2. ASSUME NEW x \in Events, Expired(row[x])
        PROVE  /\ Swept(row[x]).status \in {"PENDING", "DEAD"}
               /\ PhaseOf(row[x].status) = "outstanding"
    BY <1>2, SweptIsGood, Phases DEF Expired, TypeOK, GoodRows, GoodRow
  <1>3. UNCHANGED <<applied, announced>>
    BY DEF SweepExpiredLeases
  <1>4. CASE S = {}
    BY <1>1, <1>2, <1>3, <1>4, Phases, Stutters
  <1>5. CASE S # {}
    <2>1. \A x \in Events :
            PhaseOf(row'[x].status) = IF x \in S THEN "dead" ELSE PhaseOf(row[x].status)
      BY <1>1, <1>2, Phases
    <2>2. ph' = [x \in Events |-> IF x \in S THEN "dead" ELSE ph[x]]
      BY <2>1 DEF ph
    <2>3. \A x \in S : ph[x] = "outstanding"
      BY <1>2 DEF ph
    <2>4. Promise!GiveUp(S)
      BY <1>3, <1>5, <2>2, <2>3 DEF Promise!GiveUp, ph
    <2> QED  BY <2>4 DEF PromiseStep, Promise!Next
  <1> QED  BY <1>4, <1>5

\* The other visible steps: accepting, replaying, applying and announcing.
LEMMA VisibleSteps ==
  ASSUME TypeOK, GoodRows, Tied,
         \/ \E e \in Events : Receive(e) \/ ReplayWrite(e)
         \/ \E w \in Workers : Apply(w) \/ Announce(w)
  PROVE  PromiseStep
  <1>1. ASSUME NEW e \in Events, Receive(e)  PROVE  PromiseStep
    <2>1. ph[e] = "absent" /\ NewRow.status = "PENDING"
      BY <1>1, Phases DEF Receive, ph, NewRow
    <2>2. ph' = [ph EXCEPT ![e] = "outstanding"]
      <3>1. ph' = [ph EXCEPT ![e] = PhaseOf(NewRow.status)]
        BY <1>1, OnePhase DEF Receive
      <3> QED  BY <2>1, <3>1, Phases
    <2>3. Promise!Accept(e)
      BY <1>1, <2>1, <2>2 DEF Promise!Accept, Receive, ph
    <2> QED  BY <2>3 DEF PromiseStep, Promise!Next
  <1>2. ASSUME NEW e \in Events, ReplayWrite(e)  PROVE  PromiseStep
    <2>1. UNCHANGED <<applied, announced>>
      BY <1>2 DEF ReplayWrite
    <2>2. CASE ~ Replayable(row[e])
      BY <1>2, <2>1, <2>2, Stutters DEF ReplayWrite
    <2>3. CASE Replayable(row[e])
      <3>1. /\ row' = [row EXCEPT ![e] = Replayed(row[e])]
            /\ Replayed(row[e]).status = "PENDING"
        BY <1>2, <2>3, ReplayedIsGood DEF ReplayWrite, TypeOK
      <3>2. CASE row[e].status = "FAILED"
        BY <2>1, <3>1, <3>2, Phases, Stutters DEF TypeOK
      <3>3. CASE row[e].status = "DEAD"
        <4>1. ph[e] = "dead" /\ ph' = [ph EXCEPT ![e] = "outstanding"]
          <5>1. ph' = [ph EXCEPT ![e] = PhaseOf(Replayed(row[e]).status)]
            BY <3>1, OnePhase
          <5>2. ph[e] = "dead"
            BY <3>3, Phases DEF ph
          <5> QED  BY <3>1, <5>1, <5>2, Phases
        <4>2. Promise!Replay(e)
          BY <2>1, <4>1 DEF Promise!Replay, ph
        <4> QED  BY <4>2 DEF PromiseStep, Promise!Next
      <3> QED  BY <2>3, <3>2, <3>3 DEF Replayable
    <2> QED  BY <2>2, <2>3
  <1>3. ASSUME NEW w \in Workers, Apply(w)  PROVE  PromiseStep
    <2> DEFINE e == hand[w].event
    <2>1. e \in Events /\ row[e].status # "absent" /\ row[e].status \in Status
      BY <1>3 DEF Apply, TypeOK, HandShape, Hand, Tied, HandFits, Row
    <2>2. ph[e] # "absent" /\ ph' = ph
      BY <1>3, <2>1, Phases DEF Apply, ph, Status, Terminal, Finished
    <2>3. Promise!Apply(e)
      BY <1>3, <2>2 DEF Apply, Promise!Apply, ph
    <2> QED  BY <2>1, <2>3 DEF PromiseStep, Promise!Next
  <1>4. ASSUME NEW w \in Workers, Announce(w)  PROVE  PromiseStep
    <2> DEFINE e == hand[w].event
    <2>1. /\ e \in Events /\ row[e].status = "PROCESSED"
          /\ e \notin announced
      BY <1>4 DEF Announce, TypeOK, HandShape, Hand, Tied, AnnouncedByOne
    <2>2. ph[e] = "processed" /\ ph' = ph
      BY <1>4, <2>1, Phases DEF Announce, ph
    <2>3. Promise!Announce(e)
      BY <1>4, <2>1, <2>2 DEF Announce, Promise!Announce, ph
    <2> QED  BY <2>1, <2>3 DEF PromiseStep, Promise!Next
  <1> QED  BY <1>1, <1>2, <1>3, <1>4

\* Every behaviour of the queue, crashes, lost replies and replays included, is
\* one that the promise allows.
THEOREM QueueKeepsPromise == Spec => KeepsPromise
  <1>1. Init => Promise!Init
    BY Phases DEF Init, NoRow, Promise!Init
  <1>2. IInv /\ [Next]_vars => PromiseStep
    <2> SUFFICES ASSUME TypeOK, GoodRows, Tied, [Next]_vars  PROVE PromiseStep
      BY Halves
    <2>1. CASE UNCHANGED vars
      BY <2>1, Stutters DEF vars
    <2>2. CASE Next
      <3>1. CASE Clock \/ Outside
        BY <3>1, HiddenSteps, VisibleSteps DEF Clock, Outside
      <3>2. ASSUME NEW w \in Workers, RunOnce(w)  PROVE PromiseStep
        BY <3>2, HiddenSteps, VisibleSteps, CompleteKeepsPromise DEF RunOnce
      <3> QED  BY <2>2, <3>1, <3>2, HiddenSteps, SweepKeepsPromise DEF Next
    <2> QED  BY <2>1, <2>2
  <1> QED  BY <1>1, <1>2, Invariance, PTL
           DEF Spec, KeepsPromise, Promise!Safe, PromiseStep

-----------------------------------------------------------------------------

\* While a lease runs, its claim is ended by the owner's own completing statement
\* or by the recovery of the process that bears the owner's id, and by nothing else.
THEOREM LiveClaimsAreRespected == Spec => LiveClaimIsRespected
  <1> DEFINE Ended(w, x) ==
               /\ row[x].owner = w
               /\ \/ /\ pc[w] = "completing" /\ hand[w].event = x
                     /\ <<pc'[w], hand'[w]>> # <<pc[w], hand[w]>>
                  \/ recovering[w] /\ ~ recovering'[w] /\ row'[x] = Requeued(row[x])
                  \/ mode'[w] = "down" /\ row'[x] = [row[x] EXCEPT !.owner = Former]
             Respected(x) ==
               \/ row'[x].status = "PROCESSING" /\ row'[x].owner = row[x].owner
               \/ \E w \in Workers : Ended(w, x)
             Kept == \A e \in Events :
               row[e].status = "PROCESSING" /\ row[e].lease > 0 => Respected(e)
  <1>1. ASSUME TypeOK, Next  PROVE  Kept
    <2> SUFFICES ASSUME NEW x \in Events,
                        row[x].status = "PROCESSING", row[x].lease > 0
                 PROVE  Respected(x)
      OBVIOUS
    <2>1. row[x] \in Row /\ row \in [Events -> Row]
      BY <1>1 DEF TypeOK
    <2> HIDE DEF Ended
    <2>2. ASSUME NEW e \in Events, LeaseTick(e) \/ BecomeDue(e) \/ TrimPayload(e)
          PROVE  row'[x].status = row[x].status /\ row'[x].owner = row[x].owner
      <3>1. CASE LeaseTick(e)  BY <2>1, <3>1 DEF LeaseTick, Row
      <3>2. CASE BecomeDue(e)  BY <2>1, <3>2 DEF BecomeDue, Row
      <3>3. CASE TrimPayload(e)  BY <2>1, <3>3 DEF TrimPayload, Row
      <3> QED  BY <2>2, <3>1, <3>2, <3>3
    <2>3. ASSUME NEW e \in Events, Receive(e) \/ ReplayWrite(e) \/ ReplayCheck(e)
          PROVE  row'[x] = row[x]
      BY <2>1, <2>3 DEF Receive, ReplayWrite, ReplayCheck, Replayable, tables
    <2>4. ASSUME NEW w \in Workers, Lifetime(w)  PROVE  Respected(x)
      <3>1. CASE ReclaimOwn(w)
        <4>1. row[x].owner = w =>
                /\ recovering[w] /\ ~ recovering'[w] /\ row'[x] = Requeued(row[x])
          BY <1>1, <3>1 DEF ReclaimOwn, TypeOK
        <4>2. row[x].owner # w => row'[x] = row[x]
          BY <3>1 DEF ReclaimOwn
        <4> QED  BY <4>1, <4>2 DEF Ended
      <3>2. CASE Start(w) \/ ReclaimOwnFails(w) \/ Shutdown(w)
        BY <3>2 DEF Start, ReclaimOwnFails, Shutdown, tables
      <3>3. CASE Die(w)
        <4>1. mode'[w] = "down"
          BY <1>1, <3>3 DEF Die, TypeOK
        <4>2. \/ row'[x] = row[x]
              \/ row[x].owner = w /\ row'[x] = [row[x] EXCEPT !.owner = Former]
          BY <3>3 DEF Die, Orphaned
        <4> QED  BY <4>1, <4>2 DEF Ended
      <3> QED  BY <2>4, <3>1, <3>2, <3>3 DEF Lifetime, Crash, PoisonCrash, Stopped
    <2>5. ASSUME NEW w \in Workers, RunOnce(w)  PROVE  Respected(x)
      <3>1. CASE \E e \in Events : Claim(w, e) \/ ClaimReplyLost(w, e)
        BY <2>1, <3>1 DEF Claim, ClaimReplyLost, Claimable
      <3>2. CASE Complete(w) \/ CompleteErrors(w)
        <4>1. row'[x] = row[x] \/ (hand[w].event = x /\ OwnedBy(row[x], w))
          BY <2>1, <3>2 DEF Complete, CompleteErrors
        <4>2. <<pc'[w], hand'[w]>> # <<pc[w], hand[w]>> /\ pc[w] = "completing"
          <5>1. pc \in [Workers -> {"idle", "applying", "completing", "announcing"}]
                /\ hand \in [Workers -> Hand]
            BY <1>1 DEF TypeOK
          <5>2. AfterFailure(hand[w].attempts + 1) \notin Finished
            BY DEF AfterFailure, Finished
          <5>3. hand[w].outcome \in Finished =>
                  [hand EXCEPT ![w].outcome = AfterFailure(hand[w].attempts + 1)][w] # hand[w]
            BY <5>1, <5>2 DEF Hand
          <5> QED  BY <3>2, <5>1, <5>3 DEF Complete, CompleteErrors, Release
        <4> QED  BY <4>1, <4>2 DEF Ended, OwnedBy
      <3>3. CASE Renew(w)
        <4> DEFINE e == hand[w].event
        <4>1. row' = [row EXCEPT ![e].lease = LeaseTicks]
          BY <3>3 DEF Renew
        <4> QED  BY <2>1, <4>1 DEF Row
      <3>4. CASE Apply(w) \/ ApplyThrows(w) \/ LoseClaim(w) \/ Announce(w)
        BY <3>4 DEF Apply, ApplyThrows, LoseClaim, Announce, tables
      <3> QED  BY <2>5, <3>1, <3>2, <3>3, <3>4 DEF RunOnce
    <2>6. ASSUME NEW w \in Workers, SweepExpiredLeases(w)  PROVE  row'[x] = row[x]
      BY <2>1, <2>6, BudgetAssumption DEF SweepExpiredLeases, Expired, Row
    <2> QED  BY <1>1, <2>2, <2>3, <2>4, <2>5, <2>6 DEF Next, Clock, Outside
  <1>2. TypeOK /\ [Next]_vars => [Kept]_vars
    BY <1>1
  <1> QED  BY <1>2, TypeCorrect, PTL DEF Spec, LiveClaimIsRespected
=============================================================================
