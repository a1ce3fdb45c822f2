--------------------------- MODULE DailyJobProofs ---------------------------
(***************************************************************************)
(* Proofs about DailyJob, for any number of processes and any length of    *)
(* the lease.                                                              *)
(***************************************************************************)
EXTENDS DailyJob, TLAPS

-----------------------------------------------------------------------------
(* What the statements make of the row, column by column.                  *)

\* Taking the lease.
LEMMA AcquiredRow ==
  ASSUME row \in Row, NEW p \in Processes, Acquired(p)
  PROVE  /\ row' \in Row
         /\ row'.owner = p /\ row'.left = Intervals /\ row'.ok = row.ok
<1>1. row' = [owner |-> p, left |-> Intervals, ok |-> row.ok]  BY DEF Acquired, Row
<1>2. Intervals \in 0 .. Intervals  BY ConstantsFit
<1> QED  BY <1>1, <1>2 DEF Row

\* Giving it back, which does nothing to a row that is somebody else's.
LEMMA ReleasedRow ==
  ASSUME row \in Row, NEW p \in Processes, NEW ok \in BOOLEAN, Released(p, ok)
  PROVE  /\ row' \in Row
         /\ row'.owner = row.owner
         /\ row'.left = IF row.owner = p THEN 0 ELSE row.left
         /\ row'.ok = IF row.owner = p THEN ok \/ row.ok ELSE row.ok
<1>1. CASE row.owner = p
  <2>1. row' = [owner |-> row.owner, left |-> 0, ok |-> ok \/ row.ok]
    BY <1>1 DEF Released, Owned, Row
  <2>2. 0 \in 0 .. Intervals /\ (ok \/ row.ok) \in BOOLEAN  BY ConstantsFit
  <2> QED  BY <1>1, <2>1, <2>2 DEF Row
<1>2. CASE row.owner # p  BY <1>2 DEF Released, Owned
<1> QED  BY <1>1, <1>2

\* Renewing it.
LEMMA ExtendedRow ==
  ASSUME row \in Row, Extended
  PROVE  /\ row' \in Row
         /\ row'.owner = row.owner /\ row'.left = Intervals /\ row'.ok = row.ok
<1>1. row' = [owner |-> row.owner, left |-> Intervals, ok |-> row.ok]  BY DEF Extended, Row
<1>2. Intervals \in 0 .. Intervals  BY ConstantsFit
<1> QED  BY <1>1, <1>2 DEF Row

\* Time passing.
LEMMA IntervalRow ==
  ASSUME row \in Row, Interval
  PROVE  /\ row' \in Row
         /\ row'.owner = row.owner /\ row'.ok = row.ok
         /\ row'.left = IF row.left = 0 THEN 0 ELSE row.left - 1
<1>1. row' = [owner |-> row.owner, left |-> IF row.left = 0 THEN 0 ELSE row.left - 1,
              ok |-> row.ok]
  BY DEF Interval, Row
<1>2. (IF row.left = 0 THEN 0 ELSE row.left - 1) \in 0 .. Intervals  BY ConstantsFit DEF Row
<1> QED  BY <1>1, <1>2 DEF Row

\* The day's end.
LEMMA ForgottenRow ==
  ASSUME row \in Row, row' = [row EXCEPT !.ok = FALSE]
  PROVE  /\ row' \in Row
         /\ row'.owner = row.owner /\ row'.left = row.left /\ row'.ok = FALSE
  BY DEF Row

\* Counting to two.
LEMMA OnceType == \A n \in 0 .. 2 : Once(n) \in 0 .. 2 /\ Once(n) > 0 /\ (n = 0 => Once(n) = 1)
  BY DEF Once

-----------------------------------------------------------------------------
(* Types.                                                                  *)

\* The state the scheduler starts in is well typed.
LEMMA InitType == Init => TypeOK
<1>1. Init => row \in Row /\ missed \in [Processes -> 0 .. Intervals]
  BY ConstantsFit DEF Init, Row
<1> QED  BY <1>1 DEF Init, TypeOK, Stages, Today, Morning

\* Every step keeps the types.
LEMMA StepType ==
  ASSUME TypeOK, [Next]_vars
  PROVE  TypeOK'
<1> USE DEF TypeOK
<1>1. ASSUME NEW p \in Processes, NEW a, NEW b \in Stages, Move(p, a, b)
      PROVE  stage' \in [Processes -> Stages]
  BY <1>1 DEF Move
<1>2. ASSUME NEW p \in Processes  PROVE  [missed EXCEPT ![p] = 0] \in [Processes -> 0 .. Intervals]
  BY ConstantsFit
<1>3. ASSUME Troubled  PROVE  today' \in Today
  BY <1>3 DEF Troubled, Today
<1>4. ASSUME NEW p \in Processes, Tick(p)  PROVE  TypeOK'
  BY <1>4 DEF Tick, Today, Stages
<1>5. ASSUME NEW p \in Processes, Take(p)  PROVE  TypeOK'
  BY <1>1, <1>2, <1>5, AcquiredRow DEF Take, Stages, Renewing
<1>6. ASSUME NEW p \in Processes, HeldElsewhere(p)  PROVE  TypeOK'
  BY <1>1, <1>6 DEF HeldElsewhere, Stages
<1>7. ASSUME NEW p \in Processes, TakeThrows(p)  PROVE  TypeOK'
  BY <1>1, <1>3, <1>7, AcquiredRow DEF TakeThrows, Stages
<1>8. ASSUME NEW p \in Processes, LookAgain(p)  PROVE  TypeOK'
  <2>1. Again(p) \in Stages  BY DEF Again, Stages, Renewing
  <2> QED  BY <1>1, <1>8, <2>1 DEF LookAgain
<1>9. ASSUME NEW p \in Processes, Finish(p)  PROVE  TypeOK'
  <2>1. today' \in Today  BY <1>9, OnceType DEF Finish, Today
  <2> QED  BY <1>1, <1>9, <2>1 DEF Finish, Stages, Renewing
<1>10. ASSUME NEW p \in Processes, Throw(p)  PROVE  TypeOK'
  BY <1>1, <1>3, <1>10 DEF Throw, Stages, Renewing
<1>11. ASSUME NEW p \in Processes, Release(p)  PROVE  TypeOK'
  <2>1. today' \in Today  BY <1>11, OnceType DEF Release, Today
  <2>2. row' \in Row  BY <1>11, ReleasedRow DEF Release
  <2> QED  BY <1>1, <1>11, <2>1, <2>2 DEF Release, Stages
<1>12. ASSUME NEW p \in Processes, ReleaseThrows(p)  PROVE  TypeOK'
  <2>1. today' \in Today
    <3>1. CASE Troubled  BY <1>3, <3>1
    <3>2. CASE ~ Troubled  BY <1>12, <3>2, OnceType DEF ReleaseThrows, Today
    <3> QED  BY <3>1, <3>2
  <2>2. row' \in Row  BY <1>12, ReleasedRow DEF ReleaseThrows
  <2> QED  BY <1>1, <1>12, <2>1, <2>2 DEF ReleaseThrows, Stages, Renewing
<1>13. ASSUME NEW p \in Processes, ReleaseFailed(p)  PROVE  TypeOK'
  <2>1. row' \in Row  BY <1>13, ReleasedRow DEF ReleaseFailed
  <2> QED  BY <1>1, <1>13, <2>1 DEF ReleaseFailed, Stages
<1>14. ASSUME NEW p \in Processes, Renew(p)  PROVE  TypeOK'
  BY <1>2, <1>14, ExtendedRow DEF Renew
<1>15. ASSUME NEW p \in Processes, Crash(p)  PROVE  TypeOK'
  <2>1. today' \in Today  BY <1>15 DEF Crash, Today
  <2> QED  BY <1>15, <2>1 DEF Crash, Stages
<1>16. ASSUME NEW p \in Processes, Boot(p)  PROVE  TypeOK'
  BY <1>1, <1>16 DEF Boot, Stages
<1>17. CASE Pass
  <2>1. missed' \in [Processes -> 0 .. Intervals]  BY <1>17, ConstantsFit DEF Pass
  <2> QED  BY <1>17, <2>1, IntervalRow DEF Pass
<1>18. CASE CloseHour  BY <1>18 DEF CloseHour, Today
<1>19. CASE NewDay
  <2>1. today' \in Today  BY <1>19 DEF NewDay, Morning, Today
  <2> QED  BY <1>19, <2>1, ForgottenRow DEF NewDay
<1>20. CASE UNCHANGED vars  BY <1>20 DEF vars
<1> QED
  BY <1>4, <1>5, <1>6, <1>7, <1>8, <1>9, <1>10, <1>11, <1>12, <1>13, <1>14, <1>15, <1>16,
     <1>17, <1>18, <1>19, <1>20 DEF Next, Job

-----------------------------------------------------------------------------
(* The inductive invariant.                                                *)

\* A process whose renewals keep up has the row, whatever the others do.
LEMMA KeepsUpStep ==
  ASSUME TypeOK, KeepsUp, [Next]_vars
  PROVE  KeepsUp'
<1> DEFINE Kept(q) == \/ missed[q] = Intervals
                      \/ row.owner = q /\ row.left + missed[q] = Intervals
<1> DEFINE Runs == {"inside", "work", "succeeded", "skipped"}
<1> SUFFICES ASSUME NEW q \in Processes, stage'[q] \in Runs
             PROVE  Kept(q)'
  BY DEF KeepsUp
<1>1. /\ row \in Row /\ stage \in [Processes -> Stages]
      /\ missed \in [Processes -> 0 .. Intervals]
  BY DEF TypeOK
<1>2. stage[q] \in Runs => Kept(q)  BY DEF KeepsUp
<1>3. ASSUME stage[q] \in Runs, row' = row, missed' = missed  PROVE  Kept(q)'
  BY <1>2, <1>3
<1>4. ASSUME NEW p \in Processes, Tick(p)  PROVE  Kept(q)'
  BY <1>1, <1>3, <1>4 DEF Tick
<1>5. ASSUME NEW p \in Processes, Take(p)  PROVE  Kept(q)'
  <2>1. CASE q = p
    <3>1. missed'[q] = 0 /\ row'.owner = q /\ row'.left = Intervals
      BY <1>1, <1>5, <2>1, AcquiredRow DEF Take
    <3> QED  BY <3>1, ConstantsFit
  <2>2. CASE q # p
    <3>1. missed'[q] = missed[q] /\ stage'[q] = stage[q] /\ row.left = 0
      BY <1>1, <1>5, <2>2 DEF Take, Move, Free
    <3> QED  BY <1>1, <1>2, <3>1
  <2> QED  BY <2>1, <2>2
<1>6. ASSUME NEW p \in Processes, HeldElsewhere(p)  PROVE  Kept(q)'
  BY <1>1, <1>3, <1>6 DEF HeldElsewhere, Move
<1>7. ASSUME NEW p \in Processes, TakeThrows(p)  PROVE  Kept(q)'
  <2>1. stage[q] \in Runs /\ missed' = missed  BY <1>1, <1>7 DEF TakeThrows, Move
  <2>2. CASE row' = row  BY <1>3, <2>1, <2>2
  <2>3. CASE Free  BY <1>1, <1>2, <2>1, <2>3 DEF Free
  <2> QED  BY <1>7, <2>2, <2>3 DEF TakeThrows
<1>8. ASSUME NEW p \in Processes, LookAgain(p)  PROVE  Kept(q)'
  BY <1>1, <1>3, <1>8 DEF LookAgain, Move
<1>9. ASSUME NEW p \in Processes, Finish(p)  PROVE  Kept(q)'
  BY <1>1, <1>3, <1>9 DEF Finish, Move
<1>10. ASSUME NEW p \in Processes, Throw(p)  PROVE  Kept(q)'
  BY <1>1, <1>3, <1>10 DEF Throw, Move
<1>11. ASSUME NEW p \in Processes, NEW ok \in BOOLEAN, Released(p, ok), missed' = missed,
              NEW b \in {"idle", "failed"}, stage' = [stage EXCEPT ![p] = b]
       PROVE  Kept(q)'
  <2>1. q # p /\ stage[q] \in Runs  BY <1>1, <1>11
  <2>2. row'.owner = row.owner /\ (row.owner # p => row'.left = row.left)
    BY <1>1, <1>11, ReleasedRow
  <2> QED  BY <1>2, <1>11, <2>1, <2>2
<1>12. ASSUME NEW p \in Processes, Release(p)  PROVE  Kept(q)'
  BY <1>11, <1>12 DEF Release, Move
<1>13. ASSUME NEW p \in Processes, ReleaseThrows(p)  PROVE  Kept(q)'
  <2>1. CASE row' = row  BY <1>1, <1>3, <1>13, <2>1 DEF ReleaseThrows, Move
  <2>2. CASE Released(p, TRUE)  BY <1>11, <1>13, <2>2 DEF ReleaseThrows, Move
  <2> QED  BY <1>13, <2>1, <2>2 DEF ReleaseThrows
<1>14. ASSUME NEW p \in Processes, ReleaseFailed(p)  PROVE  Kept(q)'
  <2>1. CASE row' = row  BY <1>1, <1>3, <1>14, <2>1 DEF ReleaseFailed, Move
  <2>2. CASE Released(p, FALSE)  BY <1>11, <1>14, <2>2 DEF ReleaseFailed, Move
  <2> QED  BY <1>14, <2>1, <2>2 DEF ReleaseFailed
<1>15. ASSUME NEW p \in Processes, Renew(p)  PROVE  Kept(q)'
  <2>1. row.owner = p /\ row'.owner = p /\ row'.left = Intervals /\ stage[q] \in Runs
    BY <1>1, <1>15, ExtendedRow DEF Renew, Owned
  <2>2. CASE q = p
    <3>1. missed'[q] = 0  BY <1>1, <1>15, <2>2 DEF Renew
    <3> QED  BY <2>1, <2>2, <3>1, ConstantsFit
  <2>3. CASE q # p  BY <1>1, <1>2, <1>15, <2>1, <2>3 DEF Renew
  <2> QED  BY <2>2, <2>3
<1>16. ASSUME NEW p \in Processes, Crash(p)  PROVE  Kept(q)'
  BY <1>1, <1>3, <1>16 DEF Crash
<1>17. ASSUME NEW p \in Processes, Boot(p)  PROVE  Kept(q)'
  BY <1>1, <1>3, <1>17 DEF Boot, Move
<1>18. CASE Pass
  <2>1. /\ stage[q] \in Runs /\ row'.owner = row.owner
        /\ row'.left = IF row.left = 0 THEN 0 ELSE row.left - 1
    BY <1>1, <1>18, IntervalRow DEF Pass
  <2>2. missed'[q] = IF missed[q] < Intervals THEN missed[q] + 1 ELSE missed[q]
    BY <1>18, <2>1 DEF Pass, Renewing
  <2>3. row.left \in Nat /\ missed[q] \in 0 .. Intervals  BY <1>1 DEF Row
  <2> QED  BY <1>2, <2>1, <2>2, <2>3, ConstantsFit
<1>19. CASE CloseHour  BY <1>3, <1>19 DEF CloseHour
<1>20. CASE NewDay  BY <1>1, <1>19, <1>20 DEF NewDay, Quiet
<1>21. CASE UNCHANGED vars  BY <1>3, <1>21 DEF vars
<1> QED
  BY <1>4, <1>5, <1>6, <1>7, <1>8, <1>9, <1>10, <1>12, <1>13, <1>14, <1>15, <1>16,
     <1>17, <1>18, <1>19, <1>20, <1>21 DEF Next, Job

\* What the record of the day says, and who may still write it.
Record == RunIsDue /\ RecordedOnce /\ RecordIsTrue

\* A release keeps the record: the owner's tells of the first run that ended
\* well, anybody else's changes nothing.
LEMMA ReleaseKeepsRecord ==
  ASSUME TypeOK, Record, NEW p \in Processes, NEW ok \in BOOLEAN, NEW b \in {"idle", "failed"},
         Released(p, ok), stage' = [stage EXCEPT ![p] = b],
         ok => stage[p] \in {"succeeded", "skipped"},
         today'.finished = today.finished,
         today'.recorded = IF ok /\ stage[p] = "succeeded" /\ row.owner = p
                           THEN Once(today.recorded) ELSE today.recorded
  PROVE  Record'
<1>1. /\ row \in Row /\ stage \in [Processes -> Stages]
      /\ today.recorded \in 0 .. 2 /\ row.ok \in BOOLEAN
  BY DEF TypeOK, Today, Row
<1>2. /\ row'.owner = row.owner
      /\ row'.left = IF row.owner = p THEN 0 ELSE row.left
      /\ row'.ok = IF row.owner = p THEN ok \/ row.ok ELSE row.ok
  BY <1>1, ReleasedRow
<1>3. stage'[p] = b /\ \A q \in Processes \ {p} : stage'[q] = stage[q]  BY <1>1
<1>4. row.ok => row'.ok  BY <1>2
<1>5. RunIsDue'
  <2>1. row'.left > 0 => row'.owner # Nobody  BY <1>1, <1>2 DEF Record, RunIsDue, Row
  <2>2. ASSUME NEW q \in Processes
        PROVE  /\ stage'[q] \in {"work", "succeeded"} /\ row'.owner = q => ~ row'.ok
               /\ stage'[q] = "succeeded" => today'.finished > 0
               /\ stage'[q] = "skipped" => row'.ok
    <3>1. CASE q = p  BY <1>3, <3>1
    <3>2. CASE q # p  BY <1>2, <1>3, <1>4, <3>2 DEF Record, RunIsDue
    <3> QED  BY <3>1, <3>2
  <2> QED  BY <2>1, <2>2 DEF RunIsDue
<1>6. RecordedOnce'
  <2>1. CASE ok /\ row.owner = p /\ stage[p] = "succeeded"
    <3>1. ~ row.ok /\ row'.ok  BY <1>2, <2>1 DEF Record, RunIsDue
    <3>2. today.recorded = 0  BY <3>1 DEF Record, RecordedOnce
    <3> QED  BY <2>1, <3>1, <3>2, OnceType DEF RecordedOnce
  <2>2. CASE ~ (ok /\ row.owner = p /\ stage[p] = "succeeded")
    <3>1. row'.ok <=> row.ok  BY <1>2, <2>2 DEF Record, RunIsDue
    <3>2. today'.recorded = today.recorded  BY <2>2
    <3> QED  BY <3>1, <3>2 DEF RecordedOnce, Record
  <2> QED  BY <2>1, <2>2
<1>7. RecordIsTrue'
  <2>1. row'.ok => row.ok \/ stage[p] = "succeeded"  BY <1>2 DEF Record, RunIsDue
  <2> QED  BY <2>1 DEF Record, RecordIsTrue, RunIsDue
<1> QED  BY <1>5, <1>6, <1>7 DEF Record

\* A step that keeps the owner and the record, and of which nobody has more to
\* say, keeps all of it.
LEMMA RecordUndisturbed ==
  ASSUME Record, row'.ok = row.ok,
         row'.left > 0 => row'.owner # Nobody,
         today'.finished = today.finished, today'.recorded = today.recorded,
         \A q \in Processes :
           /\ stage'[q] \in {"work", "succeeded"} /\ row'.owner = q =>
                (stage[q] \in {"work", "succeeded"} /\ row.owner = q) \/ ~ row.ok
           /\ stage'[q] = "succeeded" => stage[q] = "succeeded"
           /\ stage'[q] = "skipped" => stage[q] = "skipped" \/ row.ok
  PROVE  Record'
<1>1. RunIsDue'  BY DEF Record, RunIsDue
<1>2. RecordedOnce' /\ RecordIsTrue'  BY DEF Record, RecordedOnce, RecordIsTrue
<1> QED  BY <1>1, <1>2 DEF Record

\* No step spoils the record.
LEMMA RecordStep ==
  ASSUME TypeOK, Record, [Next]_vars
  PROVE  Record'
<1>1. /\ row \in Row /\ stage \in [Processes -> Stages] /\ today \in Today
      /\ today.finished \in 0 .. 2
  BY DEF TypeOK, Today
<1>2. row.left > 0 => row.owner # Nobody  BY DEF Record, RunIsDue
<1>3. Troubled => today'.finished = today.finished /\ today'.recorded = today.recorded
  BY <1>1 DEF Troubled, Today
<1>4. ASSUME NEW p \in Processes, Tick(p)  PROVE  Record'
  <2>1. today'.finished = today.finished /\ today'.recorded = today.recorded
    BY <1>1, <1>4 DEF Tick, Today
  <2>2. \A q \in Processes : stage'[q] = stage[q] \/ stage'[q] \in {"idle", "take"}
    BY <1>1, <1>4 DEF Tick
  <2> QED  BY <1>2, <1>4, <2>1, <2>2, RecordUndisturbed DEF Tick
<1>5. ASSUME NEW p \in Processes, Take(p)  PROVE  Record'
  <2>1. row'.owner = p /\ row'.ok = row.ok  BY <1>1, <1>5, AcquiredRow DEF Take
  <2>2. /\ stage'[p] = "inside"
        /\ \A q \in Processes \ {p} : stage'[q] = stage[q]
    BY <1>1, <1>5 DEF Take, Move
  <2>3. p # Nobody  BY ConstantsFit
  <2> QED  BY <1>5, <2>1, <2>2, <2>3, RecordUndisturbed DEF Take
<1>6. ASSUME NEW p \in Processes, HeldElsewhere(p)  PROVE  Record'
  <2>1. \A q \in Processes : stage'[q] = stage[q] \/ stage'[q] = "idle"
    BY <1>1, <1>6 DEF HeldElsewhere, Move
  <2> QED  BY <1>2, <1>6, <2>1, RecordUndisturbed DEF HeldElsewhere
<1>7. ASSUME NEW p \in Processes, TakeThrows(p)  PROVE  Record'
  <2>1. \A q \in Processes : stage'[q] = IF q = p THEN "idle" ELSE stage[q]
    BY <1>1, <1>7 DEF TakeThrows, Move
  <2>2. p # Nobody  BY ConstantsFit
  <2>3. CASE row' = row  BY <1>2, <1>3, <1>7, <2>1, <2>3, RecordUndisturbed DEF TakeThrows
  <2>4. CASE Acquired(p)
    <3>1. row'.owner = p /\ row'.ok = row.ok  BY <1>1, <2>4, AcquiredRow
    <3> QED  BY <1>3, <1>7, <2>1, <2>2, <3>1, RecordUndisturbed DEF TakeThrows
  <2> QED  BY <1>7, <2>3, <2>4 DEF TakeThrows
<1>8. ASSUME NEW p \in Processes, LookAgain(p)  PROVE  Record'
  <2>1. \A q \in Processes :
          stage'[q] = IF q = p THEN (IF row.ok THEN "skipped" ELSE "work") ELSE stage[q]
    BY <1>1, <1>8 DEF LookAgain, Move, Again, RanToday
  <2> QED  BY <1>2, <1>8, <2>1, RecordUndisturbed DEF LookAgain
<1>9. ASSUME NEW p \in Processes, Finish(p)  PROVE  Record'
  <2>1. today'.recorded = today.recorded /\ today'.finished = Once(today.finished)
    BY <1>1, <1>9 DEF Finish, Today
  <2>2. today'.finished > 0  BY <1>1, <2>1, OnceType
  <2>3. \A q \in Processes : stage'[q] = IF q = p THEN "succeeded" ELSE stage[q]
    BY <1>1, <1>9 DEF Finish, Move
  <2>4. RunIsDue'  BY <1>9, <2>2, <2>3 DEF Finish, Move, Record, RunIsDue
  <2>5. RecordedOnce' /\ RecordIsTrue'
    BY <1>9, <2>1, <2>2 DEF Finish, Record, RecordedOnce, RecordIsTrue
  <2> QED  BY <2>4, <2>5 DEF Record
<1>10. ASSUME NEW p \in Processes, Throw(p)  PROVE  Record'
  <2>1. \A q \in Processes : stage'[q] = stage[q] \/ stage'[q] = "failed"
    BY <1>1, <1>10 DEF Throw, Move
  <2> QED  BY <1>2, <1>3, <1>10, <2>1, RecordUndisturbed DEF Throw
<1>11. ASSUME NEW p \in Processes, Release(p)  PROVE  Record'
  <2>1. stage[p] \in {"succeeded", "skipped"} /\ stage' = [stage EXCEPT ![p] = "idle"]
    BY <1>11 DEF Release, Move
  <2>2. /\ today'.finished = today.finished
        /\ today'.recorded = IF stage[p] = "succeeded" /\ row.owner = p
                             THEN Once(today.recorded) ELSE today.recorded
    BY <1>1, <1>11 DEF Release, Move, Owned, Today
  <2> QED  BY <1>11, <2>1, <2>2, ReleaseKeepsRecord DEF Release
<1>12. ASSUME NEW p \in Processes, ReleaseThrows(p)  PROVE  Record'
  <2>1. stage[p] \in {"succeeded", "skipped"} /\ stage' = [stage EXCEPT ![p] = "failed"]
    BY <1>12 DEF ReleaseThrows, Move
  <2>2. CASE Troubled /\ row' = row
    <3>1. \A q \in Processes : stage'[q] = stage[q] \/ stage'[q] = "failed"  BY <1>1, <2>1
    <3> QED  BY <1>2, <1>3, <2>2, <3>1, RecordUndisturbed
  <2>3. CASE ~ (Troubled /\ row' = row)
    <3>1. Released(p, TRUE)  BY <1>12, <2>3 DEF ReleaseThrows
    <3>2. /\ today'.finished = today.finished
          /\ today'.recorded = IF stage[p] = "succeeded" /\ row.owner = p
                               THEN Once(today.recorded) ELSE today.recorded
      BY <1>1, <1>12, <2>3 DEF ReleaseThrows, Owned, Today
    <3> QED  BY <2>1, <3>1, <3>2, ReleaseKeepsRecord
  <2> QED  BY <2>2, <2>3
<1>13. ASSUME NEW p \in Processes, ReleaseFailed(p)  PROVE  Record'
  <2>1. stage' = [stage EXCEPT ![p] = "idle"] /\ today' = today
    BY <1>13 DEF ReleaseFailed, Move
  <2>2. CASE row' = row
    <3>1. \A q \in Processes : stage'[q] = stage[q] \/ stage'[q] = "idle"  BY <1>1, <2>1
    <3> QED  BY <1>2, <2>1, <2>2, <3>1, RecordUndisturbed
  <2>3. CASE Released(p, FALSE)  BY <2>1, <2>3, ReleaseKeepsRecord
  <2> QED  BY <1>13, <2>2, <2>3 DEF ReleaseFailed
<1>14. ASSUME NEW p \in Processes, Renew(p)  PROVE  Record'
  <2>1. row'.owner = row.owner /\ row'.ok = row.ok  BY <1>1, <1>14, ExtendedRow DEF Renew
  <2> QED  BY <1>2, <1>14, <2>1, RecordUndisturbed DEF Renew
<1>15. ASSUME NEW p \in Processes, Crash(p)  PROVE  Record'
  <2>1. today'.finished = today.finished /\ today'.recorded = today.recorded
    BY <1>1, <1>15 DEF Crash, Today
  <2>2. \A q \in Processes : stage'[q] = stage[q] \/ stage'[q] = "down"
    BY <1>1, <1>15 DEF Crash
  <2> QED  BY <1>2, <1>15, <2>1, <2>2, RecordUndisturbed DEF Crash
<1>16. ASSUME NEW p \in Processes, Boot(p)  PROVE  Record'
  <2>1. \A q \in Processes : stage'[q] = stage[q] \/ stage'[q] = "idle"
    BY <1>1, <1>16 DEF Boot, Move
  <2> QED  BY <1>2, <1>16, <2>1, RecordUndisturbed DEF Boot
<1>17. CASE Pass
  <2>1. /\ row'.owner = row.owner /\ row'.ok = row.ok
        /\ row'.left > 0 => row.left > 0
    BY <1>1, <1>17, IntervalRow DEF Pass, Row
  <2> QED  BY <1>2, <1>17, <2>1, RecordUndisturbed DEF Pass
<1>18. CASE CloseHour
  <2>1. today'.finished = today.finished /\ today'.recorded = today.recorded
    BY <1>1, <1>18 DEF CloseHour, Today
  <2> QED  BY <1>2, <1>18, <2>1, RecordUndisturbed DEF CloseHour
<1>19. CASE NewDay
  <2>1. row'.left = 0 /\ row'.ok = FALSE /\ today'.recorded = 0
    BY <1>1, <1>19, ForgottenRow DEF NewDay, Quiet, Morning
  <2>2. \A q \in Processes : stage'[q] \in {"down", "idle"}  BY <1>19 DEF NewDay, Quiet
  <2>3. RunIsDue'  BY <2>1, <2>2 DEF RunIsDue
  <2> QED  BY <2>1, <2>3 DEF Record, RecordedOnce, RecordIsTrue
<1>20. CASE UNCHANGED vars  BY <1>2, <1>20, RecordUndisturbed DEF vars
<1> QED
  BY <1>4, <1>5, <1>6, <1>7, <1>8, <1>9, <1>10, <1>11, <1>12, <1>13, <1>14, <1>15, <1>16,
     <1>17, <1>18, <1>19, <1>20 DEF Next, Job

\* Some process that had its tick in the hour has not come to the job yet.
Willing == \E p \in Processes : stage[p] = "take"

\* Nobody who is on the way to doing the job gives up on it, unless something
\* fails or the job is done.
LEMMA SomebodyWillStep ==
  ASSUME TypeOK, SomebodyWill, RunIsDue, [Next]_vars
  PROVE  SomebodyWill'
<1> DEFINE Will == /\ row.left > 0 => Engaged
                   /\ today.looked => Engaged \/ Willing
<1> SUFFICES ASSUME ~ row'.ok, ~ today'.trouble
             PROVE  Will'
  BY DEF SomebodyWill, Willing
<1>1. /\ row \in Row /\ stage \in [Processes -> Stages] /\ today \in Today
      /\ row.ok \in BOOLEAN
  BY DEF TypeOK, Row
<1>2. ~ row.ok /\ ~ today.trouble => Will  BY DEF SomebodyWill, Willing
<1>3. ~ Troubled  BY <1>1 DEF Troubled, Today
<1>4. ASSUME NEW p \in Processes, Tick(p)  PROVE  Will'
  <2>1. /\ ~ row.ok /\ ~ today.trouble /\ row' = row
        /\ stage[p] = "idle" /\ stage'[p] = "take"
        /\ \A q \in Processes \ {p} : stage'[q] = stage[q]
    BY <1>1, <1>4 DEF Tick, RanToday, Today
  <2>2. Engaged => Engaged'  BY <1>1, <2>1 DEF Engaged, Row
  <2> QED  BY <1>2, <2>1, <2>2 DEF Willing
<1>5. ASSUME NEW p \in Processes, Take(p)  PROVE  Will'
  <2>1. row'.owner = p /\ stage'[p] = "inside"
    BY <1>1, <1>5, AcquiredRow DEF Take, Move
  <2>2. Engaged'  BY <2>1, ConstantsFit DEF Engaged
  <2> QED  BY <2>2
<1>6. ASSUME NEW p \in Processes, HeldElsewhere(p)  PROVE  Will'
  <2>1. /\ row' = row /\ today' = today /\ row.left # 0 /\ stage[p] = "take"
        /\ \A q \in Processes : stage'[q] = IF q = p THEN "idle" ELSE stage[q]
    BY <1>1, <1>6 DEF HeldElsewhere, Move, Free
  <2>2. Engaged  BY <1>1, <1>2, <2>1 DEF Row
  <2>3. Engaged'  BY <1>1, <2>1, <2>2 DEF Engaged, Row
  <2> QED  BY <2>3
<1>7. ASSUME NEW p \in Processes, LookAgain(p)  PROVE  Will'
  <2>1. /\ row' = row /\ today' = today /\ stage[p] = "inside"
        /\ \A q \in Processes : stage'[q] = IF q = p THEN "work" ELSE stage[q]
    BY <1>1, <1>7 DEF LookAgain, Move, Again, RanToday
  <2>2. Engaged => Engaged'  BY <1>1, <2>1 DEF Engaged, Row
  <2>3. Willing => Willing'  BY <2>1 DEF Willing
  <2> QED  BY <1>2, <2>1, <2>2, <2>3
<1>8. ASSUME NEW p \in Processes, Finish(p)  PROVE  Will'
  <2>1. /\ row' = row /\ stage[p] = "work"
        /\ today'.looked = today.looked /\ today'.trouble = today.trouble
        /\ \A q \in Processes : stage'[q] = IF q = p THEN "succeeded" ELSE stage[q]
    BY <1>1, <1>8 DEF Finish, Move, Today
  <2>2. Engaged => Engaged'  BY <1>1, <2>1 DEF Engaged, Row
  <2>3. Willing => Willing'  BY <2>1 DEF Willing
  <2> QED  BY <1>2, <2>1, <2>2, <2>3
<1>9. ASSUME NEW p \in Processes, Release(p)  PROVE  Will'
  <2>1. /\ row'.owner = row.owner
        /\ row'.left = IF row.owner = p THEN 0 ELSE row.left
        /\ row'.ok = IF row.owner = p THEN TRUE ELSE row.ok
    BY <1>1, <1>9, ReleasedRow DEF Release
  <2>2. row.owner # p /\ row'.left = row.left /\ ~ row.ok  BY <2>1
  <2>3. /\ today'.looked = today.looked /\ today'.trouble = today.trouble
        /\ stage[p] \in {"succeeded", "skipped"}
        /\ \A q \in Processes : stage'[q] = IF q = p THEN "idle" ELSE stage[q]
    BY <1>1, <1>9 DEF Release, Move, Today
  <2>4. Engaged => Engaged'  BY <1>1, <2>1, <2>2, <2>3 DEF Engaged, Row
  <2>5. Willing => Willing'  BY <2>3 DEF Willing
  <2> QED  BY <1>2, <2>2, <2>3, <2>4, <2>5
<1>10. ASSUME NEW p \in Processes, ReleaseThrows(p)  PROVE  Will'
  <2>1. today'.trouble  BY <1>1, <1>3, <1>10 DEF ReleaseThrows, Today
  <2> QED  BY <2>1
<1>11. ASSUME NEW p \in Processes, ReleaseFailed(p)  PROVE  Will'
  <2>1. /\ today' = today /\ stage[p] = "failed"
        /\ \A q \in Processes : stage'[q] = IF q = p THEN "idle" ELSE stage[q]
    BY <1>1, <1>11 DEF ReleaseFailed, Move
  <2>2. /\ row'.owner = row.owner /\ row'.ok = row.ok
        /\ row'.left > 0 => row.left > 0
    <3>1. CASE row' = row  BY <3>1
    <3>2. CASE Released(p, FALSE)
      <4>1. /\ row'.owner = row.owner
            /\ row'.left = IF row.owner = p THEN 0 ELSE row.left
            /\ row'.ok = IF row.owner = p THEN FALSE \/ row.ok ELSE row.ok
        BY <1>1, <3>2, ReleasedRow
      <4>2. (FALSE \/ row.ok) = row.ok  BY <1>1
      <4> QED  BY <4>1, <4>2
    <3> QED  BY <1>11, <3>1, <3>2 DEF ReleaseFailed
  <2>3. Engaged => Engaged'  BY <1>1, <2>1, <2>2 DEF Engaged, Row
  <2>4. Willing => Willing'  BY <2>1 DEF Willing
  <2> QED  BY <1>2, <2>1, <2>2, <2>3, <2>4
<1>12. ASSUME NEW p \in Processes, Renew(p)  PROVE  Will'
  <2>1. /\ row'.owner = row.owner /\ row'.ok = row.ok /\ row.left > 0
        /\ stage' = stage /\ today' = today
    BY <1>1, <1>12, ExtendedRow DEF Renew
  <2> QED  BY <1>2, <2>1 DEF Engaged, Willing
<1>13. ASSUME NEW p \in Processes, Crash(p)  PROVE  Will'
  <2>1. /\ row' = row /\ stage[p] = "idle" /\ ~ today.trouble
        /\ today'.looked = today.looked
        /\ \A q \in Processes : stage'[q] = IF q = p THEN "down" ELSE stage[q]
    BY <1>1, <1>13 DEF Crash, Today
  <2>2. Engaged => Engaged'  BY <1>1, <2>1 DEF Engaged, Row
  <2>3. Willing => Willing'  BY <2>1 DEF Willing
  <2> QED  BY <1>2, <2>1, <2>2, <2>3
<1>14. ASSUME NEW p \in Processes, Boot(p)  PROVE  Will'
  <2>1. /\ row' = row /\ stage[p] = "down" /\ today' = today
        /\ \A q \in Processes : stage'[q] = IF q = p THEN "idle" ELSE stage[q]
    BY <1>1, <1>14 DEF Boot, Move
  <2>2. Engaged => Engaged'  BY <1>1, <2>1 DEF Engaged, Row
  <2>3. Willing => Willing'  BY <2>1 DEF Willing
  <2> QED  BY <1>2, <2>1, <2>2, <2>3
<1>15. CASE Pass
  <2>1. /\ row'.owner = row.owner /\ row'.ok = row.ok
        /\ row'.left > 0 => row.left > 0
        /\ stage' = stage /\ today' = today
    BY <1>1, <1>15, IntervalRow DEF Pass, Row
  <2> QED  BY <1>2, <2>1 DEF Engaged, Willing
<1>16. CASE CloseHour
  <2>1. /\ row' = row /\ stage' = stage
        /\ today'.looked = today.looked /\ today'.trouble = today.trouble
    BY <1>1, <1>16 DEF CloseHour, Today
  <2> QED  BY <1>2, <2>1 DEF Engaged, Willing
<1>17. CASE NewDay
  <2>1. row'.left = 0 /\ ~ today'.looked
    BY <1>1, <1>17, ForgottenRow DEF NewDay, Quiet, Morning
  <2> QED  BY <2>1
<1>18. CASE UNCHANGED vars  BY <1>2, <1>18 DEF vars, Engaged, Willing
<1> QED
  BY <1>3, <1>4, <1>5, <1>6, <1>7, <1>8, <1>9, <1>10, <1>11, <1>12, <1>13, <1>14, <1>15,
     <1>16, <1>17, <1>18 DEF Next, Job, TakeThrows, Throw

-----------------------------------------------------------------------------
(* The theorems.                                                           *)

\* The inductive invariant holds when the scheduler starts.
LEMMA InitIInv == Init => IInv
<1> SUFFICES ASSUME Init  PROVE  IInv
  OBVIOUS
<1>1. TypeOK  BY InitType
<1>2. row.left = 0 /\ ~ row.ok /\ today.recorded = 0 /\ ~ today.looked
      /\ \A p \in Processes : stage[p] \in {"down", "idle"}
  BY DEF Init, Morning
<1> QED
  BY <1>1, <1>2 DEF IInv, KeepsUp, RunIsDue, SomebodyWill, RecordedOnce, RecordIsTrue

\* The inductive invariant holds in every reachable state of the job.
THEOREM Invariance == Spec => []IInv
<1>1. IInv /\ [Next]_vars => IInv'
  BY StepType, KeepsUpStep, RecordStep, SomebodyWillStep DEF IInv, Record
<1> QED  BY InitIInv, <1>1, PTL DEF Spec

\* Every variable keeps its type (core_job_locks and the tick of each process).
THEOREM TypeCorrect == Spec => []TypeOK
<1>1. IInv => TypeOK  BY DEF IInv
<1> QED  BY <1>1, Invariance, PTL

\* The job runs in two processes at once only if one of them has not renewed
\* its lease for as long as it lasts (acquire, renew and release).
THEOREM NoOverlapWhileRenewed == Spec => []OneAtATime
<1>1. IInv => OneAtATime  BY DEF IInv, KeepsUp, OneAtATime
<1> QED  BY <1>1, Invariance, PTL

\* However many processes run it, one run a day is written down (both looks of
\* runDailyOnce, and the owner's release).
THEOREM DayIsRecordedOnce == Spec => []RecordedOnce
<1>1. IInv => RecordedOnce  BY DEF IInv
<1> QED  BY <1>1, Invariance, PTL

\* A day is not written down for a run that failed or skipped the job (release).
THEOREM DayIsRecordedTruly == Spec => []RecordIsTrue
<1>1. IInv => RecordIsTrue  BY DEF IInv
<1> QED  BY <1>1, Invariance, PTL

\* Nobody leaves the job to somebody who is not doing it (withJobLock's
\* `held-elsewhere', the first look and the second).
THEOREM QuietDaysAreDone == Spec => []QuietDayIsDone
<1>1. IInv => QuietDayIsDone
  <2> SUFFICES ASSUME IInv, Quiet, today.looked, ~ today.trouble, ~ row.ok
               PROVE  FALSE
    BY DEF QuietDayIsDone, IInv, TypeOK, Row, Today
  <2>1. row \in Row /\ (Engaged \/ Willing)
    BY DEF IInv, TypeOK, SomebodyWill, Willing
  <2> QED  BY <2>1 DEF Quiet, Engaged, Willing, Row
<1> QED  BY <1>1, Invariance, PTL

\* A running lease is ended and extended by its holder alone.
THEOREM LeasesAreRespected == Spec => LeaseIsRespected
<1> DEFINE Respect == row.left > 0 =>
       /\ row'.owner = row.owner
       /\ row'.left = 0 => stage' = stage \/ stage[row.owner] \in Ending
       /\ row'.left > row.left => stage[row.owner] \in Renewing
<1>1. ASSUME IInv, [Next]_vars  PROVE  Respect
  <2> SUFFICES ASSUME row.left > 0, row' # row
               PROVE  /\ row'.owner = row.owner
                      /\ row'.left = 0 => stage' = stage \/ stage[row.owner] \in Ending
                      /\ row'.left > row.left => stage[row.owner] \in Renewing
    BY <1>1 DEF IInv, TypeOK, Row
  <2>1. row \in Row /\ row.left \in Nat  BY <1>1 DEF IInv, TypeOK, Row
  <2>2. ASSUME NEW p \in Processes, NEW ok \in BOOLEAN, Released(p, ok), stage[p] \in Ending
        PROVE  /\ row'.owner = row.owner
               /\ row'.left = 0 => stage[row.owner] \in Ending
               /\ row'.left <= row.left
    BY <2>1, <2>2, ReleasedRow
  <2>3. ASSUME NEW p \in Processes,
               Release(p) \/ ReleaseThrows(p) \/ ReleaseFailed(p)
        PROVE  stage[p] \in Ending /\ \E ok \in BOOLEAN : Released(p, ok)
    BY <2>3 DEF Release, ReleaseThrows, ReleaseFailed, Move, Ending
  <2>4. ASSUME NEW p \in Processes, Renew(p)  PROVE  Respect
    BY <2>1, <2>4, ExtendedRow, ConstantsFit DEF Renew, Owned
  <2>5. CASE Pass  BY <2>1, <2>5, IntervalRow DEF Pass
  <2>6. CASE NewDay  BY <2>6 DEF NewDay, Quiet
  <2>7. ASSUME NEW p \in Processes, Take(p) \/ TakeThrows(p)  PROVE  FALSE
    BY <2>7 DEF Take, TakeThrows, Free
  <2>8. \/ \E p \in Processes :
             \/ Release(p) \/ ReleaseThrows(p) \/ ReleaseFailed(p)
             \/ Renew(p) \/ Take(p) \/ TakeThrows(p)
        \/ Pass \/ NewDay
    BY <1>1 DEF Next, Job, Tick, HeldElsewhere, LookAgain, Finish, Throw, Crash, Boot,
                CloseHour, vars
  <2>9. CASE \E p \in Processes : Release(p) \/ ReleaseThrows(p) \/ ReleaseFailed(p)
    <3>1. PICK p \in Processes : Release(p) \/ ReleaseThrows(p) \/ ReleaseFailed(p)
      BY <2>9
    <3>2. PICK ok \in BOOLEAN : Released(p, ok)  BY <2>3, <3>1
    <3>3. stage[p] \in Ending  BY <2>3, <3>1
    <3>4. /\ row'.owner = row.owner
          /\ row'.left = 0 => stage[row.owner] \in Ending
          /\ row'.left <= row.left
      BY <2>2, <3>2, <3>3
    <3>5. row'.left \in Nat /\ ~ (row'.left > row.left)
      BY <2>1, <3>2, <3>4, ReleasedRow DEF Row
    <3> QED  BY <3>4, <3>5
  <2> QED  BY <2>4, <2>5, <2>6, <2>7, <2>8, <2>9
<1>2. IInv /\ [Next]_vars => [Respect]_vars  BY <1>1
<1> QED  BY <1>2, Invariance, PTL DEF Spec, LeaseIsRespected
=============================================================================
