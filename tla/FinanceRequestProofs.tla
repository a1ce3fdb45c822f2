------------------------ MODULE FinanceRequestProofs ------------------------
(***************************************************************************)
(* Proofs about FinanceRequest, for any number of concurrent calls,        *)
(* payments, changes and people, and any amounts.                          *)
(*                                                                         *)
(* The argument is about the lock.  A call that holds the request FOR      *)
(* UPDATE has it alone (LockIsExclusive), so what it read is still so when *)
(* it writes (LockedReadsHold), so what it checked then is true now        *)
(* (LockedReadsAllow).  From there the ledger keeps its promise.           *)
(***************************************************************************)
EXTENDS FinanceRequest, FiniteSetTheorems, TLAPS

USE AmountAssumption, PeopleAssumption, NullAssumption
USE DEF approvals

-----------------------------------------------------------------------------
(* Types.                                                                  *)

\* A call in progress is well typed, and so is a session without one.
LEMMA IdleType == Idle \in Call /\ Blank \in Request
<1>1. Blank \in Request
  BY DEF Blank, Request, Amounts
<1>2. [at |-> "idle", key |-> NoKey, edit |-> NoEdit,
       seen |-> Blank, paid |-> 0, amount |-> 0, before |-> 0] \in Call
  BY <1>1 DEF Call, Amounts
<1> QED  BY <1>1, <1>2 DEF Idle

\* The key and the edit a call holds are those its kind needs.
Fits(c) ==
  /\ c.at \in {"record", "reverse"} <=> c.key # NoKey
  /\ c.at = "withdraw" <=> c.edit # NoEdit

\* Beginning a well-typed call, and ending any, keeps the calls well typed.
LEMMA BeginType ==
  ASSUME TypeOK, NEW s \in Sessions, NEW c \in Call, Fits(c), Begin(s, c)
  PROVE  /\ call' \in [Sessions -> Call]
         /\ \A t \in Sessions : Fits(call'[t])
  BY DEF TypeOK, Begin, Fits

\* Ending a call leaves its session idle and every other call as it was.
LEMMA EndType ==
  ASSUME TypeOK, NEW s \in Sessions, End(s)
  PROVE  /\ call' \in [Sessions -> Call]
         /\ \A t \in Sessions : Fits(call'[t])
<1>1. Fits(Idle)  BY DEF Fits, Idle
<1> QED  BY <1>1, IdleType DEF TypeOK, End, Fits

\* What the payment triggers compute is a payment state.
LEMMA PaymentStateType ==
  ASSUME NEW sum \in Int, NEW asked \in Int
  PROVE  PaymentState(sum, asked) \in {"UNPAID", "PARTIAL", "PAID"}
  BY DEF PaymentState

\* Setting the amount keeps a request a request, and changes nothing else of it.
LEMMA RepricedType ==
  ASSUME TypeOK, NEW amount \in Amounts
  PROVE  LET r == Repriced(request, amount) IN
         /\ r \in Request
         /\ r.state = request.state /\ r.route = request.route
         /\ r.deleted = request.deleted
         /\ r.amount = (IF amount = 0 THEN request.amount ELSE amount)
<1> DEFINE asked == IF amount = 0 THEN request.amount ELSE amount
<1>1. asked \in Amounts /\ asked \in Int
  BY DEF TypeOK, Request, Amounts
<1>2. PaymentState(paid, asked) \in {"UNPAID", "PARTIAL", "PAID"}
  BY <1>1, PaymentStateType DEF TypeOK
<1>3. Repriced(request, amount) =
        [request EXCEPT !.amount = asked, !.payment = PaymentState(paid, asked)]
  BY DEF Repriced
<1> HIDE DEF asked
<1>4. Repriced(request, amount) \in Request
  BY <1>1, <1>2, <1>3 DEF TypeOK, Request
<1>5. /\ Repriced(request, amount).state = request.state
      /\ Repriced(request, amount).route = request.route
      /\ Repriced(request, amount).deleted = request.deleted
      /\ Repriced(request, amount).amount = asked
  BY <1>3 DEF TypeOK, Request
<1> QED  BY <1>4, <1>5 DEF asked

\* The states of the chain are states.
LEMMA StateType ==
  ASSUME NEW route
  PROVE  /\ FirstState(route) \in OpenStates
         /\ \A state \in OpenStates : NextState(state, route) \in OpenStates \cup Decided
         /\ \A state \in OpenStates : StepOf(state) \in Steps
  BY DEF FirstState, NextState, StepOf, Steps, AfterManager, OpenStates, Decided

\* Changing one column to a value it may hold.
LEMMA RequestUpdate ==
  ASSUME NEW r \in Request
  PROVE  /\ \A x \in {"DRAFT"} \cup OpenStates \cup Decided : [r EXCEPT !.state = x] \in Request
         /\ \A x \in {"UNPAID", "PARTIAL", "PAID"} : [r EXCEPT !.payment = x] \in Request
         /\ \A x \in BOOLEAN : [r EXCEPT !.deleted = x] \in Request
  BY DEF Request

\* The amounts of payments are numbers.
LEMMA AmountType == \A k \in Keys : AmountOf[k] \in Nat /\ AmountOf[k] > 0
  BY DEF Amounts

\* Whatever a call to requests.service.ts does keeps the types.
LEMMA RequestCallType ==
  ASSUME TypeOK, NEW s \in Sessions, RequestCall(s)
  PROVE  TypeOK'
<1> USE IdleType
<1>1. CASE SubmitCheck(s)
  <2>1. [Idle EXCEPT !.at = "submit"] \in Call /\ Fits([Idle EXCEPT !.at = "submit"])
    BY DEF Call, Idle, Fits
  <2> QED  BY <1>1, <2>1, BeginType DEF SubmitCheck, TypeOK, Fits, ledger
<1>2. CASE SubmitWrite(s)
  <2>1. request' \in Request
    BY <1>2, StateType, RequestUpdate DEF SubmitWrite, TypeOK
  <2> QED  BY <1>2, <2>1, EndType DEF SubmitWrite, TypeOK, Fits, ledger
<1>3. ASSUME NEW amount \in Amounts, UpdateCheck(s, amount) PROVE TypeOK'
  <2> DEFINE c == [Idle EXCEPT !.at = "update", !.amount = amount]
  <2>1. c \in Call
    BY <1>3 DEF Call
  <2>2. Fits(c)
    BY DEF Idle, Fits
  <2>3. Begin(s, c)
    BY <1>3 DEF UpdateCheck
  <2> QED  BY <1>3, <2>1, <2>2, <2>3, BeginType DEF UpdateCheck, TypeOK, Fits, ledger
<1>4. CASE UpdateWrite(s)
  <2>1. call[s].amount \in Amounts
    BY DEF TypeOK, Call
  <2>2. request' \in Request
    BY <1>4, <2>1, RepricedType DEF UpdateWrite
  <2> QED  BY <1>4, <2>2, EndType DEF UpdateWrite, TypeOK, Fits, ledger
<1>5. CASE DecideLock(s)
  <2> DEFINE c == [Idle EXCEPT !.at = "decide", !.seen = request]
  <2>1. c \in Call
    BY DEF Call, TypeOK
  <2>2. Fits(c)
    BY DEF Idle, Fits
  <2>3. Begin(s, c)
    BY <1>5 DEF DecideLock
  <2> QED  BY <1>5, <2>1, <2>2, <2>3, BeginType DEF DecideLock, TypeOK, Fits, ledger
<1>6. ASSUME NEW p \in People, NEW price \in Amounts, Approve(s, p, price) PROVE TypeOK'
  <2>1. call[s].seen.state \in OpenStates
    BY <1>6 DEF Approve, CanDecide
  <2>2. request' \in Request
    BY <1>6, <2>1, StateType, RepricedType, RequestUpdate DEF Approve
  <2>3. trail' \subseteq Steps \X People
    BY <1>6, <2>1, StateType DEF Approve, TypeOK
  <2>4. agreed' \in Amounts
    BY <1>6 DEF Approve, TypeOK, Call, Request
  <2> QED  BY <1>6, <2>2, <2>3, <2>4, EndType DEF Approve, TypeOK, Fits, ledger
<1>7. ASSUME NEW p \in People, Reject(s, p) PROVE TypeOK'
  <2>1. Repriced(request, 0) \in Request
    BY RepricedType DEF Amounts
  <2>2. request' = [Repriced(request, 0) EXCEPT !.state = "REJECTED"]
    BY <1>7 DEF Reject
  <2>3. request' \in Request
    BY <2>1, <2>2, RequestUpdate DEF Decided
  <2> QED  BY <1>7, <2>3, EndType DEF Reject, TypeOK, Fits, ledger
<1>8. CASE RemoveCheck(s)
  <2>1. [Idle EXCEPT !.at = "remove"] \in Call /\ Fits([Idle EXCEPT !.at = "remove"])
    BY DEF Call, Idle, Fits
  <2> QED  BY <1>8, <2>1, BeginType DEF RemoveCheck, TypeOK, Fits, ledger
<1>9. CASE RemoveWrite(s)
  <2>1. request' \in Request
    BY <1>9, RequestUpdate DEF RemoveWrite, TypeOK
  <2> QED  BY <1>9, <2>1, EndType DEF RemoveWrite, TypeOK, Fits, ledger
<1> QED  BY <1>1, <1>2, <1>3, <1>4, <1>5, <1>6, <1>7, <1>8, <1>9 DEF RequestCall

\* So does whatever a call to payments.service.ts does.
LEMMA PaymentCallType ==
  ASSUME TypeOK, ReversedOnce, NEW s \in Sessions, PaymentCall(s)
  PROVE  TypeOK'
<1> USE IdleType, AmountType
<1>1. ASSUME NEW k \in Keys, RecordLock(s, k) PROVE TypeOK'
  <2> DEFINE c == [Idle EXCEPT !.at = "record", !.key = k, !.seen = request, !.paid = paid]
  <2>1. c \in Call
    BY DEF Call, TypeOK
  <2>2. Fits(c)
    BY DEF Idle, Fits
  <2>3. Begin(s, c)
    BY <1>1 DEF RecordLock
  <2> QED  BY <1>1, <2>1, <2>2, <2>3, BeginType DEF RecordLock, TypeOK, Fits, ledger
<1>2. ASSUME NEW k \in Keys, ReverseInsert(s, k) PROVE TypeOK'
  <2> DEFINE c == [Idle EXCEPT !.at = "reverse", !.key = k, !.seen = request,
                               !.paid = paid - AmountOf[k]]
  <2>1. paid - AmountOf[k] \in Int
    BY DEF TypeOK
  <2>2. c \in Call
    BY <2>1 DEF Call, TypeOK
  <2>3. Fits(c)
    BY DEF Idle, Fits
  <2>4. Begin(s, c)
    BY <1>2 DEF ReverseInsert
  <2> QED  BY <1>2, <2>2, <2>3, <2>4, BeginType DEF ReverseInsert, TypeOK, Fits, ledger
<1>3. CASE RecordCommit(s)
  <2> DEFINE k == call[s].key
  <2>1. k \in Keys
    BY <1>3 DEF RecordCommit, TypeOK, Call
  <2>2. paid + AmountOf[k] \in Int /\ request.amount \in Int
    BY <2>1 DEF TypeOK, Request, Amounts
  <2>3. PaymentState(paid + AmountOf[k], request.amount) \in {"UNPAID", "PARTIAL", "PAID"}
    BY <2>2, PaymentStateType
  <2>4. CASE k \in recorded
    BY <1>3, <2>4, EndType DEF RecordCommit, TypeOK, Fits
  <2>5. CASE k \notin recorded
    <3>1. request' \in Request
      BY <1>3, <2>3, <2>5, RequestUpdate, ZenonT(40) DEF RecordCommit, TypeOK
    <3>2. recorded' = recorded \cup {k} /\ paid' = paid + AmountOf[k]
      BY <1>3, <2>5 DEF RecordCommit
    <3> QED  BY <1>3, <2>1, <2>2, <3>1, <3>2, EndType DEF RecordCommit, TypeOK, Fits
  <2> QED  BY <2>4, <2>5
<1>4. CASE ReverseCommit(s)
  <2> DEFINE k == call[s].key
  <2>1. k \in recorded /\ k \in Keys
    BY <1>4 DEF ReverseCommit, ReversedOnce, TypeOK
  <2>2. paid' \in Int
    BY <1>4, <2>1 DEF ReverseCommit, TypeOK
  <2>3. call[s].paid \in Int /\ call[s].seen.amount \in Int
    BY DEF TypeOK, Call, Request, Amounts
  <2>4. request' \in Request
    BY <1>4, <2>3, PaymentStateType, RequestUpdate DEF ReverseCommit, TypeOK
  <2> QED  BY <1>4, <2>1, <2>2, <2>4, EndType DEF ReverseCommit, TypeOK, Fits
<1> QED  BY <1>1, <1>2, <1>3, <1>4 DEF PaymentCall

\* So do the calls to edits.service.ts, and the decisions on a change.
LEMMA EditCallType ==
  ASSUME TypeOK, NEW s \in Sessions, EditCall(s)
  PROVE  TypeOK'
<1> USE IdleType
<1>1. ASSUME NEW amount \in Amounts, AskCheck(s, amount) PROVE TypeOK'
  <2> DEFINE c == [Idle EXCEPT !.at = "ask", !.amount = amount,
                               !.before = IF amount = 0 THEN request.amount ELSE 0]
  <2>0. request.amount \in Amounts /\ 0 \in Amounts
    BY DEF TypeOK, Request, Amounts
  <2>1. c \in Call
    BY <1>1, <2>0 DEF Call
  <2>2. Fits(c)
    BY DEF Idle, Fits
  <2>3. Begin(s, c)
    BY <1>1 DEF AskCheck
  <2> QED  BY <1>1, <2>1, <2>2, <2>3, BeginType DEF AskCheck, TypeOK, Fits, ledger
<1>2. ASSUME NEW e \in Edits, AskInsert(s, e) PROVE TypeOK'
  <2>1. call[s].amount \in Amounts /\ call[s].before \in Amounts
    BY DEF TypeOK, Call
  <2>2. edit' \in [Edits -> Edit]
    BY <1>2, <2>1 DEF AskInsert, TypeOK, Edit, OpenEdits
  <2> QED  BY <1>2, <2>2, EndType DEF AskInsert, TypeOK, Fits, ledger
<1>3. ASSUME NEW e \in Edits, WithdrawCheck(s, e) PROVE TypeOK'
  <2> DEFINE c == [Idle EXCEPT !.at = "withdraw", !.edit = e]
  <2>1. c \in Call
    BY DEF Call
  <2>2. Fits(c)
    BY DEF Idle, Fits
  <2>3. Begin(s, c)
    BY <1>3 DEF WithdrawCheck
  <2> QED  BY <1>3, <2>1, <2>2, <2>3, BeginType DEF WithdrawCheck, TypeOK, Fits, ledger
<1>4. CASE WithdrawWrite(s)
  <2>1. edit' \in [Edits -> Edit]
    BY <1>4 DEF WithdrawWrite, TypeOK, Edit
  <2> QED  BY <1>4, <2>1, EndType DEF WithdrawWrite, TypeOK, Fits, ledger
<1> QED  BY <1>1, <1>2, <1>3, <1>4 DEF EditCall

\* Deciding on a change, and applying one, keep the types.
LEMMA EditDecisionType ==
  ASSUME TypeOK, EditDecision
  PROVE  TypeOK'
<1>1. PICK p \in People, e \in Edits : PassEdit(p, e) \/ ApplyEdit(p, e) \/ RejectEdit(p, e)
  BY DEF EditDecision
<1>2. CASE PassEdit(p, e)
  BY <1>2 DEF PassEdit, TypeOK, Edit, OpenEdits, ledger
<1>3. CASE ApplyEdit(p, e)
  <2>1. edit[e].amount \in Amounts /\ edit[e].before \in Amounts
    BY DEF TypeOK, Edit
  <2>2. request' \in Request
    BY <1>3, <2>1, RepricedType DEF ApplyEdit
  <2>3. edit' \in [Edits -> Edit]
    BY <1>3 DEF ApplyEdit, TypeOK, Edit
  <2>4. trail' \subseteq Steps \X People
    BY <1>3 DEF ApplyEdit, TypeOK, Steps
  <2>5. agreed' \in Amounts
    BY <1>3, <2>1 DEF ApplyEdit
  <2> QED  BY <1>3, <2>2, <2>3, <2>4, <2>5 DEF ApplyEdit, TypeOK, ledger
<1>4. CASE RejectEdit(p, e)
  BY <1>4 DEF RejectEdit, TypeOK, Edit, ledger
<1> QED  BY <1>1, <1>2, <1>3, <1>4

\* Every step keeps the types.
LEMMA StepType ==
  ASSUME TypeOK, ReversedOnce, [Next]_vars
  PROVE  TypeOK'
<1>1. ASSUME NEW s \in Sessions, Abandon(s) PROVE TypeOK'
  BY <1>1, EndType DEF Abandon, TypeOK, Fits, ledger
<1>2. CASE UNCHANGED vars
  BY <1>2 DEF vars, TypeOK, ledger
<1> QED
  BY <1>1, <1>2, RequestCallType, PaymentCallType, EditCallType, EditDecisionType DEF Next

\* The empty request Init starts from is well typed.
LEMMA InitType == Init => TypeOK
<1> SUFFICES ASSUME Init PROVE TypeOK
  OBVIOUS
<1>0. PICK route \in {"finance", "purchases"}, amount \in Amounts :
        \E state \in {"DRAFT", FirstState(route)} :
          request = [Blank EXCEPT !.state = state, !.amount = amount, !.route = route]
  BY DEF Init
<1>1. PICK state \in {"DRAFT", FirstState(route)} :
        request = [Blank EXCEPT !.state = state, !.amount = amount, !.route = route]
  BY <1>0
<1>2. state \in {"DRAFT"} \cup OpenStates \cup Decided
  BY StateType
<1>3. request \in Request
  BY <1>1, <1>2, IdleType DEF Request
<1>4. call \in [Sessions -> Call]
  BY IdleType DEF Init
<1>5. edit \in [Edits -> Edit]
  BY DEF Init, Edit, Amounts
<1>6. \A s \in Sessions : Fits(call[s])
  BY DEF Init, Idle, Fits
<1>7. agreed \in Amounts
  BY DEF Init, Amounts
<1> QED  BY <1>3, <1>4, <1>5, <1>6, <1>7 DEF Init, TypeOK, Fits

-----------------------------------------------------------------------------
(* The lock.                                                               *)

Locking == LockIsExclusive /\ LockedReadsHold /\ LockedReadsAllow /\ ReversedOnce

\* Who has the request FOR UPDATE, or has inserted a reversal, excludes the rest.
LEMMA HolderExcludes ==
  ASSUME Locking, NEW s \in Sessions, call[s].at \in {"decide", "record", "reverse"}
  PROVE  ~ Locked(s)
  BY DEF Locking, LockIsExclusive, Locked

\* Beginning a call that takes no lock, and changing nothing else, keeps the
\* locks as they are.
LEMMA PlainBegin ==
  ASSUME TypeOK, Locking, NEW s \in Sessions, NEW c,
         c.at \notin {"decide", "record", "reverse"}, Begin(s, c),
         UNCHANGED <<request, ledger>>
  PROVE  Locking'
<1>1. \A t \in Sessions : call'[t] = IF t = s THEN c ELSE call[t]
  BY DEF Begin, TypeOK
<1> QED
  BY <1>1 DEF Locking, LockIsExclusive, LockedReadsHold, LockedReadsAllow, ReversedOnce, ledger

\* Ending a call that nobody else's lock excludes keeps the others' reads.
LEMMA EndWhenFree ==
  ASSUME TypeOK, Locking, NEW s \in Sessions, End(s),
         UNCHANGED <<request, ledger>> \/ ~ Locked(s),
         UNCHANGED <<recorded, reversed>>
           \/ (UNCHANGED reversed /\ recorded \subseteq recorded')
           \/ (call[s].at = "reverse" /\ UNCHANGED recorded
                /\ reversed' = reversed \cup {call[s].key})
  PROVE  Locking'
<1>1. \A t \in Sessions : call'[t] = IF t = s THEN Idle ELSE call[t]
  BY DEF End, TypeOK
<1>2. Idle.at = "idle"
  BY DEF Idle
<1>3. LockIsExclusive'
  BY <1>1, <1>2 DEF Locking, LockIsExclusive
<1>4. LockedReadsHold'
  BY <1>1, <1>2 DEF Locking, LockedReadsHold, Locked, ledger
<1>5. LockedReadsAllow'
  BY <1>1, <1>2 DEF Locking, LockedReadsAllow
<1>6. ReversedOnce'
  BY <1>1, <1>2 DEF Locking, ReversedOnce, ledger
<1> QED  BY <1>3, <1>4, <1>5, <1>6 DEF Locking

\* Taking the lock waits for everybody, so it is exclusive from the start.
LEMMA TakeLock ==
  ASSUME TypeOK, Locking, NEW s \in Sessions, NEW c,
         ~ Locked(s), ~ Referenced(s), Begin(s, c),
         c.seen = request, c.paid = paid \/ c.at = "decide",
         \/ c.at = "decide" /\ request.state \in OpenStates
         \/ /\ c.at = "record" /\ request.state = "APPROVED" /\ ~ request.deleted
            /\ paid + AmountOf[c.key] <= request.amount,
         UNCHANGED <<request, ledger>>
  PROVE  Locking'
<1>1. \A t \in Sessions : call'[t] = IF t = s THEN c ELSE call[t]
  BY DEF Begin, TypeOK
<1>2. \A t \in Sessions \ {s} : call[t].at \notin {"decide", "record", "reverse"}
  BY DEF Locked, Referenced
<1>3. LockIsExclusive'
  BY <1>1, <1>2 DEF Locking, LockIsExclusive
<1>4. LockedReadsHold'
  BY <1>1, <1>2 DEF Locking, LockedReadsHold, ledger
<1>5. LockedReadsAllow'
  BY <1>1, <1>2 DEF Locking, LockedReadsAllow
<1>6. ReversedOnce'
  BY <1>1, <1>2 DEF Locking, ReversedOnce, ledger
<1> QED  BY <1>3, <1>4, <1>5, <1>6 DEF Locking

\* Nothing any call does breaks the lock.
LEMMA LockStep ==
  ASSUME TypeOK, Locking, [Next]_vars
  PROVE  Locking'
<1>1. CASE UNCHANGED vars
  BY <1>1 DEF vars, ledger, Locking, LockIsExclusive, LockedReadsHold, LockedReadsAllow,
              ReversedOnce
<1>2. ASSUME NEW s \in Sessions, RequestCall(s) PROVE Locking'
  <2>1. CASE SubmitCheck(s)
    BY <2>1, PlainBegin DEF SubmitCheck, Idle
  <2>2. CASE SubmitWrite(s)
    BY <2>2, EndWhenFree DEF SubmitWrite, ledger
  <2>3. ASSUME NEW amount \in Amounts, UpdateCheck(s, amount) PROVE Locking'
    BY <2>3, PlainBegin DEF UpdateCheck, Idle
  <2>4. CASE UpdateWrite(s)
    BY <2>4, EndWhenFree DEF UpdateWrite, ledger
  <2>5. CASE DecideLock(s)
    <3> DEFINE c == [Idle EXCEPT !.at = "decide", !.seen = request]
    <3>1. c.at = "decide" /\ c.seen = request
      BY DEF Idle
    <3> QED  BY <2>5, <3>1, TakeLock DEF DecideLock
  <2>6. ASSUME NEW p \in People, NEW price \in Amounts, Approve(s, p, price) PROVE Locking'
    BY <2>6, HolderExcludes, EndWhenFree DEF Approve, ledger
  <2>7. ASSUME NEW p \in People, Reject(s, p) PROVE Locking'
    BY <2>7, HolderExcludes, EndWhenFree DEF Reject, ledger
  <2>8. CASE RemoveCheck(s)
    BY <2>8, PlainBegin DEF RemoveCheck, Idle
  <2>9. CASE RemoveWrite(s)
    BY <2>9, EndWhenFree DEF RemoveWrite, ledger
  <2> QED
    BY <1>2, <2>1, <2>2, <2>3, <2>4, <2>5, <2>6, <2>7, <2>8, <2>9 DEF RequestCall
<1>3. ASSUME NEW s \in Sessions, PaymentCall(s) PROVE Locking'
  <2>1. ASSUME NEW k \in Keys, RecordLock(s, k) PROVE Locking'
    <3> DEFINE c == [Idle EXCEPT !.at = "record", !.key = k, !.seen = request, !.paid = paid]
    <3>1. c.at = "record" /\ c.seen = request /\ c.paid = paid /\ c.key = k
      BY DEF Idle
    <3>2. paid + AmountOf[k] <= request.amount
      BY <2>1, AmountType DEF RecordLock, TypeOK, Request, Amounts
    <3> HIDE DEF c
    <3>3. Begin(s, c) /\ ~ Locked(s) /\ ~ Referenced(s) /\ UNCHANGED <<request, ledger>>
      BY <2>1 DEF RecordLock, c
    <3> QED  BY <2>1, <3>1, <3>2, <3>3, TakeLock DEF RecordLock
  <2>2. ASSUME NEW k \in Keys, ReverseInsert(s, k) PROVE Locking'
    <3> DEFINE c == [Idle EXCEPT !.at = "reverse", !.key = k, !.seen = request,
                                 !.paid = paid - AmountOf[k]]
    <3>1. c.at = "reverse" /\ c.key = k
      BY DEF Idle
    <3> HIDE DEF c
    <3>2. Begin(s, c)
      BY <2>2 DEF ReverseInsert, c
    <3>3. \A t \in Sessions : call'[t] = IF t = s THEN c ELSE call[t]
      BY <3>2 DEF Begin, TypeOK
    <3>4. \A t \in Sessions \ {s} : call[t].at \notin {"decide", "record"}
      BY <2>2 DEF ReverseInsert, Locked
    <3>5. LockIsExclusive'
      BY <3>1, <3>3, <3>4 DEF LockIsExclusive
    <3>6. LockedReadsHold' /\ LockedReadsAllow'
      BY <3>1, <3>3, <3>4 DEF LockedReadsHold, LockedReadsAllow
    <3>7. ReversedOnce'
      BY <2>2, <3>1, <3>3 DEF Locking, ReversedOnce, ReverseInsert, ledger
    <3> QED  BY <3>5, <3>6, <3>7 DEF Locking
  <2>3. CASE RecordCommit(s)
    BY <2>3, HolderExcludes, EndWhenFree DEF RecordCommit
  <2>4. CASE ReverseCommit(s)
    BY <2>4, HolderExcludes, EndWhenFree DEF ReverseCommit
  <2> QED  BY <1>3, <2>1, <2>2, <2>3, <2>4 DEF PaymentCall
<1>4. ASSUME NEW s \in Sessions, EditCall(s) PROVE Locking'
  <2>1. ASSUME NEW amount \in Amounts, AskCheck(s, amount) PROVE Locking'
    BY <2>1, PlainBegin DEF AskCheck, Idle
  <2>2. ASSUME NEW e \in Edits, AskInsert(s, e) PROVE Locking'
    BY <2>2, EndWhenFree DEF AskInsert, ledger
  <2>3. ASSUME NEW e \in Edits, WithdrawCheck(s, e) PROVE Locking'
    BY <2>3, PlainBegin DEF WithdrawCheck, Idle
  <2>4. CASE WithdrawWrite(s)
    BY <2>4, EndWhenFree DEF WithdrawWrite, ledger
  <2> QED  BY <1>4, <2>1, <2>2, <2>3, <2>4 DEF EditCall
<1>5. ASSUME NEW s \in Sessions, Abandon(s) PROVE Locking'
  BY <1>5, EndWhenFree DEF Abandon, ledger
<1>6. CASE EditDecision
  <2>1. PICK p \in People, e \in Edits : PassEdit(p, e) \/ ApplyEdit(p, e) \/ RejectEdit(p, e)
    BY <1>6 DEF EditDecision
  <2>2. UNCHANGED <<ledger, call>>
    BY <2>1 DEF PassEdit, ApplyEdit, RejectEdit
  <2>3. UNCHANGED request \/ \A s \in Sessions : call[s].at \notin {"decide", "record"}
    BY <2>1 DEF PassEdit, ApplyEdit, RejectEdit
  <2> QED
    BY <2>2, <2>3 DEF ledger, Locking, LockIsExclusive, LockedReadsHold, LockedReadsAllow,
                      ReversedOnce
<1> QED  BY <1>1, <1>2, <1>3, <1>4, <1>5, <1>6 DEF Next

-----------------------------------------------------------------------------
(* The chain of approvals.                                                 *)

Chain == ChainIsWalked /\ FinanceRouteIsPriced /\ NothingUnpricedIsPayable

\* An approval is never taken back.
LEMMA ApprovalsStay ==
  ASSUME NEW step, trail \subseteq trail', Approved(step)
  PROVE  Approved(step)'
  BY DEF Approved

\* What leaves the state of a request alone, and does not take its price away,
\* keeps the chain.
LEMMA ChainUndisturbed ==
  ASSUME TypeOK, Chain, trail \subseteq trail', request' \in Request,
         request'.state = request.state \/ request'.state = "REJECTED",
         request'.route = request.route,
         request'.amount = request.amount \/ request'.amount > 0,
         UNCHANGED recorded \/ request.state = "APPROVED"
  PROVE  Chain'
<1>1. ChainIsWalked'
  BY ApprovalsStay DEF Chain, ChainIsWalked
<1>2. FinanceRouteIsPriced'
  BY DEF Chain, FinanceRouteIsPriced
<1>3. NothingUnpricedIsPayable'
  BY DEF Chain, NothingUnpricedIsPayable
<1> QED  BY <1>1, <1>2, <1>3 DEF Chain

\* A decision takes the request one step on, with the word of whoever it was
\* waiting for.
LEMMA ApproveKeepsChain ==
  ASSUME TypeOK, Locking, Chain, NEW s \in Sessions, NEW p \in People,
         NEW price \in Amounts, Approve(s, p, price)
  PROVE  Chain'
<1> DEFINE step == StepOf(request.state)
<1>1. call[s].seen = request
  BY DEF Approve, Locking, LockedReadsHold
<1>2. /\ CanDecide(p, request)
      /\ request.state = "PURCHASES_PENDING" <=> price > 0
      /\ request' = [Repriced(request, price) EXCEPT !.state = NextState(request.state, request.route)]
      /\ trail' = trail \cup {<<step, p>>}
      /\ UNCHANGED recorded
  BY <1>1 DEF Approve, ledger
<1>3. /\ request'.state = NextState(request.state, request.route)
      /\ request'.route = request.route
      /\ request'.amount = IF price = 0 THEN request.amount ELSE price
  BY <1>2, RepricedType DEF Request
<1>4. \A st \in Steps : st = step => Approved(st)'
  BY <1>2 DEF CanDecide, Approved
<1>5. \A st \in Steps : Approved(st) => Approved(st)'
  BY <1>2, ApprovalsStay
<1>6. price \in Nat /\ request.amount \in Nat
  BY DEF TypeOK, Request, Amounts
<1>7. CASE request.state = "MANAGER_PENDING"
  <2>1. step = "MANAGER" /\ request'.state = AfterManager(request.route)
    BY <1>3, <1>7 DEF StepOf, NextState
  <2>2. Approved("MANAGER")' /\ (recorded # {} => Approved("FINANCE")')
    BY <1>4, <1>5, <2>1 DEF Chain, ChainIsWalked, Steps
  <2>3. request'.amount = request.amount
    BY <1>2, <1>3, <1>6, <1>7
  <2>4. ChainIsWalked'
    BY <1>2, <1>3, <2>1, <2>2 DEF ChainIsWalked, AfterManager
  <2>5. FinanceRouteIsPriced' /\ NothingUnpricedIsPayable'
    BY <1>3, <2>1, <2>3 DEF Chain, FinanceRouteIsPriced, NothingUnpricedIsPayable,
                            AfterManager, TypeOK, Request
  <2> QED  BY <2>4, <2>5 DEF Chain
<1>8. CASE request.state = "PURCHASES_PENDING"
  <2>1. step = "PURCHASES" /\ request'.state = "FINANCE_PENDING"
    BY <1>3, <1>8 DEF StepOf, NextState
  <2>2. /\ Approved("PURCHASES")'
        /\ NeedsManager => Approved("MANAGER")'
        /\ recorded # {} => Approved("FINANCE")'
    BY <1>4, <1>5, <1>8, <2>1 DEF Chain, ChainIsWalked, Steps
  <2>3. request'.amount > 0
    BY <1>2, <1>3, <1>6, <1>8
  <2>4. ChainIsWalked'
    BY <1>2, <1>3, <2>1, <2>2 DEF ChainIsWalked
  <2> QED  BY <2>3, <2>4 DEF Chain, FinanceRouteIsPriced, NothingUnpricedIsPayable
<1>9. CASE request.state = "FINANCE_PENDING"
  <2>1. step = "FINANCE" /\ request'.state = "APPROVED"
    BY <1>3, <1>9 DEF StepOf, NextState
  <2>2. /\ Approved("FINANCE")'
        /\ NeedsManager => Approved("MANAGER")'
        /\ request.route = "purchases" => Approved("PURCHASES")'
    BY <1>4, <1>5, <1>9, <2>1 DEF Chain, ChainIsWalked, Steps
  <2>3. request'.amount > 0
    BY <1>2, <1>3, <1>6, <1>9 DEF Chain, NothingUnpricedIsPayable
  <2>4. ChainIsWalked'
    BY <1>2, <1>3, <2>1, <2>2 DEF ChainIsWalked
  <2> QED  BY <2>3, <2>4 DEF Chain, FinanceRouteIsPriced, NothingUnpricedIsPayable
<1> QED  BY <1>2, <1>7, <1>8, <1>9 DEF CanDecide, OpenStates

\* A submission puts the request where nobody's word is missing yet, even when
\* it comes late.
LEMMA SubmitKeepsChain ==
  ASSUME TypeOK, Chain, NEW s \in Sessions, SubmitWrite(s)
  PROVE  Chain'
<1>1. /\ request'.state = FirstState(request.route)
      /\ request'.route = request.route /\ request'.amount = request.amount
      /\ UNCHANGED <<trail, recorded>>
  BY DEF SubmitWrite, TypeOK, Request, ledger
<1>2. request.route \in {"finance", "purchases"}
  BY DEF TypeOK, Request
<1>3. \A step \in Steps : Approved(step)' = Approved(step)
  BY <1>1 DEF Approved
<1>4. ChainIsWalked'
  BY <1>1, <1>2, <1>3 DEF Chain, ChainIsWalked, FirstState, AfterManager, NeedsManager, Steps
<1>5. FinanceRouteIsPriced' /\ NothingUnpricedIsPayable'
  BY <1>1, <1>2 DEF Chain, FinanceRouteIsPriced, NothingUnpricedIsPayable, FirstState, AfterManager
<1> QED  BY <1>4, <1>5 DEF Chain

\* No step of any call, in whatever order they come, cuts the chain short.
LEMMA ChainStep ==
  ASSUME TypeOK, Locking, Chain, [Next]_vars, TypeOK'
  PROVE  Chain'
<1>0. request' \in Request
  BY DEF TypeOK
<1>1. CASE UNCHANGED vars
  BY <1>0, <1>1, ChainUndisturbed DEF vars, ledger
<1>2. ASSUME NEW s \in Sessions, RequestCall(s) PROVE Chain'
  <2>1. CASE UNCHANGED <<request, trail, ledger>>
    BY <1>0, <2>1, ChainUndisturbed DEF ledger
  <2>2. CASE SubmitWrite(s)
    BY <2>2, SubmitKeepsChain
  <2>3. CASE UpdateWrite(s)
    <3>1. call[s].amount \in Amounts /\ call[s].amount \in Nat
      BY DEF TypeOK, Call, Amounts
    <3> QED  BY <1>0, <2>3, <3>1, RepricedType, ChainUndisturbed DEF UpdateWrite, ledger
  <2>4. ASSUME NEW p \in People, NEW price \in Amounts, Approve(s, p, price) PROVE Chain'
    BY <2>4, ApproveKeepsChain
  <2>5. ASSUME NEW p \in People, Reject(s, p) PROVE Chain'
    <3>1. 0 \in Amounts
      BY DEF Amounts
    <3>2. /\ request'.state = "REJECTED" /\ request'.route = request.route
          /\ request'.amount = request.amount
      BY <2>5, <3>1, RepricedType DEF Reject, Request
    <3> QED  BY <1>0, <2>5, <3>2, ChainUndisturbed DEF Reject, ledger
  <2>6. CASE RemoveWrite(s)
    <3>1. /\ request'.state = request.state /\ request'.route = request.route
          /\ request'.amount = request.amount
      BY <2>6 DEF RemoveWrite, TypeOK, Request
    <3> QED  BY <1>0, <2>6, <3>1, ChainUndisturbed DEF RemoveWrite, ledger
  <2> QED
    BY <1>2, <2>1, <2>2, <2>3, <2>4, <2>5, <2>6
    DEF RequestCall, SubmitCheck, UpdateCheck, DecideLock, RemoveCheck
<1>3. ASSUME NEW s \in Sessions, PaymentCall(s) PROVE Chain'
  <2>1. CASE UNCHANGED <<request, trail, ledger>>
    BY <1>0, <2>1, ChainUndisturbed DEF ledger
  <2>2. CASE RecordCommit(s)
    <3>1. request.state = "APPROVED"
      BY <2>2 DEF RecordCommit, Locking, LockedReadsHold, LockedReadsAllow
    <3>2. /\ request'.state = request.state /\ request'.route = request.route
          /\ request'.amount = request.amount
      BY <2>2 DEF RecordCommit, TypeOK, Request
    <3> QED  BY <1>0, <2>2, <3>1, <3>2, ChainUndisturbed DEF RecordCommit
  <2>3. CASE ReverseCommit(s)
    <3>1. /\ request'.state = request.state /\ request'.route = request.route
          /\ request'.amount = request.amount
      BY <2>3 DEF ReverseCommit, TypeOK, Request
    <3> QED  BY <1>0, <2>3, <3>1, ChainUndisturbed DEF ReverseCommit
  <2> QED  BY <1>3, <2>1, <2>2, <2>3 DEF PaymentCall, RecordLock, ReverseInsert
<1>4. ASSUME NEW s \in Sessions, EditCall(s) PROVE Chain'
  <2>1. UNCHANGED <<request, trail, ledger>>
    BY <1>4 DEF EditCall, AskCheck, AskInsert, WithdrawCheck, WithdrawWrite
  <2> QED  BY <1>0, <2>1, ChainUndisturbed DEF ledger
<1>5. ASSUME NEW s \in Sessions, Abandon(s) PROVE Chain'
  BY <1>0, <1>5, ChainUndisturbed DEF Abandon, ledger
<1>6. CASE EditDecision
  <2>1. PICK p \in People, e \in Edits : PassEdit(p, e) \/ ApplyEdit(p, e) \/ RejectEdit(p, e)
    BY <1>6 DEF EditDecision
  <2>2. CASE ApplyEdit(p, e)
    <3>1. edit[e].amount \in Amounts /\ edit[e].amount \in Nat
      BY DEF TypeOK, Edit, Amounts
    <3> QED  BY <1>0, <2>2, <3>1, RepricedType, ChainUndisturbed DEF ApplyEdit, ledger
  <2>3. CASE UNCHANGED <<request, trail, ledger>>
    BY <1>0, <2>3, ChainUndisturbed DEF ledger
  <2> QED  BY <2>1, <2>2, <2>3 DEF PassEdit, RejectEdit
<1> QED  BY <1>1, <1>2, <1>3, <1>4, <1>5, <1>6 DEF Next

-----------------------------------------------------------------------------
(* The theorems.                                                           *)

\* A request that was just created satisfies the invariant.
LEMMA InitIInv == Init => IInv
<1> SUFFICES ASSUME Init PROVE IInv
  OBVIOUS
<1>1. TypeOK
  BY InitType
<1>2. \A s \in Sessions : call[s].at = "idle"
  BY DEF Init, Idle
<1>3. LockIsExclusive /\ LockedReadsHold /\ LockedReadsAllow /\ ReversedOnce
  BY <1>2 DEF LockIsExclusive, LockedReadsHold, LockedReadsAllow, ReversedOnce
<1>4. PICK route \in {"finance", "purchases"}, amount \in Amounts :
        /\ route = "purchases" <=> amount = 0
        /\ \E state \in {"DRAFT", FirstState(route)} :
             request = [Blank EXCEPT !.state = state, !.amount = amount, !.route = route]
  BY DEF Init
<1>5. PICK state \in {"DRAFT", FirstState(route)} :
        request = [Blank EXCEPT !.state = state, !.amount = amount, !.route = route]
  BY <1>4
<1>6. request.state = state /\ request.amount = amount /\ request.route = route
  BY <1>5 DEF Blank
<1>7. amount \in Nat
  BY DEF Amounts
<1>8. ChainIsWalked
  BY <1>6 DEF Init, ChainIsWalked, FirstState, AfterManager
<1>9. FinanceRouteIsPriced /\ NothingUnpricedIsPayable
  BY <1>4, <1>6, <1>7 DEF FinanceRouteIsPriced, NothingUnpricedIsPayable, FirstState, AfterManager
<1> QED  BY <1>1, <1>3, <1>8, <1>9 DEF IInv

\* Every step keeps it.
LEMMA StepIInv == IInv /\ [Next]_vars => IInv'
<1> SUFFICES ASSUME IInv, [Next]_vars PROVE IInv'
  OBVIOUS
<1>1. TypeOK /\ Locking /\ Chain
  BY DEF IInv, Locking, Chain
<1>2. TypeOK'
  BY <1>1, StepType DEF Locking
<1>3. Locking'
  BY <1>1, LockStep
<1>4. Chain'
  BY <1>1, <1>2, ChainStep
<1> QED  BY <1>2, <1>3, <1>4 DEF IInv, Locking, Chain

\* The inductive invariant holds in every reachable state of the services.
THEOREM Invariance == Spec => []IInv
  BY InitIInv, StepIInv, PTL DEF Spec

\* Every variable keeps its type (requests, edits and payments services).
THEOREM TypeCorrect == Spec => []TypeOK
<1>1. IInv => TypeOK
  BY DEF IInv
<1> QED  BY <1>1, Invariance, PTL

\* Between the check of a decision or of a payment and its commit the request
\* does not change: SELECT ... FOR UPDATE in decide and in record.
THEOREM LockedReadsStayCurrent == Spec => []LockedReadsHold
<1>1. IInv => LockedReadsHold
  BY DEF IInv
<1> QED  BY <1>1, Invariance, PTL

\* No step of the chain is skipped, and nobody approves their own (workflow.ts).
\* It is about the steps; what was approved is AmountStaysAgreed.
THEOREM ChainIsAlwaysWalked == Spec => []ChainIsWalked
<1>1. IInv => ChainIsWalked
  BY DEF IInv
<1> QED  BY <1>1, Invariance, PTL

\* What reaches Finance has a price (0030 and validatePricing).
THEOREM NothingUnpricedGetsThrough == Spec => []NothingUnpricedIsPayable
<1>1. IInv => NothingUnpricedIsPayable
  BY DEF IInv
<1> QED  BY <1>1, Invariance, PTL

\* A change is applied only from the step of Finance, and once decided it is
\* changed by nothing but a withdrawal that had found it undecided: decide and
\* withdraw of edits.service.ts.
THEOREM EditsStayInTheChain == Spec => EditsFollowTheChain
<1> DEFINE Follows ==
      \A e \in Edits :
        /\ edit'[e].status = "APPLIED" /\ edit[e].status # "APPLIED" =>
             edit[e].status = "FINANCE_PENDING"
        /\ edit[e].status \in {"APPLIED", "REJECTED", "WITHDRAWN"} =>
             \/ edit'[e].status = edit[e].status
             \/ /\ edit'[e].status = "WITHDRAWN"
                /\ \E s \in Sessions : /\ call[s].at = "withdraw" /\ call[s].edit = e
                                       /\ call'[s].at = "idle"
<1>1. IInv /\ [Next]_vars => [Follows]_vars
  <2> SUFFICES ASSUME IInv, Next PROVE Follows
    BY DEF vars
  <2>0. edit \in [Edits -> Edit]
    BY DEF IInv, TypeOK
  <2>1. ASSUME NEW s \in Sessions, EditCall(s) PROVE Follows
    <3>1. CASE UNCHANGED edit
      BY <3>1
    <3>2. ASSUME NEW f \in Edits, AskInsert(s, f) PROVE Follows
      <4>1. edit[f].status = "none" /\ edit'[f].status \in {"MANAGER_PENDING", "FINANCE_PENDING"}
        BY <2>0, <3>2 DEF AskInsert
      <4>2. \A e \in Edits : e # f => edit'[e] = edit[e]
        BY <2>0, <3>2 DEF AskInsert
      <4> QED  BY <4>1, <4>2
    <3>3. CASE WithdrawWrite(s)
      <4> DEFINE f == call[s].edit
      <4>1. f \in Edits
        BY <3>3 DEF WithdrawWrite, IInv, TypeOK, Call
      <4>2. edit'[f].status = "WITHDRAWN" /\ \A e \in Edits : e # f => edit'[e] = edit[e]
        BY <2>0, <3>3, <4>1 DEF WithdrawWrite, Edit
      <4>3. call[s].at = "withdraw" /\ call'[s].at = "idle"
        BY <3>3 DEF WithdrawWrite, End, Idle, IInv, TypeOK
      <4>4. \E t \in Sessions : call[t].at = "withdraw" /\ call[t].edit = f /\ call'[t].at = "idle"
        BY <4>3
      <4> HIDE DEF f
      <4> QED  BY <4>2, <4>4
    <3> QED  BY <2>1, <3>1, <3>2, <3>3 DEF EditCall, AskCheck, WithdrawCheck
  <2>2. ASSUME NEW p \in People, NEW f \in Edits,
               PassEdit(p, f) \/ ApplyEdit(p, f) \/ RejectEdit(p, f)
        PROVE  Follows
    <3>1. \A e \in Edits : edit'[e].status =
            IF e = f THEN (CASE PassEdit(p, f) -> "FINANCE_PENDING"
                             [] ApplyEdit(p, f) -> "APPLIED"
                             [] OTHER -> "REJECTED")
                     ELSE edit[e].status
      BY <2>0, <2>2 DEF PassEdit, ApplyEdit, RejectEdit, Edit
    <3>2. edit[f].status \in OpenEdits /\ (ApplyEdit(p, f) => edit[f].status = "FINANCE_PENDING")
      BY <2>2 DEF PassEdit, ApplyEdit, RejectEdit, CanDecideEdit
    <3> QED  BY <3>1, <3>2 DEF OpenEdits
  <2>3. CASE UNCHANGED edit
    BY <2>3
  <2>4. ASSUME NEW s \in Sessions, RequestCall(s) \/ PaymentCall(s) \/ Abandon(s)
        PROVE UNCHANGED edit
    BY <2>4 DEF RequestCall, PaymentCall, Abandon, SubmitCheck, SubmitWrite, UpdateCheck,
                UpdateWrite, DecideLock, Approve, Reject, RemoveCheck, RemoveWrite, RecordLock,
                RecordCommit, ReverseInsert, ReverseCommit
  <2> QED  BY <2>1, <2>2, <2>3, <2>4 DEF Next, EditDecision
<1>2. Spec => [][Follows]_vars
  BY <1>1, Invariance, PTL DEF Spec
<1> QED  BY <1>2 DEF EditsFollowTheChain

-----------------------------------------------------------------------------
(* The amount that was approved.                                           *)

\* What leaves the state, the amount and the approvals alone leaves the amount
\* agreed, and so does what takes the request out of APPROVED.
LEMMA AmountUndisturbed ==
  ASSUME AgreedNow,
         \/ request'.state # "APPROVED"
         \/ /\ request'.state = request.state /\ request'.amount = request.amount
            /\ agreed' = agreed
  PROVE  AgreedNow'
  BY DEF AgreedNow

\* Finance approves the amount in the row it has locked, and the steps before
\* it leave the request unapproved.
LEMMA ApproveAgrees ==
  ASSUME TypeOK, Locking, AgreedNow, NEW s \in Sessions, NEW p \in People,
         NEW price \in Amounts, Approve(s, p, price)
  PROVE  AgreedNow'
<1>1. call[s].seen = request
  BY DEF Approve, Locking, LockedReadsHold
<1>2. /\ request.state \in OpenStates
      /\ request.state = "PURCHASES_PENDING" <=> price > 0
      /\ request' = [Repriced(request, price) EXCEPT !.state = NextState(request.state, request.route)]
      /\ agreed' = IF request.state = "FINANCE_PENDING" THEN request.amount ELSE agreed
  BY <1>1 DEF Approve, CanDecide
<1>3. /\ request'.state = NextState(request.state, request.route)
      /\ request'.amount = IF price = 0 THEN request.amount ELSE price
  BY <1>2, RepricedType DEF Request
<1>4. CASE request.state = "FINANCE_PENDING"
  <2>1. price = 0
    BY <1>2, <1>4 DEF Amounts
  <2> QED  BY <1>2, <1>3, <1>4, <2>1 DEF AgreedNow
<1>5. CASE request.state # "FINANCE_PENDING"
  BY <1>2, <1>3, <1>5 DEF NextState, AfterManager, OpenStates, AgreedNow
<1> QED  BY <1>4, <1>5

\* A change that names an amount is approved at that amount, and one that
\* names none at the amount it was asked for under.
LEMMA ApplyAgrees ==
  ASSUME TypeOK, AgreedNow, NEW p \in People, NEW e \in Edits, ApplyEdit(p, e)
  PROVE  AgreedNow' \/ Overtaken
<1>1. edit[e].amount \in Amounts
  BY DEF TypeOK, Edit
<1>2. /\ request'.amount = IF edit[e].amount = 0 THEN request.amount ELSE edit[e].amount
      /\ agreed' = IF edit[e].amount = 0 THEN edit[e].before ELSE edit[e].amount
  BY <1>1, RepricedType DEF ApplyEdit
<1>3. edit[e].status = "FINANCE_PENDING" /\ edit'[e].status = "APPLIED"
  BY DEF ApplyEdit, TypeOK, Edit
<1>4. CASE request'.amount = agreed'
  BY <1>4 DEF AgreedNow
<1>5. CASE request'.amount # agreed'
  <2>1. edit[e].amount = 0 /\ edit[e].before # request.amount
    BY <1>2, <1>5
  <2> QED  BY <1>3, <2>1 DEF Overtaken
<1> QED  BY <1>4, <1>5

\* However calls overlap, nothing but a call that read the request before
\* makes an approved one ask for another amount than was agreed: decide of
\* requests.service.ts and of edits.service.ts.
THEOREM AmountStaysAgreed == Spec => AmountIsAgreed
<1> DEFINE Kept == AgreedNow => AgreedNow' \/ Overtaken
<1>1. IInv /\ IInv' /\ [Next]_vars => [Kept]_vars
  <2> SUFFICES ASSUME IInv, IInv', Next, AgreedNow PROVE AgreedNow' \/ Overtaken
    BY DEF vars
  <2>0. TypeOK /\ Locking /\ request \in Request
    BY DEF IInv, Locking, TypeOK
  <2>1. ASSUME NEW s \in Sessions, RequestCall(s) PROVE AgreedNow' \/ Overtaken
    <3>1. CASE UNCHANGED <<request, approvals>>
      BY <3>1, AmountUndisturbed
    <3>2. CASE SubmitWrite(s)
      <4>1. request'.state \in OpenStates
        BY <2>0, <3>2, StateType DEF SubmitWrite, Request
      <4> QED  BY <4>1, AmountUndisturbed DEF OpenStates
    <3>3. CASE UpdateWrite(s)
      <4>1. call'[s].at = "idle"
        BY <2>0, <3>3 DEF UpdateWrite, End, Idle, TypeOK
      <4> QED  BY <3>3, <4>1 DEF UpdateWrite, Overtaken
    <3>4. ASSUME NEW p \in People, NEW price \in Amounts, Approve(s, p, price) PROVE AgreedNow'
      BY <2>0, <3>4, ApproveAgrees
    <3>5. ASSUME NEW p \in People, Reject(s, p) PROVE AgreedNow'
      <4>1. Repriced(request, 0) \in Request
        BY <2>0, RepricedType DEF Amounts
      <4>2. request'.state = "REJECTED"
        BY <3>5, <4>1 DEF Reject, Request
      <4> QED  BY <4>2, AmountUndisturbed
    <3>6. CASE RemoveWrite(s)
      <4>1. request'.state = request.state /\ request'.amount = request.amount
        BY <2>0, <3>6 DEF RemoveWrite, Request
      <4> QED  BY <3>6, <4>1, AmountUndisturbed DEF RemoveWrite
    <3> QED
      BY <2>1, <3>1, <3>2, <3>3, <3>4, <3>5, <3>6
      DEF RequestCall, SubmitCheck, UpdateCheck, DecideLock, RemoveCheck
  <2>2. ASSUME NEW s \in Sessions, PaymentCall(s) PROVE AgreedNow'
    <3>1. request'.state = request.state /\ request'.amount = request.amount
      BY <2>0, <2>2 DEF PaymentCall, RecordLock, RecordCommit, ReverseInsert, ReverseCommit, Request
    <3>2. agreed' = agreed
      BY <2>2 DEF PaymentCall, RecordLock, RecordCommit, ReverseInsert, ReverseCommit
    <3> QED  BY <3>1, <3>2, AmountUndisturbed
  <2>3. ASSUME NEW s \in Sessions, EditCall(s) \/ Abandon(s) PROVE AgreedNow'
    <3>1. UNCHANGED <<request, approvals>>
      BY <2>3 DEF EditCall, AskCheck, AskInsert, WithdrawCheck, WithdrawWrite, Abandon
    <3> QED  BY <3>1, AmountUndisturbed
  <2>4. ASSUME NEW p \in People, NEW e \in Edits, PassEdit(p, e) \/ RejectEdit(p, e)
        PROVE AgreedNow'
    BY <2>4, AmountUndisturbed DEF PassEdit, RejectEdit
  <2>5. ASSUME NEW p \in People, NEW e \in Edits, ApplyEdit(p, e)
        PROVE AgreedNow' \/ Overtaken
    BY <2>0, <2>5, ApplyAgrees
  <2> QED  BY <2>1, <2>2, <2>3, <2>4, <2>5 DEF Next, EditDecision
<1>2. Spec => [][Kept]_vars
  BY <1>1, Invariance, PTL DEF Spec
<1> QED  BY <1>2 DEF AmountIsAgreed

-----------------------------------------------------------------------------
(* The ledger.                                                             *)

\* A request starts with an empty ledger.
LEMMA LedgerInit == Init => Ledger!Init
<1> SUFFICES ASSUME Init PROVE Ledger!Init
  OBVIOUS
<1>1. request.amount \in Nat /\ request.deleted \in BOOLEAN
  BY InitType DEF TypeOK, Request, Amounts
<1> QED  BY <1>1 DEF Init, Ledger!Init

\* Every step of every call is a payment, a reversal, or none of the ledger's
\* business.
LEMMA LedgerStep == IInv /\ IInv' /\ [Next]_vars => [Ledger!Next]_(Ledger!vars)
<1> SUFFICES ASSUME IInv, IInv', [Next]_vars PROVE [Ledger!Next]_(Ledger!vars)
  OBVIOUS
<1> USE DEF ledger
<1>0. request' \in Request /\ request'.amount \in Nat /\ request'.deleted \in BOOLEAN
  BY DEF IInv, TypeOK, Request, Amounts
<1>1. CASE UNCHANGED ledger
  <2>1. Ledger!Restate
    BY <1>0, <1>1 DEF Ledger!Restate, Ledger!ledger
  <2> QED  BY <2>1 DEF Ledger!Next
<1>2. ASSUME NEW s \in Sessions, RecordCommit(s), call[s].key \notin recorded
      PROVE  Ledger!Next
  <2> DEFINE k == call[s].key
  <2>1. k \in Keys
    BY <1>2 DEF RecordCommit, IInv, TypeOK, Call
  <2>2. /\ request.state = "APPROVED" /\ ~ request.deleted
        /\ paid + AmountOf[k] <= request.amount
    BY <1>2 DEF RecordCommit, IInv, LockedReadsHold, LockedReadsAllow
  <2>3. /\ recorded' = recorded \cup {k} /\ paid' = paid + AmountOf[k] /\ UNCHANGED reversed
        /\ request' = [request EXCEPT !.payment = PaymentState(paid', request.amount)]
    BY <1>2 DEF RecordCommit
  <2>4. /\ request'.state = request.state /\ request'.deleted = request.deleted
        /\ request'.amount = request.amount
    BY <2>3 DEF IInv, TypeOK, Request
  <2>5. Ledger!Pay(k)
    BY <1>2, <2>2, <2>3, <2>4 DEF Ledger!Pay
  <2> QED  BY <2>1, <2>5 DEF Ledger!Next
<1>3. ASSUME NEW s \in Sessions, ReverseCommit(s) PROVE Ledger!Next
  <2> DEFINE k == call[s].key
  <2>1. k \in recorded \ reversed /\ k \in Keys
    BY <1>3 DEF ReverseCommit, IInv, ReversedOnce, TypeOK
  <2>2. /\ reversed' = reversed \cup {k} /\ paid' = paid - AmountOf[k] /\ UNCHANGED recorded
        /\ request'.state = request.state /\ request'.deleted = request.deleted
        /\ request'.amount = request.amount
    BY <1>3 DEF ReverseCommit, IInv, TypeOK, Request
  <2>3. Ledger!Undo(k)
    BY <2>1, <2>2 DEF Ledger!Undo
  <2> QED  BY <2>1, <2>3 DEF Ledger!Next
<1>4. ASSUME NEW s \in Sessions, RecordCommit(s), call[s].key \in recorded
      PROVE  UNCHANGED ledger
  BY <1>4 DEF RecordCommit
<1>5. ASSUME NEW s \in Sessions, RequestCall(s) \/ EditCall(s) \/ Abandon(s)
      PROVE  UNCHANGED ledger
  BY <1>5 DEF RequestCall, EditCall, Abandon, SubmitCheck, SubmitWrite, UpdateCheck,
              UpdateWrite, DecideLock, Approve, Reject, RemoveCheck, RemoveWrite,
              AskCheck, AskInsert, WithdrawCheck, WithdrawWrite
<1>6. CASE EditDecision
  BY <1>1, <1>6 DEF EditDecision, PassEdit, ApplyEdit, RejectEdit
<1>7. ASSUME NEW s \in Sessions, PaymentCall(s) PROVE [Ledger!Next]_(Ledger!vars)
  <2>1. ASSUME NEW k \in Keys, RecordLock(s, k) \/ ReverseInsert(s, k) PROVE UNCHANGED ledger
    BY <2>1 DEF RecordLock, ReverseInsert
  <2> QED  BY <1>1, <1>2, <1>3, <1>4, <1>7, <2>1 DEF PaymentCall
<1>8. CASE UNCHANGED vars
  BY <1>1, <1>8 DEF vars
<1> QED  BY <1>1, <1>5, <1>6, <1>7, <1>8 DEF Next

\* The finance module keeps the promise of PaymentLedger: every payment once,
\* within what is asked at that moment and of a payable request, and undone at
\* most once, under any number of retries and of calls at the same time.
THEOREM FinanceKeepsLedger == Spec => KeepsLedger
<1>1. Spec => Ledger!Init /\ [][Ledger!Next]_(Ledger!vars)
  BY LedgerInit, LedgerStep, Invariance, PTL DEF Spec
<1> QED  BY <1>1 DEF KeepsLedger, Ledger!Spec

-----------------------------------------------------------------------------
(* The sum of the ledger.                                                  *)
(*                                                                         *)
(* LedgerAddsUp speaks of a fold over a set, in the order CHOOSE takes its *)
(* elements.  What it comes to does not depend on that order (AnyOrder), so *)
(* a payment more or less is its amount more or less (SumOfMore).          *)

\* What a fold of the sum has reached after the keys in t, for each t in T: one
\* key at a time, in whatever order CHOOSE picks them.
Sums(T, g) ==
  g = [t \in T |-> IF t = {} THEN 0
                   ELSE AmountOf[CHOOSE x \in t : TRUE] + g[t \ {CHOOSE x \in t : TRUE}]]

\* Subsets of S no larger than n.
UpTo(S, n) == {t \in SUBSET S : Cardinality(t) <= n}

\* One key fewer.
LEMMA OneLess ==
  ASSUME NEW S, IsFiniteSet(S), NEW n \in Nat, NEW t \in UpTo(S, n + 1), NEW x \in t
  PROVE  t \ {x} \in UpTo(S, n)
<1>1. IsFiniteSet(t)  BY FS_Subset DEF UpTo
<1>2. IsFiniteSet(t \ {x}) /\ Cardinality(t \ {x}) = Cardinality(t) - 1
  BY <1>1, FS_RemoveElement
<1>3. Cardinality(t) \in Nat /\ Cardinality(t \ {x}) \in Nat  BY <1>1, <1>2, FS_CardinalityType
<1> QED  BY <1>1, <1>2, <1>3 DEF UpTo

\* Only the empty set has no key.
LEMMA NoneLeft ==
  ASSUME NEW S, IsFiniteSet(S), NEW t \in UpTo(S, 0)
  PROVE  t = {}
<1>1. IsFiniteSet(t)  BY FS_Subset DEF UpTo
<1>2. Cardinality(t) = 0  BY <1>1, FS_CardinalityType DEF UpTo
<1> QED  BY <1>1, <1>2, FS_EmptySet

\* Induction on the size of a set, in the form the provers can use.
LEMMA EveryNat ==
  ASSUME NEW G \in SUBSET Nat, 0 \in G, \A n \in G : n + 1 \in G
  PROVE  G = Nat
<1> SUFFICES ASSUME G # Nat PROVE FALSE  OBVIOUS
<1>1. PICK x \in Nat \ G : \A y \in Nat \ G : ~ (<<y, x>> \in OpToRel(<, Nat))
  BY NatLessThanWellFounded, WFMin
<1>2. x # 0 /\ x - 1 \in Nat  OBVIOUS
<1>3. \A y \in Nat \ G : ~ (y < x)  BY <1>1 DEF OpToRel
<1>4. x - 1 \in G  BY <1>2, <1>3
<1>5. (x - 1) + 1 \in G  BY <1>4
<1> QED  BY <1>5

\* Over a finite set of payments the fold reaches its end, and at a natural
\* number.
LEMMA SumsExist ==
  ASSUME NEW S \in SUBSET Keys, IsFiniteSet(S)
  PROVE  \E g \in [SUBSET S -> Nat] : Sums(SUBSET S, g)
<1> DEFINE G == {n \in Nat : \E g \in [UpTo(S, n) -> Nat] : Sums(UpTo(S, n), g)}
<1>1. 0 \in G
  <2> DEFINE g == [t \in UpTo(S, 0) |-> 0]
  <2>1. ASSUME NEW t \in UpTo(S, 0) PROVE t = {}
    BY <2>1, NoneLeft
  <2>2. g = [t \in UpTo(S, 0) |-> IF t = {} THEN 0
                   ELSE AmountOf[CHOOSE x \in t : TRUE] + g[t \ {CHOOSE x \in t : TRUE}]]
    BY <2>1
  <2> QED  BY <2>2 DEF Sums
<1>2. ASSUME NEW n \in G PROVE n + 1 \in G
  <2>1. PICK g \in [UpTo(S, n) -> Nat] : Sums(UpTo(S, n), g)  OBVIOUS
  <2> DEFINE C(t) == CHOOSE x \in t : TRUE
             h == [t \in UpTo(S, n + 1) |-> IF t = {} THEN 0 ELSE AmountOf[C(t)] + g[t \ {C(t)}]]
  <2>2. ASSUME NEW t \in UpTo(S, n + 1), t # {}
        PROVE C(t) \in Keys /\ t \ {C(t)} \in UpTo(S, n)
    <3>1. C(t) \in t  BY <2>2
    <3>2. t \ {C(t)} \in UpTo(S, n)  BY <3>1, OneLess
    <3> QED  BY <3>1, <3>2 DEF UpTo
  <2>3. ASSUME NEW t \in UpTo(S, n + 1) PROVE h[t] \in Nat
    BY <2>2
  <2>4. h \in [UpTo(S, n + 1) -> Nat]  BY <2>3
  <2>5. ASSUME NEW t \in UpTo(S, n) PROVE t \in UpTo(S, n + 1) /\ h[t] = g[t]
    <3>1. t \in UpTo(S, n + 1)
      <4>1. IsFiniteSet(t) /\ Cardinality(t) \in Nat  BY FS_Subset, FS_CardinalityType DEF UpTo
      <4> QED  BY <4>1 DEF UpTo
    <3> QED  BY <2>1, <3>1 DEF Sums
  <2>6. \A t \in UpTo(S, n + 1) : h[t] = IF t = {} THEN 0 ELSE AmountOf[C(t)] + g[t \ {C(t)}]
    OBVIOUS
  <2> HIDE DEF h, C
  <2>7. ASSUME NEW t \in UpTo(S, n + 1)
        PROVE  h[t] = IF t = {} THEN 0 ELSE AmountOf[C(t)] + h[t \ {C(t)}]
    <3>2. CASE t = {}  BY <2>6, <3>2
    <3>3. CASE t # {}
      <4>1. h[t \ {C(t)}] = g[t \ {C(t)}]  BY <2>2, <2>5, <3>3
      <4> QED  BY <4>1, <2>6, <3>3
    <3> QED  BY <3>2, <3>3
  <2>8. Sums(UpTo(S, n + 1), h)  BY <2>4, <2>7 DEF Sums, C
  <2> QED  BY <2>4, <2>8
<1>3. G = Nat  BY <1>1, <1>2, EveryNat
<1>4. Cardinality(S) \in Nat  BY FS_CardinalityType
<1>5. UpTo(S, Cardinality(S)) = SUBSET S
  BY FS_Subset DEF UpTo
<1>6. \E g \in [UpTo(S, Cardinality(S)) -> Nat] : Sums(UpTo(S, Cardinality(S)), g)
  <2>1. Cardinality(S) \in G  BY <1>3, <1>4
  <2> QED  BY <2>1
<1> HIDE DEF G
<1> QED  BY <1>5, <1>6

\* The order does not matter: whichever key is taken last, the rest adds up.
LEMMA AnyOrder ==
  ASSUME NEW S \in SUBSET Keys, IsFiniteSet(S), NEW g \in [SUBSET S -> Nat], Sums(SUBSET S, g),
         NEW t \in SUBSET S, NEW x \in t
  PROVE  g[t] = AmountOf[x] + g[t \ {x}]
<1> DEFINE Good(u) == \A y \in u : g[u] = AmountOf[y] + g[u \ {y}]
           G == {n \in Nat : \A u \in UpTo(S, n) : Good(u)}
           C(u) == CHOOSE y \in u : TRUE
<1>1. 0 \in G  BY NoneLeft
<1>2. ASSUME NEW n \in G PROVE n + 1 \in G
  <2> SUFFICES ASSUME NEW u \in UpTo(S, n + 1), NEW y \in u PROVE g[u] = AmountOf[y] + g[u \ {y}]
    OBVIOUS
  <2> DEFINE c == C(u)
  <2>1. c \in u  OBVIOUS
  <2>2. u \in SUBSET S  BY DEF UpTo
  <2>3. g[u] = AmountOf[c] + g[u \ {c}]  BY <2>1, <2>2 DEF Sums
  <2> HIDE DEF c
  <2>4. CASE c = y  BY <2>3, <2>4
  <2>5. CASE c # y
    <3>1. u \ {c} \in UpTo(S, n) /\ u \ {y} \in UpTo(S, n)  BY <2>1, OneLess
    <3>2. u \ {c} \in UpTo(S, n) /\ u \ {y} \in UpTo(S, n)  BY <3>1
    <3>3. g[u \ {c}] = AmountOf[y] + g[(u \ {c}) \ {y}]  BY <2>5, <3>2
    <3>4. g[u \ {y}] = AmountOf[c] + g[(u \ {y}) \ {c}]  BY <2>1, <2>5, <3>2
    <3>5. (u \ {c}) \ {y} = (u \ {y}) \ {c}  OBVIOUS
    <3>6. g[(u \ {y}) \ {c}] \in Nat  BY <2>2
    <3>7. AmountOf[c] \in Nat /\ AmountOf[y] \in Nat  BY <2>1, <2>2
    <3> DEFINE r == g[(u \ {y}) \ {c}]
    <3>9. g[u] = AmountOf[c] + (AmountOf[y] + r) /\ g[u \ {y}] = AmountOf[c] + r
      BY <2>3, <3>3, <3>4, <3>5
    <3> HIDE DEF r
    <3>10. AmountOf[c] + (AmountOf[y] + r) = AmountOf[y] + (AmountOf[c] + r)  BY <3>6, <3>7 DEF r
    <3> QED  BY <3>9, <3>10
  <2> QED  BY <2>4, <2>5
<1>3. G = Nat  BY <1>1, <1>2, EveryNat
<1>4. Cardinality(t) \in Nat /\ t \in UpTo(S, Cardinality(t))
  BY FS_Subset, FS_CardinalityType DEF UpTo
<1> QED  BY <1>3, <1>4

\* A sum over fewer keys is part of the sum over more.
LEMMA SameSums ==
  ASSUME NEW S \in SUBSET Keys, IsFiniteSet(S), NEW T \in SUBSET S, NEW g, NEW h,
         Sums(SUBSET S, g), Sums(SUBSET T, h)
  PROVE  g[T] = h[T]
<1> DEFINE G == {n \in Nat : \A u \in UpTo(T, n) : g[u] = h[u]}
           C(u) == CHOOSE y \in u : TRUE
<1>0. IsFiniteSet(T)  BY FS_Subset
<1>1. 0 \in G
  <2>1. ASSUME NEW u \in UpTo(T, 0) PROVE u = {}  BY <1>0, NoneLeft
  <2> QED  BY <2>1 DEF Sums
<1>2. ASSUME NEW n \in G PROVE n + 1 \in G
  <2> SUFFICES ASSUME NEW u \in UpTo(T, n + 1) PROVE g[u] = h[u]
    OBVIOUS
  <2>1. u \in SUBSET T /\ u \in SUBSET S  BY DEF UpTo
  <2>2. CASE u = {}  BY <2>1, <2>2 DEF Sums
  <2>3. CASE u # {}
    <3>1. C(u) \in u  BY <2>3
    <3>2. u \ {C(u)} \in UpTo(T, n)  BY <1>0, <3>1, OneLess
    <3>3. u \ {C(u)} \in UpTo(T, n)  BY <3>2
    <3>4. g[u] = AmountOf[C(u)] + g[u \ {C(u)}]  BY <2>1, <2>3 DEF Sums
    <3>5. h[u] = AmountOf[C(u)] + h[u \ {C(u)}]  BY <2>1, <2>3 DEF Sums
    <3> QED  BY <3>3, <3>4, <3>5
  <2> QED  BY <2>2, <2>3
<1>3. G = Nat  BY <1>1, <1>2, EveryNat
<1>4. Cardinality(T) \in Nat /\ T \in UpTo(T, Cardinality(T))
  BY <1>0, FS_CardinalityType DEF UpTo
<1> QED  BY <1>3, <1>4

\* The sum of some payments is what that fold ends with.
LEMMA SumIsSum ==
  ASSUME NEW S \in SUBSET Keys, IsFiniteSet(S)
  PROVE  \E g : Sums(SUBSET S, g) /\ SumOf(S) = g[S]
<1> DEFINE f == CHOOSE g : Sums(SUBSET S, g)
<1>1. \E g : Sums(SUBSET S, g)  BY SumsExist
<1>2. Sums(SUBSET S, f)  BY <1>1
<1>3. SumOf(S) = f[S]
  BY DEF SumOf, FoldFunctionOnSet, MapThenFoldSet, Sums
<1> QED  BY <1>2, <1>3

\* So is the sum of any part of them.
LEMMA SumsAreSums ==
  ASSUME NEW S \in SUBSET Keys, IsFiniteSet(S), NEW g, Sums(SUBSET S, g), NEW T \in SUBSET S
  PROVE  SumOf(T) = g[T]
<1>1. T \in SUBSET Keys /\ IsFiniteSet(T)  BY FS_Subset
<1>2. PICK h : Sums(SUBSET T, h) /\ SumOf(T) = h[T]  BY <1>1, SumIsSum
<1>3. g[T] = h[T]  BY <1>2, SameSums
<1> QED  BY <1>2, <1>3

\* Nothing adds up to nothing.
LEMMA SumOfNone == SumOf({}) = 0
<1>1. IsFiniteSet({})  BY FS_EmptySet
<1>2. PICK g : Sums(SUBSET {}, g) /\ SumOf({}) = g[{}]  BY <1>1, SumIsSum
<1> QED  BY <1>2 DEF Sums

\* A sum is a natural number.
LEMMA SumType ==
  ASSUME NEW S \in SUBSET Keys, IsFiniteSet(S)  PROVE SumOf(S) \in Nat
<1>1. PICK g \in [SUBSET S -> Nat] : Sums(SUBSET S, g)  BY SumsExist
<1>2. SumOf(S) = g[S]  BY <1>1, SumsAreSums
<1> QED  BY <1>2

\* One payment more adds its amount, and one fewer takes it away.
LEMMA SumOfMore ==
  ASSUME NEW S \in SUBSET Keys, IsFiniteSet(S), NEW k \in S
  PROVE  /\ SumOf(S) = AmountOf[k] + SumOf(S \ {k})
         /\ SumOf(S) \in Nat /\ SumOf(S \ {k}) \in Nat
<1>1. PICK g \in [SUBSET S -> Nat] : Sums(SUBSET S, g)  BY SumsExist
<1>2. SumOf(S) = g[S]  BY <1>1, SumsAreSums
<1>3. SumOf(S \ {k}) = g[S \ {k}]  BY <1>1, SumsAreSums
<1>4. g[S] = AmountOf[k] + g[S \ {k}]  BY <1>1, AnyOrder
<1> QED  BY <1>2, <1>3, <1>4

\* With the ledger finite, every step the ledger allows keeps its sum.
LEMMA LedgerSumStep ==
  ASSUME TypeOK, IsFiniteSet(recorded), LedgerAddsUp, [Ledger!Next]_(Ledger!vars)
  PROVE  IsFiniteSet(recorded)' /\ LedgerAddsUp'
<1> DEFINE open == recorded \ reversed
<1>0. /\ recorded \in SUBSET Keys /\ reversed \in SUBSET recorded /\ paid \in Int
      /\ paid = SumOf(open)
  BY DEF TypeOK, LedgerAddsUp
<1>1. ASSUME NEW k \in Keys, Ledger!Pay(k)  PROVE IsFiniteSet(recorded)' /\ LedgerAddsUp'
  <2>1. /\ k \notin recorded /\ recorded' = recorded \cup {k} /\ UNCHANGED reversed
        /\ paid' = paid + AmountOf[k]
    BY <1>1 DEF Ledger!Pay
  <2>2. IsFiniteSet(recorded \cup {k})  BY FS_AddElement
  <2>3. /\ open' \in SUBSET Keys /\ IsFiniteSet(open') /\ k \in open' /\ open' \ {k} = open
    <3>1. open' \subseteq recorded \cup {k}  BY <2>1
    <3>2. IsFiniteSet(open')  BY <2>2, <3>1, FS_Subset
    <3> QED  BY <1>0, <2>1, <3>2
  <2>4. SumOf(open') = AmountOf[k] + SumOf(open) /\ SumOf(open) \in Nat
    BY <2>3, SumOfMore
  <2>5. paid' = SumOf(open')  BY <1>0, <2>1, <2>4
  <2>6. LedgerAddsUp'  BY <2>5 DEF LedgerAddsUp
  <2>7. IsFiniteSet(recorded')  BY <2>1, <2>2
  <2> QED  BY <2>6, <2>7
<1>2. ASSUME NEW k \in Keys, Ledger!Undo(k)  PROVE IsFiniteSet(recorded)' /\ LedgerAddsUp'
  <2>1. /\ k \in open /\ UNCHANGED recorded /\ reversed' = reversed \cup {k}
        /\ paid' = paid - AmountOf[k]
    BY <1>2 DEF Ledger!Undo
  <2>2. open \in SUBSET Keys /\ IsFiniteSet(open) /\ open' = open \ {k}
    <3>1. IsFiniteSet(open)  BY FS_Subset
    <3> QED  BY <1>0, <2>1, <3>1
  <2>3. SumOf(open) = AmountOf[k] + SumOf(open') /\ SumOf(open') \in Nat
    BY <2>1, <2>2, SumOfMore
  <2>4. paid' = SumOf(open')  BY <1>0, <2>1, <2>3
  <2> QED  BY <2>1, <2>4 DEF LedgerAddsUp
<1>3. ASSUME UNCHANGED ledger  PROVE IsFiniteSet(recorded)' /\ LedgerAddsUp'
  BY <1>3 DEF ledger, LedgerAddsUp
<1>4. CASE Ledger!Restate  BY <1>3, <1>4 DEF Ledger!Restate, Ledger!ledger, ledger
<1>5. CASE UNCHANGED Ledger!vars  BY <1>3, <1>5 DEF Ledger!vars, ledger
<1> QED  BY <1>1, <1>2, <1>4, <1>5 DEF Ledger!Next

\* The ledger holds finitely many payments, and paid is their sum.
LEMMA LedgerInvariance == Spec => [](IsFiniteSet(recorded) /\ LedgerAddsUp)
<1>1. Init => IsFiniteSet(recorded) /\ LedgerAddsUp
  <2>1. IsFiniteSet({}) /\ {} \ {} = {}  BY FS_EmptySet
  <2> QED  BY <2>1, SumOfNone DEF Init, LedgerAddsUp
<1>2. IInv /\ IInv' /\ (IsFiniteSet(recorded) /\ LedgerAddsUp) /\ [Next]_vars
        => (IsFiniteSet(recorded) /\ LedgerAddsUp)'
  BY LedgerStep, LedgerSumStep DEF IInv
<1> QED  BY <1>1, <1>2, Invariance, PTL DEF Spec

\* However many payments there are, and however calls to record and to reverse
\* them are repeated and overlap, the sum the triggers see is the sum of what
\* was recorded and not undone.
THEOREM LedgerAlwaysAddsUp == Spec => []LedgerAddsUp
  BY LedgerInvariance, PTL

\* No reversal gives back more than was paid (payments service): the sum is
\* never negative.
THEOREM NeverPaidLessThanNothing == Spec => [](paid >= 0)
<1>1. IInv /\ IsFiniteSet(recorded) /\ LedgerAddsUp => paid >= 0
  <2> SUFFICES ASSUME IInv, IsFiniteSet(recorded), LedgerAddsUp  PROVE paid >= 0
    OBVIOUS
  <2>1. recorded \ reversed \in SUBSET Keys /\ IsFiniteSet(recorded \ reversed)
    <3>1. IsFiniteSet(recorded \ reversed)  BY FS_Subset
    <3> QED  BY <3>1 DEF IInv, TypeOK
  <2>2. paid \in Nat  BY <2>1, SumType DEF LedgerAddsUp
  <2> QED  BY <2>2
<1> QED  BY <1>1, Invariance, LedgerInvariance, PTL
=============================================================================
