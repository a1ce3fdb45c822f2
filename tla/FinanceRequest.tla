--------------------------- MODULE FinanceRequest ---------------------------
(***************************************************************************)
(* One payment request of the finance module, with its approvals, its      *)
(* changes after approval and the payments against it.                     *)
(*                                                                         *)
(*   requests.service.ts  submit, update, decide, remove                   *)
(*   edits.service.ts     request, decide, withdraw                        *)
(*   payments.service.ts  record, reverse                                  *)
(*   workflow.ts          who may do what in which state                   *)
(*   migration 0033       the triggers that keep payment_state             *)
(*                                                                         *)
(* Each call runs in a session of its own.  A call that reads the row and  *)
(* writes it in a second statement takes two steps, with every other call  *)
(* in between.  Row locks are kept as PostgreSQL keeps them: FOR UPDATE is *)
(* held from the read to the commit, and it excludes every other writer;   *)
(* an insert that refers to the request holds a key-share lock, which      *)
(* excludes only FOR UPDATE.  A transaction none of whose reads can be     *)
(* outdated by the time it writes is one step.                             *)
(*                                                                         *)
(* Amounts are small numbers, and 0 stands for NULL: not priced yet, or    *)
(* a change that leaves the amount alone.                                  *)
(*                                                                         *)
(* A name ending in _Bug is the definition after it with a plausible       *)
(* mistake, and is used by nothing: it shows which property would notice.  *)
(***************************************************************************)
EXTENDS Integers, FiniteSets, Functions

CONSTANTS
  Sessions,     \* calls that may be in progress at the same time
  Keys,         \* idempotency keys of the payments people intend to make
  AmountOf,     \* the amount of each payment
  Edits,        \* rows of fin_request_edits
  People,       \* who may decide
  Requester,    \* who raised the request
  Managers,     \* the managers of the requesting department
  Purchasers,   \* who holds finance.purchases.decide
  Financiers,   \* who holds finance.request.manage
  MaxAmount,    \* bound: the largest amount asked for
  NoKey, NoEdit

Amounts == 0..MaxAmount

ASSUME AmountAssumption == MaxAmount \in Nat /\ AmountOf \in [Keys -> Nat \ {0}]
ASSUME PeopleAssumption ==
  /\ Requester \in People
  /\ Managers \subseteq People /\ Purchasers \subseteq People /\ Financiers \subseteq People
ASSUME NullAssumption == NoKey \notin Keys /\ NoEdit \notin Edits

VARIABLES
  request,      \* the row of fin_requests
  trail,        \* who has approved it at which step: fin_request_approvals
  agreed,       \* the amount in the last approval by Finance, or 0
  edit,         \* fin_request_edits
  recorded,     \* committed rows of fin_payments, by key
  reversed,     \* payments with a committed reversal
  paid,         \* SELECT sum(amount) over the committed rows
  call          \* what each session has read and not yet written

approvals == <<trail, agreed>>
ledger == <<recorded, reversed, paid>>
vars == <<request, approvals, edit, ledger, call>>

-----------------------------------------------------------------------------
(* Rows, and the rules of workflow.ts.                                     *)

Steps == {"MANAGER", "PURCHASES", "FINANCE"}
OpenStates == {"MANAGER_PENDING", "PURCHASES_PENDING", "FINANCE_PENDING"}
Decided == {"APPROVED", "REJECTED"}
OpenEdits == {"MANAGER_PENDING", "FINANCE_PENDING"}

Request == [state: {"DRAFT"} \cup OpenStates \cup Decided, amount: Amounts,
            payment: {"UNPAID", "PARTIAL", "PAID"}, deleted: BOOLEAN,
            route: {"finance", "purchases"}]

Edit == [status: {"none", "APPLIED", "REJECTED", "WITHDRAWN"} \cup OpenEdits,
         amount: Amounts, before: Amounts]

Call == [at: {"idle", "submit", "update", "remove", "decide", "record",
              "reverse", "ask", "withdraw"},
         key: Keys \cup {NoKey}, edit: Edits \cup {NoEdit},
         seen: Request, paid: Int, amount: Amounts, before: Amounts]

NeedsManager == Managers # {} /\ Requester \notin Managers

AfterManager_Bug(route) == "FINANCE_PENDING"
AfterManager(route) ==
  IF route = "purchases" THEN "PURCHASES_PENDING" ELSE "FINANCE_PENDING"

FirstState(route) == IF NeedsManager THEN "MANAGER_PENDING" ELSE AfterManager(route)

StepOf(state) ==
  CASE state = "MANAGER_PENDING" -> "MANAGER"
    [] state = "PURCHASES_PENDING" -> "PURCHASES"
    [] state = "FINANCE_PENDING" -> "FINANCE"

NextState(state, route) ==
  CASE state = "MANAGER_PENDING" -> AfterManager(route)
    [] state = "PURCHASES_PENDING" -> "FINANCE_PENDING"
    [] state = "FINANCE_PENDING" -> "APPROVED"

Deciders(step) ==
  CASE step = "MANAGER" -> Managers
    [] step = "PURCHASES" -> Purchasers
    [] step = "FINANCE" -> Financiers

CanDecide(p, r) ==
  /\ r.state \in OpenStates
  /\ p # Requester
  /\ p \in Deciders(StepOf(r.state))

\* What both triggers of migration 0033 compute.
PaymentState(sum, asked) ==
  CASE sum <= 0 -> "UNPAID"
    [] sum > 0 /\ asked > 0 /\ sum >= asked -> "PAID"
    [] OTHER -> "PARTIAL"

\* UPDATE ... SET requested_amount: the trigger runs whether or not it changes.
Repriced(r, amount) ==
  LET asked == IF amount = 0 THEN r.amount ELSE amount
  IN [r EXCEPT !.amount = asked, !.payment = PaymentState(paid, asked)]

Blank == [state |-> "DRAFT", amount |-> 0, payment |-> "UNPAID",
          deleted |-> FALSE, route |-> "finance"]

Idle == [at |-> "idle", key |-> NoKey, edit |-> NoEdit,
         seen |-> Blank, paid |-> 0, amount |-> 0, before |-> 0]

\* create: a draft, or already submitted; only purchases may start unpriced.
Init ==
  /\ \E route \in {"finance", "purchases"}, amount \in Amounts :
       /\ route = "purchases" <=> amount = 0
       /\ \E state \in {"DRAFT", FirstState(route)} :
            request = [Blank EXCEPT !.state = state, !.amount = amount, !.route = route]
  /\ trail = {} /\ agreed = 0
  /\ edit = [e \in Edits |-> [status |-> "none", amount |-> 0, before |-> 0]]
  /\ recorded = {}
  /\ reversed = {}
  /\ paid = 0
  /\ call = [s \in Sessions |-> Idle]

-----------------------------------------------------------------------------
(* Calls and locks.                                                        *)

Idling(s) == call[s] = Idle
Begin(s, c) == Idling(s) /\ call' = [call EXCEPT ![s] = c]
End(s) == call' = [call EXCEPT ![s] = Idle]

\* As if deciding, or paying, did not lock the row.
Locked_Bug2(s) == \E t \in Sessions \ {s} : call[t].at = "record"
Locked_Bug(s) == \E t \in Sessions \ {s} : call[t].at = "decide"

\* Another transaction holds the request FOR UPDATE ...
Locked(s) == \E t \in Sessions \ {s} : call[t].at \in {"decide", "record"}

\* ... or has inserted a row that refers to it.
Referenced(s) == \E t \in Sessions \ {s} : call[t].at = "reverse"

\* The connection or the process is lost, or the call is refused: nothing of
\* it was committed.
Abandon(s) ==
  /\ ~ Idling(s)
  /\ End(s)
  /\ UNCHANGED <<request, approvals, edit, ledger>>

-----------------------------------------------------------------------------
(* requests.service.ts                                                     *)

SubmitCheck(s) ==
  /\ ~ request.deleted
  /\ request.state = "DRAFT"
  /\ Begin(s, [Idle EXCEPT !.at = "submit"])
  /\ UNCHANGED <<request, approvals, edit, ledger>>

SubmitWrite(s) ==
  /\ call[s].at = "submit"
  /\ ~ Locked(s)
  /\ request' = [request EXCEPT !.state = FirstState(request.route)]
  /\ End(s)
  /\ UNCHANGED <<approvals, edit, ledger>>

\* canEditDirectly: a draft, or anything still in the chain.
UpdateCheck(s, amount) ==
  /\ ~ request.deleted
  /\ request.state \in OpenStates \cup {"DRAFT"}
  /\ Begin(s, [Idle EXCEPT !.at = "update", !.amount = amount])
  /\ UNCHANGED <<request, approvals, edit, ledger>>

UpdateWrite(s) ==
  /\ call[s].at = "update"
  /\ ~ Locked(s)
  /\ request' = Repriced(request, call[s].amount)
  /\ End(s)
  /\ UNCHANGED <<approvals, edit, ledger>>

\* SELECT ... FOR UPDATE, which waits for every other writer and reference.
DecideLock(s) ==
  /\ ~ Locked(s)
  /\ ~ Referenced(s)
  /\ ~ request.deleted
  /\ request.state \in OpenStates
  /\ Begin(s, [Idle EXCEPT !.at = "decide", !.seen = request])
  /\ UNCHANGED <<request, approvals, edit, ledger>>

\* Everything is decided on the row that was read.  Purchases names a price
\* when it approves, and the requester is never the one who decides.
Approve(s, p, price) ==
  LET r == call[s].seen IN
  /\ call[s].at = "decide"
  /\ CanDecide(p, r)
  /\ r.state = "PURCHASES_PENDING" <=> price > 0
  /\ request' = [Repriced(request, price) EXCEPT !.state = NextState(r.state, r.route)]
  /\ trail' = trail \cup {<<StepOf(r.state), p>>}
  /\ agreed' = IF r.state = "FINANCE_PENDING" THEN r.amount ELSE agreed
  /\ End(s)
  /\ UNCHANGED <<edit, ledger>>

Reject(s, p) ==
  LET r == call[s].seen IN
  /\ call[s].at = "decide"
  /\ CanDecide(p, r)
  /\ request' = [Repriced(request, 0) EXCEPT !.state = "REJECTED"]
  /\ End(s)
  /\ UNCHANGED <<approvals, edit, ledger>>

\* canDelete: by whoever manages requests, as long as nothing is paid.
RemoveCheck(s) ==
  /\ Financiers # {}
  /\ ~ request.deleted
  /\ request.payment = "UNPAID"
  /\ Begin(s, [Idle EXCEPT !.at = "remove"])
  /\ UNCHANGED <<request, approvals, edit, ledger>>

RemoveWrite(s) ==
  /\ call[s].at = "remove"
  /\ ~ Locked(s)
  /\ request' = [request EXCEPT !.deleted = TRUE]
  /\ End(s)
  /\ UNCHANGED <<approvals, edit, ledger>>

-----------------------------------------------------------------------------
(* payments.service.ts                                                     *)

\* The amount asked for in place of what is left of it.
RecordLock_Bug(s, k) ==
  /\ ~ Locked(s)
  /\ ~ Referenced(s)
  /\ ~ request.deleted
  /\ request.state = "APPROVED"
  /\ AmountOf[k] <= request.amount
  /\ Begin(s, [Idle EXCEPT !.at = "record", !.key = k, !.seen = request, !.paid = paid])
  /\ UNCHANGED <<request, approvals, edit, ledger>>

\* The row is locked before the ledger is added up.
RecordLock(s, k) ==
  /\ ~ Locked(s)
  /\ ~ Referenced(s)
  /\ ~ request.deleted
  /\ request.state = "APPROVED"
  /\ request.amount > 0
  /\ AmountOf[k] <= request.amount - paid
  /\ Begin(s, [Idle EXCEPT !.at = "record", !.key = k, !.seen = request, !.paid = paid])
  /\ UNCHANGED <<request, approvals, edit, ledger>>

\* The key is unique: a payment sent again inserts nothing, and is answered
\* with the row that is there.
RecordCommit(s) ==
  LET k == call[s].key IN
  /\ call[s].at = "record"
  /\ IF k \in recorded
     THEN UNCHANGED <<request, recorded, paid>>
     ELSE /\ recorded' = recorded \cup {k}
          /\ paid' = paid + AmountOf[k]
          /\ request' = [request EXCEPT !.payment = PaymentState(paid', request.amount)]
  /\ End(s)
  /\ UNCHANGED <<reversed, approvals, edit>>

\* Without the unique index on reversal_of_id.
ReverseInsert_Bug(s, k) ==
  /\ ~ Locked(s)
  /\ k \in recorded \ reversed
  /\ Begin(s, [Idle EXCEPT !.at = "reverse", !.key = k, !.seen = request,
                           !.paid = paid - AmountOf[k]])
  /\ UNCHANGED <<request, approvals, edit, ledger>>

\* Without looking whether the payment is there.
ReverseInsert_Bug2(s, k) ==
  /\ ~ Locked(s)
  /\ k \notin reversed
  /\ \A t \in Sessions : ~ (call[t].at = "reverse" /\ call[t].key = k)
  /\ Begin(s, [Idle EXCEPT !.at = "reverse", !.key = k, !.seen = request,
                           !.paid = paid - AmountOf[k]])
  /\ UNCHANGED <<request, approvals, edit, ledger>>

\* The negative row is inserted, and the trigger adds up what it can see: the
\* committed rows and its own.
ReverseInsert(s, k) ==
  /\ ~ Locked(s)
  /\ k \in recorded \ reversed
  /\ \A t \in Sessions : ~ (call[t].at = "reverse" /\ call[t].key = k)
  /\ Begin(s, [Idle EXCEPT !.at = "reverse", !.key = k, !.seen = request,
                           !.paid = paid - AmountOf[k]])
  /\ UNCHANGED <<request, approvals, edit, ledger>>

\* The trigger's UPDATE, which waits for its turn and writes what it had added
\* up before, and the commit.
ReverseCommit(s) ==
  LET k == call[s].key IN
  /\ call[s].at = "reverse"
  /\ reversed' = reversed \cup {k}
  /\ paid' = paid - AmountOf[k]
  /\ request' = [request EXCEPT
                   !.payment = PaymentState(call[s].paid, call[s].seen.amount)]
  /\ End(s)
  /\ UNCHANGED <<recorded, approvals, edit>>

-----------------------------------------------------------------------------
(* edits.service.ts                                                        *)

\* amount_before is kept only for a change that names no amount: it is what the
\* approval of that change will name.
AskCheck(s, amount) ==
  /\ ~ request.deleted
  /\ request.state = "APPROVED"
  /\ amount > 0 /\ paid > 0 => amount >= paid
  /\ Begin(s, [Idle EXCEPT !.at = "ask", !.amount = amount,
                           !.before = IF amount = 0 THEN request.amount ELSE 0])
  /\ UNCHANGED <<request, approvals, edit, ledger>>

\* One open change at a time, by a partial unique index.
AskInsert(s, e) ==
  /\ call[s].at = "ask"
  /\ ~ Locked(s)
  /\ edit[e].status = "none"
  /\ \A f \in Edits : edit[f].status \notin OpenEdits
  /\ edit' = [edit EXCEPT ![e] =
       [status |-> IF NeedsManager THEN "MANAGER_PENDING" ELSE "FINANCE_PENDING",
        amount |-> call[s].amount, before |-> call[s].before]]
  /\ End(s)
  /\ UNCHANGED <<request, approvals, ledger>>

CanDecideEdit(p, e) ==
  /\ edit[e].status \in OpenEdits
  /\ p # Requester
  /\ p \in Deciders(StepOf(edit[e].status))

\* The manager's word passes it on, and changes nothing on the request.
PassEdit(p, e) ==
  /\ CanDecideEdit(p, e)
  /\ edit[e].status = "MANAGER_PENDING"
  /\ edit' = [edit EXCEPT ![e].status = "FINANCE_PENDING"]
  /\ UNCHANGED <<request, approvals, ledger, call>>

\* Applied by whoever may decide it next.
ApplyEdit_Bug(p, e) ==
  /\ CanDecideEdit(p, e)
  /\ edit' = [edit EXCEPT ![e].status = "APPLIED"]
  /\ request' = Repriced(request, edit[e].amount)
  /\ UNCHANGED <<approvals, ledger, call>>

\* Finance's word changes the request in the same transaction, whatever has
\* become of the request since.
ApplyEdit(p, e) ==
  /\ CanDecideEdit(p, e)
  /\ edit[e].status = "FINANCE_PENDING"
  /\ \A s \in Sessions : call[s].at \notin {"decide", "record"}
  /\ edit' = [edit EXCEPT ![e].status = "APPLIED"]
  /\ request' = Repriced(request, edit[e].amount)
  /\ trail' = trail \cup {<<"FINANCE", p>>}
  /\ agreed' = IF edit[e].amount = 0 THEN edit[e].before ELSE edit[e].amount
  /\ UNCHANGED <<ledger, call>>

RejectEdit(p, e) ==
  /\ CanDecideEdit(p, e)
  /\ edit' = [edit EXCEPT ![e].status = "REJECTED"]
  /\ UNCHANGED <<request, approvals, ledger, call>>

WithdrawCheck(s, e) ==
  /\ edit[e].status \in OpenEdits
  /\ Begin(s, [Idle EXCEPT !.at = "withdraw", !.edit = e])
  /\ UNCHANGED <<request, approvals, edit, ledger>>

WithdrawWrite(s) ==
  /\ call[s].at = "withdraw"
  /\ edit' = [edit EXCEPT ![call[s].edit].status = "WITHDRAWN"]
  /\ End(s)
  /\ UNCHANGED <<request, approvals, ledger>>

-----------------------------------------------------------------------------

RequestCall(s) ==
  \/ SubmitCheck(s) \/ SubmitWrite(s)
  \/ \E amount \in Amounts : UpdateCheck(s, amount)
  \/ UpdateWrite(s)
  \/ DecideLock(s)
  \/ \E p \in People : Reject(s, p) \/ \E price \in Amounts : Approve(s, p, price)
  \/ RemoveCheck(s) \/ RemoveWrite(s)

PaymentCall(s) ==
  \/ \E k \in Keys : RecordLock(s, k) \/ ReverseInsert(s, k)
  \/ RecordCommit(s) \/ ReverseCommit(s)

EditCall(s) ==
  \/ \E amount \in Amounts : AskCheck(s, amount)
  \/ \E e \in Edits : AskInsert(s, e) \/ WithdrawCheck(s, e)
  \/ WithdrawWrite(s)

EditDecision ==
  \E p \in People, e \in Edits : PassEdit(p, e) \/ ApplyEdit(p, e) \/ RejectEdit(p, e)

Next ==
  \/ EditDecision
  \/ \E s \in Sessions : RequestCall(s) \/ PaymentCall(s) \/ EditCall(s) \/ Abandon(s)

Spec == Init /\ [][Next]_vars

-----------------------------------------------------------------------------
(* What must hold.                                                         *)

\* The type of every variable; only a call that has the request in hand holds
\* a key or an edit.
TypeOK ==
  /\ request \in Request
  /\ trail \subseteq Steps \X People
  /\ agreed \in Amounts
  /\ edit \in [Edits -> Edit]
  /\ recorded \subseteq Keys
  /\ reversed \subseteq recorded
  /\ paid \in Int
  /\ call \in [Sessions -> Call]
  /\ \A s \in Sessions :
       /\ call[s].at \in {"record", "reverse"} <=> call[s].key # NoKey
       /\ call[s].at = "withdraw" <=> call[s].edit # NoEdit

\* What a transaction read FOR UPDATE is still so when it writes: nobody gets
\* between the check of a decision or a payment and its commit, by any of the
\* ways there are to change a request or its ledger.
LockedReadsHold ==
  \A s \in Sessions :
    /\ call[s].at \in {"decide", "record"} => request = call[s].seen
    /\ call[s].at = "record" => paid = call[s].paid

\* A reversal is of a payment that is there and not undone already, and no two
\* calls are undoing the same one.
ReversedOnce ==
  \A s \in Sessions : call[s].at = "reverse" =>
    /\ call[s].key \in recorded \ reversed
    /\ \A t \in Sessions \ {s} : call[t].at = "reverse" => call[t].key # call[s].key

\* What a transaction checked of the row it locked.
LockedReadsAllow ==
  \A s \in Sessions :
    LET c == call[s] IN
    /\ c.at = "decide" => c.seen.state \in OpenStates
    /\ c.at = "record" =>
         /\ c.seen.state = "APPROVED"
         /\ ~ c.seen.deleted
         /\ c.paid + AmountOf[c.key] <= c.seen.amount

\* Whoever has the request FOR UPDATE has it alone.
LockIsExclusive ==
  \A s, t \in Sessions : s # t /\ call[s].at \in {"decide", "record"} =>
    call[t].at \notin {"decide", "record", "reverse"}

SumOf(keys) == FoldFunctionOnSet(+, 0, AmountOf, keys)

\* The model keeps the sum of the ledger as it goes.  It is the sum of what was
\* recorded and not undone, and so it is never negative: no payment is counted
\* twice and none is given back twice, however calls to record and to reverse
\* it are repeated and overlap.
LedgerAddsUp ==
  paid = SumOf(recorded \ reversed)

\* The chain was walked: no step of it is behind a request without somebody
\* entitled to it, other than the requester, having approved it once, whatever
\* resubmissions and rejections there were on the way.  It says nothing of what
\* was approved: that is AmountIsAgreed.
Approved(step) == \E p \in Deciders(step) \ {Requester} : <<step, p>> \in trail

ChainIsWalked ==
  /\ request.state \in {"PURCHASES_PENDING", "FINANCE_PENDING", "APPROVED"} /\ NeedsManager
       => Approved("MANAGER")
  /\ request.state \in {"FINANCE_PENDING", "APPROVED"} /\ request.route = "purchases"
       => Approved("PURCHASES")
  /\ request.state = "APPROVED" \/ recorded # {} => Approved("FINANCE")

\* Only a request for Purchases to price has no amount.
FinanceRouteIsPriced == request.route = "finance" => request.amount > 0

\* Nothing without a price gets past Purchases.
NothingUnpricedIsPayable ==
  request.state \in {"FINANCE_PENDING", "APPROVED"} => request.amount > 0

\* What is approved was approved at the amount it asks for ...
AgreedNow == request.state = "APPROVED" => agreed = request.amount

\* ... unless it is overtaken by a call that read the request before: an update
\* that was checked while the request was open, or a change that names no
\* amount and was asked for under another one.
Overtaken ==
  \/ \E s \in Sessions : call[s].at = "update" /\ call'[s].at = "idle"
  \/ \E e \in Edits :
       /\ edit[e].amount = 0 /\ edit[e].before # request.amount
       /\ edit[e].status # "APPLIED" /\ edit'[e].status = "APPLIED"

\* Finance approves the amount that is in the row when its decision commits,
\* and nothing but an overtaken call makes an approved request ask for another:
\* not a price named by Purchases, a resubmission, a payment, or a change on
\* its way through the chain.
AmountIsAgreed == [][AgreedNow => AgreedNow' \/ Overtaken]_vars

\* A change is applied only from the step of Finance, and so had its manager's
\* word where there is a manager to give it.  Once it is decided it stays as it
\* was decided, unless it is withdrawn by a call that had found it undecided.
EditsFollowTheChain ==
  [][\A e \in Edits :
       /\ edit'[e].status = "APPLIED" /\ edit[e].status # "APPLIED" =>
            edit[e].status = "FINANCE_PENDING"
       /\ edit[e].status \in {"APPLIED", "REJECTED", "WITHDRAWN"} =>
            \/ edit'[e].status = edit[e].status
            \/ /\ edit'[e].status = "WITHDRAWN"
               /\ \E s \in Sessions : /\ call[s].at = "withdraw" /\ call[s].edit = e
                                      /\ call'[s].at = "idle"]_vars

\* Together they are inductive.
IInv ==
  /\ TypeOK
  /\ LockIsExclusive /\ LockedReadsHold /\ LockedReadsAllow
  /\ ReversedOnce
  /\ ChainIsWalked
  /\ FinanceRouteIsPriced /\ NothingUnpricedIsPayable

(* The promise the ledger keeps.                                           *)

Ledger == INSTANCE PaymentLedger WITH
  payable <- request.state = "APPROVED" /\ ~ request.deleted,
  asked <- request.amount

KeepsLedger == Ledger!Spec

-----------------------------------------------------------------------------
(* What the comments say, and the code does not do.                        *)

\* 0033_finance_payments.sql:66: the state is "maintained from the ledger, by
\* trigger, so it cannot drift from the rows it describes".
PaymentStateIsCurrent == request.payment = PaymentState(paid, request.amount)

\* edits.service.ts:79: "Nothing may be reduced below what has already gone out".
NotReducedBelowPaid ==
  [][request'.amount < request.amount => request'.amount >= paid]_vars

\* 0029_finance_core.sql:202: each approval keeps the amount it was given for,
\* "so an approval cannot be quietly re-used for a different number later".
ApprovalIsOfThisAmount == AgreedNow

\* workflow.ts:129: a request may be changed directly "before anybody has
\* approved anything".
NotUpdatedOnceApproved ==
  [][(\E s \in Sessions : call[s].at = "update" /\ call'[s].at = "idle")
       /\ request'.amount # request.amount => trail = {}]_vars

\* edits.service.ts:249: "This change has already been decided", so it is not
\* taken back.
DecidedChangesStay ==
  [][\A e \in Edits : edit[e].status \in {"APPLIED", "REJECTED"} =>
       edit'[e].status = edit[e].status]_vars

\* requests.service.ts:246: "This request has already been submitted", so it
\* is not submitted again.
NotSubmittedTwice ==
  [][(\E s \in Sessions : call[s].at = "submit" /\ call'[s].at = "idle")
       /\ request'.state # request.state => request.state = "DRAFT"]_vars
=============================================================================
