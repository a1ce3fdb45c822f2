--------------------------- MODULE PaymentLedger ---------------------------
(***************************************************************************)
(* What the finance module promises of the money paid against a request:   *)
(* every payment is recorded once, however often it is sent; nothing is    *)
(* paid unless the request is payable at that moment and the total stays   *)
(* within what it asks for; a payment is undone at most once, and undoing  *)
(* it gives back exactly what it was.                                      *)
(*                                                                         *)
(* Who decides, which locks are taken and in what order, and the request   *)
(* being edited, rejected or removed are left to FinanceRequest.           *)
(***************************************************************************)
EXTENDS Integers

CONSTANTS
  Keys,         \* idempotency keys, one for each payment somebody intends
  AmountOf      \* the amount of each

VARIABLES
  payable,      \* may the request be paid?
  asked,        \* the amount it asks for
  recorded,     \* payments in the ledger
  reversed,     \* payments undone by a negative row
  paid          \* the sum of the ledger

vars == <<payable, asked, recorded, reversed, paid>>
ledger == <<recorded, reversed, paid>>

Init ==
  /\ payable \in BOOLEAN
  /\ asked \in Nat
  /\ recorded = {}
  /\ reversed = {}
  /\ paid = 0

Pay(k) ==
  /\ payable
  /\ k \notin recorded
  /\ paid + AmountOf[k] <= asked
  /\ recorded' = recorded \cup {k}
  /\ paid' = paid + AmountOf[k]
  /\ UNCHANGED <<payable, asked, reversed>>

Undo(k) ==
  /\ k \in recorded \ reversed
  /\ reversed' = reversed \cup {k}
  /\ paid' = paid - AmountOf[k]
  /\ UNCHANGED <<payable, asked, recorded>>

\* Whatever becomes of the request, what was paid stays as it is.
Restate ==
  /\ payable' \in BOOLEAN
  /\ asked' \in Nat
  /\ UNCHANGED ledger

Next == Restate \/ \E k \in Keys : Pay(k) \/ Undo(k)

Spec == Init /\ [][Next]_vars
=============================================================================
