--------------------------- MODULE PostingPromise ---------------------------
(***************************************************************************)
(* What the Zoho queue promises the accountants, with no attempts, leases, *)
(* workers or lost answers in it.                                          *)
(*                                                                         *)
(* A payment is entered in the books once, and once more at most for every *)
(* time an answer about its reference hid what the books hold.  What the   *)
(* hub shows as its record is one that is in the books, under the          *)
(* reference of its request; it never changes, and is withdrawn only while *)
(* it is doubted by the one that showed it.  The books may well hold a     *)
(* record the hub does not know of yet.                                    *)
(***************************************************************************)
EXTENDS Naturals

CONSTANTS
  Payments,
  RequestOf,    \* the request each is against, whose reference a record carries
  Nothing       \* no record

VARIABLES
  books,        \* how many records the books hold for each payment
  misread,      \* how often an answer about each payment hid a record
  shown,        \* the payment whose record each payment is shown to have
  doubted       \* payments shown by somebody who did not learn that it worked

vars == <<books, misread, shown, doubted>>

Init ==
  /\ books = [p \in Payments |-> 0]
  /\ misread = [p \in Payments |-> 0]
  /\ shown = [p \in Payments |-> Nothing]
  /\ doubted = {}

Enter(p) ==
  /\ books[p] <= misread[p]
  /\ books' = [books EXCEPT ![p] = @ + 1]
  /\ UNCHANGED <<misread, shown, doubted>>

\* Only of a reference under which there is something to hide.
Misread(p) ==
  /\ \E q \in Payments : books[q] > 0 /\ RequestOf[q] = RequestOf[p]
  /\ misread' = [misread EXCEPT ![p] = @ + 1]
  /\ UNCHANGED <<books, shown, doubted>>

Show(p, q) ==
  /\ shown[p] = Nothing
  /\ books[q] > 0 /\ RequestOf[q] = RequestOf[p]
  /\ shown' = [shown EXCEPT ![p] = q]
  /\ doubted' = doubted \/ doubted' = doubted \cup {p}
  /\ UNCHANGED <<books, misread>>

Withdraw(p) ==
  /\ p \in doubted
  /\ shown' = [shown EXCEPT ![p] = Nothing]
  /\ doubted' = doubted \ {p}
  /\ UNCHANGED <<books, misread>>

Settle(p) ==
  /\ p \in doubted
  /\ doubted' = doubted \ {p}
  /\ UNCHANGED <<books, misread, shown>>

Next == \E p \in Payments :
  \/ Enter(p) \/ Misread(p) \/ Withdraw(p) \/ Settle(p)
  \/ \E q \in Payments : Show(p, q)

Spec == Init /\ [][Next]_vars
=============================================================================
