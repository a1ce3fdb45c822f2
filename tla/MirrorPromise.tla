---------------------------- MODULE MirrorPromise ----------------------------
(***************************************************************************)
(* What the mirror of the shop's orders promises the dashboards, with no   *)
(* pages, cursors, runs or webhooks in it.                                 *)
(*                                                                         *)
(* An order in the mirror only moves forward, and never past the shop.     *)
(* The horizon is the instant up to which the mirror claims to be whole:   *)
(* nothing that changed before it will be asked for again.  It may move to *)
(* any instant, back or forward, such that every order that has not        *)
(* changed since is in the mirror with its line items.                     *)
(***************************************************************************)
EXTENDS Integers

CONSTANT Orders

VARIABLES
  shopAt,   \* updated_at of each order in the shop
  row,      \* updated_at of its row in the mirror
  lines,    \* updated_at of the version its line items are from
  horizon   \* nothing that changed before it will be asked for again

vars == <<shopAt, row, lines, horizon>>

Init ==
  /\ shopAt \in [Orders -> Int]
  /\ row = shopAt
  /\ lines = shopAt
  /\ horizon \in Int

\* What changes now carries the shop's clock, which the horizon never passes.
Change ==
  /\ shopAt' \in [Orders -> Int]
  /\ \A o \in Orders : shopAt'[o] = shopAt[o] \/ (shopAt'[o] > shopAt[o] /\ shopAt'[o] >= horizon)
  /\ UNCHANGED <<row, lines, horizon>>

\* A webhook writes the row and knows nothing of the line items.
MirrorRow(o) ==
  /\ row' = [row EXCEPT ![o] = row'[o]]
  /\ row'[o] \in row[o] .. shopAt[o]
  /\ UNCHANGED <<shopAt, lines, horizon>>

\* A read of the whole order writes both.
MirrorWhole(o) ==
  /\ row' = [row EXCEPT ![o] = row'[o]]
  /\ row'[o] \in row[o] .. shopAt[o]
  /\ lines' = [lines EXCEPT ![o] = row'[o]]
  /\ UNCHANGED <<shopAt, horizon>>

Advance ==
  /\ horizon' \in Int
  /\ \A o \in Orders : shopAt[o] < horizon' => lines[o] = shopAt[o]
  /\ UNCHANGED <<shopAt, row, lines>>

Next ==
  \/ Change
  \/ \E o \in Orders : MirrorRow(o) \/ MirrorWhole(o)
  \/ Advance

Spec == Init /\ [][Next]_vars
=============================================================================
