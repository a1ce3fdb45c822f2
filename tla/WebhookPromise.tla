--------------------------- MODULE WebhookPromise ---------------------------
(***************************************************************************)
(* What the webhook pipeline promises Shopify and the dashboards, with no  *)
(* workers, leases, attempts or clocks in it.                              *)
(*                                                                         *)
(* A delivery that was accepted stays outstanding until it is retired: as  *)
(* processed or stale, and then for ever, or as dead, and then until a     *)
(* person replays it.  Nothing is retired as done before its payload has   *)
(* been offered to the mirror, and an event is announced at most once, and *)
(* only after it has been recorded as processed.                           *)
(***************************************************************************)
EXTENDS Naturals

CONSTANT Events

VARIABLES
  phase,      \* where each event stands
  applied,    \* events whose payload has been offered to the mirror
  announced   \* events whose effects outside the database were started

vars == <<phase, applied, announced>>

Retired == {"processed", "stale", "dead"}

TypeOK ==
  /\ phase \in [Events -> {"absent", "outstanding"} \cup Retired]
  /\ applied \subseteq Events
  /\ announced \subseteq Events

Init ==
  /\ phase = [e \in Events |-> "absent"]
  /\ applied = {}
  /\ announced = {}

Accept(e) ==
  /\ phase[e] = "absent"
  /\ phase' = [phase EXCEPT ![e] = "outstanding"]
  /\ UNCHANGED <<applied, announced>>

\* A worker that has lost its claim may still be applying: offering the payload
\* is allowed at any time after acceptance, and repeating it changes nothing.
Apply(e) ==
  /\ phase[e] # "absent"
  /\ applied' = applied \cup {e}
  /\ UNCHANGED <<phase, announced>>

Finish(e) ==
  /\ phase[e] = "outstanding"
  /\ e \in applied
  /\ \E p \in {"processed", "stale"} : phase' = [phase EXCEPT ![e] = p]
  /\ UNCHANGED <<applied, announced>>

\* One sweep may give up on several events at once.
GiveUp(S) ==
  /\ S # {}
  /\ \A e \in S : phase[e] = "outstanding"
  /\ phase' = [e \in Events |-> IF e \in S THEN "dead" ELSE phase[e]]
  /\ UNCHANGED <<applied, announced>>

Replay(e) ==
  /\ phase[e] = "dead"
  /\ phase' = [phase EXCEPT ![e] = "outstanding"]
  /\ UNCHANGED <<applied, announced>>

Announce(e) ==
  /\ phase[e] = "processed"
  /\ e \notin announced
  /\ announced' = announced \cup {e}
  /\ UNCHANGED <<phase, applied>>

Retire(e) ==
  \/ Finish(e)
  \/ \E S \in SUBSET Events : e \in S /\ GiveUp(S)

Next ==
  \/ \E e \in Events : Accept(e) \/ Apply(e) \/ Finish(e) \/ Replay(e) \/ Announce(e)
  \/ \E S \in SUBSET Events : GiveUp(S)

Safe == Init /\ [][Next]_vars

\* What is outstanding is retired in the end.
Fair == \A e \in Events : WF_vars(Retire(e))

Spec == Safe /\ Fair
=============================================================================
