------------------------------ MODULE Tickets ------------------------------
(***************************************************************************)
(* The life of a ticket (tk_items) and of what it waits for (tk_links).    *)
(*                                                                         *)
(* Every handler reads the ticket and what the caller may do to it, decides *)
(* on that, and then writes by the id alone: only assign compares again.   *)
(* What the database refuses is the pairing of a status with an assignee.  *)
(* Somebody holds each capability whatever the ticket looks like (at least *)
(* an administrator), so capabilities are reduced to the status they ask   *)
(* for.  Dates, departments and the timeline are left out.                 *)
(***************************************************************************)
EXTENDS Integers

CONSTANTS
  MaxItems,  \* bound: tickets ever raised
  Workers,   \* people a ticket may be given to
  Nobody,    \* no assignee
  Calls,     \* requests in the air at once
  Fast       \* tickets raised with fast_track

ASSUME TicketsAssumption ==
  MaxItems \in Nat \ {0} /\ Nobody \notin Workers /\ Fast \subseteq 1 .. MaxItems

Items == 1 .. MaxItems
NoItem == 0
Picks == Workers \cup Items \cup {Nobody}

VARIABLES
  item,  \* tk_items: status and assignee_id
  link,  \* tk_links by the ticket waited for: who waits, released_at not set
  call,  \* what each request has read and is about to do
  lost   \* tickets whose unblocking died with the process that was at it

vars == <<item, link, call, lost>>

-----------------------------------------------------------------------------
(* Statuses and capabilities *)

Terminal == {"DONE", "REJECTED", "CANCELLED"}
Live == {"ASSIGNED", "IN_PROGRESS", "BLOCKED"}
Parked == {"PLANNING", "ON_HOLD"}
Status == {"NEW", "FOR_REVIEW", "CHANGES_REQUESTED", "APPROVED", "IMPLEMENTATION"}
            \cup Terminal \cup Live \cup Parked

ALLOWED_TRANSITIONS == [
  NEW               |-> {"PLANNING", "ON_HOLD", "ASSIGNED", "IN_PROGRESS", "REJECTED", "CANCELLED"},
  PLANNING          |-> {"ON_HOLD", "ASSIGNED", "IN_PROGRESS", "CANCELLED"},
  ON_HOLD           |-> {"PLANNING", "ASSIGNED", "IN_PROGRESS", "CANCELLED"},
  ASSIGNED          |-> {"IN_PROGRESS", "ON_HOLD", "CANCELLED"},
  IN_PROGRESS       |-> {"BLOCKED", "FOR_REVIEW", "APPROVED", "ON_HOLD", "CANCELLED"},
  BLOCKED           |-> {"IN_PROGRESS", "CANCELLED"},
  FOR_REVIEW        |-> {"APPROVED", "CHANGES_REQUESTED", "CANCELLED"},
  CHANGES_REQUESTED |-> {"IN_PROGRESS", "ON_HOLD", "CANCELLED"},
  APPROVED          |-> {"IMPLEMENTATION", "CANCELLED"},
  IMPLEMENTATION    |-> {"DONE", "FOR_REVIEW", "CANCELLED"},
  DONE              |-> {},
  REJECTED          |-> {},
  CANCELLED         |-> {"PLANNING"}]

CanMove(from, to) == to \in ALLOWED_TRANSITIONS[from]

\* accessFor: in which statuses each operation is offered.
Capability == [
  assign          |-> {"NEW"} \cup Parked \cup Live,
  plan            |-> {"NEW", "ON_HOLD"},
  hold            |-> {"NEW", "PLANNING", "ASSIGNED", "IN_PROGRESS"},
  transfer        |-> {"NEW", "ASSIGNED", "IN_PROGRESS"},
  reject          |-> {"NEW"},
  cancel          |-> Status \ (Terminal \cup {"FOR_REVIEW"}),
  start           |-> Live,
  startImplementation |-> {"APPROVED"},
  resumeAfterChanges |-> {"CHANGES_REQUESTED"},
  returnToReview  |-> {"IMPLEMENTATION"},
  resolve         |-> {"IN_PROGRESS"},
  approveReview   |-> {"FOR_REVIEW"},
  rejectReview    |-> {"FOR_REVIEW"},
  complete        |-> {"IMPLEMENTATION"},
  addDependency   |-> Live,
  removeDependency |-> Live]

Ops == DOMAIN Capability

\* tk_items_assignee_matches_status.
Matches(row) ==
  \/ row.status \in {"NEW"} \cup Parked /\ row.assignee = Nobody
  \/ row.status \notin {"NEW"} \cup Parked \cup Terminal /\ row.assignee # Nobody
  \/ row.status \in Terminal

-----------------------------------------------------------------------------
(* State *)

Unborn == [status |-> "NONE", assignee |-> Nobody]
NoLink == [by |-> NoItem, open |-> FALSE]
NoCall == [pc |-> "idle", op |-> "none", item |-> NoItem, saw |-> Nobody, pick |-> Nobody,
           stale |-> FALSE]

\* Types: tickets, links and requests.
TypeOK ==
  /\ item \in [Items -> [status : Status, assignee : Workers \cup {Nobody}] \cup {Unborn}]
  /\ link \in [Items -> [by : Items \cup {NoItem}, open : BOOLEAN]]
  /\ call \in [Calls -> [pc : {"idle", "write", "parents", "release", "count", "unblock"},
                         op : Ops \cup {"none"}, item : Items \cup {NoItem},
                         saw : Workers \cup {Nobody}, pick : Picks,
                         stale : BOOLEAN]]
  /\ lost \subseteq Items
  /\ \A i \in Items : item[i] # Unborn => Matches(item[i])

\* Nothing reaches ASSIGNED any more, but a ticket may have been left there.
Init ==
  /\ item \in {[i \in Items |-> Unborn]} \cup
       {[i \in Items |-> IF i = 1 THEN [status |-> "ASSIGNED", assignee |-> w] ELSE Unborn] :
          w \in Workers}
  /\ link = [i \in Items |-> NoLink]
  /\ call = [c \in Calls |-> NoCall]
  /\ lost = {}

Born(i) == item[i] # Unborn
IsNext(i) == ~ Born(i) /\ \A j \in 1 .. i - 1 : Born(j)
At(c, pc) == call[c].pc = pc

\* What the caller read of the ticket is no longer so.
Stale(i) == [c \in Calls |-> IF call[c].item = i THEN [call[c] EXCEPT !.stale = TRUE] ELSE call[c]]

Blockers(i) == {j \in Items : link[j].by = i /\ link[j].open}

-----------------------------------------------------------------------------
(* Raising and reading *)

\* create, also when it is put straight onto the person who raised it.
Create(i) ==
  /\ IsNext(i)
  /\ \/ item' = [item EXCEPT ![i].status = "NEW"]
     \/ \E w \in Workers : item' = [item EXCEPT ![i] = [status |-> "IN_PROGRESS", assignee |-> w]]
  /\ UNCHANGED <<link, call, lost>>

\* What an operation checks beside the capability, on the same reading.  The
\* dependency to drop is whatever the caller names: Nobody is a link that is not
\* this ticket's.
Checks(op, i, pick) ==
  CASE op = "assign" -> pick \in Workers \ {item[i].assignee}
    [] op = "start" -> item[i].status = "ASSIGNED" /\ pick = Nobody
    [] op = "resolve" -> Blockers(i) = {} /\ pick = Nobody
    [] op = "removeDependency" -> pick \in Items \cup {Nobody} /\ (pick \in Items => link[pick].by = i)
    [] OTHER -> pick = Nobody

\* loadWithAccess, assertCan, assertMove.
Load(c, op, i, pick) ==
  /\ At(c, "idle") /\ Born(i)
  /\ item[i].status \in Capability[op]
  /\ Checks(op, i, pick)
  /\ call' = [call EXCEPT ![c] = [pc |-> "write", op |-> op, item |-> i, pick |-> pick,
                saw |-> IF op = "assign" THEN item[i].assignee ELSE Nobody, stale |-> FALSE]]
  /\ UNCHANGED <<item, link, lost>>

-----------------------------------------------------------------------------
(* Writing: what each operation does with the row it now finds *)

Does(c, op) == At(c, "write") /\ call[c].op = op

\* As if the database took every row.
Put_Bug(c, row, next) ==
  /\ item' = [item EXCEPT ![call[c].item] = row]
  /\ call' = [Stale(call[c].item) EXCEPT ![c] = next]
  /\ UNCHANGED <<link, lost>>

\* An update by id, which goes through unless the database refuses the row; next
\* is what the request still has to do.
Put(c, row, next) ==
  /\ LET i == call[c].item IN
       IF Matches(row)
         THEN /\ item' = [item EXCEPT ![i] = row]
              /\ call' = [Stale(i) EXCEPT ![c] = next]
         ELSE /\ call' = [call EXCEPT ![c] = NoCall]
              /\ UNCHANGED item
  /\ UNCHANGED <<link, lost>>

Row(c) == item[call[c].item]
Becomes(c, status) == Put(c, [Row(c) EXCEPT !.status = status], NoCall)

\* As if nobody waited for a ticket that is closed.
Close_Bug(c, status) == Becomes(c, status)

\* close: the status, and then whoever waits for this ticket.
Close(c, status) ==
  Put(c, [Row(c) EXCEPT !.status = status], [NoCall EXCEPT !.pc = "parents", !.item = call[c].item])

\* As if the first of two managers did not count.
StillAssignable_Bug(row, saw) == row.status \in Capability.assign

\* Another assignee than the one it read, or another status, and it is told so.
StillAssignable(row, saw) == row.status \in Capability.assign /\ row.assignee = saw

Assign(c) ==
  /\ Does(c, "assign")
  /\ IF StillAssignable(Row(c), call[c].saw)
       THEN Put(c, [status |-> "IN_PROGRESS", assignee |-> call[c].pick], NoCall)
       ELSE /\ call' = [call EXCEPT ![c] = NoCall]
            /\ UNCHANGED <<item, link, lost>>

Plan(c) == Does(c, "plan") /\ Becomes(c, "PLANNING")
Hold(c) == Does(c, "hold") /\ Put(c, [status |-> "ON_HOLD", assignee |-> Nobody], NoCall)
Transfer(c) == Does(c, "transfer") /\ Put(c, [status |-> "NEW", assignee |-> Nobody], NoCall)
Reject(c) == Does(c, "reject") /\ Close(c, "REJECTED")
Cancel(c) == Does(c, "cancel") /\ Close(c, "CANCELLED")
Start(c) == Does(c, "start") /\ Becomes(c, "IN_PROGRESS")
StartImplementation(c) == Does(c, "startImplementation") /\ Becomes(c, "IMPLEMENTATION")
ResumeAfterChanges(c) == Does(c, "resumeAfterChanges") /\ Becomes(c, "IN_PROGRESS")
ReturnToReview(c) == Does(c, "returnToReview") /\ Becomes(c, "FOR_REVIEW")
ApproveReview(c) == Does(c, "approveReview") /\ Becomes(c, "APPROVED")
RejectReview(c) == Does(c, "rejectReview") /\ Becomes(c, "CHANGES_REQUESTED")
Complete(c) == Does(c, "complete") /\ Close(c, "DONE")

\* As if approved work were under way at once.
NextAfterWork_Bug(i) == IF i \in Fast THEN "IMPLEMENTATION" ELSE "FOR_REVIEW"

\* A ticket raised with fast_track has no reviewer.
NextAfterWork(i) == IF i \in Fast THEN "APPROVED" ELSE "FOR_REVIEW"
Resolve(c) == Does(c, "resolve") /\ Becomes(c, NextAfterWork(call[c].item))

\* A ticket for the other department, the link, and the wait, in one transaction.
AddDependency(c, j) ==
  /\ Does(c, "addDependency")
  /\ IsNext(j)
  /\ LET i == call[c].item IN
       /\ link' = [link EXCEPT ![j] = [by |-> i, open |-> TRUE]]
       /\ IF item[i].status \in {"ASSIGNED", "IN_PROGRESS"}
            THEN /\ item' = [item EXCEPT ![j].status = "NEW", ![i].status = "BLOCKED"]
                 /\ call' = [Stale(i) EXCEPT ![c] = NoCall]
            ELSE /\ item' = [item EXCEPT ![j].status = "NEW"]
                 /\ call' = [call EXCEPT ![c] = NoCall]
  /\ UNCHANGED lost

\* The link is dropped if it is there and was not released already; the wait is
\* looked at in any case.
RemoveDependency(c) ==
  /\ Does(c, "removeDependency")
  /\ link' = [j \in Items |-> IF j = call[c].pick THEN [link[j] EXCEPT !.open = FALSE] ELSE link[j]]
  /\ call' = [call EXCEPT ![c] = [NoCall EXCEPT !.pc = "count", !.item = call[c].item]]
  /\ UNCHANGED <<item, lost>>

-----------------------------------------------------------------------------
(* releaseBlockersOn and unblockIfClear, a statement at a time *)

Parents(c) ==
  /\ At(c, "parents")
  /\ call' = [call EXCEPT ![c] =
       IF link[call[c].item].open THEN [@ EXCEPT !.pc = "release"] ELSE NoCall]
  /\ UNCHANGED <<item, link, lost>>

Release(c) ==
  /\ At(c, "release")
  /\ link' = [link EXCEPT ![call[c].item].open = FALSE]
  /\ call' = [call EXCEPT ![c] = [NoCall EXCEPT !.pc = "count", !.item = link[call[c].item].by]]
  /\ UNCHANGED <<item, lost>>

Count(c) ==
  /\ At(c, "count")
  /\ call' = [call EXCEPT ![c] =
       IF Blockers(@.item) # {} THEN NoCall ELSE [@ EXCEPT !.pc = "unblock", !.stale = FALSE]]
  /\ UNCHANGED <<item, link, lost>>

Unblock(c) ==
  /\ At(c, "unblock")
  /\ LET i == call[c].item IN
       IF item[i].status = "BLOCKED"
         THEN /\ item' = [item EXCEPT ![i].status = "IN_PROGRESS"]
              /\ call' = [Stale(i) EXCEPT ![c] = NoCall]
         ELSE /\ call' = [call EXCEPT ![c] = NoCall]
              /\ UNCHANGED item
  /\ UNCHANGED <<link, lost>>

\* The ticket whose wait this request is about to end.
Waiter(c) ==
  CASE call[c].pc \in {"parents", "release"} -> link[call[c].item].by
    [] call[c].pc \in {"count", "unblock"} -> call[c].item
    [] OTHER -> NoItem

\* The process stops, or a statement fails.
Crash(c) ==
  /\ ~ At(c, "idle")
  /\ call' = [call EXCEPT ![c] = NoCall]
  /\ lost' = lost \cup ({Waiter(c)} \ {NoItem})
  /\ UNCHANGED <<item, link>>

-----------------------------------------------------------------------------
Next ==
  \/ \E i \in Items : Create(i)
  \/ \E c \in Calls :
       \/ \E op \in Ops, i \in Items, pick \in Picks : Load(c, op, i, pick)
       \/ \E j \in Items : AddDependency(c, j)
       \/ Assign(c) \/ Plan(c) \/ Hold(c) \/ Transfer(c) \/ Reject(c) \/ Cancel(c) \/ Start(c)
       \/ StartImplementation(c) \/ ResumeAfterChanges(c) \/ ReturnToReview(c) \/ Resolve(c)
       \/ ApproveReview(c) \/ RejectReview(c) \/ Complete(c) \/ RemoveDependency(c)
       \/ Parents(c) \/ Release(c) \/ Count(c) \/ Unblock(c) \/ Crash(c)

Spec == Init /\ [][Next]_vars

-----------------------------------------------------------------------------
(* Properties *)

\* A ticket does not wait for nothing: while it is BLOCKED there is work behind
\* it that is not finished, or somebody on the way to letting it go on, however
\* blockers are added, dropped and finished at the same time.
BlockedIsAwaited ==
  \A i \in Items \ lost : item[i].status = "BLOCKED" =>
    \/ \E j \in Blockers(i) : item[j].status \notin Terminal
    \/ \E c \in Calls : Waiter(c) = i

\* Two operations leave the table: a transfer sends a ticket back to the start,
\* and a dependency may be raised on one that is only ASSIGNED.
OffTheTable == {"transfer", "addDependency"}

\* Capabilities, handlers and the table are three copies of the life cycle, and
\* they agree: whoever acts on what is still so moves the ticket along the table.
FollowsTheTable ==
  [][\A i \in Items : Born(i) /\ item'[i].status # item[i].status =>
       \/ CanMove(item[i].status, item'[i].status)
       \/ \E c \in Calls : call[c].item = i /\ call'[c] # call[c]
                             /\ (call[c].stale \/ call[c].op \in OffTheTable)]_vars

\* Nobody is taken off a ticket for somebody else by a manager who did not know
\* that they had it: of two who assign at once, the second is told.
AssignedKnowingly ==
  [][\A i \in Items :
       /\ item[i].assignee # Nobody
       /\ item'[i].assignee \notin {Nobody, item[i].assignee}
       => \E c \in Calls : call[c].item = i /\ call[c].saw = item[i].assignee]_vars

-----------------------------------------------------------------------------
(* What a comment says, and the code does not keep to. *)

\* visibility.service.ts:35: "Nothing moves from here."
NothingMovesFromTerminal ==
  [][\A i \in Items : item[i].status \in Terminal => item'[i].status = item[i].status]_vars
=============================================================================
