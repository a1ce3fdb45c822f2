---------------------------- MODULE TicketsProofs ----------------------------
(***************************************************************************)
(* Proofs about Tickets, for any number of tickets, people and requests.   *)
(***************************************************************************)
EXTENDS Tickets, TLAPS

-----------------------------------------------------------------------------
(* The inductive invariant.                                                *)

Ticket == [status : Status, assignee : Workers \cup {Nobody}]
Call == [pc : {"idle", "write", "parents", "release", "count", "unblock"},
         op : Ops \cup {"none"}, item : Items \cup {NoItem},
         saw : Workers \cup {Nobody}, pick : Picks, stale : BOOLEAN]

\* What a request has in hand is a ticket that exists, with what its operation
\* needs; and until somebody touches that ticket it is as the request read it.
HandFits(c) ==
  /\ call[c].pc # "idle" => call[c].item \in Items /\ Born(call[c].item)
  /\ Does(c, "removeDependency") /\ call[c].pick \in Items =>
       link[call[c].pick].by = call[c].item
  /\ Does(c, "assign") => call[c].pick \in Workers
  /\ At(c, "release") => link[call[c].item].by \in Items
  /\ At(c, "write") => call[c].op \in Ops
  /\ At(c, "write") /\ ~ call[c].stale =>
       /\ item[call[c].item].status \in Capability[call[c].op]
       /\ call[c].op = "start" => item[call[c].item].status = "ASSIGNED"

\* A link joins two tickets that exist.
LinkFits(j) ==
  /\ link[j].open => link[j].by \in Items
  /\ link[j].by \in Items => Born(j) /\ Born(link[j].by)

Settling(c, j) == call[c].pc \in {"parents", "release"} /\ call[c].item = j
Looking(c, i) == call[c].pc \in {"count", "unblock"} /\ call[c].item = i

\* Whoever waits for a ticket that is closed is about to be told.
Settled(j) ==
  link[j].open /\ item[j].status \in Terminal =>
    link[j].by \in lost \/ \E c \in Calls : Settling(c, j)

\* A ticket without blockers is about to be let go on.
Waiting(i) ==
  item[i].status = "BLOCKED" /\ i \notin lost =>
    Blockers(i) # {} \/ \E c \in Calls : Looking(c, i)

IInv ==
  /\ TypeOK
  /\ \A c \in Calls : HandFits(c)
  /\ \A i \in Items : LinkFits(i) /\ Settled(i) /\ Waiting(i)

-----------------------------------------------------------------------------
(* Building blocks.                                                        *)

\* A ticket that exists is well formed, and one that does not is not.
LEMMA BornTicket ==
  ASSUME TypeOK, NEW i \in Items
  PROVE  /\ Born(i) <=> item[i] \in Ticket
         /\ ~ Born(i) => item[i].status = "NONE" /\ item[i].assignee = Nobody
         /\ item[i].status # "NONE" => Born(i)
<1>1. item[i] \in Ticket \cup {Unborn}  BY DEF TypeOK, Ticket
<1>2. Unborn.status = "NONE" /\ Unborn.assignee = Nobody  BY DEF Unborn
<1>3. "NONE" \notin Status  BY DEF Status, Terminal, Live, Parked
<1>4. Unborn \notin Ticket  BY <1>2, <1>3 DEF Ticket
<1> QED  BY <1>1, <1>2, <1>4 DEF Born

\* A request built of typed parts is a request.
LEMMA CallBuilt ==
  ASSUME NEW pc \in {"idle", "write", "parents", "release", "count", "unblock"},
         NEW op \in Ops \cup {"none"}, NEW i \in Items \cup {NoItem},
         NEW saw \in Workers \cup {Nobody}, NEW pick \in Picks, NEW stale \in BOOLEAN
  PROVE  [pc |-> pc, op |-> op, item |-> i, saw |-> saw, pick |-> pick, stale |-> stale] \in Call
  BY DEF Call

\* A request that has only a wait to look at.
Ahead(pc, i) == [NoCall EXCEPT !.pc = pc, !.item = i]

\* What is in it.
LEMMA AheadIs ==
  ASSUME NEW pc, NEW i, NEW x, x = [NoCall EXCEPT !.pc = pc, !.item = i]
  PROVE  x = [pc |-> pc, op |-> "none", item |-> i, saw |-> Nobody, pick |-> Nobody,
              stale |-> FALSE]
  BY DEF NoCall

\* Such a request is well formed.
LEMMA NextCall ==
  ASSUME NEW pc \in {"parents", "count"}, NEW i \in Items
  PROVE  Ahead(pc, i) \in Call /\ Ahead(pc, i).pc = pc /\ Ahead(pc, i).item = i
<1> DEFINE r == [pc |-> pc, op |-> "none", item |-> i, saw |-> Nobody, pick |-> Nobody,
                 stale |-> FALSE]
<1>1. Ahead(pc, i) = r  BY AheadIs DEF Ahead
<1>2. Nobody \in Picks  BY DEF Picks
<1>3. r \in Call  BY <1>2, CallBuilt
<1>4. r.pc = pc /\ r.item = i  OBVIOUS
<1> HIDE DEF r
<1> QED  BY <1>1, <1>3, <1>4

\* A request that is over.
LEMMA NoCallIdle == NoCall \in Call /\ NoCall.pc = "idle"
<1>1. NoCall = [pc |-> "idle", op |-> "none", item |-> NoItem, saw |-> Nobody, pick |-> Nobody,
                stale |-> FALSE]
  BY DEF NoCall
<1>2. NoCall \in Call  BY <1>1, CallBuilt DEF Picks
<1> QED  BY <1>1, <1>2

\* A request another one goes by, which may have been overtaken.
Same(d) ==
  /\ call'[d].pc = call[d].pc /\ call'[d].op = call[d].op /\ call'[d].item = call[d].item
  /\ call'[d].saw = call[d].saw /\ call'[d].pick = call[d].pick
  /\ call[d].pc # "idle" /\ ~ call'[d].stale =>
       ~ call[d].stale /\ item'[call[d].item] = item[call[d].item]

Others(c) == \A d \in Calls \ {c} : Same(d)

\* A request that was overtaken.
LEMMA StaleCall ==
  ASSUME NEW r \in Call, NEW x, x = [r EXCEPT !.stale = TRUE]
  PROVE  x = [pc |-> r.pc, op |-> r.op, item |-> r.item, saw |-> r.saw, pick |-> r.pick,
              stale |-> TRUE]
  BY DEF Call

\* What Stale does to each request.
LEMMA StaleCalls ==
  ASSUME TypeOK, NEW i \in Items, NEW d \in Calls
  PROVE  /\ Stale(i)[d] \in Call
         /\ Stale(i)[d].pc = call[d].pc /\ Stale(i)[d].op = call[d].op
         /\ Stale(i)[d].item = call[d].item
         /\ Stale(i)[d].saw = call[d].saw /\ Stale(i)[d].pick = call[d].pick
         /\ Stale(i)[d].stale <=> (call[d].item = i \/ call[d].stale)
<1>1. call[d] \in Call  BY DEF TypeOK, Call
<1>2. CASE call[d].item = i
  <2> DEFINE x == [call[d] EXCEPT !.stale = TRUE]
  <2>1. Stale(i)[d] = x  BY <1>2 DEF Stale
  <2>2. x = [pc |-> call[d].pc, op |-> call[d].op, item |-> call[d].item,
             saw |-> call[d].saw, pick |-> call[d].pick, stale |-> TRUE]
    BY <1>1, StaleCall
  <2>3. x \in Call  BY <1>1, <2>2 DEF Call
  <2> QED  BY <1>2, <2>1, <2>2, <2>3
<1>3. CASE call[d].item # i
  <2>1. Stale(i)[d] = call[d]  BY <1>3 DEF Stale
  <2> QED  BY <1>1, <1>3, <2>1 DEF Call
<1> QED  BY <1>2, <1>3

\* A step that touches one ticket tells everyone who has read it.
LEMMA Overtaken ==
  ASSUME TypeOK, NEW c \in Calls, NEW i \in Items, NEW x \in Call,
         call' = [Stale(i) EXCEPT ![c] = x],
         \A d \in Calls : HandFits(d),
         \A k \in Items : Born(k) /\ k # i => item'[k] = item[k]
  PROVE  call' \in [Calls -> Call] /\ call'[c] = x /\ Others(c)
<1>1. Stale(i) \in [Calls -> Call]
  <2>1. DOMAIN Stale(i) = Calls /\ \A d \in Calls : Stale(i)[d] \in Call
    BY StaleCalls DEF Stale
  <2>2. Stale(i) = [d \in Calls |-> Stale(i)[d]]  BY DEF Stale
  <2> QED  BY <2>1, <2>2
<1>2. call'[c] = x /\ \A d \in Calls \ {c} : call'[d] = Stale(i)[d]
  BY <1>1
<1>3. call' \in [Calls -> Call]  BY <1>1
<1>4. ASSUME NEW d \in Calls \ {c}  PROVE Same(d)
  <2>1. call[d].pc # "idle" => call[d].item \in Items /\ Born(call[d].item)  BY DEF HandFits
  <2> QED  BY <1>2, <2>1, StaleCalls DEF Same
<1> QED  BY <1>2, <1>3, <1>4 DEF Others

\* A step that leaves every ticket as it is.
LEMMA Untouched ==
  ASSUME TypeOK, NEW c \in Calls, NEW x \in Call, call' = [call EXCEPT ![c] = x],
         \A d \in Calls : HandFits(d),
         \A k \in Items : Born(k) => item'[k] = item[k]
  PROVE  call' \in [Calls -> Call] /\ call'[c] = x /\ Others(c)
<1>1. call \in [Calls -> Call]  BY DEF TypeOK, Call
<1>2. call' \in [Calls -> Call] /\ call'[c] = x /\ \A d \in Calls \ {c} : call'[d] = call[d]
  BY <1>1
<1>3. ASSUME NEW d \in Calls \ {c}  PROVE Same(d)
  <2>1. call[d].pc # "idle" => call[d].item \in Items /\ Born(call[d].item)  BY DEF HandFits
  <2> QED  BY <1>2, <2>1 DEF Same
<1> QED  BY <1>2, <1>3 DEF Others

-----------------------------------------------------------------------------
(* What one step has to keep.                                              *)

Grows == \A i \in Items : Born(i) => Born(i)'
LinksStay == \A j \in Items : link[j].by \in Items => link'[j].by = link[j].by

\* What a request has in hand still fits when another one takes a step.
LEMMA HandKept ==
  ASSUME NEW d \in Calls, HandFits(d), Same(d), Grows, LinksStay
  PROVE  HandFits(d)'
<1>1. /\ call'[d].pc = call[d].pc /\ call'[d].op = call[d].op /\ call'[d].item = call[d].item
      /\ call'[d].pick = call[d].pick
  BY DEF Same
<1>2. call'[d].pc # "idle" => call'[d].item \in Items /\ item'[call'[d].item] # Unborn
  BY <1>1 DEF HandFits, Grows, Born
<1>3. Does(d, "removeDependency")' /\ call'[d].pick \in Items =>
        link'[call'[d].pick].by = call'[d].item
  BY <1>1, <1>2 DEF HandFits, LinksStay, Does, At
<1>4. Does(d, "assign")' => call'[d].pick \in Workers
  BY <1>1 DEF HandFits, Does, At
<1>5. At(d, "release")' => link'[call'[d].item].by \in Items
  BY <1>1, <1>2 DEF HandFits, LinksStay, At
<1>6. At(d, "write")' => call'[d].op \in Ops
  BY <1>1 DEF HandFits, At
<1>7. At(d, "write")' /\ ~ call'[d].stale =>
       /\ item'[call'[d].item].status \in Capability[call'[d].op]
       /\ call'[d].op = "start" => item'[call'[d].item].status = "ASSIGNED"
  BY <1>1 DEF HandFits, Same, At
<1> QED  BY <1>2, <1>3, <1>4, <1>5, <1>6, <1>7 DEF HandFits, Born

\* What the request that takes the step owes to who waits for ticket j.
SettledStep(c, j) ==
  link'[j].open /\ item'[j].status \in Terminal =>
    \/ link'[j].by \in lost'
    \/ call'[c].pc \in {"parents", "release"} /\ call'[c].item = j
    \/ link[j].open /\ item[j].status \in Terminal /\ ~ Settling(c, j)

\* What it owes to ticket i, when that is blocked.
WaitingStep(c, i) ==
  item'[i].status = "BLOCKED" /\ i \notin lost' =>
    \/ Blockers(i)' # {}
    \/ call'[c].pc \in {"count", "unblock"} /\ call'[c].item = i
    \/ item[i].status = "BLOCKED" /\ ~ Looking(c, i) /\ Blockers(i) \subseteq Blockers(i)'

\* A step that pays what it owes keeps the invariant.
LEMMA StepKeeps ==
  ASSUME IInv, NEW c \in Calls, Others(c), Grows, LinksStay, lost \subseteq lost',
         TypeOK', HandFits(c)',
         \A i \in Items : LinkFits(i)' /\ SettledStep(c, i) /\ WaitingStep(c, i)
  PROVE  IInv'
<1>1. ASSUME NEW d \in Calls  PROVE HandFits(d)'
  <2>1. CASE d = c  BY <2>1
  <2>2. CASE d # c  BY <2>2, HandKept DEF Others, IInv
  <2> QED  BY <2>1, <2>2
<1>2. ASSUME NEW j \in Items  PROVE Settled(j)'
  <2> SUFFICES ASSUME link'[j].open, item'[j].status \in Terminal
               PROVE  link'[j].by \in lost' \/ \E d \in Calls : Settling(d, j)'
    BY DEF Settled
  <2>1. CASE link'[j].by \in lost'  BY <2>1
  <2>2. CASE call'[c].pc \in {"parents", "release"} /\ call'[c].item = j
    BY <2>2 DEF Settling
  <2>3. CASE link[j].open /\ item[j].status \in Terminal /\ ~ Settling(c, j)
    <3>1. link'[j].by = link[j].by  BY <2>3 DEF IInv, LinkFits, LinksStay
    <3>2. CASE link[j].by \in lost  BY <3>1, <3>2
    <3>3. CASE \E d \in Calls : Settling(d, j)
      <4>1. PICK d \in Calls : Settling(d, j)  BY <3>3
      <4>2. d # c  BY <2>3, <4>1
      <4>3. Settling(d, j)'  BY <4>1, <4>2 DEF Others, Same, Settling
      <4> QED  BY <4>3
    <3> QED  BY <2>3, <3>2, <3>3 DEF IInv, Settled
  <2> QED  BY <2>1, <2>2, <2>3 DEF SettledStep
<1>3. ASSUME NEW i \in Items  PROVE Waiting(i)'
  <2> SUFFICES ASSUME item'[i].status = "BLOCKED", i \notin lost'
               PROVE  Blockers(i)' # {} \/ \E d \in Calls : Looking(d, i)'
    BY DEF Waiting
  <2>1. CASE Blockers(i)' # {}  BY <2>1
  <2>2. CASE call'[c].pc \in {"count", "unblock"} /\ call'[c].item = i
    BY <2>2 DEF Looking
  <2>3. CASE item[i].status = "BLOCKED" /\ ~ Looking(c, i) /\ Blockers(i) \subseteq Blockers(i)'
    <3>1. CASE Blockers(i) # {}  BY <2>3, <3>1
    <3>2. CASE \E d \in Calls : Looking(d, i)
      <4>1. PICK d \in Calls : Looking(d, i)  BY <3>2
      <4>2. d # c  BY <2>3, <4>1
      <4>3. Looking(d, i)'  BY <4>1, <4>2 DEF Others, Same, Looking
      <4> QED  BY <4>3
    <3> QED  BY <2>3, <3>1, <3>2 DEF IInv, Waiting
  <2> QED  BY <2>1, <2>2, <2>3 DEF WaitingStep
<1> QED  BY <1>1, <1>2, <1>3 DEF IInv

\* While the links stay as they are.
LEMMA LinksUnchanged ==
  ASSUME IInv, Grows, UNCHANGED link
  PROVE  /\ LinksStay
         /\ \A i \in Items : LinkFits(i)' /\ Blockers(i) \subseteq Blockers(i)'
  BY DEF IInv, Grows, LinksStay, LinkFits, Blockers

-----------------------------------------------------------------------------
(* The writes of one ticket.                                               *)

\* A request that is over has nothing in hand.
LEMMA DoneFits ==
  ASSUME NEW c \in Calls, call'[c].pc = "idle"
  PROVE  HandFits(c)'
  BY DEF HandFits, Does, At

\* One that goes on to look at a wait has the ticket it is about.
LEMMA GoesOnFits ==
  ASSUME NEW c \in Calls, NEW i \in Items, call'[c].pc \in {"parents", "count", "unblock"},
         call'[c].item = i, Born(i)'
  PROVE  HandFits(c)'
  BY DEF HandFits, Does, At, Born

\* One ticket replaced.
LEMMA TicketReplaced ==
  ASSUME TypeOK, NEW i \in Items, NEW row \in Ticket, Matches(row),
         item' = [item EXCEPT ![i] = row]
  PROVE  /\ item' \in [Items -> Ticket \cup {Unborn}]
         /\ item'[i] = row
         /\ \A k \in Items \ {i} : item'[k] = item[k]
         /\ \A k \in Items : item'[k] # Unborn => Matches(item'[k])
         /\ Grows
<1>1. item \in [Items -> Ticket \cup {Unborn}]  BY DEF TypeOK, Ticket
<1>2. /\ item' \in [Items -> Ticket \cup {Unborn}]
      /\ item'[i] = row
      /\ \A k \in Items \ {i} : item'[k] = item[k]
  BY <1>1
<1>3. row # Unborn
  <2>1. "NONE" \notin Status  BY DEF Status, Terminal, Live, Parked
  <2> QED  BY <2>1 DEF Ticket, Unborn
<1>4. \A k \in Items : item'[k] # Unborn => Matches(item'[k])
  BY <1>2 DEF TypeOK
<1> QED  BY <1>2, <1>3, <1>4 DEF Grows, Born

\* The types, once the parts are known.
LEMMA TypesAgain ==
  ASSUME item' \in [Items -> Ticket \cup {Unborn}],
         \A k \in Items : item'[k] # Unborn => Matches(item'[k]),
         link' \in [Items -> [by : Items \cup {NoItem}, open : BOOLEAN]],
         call' \in [Calls -> Call], lost' \subseteq Items
  PROVE  TypeOK'
  BY DEF TypeOK, Ticket, Call

\* A request that ends without a write.
LEMMA EndsKeeps ==
  ASSUME IInv, NEW c \in Calls, NEW x \in Call, x.pc = "idle",
         call' = [call EXCEPT ![c] = x], UNCHANGED <<item, link, lost>>,
         \A i \in Items :
           /\ Settling(c, i) /\ link[i].open => link[i].by \in lost
           /\ Looking(c, i) => item[i].status # "BLOCKED" \/ i \in lost \/ Blockers(i) # {}
  PROVE  IInv'
<1> USE DEF IInv
<1>1. call' \in [Calls -> Call] /\ call'[c] = x /\ Others(c)  BY Untouched
<1>2. Grows  BY DEF Grows, Born
<1>3. TypeOK'  BY <1>1 DEF TypeOK, Call
<1>4. HandFits(c)'  BY <1>1, DoneFits
<1>5. ASSUME NEW i \in Items  PROVE LinkFits(i)' /\ SettledStep(c, i) /\ WaitingStep(c, i)
  <2>1. LinkFits(i)' /\ Blockers(i) \subseteq Blockers(i)'  BY <1>2, LinksUnchanged
  <2>2. SettledStep(c, i)  BY DEF SettledStep
  <2>3. WaitingStep(c, i)  BY <2>1 DEF WaitingStep
  <2> QED  BY <2>1, <2>2, <2>3
<1> QED  BY <1>1, <1>2, <1>3, <1>4, <1>5, LinksUnchanged, StepKeeps

\* An update by id that leaves the ticket anything but BLOCKED; a ticket that it
\* closes still has those who wait for it before it.
LEMMA PutKeeps ==
  ASSUME IInv, NEW c \in Calls, At(c, "write"), NEW row \in Ticket, NEW x \in Call,
         row.status # "BLOCKED",
         \/ x.pc = "idle" /\ row.status \notin Terminal
         \/ x.pc = "parents" /\ x.item = call[c].item,
         Put(c, row, x)
  PROVE  IInv'
<1> USE DEF IInv
<1> DEFINE i == call[c].item
<1>1. i \in Items /\ Born(i)  BY DEF HandFits, At
<1>2. \A k \in Items : ~ Settling(c, k) /\ ~ Looking(c, k)  BY DEF At, Settling, Looking
<1>3. CASE ~ Matches(row)
  <2>1. call' = [call EXCEPT ![c] = NoCall] /\ UNCHANGED <<item, link, lost>>
    BY <1>3 DEF Put
  <2> QED  BY <1>2, <2>1, NoCallIdle, EndsKeeps
<1>4. CASE Matches(row)
  <2>1. /\ item' = [item EXCEPT ![i] = row]
        /\ call' = [Stale(i) EXCEPT ![c] = x]
        /\ UNCHANGED <<link, lost>>
    BY <1>4 DEF Put
  <2> HIDE DEF i
  <2>2. /\ item' \in [Items -> Ticket \cup {Unborn}]
        /\ item'[i] = row
        /\ \A k \in Items \ {i} : item'[k] = item[k]
        /\ \A k \in Items : item'[k] # Unborn => Matches(item'[k])
        /\ Grows
    BY <1>1, <1>4, <2>1, TicketReplaced
  <2>3. call' \in [Calls -> Call] /\ call'[c] = x /\ Others(c)
    BY <1>1, <2>1, <2>2, Overtaken
  <2>4. TypeOK'  BY <2>1, <2>2, <2>3, TypesAgain DEF TypeOK
  <2>5. HandFits(c)'
    <3>1. CASE x.pc = "idle"  BY <2>3, <3>1, DoneFits
    <3>2. CASE x.pc = "parents" /\ x.item = i
      BY <1>1, <2>2, <2>3, <3>2, GoesOnFits DEF Grows
    <3> QED  BY <3>1, <3>2 DEF i
  <2>6. ASSUME NEW k \in Items  PROVE LinkFits(k)' /\ SettledStep(c, k) /\ WaitingStep(c, k)
    <3>1. LinkFits(k)' /\ Blockers(k) \subseteq Blockers(k)'
      BY <2>1, <2>2, LinksUnchanged
    <3>2. SettledStep(c, k)
      BY <1>2, <2>1, <2>2, <2>3 DEF SettledStep, i
    <3>3. WaitingStep(c, k)
      BY <1>2, <2>1, <2>2, <3>1 DEF WaitingStep
    <3> QED  BY <3>1, <3>2, <3>3
  <2> QED  BY <2>1, <2>2, <2>3, <2>4, <2>5, <2>6, LinksUnchanged, StepKeeps
<1> QED  BY <1>3, <1>4

\* A request about to write has a ticket.
LEMMA WriterRow ==
  ASSUME IInv, NEW c \in Calls, At(c, "write"), NEW s \in Status
  PROVE  /\ call[c].item \in Items /\ Row(c) \in Ticket
         /\ [Row(c) EXCEPT !.status = s] \in Ticket
         /\ [Row(c) EXCEPT !.status = s].status = s
<1>1. call[c].item \in Items /\ Born(call[c].item)  BY DEF IInv, HandFits, At
<1>2. Row(c) \in Ticket  BY <1>1, BornTicket DEF IInv, Row
<1>3. [Row(c) EXCEPT !.status = s] = [status |-> s, assignee |-> Row(c).assignee]
  BY <1>2 DEF Ticket
<1> QED  BY <1>1, <1>2, <1>3 DEF Ticket

\* A status that is neither closed nor BLOCKED, and nothing else.
LEMMA BecomesKeeps ==
  ASSUME IInv, NEW c \in Calls, At(c, "write"), NEW s \in Status,
         s # "BLOCKED", s \notin Terminal, Becomes(c, s)
  PROVE  IInv'
<1> DEFINE row == [Row(c) EXCEPT !.status = s]
<1>1. row \in Ticket /\ row.status = s  BY WriterRow
<1>2. Put(c, row, NoCall)  BY DEF Becomes
<1> HIDE DEF row
<1> QED  BY <1>1, <1>2, NoCallIdle, PutKeeps

\* A closed ticket.
LEMMA CloseKeeps ==
  ASSUME IInv, NEW c \in Calls, At(c, "write"), NEW s \in Terminal, Close(c, s)
  PROVE  IInv'
<1> DEFINE row == [Row(c) EXCEPT !.status = s]
           x == Ahead("parents", call[c].item)
<1>1. s \in Status /\ s # "BLOCKED"  BY DEF Status, Terminal
<1>2. row \in Ticket /\ row.status = s /\ call[c].item \in Items  BY <1>1, WriterRow
<1>3. x \in Call /\ x.pc = "parents" /\ x.item = call[c].item  BY <1>2, NextCall
<1>4. Put(c, row, x)  BY DEF Close, Ahead
<1> HIDE DEF row, x
<1> QED  BY <1>1, <1>2, <1>3, <1>4, PutKeeps

\* A ticket given to somebody, taken back or parked.
LEMMA ReassignKeeps ==
  ASSUME IInv, NEW c \in Calls, At(c, "write"), NEW w \in Workers \cup {Nobody},
         NEW s \in Status, s # "BLOCKED", s \notin Terminal,
         Put(c, [status |-> s, assignee |-> w], NoCall)
  PROVE  IInv'
<1> DEFINE row == [status |-> s, assignee |-> w]
<1>1. row \in Ticket /\ row.status = s  BY DEF Ticket
<1>2. Put(c, row, NoCall)  OBVIOUS
<1> HIDE DEF row
<1> QED  BY <1>1, <1>2, NoCallIdle, PutKeeps

\* The operations that write the ticket they have read.
Writes(c) ==
  \/ Assign(c) \/ Plan(c) \/ Hold(c) \/ Transfer(c) \/ Reject(c) \/ Cancel(c) \/ Start(c)
  \/ StartImplementation(c) \/ ResumeAfterChanges(c) \/ ReturnToReview(c) \/ Resolve(c)
  \/ ApproveReview(c) \/ RejectReview(c) \/ Complete(c)

\* Each of them keeps the invariant.
LEMMA WritesKeep ==
  ASSUME IInv, NEW c \in Calls, Writes(c)
  PROVE  IInv'
<1>1. At(c, "write")
  BY DEF Writes, Assign, Plan, Hold, Transfer, Reject, Cancel, Start, StartImplementation,
         ResumeAfterChanges, ReturnToReview, Resolve, ApproveReview, RejectReview, Complete, Does
<1>2. CASE Assign(c)
  <2>1. CASE StillAssignable(Row(c), call[c].saw)
    <3>1. call[c].pick \in Workers  BY <1>2 DEF Assign, IInv, HandFits
    <3>2. Put(c, [status |-> "IN_PROGRESS", assignee |-> call[c].pick], NoCall)
      BY <1>2, <2>1 DEF Assign
    <3>3. "IN_PROGRESS" \in Status /\ "IN_PROGRESS" \notin Terminal  BY DEF Status, Terminal, Live
    <3> QED  BY <1>1, <3>1, <3>2, <3>3, ReassignKeeps
  <2>2. CASE ~ StillAssignable(Row(c), call[c].saw)
    <3>1. call' = [call EXCEPT ![c] = NoCall] /\ UNCHANGED <<item, link, lost>>
      BY <1>2, <2>2 DEF Assign
    <3>2. \A i \in Items : ~ Settling(c, i) /\ ~ Looking(c, i)  BY <1>1 DEF At, Settling, Looking
    <3> QED  BY <3>1, <3>2, NoCallIdle, EndsKeeps
  <2> QED  BY <2>1, <2>2
<1>3. CASE Hold(c) \/ Transfer(c)
  <2>1. PICK s \in {"ON_HOLD", "NEW"} : Put(c, [status |-> s, assignee |-> Nobody], NoCall)
    BY <1>3 DEF Hold, Transfer
  <2>2. s \in Status /\ s # "BLOCKED" /\ s \notin Terminal  BY DEF Status, Terminal, Parked
  <2> QED  BY <1>1, <2>1, <2>2, ReassignKeeps
<1>4. CASE Reject(c) \/ Cancel(c) \/ Complete(c)
  <2>1. PICK s \in Terminal : Close(c, s)  BY <1>4 DEF Reject, Cancel, Complete, Terminal
  <2> QED  BY <1>1, <2>1, CloseKeeps
<1>5. CASE \/ Plan(c) \/ Start(c) \/ StartImplementation(c) \/ ResumeAfterChanges(c)
           \/ ReturnToReview(c) \/ Resolve(c) \/ ApproveReview(c) \/ RejectReview(c)
  <2> DEFINE after == {"PLANNING", "IN_PROGRESS", "IMPLEMENTATION", "FOR_REVIEW", "APPROVED",
                       "CHANGES_REQUESTED"}
  <2>1. PICK s \in after : Becomes(c, s)
    BY <1>5 DEF Plan, Start, StartImplementation, ResumeAfterChanges, ReturnToReview, Resolve,
                ApproveReview, RejectReview, NextAfterWork
  <2>2. s \in Status /\ s # "BLOCKED" /\ s \notin Terminal
    BY DEF Status, Terminal, Live, Parked
  <2> QED  BY <1>1, <2>1, <2>2, BecomesKeeps
<1> QED  BY <1>2, <1>3, <1>4, <1>5 DEF Writes

-----------------------------------------------------------------------------
(* Raising, reading, and what a wait comes to.                             *)

\* A new ticket is nobody's blocker.
LEMMA CreateKeeps ==
  ASSUME IInv, NEW i \in Items, Create(i)
  PROVE  IInv'
<1> USE DEF IInv
<1>1. PICK row \in Ticket : /\ item' = [item EXCEPT ![i] = row] /\ Matches(row)
                            /\ row.status \in {"NEW", "IN_PROGRESS"}
  <2>1. ~ Born(i)  BY DEF Create, IsNext
  <2>2. item[i] = Unborn  BY <2>1 DEF Born
  <2>3. [item[i] EXCEPT !.status = "NEW"] = [status |-> "NEW", assignee |-> Nobody]
    BY <2>2 DEF Unborn
  <2>4. {"NEW", "IN_PROGRESS"} \subseteq Status  BY DEF Status, Live
  <2>5. CASE item' = [item EXCEPT ![i].status = "NEW"]
    <3> DEFINE row == [status |-> "NEW", assignee |-> Nobody]
    <3>1. item' = [item EXCEPT ![i] = row]  BY <2>3, <2>5 DEF TypeOK
    <3>2. row \in Ticket /\ Matches(row)  BY <2>4 DEF Ticket, Matches
    <3> QED  BY <3>1, <3>2
  <2>6. CASE \E w \in Workers : item' = [item EXCEPT ![i] = [status |-> "IN_PROGRESS", assignee |-> w]]
    <3>1. PICK w \in Workers : item' = [item EXCEPT ![i] = [status |-> "IN_PROGRESS", assignee |-> w]]
      BY <2>6
    <3> DEFINE row == [status |-> "IN_PROGRESS", assignee |-> w]
    <3>2. w # Nobody  BY TicketsAssumption
    <3>3. row \in Ticket  BY <2>4 DEF Ticket
    <3>4. Matches(row)  BY <3>2 DEF Matches, Parked, Terminal
    <3> QED  BY <3>1, <3>3, <3>4
  <2> QED  BY <2>5, <2>6 DEF Create
<1>2. /\ item' \in [Items -> Ticket \cup {Unborn}]
      /\ item'[i] = row
      /\ \A k \in Items \ {i} : item'[k] = item[k]
      /\ \A k \in Items : item'[k] # Unborn => Matches(item'[k])
      /\ Grows
  BY <1>1, TicketReplaced
<1>3. UNCHANGED <<link, call, lost>>  BY DEF Create
<1>4. ~ Born(i)  BY DEF Create, IsNext
<1>5. TypeOK'  BY <1>2, <1>3, TypesAgain DEF TypeOK, Call
<1>6. ASSUME NEW d \in Calls  PROVE HandFits(d)'
  <2>1. call[d].pc # "idle" => call[d].item # i  BY <1>4 DEF HandFits
  <2>2. Same(d)  BY <1>2, <1>3, <2>1 DEF Same, HandFits
  <2> QED  BY <1>2, <1>3, <2>2, LinksUnchanged, HandKept
<1>7. ASSUME NEW k \in Items  PROVE LinkFits(k)' /\ Settled(k)' /\ Waiting(k)'
  <2>1. LinkFits(k)'  BY <1>2, <1>3, LinksUnchanged
  <2>2. Settled(k)'
    <3>1. row.status \notin Terminal  BY <1>1 DEF Terminal
    <3> QED  BY <1>2, <1>3, <3>1 DEF Settled, Settling
  <2>3. Waiting(k)'
    <3>1. row.status # "BLOCKED"  BY <1>1
    <3>2. Blockers(k)' = Blockers(k)  BY <1>3 DEF Blockers
    <3> QED  BY <1>2, <1>3, <3>1, <3>2 DEF Waiting, Looking
  <2> QED  BY <2>1, <2>2, <2>3
<1> QED  BY <1>5, <1>6, <1>7

\* A request that reads a ticket and means to write it.
LEMMA LoadKeeps ==
  ASSUME IInv, NEW c \in Calls, NEW op \in Ops, NEW i \in Items, NEW pick \in Picks,
         Load(c, op, i, pick)
  PROVE  IInv'
<1> USE DEF IInv
<1> DEFINE saw == IF op = "assign" THEN item[i].assignee ELSE Nobody
           x == [pc |-> "write", op |-> op, item |-> i, saw |-> saw, pick |-> pick,
                 stale |-> FALSE]
<1>1. Born(i) /\ At(c, "idle") /\ UNCHANGED <<item, link, lost>>  BY DEF Load
<1>2. item[i] \in Ticket  BY <1>1, BornTicket
<1>3. saw \in Workers \cup {Nobody}  BY <1>2 DEF Ticket
<1>4. call' = [call EXCEPT ![c] = x]  BY DEF Load
<1> HIDE DEF saw
<1>5. x \in Call  BY <1>3, CallBuilt
<1>6. x.pc = "write" /\ x.op = op /\ x.item = i /\ x.pick = pick  OBVIOUS
<1> HIDE DEF x
<1>7. call' \in [Calls -> Call] /\ call'[c] = x /\ Others(c)  BY <1>1, <1>4, <1>5, Untouched
<1>8. Grows  BY <1>1 DEF Grows, Born
<1>9. TypeOK'  BY <1>1, <1>7 DEF TypeOK, Call
<1>10. HandFits(c)'
  <2>1. item'[i].status \in Capability[op]  BY <1>1 DEF Load
  <2>2. op = "start" => item'[i].status = "ASSIGNED"  BY <1>1 DEF Load, Checks
  <2>3. op = "assign" => pick \in Workers  BY DEF Load, Checks
  <2>4. op = "removeDependency" /\ pick \in Items => link'[pick].by = i
    BY <1>1 DEF Load, Checks
  <2> QED  BY <1>1, <1>6, <1>7, <2>1, <2>2, <2>3, <2>4 DEF HandFits, Does, At, Born
<1>11. ASSUME NEW k \in Items  PROVE LinkFits(k)' /\ SettledStep(c, k) /\ WaitingStep(c, k)
  <2>1. LinkFits(k)' /\ Blockers(k) \subseteq Blockers(k)'  BY <1>1, <1>8, LinksUnchanged
  <2>2. ~ Settling(c, k) /\ ~ Looking(c, k)  BY <1>1 DEF At, Settling, Looking
  <2> QED  BY <1>1, <2>1, <2>2 DEF SettledStep, WaitingStep
<1> QED  BY <1>1, <1>7, <1>8, <1>9, <1>10, <1>11, LinksUnchanged, StepKeeps

\* A link that is no longer open.
LEMMA DroppedLink ==
  ASSUME NEW l \in [by : Items \cup {NoItem}, open : BOOLEAN],
         NEW x, x = [l EXCEPT !.open = FALSE]
  PROVE  x = [by |-> l.by, open |-> FALSE]
  OBVIOUS

\* A blocker that is dropped, and then the wait of its ticket is looked at.
LEMMA DropKeeps ==
  ASSUME IInv, NEW c \in Calls, NEW k \in Items, NEW i \in Items, link[k].by = i,
         \A m \in Items : (Settling(c, m) => m = k) /\ ~ Looking(c, m),
         link' = [link EXCEPT ![k].open = FALSE],
         call' = [call EXCEPT ![c] = Ahead("count", i)], UNCHANGED <<item, lost>>
  PROVE  IInv'
<1> USE DEF IInv
<1> DEFINE x == Ahead("count", i)
<1>1. x \in Call /\ x.pc = "count" /\ x.item = i  BY NextCall
<1> HIDE DEF x
<1>2. call' \in [Calls -> Call] /\ call'[c] = x /\ Others(c)  BY <1>1, Untouched DEF x
<1>3. Grows  BY DEF Grows, Born
<1>4. link \in [Items -> [by : Items \cup {NoItem}, open : BOOLEAN]]  BY DEF TypeOK
<1>5. /\ link'[k] = [link[k] EXCEPT !.open = FALSE]
      /\ \A m \in Items \ {k} : link'[m] = link[m]
  BY <1>4
<1>6. link'[k] = [by |-> i, open |-> FALSE]  BY <1>4, <1>5, DroppedLink
<1>7. link' \in [Items -> [by : Items \cup {NoItem}, open : BOOLEAN]]  BY <1>4, <1>5, <1>6
<1>8. LinksStay  BY <1>5, <1>6 DEF LinksStay
<1>9. TypeOK'  BY <1>2, <1>7 DEF TypeOK, Call
<1>10. Born(i)' /\ Born(i)  BY DEF LinkFits, Born
<1>11. HandFits(c)'  BY <1>1, <1>2, <1>10, GoesOnFits
<1>12. ASSUME NEW m \in Items  PROVE LinkFits(m)' /\ SettledStep(c, m) /\ WaitingStep(c, m)
  <2>1. LinkFits(m)'  BY <1>5, <1>6 DEF LinkFits, Born
  <2>2. SettledStep(c, m)
    <3>1. CASE m = k  BY <1>6, <3>1 DEF SettledStep
    <3>2. CASE m # k  BY <1>5, <3>2 DEF SettledStep
    <3> QED  BY <3>1, <3>2
  <2>3. WaitingStep(c, m)
    <3>1. CASE m = i  BY <1>1, <1>2, <3>1 DEF WaitingStep
    <3>2. CASE m # i
      <4>1. Blockers(m) \subseteq Blockers(m)'  BY <1>5, <3>2 DEF Blockers
      <4> QED  BY <4>1 DEF WaitingStep
    <3> QED  BY <3>1, <3>2
  <2> QED  BY <2>1, <2>2, <2>3
<1> QED  BY <1>2, <1>3, <1>8, <1>9, <1>11, <1>12, StepKeeps

\* A dependency that was not there, and then the wait of the ticket is looked at.
LEMMA NothingDropped ==
  ASSUME IInv, NEW c \in Calls, At(c, "write"), NEW i \in Items, Born(i),
         call' = [call EXCEPT ![c] = Ahead("count", i)], UNCHANGED <<item, link, lost>>
  PROVE  IInv'
<1> USE DEF IInv
<1> DEFINE x == Ahead("count", i)
<1>1. x \in Call /\ x.pc = "count" /\ x.item = i  BY NextCall
<1> HIDE DEF x
<1>2. call' \in [Calls -> Call] /\ call'[c] = x /\ Others(c)  BY <1>1, Untouched DEF x
<1>3. Grows  BY DEF Grows, Born
<1>4. TypeOK'  BY <1>2 DEF TypeOK, Call
<1>5. HandFits(c)'
  <2>1. Born(i)'  BY DEF Born
  <2> QED  BY <1>1, <1>2, <2>1, GoesOnFits
<1>6. ASSUME NEW k \in Items  PROVE LinkFits(k)' /\ SettledStep(c, k) /\ WaitingStep(c, k)
  <2>1. LinkFits(k)' /\ Blockers(k) \subseteq Blockers(k)'  BY <1>3, LinksUnchanged
  <2>2. ~ Settling(c, k) /\ ~ Looking(c, k)  BY DEF At, Settling, Looking
  <2> QED  BY <2>1, <2>2 DEF SettledStep, WaitingStep
<1> QED  BY <1>2, <1>3, <1>4, <1>5, <1>6, LinksUnchanged, StepKeeps

\* The dependency that is removed.
LEMMA RemoveDependencyKeeps ==
  ASSUME IInv, NEW c \in Calls, RemoveDependency(c)
  PROVE  IInv'
<1> DEFINE k == call[c].pick
<1>1. At(c, "write") /\ Does(c, "removeDependency")  BY DEF RemoveDependency, Does
<1>2. call[c].item \in Items /\ Born(call[c].item)  BY <1>1 DEF IInv, HandFits, At
<1>3. \A m \in Items : ~ Settling(c, m) /\ ~ Looking(c, m)  BY <1>1 DEF At, Settling, Looking
<1>4. /\ link' = [j \in Items |-> IF j = k THEN [link[j] EXCEPT !.open = FALSE] ELSE link[j]]
      /\ call' = [call EXCEPT ![c] = Ahead("count", call[c].item)]
      /\ UNCHANGED <<item, lost>>
  BY DEF RemoveDependency, Ahead
<1>5. link \in [Items -> [by : Items \cup {NoItem}, open : BOOLEAN]]  BY DEF IInv, TypeOK
<1>6. CASE k \in Items
  <2>1. link[k].by = call[c].item  BY <1>1, <1>6 DEF IInv, HandFits
  <2>2. link' = [link EXCEPT ![k].open = FALSE]  BY <1>4, <1>5, <1>6
  <2> QED  BY <1>2, <1>3, <1>4, <1>6, <2>1, <2>2, DropKeeps
<1>7. CASE k \notin Items
  <2>1. link' = link  BY <1>4, <1>5, <1>7
  <2> QED  BY <1>1, <1>2, <1>4, <2>1, NothingDropped
<1> QED  BY <1>6, <1>7

\* The blocker that is released because it was closed.
LEMMA ReleaseKeeps ==
  ASSUME IInv, NEW c \in Calls, Release(c)
  PROVE  IInv'
<1>1. At(c, "release")  BY DEF Release
<1>2. call[c].item \in Items /\ link[call[c].item].by \in Items
  BY <1>1 DEF IInv, HandFits, At
<1>3. \A m \in Items : (Settling(c, m) => m = call[c].item) /\ ~ Looking(c, m)
  BY <1>1 DEF At, Settling, Looking
<1>4. /\ link' = [link EXCEPT ![call[c].item].open = FALSE]
      /\ call' = [call EXCEPT ![c] = Ahead("count", link[call[c].item].by)]
      /\ UNCHANGED <<item, lost>>
  BY DEF Release, Ahead
<1> QED  BY <1>2, <1>3, <1>4, DropKeeps

\* A new link to a new ticket, whatever becomes of the one that waits.
LEMMA LinkAdded ==
  ASSUME IInv, NEW c \in Calls, NEW i \in Items, NEW j \in Items,
         At(c, "write"), Born(i), ~ Born(j), i # j, UNCHANGED lost,
         link' = [link EXCEPT ![j] = [by |-> i, open |-> TRUE]],
         item' \in [Items -> Ticket \cup {Unborn}], item'[j].status = "NEW",
         call' \in [Calls -> Call], call'[c] = NoCall, Others(c), Grows,
         \A k \in Items : item'[k] # Unborn => Matches(item'[k]),
         \A k \in Items : item'[k].status \in Terminal =>
                            item'[k] = item[k] /\ item[k].status \in Terminal,
         \A k \in Items \ {i} : item'[k].status = "BLOCKED" => item[k].status = "BLOCKED"
  PROVE  IInv'
<1> USE DEF IInv
<1> DEFINE l == [by |-> i, open |-> TRUE]
<1>1. l \in [by : Items \cup {NoItem}, open : BOOLEAN] /\ l.by = i /\ l.open  OBVIOUS
<1> HIDE DEF l
<1>2. link \in [Items -> [by : Items \cup {NoItem}, open : BOOLEAN]]  BY DEF TypeOK
<1>3. /\ link'[j] = l /\ \A m \in Items \ {j} : link'[m] = link[m]
      /\ link' \in [Items -> [by : Items \cup {NoItem}, open : BOOLEAN]]
  BY <1>1, <1>2 DEF l
<1>4. LinksStay  BY <1>3 DEF LinksStay, LinkFits
<1>5. TypeOK'  BY <1>3, TypesAgain DEF TypeOK
<1>6. HandFits(c)'  BY NoCallIdle, DoneFits
<1>7. ASSUME NEW m \in Items  PROVE LinkFits(m)' /\ SettledStep(c, m) /\ WaitingStep(c, m)
  <2>1. ~ Settling(c, m) /\ ~ Looking(c, m)  BY DEF At, Settling, Looking
  <2>2. Born(j)'
    <3>1. Unborn.status = "NONE"  BY DEF Unborn
    <3> QED  BY <3>1 DEF Born
  <2>3. LinkFits(m)'
    <3>1. CASE m = j  BY <1>1, <1>3, <2>2, <3>1 DEF LinkFits, Grows, Born
    <3>2. CASE m # j  BY <1>3, <3>2 DEF LinkFits, Grows, Born
    <3> QED  BY <3>1, <3>2
  <2>4. SettledStep(c, m)
    <3>1. CASE m = j  BY <3>1 DEF SettledStep, Terminal
    <3>2. CASE m # j  BY <1>3, <2>1, <3>2 DEF SettledStep
    <3> QED  BY <3>1, <3>2
  <2>5. WaitingStep(c, m)
    <3>1. CASE m = i
      <4>1. j \in Blockers(i)'  BY <1>1, <1>3 DEF Blockers
      <4> QED  BY <3>1, <4>1 DEF WaitingStep
    <3>2. CASE m # i
      <4>1. Blockers(m) \subseteq Blockers(m)'  BY <1>3 DEF Blockers, LinkFits
      <4> QED  BY <2>1, <3>2, <4>1 DEF WaitingStep
    <3> QED  BY <3>1, <3>2
  <2> QED  BY <2>3, <2>4, <2>5
<1> QED  BY <1>4, <1>5, <1>6, <1>7, StepKeeps

\* A ticket raised for another department, and the wait for it.
LEMMA AddDependencyKeeps ==
  ASSUME IInv, NEW c \in Calls, NEW j \in Items, AddDependency(c, j)
  PROVE  IInv'
<1> USE DEF IInv
<1> DEFINE i == call[c].item
           waits == item[i].status \in {"ASSIGNED", "IN_PROGRESS"}
           new == [status |-> "NEW", assignee |-> Nobody]
           blocked == [status |-> "BLOCKED", assignee |-> item[i].assignee]
<1>1. At(c, "write") /\ ~ Born(j) /\ UNCHANGED lost  BY DEF AddDependency, Does, IsNext
<1>2. i \in Items /\ Born(i)  BY <1>1 DEF HandFits, At
<1>3. i # j  BY <1>1, <1>2
<1>4. item \in [Items -> Ticket \cup {Unborn}]  BY DEF TypeOK, Ticket
<1>5. item[i] \in Ticket  BY <1>2, BornTicket
<1>6. item[j] = Unborn  BY <1>1 DEF Born
<1>7. [item[j] EXCEPT !.status = "NEW"] = new  BY <1>6 DEF Unborn
<1>8. [item[i] EXCEPT !.status = "BLOCKED"] = blocked  BY <1>5 DEF Ticket
<1>9. /\ new \in Ticket /\ new.status = "NEW" /\ new # Unborn /\ Matches(new)
  BY DEF Ticket, Matches, Status, Unborn
<1>10. waits => /\ blocked \in Ticket /\ blocked.status = "BLOCKED" /\ blocked # Unborn
                /\ Matches(blocked)
  <2> SUFFICES ASSUME waits
               PROVE  /\ blocked \in Ticket /\ blocked.status = "BLOCKED" /\ blocked # Unborn
                      /\ Matches(blocked)
    OBVIOUS
  <2>1. Matches(item[i])  BY <1>2 DEF TypeOK, Born
  <2>2. item[i].assignee # Nobody  BY <2>1 DEF Matches, Parked, Terminal
  <2>3. "BLOCKED" \in Status /\ "BLOCKED" \notin {"NEW"} \cup Parked \cup Terminal
    BY DEF Status, Live, Parked, Terminal
  <2>4. blocked \in Ticket /\ blocked.status = "BLOCKED"  BY <1>5, <2>3 DEF Ticket
  <2>5. blocked # Unborn  BY DEF Unborn
  <2>6. blocked.assignee # Nobody  BY <2>2
  <2> QED  BY <2>3, <2>4, <2>5, <2>6 DEF Matches
<1>11. link' = [link EXCEPT ![j] = [by |-> i, open |-> TRUE]]  BY DEF AddDependency
<1>12. CASE waits
  <2>1. /\ item' = [item EXCEPT ![j].status = "NEW", ![i].status = "BLOCKED"]
        /\ call' = [Stale(i) EXCEPT ![c] = NoCall]
    BY <1>12 DEF AddDependency
  <2> HIDE DEF i, new, blocked, waits
  <2>2. /\ item'[j] = new /\ item'[i] = blocked
        /\ \A k \in Items \ {i, j} : item'[k] = item[k]
        /\ item' \in [Items -> Ticket \cup {Unborn}]
    BY <1>2, <1>3, <1>4, <1>7, <1>8, <1>9, <1>10, <1>12, <2>1
  <2>3. \A k \in Items : Born(k) /\ k # i => item'[k] = item[k]  BY <1>1, <2>2
  <2>4. call' \in [Calls -> Call] /\ call'[c] = NoCall /\ Others(c)
    BY <1>2, <2>1, <2>3, NoCallIdle, Overtaken
  <2>5. Grows  BY <1>9, <1>10, <1>12, <2>2, <2>3 DEF Grows, Born
  <2>6. \A k \in Items : item'[k] # Unborn => Matches(item'[k])
    BY <1>9, <1>10, <1>12, <2>2 DEF TypeOK
  <2>7. \A k \in Items : item'[k].status \in Terminal =>
                           item'[k] = item[k] /\ item[k].status \in Terminal
    BY <1>9, <1>10, <1>12, <2>2 DEF Terminal
  <2>8. \A k \in Items \ {i} : item'[k].status = "BLOCKED" => item[k].status = "BLOCKED"
    BY <1>9, <2>2
  <2>9. item'[j].status = "NEW"  BY <1>9, <2>2
  <2> HIDE DEF IInv
  <2> QED  BY <2>2, <2>4, <2>5, <2>6, <2>7, <2>8, <2>9, <1>1, <1>2, <1>3, <1>11, LinkAdded
<1>13. CASE ~ waits
  <2>1. /\ item' = [item EXCEPT ![j].status = "NEW"]
        /\ call' = [call EXCEPT ![c] = NoCall]
    BY <1>13 DEF AddDependency
  <2> HIDE DEF i, new, blocked, waits
  <2>2. /\ item'[j] = new
        /\ \A k \in Items \ {j} : item'[k] = item[k]
        /\ item' \in [Items -> Ticket \cup {Unborn}]
    BY <1>4, <1>7, <1>9, <2>1
  <2>3. \A k \in Items : Born(k) => item'[k] = item[k]  BY <1>1, <2>2
  <2>4. call' \in [Calls -> Call] /\ call'[c] = NoCall /\ Others(c)
    BY <2>1, <2>3, NoCallIdle, Untouched
  <2>5. Grows  BY <2>3 DEF Grows, Born
  <2>6. \A k \in Items : item'[k] # Unborn => Matches(item'[k])
    BY <1>9, <2>2 DEF TypeOK
  <2>7. \A k \in Items : item'[k].status \in Terminal =>
                           item'[k] = item[k] /\ item[k].status \in Terminal
    BY <1>9, <2>2 DEF Terminal
  <2>8. \A k \in Items \ {i} : item'[k].status = "BLOCKED" => item[k].status = "BLOCKED"
    BY <1>9, <2>2
  <2>9. item'[j].status = "NEW"  BY <1>9, <2>2
  <2> HIDE DEF IInv
  <2> QED  BY <2>2, <2>4, <2>5, <2>6, <2>7, <2>8, <2>9, <1>1, <1>2, <1>3, <1>11, LinkAdded
<1> QED  BY <1>12, <1>13

\* A request that goes on to release the wait for the ticket it has.
LEMMA NextRelease ==
  ASSUME NEW r \in Call, NEW x, x = [r EXCEPT !.pc = "release"]
  PROVE  x \in Call /\ x.pc = "release" /\ x.item = r.item
<1>1. x = [pc |-> "release", op |-> r.op, item |-> r.item, saw |-> r.saw, pick |-> r.pick,
           stale |-> r.stale]
  BY DEF Call
<1>2. x \in Call  BY <1>1, CallBuilt DEF Call
<1> QED  BY <1>1, <1>2

\* A request that goes on to let its ticket go on.
LEMMA NextUnblock ==
  ASSUME NEW r \in Call, NEW x, x = [r EXCEPT !.pc = "unblock", !.stale = FALSE]
  PROVE  x \in Call /\ x.pc = "unblock" /\ x.item = r.item
<1> DEFINE y == [pc |-> "unblock", op |-> r.op, item |-> r.item, saw |-> r.saw,
                 pick |-> r.pick, stale |-> FALSE]
<1>1. x = y  BY DEF Call
<1>2. y \in Call
  <2>1. /\ r.op \in Ops \cup {"none"} /\ r.item \in Items \cup {NoItem}
        /\ r.saw \in Workers \cup {Nobody} /\ r.pick \in Picks
    BY DEF Call
  <2> QED  BY <2>1, CallBuilt
<1>3. y.pc = "unblock" /\ y.item = r.item  OBVIOUS
<1> HIDE DEF y
<1> QED  BY <1>1, <1>2, <1>3

\* A step of a request between its statements, which changes only itself.
LEMMA LookKeeps ==
  ASSUME IInv, NEW c \in Calls, NEW x \in Call, call' = [call EXCEPT ![c] = x],
         UNCHANGED <<item, link, lost>>, x.item = call[c].item,
         \/ x.pc = "release" /\ At(c, "parents") /\ link[call[c].item].open
         \/ x.pc = "unblock" /\ At(c, "count")
  PROVE  IInv'
<1> USE DEF IInv
<1>1. call' \in [Calls -> Call] /\ call'[c] = x /\ Others(c)  BY Untouched
<1>2. Grows  BY DEF Grows, Born
<1>3. TypeOK'  BY <1>1 DEF TypeOK, Call
<1>4. call[c].item \in Items /\ Born(call[c].item)  BY DEF HandFits, At
<1>5. HandFits(c)'  BY <1>1, <1>4 DEF HandFits, LinkFits, Does, At, Born
<1>6. ASSUME NEW m \in Items  PROVE LinkFits(m)' /\ SettledStep(c, m) /\ WaitingStep(c, m)
  <2>1. LinkFits(m)' /\ Blockers(m) \subseteq Blockers(m)'  BY <1>2, LinksUnchanged
  <2>2. SettledStep(c, m)  BY <1>1 DEF SettledStep, Settling, At
  <2>3. WaitingStep(c, m)  BY <1>1, <2>1 DEF WaitingStep, Looking, At
  <2> QED  BY <2>1, <2>2, <2>3
<1> QED  BY <1>1, <1>2, <1>3, <1>5, <1>6, LinksUnchanged, StepKeeps

\* Who waits for the closed ticket.
LEMMA ParentsKeeps ==
  ASSUME IInv, NEW c \in Calls, Parents(c)
  PROVE  IInv'
<1>1. At(c, "parents") /\ UNCHANGED <<item, link, lost>>  BY DEF Parents
<1>2. call[c] \in Call  BY DEF IInv, TypeOK, Call
<1>3. CASE link[call[c].item].open
  <2> DEFINE x == [call[c] EXCEPT !.pc = "release"]
  <2>1. x \in Call /\ x.pc = "release" /\ x.item = call[c].item  BY <1>2, NextRelease
  <2>2. call' = [call EXCEPT ![c] = x]  BY <1>3 DEF Parents
  <2> HIDE DEF x
  <2> QED  BY <1>1, <1>3, <2>1, <2>2, LookKeeps
<1>4. CASE ~ link[call[c].item].open
  <2>1. call' = [call EXCEPT ![c] = NoCall]  BY <1>4 DEF Parents
  <2>2. \A i \in Items : (Settling(c, i) => ~ link[i].open) /\ ~ Looking(c, i)
    BY <1>1, <1>4 DEF At, Settling, Looking
  <2> QED  BY <1>1, <2>1, <2>2, NoCallIdle, EndsKeeps
<1> QED  BY <1>3, <1>4

\* Whether anything is still in the way.
LEMMA CountKeeps ==
  ASSUME IInv, NEW c \in Calls, Count(c)
  PROVE  IInv'
<1>1. At(c, "count") /\ UNCHANGED <<item, link, lost>>  BY DEF Count
<1>2. call[c] \in Call  BY DEF IInv, TypeOK, Call
<1>3. CASE Blockers(call[c].item) = {}
  <2> DEFINE x == [call[c] EXCEPT !.pc = "unblock", !.stale = FALSE]
  <2>1. x \in Call /\ x.pc = "unblock" /\ x.item = call[c].item  BY <1>2, NextUnblock
  <2>2. call' = [call EXCEPT ![c] = x]  BY <1>3 DEF Count
  <2> HIDE DEF x
  <2> QED  BY <1>1, <2>1, <2>2, LookKeeps
<1>4. CASE Blockers(call[c].item) # {}
  <2>1. call' = [call EXCEPT ![c] = NoCall]  BY <1>4 DEF Count
  <2>2. \A i \in Items : ~ Settling(c, i) /\ (Looking(c, i) => Blockers(i) # {})
    BY <1>1, <1>4 DEF At, Settling, Looking
  <2> QED  BY <1>1, <2>1, <2>2, NoCallIdle, EndsKeeps
<1> QED  BY <1>3, <1>4

\* The ticket goes on.
LEMMA UnblockKeeps ==
  ASSUME IInv, NEW c \in Calls, Unblock(c)
  PROVE  IInv'
<1> USE DEF IInv
<1> DEFINE i == call[c].item
           row == [item[i] EXCEPT !.status = "IN_PROGRESS"]
<1>1. At(c, "unblock") /\ UNCHANGED <<link, lost>>  BY DEF Unblock
<1>2. i \in Items /\ Born(i)  BY <1>1 DEF HandFits, At
<1>3. CASE item[i].status = "BLOCKED"
  <2>1. item[i] \in Ticket  BY <1>2, BornTicket
  <2>2. row = [status |-> "IN_PROGRESS", assignee |-> item[i].assignee]  BY <2>1 DEF Ticket
  <2>3. "IN_PROGRESS" \in Status  BY DEF Status, Live
  <2>4. Matches(item[i])  BY <1>2 DEF TypeOK, Born
  <2>5. item[i].assignee # Nobody  BY <1>3, <2>4 DEF Matches, Parked, Terminal
  <2>6. row \in Ticket /\ row.status = "IN_PROGRESS" /\ row.assignee # Nobody
    BY <2>1, <2>2, <2>3, <2>5 DEF Ticket
  <2>7. /\ item' = [item EXCEPT ![i] = row]
        /\ call' = [Stale(i) EXCEPT ![c] = NoCall]
    BY <1>2, <1>3 DEF Unblock, TypeOK
  <2> HIDE DEF i, row
  <2>8. Matches(row)  BY <2>6 DEF Matches, Parked, Terminal
  <2>9. /\ item' \in [Items -> Ticket \cup {Unborn}]
        /\ item'[i] = row
        /\ \A k \in Items \ {i} : item'[k] = item[k]
        /\ \A k \in Items : item'[k] # Unborn => Matches(item'[k])
        /\ Grows
    BY <1>2, <2>6, <2>7, <2>8, TicketReplaced
  <2>10. call' \in [Calls -> Call] /\ call'[c] = NoCall /\ Others(c)
    BY <1>2, <2>7, <2>9, NoCallIdle, Overtaken
  <2>11. TypeOK'  BY <1>1, <2>9, <2>10, TypesAgain DEF TypeOK
  <2>12. HandFits(c)'  BY <2>10, NoCallIdle, DoneFits
  <2>13. ASSUME NEW m \in Items  PROVE LinkFits(m)' /\ SettledStep(c, m) /\ WaitingStep(c, m)
    <3>1. LinkFits(m)' /\ Blockers(m) \subseteq Blockers(m)'  BY <1>1, <2>9, LinksUnchanged
    <3>2. SettledStep(c, m)
      BY <1>1, <2>6, <2>9 DEF SettledStep, Settling, At, Terminal
    <3>3. WaitingStep(c, m)
      BY <1>1, <2>6, <2>9, <3>1 DEF WaitingStep, Looking, i
    <3> QED  BY <3>1, <3>2, <3>3
  <2> QED  BY <1>1, <2>9, <2>10, <2>11, <2>12, <2>13, LinksUnchanged, StepKeeps
<1>4. CASE item[i].status # "BLOCKED"
  <2>1. call' = [call EXCEPT ![c] = NoCall] /\ UNCHANGED item  BY <1>4 DEF Unblock
  <2>2. \A k \in Items : ~ Settling(c, k) /\ (Looking(c, k) => item[k].status # "BLOCKED")
    BY <1>1, <1>4 DEF At, Settling, Looking
  <2> QED  BY <1>1, <2>1, <2>2, NoCallIdle, EndsKeeps
<1> QED  BY <1>3, <1>4

\* A request that dies takes the wait it was about with it, and no other.
LEMMA CrashKeeps ==
  ASSUME IInv, NEW c \in Calls, Crash(c)
  PROVE  IInv'
<1> USE DEF IInv
<1>1. /\ call' = [call EXCEPT ![c] = NoCall] /\ UNCHANGED <<item, link>>
      /\ lost' = lost \cup ({Waiter(c)} \ {NoItem})
      /\ call[c].pc # "idle"
  BY DEF Crash, At
<1>2. call' \in [Calls -> Call] /\ call'[c] = NoCall /\ Others(c)
  BY <1>1, NoCallIdle, Untouched
<1>3. Grows  BY <1>1 DEF Grows, Born
<1>4. Waiter(c) \in Items \cup {NoItem}
  <2>1. call[c].item \in Items  BY <1>1 DEF HandFits
  <2>2. link[call[c].item].by \in Items \cup {NoItem}  BY <2>1 DEF TypeOK
  <2> QED  BY <2>1, <2>2 DEF Waiter
<1>5. TypeOK'  BY <1>1, <1>2, <1>4 DEF TypeOK, Call
<1>6. HandFits(c)'  BY <1>2, NoCallIdle, DoneFits
<1>7. \A k \in Items : k # NoItem  BY DEF Items, NoItem
<1>8. ASSUME NEW m \in Items  PROVE LinkFits(m)' /\ SettledStep(c, m) /\ WaitingStep(c, m)
  <2>1. LinkFits(m)' /\ Blockers(m) \subseteq Blockers(m)'  BY <1>1, <1>3, LinksUnchanged
  <2>2. SettledStep(c, m)
    <3>1. Settling(c, m) => Waiter(c) = link[m].by  BY DEF Settling, Waiter
    <3>2. link[m].open => link[m].by \in Items  BY DEF LinkFits
    <3> QED  BY <1>1, <1>7, <3>1, <3>2 DEF SettledStep
  <2>3. WaitingStep(c, m)
    <3>1. Looking(c, m) => Waiter(c) = m  BY DEF Looking, Waiter
    <3> QED  BY <1>1, <1>7, <2>1, <3>1 DEF WaitingStep
  <2> QED  BY <2>1, <2>2, <2>3
<1> QED  BY <1>1, <1>2, <1>3, <1>5, <1>6, <1>8, LinksUnchanged, StepKeeps

-----------------------------------------------------------------------------
(* The invariant of every behaviour.                                       *)

\* At first nobody waits and nobody has anything in hand.
LEMMA Beginning == Init => IInv
<1> SUFFICES ASSUME Init PROVE IInv  OBVIOUS
<1>1. /\ link = [i \in Items |-> NoLink] /\ call = [c \in Calls |-> NoCall] /\ lost = {}
  BY DEF Init
<1>2. NoLink \in [by : Items \cup {NoItem}, open : BOOLEAN] /\ ~ NoLink.open /\ NoLink.by \notin Items
  BY DEF NoLink, NoItem, Items
<1>3. /\ item \in [Items -> Ticket \cup {Unborn}]
      /\ \A i \in Items : item[i] # Unborn => Matches(item[i])
      /\ \A i \in Items : item[i].status # "BLOCKED"
  <2>1. Unborn.status = "NONE"  BY DEF Unborn
  <2>2. CASE item = [i \in Items |-> Unborn]  BY <2>1, <2>2
  <2>3. ASSUME NEW w \in Workers,
               item = [i \in Items |-> IF i = 1 THEN [status |-> "ASSIGNED", assignee |-> w]
                                       ELSE Unborn]
        PROVE  /\ item \in [Items -> Ticket \cup {Unborn}]
               /\ \A i \in Items : item[i] # Unborn => Matches(item[i])
               /\ \A i \in Items : item[i].status # "BLOCKED"
    <3> DEFINE row == [status |-> "ASSIGNED", assignee |-> w]
    <3>1. w # Nobody  BY TicketsAssumption
    <3>2. "ASSIGNED" \in Status /\ "ASSIGNED" \notin {"NEW"} \cup Parked \cup Terminal
      BY DEF Status, Live, Parked, Terminal
    <3>3. row \in Ticket /\ row.status = "ASSIGNED" /\ Matches(row)
      BY <3>1, <3>2 DEF Ticket, Matches
    <3>4. item = [i \in Items |-> IF i = 1 THEN row ELSE Unborn]  BY <2>3
    <3> HIDE DEF row
    <3> QED  BY <2>1, <3>3, <3>4
  <2> QED  BY <2>2, <2>3 DEF Init
<1>4. TypeOK  BY <1>1, <1>2, <1>3, NoCallIdle DEF TypeOK, Ticket, Call
<1>5. \A c \in Calls : HandFits(c)  BY <1>1, NoCallIdle DEF HandFits, Does, At
<1>6. \A i \in Items : LinkFits(i) /\ Settled(i) /\ Waiting(i)
  BY <1>1, <1>2, <1>3 DEF LinkFits, Settled, Waiting
<1> QED  BY <1>4, <1>5, <1>6 DEF IInv

\* What does not touch a ticket.
Looks(c) == RemoveDependency(c) \/ Parents(c) \/ Release(c) \/ Count(c) \/ Crash(c)

\* The steps, by what they touch.
LEMMA Steps ==
  ASSUME [Next]_vars
  PROVE  \/ \E i \in Items : Create(i)
         \/ \E c \in Calls, op \in Ops, i \in Items, pick \in Picks : Load(c, op, i, pick)
         \/ \E c \in Calls, j \in Items : AddDependency(c, j)
         \/ \E c \in Calls : Writes(c) \/ Looks(c) \/ Unblock(c)
         \/ UNCHANGED vars
  BY DEF Next, Writes, Looks

\* Every step keeps the invariant.
LEMMA Keeps == IInv /\ [Next]_vars => IInv'
<1> SUFFICES ASSUME IInv, [Next]_vars PROVE IInv'  OBVIOUS
<1>1. ASSUME NEW c \in Calls, Looks(c)  PROVE IInv'
  BY <1>1, RemoveDependencyKeeps, ParentsKeeps, ReleaseKeeps, CountKeeps, CrashKeeps DEF Looks
<1>2. ASSUME UNCHANGED vars  PROVE IInv'
  <2>1. TypeOK'  BY <1>2 DEF vars, IInv, TypeOK, Matches
  <2>2. \A c \in Calls : HandFits(c)'
    BY <1>2 DEF vars, IInv, HandFits, Does, At, Born
  <2>3. \A i \in Items : LinkFits(i)' /\ Settled(i)' /\ Waiting(i)'
    BY <1>2 DEF vars, IInv, LinkFits, Settled, Waiting, Settling, Looking, Blockers, Born
  <2> QED  BY <2>1, <2>2, <2>3 DEF IInv
<1> QED
  BY <1>1, <1>2, Steps, CreateKeeps, LoadKeeps, AddDependencyKeeps, WritesKeep, UnblockKeeps

\* The invariant holds for good.
LEMMA Invariance == Spec => []IInv
  BY Beginning, Keeps, PTL DEF Spec

-----------------------------------------------------------------------------
(* What a step does to one ticket.                                         *)

\* A write changes the ticket its request has in hand, and no other.
LEMMA PutChanges ==
  ASSUME IInv, NEW c \in Calls, At(c, "write"), NEW row, NEW x \in Call, x.pc # "write",
         Put(c, row, x), NEW i \in Items, item'[i] # item[i]
  PROVE  /\ i = call[c].item /\ item'[i] = row /\ Row(c) = item[i]
         /\ call'[c] # call[c] /\ call[c].op \in Ops
         /\ ~ call[c].stale => /\ item[i].status \in Capability[call[c].op]
                               /\ call[c].op = "start" => item[i].status = "ASSIGNED"
<1> USE DEF IInv
<1>1. Matches(row)  BY DEF Put
<1>2. call[c].item \in Items  BY DEF HandFits, At
<1>3. /\ item' = [item EXCEPT ![call[c].item] = row]
      /\ call' = [Stale(call[c].item) EXCEPT ![c] = x]
  BY <1>1 DEF Put
<1>4. i = call[c].item /\ item'[i] = row  BY <1>2, <1>3 DEF TypeOK
<1>5. call'[c] = x  BY <1>3 DEF Stale
<1>6. call'[c] # call[c]  BY <1>5 DEF At
<1> QED  BY <1>4, <1>6 DEF HandFits, At, Row

\* Every operation that writes moves what is still so along the table.
LEMMA WritesFollow ==
  ASSUME IInv, NEW c \in Calls, Writes(c), NEW i \in Items, item'[i].status # item[i].status
  PROVE  /\ call[c].item = i /\ call'[c] # call[c]
         /\ \/ CanMove(item[i].status, item'[i].status)
            \/ call[c].stale \/ call[c].op \in OffTheTable
<1>1. At(c, "write")
  BY DEF Writes, Assign, Plan, Hold, Transfer, Reject, Cancel, Start, StartImplementation,
         ResumeAfterChanges, ReturnToReview, Resolve, ApproveReview, RejectReview, Complete, Does
<1> DEFINE op == call[c].op
           old == item[i].status
           new == item'[i].status
           Known(s) == /\ call[c].item = i /\ call'[c] # call[c] /\ new = s
                       /\ ~ call[c].stale => /\ old \in Capability[op]
                                             /\ op = "start" => old = "ASSIGNED"
<1>2. ASSUME NEW s \in Status, Becomes(c, s)  PROVE Known(s)
  <2> DEFINE row == [Row(c) EXCEPT !.status = s]
  <2>1. row.status = s  BY <1>1, WriterRow
  <2>2. Put(c, row, NoCall)  BY <1>2 DEF Becomes
  <2> HIDE DEF row
  <2> QED  BY <1>1, <2>1, <2>2, NoCallIdle, PutChanges
<1>3. ASSUME NEW s \in Status, Close(c, s)  PROVE Known(s)
  <2> DEFINE row == [Row(c) EXCEPT !.status = s]
             x == Ahead("parents", call[c].item)
  <2>1. row.status = s /\ call[c].item \in Items  BY <1>1, WriterRow
  <2>2. Put(c, row, x)  BY <1>3 DEF Close, Ahead
  <2>3. x \in Call /\ x.pc = "parents"  BY <2>1, NextCall
  <2> HIDE DEF row, x
  <2> QED  BY <1>1, <2>1, <2>2, <2>3, PutChanges
<1>4. ASSUME NEW s \in Status, NEW w \in Workers \cup {Nobody},
             Put(c, [status |-> s, assignee |-> w], NoCall)
      PROVE  Known(s) /\ Row(c) = item[i]
  <2> DEFINE row == [status |-> s, assignee |-> w]
  <2>1. row.status = s /\ Put(c, row, NoCall)  BY <1>4
  <2> HIDE DEF row
  <2> QED  BY <1>1, <2>1, NoCallIdle, PutChanges
<1> HIDE DEF Known
<1>s. Status = {"NEW", "FOR_REVIEW", "CHANGES_REQUESTED", "APPROVED", "IMPLEMENTATION",
                "DONE", "REJECTED", "CANCELLED", "ASSIGNED", "IN_PROGRESS", "BLOCKED",
                "PLANNING", "ON_HOLD"}
  BY DEF Status, Terminal, Live, Parked
<1>5. CASE Assign(c)
  <2>1. StillAssignable(Row(c), call[c].saw)  BY <1>5 DEF Assign
  <2>2. call[c].pick \in Workers  BY <1>5 DEF Assign, IInv, HandFits
  <2>3. Put(c, [status |-> "IN_PROGRESS", assignee |-> call[c].pick], NoCall)
    BY <1>5, <2>1 DEF Assign
  <2>4. Known("IN_PROGRESS") /\ Row(c) = item[i]  BY <1>4, <1>s, <2>2, <2>3
  <2>5. old \in {"NEW", "PLANNING", "ON_HOLD", "ASSIGNED", "IN_PROGRESS", "BLOCKED"}
    BY <2>1, <2>4 DEF StillAssignable, Capability, Parked, Live
  <2>6. CanMove(old, "IN_PROGRESS")
    BY <2>4, <2>5 DEF CanMove, ALLOWED_TRANSITIONS, Known
  <2> QED  BY <2>4, <2>6 DEF Known
<1>6. CASE Hold(c)
  <2>1. Known("ON_HOLD") /\ op = "hold"  BY <1>4, <1>6, <1>s DEF Hold, Does
  <2>2. old \in Capability.hold => CanMove(old, "ON_HOLD")
    BY DEF Capability, CanMove, ALLOWED_TRANSITIONS
  <2> QED  BY <2>1, <2>2 DEF Known
<1>7. CASE Transfer(c)
  <2>1. Known("NEW") /\ op = "transfer"  BY <1>4, <1>7, <1>s DEF Transfer, Does
  <2> QED  BY <2>1 DEF Known, OffTheTable
<1>8. CASE Reject(c)
  <2>1. Known("REJECTED") /\ op = "reject"  BY <1>3, <1>8, <1>s DEF Reject, Does
  <2>2. old \in Capability.reject => CanMove(old, "REJECTED")
    BY DEF Capability, CanMove, ALLOWED_TRANSITIONS
  <2> QED  BY <2>1, <2>2 DEF Known
<1>9. CASE Cancel(c)
  <2>1. Known("CANCELLED") /\ op = "cancel"  BY <1>3, <1>9, <1>s DEF Cancel, Does
  <2>2. old \in Capability.cancel => CanMove(old, "CANCELLED")
    BY <1>s DEF Capability, CanMove, ALLOWED_TRANSITIONS, Terminal
  <2> QED  BY <2>1, <2>2 DEF Known
<1>10. CASE Complete(c)
  <2>1. Known("DONE") /\ op = "complete"  BY <1>3, <1>10, <1>s DEF Complete, Does
  <2>2. old \in Capability.complete => CanMove(old, "DONE")
    BY DEF Capability, CanMove, ALLOWED_TRANSITIONS
  <2> QED  BY <2>1, <2>2 DEF Known
<1>11. CASE Plan(c)
  <2>1. Known("PLANNING") /\ op = "plan"  BY <1>2, <1>11, <1>s DEF Plan, Does
  <2>2. old \in Capability.plan => CanMove(old, "PLANNING")
    BY DEF Capability, CanMove, ALLOWED_TRANSITIONS
  <2> QED  BY <2>1, <2>2 DEF Known
<1>12. CASE Start(c)
  <2>1. Known("IN_PROGRESS") /\ op = "start"  BY <1>2, <1>12, <1>s DEF Start, Does
  <2>2. CanMove("ASSIGNED", "IN_PROGRESS")  BY DEF CanMove, ALLOWED_TRANSITIONS
  <2> QED  BY <2>1, <2>2 DEF Known
<1>13. CASE StartImplementation(c)
  <2>1. Known("IMPLEMENTATION") /\ op = "startImplementation"
    BY <1>2, <1>13, <1>s DEF StartImplementation, Does
  <2>2. old \in Capability.startImplementation => CanMove(old, "IMPLEMENTATION")
    BY DEF Capability, CanMove, ALLOWED_TRANSITIONS
  <2> QED  BY <2>1, <2>2 DEF Known
<1>14. CASE ResumeAfterChanges(c)
  <2>1. Known("IN_PROGRESS") /\ op = "resumeAfterChanges"
    BY <1>2, <1>14, <1>s DEF ResumeAfterChanges, Does
  <2>2. old \in Capability.resumeAfterChanges => CanMove(old, "IN_PROGRESS")
    BY DEF Capability, CanMove, ALLOWED_TRANSITIONS
  <2> QED  BY <2>1, <2>2 DEF Known
<1>15. CASE ReturnToReview(c)
  <2>1. Known("FOR_REVIEW") /\ op = "returnToReview"
    BY <1>2, <1>15, <1>s DEF ReturnToReview, Does
  <2>2. old \in Capability.returnToReview => CanMove(old, "FOR_REVIEW")
    BY DEF Capability, CanMove, ALLOWED_TRANSITIONS
  <2> QED  BY <2>1, <2>2 DEF Known
<1>16. CASE Resolve(c)
  <2>1. PICK s \in {"APPROVED", "FOR_REVIEW"} : Becomes(c, s)
    BY <1>16 DEF Resolve, NextAfterWork
  <2>2. Known(s) /\ op = "resolve"  BY <1>2, <1>16, <1>s, <2>1 DEF Resolve, Does
  <2>3. old \in Capability.resolve => CanMove(old, s)
    BY DEF Capability, CanMove, ALLOWED_TRANSITIONS
  <2> QED  BY <2>2, <2>3 DEF Known
<1>17. CASE ApproveReview(c)
  <2>1. Known("APPROVED") /\ op = "approveReview"
    BY <1>2, <1>17, <1>s DEF ApproveReview, Does
  <2>2. old \in Capability.approveReview => CanMove(old, "APPROVED")
    BY DEF Capability, CanMove, ALLOWED_TRANSITIONS
  <2> QED  BY <2>1, <2>2 DEF Known
<1>18. CASE RejectReview(c)
  <2>1. Known("CHANGES_REQUESTED") /\ op = "rejectReview"
    BY <1>2, <1>18, <1>s DEF RejectReview, Does
  <2>2. old \in Capability.rejectReview => CanMove(old, "CHANGES_REQUESTED")
    BY DEF Capability, CanMove, ALLOWED_TRANSITIONS
  <2> QED  BY <2>1, <2>2 DEF Known
<1> QED
  BY <1>5, <1>6, <1>7, <1>8, <1>9, <1>10, <1>11, <1>12, <1>13, <1>14, <1>15, <1>16, <1>17, <1>18
  DEF Writes

\* The operations that write a ticket take nobody off it unknowingly.
LEMMA WritesKnowingly ==
  ASSUME IInv, NEW c \in Calls, Writes(c), NEW i \in Items, item[i].assignee # Nobody,
         item'[i].assignee \notin {Nobody, item[i].assignee}
  PROVE  call[c].item = i /\ call[c].saw = item[i].assignee
<1>1. At(c, "write")
  BY DEF Writes, Assign, Plan, Hold, Transfer, Reject, Cancel, Start, StartImplementation,
         ResumeAfterChanges, ReturnToReview, Resolve, ApproveReview, RejectReview, Complete, Does
<1>2. item'[i] # item[i]  OBVIOUS
<1>3. ASSUME NEW s \in Status, NEW x \in Call, x.pc # "write",
             Put(c, [Row(c) EXCEPT !.status = s], x)
      PROVE  FALSE
  <2> DEFINE row == [Row(c) EXCEPT !.status = s]
  <2>1. Row(c) \in Ticket  BY <1>1, WriterRow
  <2>2. row.assignee = Row(c).assignee  BY <2>1 DEF Ticket
  <2>3. Put(c, row, x)  BY <1>3
  <2> HIDE DEF row
  <2>4. item'[i] = row /\ Row(c) = item[i]  BY <1>1, <1>2, <1>3, <2>3, PutChanges
  <2> QED  BY <2>2, <2>4
<1>4. ASSUME NEW s \in Status, Becomes(c, s)  PROVE FALSE
  BY <1>3, <1>4, NoCallIdle DEF Becomes
<1>5. ASSUME NEW s \in Status, Close(c, s)  PROVE FALSE
  <2> DEFINE x == Ahead("parents", call[c].item)
  <2>1. x \in Call /\ x.pc = "parents"  BY <1>1, WriterRow, <1>5, NextCall
  <2>2. Put(c, [Row(c) EXCEPT !.status = s], x)  BY <1>5 DEF Close, Ahead
  <2> HIDE DEF x
  <2> QED  BY <1>3, <2>1, <2>2
<1>6. ASSUME NEW s \in Status, Put(c, [status |-> s, assignee |-> Nobody], NoCall)  PROVE FALSE
  <2> DEFINE row == [status |-> s, assignee |-> Nobody]
  <2>1. row.assignee = Nobody /\ Put(c, row, NoCall)  BY <1>6
  <2> HIDE DEF row
  <2>2. item'[i] = row  BY <1>1, <1>2, <2>1, NoCallIdle, PutChanges
  <2> QED  BY <2>1, <2>2
<1>s. {"FOR_REVIEW", "CHANGES_REQUESTED", "APPROVED", "IMPLEMENTATION", "DONE", "REJECTED", "NEW",
       "CANCELLED", "IN_PROGRESS", "PLANNING", "ON_HOLD"} \subseteq Status
  BY DEF Status, Terminal, Live, Parked
<1>7. Assign(c)
  <2>1. ~ (Plan(c) \/ Start(c) \/ StartImplementation(c) \/ ResumeAfterChanges(c)
             \/ ReturnToReview(c) \/ Resolve(c) \/ ApproveReview(c) \/ RejectReview(c))
    BY <1>4, <1>s DEF Plan, Start, StartImplementation, ResumeAfterChanges, ReturnToReview,
                      Resolve, ApproveReview, RejectReview, NextAfterWork
  <2>2. ~ (Reject(c) \/ Cancel(c) \/ Complete(c))  BY <1>5, <1>s DEF Reject, Cancel, Complete
  <2>3. ~ (Hold(c) \/ Transfer(c))  BY <1>6, <1>s DEF Hold, Transfer
  <2> QED  BY <2>1, <2>2, <2>3 DEF Writes
<1>8. StillAssignable(Row(c), call[c].saw)  BY <1>2, <1>7 DEF Assign
<1>9. call[c].item = i /\ Row(c) = item[i]
  <2> DEFINE row == [status |-> "IN_PROGRESS", assignee |-> call[c].pick]
  <2>1. Put(c, row, NoCall)  BY <1>7, <1>8 DEF Assign
  <2> HIDE DEF row
  <2> QED  BY <1>1, <1>2, <2>1, NoCallIdle, PutChanges
<1> QED  BY <1>8, <1>9 DEF StillAssignable

\* A ticket that is raised, and one that is there already.
LEMMA CreateMoves ==
  ASSUME IInv, NEW j \in Items, Create(j), NEW i \in Items, Born(i)
  PROVE  item'[i] = item[i]
<1>1. i # j  BY DEF Create, IsNext
<1> QED  BY <1>1 DEF Create, IInv, TypeOK

\* A dependency blocks its ticket and leaves it with whoever has it.
LEMMA AddDependencyMoves ==
  ASSUME IInv, NEW c \in Calls, NEW j \in Items, AddDependency(c, j), NEW i \in Items, Born(i),
         item'[i] # item[i]
  PROVE  /\ call[c].item = i /\ call'[c] # call[c] /\ call[c].op = "addDependency"
         /\ item'[i].assignee = item[i].assignee
<1>1. i # j /\ call[c].op = "addDependency" /\ At(c, "write")
  BY DEF AddDependency, IsNext, Does
<1>2. call[c].item = i /\ item'[i] = [item[i] EXCEPT !.status = "BLOCKED"]
  BY <1>1 DEF AddDependency, IInv, TypeOK
<1>3. item[i] \in Ticket  BY BornTicket DEF IInv
<1>4. item'[i].assignee = item[i].assignee  BY <1>2, <1>3 DEF Ticket
<1>5. call'[c].pc = "idle"
  <2>1. call \in [Calls -> Call]  BY DEF IInv, TypeOK, Call
  <2>2. call'[c] = NoCall  BY <2>1 DEF AddDependency, Stale
  <2> QED  BY <2>2, NoCallIdle
<1> QED  BY <1>1, <1>2, <1>4, <1>5 DEF At

\* The end of a wait.
LEMMA UnblockMoves ==
  ASSUME IInv, NEW c \in Calls, Unblock(c), NEW i \in Items, item'[i] # item[i]
  PROVE  /\ item[i].status = "BLOCKED" /\ item'[i].status = "IN_PROGRESS"
         /\ item'[i].assignee = item[i].assignee
<1>1. /\ i = call[c].item /\ item[i].status = "BLOCKED"
      /\ item'[i] = [item[i] EXCEPT !.status = "IN_PROGRESS"]
  BY DEF Unblock, IInv, TypeOK
<1>2. item[i] \in Ticket  BY <1>1, BornTicket DEF IInv
<1> QED  BY <1>1, <1>2 DEF Ticket

\* Looking changes no ticket.
LEMMA LooksChangeNothing ==
  ASSUME NEW c \in Calls, Looks(c)  PROVE UNCHANGED item
  BY DEF Looks, RemoveDependency, Parents, Release, Count, Crash

\* And so does reading.
LEMMA LoadsChangeNothing ==
  ASSUME NEW c \in Calls, NEW op \in Ops, NEW i \in Items, NEW pick \in Picks,
         Load(c, op, i, pick)
  PROVE  UNCHANGED item
  BY DEF Load

-----------------------------------------------------------------------------
(* The theorems.                                                           *)

\* Tickets, links and requests are well formed, and no ticket has a status that
\* its assignee does not fit (tk_items_assignee_matches_status).
THEOREM TypesHold == Spec => []TypeOK
<1>1. IInv => TypeOK  BY DEF IInv
<1> QED  BY <1>1, Invariance, PTL

\* A BLOCKED ticket has unfinished work behind it, or somebody is about to let
\* it go on, unless the process that was to do it has died
\* (releaseBlockersOn, unblockIfClear).
THEOREM BlockedTicketsAreAwaited == Spec => []BlockedIsAwaited
<1>1. IInv => BlockedIsAwaited
  <2> SUFFICES ASSUME IInv, NEW i \in Items \ lost, item[i].status = "BLOCKED"
               PROVE  \/ \E j \in Blockers(i) : item[j].status \notin Terminal
                      \/ \E c \in Calls : Waiter(c) = i
    BY DEF BlockedIsAwaited
  <2>1. CASE \E c \in Calls : Looking(c, i)
    <3>1. PICK c \in Calls : Looking(c, i)  BY <2>1
    <3>2. Waiter(c) = i  BY <3>1 DEF Looking, Waiter
    <3> QED  BY <3>2
  <2>2. CASE Blockers(i) # {}
    <3>1. PICK j \in Blockers(i) : TRUE  BY <2>2
    <3>2. j \in Items /\ link[j].by = i /\ link[j].open  BY <3>1 DEF Blockers
    <3>3. CASE item[j].status \notin Terminal  BY <3>1, <3>3
    <3>4. CASE item[j].status \in Terminal
      <4>1. PICK c \in Calls : Settling(c, j)  BY <3>2, <3>4 DEF IInv, Settled
      <4>2. Waiter(c) = i  BY <3>2, <4>1 DEF Settling, Waiter
      <4> QED  BY <4>2
    <3> QED  BY <3>3, <3>4
  <2> QED  BY <2>1, <2>2 DEF IInv, Waiting
<1> QED  BY <1>1, Invariance, PTL

\* A ticket moves along ALLOWED_TRANSITIONS, except where a request acts on what
\* is no longer so, or the operation is one of the two that leave the table.
THEOREM TicketsFollowTheTable == Spec => FollowsTheTable
<1> DEFINE A == \A i \in Items : Born(i) /\ item'[i].status # item[i].status =>
                  \/ CanMove(item[i].status, item'[i].status)
                  \/ \E c \in Calls : call[c].item = i /\ call'[c] # call[c]
                                        /\ (call[c].stale \/ call[c].op \in OffTheTable)
<1>1. IInv /\ [Next]_vars => [A]_vars
  <2> SUFFICES ASSUME IInv, [Next]_vars, NEW i \in Items, Born(i),
                      item'[i].status # item[i].status
               PROVE  \/ CanMove(item[i].status, item'[i].status)
                      \/ \E c \in Calls : call[c].item = i /\ call'[c] # call[c]
                                            /\ (call[c].stale \/ call[c].op \in OffTheTable)
    OBVIOUS
  <2>1. ASSUME NEW j \in Items, Create(j)  PROVE FALSE  BY <2>1, CreateMoves
  <2>2. ASSUME NEW c \in Calls, Looks(c)  PROVE FALSE  BY <2>2, LooksChangeNothing
  <2>3. ASSUME NEW c \in Calls, NEW op \in Ops, NEW k \in Items, NEW pick \in Picks,
               Load(c, op, k, pick)
        PROVE  FALSE
    BY <2>3, LoadsChangeNothing
  <2>4. ASSUME NEW c \in Calls, NEW j \in Items, AddDependency(c, j)
        PROVE  call[c].item = i /\ call'[c] # call[c] /\ call[c].op \in OffTheTable
    BY <2>4, AddDependencyMoves DEF OffTheTable
  <2>5. ASSUME NEW c \in Calls, Unblock(c)  PROVE CanMove(item[i].status, item'[i].status)
    <3>1. item[i].status = "BLOCKED" /\ item'[i].status = "IN_PROGRESS"  BY <2>5, UnblockMoves
    <3> QED  BY <3>1 DEF CanMove, ALLOWED_TRANSITIONS
  <2>6. ASSUME UNCHANGED vars  PROVE FALSE  BY <2>6 DEF vars
  <2> QED  BY <2>1, <2>2, <2>3, <2>4, <2>5, <2>6, Steps, WritesFollow
<1> QED  BY <1>1, Invariance, PTL DEF Spec, FollowsTheTable

\* Of two managers who give one ticket away at once, the second is told
\* (assign: the update compares the assignee it read).
THEOREM TicketsAreAssignedKnowingly == Spec => AssignedKnowingly
<1> DEFINE A == \A i \in Items :
                  /\ item[i].assignee # Nobody
                  /\ item'[i].assignee \notin {Nobody, item[i].assignee}
                  => \E c \in Calls : call[c].item = i /\ call[c].saw = item[i].assignee
<1>1. IInv /\ [Next]_vars => [A]_vars
  <2> SUFFICES ASSUME IInv, [Next]_vars, NEW i \in Items, item[i].assignee # Nobody,
                      item'[i].assignee \notin {Nobody, item[i].assignee}
               PROVE  \E c \in Calls : call[c].item = i /\ call[c].saw = item[i].assignee
    OBVIOUS
  <2>b. Born(i) /\ item'[i] # item[i]  BY BornTicket DEF IInv
  <2>1. ASSUME NEW j \in Items, Create(j)  PROVE FALSE  BY <2>b, <2>1, CreateMoves
  <2>2. ASSUME NEW c \in Calls, Looks(c)  PROVE FALSE  BY <2>b, <2>2, LooksChangeNothing
  <2>3. ASSUME NEW c \in Calls, NEW op \in Ops, NEW k \in Items, NEW pick \in Picks,
               Load(c, op, k, pick)
        PROVE  FALSE
    BY <2>b, <2>3, LoadsChangeNothing
  <2>4. ASSUME NEW c \in Calls, NEW j \in Items, AddDependency(c, j)  PROVE FALSE
    BY <2>b, <2>4, AddDependencyMoves
  <2>5. ASSUME NEW c \in Calls, Unblock(c)  PROVE FALSE  BY <2>b, <2>5, UnblockMoves
  <2>6. ASSUME UNCHANGED vars  PROVE FALSE  BY <2>6 DEF vars
  <2> QED  BY <2>1, <2>2, <2>3, <2>4, <2>5, <2>6, Steps, WritesKnowingly
<1> QED  BY <1>1, Invariance, PTL DEF Spec, AssignedKnowingly
-----------------------------------------------------------------------------
(* Closed tickets.                                                          *)

\* No operation is offered on a closed ticket.
LEMMA NothingIsOffered ==
  ASSUME NEW op \in Ops  PROVE Capability[op] \cap Terminal = {}
  BY DEF Ops, Capability, Terminal, Parked, Live, Status

\* An operation that writes finds its ticket as it read it, or has been overtaken;
\* and an assignment looks again.
LEMMA WritesWhatWasOffered ==
  ASSUME IInv, NEW c \in Calls, Writes(c), NEW i \in Items, item'[i] # item[i]
  PROVE  /\ call[c].item = i /\ call'[c] # call[c]
         /\ item[i].status \in Terminal => call[c].stale /\ call[c].op # "assign"
<1>1. At(c, "write")
  BY DEF Writes, Assign, Plan, Hold, Transfer, Reject, Cancel, Start, StartImplementation,
         ResumeAfterChanges, ReturnToReview, Resolve, ApproveReview, RejectReview, Complete, Does
<1>2. ASSUME NEW row, NEW x \in Call, x.pc # "write", Put(c, row, x)
      PROVE  /\ call[c].item = i /\ call'[c] # call[c] /\ Row(c) = item[i]
             /\ item[i].status \in Terminal => call[c].stale
  <2>1. /\ i = call[c].item /\ Row(c) = item[i] /\ call'[c] # call[c] /\ call[c].op \in Ops
        /\ ~ call[c].stale => item[i].status \in Capability[call[c].op]
    BY <1>1, <1>2, PutChanges
  <2> QED  BY <2>1, NothingIsOffered
<1>3. CASE Assign(c)
  <2>1. StillAssignable(Row(c), call[c].saw)  BY <1>3 DEF Assign
  <2> DEFINE row == [status |-> "IN_PROGRESS", assignee |-> call[c].pick]
  <2>2. Put(c, row, NoCall)  BY <1>3, <2>1 DEF Assign
  <2> HIDE DEF row
  <2>3. call[c].item = i /\ call'[c] # call[c] /\ Row(c) = item[i]
    BY <1>2, <2>2, NoCallIdle
  <2>4. item[i].status \notin Terminal
    BY <2>1, <2>3 DEF StillAssignable, Capability, Terminal, Parked, Live
  <2> QED  BY <2>3, <2>4
<1>4. ASSUME NEW row, Put(c, row, NoCall), call[c].op # "assign"
      PROVE  /\ call[c].item = i /\ call'[c] # call[c]
             /\ item[i].status \in Terminal => call[c].stale /\ call[c].op # "assign"
  BY <1>2, <1>4, NoCallIdle
<1>5. ASSUME NEW s, Becomes(c, s), call[c].op # "assign"
      PROVE  /\ call[c].item = i /\ call'[c] # call[c]
             /\ item[i].status \in Terminal => call[c].stale /\ call[c].op # "assign"
  BY <1>4, <1>5 DEF Becomes
<1>6. ASSUME NEW s, Close(c, s), call[c].op # "assign"
      PROVE  /\ call[c].item = i /\ call'[c] # call[c]
             /\ item[i].status \in Terminal => call[c].stale /\ call[c].op # "assign"
  <2> DEFINE row == [Row(c) EXCEPT !.status = s]
             x == Ahead("parents", call[c].item)
  <2>1. call[c].item \in Items  BY <1>1 DEF IInv, HandFits, At
  <2>2. Put(c, row, x)  BY <1>6 DEF Close, Ahead
  <2>3. x \in Call /\ x.pc = "parents"  BY <2>1, NextCall
  <2> HIDE DEF row, x
  <2> QED  BY <1>2, <1>6, <2>2, <2>3
<1>7. CASE Hold(c)  BY <1>4, <1>7 DEF Hold, Does
<1>8. CASE Transfer(c)  BY <1>4, <1>8 DEF Transfer, Does
<1>9. CASE Reject(c) \/ Cancel(c) \/ Complete(c)
  BY <1>6, <1>9 DEF Reject, Cancel, Complete, Does
<1>10. CASE \/ Plan(c) \/ Start(c) \/ StartImplementation(c) \/ ResumeAfterChanges(c)
            \/ ReturnToReview(c) \/ Resolve(c) \/ ApproveReview(c) \/ RejectReview(c)
  BY <1>5, <1>10
  DEF Plan, Start, StartImplementation, ResumeAfterChanges, ReturnToReview, Resolve,
      ApproveReview, RejectReview, Does
<1> QED  BY <1>3, <1>7, <1>8, <1>9, <1>10 DEF Writes

\* A closed ticket is written only by a request that read it before it was
\* closed, and never by an assignment: what visibility.service.ts:35 says of
\* closed tickets fails by that race alone.
ClosedIsLeftAlone ==
  [][\A i \in Items : item[i].status \in Terminal /\ item'[i] # item[i] =>
       \E c \in Calls :
         /\ call[c].item = i /\ call'[c] # call[c]
         /\ call[c].stale /\ call[c].op # "assign"]_vars

\* Nothing moves from DONE, REJECTED or CANCELLED but by a request that was
\* overtaken, for any number of tickets, people and requests.
THEOREM ClosedTicketsAreLeftAlone == Spec => ClosedIsLeftAlone
<1> DEFINE A == \A i \in Items : item[i].status \in Terminal /\ item'[i] # item[i] =>
                  \E c \in Calls :
                    /\ call[c].item = i /\ call'[c] # call[c]
                    /\ call[c].stale /\ call[c].op # "assign"
<1>1. IInv /\ [Next]_vars => [A]_vars
  <2> SUFFICES ASSUME IInv, [Next]_vars, NEW i \in Items, item[i].status \in Terminal,
                      item'[i] # item[i]
               PROVE  \E c \in Calls :
                        /\ call[c].item = i /\ call'[c] # call[c]
                        /\ call[c].stale /\ call[c].op # "assign"
    OBVIOUS
  <2>b. Born(i) /\ item[i].status # "BLOCKED"
    BY DEF Born, Unborn, Terminal
  <2>1. ASSUME NEW j \in Items, Create(j)  PROVE FALSE  BY <2>b, <2>1, CreateMoves
  <2>2. ASSUME NEW c \in Calls, Looks(c)  PROVE FALSE  BY <2>2, LooksChangeNothing
  <2>3. ASSUME NEW c \in Calls, NEW op \in Ops, NEW k \in Items, NEW pick \in Picks,
               Load(c, op, k, pick)
        PROVE  FALSE
    BY <2>3, LoadsChangeNothing
  <2>4. ASSUME NEW c \in Calls, NEW j \in Items, AddDependency(c, j)  PROVE FALSE
    <3>1. i # j  BY <2>b, <2>4 DEF AddDependency, IsNext
    <3>2. item[i].status \in {"ASSIGNED", "IN_PROGRESS"}
      BY <2>4, <3>1 DEF AddDependency, IInv, TypeOK
    <3> QED  BY <3>2 DEF Terminal
  <2>5. ASSUME NEW c \in Calls, Unblock(c)  PROVE FALSE  BY <2>b, <2>5, UnblockMoves
  <2>6. ASSUME UNCHANGED vars  PROVE FALSE  BY <2>6 DEF vars
  <2> QED  BY <2>1, <2>2, <2>3, <2>4, <2>5, <2>6, Steps, WritesWhatWasOffered
<1> QED  BY <1>1, Invariance, PTL DEF Spec, ClosedIsLeftAlone
=============================================================================
