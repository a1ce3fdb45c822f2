-------------------------- MODULE ZohoQueueProofs --------------------------
(***************************************************************************)
(* Proofs about ZohoQueue, for any payments, requests and workers.         *)
(***************************************************************************)
EXTENDS ZohoQueue, TLAPS

-----------------------------------------------------------------------------
(* What the statements make of a row and of a worker.                      *)

\* A row built of typed columns is a row.
LEMMA EventBuilt ==
  ASSUME NEW status \in Statuses, NEW due \in BOOLEAN, NEW n \in Nat,
         NEW owner \in Workers \cup {Nobody}, NEW q \in Payments \cup {Nothing}
  PROVE  [status |-> status, due |-> due, attempts |-> n, owner |-> owner, record |-> q] \in Event
  BY DEF Event

\* A worker built of typed parts is a worker.
LEMMA WorkerBuilt ==
  ASSUME NEW pc \in {"down", "idle", "lookup", "post", "save", "failed", "refused"},
         NEW p \in Payments \cup {Nothing}, NEW n \in Nat,
         NEW q \in Payments \cup {Nothing}
  PROVE  [pc |-> pc, item |-> p, tries |-> n, found |-> q] \in Worker
  BY DEF Worker

\* A worker with nothing in hand is a worker.
LEMMA EmptyType ==
  ASSUME NEW pc \in {"down", "idle"}
  PROVE  /\ Empty(pc) \in Worker
         /\ Empty(pc).pc = pc /\ Empty(pc).item = Nothing
<1>1. Empty(pc) = [pc |-> pc, item |-> Nothing, tries |-> 0, found |-> Nothing]  BY DEF Empty
<1>2. Empty(pc) \in Worker  BY <1>1, WorkerBuilt
<1> QED  BY <1>1, <1>2

\* A worker that goes on keeps what it has in hand.
LEMMA GoesWorker ==
  ASSUME TypeOK, NEW w \in Workers,
         NEW pc \in {"down", "idle", "lookup", "post", "save", "failed", "refused"}, Goes(w, pc)
  PROVE  /\ worker' \in [Workers -> Worker]
         /\ worker'[w].pc = pc /\ worker'[w].item = worker[w].item
         /\ \A v \in Workers \ {w} : worker'[v] = worker[v]
<1> DEFINE r == [pc |-> pc, item |-> worker[w].item, tries |-> worker[w].tries,
                 found |-> worker[w].found]
<1>1. worker[w] \in Worker  BY DEF TypeOK
<1>2. r \in Worker  BY <1>1, WorkerBuilt DEF Worker
<1>3. worker' = [worker EXCEPT ![w] = [worker[w] EXCEPT !.pc = pc]]  BY DEF TypeOK, Goes
<1>4. worker'[w] = [worker[w] EXCEPT !.pc = pc]  BY <1>3 DEF TypeOK
<1>5. worker'[w] = r  BY <1>1, <1>4 DEF Worker
<1> QED  BY <1>2, <1>3, <1>4, <1>5 DEF TypeOK

\* A worker that has a record to write down.
LEMMA FindsWorker ==
  ASSUME TypeOK, NEW w \in Workers, NEW q \in Payments, Finds(w, q)
  PROVE  /\ worker' \in [Workers -> Worker]
         /\ worker'[w].pc = "save" /\ worker'[w].item = worker[w].item
         /\ worker'[w].found = q
         /\ \A v \in Workers \ {w} : worker'[v] = worker[v]
<1> DEFINE r == [pc |-> "save", item |-> worker[w].item, tries |-> worker[w].tries, found |-> q]
<1>1. worker[w] \in Worker  BY DEF TypeOK
<1>2. r \in Worker  BY <1>1, WorkerBuilt DEF Worker
<1>3. worker' = [worker EXCEPT ![w] = [worker[w] EXCEPT !.pc = "save", !.found = q]]
  BY DEF TypeOK, Finds
<1>4. worker'[w] = [worker[w] EXCEPT !.pc = "save", !.found = q]  BY <1>3 DEF TypeOK
<1>5. worker'[w] = r  BY <1>1, <1>4 DEF Worker
<1> QED  BY <1>2, <1>3, <1>4, <1>5 DEF TypeOK

\* A worker that is done with the event in hand.
LEMMA EmptyWorker ==
  ASSUME TypeOK, NEW w \in Workers, NEW pc \in {"down", "idle"},
         worker' = [worker EXCEPT ![w] = Empty(pc)]
  PROVE  /\ worker' \in [Workers -> Worker]
         /\ worker'[w].pc = pc /\ worker'[w].item = Nothing
         /\ \A v \in Workers \ {w} : worker'[v] = worker[v]
  BY EmptyType DEF TypeOK

\* A row that has an owner exactly while it is claimed.
Shaped(row) == row.status = "PROCESSING" <=> row.owner # Nobody

RowsOK == event \in [Payments -> Event] /\ \A p \in Payments : Shaped(event[p])

\* What TypeOK says of the rows.
LEMMA RowsTyped == TypeOK => RowsOK
  BY DEF TypeOK, RowsOK, Shaped

\* One row replaced by another.
LEMMA RowReplaced ==
  ASSUME RowsOK, NEW p \in Payments, NEW x, event' = [event EXCEPT ![p] = x]
  PROVE  /\ event'[p] = x
         /\ x \in Event /\ Shaped(x) => RowsOK'
         /\ \A q \in Payments \ {p} : event'[q] = event[q]
  BY DEF RowsOK, Shaped

\* Queueing makes a row that is not PROCESSING and not POSTED.
LEMMA QueuedRow ==
  ASSUME RowsOK, NEW p \in Payments, EnqueuePayment(p)
  PROVE  /\ RowsOK'
         /\ event'[p].status \in {"PENDING", "SKIPPED", "DEAD"}
         /\ \A q \in Payments \ {p} : event'[q] = event[q]
<1>1. PICK s \in {"PENDING", "SKIPPED", "DEAD"} :
        event' = [event EXCEPT ![p] = [NoEvent EXCEPT !.status = s, !.due = TRUE]]
  BY DEF EnqueuePayment
<1>2. event'[p] = [NoEvent EXCEPT !.status = s, !.due = TRUE]  BY <1>1, RowReplaced
<1>3. event'[p] = [status |-> s, due |-> TRUE, attempts |-> 0, owner |-> Nobody,
                   record |-> Nothing]
  BY <1>2 DEF NoEvent
<1>4. s \in Statuses  BY DEF Statuses
<1>5. event'[p] \in Event  BY <1>3, <1>4, EventBuilt
<1>6. event'[p].status = s /\ Shaped(event'[p])  BY <1>3 DEF Shaped
<1> QED  BY <1>1, <1>2, <1>5, <1>6, RowReplaced

\* An operator's retry.
LEMMA RetriedRow ==
  ASSUME RowsOK, NEW p \in Payments, Retry(p)
  PROVE  /\ RowsOK'
         /\ event[p].status = "DEAD" /\ event'[p].status = "PENDING"
         /\ \A q \in Payments \ {p} : event'[q] = event[q]
<1> DEFINE x == [event[p] EXCEPT !.status = "PENDING", !.due = TRUE, !.attempts = 0]
<1>1. event[p] \in Event /\ Shaped(event[p])  BY DEF RowsOK
<1>2. event' = [event EXCEPT ![p] = x]  BY DEF Retry, RowsOK
<1>3. event'[p] = x  BY <1>2, RowReplaced
<1>4. event'[p] = [status |-> "PENDING", due |-> TRUE, attempts |-> 0,
                   owner |-> event[p].owner, record |-> event[p].record]
  BY <1>1, <1>3 DEF Event
<1>5. "PENDING" \in Statuses  BY DEF Statuses
<1>6. event'[p] \in Event  BY <1>1, <1>4, <1>5, EventBuilt DEF Event
<1>7. event'[p].status = "PENDING" /\ event'[p].owner = event[p].owner  BY <1>4
<1>8. event[p].status = "DEAD"  BY DEF Retry
<1>9. Shaped(event'[p])  BY <1>1, <1>7, <1>8 DEF Shaped
<1> HIDE DEF x
<1> QED  BY <1>2, <1>3, <1>6, <1>7, <1>8, <1>9, RowReplaced

\* The wait before the next attempt being over.
LEMMA DueRow ==
  ASSUME RowsOK, NEW p \in Payments, ComesDue(p)
  PROVE  /\ RowsOK'
         /\ event[p].status = "FAILED" /\ event'[p].status = "FAILED"
         /\ \A q \in Payments \ {p} : event'[q] = event[q]
<1> DEFINE x == [event[p] EXCEPT !.due = TRUE]
<1>1. event[p] \in Event /\ Shaped(event[p])  BY DEF RowsOK
<1>2. event' = [event EXCEPT ![p] = x]  BY DEF ComesDue, RowsOK
<1>3. event'[p] = x  BY <1>2, RowReplaced
<1>4. event'[p] = [status |-> event[p].status, due |-> TRUE, attempts |-> event[p].attempts,
                   owner |-> event[p].owner, record |-> event[p].record]
  BY <1>1, <1>3 DEF Event
<1>5. event'[p] \in Event  BY <1>1, <1>4, EventBuilt DEF Event
<1>6. event'[p].status = event[p].status /\ event'[p].owner = event[p].owner  BY <1>4
<1>7. Shaped(event'[p])  BY <1>1, <1>6 DEF Shaped
<1> HIDE DEF x
<1> QED  BY <1>2, <1>3, <1>5, <1>6, <1>7, RowReplaced DEF ComesDue

\* A claim, whether or not the worker learns of it.
LEMMA ClaimedRow ==
  ASSUME RowsOK, NEW w \in Workers, NEW p \in Payments, Claimed(w, p)
  PROVE  /\ RowsOK'
         /\ event'[p].status = "PROCESSING" /\ event'[p].owner = w
         /\ \A q \in Payments \ {p} : event'[q] = event[q]
<1> DEFINE n == event[p].attempts + 1
           x == [event[p] EXCEPT !.status = "PROCESSING", !.owner = w, !.attempts = n]
<1>1. event[p] \in Event  BY DEF RowsOK
<1>2. n \in Nat  BY <1>1 DEF Event
<1>3. event' = [event EXCEPT ![p] = x]  BY DEF Claimed, RowsOK
<1>4. event'[p] = x  BY <1>3, RowReplaced
<1> HIDE DEF n
<1>5. event'[p] = [status |-> "PROCESSING", due |-> event[p].due, attempts |-> n,
                   owner |-> w, record |-> event[p].record]
  BY <1>1, <1>4 DEF Event
<1>6. "PROCESSING" \in Statuses  BY DEF Statuses
<1>7. event'[p] \in Event  BY <1>1, <1>2, <1>5, <1>6, EventBuilt DEF Event
<1>8. event'[p].status = "PROCESSING" /\ event'[p].owner = w  BY <1>5
<1>9. Shaped(event'[p])  BY <1>8, QueueAssumption DEF Shaped
<1> HIDE DEF x
<1> QED  BY <1>3, <1>4, <1>7, <1>8, <1>9, RowReplaced

\* The worker that claimed.
LEMMA ClaimingWorker ==
  ASSUME TypeOK, NEW w \in Workers, NEW p \in Payments, Claim(w, p)
  PROVE  /\ worker' \in [Workers -> Worker]
         /\ worker'[w].pc = "lookup" /\ worker'[w].item = p
         /\ \A v \in Workers \ {w} : worker'[v] = worker[v]
<1> DEFINE n == event[p].attempts + 1
           x == [Empty("lookup") EXCEPT !.item = p, !.tries = n]
<1>1. n \in Nat  BY DEF Event, TypeOK
<1>2. worker' = [worker EXCEPT ![w] = x]  BY DEF Claim
<1>3. worker'[w] = x  BY <1>2 DEF TypeOK
<1> HIDE DEF n
<1>4. worker'[w] = [pc |-> "lookup", item |-> p, tries |-> n, found |-> Nothing]
  BY <1>3 DEF Empty
<1>5. worker'[w] \in Worker  BY <1>1, <1>4, WorkerBuilt
<1>6. worker'[w].pc = "lookup" /\ worker'[w].item = p  BY <1>4
<1> HIDE DEF x
<1> QED  BY <1>2, <1>3, <1>5, <1>6 DEF TypeOK

\* The outcome written down, whether or not the worker learns of it.
LEMMA PostedRow ==
  ASSUME TypeOK, NEW w \in Workers, Posted(w), worker[w].item \in Payments
  PROVE  LET p == worker[w].item IN
         /\ RowsOK'
         /\ event'[p].status = "POSTED" /\ event'[p].record = worker[w].found
         /\ \A q \in Payments \ {p} : event'[q] = event[q]
<1> DEFINE p == worker[w].item
           found == worker[w].found
           x == [event[p] EXCEPT !.status = "POSTED", !.owner = Nobody, !.record = found]
<1>1. event[p] \in Event /\ RowsOK  BY RowsTyped DEF TypeOK
<1>2. found \in Payments \cup {Nothing}  BY DEF TypeOK, Worker
<1>3. event' = [event EXCEPT ![p] = x]  BY DEF Posted, TypeOK
<1> HIDE DEF p, found
<1>4. p \in Payments  BY DEF p
<1>5. event'[p] = x  BY <1>1, <1>3, <1>4, RowReplaced
<1>6. event'[p] = [status |-> "POSTED", due |-> event[p].due, attempts |-> event[p].attempts,
                   owner |-> Nobody, record |-> found]
  BY <1>1, <1>5 DEF Event
<1>7. "POSTED" \in Statuses  BY DEF Statuses
<1>8. event'[p] \in Event  BY <1>1, <1>2, <1>6, <1>7, EventBuilt DEF Event
<1>9. event'[p].status = "POSTED" /\ event'[p].record = found /\ Shaped(event'[p])
  BY <1>6 DEF Shaped
<1> HIDE DEF x
<1> QED  BY <1>1, <1>3, <1>4, <1>5, <1>8, <1>9, RowReplaced DEF p, found

\* A failure written down.
LEMMA FailedRow ==
  ASSUME TypeOK, NEW w \in Workers, RecordFailure(w), worker[w].item \in Payments
  PROVE  LET p == worker[w].item IN
         /\ RowsOK'
         /\ event'[p].status \in {"DEAD", "FAILED"} /\ event'[p].record = event[p].record
         /\ \A q \in Payments \ {p} : event'[q] = event[q]
<1> DEFINE p == worker[w].item
           status == IF GivesUp(w) THEN "DEAD" ELSE "FAILED"
           x == [event[p] EXCEPT !.status = status, !.due = FALSE, !.owner = Nobody]
<1>1. event[p] \in Event /\ RowsOK  BY RowsTyped DEF TypeOK
<1>2. status \in {"DEAD", "FAILED"}  OBVIOUS
<1>3. event' = [event EXCEPT ![p] = x]  BY DEF RecordFailure, TypeOK
<1> HIDE DEF p, status
<1>4. p \in Payments  BY DEF p
<1>5. event'[p] = x  BY <1>1, <1>3, <1>4, RowReplaced
<1>6. event'[p] = [status |-> status, due |-> FALSE, attempts |-> event[p].attempts,
                   owner |-> Nobody, record |-> event[p].record]
  BY <1>1, <1>5 DEF Event
<1>7. status \in Statuses  BY <1>2 DEF Statuses
<1>8. event'[p] \in Event  BY <1>1, <1>6, <1>7, EventBuilt DEF Event
<1>9. event'[p].status = status /\ event'[p].record = event[p].record  BY <1>6
<1>10. Shaped(event'[p])  BY <1>2, <1>6 DEF Shaped
<1> HIDE DEF x
<1> QED  BY <1>1, <1>2, <1>3, <1>4, <1>5, <1>8, <1>9, <1>10, RowReplaced DEF p

\* A start that releases its own rows, and no others.
LEMMA StartedRows ==
  ASSUME RowsOK, NEW w \in Workers, Start(w)
  PROVE  /\ RowsOK'
         /\ \A p \in Held(w) : event'[p].status = "FAILED"
         /\ \A p \in Payments \ Held(w) : event'[p] = event[p]
<1> DEFINE x(p) == [event[p] EXCEPT !.status = "FAILED", !.due = TRUE, !.owner = Nobody]
<1>1. event' = [p \in Payments |-> IF p \in Held(w) THEN x(p) ELSE event[p]]
  BY DEF Start
<1>2. \A p \in Payments \ Held(w) : event'[p] = event[p]  BY <1>1
<1>3. ASSUME NEW p \in Held(w)
      PROVE  event'[p] \in Event /\ event'[p].status = "FAILED" /\ Shaped(event'[p])
  <2>1. p \in Payments  BY DEF Held
  <2>2. event[p] \in Event  BY <2>1 DEF RowsOK
  <2>3. event'[p] = x(p)  BY <1>1, <2>1
  <2>4. event'[p] = [status |-> "FAILED", due |-> TRUE, attempts |-> event[p].attempts,
                     owner |-> Nobody, record |-> event[p].record]
    BY <2>2, <2>3 DEF Event
  <2>5. "FAILED" \in Statuses  BY DEF Statuses
  <2>6. event'[p] \in Event  BY <2>2, <2>4, <2>5, EventBuilt DEF Event
  <2> QED  BY <2>4, <2>6 DEF Shaped
<1>4. \A p \in Payments : event'[p] \in Event /\ Shaped(event'[p])
  BY <1>2, <1>3 DEF RowsOK
<1> HIDE DEF x
<1>5. RowsOK'  BY <1>1, <1>4 DEF RowsOK, Shaped
<1> QED  BY <1>2, <1>3, <1>5

-----------------------------------------------------------------------------
(* The inductive invariant.                                                *)

Working(w) == worker[w].pc \in {"lookup", "post", "save", "failed", "refused"}

\* The event a worker works on is held in its name; or is POSTED, when its own
\* write of that failed as far as it knows.
InHand ==
  \A w \in Workers :
    IF Working(w)
    THEN LET p == worker[w].item IN
           /\ p \in Payments
           /\ \/ event[p].status = "PROCESSING" /\ event[p].owner = w
              \/ event[p].status = "POSTED" /\ worker[w].pc = "failed"
    ELSE worker[w].item = Nothing

\* An event has one worker at most.
HeldByOne ==
  \A v, w \in Workers : Working(v) /\ Working(w) /\ worker[v].item = worker[w].item => v = w

\* Between the lookup and the post every record of the payment is one that an
\* answer hid.
PostIsDue ==
  \A w \in Workers : worker[w].pc = "post" => books[worker[w].item] <= misread[worker[w].item]

\* What is about to be written down is in Zoho, under the right reference.
FoundIsThere == \A w \in Workers : worker[w].pc = "save" => worker[w].found \in Matches(worker[w].item)

\* No payment is in Zoho more often than once, and once for every answer about
\* it that could not be read.
RecordsAreAccounted == \A p \in Payments : books[p] <= 1 + misread[p]

\* A payment still to be queued has no event.
Unqueued == \A p \in Payments \ handled : event[p].status = "none"

Hands == InHand /\ HeldByOne /\ PostIsDue /\ FoundIsThere

Rows == Unqueued /\ PostedIsRecorded /\ RecordsAreAccounted

IInv == TypeOK /\ Hands /\ Rows

\* A worker that works on an event at all.
LEMMA ItemInHand ==
  ASSUME IInv, NEW w \in Workers, Working(w)
  PROVE  LET p == worker[w].item IN
         /\ p \in Payments
         /\ \/ event[p].status = "PROCESSING" /\ event[p].owner = w
            \/ event[p].status = "POSTED" /\ worker[w].pc = "failed"
  BY DEF IInv, Hands, InHand

\* Records that stay are found again.
LEMMA MatchesKept ==
  ASSUME TypeOK, NEW p, NEW q \in Matches(p),
         \A r \in Payments : books'[r] = books[r] \/ books'[r] = books[r] + 1
  PROVE  q \in {r \in Payments : books'[r] > 0 /\ RequestOf[r] = RequestOf[p]}
<1>1. books[q] \in Nat /\ q \in Payments /\ books[q] > 0  BY DEF Matches, TypeOK
<1>2. books'[q] > 0  BY <1>1
<1> QED  BY <1>1, <1>2 DEF Matches

\* Records and misread answers only appear, and only a worker's own.
OwnOnly(w) ==
  \A p \in Payments :
    /\ \/ books'[p] = books[p]
       \/ Working(w) /\ p = worker[w].item /\ books'[p] = books[p] + 1
    /\ misread'[p] = misread[p] \/ misread'[p] = misread[p] + 1

\* A step of w leaves what the other workers have in hand alone.
OthersAlone(w) ==
  \A v \in Workers \ {w} :
    /\ worker'[v] = worker[v]
    /\ Working(v) => event'[worker[v].item] = event[worker[v].item]

\* What the others have in hand is as it should be after a step of w.
LEMMA OthersKept ==
  ASSUME IInv, NEW w \in Workers, OthersAlone(w), OwnOnly(w), NEW v \in Workers \ {w}
  PROVE  /\ IF Working(v)'
            THEN LET p == worker'[v].item IN
                   /\ p \in Payments
                   /\ \/ event'[p].status = "PROCESSING" /\ event'[p].owner = v
                      \/ event'[p].status = "POSTED" /\ worker'[v].pc = "failed"
            ELSE worker'[v].item = Nothing
         /\ worker'[v].pc = "post" => books'[worker'[v].item] <= misread'[worker'[v].item]
         /\ worker'[v].pc = "save" => (worker[v].found \in Matches(worker[v].item))'
<1>1. worker'[v] = worker[v] /\ (Working(v)' <=> Working(v))  BY DEF OthersAlone, Working
<1>2. worker[v].pc \in {"post", "save"} => Working(v)  BY DEF Working
<1>3. ASSUME worker[v].pc = "post"
      PROVE  books'[worker[v].item] <= misread'[worker[v].item]
  <2> DEFINE p == worker[v].item
  <2>1. p \in Payments /\ (Working(w) => p # worker[w].item)
    BY <1>2, <1>3, ItemInHand DEF IInv, Hands, HeldByOne
  <2>2. books[p] \in Nat /\ misread[p] \in Nat /\ books[p] <= misread[p]
    BY <1>3, <2>1, QueueAssumption DEF IInv, Hands, PostIsDue, TypeOK
  <2>3. books'[p] = books[p] /\ (misread'[p] = misread[p] \/ misread'[p] = misread[p] + 1)
    BY <2>1 DEF OwnOnly
  <2> HIDE DEF p
  <2>4. books'[p] <= misread'[p]  BY <2>2, <2>3
  <2> QED  BY <2>4 DEF p
<1>4. ASSUME worker[v].pc = "save"
      PROVE  (worker[v].found \in Matches(worker[v].item))'
  <2>1. worker[v].found \in Matches(worker[v].item)
    BY <1>4 DEF IInv, Hands, FoundIsThere
  <2>2. worker[v].found \in {r \in Payments : books'[r] > 0
                               /\ RequestOf[r] = RequestOf[worker[v].item]}
    BY <2>1, MatchesKept DEF IInv, OwnOnly
  <2> QED  BY <1>1, <2>2 DEF Matches
<1>5. IF Working(v)
      THEN LET p == worker[v].item IN
             /\ p \in Payments
             /\ \/ event'[p].status = "PROCESSING" /\ event'[p].owner = v
                \/ event'[p].status = "POSTED" /\ worker[v].pc = "failed"
      ELSE worker[v].item = Nothing
  BY DEF OthersAlone, IInv, Hands, InHand
<1> QED  BY <1>1, <1>3, <1>4, <1>5

\* What a step of w owes its own event, once the others' are undisturbed.
LEMMA OwnStep ==
  ASSUME IInv, NEW w \in Workers, OthersAlone(w), OwnOnly(w),
         IF Working(w)'
         THEN LET p == worker'[w].item IN
                /\ p \in Payments
                /\ \/ event'[p].status = "PROCESSING" /\ event'[p].owner = w
                   \/ event'[p].status = "POSTED" /\ worker'[w].pc = "failed"
                /\ \A v \in Workers \ {w} : Working(v) => worker[v].item # p
         ELSE worker'[w].item = Nothing,
         worker'[w].pc = "post" => books'[worker'[w].item] <= misread'[worker'[w].item],
         worker'[w].pc = "save" => (worker[w].found \in Matches(worker[w].item))'
  PROVE  Hands'
<1>1. ASSUME NEW v \in Workers
      PROVE  /\ IF Working(v)'
                THEN LET p == worker'[v].item IN
                       /\ p \in Payments
                       /\ \/ event'[p].status = "PROCESSING" /\ event'[p].owner = v
                          \/ event'[p].status = "POSTED" /\ worker'[v].pc = "failed"
                ELSE worker'[v].item = Nothing
             /\ worker'[v].pc = "post" => books'[worker'[v].item] <= misread'[worker'[v].item]
             /\ worker'[v].pc = "save" => (worker[v].found \in Matches(worker[v].item))'
  <2>1. CASE v = w  BY <2>1
  <2>2. CASE v # w  BY <2>2, OthersKept
  <2> QED  BY <2>1, <2>2
<1>2. InHand'  BY <1>1 DEF InHand
<1>3. PostIsDue' /\ FoundIsThere'  BY <1>1 DEF PostIsDue, FoundIsThere
<1>4. HeldByOne'
  <2> SUFFICES ASSUME NEW u \in Workers, NEW v \in Workers, Working(u)', Working(v)',
                      worker'[u].item = worker'[v].item
               PROVE  u = v
    BY DEF HeldByOne
  <2>1. \A z \in Workers \ {w} : worker'[z] = worker[z] /\ (Working(z)' <=> Working(z))
    BY DEF OthersAlone, Working
  <2>2. CASE u = w \/ v = w  BY <2>1, <2>2
  <2>3. CASE u # w /\ v # w  BY <2>1, <2>3 DEF IInv, Hands, HeldByOne
  <2> QED  BY <2>2, <2>3
<1> QED  BY <1>2, <1>3, <1>4 DEF Hands

\* A step that leaves the workers and the books alone, and the rows in hand too.
LEMMA HandsAlone ==
  ASSUME IInv, UNCHANGED <<worker, books, misread>>,
         \A w \in Workers : Working(w) => event'[worker[w].item] = event[worker[w].item]
  PROVE  Hands'
<1>1. InHand'  BY DEF IInv, Hands, InHand, Working
<1>2. HeldByOne' /\ PostIsDue' /\ FoundIsThere'
  BY DEF IInv, Hands, HeldByOne, Working, PostIsDue, FoundIsThere, Matches
<1> QED  BY <1>1, <1>2 DEF Hands

\* Rows that are POSTED stay so truthfully while records only appear.
LEMMA RecordsKept ==
  ASSUME IInv,
         \A p \in Payments : books'[p] = books[p] \/ books'[p] = books[p] + 1,
         \A p \in Payments : event'[p].status = "POSTED" =>
           \/ event'[p] = event[p]
           \/ event'[p].record \in Matches(p)
  PROVE  PostedIsRecorded'
<1> SUFFICES ASSUME NEW p \in Payments, event'[p].status = "POSTED"
             PROVE  event'[p].record \in Matches(p)'
  BY DEF PostedIsRecorded
<1>1. event'[p].record \in Matches(p)  BY DEF IInv, Rows, PostedIsRecorded
<1>2. event'[p].record \in {r \in Payments : books'[r] > 0 /\ RequestOf[r] = RequestOf[p]}
  BY <1>1, MatchesKept DEF IInv
<1> QED  BY <1>2 DEF Matches

-----------------------------------------------------------------------------
(* The steps of the queue and of its workers.                               *)

\* A row that is in no worker's hands.
LEMMA InNoHands ==
  ASSUME IInv, NEW p \in Payments, event[p].status \notin {"PROCESSING", "POSTED"}
  PROVE  \A w \in Workers : Working(w) => worker[w].item # p
  BY ItemInHand

\* A step that rewrites a row that is in nobody's hands.
LEMMA RowStep ==
  ASSUME IInv, NEW p \in Payments,
         event[p].status \notin {"PROCESSING", "POSTED"}, event'[p].status # "POSTED",
         \A q \in Payments \ {p} : event'[q] = event[q],
         UNCHANGED <<worker, books, misread>>
  PROVE  Hands' /\ PostedIsRecorded' /\ RecordsAreAccounted'
<1>1. \A w \in Workers : Working(w) => event'[worker[w].item] = event[worker[w].item]
  BY InNoHands, ItemInHand
<1>2. Hands'  BY <1>1, HandsAlone
<1>3. PostedIsRecorded'  BY RecordsKept
<1>4. RecordsAreAccounted'  BY DEF IInv, Rows, RecordsAreAccounted
<1> QED  BY <1>2, <1>3, <1>4

\* A step of the API, an operator, the clock or a claim nobody heard of.
QueueStep(p) ==
  \/ EnqueuePayment(p) \/ NeverQueued(p) \/ Retry(p) \/ ComesDue(p)
  \/ \E w \in Workers : ClaimReplyLost(w, p)

\* What such a step does to the row.
LEMMA QueueStepRow ==
  ASSUME IInv, NEW p \in Payments, QueueStep(p)
  PROVE  /\ RowsOK'
         /\ UNCHANGED <<worker, books, misread>>
         /\ Unqueued'
         /\ \/ UNCHANGED event
            \/ /\ event[p].status \notin {"PROCESSING", "POSTED"}
               /\ event'[p].status # "POSTED"
               /\ \A q \in Payments \ {p} : event'[q] = event[q]
<1> USE DEF IInv, Rows
<1>1. RowsOK  BY RowsTyped
<1>2. CASE EnqueuePayment(p)
  <2>1. event[p].status = "none"  BY <1>2 DEF EnqueuePayment, Unqueued
  <2>2. /\ RowsOK' /\ event'[p].status \in {"PENDING", "SKIPPED", "DEAD"}
        /\ \A q \in Payments \ {p} : event'[q] = event[q]
    BY <1>1, <1>2, QueuedRow
  <2>3. Unqueued'  BY <1>2, <2>2 DEF Unqueued, EnqueuePayment
  <2> QED  BY <1>2, <2>1, <2>2, <2>3 DEF EnqueuePayment
<1>3. CASE NeverQueued(p)
  BY <1>1, <1>3 DEF NeverQueued, Unqueued, RowsOK, Shaped
<1>4. CASE Retry(p)
  <2>1. /\ RowsOK' /\ event[p].status = "DEAD" /\ event'[p].status = "PENDING"
        /\ \A q \in Payments \ {p} : event'[q] = event[q]
    BY <1>1, <1>4, RetriedRow
  <2>2. UNCHANGED <<handled, worker, books, misread>>  BY <1>4 DEF Retry
  <2> QED  BY <2>1, <2>2 DEF Unqueued
<1>5. CASE ComesDue(p)
  <2>1. /\ RowsOK' /\ event[p].status = "FAILED" /\ event'[p].status = "FAILED"
        /\ \A q \in Payments \ {p} : event'[q] = event[q]
    BY <1>1, <1>5, DueRow
  <2>2. UNCHANGED <<handled, worker, books, misread>>  BY <1>5 DEF ComesDue
  <2> QED  BY <2>1, <2>2 DEF Unqueued
<1>6. ASSUME NEW w \in Workers, ClaimReplyLost(w, p)
      PROVE  /\ RowsOK' /\ Unqueued' /\ UNCHANGED <<worker, books, misread>>
             /\ event[p].status \notin {"PROCESSING", "POSTED"}
             /\ event'[p].status # "POSTED"
             /\ \A q \in Payments \ {p} : event'[q] = event[q]
  <2>1. event[p].status \in {"PENDING", "FAILED"}  BY <1>6 DEF ClaimReplyLost, Claimable
  <2>2. /\ RowsOK' /\ event'[p].status = "PROCESSING"
        /\ \A q \in Payments \ {p} : event'[q] = event[q]
    BY <1>1, <1>6, ClaimedRow DEF ClaimReplyLost
  <2>3. UNCHANGED <<handled, worker, books, misread>>  BY <1>6 DEF ClaimReplyLost
  <2> QED  BY <2>1, <2>2, <2>3 DEF Unqueued
<1> QED  BY <1>2, <1>3, <1>4, <1>5, <1>6 DEF QueueStep

\* Such a step keeps the invariant.
LEMMA QueueSteps ==
  ASSUME IInv, NEW p \in Payments, QueueStep(p)
  PROVE  Hands' /\ Rows'
<1>1. CASE UNCHANGED event
  <2>1. Hands'  BY <1>1, QueueStepRow, HandsAlone
  <2>2. PostedIsRecorded'  BY <1>1, QueueStepRow, RecordsKept
  <2>3. RecordsAreAccounted'  BY QueueStepRow DEF IInv, Rows, RecordsAreAccounted
  <2> QED  BY <2>1, <2>2, <2>3, QueueStepRow DEF Rows
<1>2. CASE ~UNCHANGED event
  BY <1>2, QueueStepRow, RowStep DEF Rows
<1> QED  BY <1>1, <1>2

\* A claim keeps it.
LEMMA ClaimStep ==
  ASSUME IInv, NEW w \in Workers, NEW p \in Payments, Claim(w, p)
  PROVE  Hands' /\ Rows'
<1> USE DEF IInv, Rows
<1>1. event[p].status \in {"PENDING", "FAILED"}  BY DEF Claim, Claimable
<1>2. /\ event'[p].status = "PROCESSING" /\ event'[p].owner = w
      /\ \A q \in Payments \ {p} : event'[q] = event[q]
  BY ClaimedRow, RowsTyped DEF Claim
<1>3. /\ worker'[w].pc = "lookup" /\ worker'[w].item = p
      /\ \A v \in Workers \ {w} : worker'[v] = worker[v]
  BY ClaimingWorker
<1>4. UNCHANGED <<handled, books, misread>>  BY DEF Claim
<1>5. Unqueued'  BY <1>1, <1>2, <1>4 DEF Unqueued
<1>6. \A v \in Workers : Working(v) => worker[v].item # p  BY <1>1, InNoHands
<1>7. OthersAlone(w)  BY <1>2, <1>3, <1>6, ItemInHand DEF OthersAlone
<1>8. OwnOnly(w)  BY <1>4 DEF OwnOnly
<1>9. Hands'
  <2>1. Working(w)'  BY <1>3 DEF Working
  <2> QED  BY <1>2, <1>3, <1>6, <1>7, <1>8, <2>1, OwnStep
<1>10. PostedIsRecorded'  BY <1>2, <1>4, RecordsKept
<1>11. RecordsAreAccounted'  BY <1>4 DEF RecordsAreAccounted
<1> QED  BY <1>5, <1>9, <1>10, <1>11

\* A step that leaves the rows and the books alone keeps it, when the worker
\* either puts its event down or goes on with it to a place that asks nothing.
LEMMA QuietStep ==
  ASSUME IInv, NEW w \in Workers, UNCHANGED <<handled, event, books, misread>>,
         \A v \in Workers \ {w} : worker'[v] = worker[v],
         \/ worker'[w].pc \in {"idle", "down"} /\ worker'[w].item = Nothing
         \/ /\ Working(w) /\ worker[w].pc # "failed"
            /\ worker'[w].pc \in {"failed", "refused"}
            /\ worker'[w].item = worker[w].item
  PROVE  Hands' /\ Rows'
<1> USE DEF IInv, Rows
<1>1. Unqueued' /\ RecordsAreAccounted'  BY DEF Unqueued, RecordsAreAccounted
<1>2. OthersAlone(w) /\ OwnOnly(w)  BY DEF OthersAlone, OwnOnly
<1>3. Hands'
  <2>1. CASE worker'[w].pc \in {"idle", "down"} /\ worker'[w].item = Nothing
    <3>1. ~Working(w)'  BY <2>1 DEF Working
    <3> QED  BY <1>2, <2>1, <3>1, OwnStep
  <2>2. CASE /\ Working(w) /\ worker[w].pc # "failed"
             /\ worker'[w].pc \in {"failed", "refused"}
             /\ worker'[w].item = worker[w].item
    <3>1. \A v \in Workers \ {w} : Working(v) => worker[v].item # worker[w].item
      BY <2>2 DEF Hands, HeldByOne
    <3>2. /\ worker'[w].item \in Payments
          /\ event'[worker'[w].item].status = "PROCESSING"
          /\ event'[worker'[w].item].owner = w
      BY <2>2, ItemInHand
    <3>3. Working(w)'  BY <2>2 DEF Working
    <3> QED  BY <1>2, <2>2, <3>1, <3>2, <3>3, OwnStep
  <2> QED  BY <2>1, <2>2
<1>4. PostedIsRecorded'  BY RecordsKept
<1> QED  BY <1>1, <1>3, <1>4

\* The lookup keeps it: a post follows an absence, or an answer that hid one.
LEMMA LookupStep ==
  ASSUME IInv, NEW w \in Workers, FindByReference(w)
  PROVE  Hands' /\ Rows'
<1> USE DEF IInv, Rows
<1> DEFINE p == worker[w].item
<1>1. Working(w) /\ worker[w].pc = "lookup" /\ UNCHANGED <<handled, event, books>>
  BY DEF FindByReference, Working
<1>2. p \in Payments /\ event[p].status = "PROCESSING" /\ event[p].owner = w
  BY <1>1, ItemInHand
<1>3. \A v \in Workers \ {w} : Working(v) => worker[v].item # p
  BY <1>1 DEF Hands, HeldByOne
<1>4. books[p] \in Nat /\ misread[p] \in Nat /\ books[p] <= 1 + misread[p]
  BY <1>2, QueueAssumption DEF TypeOK, RecordsAreAccounted
<1>5. Unqueued' /\ PostedIsRecorded'
  BY <1>1, RecordsKept DEF Unqueued
<1>6. ASSUME \/ UNCHANGED misread
             \/ misread' = [misread EXCEPT ![p] = @ + 1],
             \A v \in Workers \ {w} : worker'[v] = worker[v]
      PROVE  OthersAlone(w) /\ OwnOnly(w) /\ RecordsAreAccounted'
  <2>1. OthersAlone(w)  BY <1>1, <1>6 DEF OthersAlone
  <2>2. \A q \in Payments : misread'[q] = misread[q] \/ misread'[q] = misread[q] + 1
    BY <1>6 DEF TypeOK
  <2>3. OwnOnly(w)  BY <1>1, <2>2 DEF OwnOnly
  <2>4. RecordsAreAccounted'
    <3> SUFFICES ASSUME NEW q \in Payments  PROVE books'[q] <= 1 + misread'[q]
      BY DEF RecordsAreAccounted
    <3>1. books[q] \in Nat /\ misread[q] \in Nat /\ books[q] <= 1 + misread[q]
      BY QueueAssumption DEF TypeOK, RecordsAreAccounted
    <3> QED  BY <1>1, <2>2, <3>1
  <2> QED  BY <2>1, <2>3, <2>4
<1>7. CASE Goes(w, "failed") /\ UNCHANGED misread
  <2>1. /\ worker'[w].pc = "failed" /\ worker'[w].item = p
        /\ \A v \in Workers \ {w} : worker'[v] = worker[v]
    BY <1>7, GoesWorker
  <2> QED  BY <1>1, <1>7, <2>1, QuietStep
<1>8. ASSUME Goes(w, "post"), books[p] <= misread'[p],
             \/ UNCHANGED misread
             \/ misread' = [misread EXCEPT ![p] = @ + 1]
      PROVE  Hands' /\ Rows'
  <2>1. /\ worker'[w].pc = "post" /\ worker'[w].item = p
        /\ \A v \in Workers \ {w} : worker'[v] = worker[v]
    BY <1>8, GoesWorker
  <2>2. OthersAlone(w) /\ OwnOnly(w) /\ RecordsAreAccounted'  BY <1>6, <1>8, <2>1
  <2>3. Working(w)'  BY <2>1 DEF Working
  <2>4. Hands'  BY <1>1, <1>2, <1>3, <1>8, <2>1, <2>2, <2>3, OwnStep
  <2> QED  BY <1>5, <2>2, <2>4
<1>9. CASE Matches(p) = {} /\ Goes(w, "post") /\ UNCHANGED misread
  <2>1. ~(books[p] > 0)  BY <1>2, <1>9 DEF Matches
  <2>2. books[p] <= misread[p]  BY <1>4, <2>1
  <2> QED  BY <1>8, <1>9, <2>2
<1>10. CASE Misreads(w)
  <2>1. Goes(w, "post") /\ misread' = [misread EXCEPT ![p] = @ + 1]
    BY <1>10 DEF Misreads
  <2>2. misread'[p] = misread[p] + 1  BY <1>2, <2>1 DEF TypeOK
  <2>3. books[p] <= misread'[p]  BY <1>4, <2>2
  <2> QED  BY <1>8, <2>1, <2>3
<1>11. ASSUME NEW q \in Matches(p), Finds(w, q), UNCHANGED misread
       PROVE  Hands' /\ Rows'
  <2>1. q \in Payments  BY DEF Matches
  <2>2. /\ worker'[w].pc = "save" /\ worker'[w].item = p /\ worker'[w].found = q
        /\ \A v \in Workers \ {w} : worker'[v] = worker[v]
    BY <1>11, <2>1, FindsWorker
  <2>3. OthersAlone(w) /\ OwnOnly(w) /\ RecordsAreAccounted'  BY <1>6, <1>11, <2>2
  <2>4. (worker[w].found \in Matches(worker[w].item))'  BY <1>1, <2>2 DEF Matches
  <2>5. Working(w)'  BY <2>2 DEF Working
  <2>6. Hands'  BY <1>1, <1>2, <1>3, <2>2, <2>3, <2>4, <2>5, OwnStep
  <2> QED  BY <1>5, <2>3, <2>6
<1> QED  BY <1>7, <1>9, <1>10, <1>11 DEF FindByReference

\* The post keeps it: one more record at most than answers were misread.
LEMMA PostStep ==
  ASSUME IInv, NEW w \in Workers, Post(w)
  PROVE  Hands' /\ Rows'
<1> USE DEF IInv, Rows
<1> DEFINE p == worker[w].item
<1>1. Working(w) /\ worker[w].pc = "post" /\ UNCHANGED <<handled, event, misread>>
  BY DEF Post, Working
<1>2. p \in Payments /\ event[p].status = "PROCESSING" /\ event[p].owner = w
  BY <1>1, ItemInHand
<1>3. books \in [Payments -> Nat] /\ misread[p] \in Nat /\ books[p] <= misread[p]
  BY <1>1, <1>2, QueueAssumption DEF Hands, PostIsDue, TypeOK
<1>4. ASSUME UNCHANGED books, Goes(w, "failed") \/ Goes(w, "refused")
      PROVE  Hands' /\ Rows'
  <2>1. /\ worker'[w].pc \in {"failed", "refused"} /\ worker'[w].item = p
        /\ \A v \in Workers \ {w} : worker'[v] = worker[v]
    BY <1>4, GoesWorker
  <2> QED  BY <1>1, <1>4, <2>1, QuietStep
<1>5. ASSUME books' = [books EXCEPT ![p] = @ + 1],
             worker'[w].pc = "failed" \/ (worker'[w].pc = "save" /\ worker'[w].found = p),
             worker'[w].item = p,
             \A v \in Workers \ {w} : worker'[v] = worker[v]
      PROVE  Hands' /\ Rows'
  <2>1. books'[p] = books[p] + 1 /\ \A q \in Payments \ {p} : books'[q] = books[q]
    BY <1>2, <1>3, <1>5
  <2>2. OwnOnly(w)  BY <1>1, <2>1 DEF OwnOnly
  <2>3. OthersAlone(w)  BY <1>1, <1>5 DEF OthersAlone
  <2>4. \A v \in Workers \ {w} : Working(v) => worker[v].item # p
    BY <1>1 DEF Hands, HeldByOne
  <2>5. worker'[w].pc = "save" => (worker[w].found \in Matches(worker[w].item))'
    <3>1. books'[p] > 0  BY <1>2, <1>3, <2>1
    <3> QED  BY <1>2, <1>5, <3>1 DEF Matches
  <2>6. Working(w)' /\ worker'[w].pc # "post"  BY <1>5 DEF Working
  <2>7. Hands'  BY <1>1, <1>2, <1>5, <2>2, <2>3, <2>4, <2>5, <2>6, OwnStep
  <2>8. PostedIsRecorded'  BY <1>1, <2>1, RecordsKept
  <2>9. RecordsAreAccounted'
    <3>1. books'[p] <= 1 + misread'[p]  BY <1>1, <1>2, <1>3, <2>1
    <3> QED  BY <1>1, <2>1, <3>1 DEF RecordsAreAccounted
  <2>10. Unqueued'  BY <1>1 DEF Unqueued
  <2> QED  BY <2>7, <2>8, <2>9, <2>10
<1>6. CASE Finds(w, p) /\ books' = [books EXCEPT ![p] = @ + 1]
  <2>1. /\ worker'[w].pc = "save" /\ worker'[w].item = p /\ worker'[w].found = p
        /\ \A v \in Workers \ {w} : worker'[v] = worker[v]
    BY <1>2, <1>6, FindsWorker
  <2> QED  BY <1>5, <1>6, <2>1
<1>7. CASE Goes(w, "failed") /\ books' = [books EXCEPT ![p] = @ + 1]
  <2>1. /\ worker'[w].pc = "failed" /\ worker'[w].item = p
        /\ \A v \in Workers \ {w} : worker'[v] = worker[v]
    BY <1>7, GoesWorker
  <2> QED  BY <1>5, <1>7, <2>1
<1> QED  BY <1>4, <1>6, <1>7 DEF Post

\* Writing the outcome down keeps it, whether or not the worker hears of it.
LEMMA PostedStep ==
  ASSUME IInv, NEW w \in Workers, worker[w].pc = "save", Posted(w),
         UNCHANGED <<handled, books, misread>>,
         \A v \in Workers \ {w} : worker'[v] = worker[v],
         \/ worker'[w].pc = "idle" /\ worker'[w].item = Nothing
         \/ worker'[w].pc = "failed" /\ worker'[w].item = worker[w].item
  PROVE  Hands' /\ Rows'
<1> USE DEF IInv, Rows
<1> DEFINE p == worker[w].item
<1>1. Working(w)  BY DEF Working
<1>2. p \in Payments /\ event[p].status = "PROCESSING" /\ event[p].owner = w
  BY <1>1, ItemInHand
<1>3. /\ event'[p].status = "POSTED" /\ event'[p].record = worker[w].found
      /\ \A q \in Payments \ {p} : event'[q] = event[q]
  BY <1>2, PostedRow
<1>4. worker[w].found \in Matches(p)  BY DEF Hands, FoundIsThere
<1>5. \A v \in Workers \ {w} : Working(v) => worker[v].item # p
  BY <1>1 DEF Hands, HeldByOne
<1>6. OthersAlone(w)  BY <1>3, <1>5, ItemInHand DEF OthersAlone
<1>7. OwnOnly(w)  BY DEF OwnOnly
<1>8. Hands'
  <2>1. CASE worker'[w].pc = "idle" /\ worker'[w].item = Nothing
    <3>1. ~Working(w)'  BY <2>1 DEF Working
    <3> QED  BY <1>6, <1>7, <2>1, <3>1, OwnStep
  <2>2. CASE worker'[w].pc = "failed" /\ worker'[w].item = p
    <3>1. Working(w)'  BY <2>2 DEF Working
    <3> QED  BY <1>2, <1>3, <1>5, <1>6, <1>7, <2>2, <3>1, OwnStep
  <2> QED  BY <2>1, <2>2
<1>9. PostedIsRecorded'  BY <1>3, <1>4, RecordsKept
<1>10. Unqueued'  BY <1>2, <1>3 DEF Unqueued
<1>11. RecordsAreAccounted'  BY DEF RecordsAreAccounted
<1> QED  BY <1>8, <1>9, <1>10, <1>11

\* Writing down a failure keeps it.
LEMMA FailureStep ==
  ASSUME IInv, NEW w \in Workers, RecordFailure(w)
  PROVE  Hands' /\ Rows'
<1> USE DEF IInv, Rows
<1> DEFINE p == worker[w].item
<1>1. Working(w) /\ UNCHANGED <<handled, books, misread>>  BY DEF RecordFailure, Working
<1>2. p \in Payments /\ event[p].status # "none"  BY <1>1, ItemInHand
<1>3. /\ event'[p].status \in {"DEAD", "FAILED"}
      /\ \A q \in Payments \ {p} : event'[q] = event[q]
  BY <1>2, FailedRow
<1>4. /\ worker'[w].pc = "idle" /\ worker'[w].item = Nothing
      /\ \A v \in Workers \ {w} : worker'[v] = worker[v]
  BY EmptyWorker DEF RecordFailure
<1>5. \A v \in Workers \ {w} : Working(v) => worker[v].item # p
  BY <1>1 DEF Hands, HeldByOne
<1>6. OthersAlone(w)  BY <1>3, <1>4, <1>5, ItemInHand DEF OthersAlone
<1>7. OwnOnly(w)  BY <1>1 DEF OwnOnly
<1>8. Hands'
  <2>1. ~Working(w)'  BY <1>4 DEF Working
  <2> QED  BY <1>4, <1>6, <1>7, <2>1, OwnStep
<1>9. PostedIsRecorded'  BY <1>1, <1>3, RecordsKept
<1>10. Unqueued'  BY <1>1, <1>2, <1>3 DEF Unqueued
<1>11. RecordsAreAccounted'  BY <1>1 DEF RecordsAreAccounted
<1> QED  BY <1>8, <1>9, <1>10, <1>11

\* A start keeps it: the rows it releases are in nobody's hands.
LEMMA StartStep ==
  ASSUME IInv, NEW w \in Workers, Start(w)
  PROVE  Hands' /\ Rows'
<1> USE DEF IInv, Rows
<1>1. UNCHANGED <<handled, books, misread>>  BY DEF Start
<1>2. /\ \A p \in Held(w) : event'[p].status = "FAILED"
      /\ \A p \in Payments \ Held(w) : event'[p] = event[p]
  BY StartedRows, RowsTyped
<1>3. /\ worker'[w].pc = "idle" /\ worker'[w].item = Nothing
      /\ \A v \in Workers \ {w} : worker'[v] = worker[v]
  BY EmptyWorker DEF Start
<1>4. ASSUME NEW v \in Workers \ {w}, Working(v)
      PROVE  event'[worker[v].item] = event[worker[v].item]
  <2>1. worker[v].item \in Payments /\ worker[v].item \notin Held(w)
    BY <1>4, ItemInHand DEF Held
  <2> QED  BY <1>2, <2>1
<1>5. OthersAlone(w)  BY <1>3, <1>4 DEF OthersAlone
<1>6. OwnOnly(w)  BY <1>1 DEF OwnOnly
<1>7. Hands'
  <2>1. ~Working(w)'  BY <1>3 DEF Working
  <2> QED  BY <1>3, <1>5, <1>6, <2>1, OwnStep
<1>8. PostedIsRecorded'
  <2>1. \A p \in Payments : event'[p].status = "POSTED" => event'[p] = event[p]  BY <1>2
  <2> QED  BY <1>1, <2>1, RecordsKept
<1>9. Unqueued'  BY <1>1, <1>2 DEF Unqueued, Held
<1>10. RecordsAreAccounted'  BY <1>1 DEF RecordsAreAccounted
<1> QED  BY <1>7, <1>8, <1>9, <1>10

-----------------------------------------------------------------------------
(* Types.                                                                  *)

\* The queue starts well typed.
LEMMA InitType == Init => TypeOK
<1> SUFFICES ASSUME Init PROVE TypeOK
  OBVIOUS
<1>1. 0 \in 0 .. MaxMisreads /\ 0 \in 0 .. MaxStops /\ 0 \in 0 .. MaxRetries
  BY QueueAssumption
<1>2. NoEvent \in Event  BY EventBuilt DEF NoEvent, Statuses
<1>3. Empty("idle") \in Worker  BY EmptyType
<1>4. NoEvent.status # "PROCESSING" /\ NoEvent.owner = Nobody  BY DEF NoEvent
<1> QED  BY <1>1, <1>2, <1>3, <1>4 DEF Init, TypeOK

\* Every step keeps the types.
LEMMA StepType ==
  ASSUME IInv, [Next]_vars
  PROVE  TypeOK'
<1> USE DEF TypeOK
<1>1. RowsOK /\ TypeOK  BY RowsTyped DEF IInv
<1>2. ASSUME RowsOK', worker' \in [Workers -> Worker],
             UNCHANGED <<handled, books, misread, retries, stops>>
      PROVE  TypeOK'
  BY <1>1, <1>2 DEF RowsOK, Shaped
<1>3. ASSUME NEW p \in Payments, QueueStep(p)  PROVE  TypeOK'
  <2>1. handled' \subseteq Payments /\ stops' = stops
    BY <1>1, <1>3
       DEF QueueStep, EnqueuePayment, NeverQueued, Retry, ComesDue, ClaimReplyLost
  <2>2. retries' \in 0 .. MaxRetries
    <3>1. retries' = retries \/ (retries < MaxRetries /\ retries' = retries + 1)
      BY <1>3
         DEF QueueStep, EnqueuePayment, NeverQueued, Retry, ComesDue, ClaimReplyLost
    <3> QED  BY <1>1, <3>1, QueueAssumption
  <2>3. RowsOK' /\ UNCHANGED <<worker, books, misread>>  BY <1>3, QueueStepRow
  <2> QED  BY <1>1, <2>1, <2>2, <2>3 DEF RowsOK, Shaped
<1>4. ASSUME NEW w \in Workers, NEW p \in Payments, Claim(w, p)  PROVE  TypeOK'
  <2>1. RowsOK' /\ worker' \in [Workers -> Worker]
    BY <1>1, <1>4, ClaimedRow, ClaimingWorker DEF Claim
  <2> QED  BY <1>2, <1>4, <2>1 DEF Claim
<1>5. ASSUME NEW w \in Workers, FindByReference(w)  PROVE  TypeOK'
  <2> DEFINE p == worker[w].item
  <2>1. Working(w)  BY <1>5 DEF FindByReference, Working
  <2>2. p \in Payments  BY <2>1, ItemInHand
  <2>3. CASE Misreads(w)
    <3>1. worker' \in [Workers -> Worker]  BY <1>1, <2>3, GoesWorker DEF Misreads
    <3>2. misread' \in [Payments -> 0 .. MaxMisreads]
      <4>1. misread[p] \in 0 .. MaxMisreads /\ misread[p] < MaxMisreads
        BY <1>1, <2>2, <2>3 DEF Misreads
      <4>2. misread[p] + 1 \in 0 .. MaxMisreads  BY <4>1, QueueAssumption
      <4>3. misread' = [misread EXCEPT ![p] = misread[p] + 1]  BY <2>3 DEF Misreads
      <4> QED  BY <1>1, <4>2, <4>3
    <3> QED  BY <1>1, <1>5, <3>1, <3>2 DEF FindByReference, RowsOK
  <2>4. CASE UNCHANGED misread /\ worker' \in [Workers -> Worker]
    BY <1>1, <1>5, <2>4 DEF FindByReference
  <2>5. ASSUME NEW q \in Matches(p), Finds(w, q)  PROVE worker' \in [Workers -> Worker]
    <3>1. q \in Payments  BY DEF Matches
    <3> QED  BY <1>1, <2>5, <3>1, FindsWorker
  <2>6. ASSUME Goes(w, "post") \/ Goes(w, "failed")  PROVE worker' \in [Workers -> Worker]
    BY <1>1, <2>6, GoesWorker
  <2> QED  BY <1>5, <2>3, <2>4, <2>5, <2>6 DEF FindByReference
<1>6. ASSUME NEW w \in Workers, Post(w)  PROVE  TypeOK'
  <2>1. Working(w)  BY <1>6 DEF Post, Working
  <2>2. worker[w].item \in Payments  BY <2>1, ItemInHand
  <2>3. worker' \in [Workers -> Worker]
    <3>1. CASE Finds(w, worker[w].item)  BY <1>1, <2>2, <3>1, FindsWorker
    <3>2. CASE Goes(w, "failed")  BY <1>1, <3>2, GoesWorker
    <3>3. CASE Goes(w, "refused")  BY <1>1, <3>3, GoesWorker
    <3> QED  BY <1>6, <3>1, <3>2, <3>3 DEF Post
  <2>4. books' \in [Payments -> Nat]  BY <1>1, <1>6, <2>2 DEF Post
  <2> QED  BY <1>1, <1>6, <2>3, <2>4 DEF Post
<1>7. ASSUME NEW w \in Workers, SavePosted(w)  PROVE  TypeOK'
  <2>1. Working(w)  BY <1>7 DEF SavePosted, Working
  <2>2. worker[w].item \in Payments  BY <2>1, ItemInHand
  <2>3. RowsOK' /\ worker' \in [Workers -> Worker]
    BY <1>1, <1>7, <2>2, PostedRow, EmptyWorker DEF SavePosted
  <2> QED  BY <1>2, <1>7, <2>3 DEF SavePosted
<1>8. ASSUME NEW w \in Workers, SaveFails(w)  PROVE  TypeOK'
  <2>1. Working(w)  BY <1>8 DEF SaveFails, Working
  <2>2. worker[w].item \in Payments  BY <2>1, ItemInHand
  <2>3. RowsOK'
    <3>1. CASE UNCHANGED event  BY <1>1, <3>1 DEF RowsOK, Shaped
    <3>2. CASE Posted(w)  BY <1>1, <2>2, <3>2, PostedRow
    <3> QED  BY <1>8, <3>1, <3>2 DEF SaveFails
  <2>4. worker' \in [Workers -> Worker]  BY <1>1, <1>8, GoesWorker DEF SaveFails
  <2> QED  BY <1>2, <1>8, <2>3, <2>4 DEF SaveFails
<1>9. ASSUME NEW w \in Workers, RecordFailure(w)  PROVE  TypeOK'
  <2>1. Working(w)  BY <1>9 DEF RecordFailure, Working
  <2>2. worker[w].item \in Payments  BY <2>1, ItemInHand
  <2>3. RowsOK' /\ worker' \in [Workers -> Worker]
    BY <1>1, <1>9, <2>2, FailedRow, EmptyWorker DEF RecordFailure
  <2> QED  BY <1>2, <1>9, <2>3 DEF RecordFailure
<1>10. ASSUME NEW w \in Workers, Stumbles(w) \/ StartWithout(w)  PROVE  TypeOK'
  <2>1. worker' \in [Workers -> Worker]
    BY <1>1, <1>10, EmptyWorker DEF Stumbles, StartWithout
  <2>2. UNCHANGED <<handled, event, books, misread, retries, stops>>
    BY <1>10 DEF Stumbles, StartWithout
  <2>3. RowsOK'  BY <1>1, <2>2 DEF RowsOK, Shaped
  <2> QED  BY <1>2, <2>1, <2>2, <2>3
<1>11. ASSUME NEW w \in Workers, Stop(w)  PROVE  TypeOK'
  <2>1. stops' \in 0 .. MaxStops  BY <1>1, <1>11, QueueAssumption DEF Stop
  <2>2. worker' \in [Workers -> Worker]  BY <1>1, <1>11, EmptyWorker DEF Stop
  <2> QED  BY <1>1, <1>11, <2>1, <2>2 DEF Stop
<1>12. ASSUME NEW w \in Workers, Start(w)  PROVE  TypeOK'
  <2>1. RowsOK' /\ worker' \in [Workers -> Worker]
    BY <1>1, <1>12, StartedRows, EmptyWorker DEF Start
  <2> QED  BY <1>2, <1>12, <2>1 DEF Start
<1>13. CASE UNCHANGED vars  BY <1>1, <1>13 DEF vars
<1> QED
  BY <1>3, <1>4, <1>5, <1>6, <1>7, <1>8, <1>9, <1>10, <1>11, <1>12, <1>13
     DEF Next, QueueStep, Take, Drain

-----------------------------------------------------------------------------
(* Safety.                                                                 *)

\* The inductive invariant holds of a queue nothing was put in yet.
LEMMA InitIInv == Init => IInv
<1> SUFFICES ASSUME Init PROVE IInv
  OBVIOUS
<1>1. TypeOK  BY InitType
<1>2. \A w \in Workers : worker[w].pc = "idle" /\ worker[w].item = Nothing
  BY DEF Init, Empty
<1>3. \A p \in Payments : event[p].status = "none" /\ books[p] = 0 /\ misread[p] = 0
  BY DEF Init, NoEvent
<1>4. Hands
  BY <1>2 DEF Hands, InHand, HeldByOne, Working, PostIsDue, FoundIsThere
<1>5. Rows
  BY <1>3 DEF Rows, Unqueued, PostedIsRecorded, RecordsAreAccounted
<1> QED  BY <1>1, <1>4, <1>5 DEF IInv

\* Every step keeps the inductive invariant.
LEMMA StepIInv == IInv /\ [Next]_vars => IInv'
<1> SUFFICES ASSUME IInv, [Next]_vars PROVE IInv'
  OBVIOUS
<1>1. TypeOK'  BY StepType
<1>2. Hands' /\ Rows'
  <2>1. ASSUME NEW p \in Payments, QueueStep(p)  PROVE  Hands' /\ Rows'
    BY <2>1, QueueSteps
  <2>2. ASSUME NEW w \in Workers, Take(w)  PROVE  Hands' /\ Rows'
    BY <2>2, ClaimStep DEF Take
  <2>3. ASSUME NEW w \in Workers, FindByReference(w)  PROVE  Hands' /\ Rows'
    BY <2>3, LookupStep
  <2>4. ASSUME NEW w \in Workers, Post(w)  PROVE  Hands' /\ Rows'
    BY <2>4, PostStep
  <2>5. ASSUME NEW w \in Workers, SavePosted(w)  PROVE  Hands' /\ Rows'
    <3>1. /\ worker'[w].pc = "idle" /\ worker'[w].item = Nothing
          /\ \A v \in Workers \ {w} : worker'[v] = worker[v]
      BY <2>5, EmptyWorker DEF SavePosted, IInv
    <3> QED  BY <2>5, <3>1, PostedStep DEF SavePosted
  <2>6. ASSUME NEW w \in Workers, SaveFails(w)  PROVE  Hands' /\ Rows'
    <3>1. /\ Working(w) /\ worker[w].pc = "save"
          /\ UNCHANGED <<handled, books, misread>>
      BY <2>6 DEF SaveFails, Working
    <3>2. /\ worker'[w].pc = "failed" /\ worker'[w].item = worker[w].item
          /\ \A v \in Workers \ {w} : worker'[v] = worker[v]
      BY <2>6, GoesWorker DEF SaveFails, IInv
    <3>3. CASE UNCHANGED event  BY <3>1, <3>2, <3>3, QuietStep
    <3>4. CASE Posted(w)  BY <3>1, <3>2, <3>4, PostedStep
    <3> QED  BY <2>6, <3>3, <3>4 DEF SaveFails
  <2>7. ASSUME NEW w \in Workers, RecordFailure(w)  PROVE  Hands' /\ Rows'
    BY <2>7, FailureStep
  <2>8. ASSUME NEW w \in Workers, Stumbles(w) \/ Stop(w) \/ StartWithout(w)
        PROVE  Hands' /\ Rows'
    <3>1. UNCHANGED <<handled, event, books, misread>>
      BY <2>8 DEF Stumbles, Stop, StartWithout
    <3>2. /\ worker'[w].pc \in {"idle", "down"} /\ worker'[w].item = Nothing
          /\ \A v \in Workers \ {w} : worker'[v] = worker[v]
      BY <2>8, EmptyWorker DEF Stumbles, Stop, StartWithout, IInv
    <3> QED  BY <3>1, <3>2, QuietStep
  <2>9. ASSUME NEW w \in Workers, Start(w)  PROVE  Hands' /\ Rows'
    BY <2>9, StartStep
  <2>10. CASE UNCHANGED vars
    <3>1. Hands'  BY <2>10, HandsAlone DEF vars
    <3>2. Rows'
      BY <2>10 DEF vars, IInv, Rows, Unqueued, PostedIsRecorded, RecordsAreAccounted, Matches
    <3> QED  BY <3>1, <3>2
  <2> QED
    BY <2>1, <2>2, <2>3, <2>4, <2>5, <2>6, <2>7, <2>8, <2>9, <2>10 DEF Next, QueueStep, Drain
<1> QED  BY <1>1, <1>2 DEF IInv

\* The inductive invariant holds in every reachable state.
THEOREM Invariance == Spec => []IInv
  BY InitIInv, StepIInv, PTL DEF Spec

\* The state stays well typed.
THEOREM TypesHold == Spec => []TypeOK
<1>1. IInv => TypeOK  BY DEF IInv
<1> QED  BY <1>1, Invariance, PTL

\* A payment gets one record in Zoho, and another only for an answer that could
\* not be read: whatever answers and replies are lost, however many workers there
\* are, and whatever is restarted, retried and revived.
THEOREM NoNeedlessRecord == Spec => []RecordsAreAccounted
<1>1. IInv => RecordsAreAccounted  BY DEF IInv, Rows
<1> QED  BY <1>1, Invariance, PTL

\* What is marked POSTED names a record Zoho holds for its request.
THEOREM PostedTruthfully == Spec => []PostedIsRecorded
<1>1. IInv => PostedIsRecorded  BY DEF IInv, Rows
<1> QED  BY <1>1, Invariance, PTL

\* No two workers ever work on the same event.
THEOREM OneWorkerEach == Spec => []HeldByOne
<1>1. IInv => HeldByOne  BY DEF IInv, Hands
<1> QED  BY <1>1, Invariance, PTL

-----------------------------------------------------------------------------
(* Who touches a row that is POSTED.                                        *)

\* The worker that posted it writes down that it failed, having never heard that
\* its write got through.
IsUndone(p) ==
  /\ \E w \in Workers : worker[w].pc = "failed" /\ worker[w].item = p /\ RecordFailure(w)
  /\ event'[p].status \in {"FAILED", "DEAD"}
  /\ event'[p].record = event[p].record

\* Nobody else touches the row.
LEMMA PostedRowStays ==
  ASSUME IInv, [Next]_vars, NEW p \in Payments, event[p].status = "POSTED"
  PROVE  event'[p] = event[p] \/ IsUndone(p)
<1>1. ASSUME NEW q \in Payments, QueueStep(q)  PROVE  event'[p] = event[p]
  BY <1>1, QueueStepRow
<1>2. ASSUME NEW w \in Workers, Take(w)  PROVE  event'[p] = event[p]
  <2>1. PICK q \in Payments : Claim(w, q)  BY <1>2 DEF Take
  <2>2. event[q].status \in {"PENDING", "FAILED"}  BY <2>1 DEF Claim, Claimable
  <2> QED  BY <2>1, <2>2, ClaimedRow, RowsTyped DEF Claim, IInv
<1>3. ASSUME NEW w \in Workers, SavePosted(w) \/ SaveFails(w)
      PROVE  event'[p] = event[p]
  <2>1. Working(w) /\ worker[w].pc # "failed"  BY <1>3 DEF SavePosted, SaveFails, Working
  <2>2. worker[w].item \in Payments /\ event[worker[w].item].status = "PROCESSING"
    BY <2>1, ItemInHand
  <2> QED  BY <1>3, <2>2, PostedRow DEF SavePosted, SaveFails, IInv
<1>4. ASSUME NEW w \in Workers, RecordFailure(w)
      PROVE  event'[p] = event[p] \/ IsUndone(p)
  <2>1. Working(w)  BY <1>4 DEF RecordFailure, Working
  <2>2. worker[w].item \in Payments  BY <2>1, ItemInHand
  <2>3. CASE worker[w].item # p  BY <1>4, <2>2, <2>3, FailedRow DEF IInv
  <2>4. CASE worker[w].item = p
    <3>1. worker[w].pc = "failed"  BY <2>1, <2>4, ItemInHand
    <3> QED  BY <1>4, <2>4, <3>1, FailedRow DEF IsUndone, IInv
  <2> QED  BY <2>3, <2>4
<1>5. ASSUME NEW w \in Workers,
             \/ FindByReference(w) \/ Post(w) \/ Stumbles(w) \/ Stop(w) \/ StartWithout(w)
      PROVE  event'[p] = event[p]
  BY <1>5 DEF FindByReference, Post, Stumbles, Stop, StartWithout
<1>6. ASSUME NEW w \in Workers, Start(w)  PROVE  event'[p] = event[p]
  BY <1>6, StartedRows, RowsTyped DEF Held, IInv
<1>7. CASE UNCHANGED vars  BY <1>7 DEF vars
<1> QED  BY <1>1, <1>2, <1>3, <1>4, <1>5, <1>6, <1>7 DEF Next, QueueStep, Drain

\* A row that was written down as posted is written again by nobody but the worker
\* that wrote it and never heard so: not by a slow worker, one that was restarted,
\* or an operator's retry.  Even then it keeps the record it names.
OnlyItsWorkerUndoes ==
  [][\A p \in Payments : event[p].status = "POSTED" =>
       event'[p] = event[p] \/ IsUndone(p)]_vars

\* For any number of workers, restarts and revivals.
THEOREM PostedIsUndoneByItsWorker == Spec => OnlyItsWorkerUndoes
<1>1. IInv /\ [Next]_vars =>
        [\A p \in Payments : event[p].status = "POSTED" =>
           event'[p] = event[p] \/ IsUndone(p)]_vars
  BY PostedRowStays
<1> QED  BY <1>1, Invariance, PTL DEF Spec, OnlyItsWorkerUndoes

\* The only payment of its request.
Alone(p) == \A q \in Payments \ {p} : RequestOf[q] # RequestOf[p]

\* What the finding says of a second payment does not happen to one that is the
\* only one of its request: POSTED, it is in the books, and its event names its
\* own record.
LonePostedIsInTheBooks ==
  \A p \in Payments : event[p].status = "POSTED" /\ Alone(p) =>
    books[p] > 0 /\ event[p].record = p

\* Only instalments can be marked POSTED without a record of their own.
THEOREM LonePaymentsReachTheBooks == Spec => []LonePostedIsInTheBooks
<1>1. IInv => LonePostedIsInTheBooks
  <2> SUFFICES ASSUME IInv, NEW p \in Payments, event[p].status = "POSTED", Alone(p)
               PROVE  books[p] > 0 /\ event[p].record = p
    BY DEF LonePostedIsInTheBooks
  <2>1. event[p].record \in Matches(p)  BY DEF IInv, Rows, PostedIsRecorded
  <2> QED  BY <2>1 DEF Matches, Alone
<1> QED  BY <1>1, Invariance, PTL

-----------------------------------------------------------------------------
(* A request that is paid in instalments, with one worker.                 *)

\* Two payments of one request are in the books only if an answer about one of
\* them could not be read.
OneRecordEach ==
  \A p, q \in Payments :
    books[p] > 0 /\ books[q] > 0 /\ RequestOf[p] = RequestOf[q] =>
      p = q \/ misread[p] > 0 \/ misread[q] > 0

\* Between the lookup and the post there is no record under the reference, but
\* for one an answer hid.
LookedUp ==
  \A w \in Workers : worker[w].pc = "post" =>
    Matches(worker[w].item) = {} \/ misread[worker[w].item] > 0

\* Steps that leave the books alone and send nobody on to post.
LEMMA NothingPosted ==
  ASSUME OneRecordEach, LookedUp, UNCHANGED <<books, misread>>,
         \A w \in Workers : worker'[w].pc = "post" => worker'[w] = worker[w]
  PROVE  OneRecordEach' /\ LookedUp'
  BY DEF OneRecordEach, LookedUp, Matches

\* With one worker nothing comes between its lookup and its post.
LEMMA OneWorkerStep ==
  ASSUME \A v, w \in Workers : v = w, IInv, OneRecordEach, LookedUp, [Next]_vars
  PROVE  OneRecordEach' /\ LookedUp'
<1>0. TypeOK  BY DEF IInv
<1>1. ASSUME NEW p \in Payments, QueueStep(p)
      PROVE  OneRecordEach' /\ LookedUp'
  BY <1>1, NothingPosted, QueueStepRow
<1>2. ASSUME NEW w \in Workers, Take(w)  PROVE  OneRecordEach' /\ LookedUp'
  <2>1. PICK p \in Payments : Claim(w, p)  BY <1>2 DEF Take
  <2>2. /\ worker'[w].pc = "lookup"
        /\ \A v \in Workers \ {w} : worker'[v] = worker[v]
    BY <1>0, <2>1, ClaimingWorker
  <2>3. UNCHANGED <<books, misread>>  BY <2>1 DEF Claim
  <2> QED  BY <2>2, <2>3, NothingPosted
<1>3. ASSUME NEW w \in Workers, FindByReference(w)  PROVE  OneRecordEach' /\ LookedUp'
  <2> DEFINE p == worker[w].item
  <2>1. UNCHANGED books /\ Working(w)  BY <1>3 DEF FindByReference, Working
  <2>2. p \in Payments  BY <2>1, ItemInHand
  <2>3. CASE Matches(p) = {} /\ Goes(w, "post") /\ UNCHANGED misread
    <3>1. worker'[w].item = p /\ \A v \in Workers : v = w  BY <1>0, <2>3, GoesWorker
    <3>2. OneRecordEach'  BY <2>1, <2>3 DEF OneRecordEach
    <3>3. LookedUp'  BY <2>1, <2>3, <3>1 DEF LookedUp, Matches
    <3> QED  BY <3>2, <3>3
  <2>4. CASE Misreads(w)
    <3>1. worker'[w].item = p /\ \A v \in Workers : v = w
      BY <1>0, <2>4, GoesWorker DEF Misreads
    <3>2. misread' = [misread EXCEPT ![p] = misread[p] + 1] /\ misread[p] \in Nat
      BY <1>0, <2>2, <2>4, QueueAssumption DEF Misreads, TypeOK
    <3>3. misread'[p] > 0  BY <1>0, <2>2, <3>2 DEF TypeOK
    <3>4. \A q \in Payments : misread[q] > 0 => misread'[q] > 0
      BY <1>0, <3>2, <3>3 DEF TypeOK
    <3>5. OneRecordEach'  BY <2>1, <3>4 DEF OneRecordEach
    <3>6. LookedUp'  BY <3>1, <3>3 DEF LookedUp
    <3> QED  BY <3>5, <3>6
  <2>5. CASE Goes(w, "failed") /\ UNCHANGED misread
    <3>1. /\ worker'[w].pc = "failed"
          /\ \A v \in Workers \ {w} : worker'[v] = worker[v]
      BY <1>0, <2>5, GoesWorker
    <3> QED  BY <2>1, <2>5, <3>1, NothingPosted
  <2>6. ASSUME NEW q \in Matches(p), Finds(w, q), UNCHANGED misread
        PROVE  OneRecordEach' /\ LookedUp'
    <3>1. q \in Payments  BY DEF Matches
    <3>2. /\ worker'[w].pc = "save"
          /\ \A v \in Workers \ {w} : worker'[v] = worker[v]
      BY <1>0, <2>6, <3>1, FindsWorker
    <3> QED  BY <2>1, <2>6, <3>2, NothingPosted
  <2> QED  BY <1>3, <2>3, <2>4, <2>5, <2>6 DEF FindByReference
<1>4. ASSUME NEW w \in Workers, Post(w)  PROVE  OneRecordEach' /\ LookedUp'
  <2> DEFINE p == worker[w].item
  <2>1. Working(w) /\ worker[w].pc = "post" /\ UNCHANGED misread
    BY <1>4 DEF Post, Working
  <2>2. p \in Payments /\ (Matches(p) = {} \/ misread[p] > 0)
    BY <2>1, ItemInHand DEF LookedUp
  <2>3. /\ worker'[w].pc \in {"save", "failed", "refused"}
        /\ \A v \in Workers \ {w} : worker'[v] = worker[v]
    <3>1. CASE Finds(w, p)  BY <1>0, <2>2, <3>1, FindsWorker
    <3>2. CASE Goes(w, "failed")  BY <1>0, <3>2, GoesWorker
    <3>3. CASE Goes(w, "refused")  BY <1>0, <3>3, GoesWorker
    <3> QED  BY <1>4, <3>1, <3>2, <3>3 DEF Post
  <2>4. CASE UNCHANGED books  BY <2>1, <2>3, <2>4, NothingPosted
  <2>5. CASE books' = [books EXCEPT ![p] = @ + 1]
    <3>1. books \in [Payments -> Nat]  BY <1>0 DEF TypeOK
    <3>2. \A q \in Payments : q # p => books'[q] = books[q]  BY <2>5, <3>1
    <3>3. Matches(p) = {} =>
            \A q \in Payments : RequestOf[q] = RequestOf[p] => ~(books[q] > 0)
      BY DEF Matches
    <3>4. OneRecordEach'  BY <2>1, <2>2, <3>2, <3>3 DEF OneRecordEach
    <3>5. LookedUp'  BY <2>3 DEF LookedUp
    <3> QED  BY <3>4, <3>5
  <2> QED  BY <1>4, <2>4, <2>5 DEF Post
<1>5. ASSUME NEW w \in Workers, SavePosted(w) \/ RecordFailure(w) \/ Stumbles(w) \/ Start(w)
             \/ StartWithout(w) \/ Stop(w)
      PROVE  OneRecordEach' /\ LookedUp'
  <2>1. /\ worker'[w].pc \in {"idle", "down"}
        /\ \A v \in Workers \ {w} : worker'[v] = worker[v]
    BY <1>0, <1>5, EmptyWorker
       DEF SavePosted, RecordFailure, Stumbles, Start, StartWithout, Stop
  <2>2. UNCHANGED <<books, misread>>
    BY <1>5 DEF SavePosted, RecordFailure, Stumbles, Start, StartWithout, Stop
  <2> QED  BY <2>1, <2>2, NothingPosted
<1>6. ASSUME NEW w \in Workers, SaveFails(w)  PROVE  OneRecordEach' /\ LookedUp'
  <2>1. UNCHANGED <<books, misread>>  BY <1>6 DEF SaveFails
  <2>2. /\ worker'[w].pc = "failed"
        /\ \A v \in Workers \ {w} : worker'[v] = worker[v]
    BY <1>0, <1>6, GoesWorker DEF SaveFails
  <2> QED  BY <2>1, <2>2, NothingPosted
<1>7. CASE UNCHANGED vars  BY <1>7, NothingPosted DEF vars
<1> QED  BY <1>1, <1>2, <1>3, <1>4, <1>5, <1>6, <1>7 DEF Next, QueueStep, Drain

\* With one worker the finding is not a matter of timing: of all the payments of
\* a request at most one is ever in the books, unless an answer could not be read,
\* because each that comes after it adopts its record, whatever is retried,
\* restarted or revived.
THEOREM OneInstalmentIsBooked ==
  (\A v, w \in Workers : v = w) => (Spec => []OneRecordEach)
<1> SUFFICES ASSUME \A v, w \in Workers : v = w  PROVE Spec => []OneRecordEach
  OBVIOUS
<1>1. Init => OneRecordEach /\ LookedUp
  <2> SUFFICES ASSUME Init  PROVE OneRecordEach /\ LookedUp
    OBVIOUS
  <2>1. \A p \in Payments : books[p] = 0  BY DEF Init
  <2>2. \A w \in Workers : worker[w].pc = "idle"  BY DEF Init, Empty
  <2> QED  BY <2>1, <2>2 DEF OneRecordEach, LookedUp
<1>2. IInv /\ OneRecordEach /\ LookedUp /\ [Next]_vars => OneRecordEach' /\ LookedUp'
  BY OneWorkerStep
<1> QED  BY <1>1, <1>2, Invariance, PTL DEF Spec

-----------------------------------------------------------------------------
(* The promise.                                                             *)

\* What is shown and doubted, written out.
LEMMA ShownIs ==
  /\ Shown = [p \in Payments |-> Shown[p]]
  /\ Shown' = [p \in Payments |-> Shown'[p]]
  /\ \A p \in Payments :
       /\ Shown[p] = IF event[p].status = "POSTED" THEN event[p].record ELSE Nothing
       /\ Shown'[p] = IF event'[p].status = "POSTED" THEN event'[p].record ELSE Nothing
  BY DEF Shown

\* A worker has an event in hand exactly while it works.
LEMMA InHandOf ==
  ASSUME IInv, NEW w \in Workers, NEW p \in Payments, worker[w].item = p
  PROVE  Working(w)
  BY QueueAssumption DEF IInv, Hands, InHand

\* A step that leaves the books, what is POSTED and who doubts it alone.
LEMMA NothingShown ==
  ASSUME UNCHANGED <<books, misread>>,
         \A p \in Payments :
           \/ event[p].status # "POSTED" /\ event'[p].status # "POSTED"
           \/ /\ event'[p] = event[p]
              /\ \A w \in Workers : worker'[w].item = p <=> worker[w].item = p
  PROVE  UNCHANGED Promise!vars
<1>1. Shown' = Shown  BY DEF Shown
<1>2. Doubted' = Doubted  BY DEF Doubted
<1> QED  BY <1>1, <1>2 DEF Promise!vars

\* A lookup shows nothing; at most it is misread.
LEMMA LookupShowsNothing ==
  ASSUME IInv, NEW w \in Workers, FindByReference(w)
  PROVE  [Promise!Next]_(Promise!vars)
<1> DEFINE p == worker[w].item
<1>1. Working(w) /\ UNCHANGED <<event, books>>  BY DEF FindByReference, Working
<1>2. p \in Payments  BY <1>1, ItemInHand
<1>3. \A v \in Workers : worker'[v].item = worker[v].item
  <2>1. ASSUME NEW q \in Matches(p), Finds(w, q)
        PROVE  \A v \in Workers : worker'[v].item = worker[v].item
    <3>1. q \in Payments  BY DEF Matches
    <3> QED  BY <2>1, <3>1, FindsWorker DEF IInv
  <2>2. ASSUME Goes(w, "post") \/ Goes(w, "failed")
        PROVE  \A v \in Workers : worker'[v].item = worker[v].item
    BY <2>2, GoesWorker DEF IInv
  <2> QED  BY <2>1, <2>2 DEF FindByReference, Misreads
<1>4. UNCHANGED <<Shown, Doubted>>  BY <1>1, <1>3 DEF Shown, Doubted
<1>5. CASE UNCHANGED misread  BY <1>1, <1>4, <1>5 DEF Promise!vars
<1>6. CASE Misreads(w)
  <2>1. \E q \in Payments : books[q] > 0 /\ RequestOf[q] = RequestOf[p]
    BY <1>6 DEF Misreads, Matches
  <2>2. misread' = [misread EXCEPT ![p] = @ + 1]  BY <1>6 DEF Misreads
  <2>3. Promise!Misread(p)  BY <1>1, <1>4, <2>1, <2>2 DEF Promise!Misread
  <2> QED  BY <1>2, <2>3 DEF Promise!Next
<1> QED  BY <1>5, <1>6 DEF FindByReference

\* Zoho accepts a POST: the payment is entered, whatever becomes of the answer.
LEMMA PostEnters ==
  ASSUME IInv, NEW w \in Workers, Post(w)
  PROVE  [Promise!Next]_(Promise!vars)
<1> DEFINE p == worker[w].item
<1>1. Working(w) /\ worker[w].pc = "post" /\ UNCHANGED <<event, misread>>
  BY DEF Post, Working
<1>2. p \in Payments /\ books[p] <= misread[p]
  BY <1>1, ItemInHand DEF IInv, Hands, PostIsDue
<1>3. \A v \in Workers : worker'[v].item = worker[v].item
  BY <1>2, FindsWorker, GoesWorker DEF Post, IInv
<1>4. UNCHANGED <<Shown, Doubted>>  BY <1>1, <1>3 DEF Shown, Doubted
<1>5. CASE UNCHANGED books  BY <1>1, <1>4, <1>5 DEF Promise!vars
<1>6. CASE books' = [books EXCEPT ![p] = @ + 1]
  <2>1. Promise!Enter(p)  BY <1>1, <1>2, <1>4, <1>6 DEF Promise!Enter
  <2> QED  BY <1>2, <2>1 DEF Promise!Next
<1> QED  BY <1>5, <1>6 DEF Post

\* Writing down the outcome shows a record that is in the books; a worker that
\* does not hear of it doubts it.
LEMMA SaveShows ==
  ASSUME IInv, NEW w \in Workers, worker[w].pc = "save", Posted(w),
         UNCHANGED <<books, misread>>,
         \A v \in Workers \ {w} : worker'[v] = worker[v],
         worker'[w].item \in {Nothing, worker[w].item}
  PROVE  [Promise!Next]_(Promise!vars)
<1> DEFINE p == worker[w].item
           q == worker[w].found
<1>1. Working(w)  BY DEF Working
<1>2. p \in Payments /\ event[p].status = "PROCESSING"  BY <1>1, ItemInHand
<1>3. q \in Payments /\ books[q] > 0 /\ RequestOf[q] = RequestOf[p]
  BY DEF IInv, Hands, FoundIsThere, Matches
<1>4. /\ event'[p].status = "POSTED" /\ event'[p].record = q
      /\ \A r \in Payments \ {p} : event'[r] = event[r]
  BY <1>2, PostedRow DEF IInv
<1>5. \A v \in Workers \ {w} : worker[v].item # p
  BY <1>1, <1>2, InHandOf DEF IInv, Hands, HeldByOne
<1>6. Shown[p] = Nothing  BY <1>2, ShownIs
<1>7. Shown' = [Shown EXCEPT ![p] = q]
  <2>1. Shown'[p] = q  BY <1>2, <1>4, ShownIs
  <2>2. \A r \in Payments \ {p} : Shown'[r] = Shown[r]  BY <1>4, ShownIs
  <2> HIDE DEF p, q
  <2>3. Shown' = [r \in Payments |-> IF r = p THEN q ELSE Shown[r]]
    BY <1>2, <2>1, <2>2, ShownIs
  <2>4. [Shown EXCEPT ![p] = q] = [r \in Payments |-> IF r = p THEN q ELSE Shown[r]]
    BY ShownIs
  <2> QED  BY <2>3, <2>4
<1>8. Doubted' = Doubted \/ Doubted' = Doubted \cup {p}
  <2>1. p \notin Doubted  BY <1>2 DEF Doubted
  <2>2. ASSUME NEW r \in Payments \ {p}  PROVE r \in Doubted' <=> r \in Doubted
    <3>1. \A v \in Workers : worker'[v].item = r <=> worker[v].item = r
      BY <1>1, QueueAssumption
    <3> QED  BY <1>4, <3>1 DEF Doubted
  <2>3. Doubted \subseteq Payments /\ Doubted' \subseteq Payments  BY DEF Doubted
  <2> HIDE DEF p
  <2> QED  BY <1>2, <2>1, <2>2, <2>3
<1>9. Promise!Show(p, q)  BY <1>3, <1>6, <1>7, <1>8 DEF Promise!Show
<1> QED  BY <1>2, <1>3, <1>9 DEF Promise!Next

\* A worker that puts its event down takes back what it showed, or lets it stand.
LEMMA PutDown ==
  ASSUME IInv, NEW w \in Workers, UNCHANGED <<books, misread>>,
         worker'[w].item = Nothing,
         \A v \in Workers \ {w} : worker'[v] = worker[v],
         \A p \in Payments :
           \/ event'[p] = event[p]
           \/ worker[w].item = p /\ event'[p].status # "POSTED"
  PROVE  [Promise!Next]_(Promise!vars)
<1> DEFINE p == worker[w].item
<1>1. CASE p \in Payments /\ event[p].status = "POSTED"
  <2>1. Working(w)  BY <1>1, InHandOf
  <2>2. \A v \in Workers \ {w} : worker[v].item # p
    BY <1>1, <2>1, InHandOf DEF IInv, Hands, HeldByOne
  <2>3. p \in Doubted  BY <1>1 DEF Doubted
  <2>4. Doubted' = Doubted \ {p}
    <3>1. p \notin Doubted'
      BY <1>1, <2>2, QueueAssumption DEF Doubted
    <3>2. ASSUME NEW r \in Payments \ {p}  PROVE r \in Doubted' <=> r \in Doubted
      <4>1. \A v \in Workers : worker'[v].item = r <=> worker[v].item = r
        BY QueueAssumption
      <4> QED  BY <4>1 DEF Doubted
    <3>3. Doubted \subseteq Payments /\ Doubted' \subseteq Payments  BY DEF Doubted
    <3> HIDE DEF p
    <3> QED  BY <3>1, <3>2, <3>3
  <2>5. \A r \in Payments \ {p} : Shown'[r] = Shown[r]  BY ShownIs
  <2>6. CASE event'[p] = event[p]
    <3>1. Shown'[p] = Shown[p]  BY <1>1, <2>6, ShownIs
    <3>2. Shown' = Shown  BY <2>5, <3>1, ShownIs, Zenon
    <3>3. Promise!Settle(p)  BY <2>3, <2>4, <3>2 DEF Promise!Settle
    <3> QED  BY <1>1, <3>3 DEF Promise!Next
  <2>7. CASE event'[p].status # "POSTED"
    <3>1. Shown'[p] = Nothing  BY <1>1, <2>7, ShownIs
    <3>2. Shown' = [Shown EXCEPT ![p] = Nothing]
      <4> HIDE DEF p
      <4>1. Shown' = [r \in Payments |-> IF r = p THEN Nothing ELSE Shown[r]]
        BY <1>1, <2>5, <3>1, ShownIs
      <4>2. [Shown EXCEPT ![p] = Nothing]
              = [r \in Payments |-> IF r = p THEN Nothing ELSE Shown[r]]
        BY ShownIs
      <4> QED  BY <4>1, <4>2
    <3>3. Promise!Withdraw(p)  BY <2>3, <2>4, <3>2 DEF Promise!Withdraw
    <3> QED  BY <1>1, <3>3 DEF Promise!Next
  <2> QED  BY <1>1, <2>6, <2>7
<1>2. CASE ~(p \in Payments /\ event[p].status = "POSTED")
  <2>1. ASSUME NEW r \in Payments
        PROVE  \/ event[r].status # "POSTED" /\ event'[r].status # "POSTED"
               \/ /\ event'[r] = event[r]
                  /\ \A v \in Workers : worker'[v].item = r <=> worker[v].item = r
    <3>1. CASE r = p  BY <1>2, <3>1
    <3>2. CASE r # p  BY <3>2, QueueAssumption
    <3> QED  BY <3>1, <3>2
  <2> QED  BY <2>1, NothingShown
<1> QED  BY <1>1, <1>2

\* Every step of the queue is one of the promise, or nothing to it.
LEMMA StepsKeepPromise ==
  ASSUME IInv, [Next]_vars
  PROVE  [Promise!Next]_(Promise!vars)
<1>0. TypeOK  BY DEF IInv
<1>1. ASSUME NEW p \in Payments, QueueStep(p)  PROVE  UNCHANGED Promise!vars
  <2>1. \A q \in Payments :
          \/ event[q].status # "POSTED" /\ event'[q].status # "POSTED"
          \/ event'[q] = event[q]
    BY <1>1, QueueStepRow
  <2>2. UNCHANGED <<worker, books, misread>>  BY <1>1, QueueStepRow
  <2> QED  BY <2>1, <2>2, NothingShown
<1>2. ASSUME NEW w \in Workers, NEW p \in Payments, Claim(w, p)
      PROVE  UNCHANGED Promise!vars
  <2>1. /\ worker[w].item = Nothing
        /\ event[p].status \in {"PENDING", "FAILED"}
    BY <1>2 DEF IInv, Hands, InHand, Working, Claim, Claimable
  <2>2. /\ event'[p].status = "PROCESSING"
        /\ \A q \in Payments \ {p} : event'[q] = event[q]
    BY <1>0, <1>2, ClaimedRow, RowsTyped DEF Claim
  <2>3. worker'[w].item = p /\ \A v \in Workers \ {w} : worker'[v] = worker[v]
    BY <1>0, <1>2, ClaimingWorker
  <2>4. UNCHANGED <<books, misread>>  BY <1>2 DEF Claim
  <2>5. \A q \in Payments \ {p} : \A v \in Workers :
          worker'[v].item = q <=> worker[v].item = q
    BY <2>1, <2>3, QueueAssumption
  <2> QED  BY <2>1, <2>2, <2>4, <2>5, NothingShown
<1>3. ASSUME NEW w \in Workers, SavePosted(w)  PROVE  [Promise!Next]_(Promise!vars)
  <2>1. worker'[w].item = Nothing /\ \A v \in Workers \ {w} : worker'[v] = worker[v]
    BY <1>0, <1>3, EmptyWorker DEF SavePosted
  <2> QED  BY <1>3, <2>1, SaveShows DEF SavePosted
<1>4. ASSUME NEW w \in Workers, SaveFails(w)  PROVE  [Promise!Next]_(Promise!vars)
  <2>1. /\ worker'[w].item = worker[w].item
        /\ \A v \in Workers \ {w} : worker'[v] = worker[v]
    BY <1>0, <1>4, GoesWorker DEF SaveFails
  <2>2. CASE UNCHANGED event
    <3>1. \A v \in Workers : worker'[v].item = worker[v].item  BY <2>1
    <3>2. UNCHANGED <<books, misread>>  BY <1>4 DEF SaveFails
    <3>3. UNCHANGED Promise!vars  BY <2>2, <3>1, <3>2 DEF Promise!vars, Shown, Doubted
    <3> QED  BY <3>3
  <2>3. CASE Posted(w)  BY <1>4, <2>1, <2>3, SaveShows DEF SaveFails
  <2> QED  BY <1>4, <2>2, <2>3 DEF SaveFails
<1>5. ASSUME NEW w \in Workers, RecordFailure(w)  PROVE  [Promise!Next]_(Promise!vars)
  <2>1. Working(w)  BY <1>5 DEF RecordFailure, Working
  <2>2. worker[w].item \in Payments  BY <2>1, ItemInHand
  <2>3. /\ event'[worker[w].item].status \in {"DEAD", "FAILED"}
        /\ \A q \in Payments \ {worker[w].item} : event'[q] = event[q]
    BY <1>0, <1>5, <2>2, FailedRow
  <2>4. worker'[w].item = Nothing /\ \A v \in Workers \ {w} : worker'[v] = worker[v]
    BY <1>0, <1>5, EmptyWorker DEF RecordFailure
  <2>5. UNCHANGED <<books, misread>>  BY <1>5 DEF RecordFailure
  <2> QED  BY <2>3, <2>4, <2>5, PutDown
<1>6. ASSUME NEW w \in Workers, Stumbles(w) \/ Stop(w) \/ StartWithout(w)
      PROVE  [Promise!Next]_(Promise!vars)
  <2>1. worker'[w].item = Nothing /\ \A v \in Workers \ {w} : worker'[v] = worker[v]
    BY <1>0, <1>6, EmptyWorker DEF Stumbles, Stop, StartWithout
  <2>2. UNCHANGED <<event, books, misread>>  BY <1>6 DEF Stumbles, Stop, StartWithout
  <2> QED  BY <2>1, <2>2, PutDown
<1>7. ASSUME NEW w \in Workers, Start(w)  PROVE  UNCHANGED Promise!vars
  <2>1. /\ worker'[w].item = Nothing /\ worker[w].item = Nothing
        /\ \A v \in Workers \ {w} : worker'[v] = worker[v]
    BY <1>0, <1>7, EmptyWorker DEF Start, IInv, Hands, InHand, Working
  <2>2. /\ \A p \in Held(w) : event'[p].status = "FAILED"
        /\ \A p \in Payments \ Held(w) : event'[p] = event[p]
    BY <1>0, <1>7, StartedRows, RowsTyped
  <2>3. \A v \in Workers : worker'[v].item = worker[v].item  BY <2>1
  <2>4. UNCHANGED <<books, misread>>  BY <1>7 DEF Start
  <2>5. \A p \in Payments :
          \/ event[p].status # "POSTED" /\ event'[p].status # "POSTED"
          \/ event'[p] = event[p]
    BY <2>2 DEF Held
  <2> QED  BY <2>3, <2>4, <2>5, NothingShown
<1>8. CASE UNCHANGED vars
  BY <1>8 DEF vars, Promise!vars, Shown, Doubted
<1> QED
  BY <1>1, <1>2, <1>3, <1>4, <1>5, <1>6, <1>7, <1>8, LookupShowsNothing, PostEnters
     DEF Next, QueueStep, Take, Drain

\* The queue implements the promise, for any number of payments, workers, lost
\* and misread answers, restarts and revivals.
THEOREM QueueKeepsPromise == Spec => KeepsPromise
<1>1. Init => Promise!Init
  <2> SUFFICES ASSUME Init  PROVE Promise!Init
    OBVIOUS
  <2>1. \A p \in Payments : event[p].status = "none"  BY DEF Init, NoEvent
  <2>2. Shown = [p \in Payments |-> Nothing]  BY <2>1 DEF Shown
  <2>3. Doubted = {}  BY <2>1 DEF Doubted
  <2> QED  BY <2>2, <2>3 DEF Init, Promise!Init
<1>2. IInv /\ [Next]_vars => [Promise!Next]_(Promise!vars)
  BY StepsKeepPromise
<1> QED  BY <1>1, <1>2, Invariance, PTL DEF Spec, KeepsPromise, Promise!Spec
=============================================================================
