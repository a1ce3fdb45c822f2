----------------------------- MODULE ZohoQueue -----------------------------
(***************************************************************************)
(* Posting payments to Zoho Books.  A payment is committed first and queued *)
(* afterwards; a worker claims the event, asks Zoho whether a record with   *)
(* its reference exists, posts one if not, and writes the outcome down.     *)
(*                                                                         *)
(* Zoho is the environment: a call may fail, be refused, or take effect and *)
(* lose its answer, and an answer may be one the client cannot read.  A     *)
(* call that takes effect does so before the worker acts again.  So may a   *)
(* statement on the queue commit and its reply be lost.  The reference a    *)
(* record carries is that of the request the payment belongs to.            *)
(***************************************************************************)
EXTENDS Naturals

CONSTANTS
  Payments,       \* payments committed and not queued yet
  RequestOf,      \* the request each payment is against
  Workers,        \* worker processes, each keeping its id across restarts
  Nobody,         \* the owner of an event nobody holds
  Nothing,        \* no event in hand, no record found
  MaxAttempts,    \* MAX_ATTEMPTS
  MaxStops,       \* bound: how often a worker is stopped
  MaxRetries,     \* bound: how often an operator revives an event
  MaxMisreads     \* bound: how many answers about one payment are misread

VARIABLES
  handled,        \* payments whose call is past the attempt to queue them
  event,          \* rows of fin_zoho_events, one per payment
  worker,         \* what each worker process is doing
  books,          \* how many records Zoho holds for each payment
  misread,        \* how often an answer about each payment hid what Zoho holds
  stops, retries  \* counters behind two of the bounds

vars == <<handled, event, worker, books, misread, stops, retries>>

ASSUME QueueAssumption ==
  /\ RequestOf \in [Payments -> {RequestOf[p] : p \in Payments}]
  /\ MaxAttempts \in Nat \ {0}
  /\ MaxStops \in Nat /\ MaxRetries \in Nat /\ MaxMisreads \in Nat
  /\ Nobody \notin Workers
  /\ Nothing \notin Payments

Statuses == {"none", "PENDING", "FAILED", "PROCESSING", "POSTED", "DEAD", "SKIPPED"}

\* due: next_attempt_at has come.  A restart may revive an event that is out of
\* attempts, so nothing keeps attempts within MaxAttempts.
Event == [status : Statuses, due : BOOLEAN, attempts : Nat,
          owner : Workers \cup {Nobody}, record : Payments \cup {Nothing}]

\* tries: attempts in the row as claimed.  found: the record to write down.
Worker == [pc : {"down", "idle", "lookup", "post", "save", "failed", "refused"},
           item : Payments \cup {Nothing}, tries : Nat,
           found : Payments \cup {Nothing}]

\* The types, and that a row has an owner exactly while it is claimed.
TypeOK ==
  /\ handled \subseteq Payments
  /\ event \in [Payments -> Event]
  /\ worker \in [Workers -> Worker]
  /\ books \in [Payments -> Nat]
  /\ misread \in [Payments -> 0 .. MaxMisreads]
  /\ stops \in 0 .. MaxStops /\ retries \in 0 .. MaxRetries
  /\ \A p \in Payments : event[p].status = "PROCESSING" <=> event[p].owner # Nobody

NoEvent == [status |-> "none", due |-> FALSE, attempts |-> 0,
            owner |-> Nobody, record |-> Nothing]
Empty(pc) == [pc |-> pc, item |-> Nothing, tries |-> 0, found |-> Nothing]

Init ==
  /\ handled = {}
  /\ event = [p \in Payments |-> NoEvent]
  /\ worker = [w \in Workers |-> Empty("idle")]
  /\ books = [p \in Payments |-> 0]
  /\ misread = [p \in Payments |-> 0]
  /\ stops = 0 /\ retries = 0

-----------------------------------------------------------------------------
(* The API: queueing a payment once it is committed.  How payments are        *)
(* recorded is FinanceRequest's subject.                                     *)

\* A vendor payment without a vendor is SKIPPED, one without its accounts is
\* DEAD from the start, any other is due at once.
EnqueuePayment(p) ==
  /\ p \notin handled
  /\ handled' = handled \cup {p}
  /\ \E status \in {"PENDING", "SKIPPED", "DEAD"} :
       event' = [event EXCEPT ![p] = [NoEvent EXCEPT !.status = status, !.due = TRUE]]
  /\ UNCHANGED <<worker, books, misread, stops, retries>>

\* The insert fails, or the process dies before it: a line in a log.  The same
\* call is answered with the payment it finds, and queues nothing either.
NeverQueued(p) ==
  /\ p \notin handled
  /\ handled' = handled \cup {p}
  /\ UNCHANGED <<event, worker, books, misread, stops, retries>>

\* An operator puts a dead event back.
Retry(p) ==
  /\ retries < MaxRetries
  /\ event[p].status = "DEAD"
  /\ event' = [event EXCEPT ![p].status = "PENDING", ![p].due = TRUE, ![p].attempts = 0]
  /\ retries' = retries + 1
  /\ UNCHANGED <<handled, worker, books, misread, stops>>

ComesDue(p) ==
  /\ event[p].status = "FAILED" /\ ~event[p].due
  /\ event' = [event EXCEPT ![p].due = TRUE]
  /\ UNCHANGED <<handled, worker, books, misread, stops, retries>>

-----------------------------------------------------------------------------
(* The worker: one event at a time.                                         *)

\* A row that is not PROCESSING carries no lease, so the lease the query also
\* asks about never excludes one.
Claimable(p) == event[p].status \in {"PENDING", "FAILED"} /\ event[p].due

Claimed(w, p) == event' = [event EXCEPT ![p].status = "PROCESSING", ![p].owner = w,
                                         ![p].attempts = @ + 1]

Claim(w, p) ==
  /\ worker[w].pc = "idle"
  /\ Claimable(p)
  /\ Claimed(w, p)
  /\ worker' = [worker EXCEPT ![w] = [Empty("lookup") EXCEPT
                  !.item = p, !.tries = event[p].attempts + 1]]
  /\ UNCHANGED <<handled, books, misread, stops, retries>>

\* The claim commits and its reply is lost: the loop stumbles and goes on.
ClaimReplyLost(w, p) ==
  /\ worker[w].pc = "idle"
  /\ Claimable(p)
  /\ Claimed(w, p)
  /\ UNCHANGED <<handled, worker, books, misread, stops, retries>>

\* Zoho's records under the reference of p.
Matches(p) == {q \in Payments : books[q] > 0 /\ RequestOf[q] = RequestOf[p]}

Goes(w, pc) == worker' = [worker EXCEPT ![w].pc = pc]

Finds(w, q) == worker' = [worker EXCEPT ![w].pc = "save", ![w].found = q]

\* Zoho holds a record and the worker goes on as if there were none: an answer of
\* 200 whose body cannot be read counts as an empty list, and a record in it
\* without an id as no record.
Misreads(w) ==
  LET p == worker[w].item IN
  /\ Matches(p) # {}
  /\ misread[p] < MaxMisreads
  /\ misread' = [misread EXCEPT ![p] = @ + 1]
  /\ Goes(w, "post")

\* findByReference: the first record of the list is adopted.  A lookup that
\* fails with an error is a failed attempt, and not an absence.
FindByReference(w) ==
  /\ worker[w].pc = "lookup"
  /\ \/ /\ \/ \E q \in Matches(worker[w].item) : Finds(w, q)
           \/ Matches(worker[w].item) = {} /\ Goes(w, "post")
           \/ Goes(w, "failed")
        /\ UNCHANGED misread
     \/ Misreads(w)
  /\ UNCHANGED <<handled, event, books, stops, retries>>

\* As if an answer without a record counted as one.
Post_Bug(w) ==
  /\ worker[w].pc = "post"
  /\ \/ Finds(w, worker[w].item)
     \/ \E pc \in {"failed", "refused"} : Goes(w, pc)
  /\ UNCHANGED <<handled, event, books, misread, stops, retries>>

\* POST: accepted and answered; accepted with the answer lost or without an id;
\* not accepted, worth trying again; refused for good.
Post(w) ==
  /\ worker[w].pc = "post"
  /\ \/ Finds(w, worker[w].item) /\ books' = [books EXCEPT ![worker[w].item] = @ + 1]
     \/ Goes(w, "failed") /\ books' = [books EXCEPT ![worker[w].item] = @ + 1]
     \/ \E pc \in {"failed", "refused"} : Goes(w, pc) /\ UNCHANGED books
  /\ UNCHANGED <<handled, event, misread, stops, retries>>

Posted(w) == event' = [event EXCEPT ![worker[w].item].status = "POSTED",
                                    ![worker[w].item].owner = Nobody,
                                    ![worker[w].item].record = worker[w].found]

SavePosted(w) ==
  /\ worker[w].pc = "save"
  /\ Posted(w)
  /\ worker' = [worker EXCEPT ![w] = Empty("idle")]
  /\ UNCHANGED <<handled, books, misread, stops, retries>>

\* The write fails, or commits and its reply is lost: to the worker the attempt
\* has failed either way.
SaveFails(w) ==
  /\ worker[w].pc = "save"
  /\ UNCHANGED event \/ Posted(w)
  /\ Goes(w, "failed")
  /\ UNCHANGED <<handled, books, misread, stops, retries>>

GivesUp(w) == worker[w].pc = "refused" \/ worker[w].tries >= MaxAttempts

\* As if a recorded failure kept its lease.
RecordFailure_Bug(w) ==
  /\ worker[w].pc \in {"failed", "refused"}
  /\ event' = [event EXCEPT
       ![worker[w].item].status = IF GivesUp(w) THEN "DEAD" ELSE "FAILED",
       ![worker[w].item].due = FALSE]
  /\ worker' = [worker EXCEPT ![w] = Empty("idle")]
  /\ UNCHANGED <<handled, books, misread, stops, retries>>

\* As if a recorded failure started the count again.
RecordFailure_Bug2(w) ==
  /\ worker[w].pc \in {"failed", "refused"}
  /\ event' = [event EXCEPT ![worker[w].item].status = IF GivesUp(w) THEN "DEAD" ELSE "FAILED",
                            ![worker[w].item].owner = Nobody,
                            ![worker[w].item].attempts = 0]
  /\ worker' = [worker EXCEPT ![w] = Empty("idle")]
  /\ UNCHANGED <<handled, books, misread, stops, retries>>

\* By the id alone, whatever the row has become.
RecordFailure(w) ==
  /\ worker[w].pc \in {"failed", "refused"}
  /\ event' = [event EXCEPT
       ![worker[w].item].status = IF GivesUp(w) THEN "DEAD" ELSE "FAILED",
       ![worker[w].item].due = FALSE,
       ![worker[w].item].owner = Nobody]
  /\ worker' = [worker EXCEPT ![w] = Empty("idle")]
  /\ UNCHANGED <<handled, books, misread, stops, retries>>

\* The failure cannot be written either.  The loop goes on; the row stays.
Stumbles(w) ==
  /\ worker[w].pc \in {"failed", "refused"}
  /\ worker' = [worker EXCEPT ![w] = Empty("idle")]
  /\ UNCHANGED <<handled, event, books, misread, stops, retries>>

\* Killed, or told to stop: the shutdown does not wait for the event in hand.
Stop(w) ==
  /\ worker[w].pc # "down"
  /\ stops < MaxStops /\ stops' = stops + 1
  /\ worker' = [worker EXCEPT ![w] = Empty("down")]
  /\ UNCHANGED <<handled, event, books, misread, retries>>

\* As if a restarted worker released everybody's rows.
Held_Bug(w) == {p \in Payments : event[p].status = "PROCESSING"}

Held(w) == {p \in Payments : event[p].status = "PROCESSING" /\ event[p].owner = w}

\* reclaimOwn, and the start that goes on when it fails.
Start(w) ==
  /\ worker[w].pc = "down"
  /\ worker' = [worker EXCEPT ![w] = Empty("idle")]
  /\ event' = [p \in Payments |->
       IF p \in Held(w)
       THEN [event[p] EXCEPT !.status = "FAILED", !.due = TRUE, !.owner = Nobody]
       ELSE event[p]]
  /\ UNCHANGED <<handled, books, misread, stops, retries>>

StartWithout(w) ==
  /\ worker[w].pc = "down"
  /\ Held(w) # {}
  /\ worker' = [worker EXCEPT ![w] = Empty("idle")]
  /\ UNCHANGED <<handled, event, books, misread, stops, retries>>

Take(w) == \E p \in Payments : Claim(w, p)

Drain(w) ==
  \/ FindByReference(w)
  \/ Post(w)
  \/ SavePosted(w) \/ SaveFails(w)
  \/ RecordFailure(w) \/ Stumbles(w)

Next ==
  \/ \E p \in Payments :
       \/ EnqueuePayment(p) \/ NeverQueued(p)
       \/ Retry(p) \/ ComesDue(p)
  \/ \E w \in Workers, p \in Payments : ClaimReplyLost(w, p)
  \/ \E w \in Workers : Take(w) \/ Drain(w) \/ Stop(w) \/ Start(w) \/ StartWithout(w)

Spec == Init /\ [][Next]_vars

\* Time passes, and each worker is a loop that a supervisor restarts.
FairSpec ==
  /\ Spec
  /\ \A p \in Payments : WF_vars(ComesDue(p))
  /\ \A w \in Workers : WF_vars(Take(w)) /\ WF_vars(Drain(w)) /\ WF_vars(Start(w))

-----------------------------------------------------------------------------
(* Properties.                                                              *)

\* The hub shows of a payment the record its event names when POSTED.
Shown == [p \in Payments |->
            IF event[p].status = "POSTED" THEN event[p].record ELSE Nothing]

\* Payments that are shown and whose worker takes them for failed.
Doubted == {p \in Payments : /\ event[p].status = "POSTED"
                             /\ \E w \in Workers : worker[w].item = p}

Promise == INSTANCE PostingPromise WITH shown <- Shown, doubted <- Doubted

\* The queue implements PostingPromise: whatever answers and replies are lost,
\* whoever is restarted and whatever is revived, a payment is entered again only
\* for an answer that hid a record, what is shown as its record is in the books
\* under its reference, and only the worker that wrote it, and never heard that
\* it had, takes it back.
KeepsPromise == Promise!Spec

\* A POSTED event names a record Zoho holds under the reference of its request.
PostedIsRecorded ==
  \A p \in Payments : event[p].status = "POSTED" => event[p].record \in Matches(p)

\* Every POSTED payment is in the books.
PostedIsInTheBooks == \A p \in Payments : event[p].status = "POSTED" => books[p] > 0

Waiting(p) == event[p].status \in {"PENDING", "FAILED", "PROCESSING"}
Abandoned(w) == \E p \in Held(w) : worker[w].item # p

\* Once no more payments and revivals come, and both are bounded here, the queue
\* is emptied for good through lost answers and restarts: every payment queued
\* ends POSTED or in front of a person.  Provided no worker keeps for ever an
\* event it is no longer working on: only a start that reaches the database
\* releases such a row.
QueueDrains ==
  (\A w \in Workers : []<>~Abandoned(w)) => <>[](\A p \in Payments : ~Waiting(p))

-----------------------------------------------------------------------------
(* What the comments say, and the code does not do.                         *)

\* books-client.ts:262: "A failed lookup must not look like "not found", which
\* would licence creating a duplicate."  An unreadable answer does.
AtMostOnce == \A p \in Payments : books[p] <= 1

\* 0034_finance_zoho.sql:67: 'POSTED' means "Zoho has it, and we have its id",
\* 'FAILED' (68) "refused; will be retried".  What was posted and shown is marked
\* FAILED or DEAD by a worker that never heard that it was.
PostedStays ==
  [][\A p \in Payments : event[p].status = "POSTED" => event'[p].status = "POSTED"]_vars

\* 0034_finance_zoho.sql:49-50: "If that worker dies the lease expires and the row
\* becomes claimable again, rather than being stuck forever."  It does not: only
\* PENDING and FAILED rows are claimed.
NothingIsStuck == <>[](\A p \in Payments : ~Waiting(p))
=============================================================================
