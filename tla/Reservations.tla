---------------------------- MODULE Reservations ----------------------------
(***************************************************************************)
(* Booking one meeting room.  A call looks the booking up, checks that the  *)
(* room is free, and writes; other calls run between its steps.  The        *)
(* exclusion constraint of the table is part of the write.                  *)
(*                                                                         *)
(* Each booking has at most one guest, whose answer is kept beside it.      *)
(* Whether a live booking awaits approval changes nothing here.             *)
(***************************************************************************)
EXTENDS Slots

CONSTANTS
  Bookings,       \* rows there is room for
  Calls,          \* requests in flight
  Closes,         \* the room is open from 0 to this instant
  MinLength, MaxLength,   \* BOOKING_LIMITS
  Step,           \* STEP_MINUTES
  Changeover,     \* the room's buffer
  Blackouts,      \* periods the room is out of use
  Clock,          \* bound: the instants at which anything is done
  None            \* no booking yet

VARIABLES booking, call, now

vars == <<booking, call, now>>

ASSUME RoomAssumption ==
  /\ Closes \in Nat /\ Changeover \in Nat /\ Step \in Nat
  /\ MinLength \in Nat \ {0} /\ MaxLength \in Nat
  /\ Clock \subseteq Nat
  /\ IsFiniteSet(Bookings) /\ None \notin Bookings
  /\ IsFiniteSet(Blackouts)
  /\ \A w \in Blackouts : w \in [start : Int, end : Int] /\ w.start < w.end

Instants == 0 .. Closes

\* Periods assertBookable lets through: inside the opening hours of a day, and
\* neither too short nor too long.
Periods == {w \in [start : Instants, end : Instants] :
              w.end - w.start \in MinLength .. MaxLength}

NoBooking == [status |-> "none", period |-> None, guest |-> "none"]

\* guest: whether the guest has answered (accepted or declined); "none" where
\* nobody is invited.
Booking == {NoBooking} \cup
  [status : {"LIVE", "CANCELLED"}, period : Periods, guest : {"none", "INVITED", "ANSWERED"}]

Call == [pc : {"idle", "check", "write"},
         op : {"none", "create", "update", "cancel", "respond"},
         id : Bookings \cup {None}, period : Periods \cup {None}]
NoCall == [pc |-> "idle", op |-> "none", id |-> None, period |-> None]

TypeOK ==
  /\ booking \in [Bookings -> Booking]
  /\ call \in [Calls -> Call]
  /\ now \in Clock \cup {0}

Init ==
  /\ booking = [b \in Bookings |-> NoBooking]
  /\ call = [c \in Calls |-> NoCall]
  /\ now = 0

-----------------------------------------------------------------------------
(* What the queries see.                                                    *)

Live == {b \in Bookings : booking[b].status = "LIVE"}

Tagged(period, kind) == [start |-> period.start, end |-> period.end, kind |-> kind]

Busy == {Tagged(booking[b].period, "BOOKING") : b \in Live}
          \cup {Tagged(w, "BLACKOUT") : w \in Blackouts}

\* assertFree: a clash with any other live booking or blackout, widened.
Clashes(period, other) ==
  other.start < period.end + Changeover /\ other.end > period.start - Changeover

AssertFree(period, id) ==
  /\ \A b \in Live \ {id} : ~Clashes(period, booking[b].period)
  /\ \A w \in Blackouts : ~Clashes(period, w)

\* As if two bookings clashed only when they start together.
Excludes_Bug(b, row) ==
  /\ row.status = "LIVE"
  /\ \E a \in Live \ {b} : row.period.start = booking[a].period.start

\* The exclusion constraint, which knows of no buffer and no blackout.
Excludes(b, row) ==
  /\ row.status = "LIVE"
  /\ \E a \in Live \ {b} : Overlaps(row.period, booking[a].period)

\* The blocks the calendar draws, and the search finds in the way of a window.
Calendar == ComputeBlockedTimeline(Busy, Changeover)

-----------------------------------------------------------------------------
(* The calls.                                                               *)

At(c, pc, op) == call[c].pc = pc /\ call[c].op = op

Enters(c, pc, op, id, period) ==
  call' = [call EXCEPT ![c] = [pc |-> pc, op |-> op, id |-> id, period |-> period]]

Ends(c) == call' = [call EXCEPT ![c] = NoCall]

\* A write the constraint may refuse.
Writes(c, b, row) ==
  /\ IF Excludes(b, row) THEN UNCHANGED booking
     ELSE booking' = [booking EXCEPT ![b] = row]
  /\ Ends(c)
  /\ UNCHANGED now

\* A call whose check fails is refused, and leaves nothing behind.
Create(c, period) ==
  /\ call[c].pc = "idle"
  /\ period.start >= now
  /\ AssertFree(period, None)
  /\ Enters(c, "write", "create", None, period)
  /\ UNCHANGED <<booking, now>>

Insert(c) ==
  /\ At(c, "write", "create")
  /\ \E b \in Bookings, guest \in {"INVITED", "none"} :
       /\ booking[b].status = "none"
       /\ Writes(c, b, [status |-> "LIVE", period |-> call[c].period, guest |-> guest])

Update(c, b, period) ==
  /\ call[c].pc = "idle"
  /\ b \in Live
  /\ booking[b].period.end > now
  /\ period.start >= now
  /\ Enters(c, "check", "update", b, period)
  /\ UNCHANGED <<booking, now>>

\* An update has looked its booking up before it asks whether the room is free.
Check(c) ==
  /\ call[c].pc = "check"
  /\ IF AssertFree(call[c].period, call[c].id)
     THEN Enters(c, "write", "update", call[c].id, call[c].period)
     ELSE Ends(c)
  /\ UNCHANGED <<booking, now>>

\* As if the list were cleared and written again.
ReplaceAttendees_Bug(guest) == {"none", "INVITED"}

\* Who is kept on the list keeps the answer given; who is new is INVITED.
ReplaceAttendees(guest) == {guest, "none"} \cup (IF guest = "none" THEN {"INVITED"} ELSE {})

\* The statement names the row by its id alone: a booking cancelled meanwhile
\* is moved too, and stays cancelled.
Move(c) ==
  /\ At(c, "write", "update")
  /\ LET row == booking[call[c].id] IN
       \E guest \in ReplaceAttendees(row.guest) :
         Writes(c, call[c].id, [status |-> row.status, period |-> call[c].period, guest |-> guest])

\* Cancelling what is cancelled already changes nothing.
Cancel(c, b) ==
  /\ call[c].pc = "idle"
  /\ b \in Live
  /\ Enters(c, "write", "cancel", b, None)
  /\ UNCHANGED <<booking, now>>

\* As if cancelling took the row away and left its guest.
SetCancelled_Bug(c) ==
  /\ At(c, "write", "cancel")
  /\ booking' = [booking EXCEPT ![call[c].id].status = "none"]
  /\ Ends(c)
  /\ UNCHANGED now

SetCancelled(c) ==
  /\ At(c, "write", "cancel")
  /\ booking' = [booking EXCEPT ![call[c].id].status = "CANCELLED"]
  /\ Ends(c)
  /\ UNCHANGED now

Respond(c, b) ==
  /\ call[c].pc = "idle"
  /\ b \in Live
  /\ booking[b].guest # "none"
  /\ booking[b].period.end > now
  /\ Enters(c, "write", "respond", b, None)
  /\ UNCHANGED <<booking, now>>

\* An invitation withdrawn meanwhile has no row to answer in.
Answer(c) ==
  /\ At(c, "write", "respond")
  /\ booking' = IF booking[call[c].id].guest = "none" THEN booking
                ELSE [booking EXCEPT ![call[c].id].guest = "ANSWERED"]
  /\ Ends(c)
  /\ UNCHANGED now

Tick ==
  /\ \E t \in Clock : t > now /\ now' = t
  /\ UNCHANGED <<booking, call>>

Next ==
  \/ \E c \in Calls :
       \/ \E period \in Periods : Create(c, period)
       \/ \E b \in Bookings, period \in Periods : Update(c, b, period)
       \/ \E b \in Bookings : Cancel(c, b) \/ Respond(c, b)
       \/ Check(c) \/ Insert(c) \/ Move(c) \/ SetCancelled(c) \/ Answer(c)
  \/ Tick

Spec == Init /\ [][Next]_vars

-----------------------------------------------------------------------------
(* Properties.                                                              *)

\* However calls interleave, no two live bookings of the room overlap.
NoDoubleBooking ==
  \A a, b \in Live : a # b => ~Overlaps(booking[a].period, booking[b].period)

\* The search, the direct check and the check before a write agree on every
\* window a person may ask for, and the search calls a stretch a changeover
\* exactly where nothing is really in the way.
SearchAgrees ==
  LET calendar == Calendar IN
  \A w \in Periods :
    LET blocks == BlockingBlocks(w, calendar) IN
      /\ (blocks = {}) <=> AssertFree(w, None)
      /\ (blocks = {}) <=> IsWindowFree(w, Busy, Changeover)
      /\ (\E b \in blocks : b.kind # "BUFFER") <=> (\E i \in Busy : Overlaps(w, i))
      /\ \A until \in BlockedUntil(blocks) : until > w.start

\* The next opening offered is on the grid, could be booked as offered, and is
\* the earliest there is; none is offered only when there is none.
NextFreeIsEarliest ==
  \A from \in now .. Closes, duration \in MinLength .. MaxLength :
    LET free == {t \in from .. Closes :
                   /\ Align(t, Step) = t
                   /\ t + duration <= Closes
                   /\ AssertFree(Window(t, duration), None)}
    IN  NextFreeWindow(from, Closes, duration, Busy, Changeover, Step)
          = {Min(free) : t \in free}

\* An answer is never lost to an edit of the meeting: it goes only with the
\* guest who gave it.
AnswersSurvive ==
  [][\A b \in Bookings :
       booking[b].guest = "ANSWERED" => booking'[b].guest \in {"ANSWERED", "none"}]_vars
=============================================================================
