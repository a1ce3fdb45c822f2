------------------------- MODULE ReservationsProofs -------------------------
(***************************************************************************)
(* Proofs about Reservations: for any number of rows and of requests in     *)
(* flight, any opening hours, changeover and blackouts.                     *)
(***************************************************************************)
EXTENDS Reservations, FiniteSetTheorems, TLAPS

-----------------------------------------------------------------------------
(* The inductive invariant.                                                *)

\* A row that was written, live or cancelled.
Written == [status : {"LIVE", "CANCELLED"}, period : Periods, guest : {"none", "INVITED", "ANSWERED"}]

\* What a call carries fits what it is about to do: a new booking has a period,
\* and what is edited, cancelled or answered is a row that was written once.
CallFits ==
  \A c \in Calls :
    /\ call[c].op = "create" => call[c].period \in Periods
    /\ call[c].op = "update" => call[c].period \in Periods
    /\ call[c].op \in {"update", "cancel", "respond"} =>
         call[c].id \in Bookings /\ booking[call[c].id] \in Written

\* A call between its look-up and its write is an edit.
ChecksAreEdits == \A c \in Calls : call[c].pc = "check" => call[c].op = "update"

IInv == TypeOK /\ CallFits /\ ChecksAreEdits /\ NoDoubleBooking

-----------------------------------------------------------------------------
(* What the steps make of a call and of a row.                             *)

\* A row that is not the empty one was written.
LEMMA WrittenRow ==
  ASSUME TypeOK, NEW b \in Bookings
  PROVE  /\ booking[b] = NoBooking \/ booking[b] \in Written
         /\ booking[b].status \in {"LIVE", "CANCELLED"} => booking[b] \in Written
         /\ booking[b].status = "none" => booking[b] = NoBooking
<1>1. booking[b] \in Booking  BY DEF TypeOK
<1>2. booking[b] = NoBooking \/ booking[b] \in Written  BY <1>1 DEF Booking, Written
<1>3. NoBooking.status = "none"  BY DEF NoBooking
<1>4. ASSUME booking[b] \in Written  PROVE booking[b].status \in {"LIVE", "CANCELLED"}
  BY <1>4 DEF Written
<1> QED  BY <1>2, <1>3, <1>4

\* A written row is a row.
LEMMA WrittenIsBooking == Written \subseteq Booking
  BY DEF Written, Booking

\* A call that takes its next step.
LEMMA EntersCall ==
  ASSUME TypeOK, NEW c \in Calls, NEW pc \in {"check", "write"},
         NEW op \in {"create", "update", "cancel", "respond"},
         NEW id \in Bookings \cup {None}, NEW period \in Periods \cup {None},
         Enters(c, pc, op, id, period)
  PROVE  /\ call' \in [Calls -> Call]
         /\ call'[c].pc = pc /\ call'[c].op = op
         /\ call'[c].id = id /\ call'[c].period = period
         /\ \A d \in Calls \ {c} : call'[d] = call[d]
<1> DEFINE r == [pc |-> pc, op |-> op, id |-> id, period |-> period]
<1>1. r \in Call  BY DEF Call
<1>2. call' = [call EXCEPT ![c] = r]  BY DEF Enters
<1>3. call'[c] = r  BY <1>2 DEF TypeOK
<1>4. /\ call'[c].pc = pc /\ call'[c].op = op
      /\ call'[c].id = id /\ call'[c].period = period
  BY <1>3
<1> QED  BY <1>1, <1>2, <1>4 DEF TypeOK

\* A call that ends.
LEMMA EndsCall ==
  ASSUME TypeOK, NEW c \in Calls, Ends(c)
  PROVE  /\ call' \in [Calls -> Call]
         /\ call'[c].pc = "idle" /\ call'[c].op = "none"
         /\ \A d \in Calls \ {c} : call'[d] = call[d]
<1>1. NoCall \in Call  BY DEF NoCall, Call
<1>2. call'[c] = NoCall  BY DEF Ends, TypeOK
<1>3. call'[c].pc = "idle" /\ call'[c].op = "none"  BY <1>2 DEF NoCall
<1> QED  BY <1>1, <1>3 DEF Ends, TypeOK

\* Rows that were written stay written, so what other calls carry still fits.
LEMMA OthersFit ==
  ASSUME IInv, NEW c \in Calls,
         \A d \in Calls \ {c} : call'[d] = call[d],
         \A b \in Bookings : booking[b] \in Written => booking'[b] \in Written,
         call'[c].op = "none" /\ call'[c].pc = "idle"
  PROVE  CallFits' /\ ChecksAreEdits'
<1>1. ASSUME NEW d \in Calls
      PROVE  /\ call'[d].op = "create" => call'[d].period \in Periods
             /\ call'[d].op = "update" => call'[d].period \in Periods
             /\ call'[d].op \in {"update", "cancel", "respond"} =>
                  call'[d].id \in Bookings /\ booking'[call'[d].id] \in Written
             /\ call'[d].pc = "check" => call'[d].op = "update"
  <2>1. CASE d = c  BY <2>1
  <2>2. CASE d # c
    <3>1. call'[d] = call[d]  BY <2>2
    <3> QED  BY <3>1 DEF IInv, CallFits, ChecksAreEdits
  <2> QED  BY <2>1, <2>2
<1> QED  BY <1>1 DEF CallFits, ChecksAreEdits

\* A step that writes no row keeps everything, if what the call carries fits.
LEMMA EntersKeeps ==
  ASSUME IInv, NEW c \in Calls, NEW pc \in {"check", "write"},
         NEW op \in {"create", "update", "cancel", "respond"},
         NEW id \in Bookings \cup {None}, NEW period \in Periods \cup {None},
         Enters(c, pc, op, id, period), UNCHANGED <<booking, now>>,
         op \in {"create", "update"} => period \in Periods,
         op \in {"update", "cancel", "respond"} => id \in Bookings /\ booking[id] \in Written,
         pc = "check" => op = "update"
  PROVE  IInv'
<1> USE DEF IInv
<1>1. TypeOK'  BY EntersCall DEF TypeOK
<1>2. ASSUME NEW d \in Calls
      PROVE  /\ call'[d].op = "create" => call'[d].period \in Periods
             /\ call'[d].op = "update" => call'[d].period \in Periods
             /\ call'[d].op \in {"update", "cancel", "respond"} =>
                  call'[d].id \in Bookings /\ booking'[call'[d].id] \in Written
             /\ call'[d].pc = "check" => call'[d].op = "update"
  <2>1. CASE d = c
    <3>1. /\ call'[c].pc = pc /\ call'[c].op = op
          /\ call'[c].id = id /\ call'[c].period = period
      BY EntersCall
    <3> QED  BY <2>1, <3>1
  <2>2. CASE d # c
    <3>1. call'[d] = call[d]  BY <2>2, EntersCall
    <3> QED  BY <3>1 DEF CallFits, ChecksAreEdits
  <2> QED  BY <2>1, <2>2
<1>3. CallFits' /\ ChecksAreEdits'  BY <1>2 DEF CallFits, ChecksAreEdits
<1>4. NoDoubleBooking'  BY DEF NoDoubleBooking, Live
<1> QED  BY <1>1, <1>3, <1>4

\* A step that replaces one row by one that is free of every other.
LEMMA RowReplaced ==
  ASSUME IInv, NEW c \in Calls, NEW b \in Bookings, NEW row \in Written,
         booking' = [booking EXCEPT ![b] = row], Ends(c), UNCHANGED now,
         row.status = "LIVE" =>
           \A a \in Live \ {b} : ~Overlaps(row.period, booking[a].period)
  PROVE  IInv'
<1> USE DEF IInv
<1>1. booking'[b] = row /\ \A a \in Bookings \ {b} : booking'[a] = booking[a]
  BY DEF TypeOK
<1>2. TypeOK'  BY EndsCall, WrittenIsBooking DEF TypeOK
<1>3. CallFits' /\ ChecksAreEdits'
  <2>1. \A a \in Bookings : booking[a] \in Written => booking'[a] \in Written  BY <1>1
  <2> QED  BY <2>1, EndsCall, OthersFit
<1>4. NoDoubleBooking'
  <2> SUFFICES ASSUME NEW x \in Live', NEW y \in Live', x # y
               PROVE  ~Overlaps(booking'[x].period, booking'[y].period)
    BY DEF NoDoubleBooking
  <2>1. x \in Bookings /\ y \in Bookings  BY DEF Live
  <2>2. CASE x = b
    <3>1. booking'[y] = booking[y] /\ y \in Live \ {b}  BY <1>1, <2>1, <2>2 DEF Live
    <3>2. row.status = "LIVE"  BY <1>1, <2>2 DEF Live
    <3> QED  BY <1>1, <2>2, <3>1, <3>2
  <2>3. CASE y = b
    <3>1. booking'[x] = booking[x] /\ x \in Live \ {b}  BY <1>1, <2>1, <2>3 DEF Live
    <3>2. row.status = "LIVE"  BY <1>1, <2>3 DEF Live
    <3>3. ~Overlaps(row.period, booking[x].period)  BY <3>1, <3>2
    <3> QED  BY <1>1, <2>3, <3>1, <3>3 DEF Overlaps
  <2>4. CASE x # b /\ y # b
    <3>1. booking'[x] = booking[x] /\ booking'[y] = booking[y]  BY <1>1, <2>1, <2>4
    <3>2. x \in Live /\ y \in Live  BY <2>1, <3>1 DEF Live
    <3> QED  BY <3>1, <3>2 DEF NoDoubleBooking
  <2> QED  BY <2>2, <2>3, <2>4
<1> QED  BY <1>2, <1>3, <1>4

\* A call that ends and writes nothing.
LEMMA EndsKeeps ==
  ASSUME IInv, NEW c \in Calls, Ends(c), UNCHANGED <<booking, now>>
  PROVE  IInv'
<1> USE DEF IInv
<1>1. TypeOK'  BY EndsCall DEF TypeOK
<1>2. CallFits' /\ ChecksAreEdits'  BY EndsCall, OthersFit
<1>3. NoDoubleBooking'  BY DEF NoDoubleBooking, Live
<1> QED  BY <1>1, <1>2, <1>3

\* A write that the constraint either takes or refuses.
LEMMA WritesKeeps ==
  ASSUME IInv, NEW c \in Calls, NEW b \in Bookings, NEW row \in Written, Writes(c, b, row)
  PROVE  IInv'
<1>1. CASE Excludes(b, row)  BY <1>1, EndsKeeps DEF Writes
<1>2. CASE ~Excludes(b, row)
  <2>1. booking' = [booking EXCEPT ![b] = row] /\ Ends(c) /\ UNCHANGED now
    BY <1>2 DEF Writes
  <2>2. row.status = "LIVE" =>
          \A a \in Live \ {b} : ~Overlaps(row.period, booking[a].period)
    BY <1>2 DEF Excludes
  <2> QED  BY <2>1, <2>2, RowReplaced
<1> QED  BY <1>1, <1>2

-----------------------------------------------------------------------------
(* Each step.                                                              *)

\* A live row was written.
LEMMA LiveIsWritten ==
  ASSUME TypeOK, NEW b \in Live  PROVE b \in Bookings /\ booking[b] \in Written
  BY WrittenRow DEF Live

\* The row a new booking makes.
LEMMA InsertedRow ==
  ASSUME IInv, NEW c \in Calls, At(c, "write", "create"), NEW guest \in {"INVITED", "none"}
  PROVE  [status |-> "LIVE", period |-> call[c].period, guest |-> guest] \in Written
<1>1. call[c].period \in Periods  BY DEF IInv, CallFits, At
<1> QED  BY <1>1 DEF Written

\* The row an edit makes.
LEMMA MovedRow ==
  ASSUME IInv, NEW c \in Calls, At(c, "write", "update"),
         NEW guest \in ReplaceAttendees(booking[call[c].id].guest)
  PROVE  /\ call[c].id \in Bookings
         /\ [status |-> booking[call[c].id].status, period |-> call[c].period,
             guest |-> guest] \in Written
<1>1. call[c].id \in Bookings /\ booking[call[c].id] \in Written /\ call[c].period \in Periods
  BY DEF IInv, CallFits, At
<1> DEFINE old == booking[call[c].id]
<1>2. old.status \in {"LIVE", "CANCELLED"} /\ old.guest \in {"none", "INVITED", "ANSWERED"}
  BY <1>1 DEF Written
<1>3. guest \in {"none", "INVITED", "ANSWERED"}  BY <1>2 DEF ReplaceAttendees
<1> QED  BY <1>1, <1>2, <1>3 DEF Written

\* A cancellation frees its period and makes nothing else live.
LEMMA CancelKeeps ==
  ASSUME IInv, NEW c \in Calls, SetCancelled(c)
  PROVE  IInv'
<1> DEFINE b == call[c].id
           row == [booking[b] EXCEPT !.status = "CANCELLED"]
<1>1. b \in Bookings /\ booking[b] \in Written
  BY DEF SetCancelled, At, IInv, CallFits
<1>2. row = [status |-> "CANCELLED", period |-> booking[b].period, guest |-> booking[b].guest]
  BY <1>1 DEF Written
<1>3. row \in Written /\ row.status # "LIVE"  BY <1>1, <1>2 DEF Written
<1>4. booking' = [booking EXCEPT ![b] = row] /\ Ends(c) /\ UNCHANGED now
  BY <1>1 DEF SetCancelled, IInv, TypeOK
<1> HIDE DEF b, row
<1> QED  BY <1>1, <1>3, <1>4, RowReplaced

\* An answer moves nothing.
LEMMA AnswerKeeps ==
  ASSUME IInv, NEW c \in Calls, Answer(c)
  PROVE  IInv'
<1> DEFINE b == call[c].id
           row == [booking[b] EXCEPT !.guest = "ANSWERED"]
<1>1. b \in Bookings /\ booking[b] \in Written
  BY DEF Answer, At, IInv, CallFits
<1>2. Ends(c) /\ UNCHANGED now  BY DEF Answer
<1>3. CASE booking[b].guest = "none"
  BY <1>2, <1>3, EndsKeeps DEF Answer
<1>4. CASE booking[b].guest # "none"
  <2>1. row = [status |-> booking[b].status, period |-> booking[b].period, guest |-> "ANSWERED"]
    BY <1>1 DEF Written
  <2>2. row \in Written  BY <1>1, <2>1 DEF Written
  <2>3. booking' = [booking EXCEPT ![b] = row]
    BY <1>1, <1>4 DEF Answer, IInv, TypeOK
  <2>4. row.status = booking[b].status /\ row.period = booking[b].period  BY <2>1
  <2>5. row.status = "LIVE" =>
          \A a \in Live \ {b} : ~Overlaps(row.period, booking[a].period)
    BY <1>1, <2>4 DEF IInv, NoDoubleBooking, Live
  <2> HIDE DEF b, row
  <2> QED  BY <1>1, <1>2, <2>2, <2>3, <2>5, RowReplaced
<1> QED  BY <1>3, <1>4

\* Nothing is booked at first.
LEMMA Start == Init => IInv
<1> SUFFICES ASSUME Init PROVE IInv  OBVIOUS
<1>1. NoBooking \in Booking /\ NoBooking.status = "none"  BY DEF NoBooking, Booking
<1>2. NoCall \in Call /\ NoCall.op = "none" /\ NoCall.pc = "idle"  BY DEF NoCall, Call
<1>3. TypeOK  BY <1>1, <1>2 DEF Init, TypeOK
<1>4. CallFits /\ ChecksAreEdits  BY <1>2 DEF Init, CallFits, ChecksAreEdits
<1>5. NoDoubleBooking  BY <1>1 DEF Init, NoDoubleBooking, Live
<1> QED  BY <1>3, <1>4, <1>5 DEF IInv

\* Every step keeps the invariant.
LEMMA Keeps == IInv /\ [Next]_vars => IInv'
<1> SUFFICES ASSUME IInv, [Next]_vars PROVE IInv'  OBVIOUS
<1>t. TypeOK  BY DEF IInv
<1>1. ASSUME NEW c \in Calls, NEW period \in Periods, Create(c, period)  PROVE IInv'
  BY <1>1, EntersKeeps DEF Create
<1>2. ASSUME NEW c \in Calls, NEW b \in Bookings, NEW period \in Periods, Update(c, b, period)
      PROVE  IInv'
  <2>1. booking[b] \in Written  BY <1>t, <1>2, LiveIsWritten DEF Update
  <2> QED  BY <1>2, <2>1, EntersKeeps DEF Update
<1>3. ASSUME NEW c \in Calls, NEW b \in Bookings, Cancel(c, b)  PROVE IInv'
  <2>1. booking[b] \in Written  BY <1>t, <1>3, LiveIsWritten DEF Cancel
  <2> QED  BY <1>3, <2>1, EntersKeeps DEF Cancel
<1>4. ASSUME NEW c \in Calls, NEW b \in Bookings, Respond(c, b)  PROVE IInv'
  <2>1. booking[b] \in Written  BY <1>t, <1>4, LiveIsWritten DEF Respond
  <2> QED  BY <1>4, <2>1, EntersKeeps DEF Respond
<1>5. ASSUME NEW c \in Calls, Check(c)  PROVE IInv'
  <2>1. call[c].op = "update"  BY <1>5 DEF Check, IInv, ChecksAreEdits
  <2>2. /\ call[c].period \in Periods
        /\ call[c].id \in Bookings /\ booking[call[c].id] \in Written
    BY <2>1 DEF IInv, CallFits
  <2>3. CASE AssertFree(call[c].period, call[c].id)
    BY <1>5, <2>2, <2>3, EntersKeeps DEF Check
  <2>4. CASE ~AssertFree(call[c].period, call[c].id)
    BY <1>5, <2>4, EndsKeeps DEF Check
  <2> QED  BY <2>3, <2>4
<1>6. ASSUME NEW c \in Calls, Insert(c)  PROVE IInv'
  <2>1. PICK b \in Bookings, guest \in {"INVITED", "none"} :
          Writes(c, b, [status |-> "LIVE", period |-> call[c].period, guest |-> guest])
    BY <1>6 DEF Insert
  <2>2. At(c, "write", "create")  BY <1>6 DEF Insert
  <2> QED  BY <2>1, <2>2, InsertedRow, WritesKeeps
<1>7. ASSUME NEW c \in Calls, Move(c)  PROVE IInv'
  <2>1. PICK guest \in ReplaceAttendees(booking[call[c].id].guest) :
          Writes(c, call[c].id, [status |-> booking[call[c].id].status,
                                 period |-> call[c].period, guest |-> guest])
    BY <1>7 DEF Move
  <2>2. At(c, "write", "update")  BY <1>7 DEF Move
  <2> QED  BY <2>1, <2>2, MovedRow, WritesKeeps
<1>8. ASSUME Tick  PROVE IInv'
  BY <1>8 DEF Tick, IInv, TypeOK, CallFits, ChecksAreEdits, NoDoubleBooking, Live
<1>9. ASSUME UNCHANGED vars  PROVE IInv'
  BY <1>9 DEF vars, IInv, TypeOK, CallFits, ChecksAreEdits, NoDoubleBooking, Live
<1> QED
  BY <1>1, <1>2, <1>3, <1>4, <1>5, <1>6, <1>7, <1>8, <1>9, CancelKeeps, AnswerKeeps DEF Next

-----------------------------------------------------------------------------
(* An answer and the steps.                                                *)

\* A guest who answered is on the list as one who answered, or is off it.
Survives(b) == booking[b].guest = "ANSWERED" => booking'[b].guest \in {"ANSWERED", "none"}

\* A write of one row disturbs no other's guest.
LEMMA WritesSurvive ==
  ASSUME TypeOK, NEW c \in Calls, NEW b \in Bookings, NEW row, Writes(c, b, row),
         booking[b].guest = "ANSWERED" => row.guest \in {"ANSWERED", "none"}
  PROVE  \A a \in Bookings : Survives(a)
<1>1. CASE Excludes(b, row)  BY <1>1 DEF Writes, Survives
<1>2. CASE ~Excludes(b, row)
  <2>1. booking' = [booking EXCEPT ![b] = row]  BY <1>2 DEF Writes
  <2>2. booking'[b] = row /\ \A a \in Bookings \ {b} : booking'[a] = booking[a]
    BY <2>1 DEF TypeOK
  <2> QED  BY <2>2 DEF Survives
<1> QED  BY <1>1, <1>2

\* Every step lets answers survive.
LEMMA AnswersKept ==
  ASSUME IInv, [Next]_vars  PROVE \A b \in Bookings : Survives(b)
<1>t. TypeOK  BY DEF IInv
<1>1. ASSUME UNCHANGED booking  PROVE \A b \in Bookings : Survives(b)
  BY <1>1 DEF Survives
<1>2. ASSUME NEW c \in Calls, Insert(c)  PROVE \A b \in Bookings : Survives(b)
  <2>1. PICK b \in Bookings, guest \in {"INVITED", "none"} :
          /\ booking[b].status = "none"
          /\ Writes(c, b, [status |-> "LIVE", period |-> call[c].period, guest |-> guest])
    BY <1>2 DEF Insert
  <2>2. booking[b].guest = "none"  BY <1>t, <2>1, WrittenRow DEF NoBooking
  <2> QED  BY <1>t, <2>1, <2>2, WritesSurvive
<1>3. ASSUME NEW c \in Calls, Move(c)  PROVE \A b \in Bookings : Survives(b)
  <2> DEFINE b == call[c].id
  <2>1. PICK guest \in ReplaceAttendees(booking[b].guest) :
          Writes(c, b, [status |-> booking[b].status, period |-> call[c].period,
                        guest |-> guest])
    BY <1>3 DEF Move
  <2>2. b \in Bookings  BY <1>3 DEF Move, At, IInv, CallFits
  <2>3. booking[b].guest = "ANSWERED" => guest \in {"ANSWERED", "none"}
    BY <2>1 DEF ReplaceAttendees
  <2> HIDE DEF b
  <2> QED  BY <1>t, <2>1, <2>2, <2>3, WritesSurvive
<1>4. ASSUME NEW c \in Calls, SetCancelled(c)  PROVE \A b \in Bookings : Survives(b)
  <2>1. booking' = [booking EXCEPT ![call[c].id].status = "CANCELLED"]
    BY <1>4 DEF SetCancelled
  <2>2. call[c].id \in Bookings /\ booking[call[c].id] \in Written
    BY <1>4 DEF SetCancelled, At, IInv, CallFits
  <2>3. ASSUME NEW b \in Bookings  PROVE booking'[b].guest = booking[b].guest
    <3>1. CASE b = call[c].id
      <4>1. booking'[b] = [booking[b] EXCEPT !.status = "CANCELLED"]
        BY <1>t, <2>1, <2>2, <3>1 DEF TypeOK
      <4> QED  BY <2>2, <3>1, <4>1 DEF Written
    <3>2. CASE b # call[c].id  BY <1>t, <2>1, <3>2 DEF TypeOK
    <3> QED  BY <3>1, <3>2
  <2> QED  BY <2>3 DEF Survives
<1>5. ASSUME NEW c \in Calls, Answer(c)  PROVE \A b \in Bookings : Survives(b)
  <2> DEFINE b == call[c].id
             row == [booking[b] EXCEPT !.guest = "ANSWERED"]
  <2>1. CASE booking[b].guest = "none"  BY <1>1, <1>5, <2>1 DEF Answer
  <2>2. CASE booking[b].guest # "none"
    <3>1. b \in Bookings /\ booking[b] \in Written
      BY <1>5 DEF Answer, At, IInv, CallFits
    <3>2. booking' = [booking EXCEPT ![b] = row]
      BY <1>t, <1>5, <2>2, <3>1 DEF Answer, TypeOK
    <3>3. row.guest = "ANSWERED"  BY <3>1 DEF Written
    <3> HIDE DEF b, row
    <3>4. booking'[b] = row /\ \A a \in Bookings \ {b} : booking'[a] = booking[a]
      BY <1>t, <3>1, <3>2 DEF TypeOK
    <3> QED  BY <3>3, <3>4 DEF Survives
  <2> QED  BY <2>1, <2>2
<1>6. ASSUME NEW c \in Calls, NEW period \in Periods, Create(c, period)  PROVE UNCHANGED booking
  BY <1>6 DEF Create
<1>7. ASSUME NEW c \in Calls, NEW b \in Bookings, NEW period \in Periods, Update(c, b, period)
      PROVE  UNCHANGED booking
  BY <1>7 DEF Update
<1>8. ASSUME NEW c \in Calls, NEW b \in Bookings, Cancel(c, b) \/ Respond(c, b)
      PROVE  UNCHANGED booking
  BY <1>8 DEF Cancel, Respond
<1>9. ASSUME NEW c \in Calls, Check(c)  PROVE UNCHANGED booking
  BY <1>9 DEF Check
<1>10. ASSUME Tick \/ UNCHANGED vars  PROVE UNCHANGED booking
  BY <1>10 DEF Tick, vars
<1> QED
  BY <1>1, <1>2, <1>3, <1>4, <1>5, <1>6, <1>7, <1>8, <1>9, <1>10 DEF Next

-----------------------------------------------------------------------------
(* The theorems.                                                           *)

\* The invariant holds for good.
LEMMA Invariance == Spec => []IInv
  BY Start, Keeps, PTL DEF Spec

\* Rows and calls are well formed (reservations.service.ts).
THEOREM TypesHold == Spec => []TypeOK
<1>1. IInv => TypeOK  BY DEF IInv
<1> QED  BY <1>1, Invariance, PTL

\* No two live bookings of the room overlap, however many people book, move
\* and cancel at once: the exclusion constraint makes up for the check that
\* was made before the write (assertFree).
THEOREM NeverDoubleBooked == Spec => []NoDoubleBooking
<1>1. IInv => NoDoubleBooking  BY DEF IInv
<1> QED  BY <1>1, Invariance, PTL

\* An edit of a meeting, a cancellation or another answer loses no answer of a
\* guest who stays on the list (replaceAttendees).
THEOREM AnswersAreKept == Spec => AnswersSurvive
<1> DEFINE A == \A b \in Bookings :
                  booking[b].guest = "ANSWERED" => booking'[b].guest \in {"ANSWERED", "none"}
<1>1. IInv /\ [Next]_vars => [A]_vars
  BY AnswersKept DEF Survives
<1> QED  BY <1>1, Invariance, PTL DEF Spec, AnswersSurvive

-----------------------------------------------------------------------------
(* Induction, in the forms the provers can use.                            *)

\* A set of natural numbers that holds 0 and, with every number, the next one,
\* holds them all.
LEMMA EveryNat ==
  ASSUME NEW G \in SUBSET Nat, 0 \in G, \A n \in G : n + 1 \in G
  PROVE  G = Nat
<1> SUFFICES ASSUME G # Nat  PROVE FALSE
  OBVIOUS
<1>1. PICK x \in Nat \ G : \A y \in Nat \ G : ~ (<<y, x>> \in OpToRel(<, Nat))
  BY NatLessThanWellFounded, WFMin
<1>2. x # 0 /\ x - 1 \in Nat  OBVIOUS
<1>3. \A y \in Nat \ G : ~ (y < x)  BY <1>1 DEF OpToRel
<1>4. x - 1 \in G  BY <1>2, <1>3
<1>5. (x - 1) + 1 \in G  BY <1>4
<1> QED  BY <1>5

\* The same, as far as n.
LEMMA UpToN ==
  ASSUME NEW n \in Nat, NEW G, 0 \in G, \A k \in 0 .. n - 1 : k \in G => k + 1 \in G
  PROVE  \A k \in 0 .. n : k \in G
<1> DEFINE H == {k \in Nat : k <= n => k \in G}
<1>1. 0 \in H  OBVIOUS
<1>2. ASSUME NEW k \in H  PROVE k + 1 \in H
  OBVIOUS
<1>3. H = Nat
  <2> HIDE DEF H
  <2>1. H \in SUBSET Nat  BY DEF H
  <2> QED  BY <1>1, <1>2, <2>1, EveryNat
<1> QED  BY <1>3

\* Some number of a nonempty set of positions is its greatest.
LEMMA MaxOf ==
  ASSUME NEW n \in Nat, NEW s \in SUBSET (1 .. n), s # {}
  PROVE  Max(s) \in s /\ \A y \in s : y <= Max(s)
<1> DEFINE G == {k \in 0 .. n : \A t \in SUBSET (1 .. k) :
                     t # {} => \E x \in t : \A y \in t : x >= y}
<1>1. 0 \in G
  <2>1. ASSUME NEW t \in SUBSET (1 .. 0), t # {}  PROVE FALSE
    <3>1. PICK x : x \in t  BY <2>1
    <3>2. x \in 1 .. 0  BY <3>1
    <3> QED  BY <3>2
  <2>2. \A t \in SUBSET (1 .. 0) : t # {} => \E x \in t : \A y \in t : x >= y  BY <2>1
  <2> QED  BY <2>2
<1>2. ASSUME NEW k \in 0 .. n - 1, k \in G  PROVE k + 1 \in G
  <2> SUFFICES ASSUME NEW t \in SUBSET (1 .. k + 1), t # {}
               PROVE  \E x \in t : \A y \in t : x >= y
    OBVIOUS
  <2>1. CASE k + 1 \in t  BY <2>1
  <2>2. CASE k + 1 \notin t
    <3>1. t \in SUBSET (1 .. k)  BY <2>2
    <3> QED  BY <1>2, <3>1
  <2> QED  BY <2>1, <2>2
<1>3. n \in G
  <2> HIDE DEF G
  <2> QED  BY <1>1, <1>2, UpToN
<1>4. \E x \in s : \A y \in s : x >= y  BY <1>3
<1>5. /\ (CHOOSE x \in s : \A y \in s : x >= y) \in s
      /\ \A y \in s : (CHOOSE x \in s : \A z \in s : x >= z) >= y
  BY <1>4
<1>6. Max(s) \in s /\ \A y \in s : Max(s) >= y  BY <1>5 DEF Max
<1> QED  BY <1>6

\* The greatest of the first k positions is k, and without it k - 1 are left.
LEMMA MaxOfInterval ==
  ASSUME NEW k \in Nat \ {0}
  PROVE  Max(1 .. k) = k /\ (1 .. k) \ {k} = 1 .. k - 1 /\ 1 .. k # {}
<1>1. 1 .. k \in SUBSET (1 .. k) /\ 1 .. k # {} /\ k \in 1 .. k  OBVIOUS
<1>2. Max(1 .. k) \in 1 .. k /\ k <= Max(1 .. k)  BY <1>1, MaxOf
<1> QED  BY <1>1, <1>2

\* What a fold over a sequence computes on its way: a value of A for every set
\* of positions, the last position taken last.
Folds(N, base, step, g) ==
  \A t \in SUBSET (1 .. N) :
    g[t] = IF t = {} THEN base ELSE step[<<g[t \ {Max(t)}], Max(t)>>]

\* Every fold over a sequence is well defined.
LEMMA FoldExists ==
  ASSUME NEW N \in Nat, NEW A, NEW base \in A, NEW step \in [A \X (1 .. N) -> A]
  PROVE  \E g \in [SUBSET (1 .. N) -> A] : Folds(N, base, step, g)
<1> DEFINE G == {k \in 0 .. N : \E g \in [SUBSET (1 .. k) -> A] : Folds(k, base, step, g)}
<1>1. 0 \in G
  <2> DEFINE g == [t \in SUBSET (1 .. 0) |-> base]
  <2>1. g \in [SUBSET (1 .. 0) -> A]  OBVIOUS
  <2>2. Folds(0, base, step, g)  BY DEF Folds
  <2> QED  BY <2>1, <2>2
<1>2. ASSUME NEW k \in 0 .. N - 1, k \in G  PROVE k + 1 \in G
  <2>1. PICK g \in [SUBSET (1 .. k) -> A] : Folds(k, base, step, g)  BY <1>2
  <2> DEFINE h == [t \in SUBSET (1 .. k + 1) |->
                     IF k + 1 \in t THEN step[<<g[t \ {k + 1}], k + 1>>] ELSE g[t]]
  <2>2. ASSUME NEW t \in SUBSET (1 .. k + 1)
        PROVE  /\ t \ {k + 1} \in SUBSET (1 .. k)
               /\ k + 1 \notin t => t \in SUBSET (1 .. k)
    OBVIOUS
  <2>3. \A t \in SUBSET (1 .. k + 1) :
          h[t] = IF k + 1 \in t THEN step[<<g[t \ {k + 1}], k + 1>>] ELSE g[t]
    OBVIOUS
  <2>4. h \in [SUBSET (1 .. k + 1) -> A]
    <3>1. ASSUME NEW t \in SUBSET (1 .. k + 1)
          PROVE  (IF k + 1 \in t THEN step[<<g[t \ {k + 1}], k + 1>>] ELSE g[t]) \in A
      BY <2>2
    <3> QED  BY <3>1
  <2> HIDE DEF h
  <2>5. ASSUME NEW t \in SUBSET (1 .. k)  PROVE h[t] = g[t]
    <3>1. t \in SUBSET (1 .. k + 1) /\ k + 1 \notin t  OBVIOUS
    <3> QED  BY <2>3, <3>1
  <2>6. ASSUME NEW t \in SUBSET (1 .. k + 1)
        PROVE  h[t] = IF t = {} THEN base ELSE step[<<h[t \ {Max(t)}], Max(t)>>]
    <3>1. CASE t = {}
      <4>1. t \in SUBSET (1 .. k)  BY <3>1
      <4> QED  BY <2>1, <2>5, <3>1, <4>1 DEF Folds
    <3>2. CASE k + 1 \in t
      <4>1. k + 1 \in Nat /\ t # {}  BY <3>2
      <4>2. Max(t) = k + 1
        <5>1. Max(t) \in t /\ \A y \in t : y <= Max(t)  BY <4>1, MaxOf
        <5>2. Max(t) \in 1 .. k + 1 /\ k + 1 <= Max(t)  BY <3>2, <5>1
        <5> QED  BY <5>2
      <4>3. h[t \ {k + 1}] = g[t \ {k + 1}]  BY <2>2, <2>5
      <4> QED  BY <2>3, <3>2, <4>1, <4>2, <4>3
    <3>3. CASE t # {} /\ k + 1 \notin t
      <4>1. t \in SUBSET (1 .. k)  BY <2>2, <3>3
      <4>2. t \ {Max(t)} \in SUBSET (1 .. k)  BY <4>1
      <4>3. h[t] = g[t] /\ h[t \ {Max(t)}] = g[t \ {Max(t)}]  BY <2>5, <4>1, <4>2
      <4> QED  BY <2>1, <3>3, <4>1, <4>3 DEF Folds
    <3> QED  BY <3>1, <3>2, <3>3
  <2>7. Folds(k + 1, base, step, h)  BY <2>6 DEF Folds
  <2> QED  BY <2>4, <2>7
<1>3. N \in G
  <2> HIDE DEF G
  <2> QED  BY <1>1, <1>2, UpToN
<1> QED  BY <1>3

-----------------------------------------------------------------------------
(* Periods, and putting them in order.                                      *)

\* A period as the search knows it, with its kind, and one without.
Item == {i \in [start : Int, end : Int, kind : {"BOOKING", "BLACKOUT"}] : i.start < i.end}
Chunk == {c \in [start : Int, end : Int] : c.start < c.end}

\* Some period of a finite set starts last.
LEMMA LastToStart ==
  ASSUME NEW S, IsFiniteSet(S), S # {}, \A i \in S : i.start \in Int
  PROVE  \E i \in S : \A j \in S : j.start <= i.start
<1> DEFINE G == {n \in Nat : \A T \in SUBSET S : T # {} /\ Cardinality(T) = n =>
                     \E i \in T : \A j \in T : j.start <= i.start}
<1>1. ASSUME NEW T \in SUBSET S  PROVE IsFiniteSet(T) /\ Cardinality(T) \in Nat
  BY FS_Subset, FS_CardinalityType
<1>2. 0 \in G
  <2>1. ASSUME NEW T \in SUBSET S, Cardinality(T) = 0  PROVE T = {}
    BY <1>1, <2>1, FS_EmptySet
  <2> QED  BY <2>1
<1>3. ASSUME NEW n \in G  PROVE n + 1 \in G
  <2> SUFFICES ASSUME NEW T \in SUBSET S, T # {}, Cardinality(T) = n + 1
               PROVE  \E i \in T : \A j \in T : j.start <= i.start
    OBVIOUS
  <2>1. PICK x \in T : TRUE  OBVIOUS
  <2> DEFINE U == T \ {x}
  <2>2. U \in SUBSET S /\ Cardinality(U) = n
    <3>1. IsFiniteSet(T)  BY <1>1
    <3>2. Cardinality(U) = Cardinality(T) - 1  BY <2>1, <3>1, FS_RemoveElement
    <3> QED  BY <3>2
  <2>3. CASE U = {}
    <3>1. \A j \in T : j = x  BY <2>3
    <3> QED  BY <2>1, <3>1
  <2>4. CASE U # {}
    <3>1. PICK u \in U : \A j \in U : j.start <= u.start  BY <2>2, <2>4
    <3>2. CASE x.start <= u.start
      <4>1. \A j \in T : j.start <= u.start  BY <3>1, <3>2
      <4> QED  BY <4>1
    <3>3. CASE ~ (x.start <= u.start)
      <4>1. ASSUME NEW j \in T  PROVE j.start <= x.start
        <5>1. x.start \in Int /\ j.start \in Int /\ u.start \in Int  OBVIOUS
        <5>2. j = x \/ j.start <= u.start  BY <3>1
        <5> QED  BY <3>3, <5>1, <5>2
      <4> QED  BY <2>1, <4>1
    <3> QED  BY <3>2, <3>3
  <2> QED  BY <2>3, <2>4
<1>4. G = Nat
  <2> HIDE DEF G
  <2>1. G \in SUBSET Nat  BY DEF G
  <2> QED  BY <1>2, <1>3, <2>1, EveryNat
<1>5. Cardinality(S) \in G  BY <1>1, <1>4
<1> QED  BY <1>5

\* Sorting gives what is sorted, in the order of the starts.
LEMMA SortedIs ==
  ASSUME NEW S, IsFiniteSet(S), \A i \in S : i.start \in Int
  PROVE  /\ Cardinality(S) \in Nat
         /\ Sorted(S) \in [1 .. Cardinality(S) -> S]
         /\ \A i \in S : \E j \in 1 .. Cardinality(S) : Sorted(S)[j] = i
         /\ \A j, k \in 1 .. Cardinality(S) : j < k => Sorted(S)[j].start <= Sorted(S)[k].start
<1> DEFINE InOrder(s, T) == /\ ToSet(s) = T
                             /\ \A j, k \in DOMAIN s : j < k => s[j].start <= s[k].start
           G == {n \in Nat : \A T \in SUBSET S : Cardinality(T) = n =>
                   \E s \in [1 .. n -> T] : InOrder(s, T)}
<1>1. ASSUME NEW T \in SUBSET S  PROVE IsFiniteSet(T) /\ Cardinality(T) \in Nat
  BY FS_Subset, FS_CardinalityType
<1>2. 0 \in G
  <2> SUFFICES ASSUME NEW T \in SUBSET S, Cardinality(T) = 0
               PROVE  \E s \in [1 .. 0 -> T] : InOrder(s, T)
    OBVIOUS
  <2>1. T = {}  BY <1>1, FS_EmptySet
  <2>2. 1 .. 0 = {}  OBVIOUS
  <2> DEFINE s == [j \in 1 .. 0 |-> j]
  <2>3. s \in [1 .. 0 -> T]  BY <2>1, <2>2
  <2>4. InOrder(s, T)  BY <2>1, <2>2 DEF ToSet
  <2> QED  BY <2>3, <2>4
<1>3. ASSUME NEW n \in G  PROVE n + 1 \in G
  <2> SUFFICES ASSUME NEW T \in SUBSET S, Cardinality(T) = n + 1
               PROVE  \E s \in [1 .. n + 1 -> T] : InOrder(s, T)
    OBVIOUS
  <2>1. PICK x \in T : \A j \in T : j.start <= x.start
    <3>1. T # {}  BY FS_EmptySet
    <3> QED  BY <1>1, <3>1, LastToStart
  <2> DEFINE U == T \ {x}
  <2>2. U \in SUBSET S /\ Cardinality(U) = n
    <3>1. IsFiniteSet(T)  BY <1>1
    <3>2. Cardinality(U) = Cardinality(T) - 1  BY <2>1, <3>1, FS_RemoveElement
    <3> QED  BY <3>2
  <2>3. PICK s \in [1 .. n -> U] : InOrder(s, U)  BY <2>2
  <2> DEFINE r == [j \in 1 .. n + 1 |-> IF j = n + 1 THEN x ELSE s[j]]
  <2>4. /\ r \in [1 .. n + 1 -> T]
        /\ r[n + 1] = x
        /\ \A j \in 1 .. n : r[j] = s[j] /\ r[j] \in U
    OBVIOUS
  <2> HIDE DEF r
  <2>5. ToSet(r) = T
    <3>1. ASSUME NEW i \in T  PROVE i \in ToSet(r)
      <4>1. CASE i = x  BY <2>4, <4>1 DEF ToSet
      <4>2. CASE i # x
        <5>1. PICK j \in 1 .. n : s[j] = i  BY <2>3, <4>2 DEF ToSet
        <5> QED  BY <2>4, <5>1 DEF ToSet
      <4> QED  BY <4>1, <4>2
    <3>2. ToSet(r) \subseteq T  BY <2>4 DEF ToSet
    <3> QED  BY <3>1, <3>2
  <2>6. ASSUME NEW j \in 1 .. n + 1, NEW k \in 1 .. n + 1, j < k
        PROVE  r[j].start <= r[k].start
    <3>1. CASE k = n + 1  BY <2>1, <2>4, <3>1
    <3>2. CASE k # n + 1
      <4>1. j \in 1 .. n /\ k \in 1 .. n  BY <2>6, <3>2
      <4> QED  BY <2>3, <2>4, <2>6, <4>1
    <3> QED  BY <3>1, <3>2
  <2>7. DOMAIN r = 1 .. n + 1  BY <2>4
  <2> QED  BY <2>4, <2>5, <2>6, <2>7
<1>4. G = Nat
  <2> HIDE DEF G
  <2>1. G \in SUBSET Nat  BY DEF G
  <2> QED  BY <1>2, <1>3, <2>1, EveryNat
<1>5. \E s \in [1 .. Cardinality(S) -> S] : InOrder(s, S)
  <2>1. Cardinality(S) \in G  BY <1>1, <1>4
  <2> QED  BY <2>1
<1> HIDE DEF G
<1>6. /\ Sorted(S) \in [1 .. Cardinality(S) -> S]
      /\ InOrder(Sorted(S), S)
  BY <1>5 DEF Sorted
<1>7. DOMAIN Sorted(S) = 1 .. Cardinality(S)  BY <1>6
<1> QED  BY <1>1, <1>6, <1>7 DEF ToSet

-----------------------------------------------------------------------------
(* Merging: as a walk over the sorted items, and what it keeps.            *)

\* One step of the merge.
MergeOp(m, i) ==
  IF m # <<>> /\ i.start <= Last(m).end
  THEN [m EXCEPT ![Len(m)].end = IF i.end > @ THEN i.end ELSE @]
  ELSE Append(m, [start |-> i.start, end |-> i.end])

\* What it does, field by field.
LEMMA MergeOpIs ==
  ASSUME NEW m \in Seq(Chunk), NEW i \in Item
  PROVE  /\ MergeOp(m, i) \in Seq(Chunk)
         /\ m # <<>> => /\ Last(m) = m[Len(m)] /\ Last(m) \in Chunk /\ Len(m) \in DOMAIN m
         /\ m # <<>> /\ i.start <= Last(m).end =>
              /\ Len(MergeOp(m, i)) = Len(m)
              /\ \A a \in 1 .. Len(m) - 1 : MergeOp(m, i)[a] = m[a]
              /\ MergeOp(m, i)[Len(m)].start = Last(m).start
              /\ MergeOp(m, i)[Len(m)].end = IF i.end > Last(m).end THEN i.end ELSE Last(m).end
         /\ ~ (m # <<>> /\ i.start <= Last(m).end) =>
              /\ Len(MergeOp(m, i)) = Len(m) + 1
              /\ \A a \in 1 .. Len(m) : MergeOp(m, i)[a] = m[a]
              /\ MergeOp(m, i)[Len(m) + 1].start = i.start
              /\ MergeOp(m, i)[Len(m) + 1].end = i.end
<1>1. ASSUME m # <<>>
      PROVE  Last(m) = m[Len(m)] /\ Last(m) \in Chunk /\ Len(m) \in DOMAIN m
    <2>1. Len(m) \in 1 .. Len(m)  BY <1>1
    <2> QED  BY <2>1 DEF Last
<1>2. CASE m # <<>> /\ i.start <= Last(m).end
  <2> DEFINE l == Last(m)
             c == [l EXCEPT !.end = IF i.end > @ THEN i.end ELSE @]
             r == [m EXCEPT ![Len(m)] = c]
  <2>1. l \in [start : Int, end : Int] /\ l.start < l.end /\ i.end \in Int  BY <1>1, <1>2 DEF Chunk, Item
  <2>2. c.start = l.start /\ c.end = IF i.end > l.end THEN i.end ELSE l.end
    BY <2>1
  <2>3. c \in Chunk  BY <2>1 DEF Chunk
  <2>4. MergeOp(m, i) = r  BY <1>1, <1>2 DEF MergeOp
  <2> HIDE DEF c, l
  <2>5. /\ r \in Seq(Chunk) /\ Len(r) = Len(m) /\ r[Len(m)] = c
        /\ \A a \in 1 .. Len(m) - 1 : r[a] = m[a]
    BY <1>1, <1>2, <2>3
  <2> QED  BY <1>1, <1>2, <2>2, <2>4, <2>5 DEF l
<1>3. CASE ~ (m # <<>> /\ i.start <= Last(m).end)
  <2> DEFINE c == [start |-> i.start, end |-> i.end]
  <2>1. c \in Chunk /\ c.start = i.start /\ c.end = i.end  BY DEF Chunk, Item
  <2>2. MergeOp(m, i) = Append(m, c)  BY <1>3 DEF MergeOp
  <2> HIDE DEF c
  <2> QED  BY <1>1, <1>3, <2>1, <2>2
<1> QED  BY <1>2, <1>3

\* The merge, item by item.
LEMMA MergeWalk ==
  ASSUME NEW S \in SUBSET Item, IsFiniteSet(S)
  PROVE  \E w : /\ w[0] = <<>>
                /\ \A k \in 1 .. Cardinality(S) : w[k] = MergeOp(w[k - 1], Sorted(S)[k])
                /\ MergeIntervals(S) = w[Cardinality(S)]
<1> DEFINE N == Cardinality(S)
           s == Sorted(S)
           Eq(iter) == iter = [t \in SUBSET DOMAIN s |->
                                 IF t = {} THEN <<>> ELSE MergeOp(iter[t \ {Max(t)}], s[Max(t)])]
           f == CHOOSE iter : Eq(iter)
<1>1. MergeIntervals(S) = f[DOMAIN s]
  BY DEF MergeIntervals, FoldLeft, MapThenFoldSet, MergeOp
<1>2. N \in Nat /\ s \in [1 .. N -> S]
  <2>1. \A i \in S : i.start \in Int  BY DEF Item
  <2> QED  BY <2>1, SortedIs
<1> HIDE DEF N, s
<1>3. \E iter : Eq(iter)
  <2> DEFINE step == [x \in Seq(Chunk) \X (1 .. N) |-> MergeOp(x[1], s[x[2]])]
  <2>1. step \in [Seq(Chunk) \X (1 .. N) -> Seq(Chunk)]
    <3>1. ASSUME NEW x \in Seq(Chunk) \X (1 .. N)  PROVE MergeOp(x[1], s[x[2]]) \in Seq(Chunk)
      <4>1. x[1] \in Seq(Chunk) /\ s[x[2]] \in Item  BY <1>2
      <4> QED  BY <4>1, MergeOpIs
    <3> QED  BY <3>1
  <2>2. \A m \in Seq(Chunk), k \in 1 .. N : step[<<m, k>>] = MergeOp(m, s[k])  OBVIOUS
  <2>3. <<>> \in Seq(Chunk)  OBVIOUS
  <2> HIDE DEF step
  <2>4. PICK g \in [SUBSET (1 .. N) -> Seq(Chunk)] : Folds(N, <<>>, step, g)
    BY <1>2, <2>1, <2>3, FoldExists
  <2>5. ASSUME NEW t \in SUBSET (1 .. N)
        PROVE  g[t] = IF t = {} THEN <<>> ELSE MergeOp(g[t \ {Max(t)}], s[Max(t)])
    <3>1. g[t] = IF t = {} THEN <<>> ELSE step[<<g[t \ {Max(t)}], Max(t)>>]
      BY <2>4 DEF Folds
    <3>2. CASE t = {}  BY <3>1, <3>2
    <3>3. CASE t # {}
      <4>1. Max(t) \in 1 .. N  BY <1>2, <3>3, MaxOf
      <4>2. g[t \ {Max(t)}] \in Seq(Chunk)  OBVIOUS
      <4> QED  BY <2>2, <3>1, <3>3, <4>1, <4>2
    <3> QED  BY <3>2, <3>3
  <2>6. DOMAIN s = 1 .. N  BY <1>2
  <2>7. Eq(g)  BY <2>5, <2>6
  <2> QED  BY <2>7
<1>4. Eq(f)  BY <1>3
<1> HIDE DEF f
<1> DEFINE w == [k \in 0 .. N |-> f[1 .. k]]
<1>5. DOMAIN s = 1 .. N  BY <1>2
<1>6. w[0] = <<>>
  <2>1. 1 .. 0 = {} /\ {} \in SUBSET DOMAIN s /\ 0 \in 0 .. N  BY <1>2
  <2>2. f[{}] = <<>>  BY <1>4, <2>1
  <2> QED  BY <2>1, <2>2
<1>7. ASSUME NEW k \in 1 .. N  PROVE w[k] = MergeOp(w[k - 1], s[k])
  <2>1. Max(1 .. k) = k /\ (1 .. k) \ {k} = 1 .. k - 1 /\ 1 .. k # {}
    <3>1. k \in Nat \ {0}  BY <1>2
    <3> QED  BY <3>1, MaxOfInterval
  <2>2. 1 .. k \in SUBSET DOMAIN s  BY <1>2, <1>5
  <2>3. f[1 .. k] = MergeOp(f[(1 .. k) \ {Max(1 .. k)}], s[Max(1 .. k)])  BY <1>4, <2>1, <2>2
  <2>4. w[k] = f[1 .. k] /\ w[k - 1] = f[1 .. k - 1]  BY <1>2
  <2> QED  BY <2>1, <2>3, <2>4
<1>8. w[N] = f[1 .. N]  BY <1>2
<1> HIDE DEF w
<1> QED  BY <1>1, <1>5, <1>6, <1>7, <1>8 DEF N, s

\* Instant t is in the half-open period i.
In(t, i) == i.start <= t /\ t < i.end

\* Merged periods come in order, with a gap between each and the next.
Apart(m) == \A a, b \in DOMAIN m : a < b => m[a].end < m[b].start

\* What the merge has made of the first k of the sorted items s.
MergeInv(m, s, k) ==
  /\ m \in Seq(Chunk) /\ Apart(m)
  /\ \A t \in Int : (\E a \in DOMAIN m : In(t, m[a])) <=> \E j \in 1 .. k : In(t, s[j])
  /\ k > 0 => m # <<>> /\ Last(m).start <= s[k].start
  /\ k = 0 => m = <<>>

\* Each item merged keeps it.
LEMMA MergeStep ==
  ASSUME NEW N \in Nat, NEW s \in [1 .. N -> Item],
         \A j, k \in 1 .. N : j < k => s[j].start <= s[k].start,
         NEW k \in 1 .. N, NEW m, MergeInv(m, s, k - 1)
  PROVE  MergeInv(MergeOp(m, s[k]), s, k)
<1> DEFINE i == s[k]
           r == MergeOp(m, i)
           l == Last(m)
<1>1. m \in Seq(Chunk) /\ i \in Item /\ Apart(m) /\ k - 1 \in Nat
  BY DEF MergeInv
<1>2. \A t \in Int : (\E a \in DOMAIN m : In(t, m[a])) <=> \E j \in 1 .. k - 1 : In(t, s[j])
  BY DEF MergeInv
<1>3. i.start \in Int /\ i.end \in Int /\ i.start < i.end  BY <1>1 DEF Item
<1>4. \A a \in DOMAIN m : m[a].start \in Int /\ m[a].end \in Int /\ m[a].start < m[a].end
  BY <1>1 DEF Chunk
<1>5. r \in Seq(Chunk)  BY <1>1, MergeOpIs
<1>6. \A t : (\E j \in 1 .. k : In(t, s[j])) <=> In(t, i) \/ \E j \in 1 .. k - 1 : In(t, s[j])
  <2>1. \A j : j \in 1 .. k <=> j = k \/ j \in 1 .. k - 1  BY <1>1
  <2> QED  BY <2>1
<1>7. CASE m # <<>> /\ i.start <= l.end
  <2>1. /\ Len(r) = Len(m) /\ \A a \in 1 .. Len(m) - 1 : r[a] = m[a]
        /\ r[Len(m)].start = l.start
        /\ r[Len(m)].end = IF i.end > l.end THEN i.end ELSE l.end
        /\ l = m[Len(m)] /\ l \in Chunk /\ Len(m) \in DOMAIN m
    BY <1>1, <1>7, MergeOpIs
  <2> DEFINE n == Len(m)
  <2>2. n \in Nat \ {0} /\ DOMAIN m = 1 .. n /\ DOMAIN r = 1 .. n
    BY <1>1, <1>5, <2>1
  <2>3. l.start \in Int /\ l.end \in Int /\ l.start < l.end  BY <2>1 DEF Chunk
  <2>4. l.start <= i.start
    <3>1. k - 1 > 0  BY <1>7 DEF MergeInv
    <3>2. l.start <= s[k - 1].start  BY <3>1 DEF MergeInv
    <3>3. k - 1 \in 1 .. N /\ k - 1 < k  BY <3>1
    <3>4. s[k - 1].start <= i.start  BY <3>3
    <3>5. s[k - 1].start \in Int  BY <3>3 DEF Item
    <3> QED  BY <1>3, <2>3, <3>2, <3>4, <3>5
  <2> HIDE DEF i, r, l, n
  <2>5. Apart(r)
    <3> SUFFICES ASSUME NEW a \in 1 .. n, NEW b \in 1 .. n, a < b  PROVE r[a].end < r[b].start
      BY <2>2 DEF Apart
    <3>1. r[a] = m[a] /\ m[a].end < m[b].start  BY <1>1, <2>1, <2>2 DEF Apart, n
    <3>2. r[b].start = m[b].start  BY <2>1, <2>2 DEF n
    <3> QED  BY <3>1, <3>2
  <2>6. ASSUME NEW t \in Int
        PROVE  (\E a \in DOMAIN r : In(t, r[a])) <=> \E j \in 1 .. k : In(t, s[j])
    <3>1. In(t, r[n]) <=> In(t, l) \/ In(t, i)
      BY <1>3, <1>7, <2>1, <2>3, <2>4 DEF In, n
    <3>2. (\E a \in 1 .. n : In(t, r[a])) <=> In(t, r[n]) \/ \E a \in 1 .. n - 1 : In(t, r[a])
      <4>1. \A a : a \in 1 .. n <=> a = n \/ a \in 1 .. n - 1  BY <2>2
      <4> QED  BY <4>1
    <3>3. (\E a \in 1 .. n : In(t, m[a])) <=> In(t, l) \/ \E a \in 1 .. n - 1 : In(t, m[a])
      <4>1. \A a : a \in 1 .. n <=> a = n \/ a \in 1 .. n - 1  BY <2>2
      <4> QED  BY <2>1, <4>1 DEF n
    <3>4. (\E a \in 1 .. n - 1 : In(t, r[a])) <=> \E a \in 1 .. n - 1 : In(t, m[a])
      BY <2>1 DEF n
    <3> QED  BY <1>2, <1>6, <2>2, <3>1, <3>2, <3>3, <3>4
  <2>7. r # <<>> /\ Last(r).start <= i.start
    BY <1>3, <1>5, <2>1, <2>2, <2>4 DEF Last, n
  <2> QED  BY <1>5, <2>5, <2>6, <2>7 DEF MergeInv, i, r
<1>8. CASE ~ (m # <<>> /\ i.start <= l.end)
  <2> DEFINE n == Len(m)
  <2>1. /\ Len(r) = n + 1 /\ \A a \in 1 .. n : r[a] = m[a]
        /\ r[n + 1].start = i.start /\ r[n + 1].end = i.end
    BY <1>1, <1>8, MergeOpIs
  <2>2. n \in Nat /\ DOMAIN m = 1 .. n /\ DOMAIN r = 1 .. n + 1
    BY <1>1, <1>5, <2>1
  <2>3. ASSUME NEW a \in 1 .. n  PROVE m[a].end < i.start
    <3>1. m # <<>> /\ l = m[n] /\ n \in 1 .. n /\ l \in Chunk
      BY <1>1, <2>2, MergeOpIs
    <3>2. l.end < i.start
      <4>1. l.end \in Int  BY <3>1 DEF Chunk
      <4> QED  BY <1>3, <1>8, <3>1, <4>1
    <3>3. CASE a = n  BY <3>1, <3>2, <3>3
    <3>4. CASE a # n
      <4>1. m[a].end < l.start
        <5> HIDE DEF n, l
        <5>1. a < n /\ a \in DOMAIN m /\ n \in DOMAIN m  BY <2>2, <3>1, <3>4
        <5> QED  BY <1>1, <3>1, <5>1 DEF Apart
      <4>2. m[a].end \in Int  BY <1>4, <2>2
      <4>3. l.start \in Int /\ l.end \in Int /\ l.start < l.end  BY <1>4, <2>2, <3>1
      <4> HIDE DEF i, l, n
      <4> QED  BY <1>3, <3>2, <4>1, <4>2, <4>3
    <3> QED  BY <3>3, <3>4
  <2> HIDE DEF i, r, l, n
  <2>4. Apart(r)
    <3> SUFFICES ASSUME NEW a \in 1 .. n + 1, NEW b \in 1 .. n + 1, a < b
                 PROVE  r[a].end < r[b].start
      BY <2>2 DEF Apart
    <3>1. a \in 1 .. n  BY <2>2
    <3>2. CASE b = n + 1  BY <2>1, <2>3, <3>1, <3>2
    <3>3. CASE b # n + 1
      <4>1. b \in 1 .. n  BY <2>2, <3>3
      <4> QED  BY <1>1, <2>1, <2>2, <3>1, <4>1 DEF Apart
    <3> QED  BY <3>2, <3>3
  <2>5. ASSUME NEW t \in Int
        PROVE  (\E a \in DOMAIN r : In(t, r[a])) <=> \E j \in 1 .. k : In(t, s[j])
    <3>1. In(t, r[n + 1]) <=> In(t, i)  BY <2>1 DEF In
    <3>2. (\E a \in 1 .. n + 1 : In(t, r[a])) <=> In(t, r[n + 1]) \/ \E a \in 1 .. n : In(t, r[a])
      <4>1. \A a : a \in 1 .. n + 1 <=> a = n + 1 \/ a \in 1 .. n  BY <2>2
      <4> QED  BY <4>1
    <3>3. (\E a \in 1 .. n : In(t, r[a])) <=> \E a \in 1 .. n : In(t, m[a])
      BY <2>1
    <3> QED  BY <1>2, <1>6, <2>2, <3>1, <3>2, <3>3
  <2>6. r # <<>> /\ Last(r).start <= i.start
    BY <1>3, <1>5, <2>1, <2>2 DEF Last
  <2> QED  BY <1>5, <2>4, <2>5, <2>6 DEF MergeInv, i, r
<1> QED  BY <1>7, <1>8

\* The merged periods are in order and apart, and cover exactly what the items
\* cover.
LEMMA MergeIs ==
  ASSUME NEW S \in SUBSET Item, IsFiniteSet(S)
  PROVE  /\ MergeIntervals(S) \in Seq(Chunk) /\ Apart(MergeIntervals(S))
         /\ \A t \in Int : (\E a \in DOMAIN MergeIntervals(S) : In(t, MergeIntervals(S)[a]))
                             <=> \E i \in S : In(t, i)
<1> DEFINE N == Cardinality(S)
           s == Sorted(S)
<1>1. /\ N \in Nat /\ s \in [1 .. N -> Item] /\ \A j \in 1 .. N : s[j] \in S
      /\ \A i \in S : \E j \in 1 .. N : s[j] = i
      /\ \A j, k \in 1 .. N : j < k => s[j].start <= s[k].start
  <2>1. \A i \in S : i.start \in Int  BY DEF Item
  <2> QED  BY <2>1, SortedIs
<1>2. PICK w : /\ w[0] = <<>>
               /\ \A k \in 1 .. N : w[k] = MergeOp(w[k - 1], s[k])
               /\ MergeIntervals(S) = w[N]
  BY MergeWalk
<1> HIDE DEF N, s
<1> DEFINE G == {k \in 0 .. N : MergeInv(w[k], s, k)}
<1>3. 0 \in G
  <2>1. MergeInv(<<>>, s, 0)  BY DEF MergeInv, Apart
  <2> QED  BY <1>1, <1>2, <2>1
<1>4. ASSUME NEW k \in 0 .. N - 1, k \in G  PROVE k + 1 \in G
  <2>1. k + 1 \in 1 .. N /\ (k + 1) - 1 = k  BY <1>1
  <2>2. MergeInv(w[k], s, (k + 1) - 1)  BY <1>4, <2>1
  <2>3. MergeInv(MergeOp(w[k], s[k + 1]), s, k + 1)  BY <1>1, <2>1, <2>2, MergeStep
  <2>4. w[k + 1] = MergeOp(w[k], s[k + 1])  BY <1>2, <2>1
  <2> QED  BY <2>1, <2>3, <2>4
<1>5. MergeInv(w[N], s, N)
  <2> HIDE DEF G
  <2>1. N \in Nat /\ N \in 0 .. N  BY <1>1
  <2>2. N \in G  BY <1>3, <1>4, <2>1, UpToN
  <2> QED  BY <2>2 DEF G
<1>6. \A t : (\E j \in 1 .. N : In(t, s[j])) <=> \E i \in S : In(t, i)  BY <1>1
<1> QED  BY <1>2, <1>5, <1>6 DEF MergeInv

-----------------------------------------------------------------------------
(* What is blocked.                                                        *)

\* A period that lasts.
Lasts(w) == w.start \in Int /\ w.end \in Int /\ w.start < w.end

\* Items and merged periods last.
LEMMA ItemsLast == (\A i \in Item : Lasts(i)) /\ \A c \in Chunk : Lasts(c)
  BY DEF Item, Chunk, Lasts

\* Two periods overlap if and only if they have an instant in common.
LEMMA OverlapIsShared ==
  ASSUME NEW a, Lasts(a), NEW b, Lasts(b)
  PROVE  Overlaps(a, b) <=> \E t \in Int : In(t, a) /\ In(t, b)
<1>1. CASE a.start <= b.start  BY <1>1 DEF Lasts, Overlaps, In
<1>2. CASE b.start <= a.start  BY <1>2 DEF Lasts, Overlaps, In
<1> QED  BY <1>1, <1>2 DEF Lasts

\* Widening a period keeps it one, with its kind.
LEMMA GrownIs ==
  ASSUME NEW i \in Item, NEW buffer \in Nat
  PROVE  /\ Grown(i, buffer) \in Item
         /\ Grown(i, buffer).start = i.start - buffer
         /\ Grown(i, buffer).end = i.end + buffer
<1> DEFINE Kinds == {"BOOKING", "BLACKOUT"}
<1>1. i \in [start : Int, end : Int, kind : Kinds] /\ i.start < i.end
  BY DEF Item
<1> HIDE DEF Kinds
<1> DEFINE j == [i EXCEPT !.start = @ - buffer]
<1>2. j = [start |-> i.start - buffer, end |-> i.end, kind |-> i.kind]  BY <1>1
<1>3. Grown(i, buffer) = [j EXCEPT !.end = @ + buffer]  BY <1>1 DEF Grown
<1> HIDE DEF j
<1>4. j \in [start : Int, end : Int, kind : Kinds]  BY <1>1, <1>2
<1>5. [j EXCEPT !.end = @ + buffer] = [start |-> j.start, end |-> j.end + buffer, kind |-> j.kind]
  BY <1>4
<1>6. Grown(i, buffer) = [start |-> i.start - buffer, end |-> i.end + buffer, kind |-> i.kind]
  BY <1>2, <1>3, <1>5
<1> QED  BY <1>1, <1>6 DEF Item, Kinds

\* What is blocked: in order and apart, and covering exactly the widened items.
LEMMA BlockedIs ==
  ASSUME NEW S \in SUBSET Item, IsFiniteSet(S), NEW buffer \in Nat
  PROVE  /\ Blocked(S, buffer) \in Seq(Chunk) /\ Apart(Blocked(S, buffer))
         /\ \A c \in ToSet(Blocked(S, buffer)) : c \in Chunk
         /\ \A t \in Int : (\E c \in ToSet(Blocked(S, buffer)) : In(t, c))
                             <=> \E i \in S : In(t, Grown(i, buffer))
<1> DEFINE B == ApplyBuffer(S, buffer)
           M == Blocked(S, buffer)
<1>1. B \in SUBSET Item  BY GrownIs DEF ApplyBuffer
<1>2. IsFiniteSet(B)
  <2> DEFINE f == [i \in S |-> Grown(i, buffer)]
  <2>1. f \in Surjection(S, B)  BY DEF ApplyBuffer, Surjection
  <2> QED  BY <2>1, FS_Surjection
<1>3. M = MergeIntervals(B)  BY DEF Blocked
<1>4. \A t : (\E i \in B : In(t, i)) <=> \E i \in S : In(t, Grown(i, buffer))
  BY DEF ApplyBuffer
<1> HIDE DEF B, M
<1>5. /\ M \in Seq(Chunk) /\ Apart(M)
      /\ \A t \in Int : (\E a \in DOMAIN M : In(t, M[a])) <=> \E i \in B : In(t, i)
  BY <1>1, <1>2, <1>3, MergeIs
<1>6. \A t : (\E a \in DOMAIN M : In(t, M[a])) <=> \E c \in ToSet(M) : In(t, c)
  BY DEF ToSet
<1>7. \A c \in ToSet(M) : c \in Chunk  BY <1>5 DEF ToSet
<1> QED  BY <1>4, <1>5, <1>6, <1>7 DEF M

\* A window is free if and only if it is clear of every item, widened.
LEMMA FreeIsClear ==
  ASSUME NEW S \in SUBSET Item, IsFiniteSet(S), NEW buffer \in Nat, NEW w, Lasts(w)
  PROVE  IsWindowFree(w, S, buffer) <=> \A i \in S : ~Overlaps(w, Grown(i, buffer))
<1> DEFINE M == ToSet(Blocked(S, buffer))
<1>1. /\ \A c \in M : Lasts(c)
      /\ \A i \in S : Lasts(Grown(i, buffer))
  BY BlockedIs, ItemsLast, GrownIs
<1>2. \A t \in Int : (\E c \in M : In(t, c)) <=> \E i \in S : In(t, Grown(i, buffer))
  BY BlockedIs
<1>3. IsWindowFree(w, S, buffer) <=> \A c \in M : ~Overlaps(w, c)
  BY DEF IsWindowFree
<1> HIDE DEF M
<1>4. (\E c \in M : Overlaps(w, c)) <=> \E t \in Int : In(t, w) /\ \E c \in M : In(t, c)
  BY <1>1, OverlapIsShared
<1>5. (\E i \in S : Overlaps(w, Grown(i, buffer)))
        <=> \E t \in Int : In(t, w) /\ \E i \in S : In(t, Grown(i, buffer))
  BY <1>1, OverlapIsShared
<1> QED  BY <1>2, <1>3, <1>4, <1>5

\* Every item lies inside one blocked period, with its changeovers.
LEMMA InsideOne ==
  ASSUME NEW S \in SUBSET Item, IsFiniteSet(S), NEW buffer \in Nat, NEW i \in S
  PROVE  \E c \in ToSet(Blocked(S, buffer)) : c.start <= i.start - buffer /\ i.end + buffer <= c.end
<1> DEFINE M == Blocked(S, buffer)
           g == Grown(i, buffer)
<1>1. /\ M \in Seq(Chunk) /\ Apart(M)
      /\ \A t \in Int : (\E c \in ToSet(M) : In(t, c)) <=> \E j \in S : In(t, Grown(j, buffer))
  BY BlockedIs
<1>2. Lasts(g) /\ g.start = i.start - buffer /\ g.end = i.end + buffer
  BY GrownIs, ItemsLast
<1>3. \A a \in DOMAIN M : Lasts(M[a])  BY <1>1, ItemsLast
<1> HIDE DEF M, g
<1>4. \A t \in Int : In(t, g) => \E a \in DOMAIN M : In(t, M[a])
  BY <1>1 DEF g, ToSet
<1>5. PICK a \in DOMAIN M : In(g.start, M[a])  BY <1>2, <1>4 DEF In, Lasts
<1>6. ASSUME ~ (g.end <= M[a].end)  PROVE FALSE
  <2>1. M[a].end \in Int /\ In(M[a].end, g)
    BY <1>2, <1>3, <1>5, <1>6 DEF In, Lasts
  <2>2. PICK b \in DOMAIN M : In(M[a].end, M[b])  BY <1>4, <2>1
  <2>3. a \in Int /\ b \in Int  BY <1>1
  <2>4. Lasts(M[a]) /\ Lasts(M[b])  BY <1>3
  <2>5. CASE a < b
    <3>1. M[a].end < M[b].start  BY <1>1, <2>5 DEF Apart
    <3> QED  BY <2>2, <2>4, <3>1 DEF In, Lasts
  <2>6. CASE b < a
    <3>1. M[b].end < M[a].start  BY <1>1, <2>6 DEF Apart
    <3> QED  BY <2>2, <2>4, <3>1 DEF In, Lasts
  <2>7. CASE a = b  BY <2>2, <2>4, <2>7 DEF In, Lasts
  <2> QED  BY <2>3, <2>5, <2>6, <2>7
<1>7. M[a] \in ToSet(M) /\ M[a].start <= g.start /\ g.end <= M[a].end
  BY <1>5, <1>6 DEF ToSet, In
<1> QED  BY <1>2, <1>7 DEF M

-----------------------------------------------------------------------------
(* The grid, and the walk to the next free window.                         *)

\* Rounding up: the result is on the grid, not before t, and nothing on the
\* grid lies between.
LEMMA AlignIs ==
  ASSUME NEW step \in Nat, NEW t \in Int
  PROVE  /\ Align(t, step) \in Int /\ Align(t, step) >= t
         /\ Align(Align(t, step), step) = Align(t, step)
         /\ \A u \in Int : u >= t /\ Align(u, step) = u => u >= Align(t, step)
<1>1. CASE step = 0  BY <1>1 DEF Align
<1>2. CASE step # 0
  <2>1. step \in Nat \ {0} /\ ~ (step <= 0)  BY <1>2
  <2>2. ASSUME NEW u \in Int
        PROVE  \E q \in Int, r \in 0 .. step - 1 : u = step * q + r /\ u % step = r
    <3>1. u = step * (u \div step) + (u % step) /\ (u \div step) \in Int /\ u % step \in 0 .. step - 1
      BY <2>1
    <3> QED  BY <3>1
  <2>3. ASSUME NEW r \in 0 .. step - 1
        PROVE  (step - r) % step = IF r = 0 THEN 0 ELSE step - r
    <3>1. CASE r = 0
      <4>1. step % step = 0  BY <2>1
      <4> QED  BY <3>1, <4>1
    <3>2. CASE r # 0
      <4>1. step - r \in 0 .. step - 1  BY <3>2
      <4>2. \A x \in 0 .. step - 1 : x % step = x  BY <2>1
      <4> QED  BY <3>2, <4>1, <4>2
    <3> QED  BY <3>1, <3>2
  <2>4. ASSUME NEW u \in Int
        PROVE  Align(u, step) = u + (IF u % step = 0 THEN 0 ELSE step - (u % step))
    <3>1. u % step \in 0 .. step - 1  BY <2>1
    <3> QED  BY <2>1, <2>3, <3>1 DEF Align
  <2>5. ASSUME NEW q \in Int  PROVE Align(step * q, step) = step * q
    <3>1. (step * q) % step = 0 /\ step * q \in Int  BY <2>1
    <3> QED  BY <2>4, <3>1
  <2>6. ASSUME NEW u \in Int, Align(u, step) = u  PROVE \E q \in Int : u = step * q
    <3>1. PICK q \in Int, r \in 0 .. step - 1 : u = step * q + r /\ u % step = r  BY <2>2
    <3>2. r = 0  BY <2>4, <2>6, <3>1
    <3> QED  BY <3>1, <3>2
  <2>7. PICK q \in Int, r \in 0 .. step - 1 : t = step * q + r /\ t % step = r  BY <2>2
  <2>8. step * q \in Int /\ step * (q + 1) = step * q + step  BY <2>7
  <2>9. Align(t, step) = IF r = 0 THEN step * q ELSE step * (q + 1)
    BY <2>4, <2>7, <2>8
  <2>10. Align(t, step) \in Int /\ Align(t, step) >= t  BY <2>7, <2>8, <2>9
  <2>11. Align(Align(t, step), step) = Align(t, step)
    <3>1. CASE r = 0  BY <2>5, <2>9, <3>1
    <3>2. CASE r # 0
      <4>1. q + 1 \in Int  OBVIOUS
      <4> QED  BY <2>5, <2>9, <3>2, <4>1
    <3> QED  BY <3>1, <3>2
  <2>12. ASSUME NEW u \in Int, u >= t, Align(u, step) = u  PROVE u >= Align(t, step)
    <3>1. CASE r = 0  BY <2>7, <2>8, <2>9, <2>12, <3>1
    <3>2. CASE r # 0
      <4>1. PICK p \in Int : u = step * p  BY <2>6, <2>12
      <4>2. step * q < step * p  BY <2>7, <2>8, <2>12, <3>2, <4>1
      <4>3. q < p  BY <2>1, <2>7, <4>1, <4>2
      <4>4. p - (q + 1) \in Nat  BY <2>7, <4>1, <4>3
      <4>5. step * p = step * (q + 1) + step * (p - (q + 1))  BY <2>7, <4>1
      <4>6. step * (p - (q + 1)) \in Nat  BY <4>4
      <4>7. step * (q + 1) \in Int  BY <2>8
      <4> QED  BY <2>9, <3>2, <4>1, <4>5, <4>6, <4>7
    <3> QED  BY <3>1, <3>2
  <2> QED  BY <2>10, <2>11, <2>12
<1> QED  BY <1>1, <1>2

\* The earliest start still possible, and the answer once there is one.
Walk == [cursor : Int, found : SUBSET Int]

\* One step of the walk through the gaps.
LookOp(walk, i, duration, dayEnd, blocked, step) ==
  IF walk.found # {} \/ i.end <= walk.cursor THEN walk
  ELSE IF /\ i.start > walk.cursor
          /\ Fits(walk.cursor, duration, dayEnd, blocked)
          /\ walk.cursor + duration <= i.start
       THEN [walk EXCEPT !.found = {walk.cursor}]
       ELSE [walk EXCEPT !.cursor = Align(i.end, step)]

\* The walk keeps its type.
LEMMA LookOpType ==
  ASSUME NEW walk \in Walk, NEW i \in Chunk, NEW duration, NEW dayEnd, NEW blocked, NEW step \in Nat
  PROVE  LookOp(walk, i, duration, dayEnd, blocked, step) \in Walk
<1>1. i.end \in Int  BY DEF Chunk
<1>2. Align(i.end, step) \in Int  BY <1>1, AlignIs
<1>3. [walk EXCEPT !.found = {walk.cursor}] \in Walk  BY DEF Walk
<1>4. [walk EXCEPT !.cursor = Align(i.end, step)] \in Walk  BY <1>2 DEF Walk
<1> QED  BY <1>3, <1>4 DEF LookOp

\* The walk, one blocked period after the other.
Walked(w, M, from, duration, dayEnd, step) ==
  /\ w[0] = [cursor |-> Align(from, step), found |-> {}]
  /\ \A k \in 1 .. Len(M) : w[k] = LookOp(w[k - 1], M[k], duration, dayEnd, M, step)

\* What it ends with.
Outcome(walk, duration, dayEnd, M) ==
  IF walk.found # {} THEN walk.found
  ELSE {t \in {walk.cursor} : Fits(t, duration, dayEnd, M)}

\* The search for the next free window is that walk.
LEMMA LookWalk ==
  ASSUME NEW busy, NEW buffer, NEW M \in Seq(Chunk), M = Blocked(busy, buffer),
         NEW from \in Int, NEW dayEnd, NEW duration, NEW step \in Nat
  PROVE  \E w : /\ Walked(w, M, from, duration, dayEnd, step)
                /\ NextFreeWindow(from, dayEnd, duration, busy, buffer, step)
                     = Outcome(w[Len(M)], duration, dayEnd, M)
<1> DEFINE s == M
           N == Len(M)
           base == [cursor |-> Align(from, step), found |-> {}]
           Op(walk, i) == LookOp(walk, i, duration, dayEnd, s, step)
           Eq(iter) == iter = [t \in SUBSET DOMAIN s |->
                                 IF t = {} THEN base ELSE Op(iter[t \ {Max(t)}], s[Max(t)])]
           f == CHOOSE iter : Eq(iter)
<1>1. NextFreeWindow(from, dayEnd, duration, busy, buffer, step)
        = Outcome(f[DOMAIN s], duration, dayEnd, M)
  BY DEF NextFreeWindow, FoldLeft, MapThenFoldSet, LookOp, Outcome
<1>2. N \in Nat /\ s \in [1 .. N -> Chunk]  OBVIOUS
<1> SUFFICES \E w : /\ w[0] = base
                    /\ \A k \in 1 .. N : w[k] = Op(w[k - 1], s[k])
                    /\ w[N] = f[DOMAIN s]
  BY <1>1 DEF Walked
<1> HIDE DEF N, s
<1>3. \E iter : Eq(iter)
  <2> DEFINE step1 == [x \in Walk \X (1 .. N) |-> Op(x[1], s[x[2]])]
  <2>1. step1 \in [Walk \X (1 .. N) -> Walk]
    <3>1. ASSUME NEW x \in Walk \X (1 .. N)  PROVE Op(x[1], s[x[2]]) \in Walk
      <4>1. x[1] \in Walk /\ s[x[2]] \in Chunk  BY <1>2
      <4> QED  BY <4>1, LookOpType
    <3> HIDE DEF Op
    <3> QED  BY <3>1
  <2>2. \A m \in Walk, k \in 1 .. N : step1[<<m, k>>] = Op(m, s[k])  OBVIOUS
  <2>3. base \in Walk  BY AlignIs DEF Walk
  <2> HIDE DEF step1, base, Op
  <2>4. PICK g \in [SUBSET (1 .. N) -> Walk] : Folds(N, base, step1, g)
    BY <1>2, <2>1, <2>3, FoldExists
  <2>5. ASSUME NEW t \in SUBSET (1 .. N)
        PROVE  g[t] = IF t = {} THEN base ELSE Op(g[t \ {Max(t)}], s[Max(t)])
    <3>1. g[t] = IF t = {} THEN base ELSE step1[<<g[t \ {Max(t)}], Max(t)>>]
      BY <2>4 DEF Folds
    <3>2. CASE t = {}  BY <3>1, <3>2
    <3>3. CASE t # {}
      <4>1. Max(t) \in 1 .. N  BY <1>2, <3>3, MaxOf
      <4>2. g[t \ {Max(t)}] \in Walk  OBVIOUS
      <4> QED  BY <2>2, <3>1, <3>3, <4>1, <4>2
    <3> QED  BY <3>2, <3>3
  <2>6. DOMAIN s = 1 .. N  BY <1>2
  <2>7. Eq(g)  BY <2>5, <2>6
  <2> QED  BY <2>7
<1>4. Eq(f)  BY <1>3
<1> HIDE DEF f, Op, base
<1> DEFINE w == [k \in 0 .. N |-> f[1 .. k]]
<1>5. DOMAIN s = 1 .. N  BY <1>2
<1>6. w[0] = base
  <2>1. 1 .. 0 = {} /\ {} \in SUBSET DOMAIN s /\ 0 \in 0 .. N  BY <1>2
  <2>2. f[{}] = base  BY <1>4, <2>1
  <2> QED  BY <2>1, <2>2
<1>7. ASSUME NEW k \in 1 .. N  PROVE w[k] = Op(w[k - 1], s[k])
  <2>1. Max(1 .. k) = k /\ (1 .. k) \ {k} = 1 .. k - 1 /\ 1 .. k # {}
    <3>1. k \in Nat \ {0}  BY <1>2
    <3> QED  BY <3>1, MaxOfInterval
  <2>2. 1 .. k \in SUBSET DOMAIN s  BY <1>2, <1>5
  <2>3. f[1 .. k] = Op(f[(1 .. k) \ {Max(1 .. k)}], s[Max(1 .. k)])  BY <1>4, <2>1, <2>2
  <2>4. w[k] = f[1 .. k] /\ w[k - 1] = f[1 .. k - 1]  BY <1>2
  <2> QED  BY <2>1, <2>3, <2>4
<1>8. w[N] = f[DOMAIN s]  BY <1>2, <1>5
<1> HIDE DEF w
<1> QED  BY <1>6, <1>7, <1>8

\* Whether a window of this length may start at t: on the grid, from the first
\* instant asked about, before the room closes and clear of what is blocked.
Possible(t, from, duration, dayEnd, blocked, step) ==
  t >= from /\ Align(t, step) = t /\ Fits(t, duration, dayEnd, blocked)

\* What the walk knows after k blocked periods.
LookInv(walk, k, from, duration, dayEnd, M, step) ==
  /\ walk \in Walk
  /\ walk.cursor >= from /\ Align(walk.cursor, step) = walk.cursor
  /\ \A t \in Int : Possible(t, from, duration, dayEnd, M, step) => t >= walk.cursor
  /\ walk.found = {} => \A j \in 1 .. k : M[j].end <= walk.cursor
  /\ walk.found # {} =>
       walk.found = {walk.cursor} /\ Fits(walk.cursor, duration, dayEnd, M)

\* What is in the way of a window that would be over before the room closes.
LEMMA SomethingInTheWay ==
  ASSUME NEW M \in Seq(Chunk), NEW t \in Int, NEW duration \in Int, NEW dayEnd \in Int,
         t + duration <= dayEnd, ~ Fits(t, duration, dayEnd, M)
  PROVE  \E j \in DOMAIN M : t < M[j].end /\ M[j].start < t + duration
<1>1. PICK i \in ToSet(M) : Overlaps(Window(t, duration), i)  BY DEF Fits
<1>2. PICK j \in DOMAIN M : M[j] = i  BY DEF ToSet
<1> QED  BY <1>1, <1>2 DEF Overlaps, Window

\* And what fits is clear of each blocked period.
LEMMA FitsIsClear ==
  ASSUME NEW M \in Seq(Chunk), NEW t \in Int, NEW duration \in Int, NEW dayEnd \in Int,
         Fits(t, duration, dayEnd, M), NEW j \in DOMAIN M
  PROVE  t + duration <= dayEnd /\ (M[j].end <= t \/ t + duration <= M[j].start)
<1>1. M[j] \in ToSet(M) /\ M[j] \in Chunk  BY DEF ToSet
<1>2. ~ Overlaps(Window(t, duration), M[j]) /\ t + duration <= dayEnd  BY <1>1 DEF Fits
<1>3. M[j].start \in Int /\ M[j].end \in Int  BY <1>1 DEF Chunk
<1> QED  BY <1>2, <1>3 DEF Overlaps, Window

\* Each blocked period the walk passes leaves the cursor where it may be.
LEMMA LookStep ==
  ASSUME NEW M \in Seq(Chunk), Apart(M), NEW from \in Int, NEW dayEnd \in Int,
         NEW duration \in Nat \ {0}, NEW step \in Nat,
         NEW k \in 1 .. Len(M), NEW walk, LookInv(walk, k - 1, from, duration, dayEnd, M, step)
  PROVE  LookInv(LookOp(walk, M[k], duration, dayEnd, M, step), k, from, duration, dayEnd, M, step)
<1> DEFINE i == M[k]
           c == walk.cursor
           next == LookOp(walk, i, duration, dayEnd, M, step)
           Ok(t) == Possible(t, from, duration, dayEnd, M, step)
<1>1. /\ walk \in Walk /\ c \in Int /\ c >= from /\ Align(c, step) = c
      /\ \A t \in Int : Ok(t) => t >= c
  BY DEF LookInv, Walk
<1>2. \A j \in DOMAIN M : M[j].start \in Int /\ M[j].end \in Int /\ M[j].start < M[j].end
  BY DEF Chunk
<1>3. k \in DOMAIN M /\ k \in Nat /\ DOMAIN M = 1 .. Len(M) /\ Len(M) \in Nat  OBVIOUS
<1>4. i.start \in Int /\ i.end \in Int /\ i.start < i.end  BY <1>2, <1>3
<1>5. \A j \in 1 .. k : j = k \/ j \in 1 .. k - 1  BY <1>3
<1>6. CASE walk.found # {}
  <2>1. next = walk  BY <1>6 DEF LookOp
  <2> QED  BY <1>6, <2>1 DEF LookInv
<1>7. CASE walk.found = {} /\ i.end <= c
  <2>1. next = walk  BY <1>7 DEF LookOp
  <2>2. \A j \in 1 .. k : M[j].end <= c  BY <1>5, <1>7 DEF LookInv
  <2> QED  BY <1>7, <2>1, <2>2 DEF LookInv
<1>8. CASE /\ walk.found = {} /\ ~ (i.end <= c)
           /\ i.start > c /\ Fits(c, duration, dayEnd, M) /\ c + duration <= i.start
  <2>1. next = [walk EXCEPT !.found = {c}]  BY <1>8 DEF LookOp
  <2>2. next \in Walk /\ next.cursor = c /\ next.found = {c}  BY <1>1, <2>1 DEF Walk
  <2> HIDE DEF next
  <2> QED  BY <1>1, <1>8, <2>2 DEF LookInv, next
<1>9. CASE /\ walk.found = {} /\ ~ (i.end <= c)
           /\ ~ (i.start > c /\ Fits(c, duration, dayEnd, M) /\ c + duration <= i.start)
  <2> DEFINE d == Align(i.end, step)
  <2>1. next = [walk EXCEPT !.cursor = d]  BY <1>9 DEF LookOp
  <2>2. d \in Int /\ d >= i.end /\ Align(d, step) = d
        /\ \A u \in Int : u >= i.end /\ Align(u, step) = u => u >= d
    BY <1>4, AlignIs
  <2> HIDE DEF d
  <2>3. next \in Walk /\ next.cursor = d /\ next.found = {}  BY <1>1, <1>9, <2>1, <2>2 DEF Walk
  <2>4. d >= from  BY <1>1, <1>4, <1>9, <2>2
  <2>5. ASSUME NEW j \in 1 .. k  PROVE M[j].end <= d
    <3>1. CASE j = k  BY <1>4, <2>2, <3>1
    <3>2. CASE j \in 1 .. k - 1
      <4>1. M[j].end <= c /\ j \in DOMAIN M  BY <1>3, <1>9, <3>2 DEF LookInv
      <4> QED  BY <1>1, <1>2, <1>4, <1>9, <2>2, <4>1
    <3> QED  BY <1>5, <3>1, <3>2
  <2>6. ASSUME NEW t \in Int, Ok(t)  PROVE t >= d
    <3>1. t >= c /\ Align(t, step) = t /\ Fits(t, duration, dayEnd, M)
      BY <1>1, <2>6 DEF Possible
    <3>2. ASSUME ~ (t >= i.end)  PROVE FALSE
      <4>1. t + duration <= dayEnd /\ t + duration <= i.start
        <5>1. k \in DOMAIN M  BY <1>3
        <5>2. Fits(t, duration, dayEnd, M)  BY <3>1
        <5>3. duration \in Int  OBVIOUS
        <5>4. t + duration <= dayEnd /\ (M[k].end <= t \/ t + duration <= M[k].start)
          BY <5>1, <5>2, <5>3, FitsIsClear
        <5> QED  BY <1>4, <3>2, <5>3, <5>4
      <4>2. c + duration <= dayEnd /\ c + duration <= i.start /\ i.start > c
        <5>1. c \in Int /\ i.start \in Int /\ duration \in Nat \ {0} /\ t >= c
          BY <1>1, <1>4, <3>1
        <5> HIDE DEF c, i
        <5> QED  BY <4>1, <5>1
      <4>3. ~ Fits(c, duration, dayEnd, M)  BY <1>9, <4>2
      <4>4. PICK j \in DOMAIN M : c < M[j].end /\ M[j].start < c + duration
        <5>1. c \in Int /\ duration \in Int /\ c + duration <= dayEnd  BY <1>1, <4>2
        <5> HIDE DEF c, i
        <5> QED  BY <4>3, <5>1, SomethingInTheWay
      <4>5. CASE j \in 1 .. k - 1
        <5>1. M[j].end <= c  BY <1>9, <4>5 DEF LookInv
        <5> QED  BY <1>1, <1>2, <4>4, <5>1
      <4>6. CASE j = k  BY <1>1, <1>4, <4>2, <4>4, <4>6
      <4>7. CASE j > k
        <5>1. i.end < M[j].start  BY <1>3, <4>7 DEF Apart
        <5>2. c \in Int /\ M[j].start \in Int /\ duration \in Int  BY <1>1, <1>2
        <5> HIDE DEF c, i
        <5> QED  BY <1>4, <4>2, <4>4, <5>1, <5>2
      <4>8. j \in 1 .. k - 1 \/ j = k \/ j > k
        <5>1. j \in 1 .. Len(M) /\ k \in Nat /\ Len(M) \in Nat  BY <1>3
        <5> QED  BY <1>3, <5>1
      <4> QED  BY <4>5, <4>6, <4>7, <4>8
    <3> QED  BY <1>4, <2>2, <3>1, <3>2
  <2> HIDE DEF next, i, c
  <2> QED  BY <2>2, <2>3, <2>4, <2>5, <2>6 DEF LookInv, next, i
<1> QED  BY <1>6, <1>7, <1>8, <1>9

\* An answer is the earliest instant that is possible, or none if none is.
Earliest(answer, from, duration, dayEnd, M, step) ==
  \/ answer = {} /\ \A t \in Int : ~ Possible(t, from, duration, dayEnd, M, step)
  \/ \E x \in Int : /\ answer = {x} /\ Possible(x, from, duration, dayEnd, M, step)
                    /\ \A t \in Int : Possible(t, from, duration, dayEnd, M, step) => x <= t

\* Such is the answer of the search for the next free window.
LEMMA NextFreeIs ==
  ASSUME NEW busy, NEW buffer, NEW M \in Seq(Chunk), M = Blocked(busy, buffer), Apart(M),
         NEW from \in Int, NEW dayEnd \in Int, NEW duration \in Nat \ {0}, NEW step \in Nat
  PROVE  Earliest(NextFreeWindow(from, dayEnd, duration, busy, buffer, step),
                  from, duration, dayEnd, M, step)
<1> DEFINE N == Len(M)
           Ok(t) == Possible(t, from, duration, dayEnd, M, step)
           found == NextFreeWindow(from, dayEnd, duration, busy, buffer, step)
<1>1. PICK w : /\ Walked(w, M, from, duration, dayEnd, step)
               /\ found = Outcome(w[N], duration, dayEnd, M)
  BY LookWalk
<1>2. N \in Nat /\ DOMAIN M = 1 .. N  OBVIOUS
<1> HIDE DEF N, found
<1> DEFINE G == {k \in 0 .. N : LookInv(w[k], k, from, duration, dayEnd, M, step)}
<1>3. 0 \in G
  <2>1. /\ Align(from, step) \in Int /\ Align(from, step) >= from
        /\ Align(Align(from, step), step) = Align(from, step)
        /\ \A t \in Int : t >= from /\ Align(t, step) = t => t >= Align(from, step)
    BY AlignIs
  <2>2. w[0] \in Walk /\ w[0].cursor = Align(from, step) /\ w[0].found = {}
    BY <1>1, <2>1 DEF Walk, Walked
  <2>3. \A j \in 1 .. 0 : M[j].end <= w[0].cursor  OBVIOUS
  <2> QED  BY <1>2, <2>1, <2>2, <2>3 DEF LookInv, Possible
<1>4. ASSUME NEW k \in 0 .. N - 1, k \in G  PROVE k + 1 \in G
  <2>1. k + 1 \in 1 .. N /\ (k + 1) - 1 = k  BY <1>2
  <2>2. LookInv(w[k], (k + 1) - 1, from, duration, dayEnd, M, step)  BY <1>4, <2>1
  <2>3. LookInv(LookOp(w[k], M[k + 1], duration, dayEnd, M, step), k + 1,
                from, duration, dayEnd, M, step)
    BY <1>2, <2>1, <2>2, LookStep DEF N
  <2>4. w[k + 1] = LookOp(w[k], M[k + 1], duration, dayEnd, M, step)
    BY <1>1, <2>1 DEF Walked, N
  <2> QED  BY <2>1, <2>3, <2>4
<1>5. LookInv(w[N], N, from, duration, dayEnd, M, step)
  <2> HIDE DEF G
  <2>1. N \in Nat /\ N \in 0 .. N  BY <1>2
  <2>2. N \in G  BY <1>3, <1>4, <2>1, UpToN
  <2> QED  BY <2>2 DEF G
<1> DEFINE c == w[N].cursor
<1>6. c \in Int /\ c >= from /\ Align(c, step) = c /\ \A t \in Int : Ok(t) => t >= c
  BY <1>5 DEF LookInv, Walk
<1>7. CASE w[N].found # {}
  <2>1. found = {c} /\ Fits(c, duration, dayEnd, M)  BY <1>1, <1>5, <1>7 DEF LookInv, Outcome
  <2>2. Ok(c)  BY <1>6, <2>1 DEF Possible
  <2> QED  BY <1>6, <2>1, <2>2 DEF found, Earliest
<1>8. CASE w[N].found = {} /\ Fits(c, duration, dayEnd, M)
  <2>1. found = {c}  BY <1>1, <1>8 DEF Outcome
  <2>2. Ok(c)  BY <1>6, <1>8 DEF Possible
  <2> QED  BY <1>6, <2>1, <2>2 DEF found, Earliest
<1>9. CASE w[N].found = {} /\ ~ Fits(c, duration, dayEnd, M)
  <2>1. found = {}  BY <1>1, <1>9 DEF Outcome
  <2>2. ASSUME NEW t \in Int, Ok(t)  PROVE FALSE
    <3>1. t >= c /\ Fits(t, duration, dayEnd, M)  BY <1>6, <2>2 DEF Possible
    <3>2. t + duration <= dayEnd  BY <3>1 DEF Fits
    <3>3. c + duration <= dayEnd /\ duration \in Int  BY <1>6, <3>1, <3>2
    <3> HIDE DEF c
    <3>4. PICK j \in DOMAIN M : c < M[j].end /\ M[j].start < c + duration
      BY <1>6, <1>9, <3>3, SomethingInTheWay
    <3>5. M[j].end <= c  BY <1>2, <1>5, <1>9, <3>4 DEF LookInv, c
    <3>6. M[j].end \in Int  BY <1>2 DEF Chunk
    <3> QED  BY <1>6, <3>4, <3>5, <3>6
  <2> QED  BY <2>1, <2>2 DEF found, Earliest
<1> QED  BY <1>7, <1>8, <1>9

-----------------------------------------------------------------------------
(* The timeline: the pieces of one blocked period, and all of them.        *)

\* A piece of the timeline, and how far the pieces have been laid.
Block == [start : Int, end : Int, kind : {"BOOKING", "BLACKOUT", "BUFFER"}]
Laid == [cursor : Int, blocks : SUBSET Block]

\* One step of laying the pieces of a blocked period.
LayOp(walk, i, chunk) ==
  LET c == Clipped(i, chunk) IN
    IF c.end <= walk.cursor THEN walk
    ELSE [cursor |-> c.end,
          blocks |-> walk.blocks \cup {c}
                     \cup {b \in {Buffer(walk.cursor, c.start)} : b.start < b.end}]

\* An item that lies inside the period is left as it is.
LEMMA ClippedType ==
  ASSUME NEW i \in Item, NEW chunk \in Chunk
  PROVE  /\ Clipped(i, chunk) \in Block
         /\ chunk.start <= i.start /\ i.end <= chunk.end =>
              /\ Clipped(i, chunk).start = i.start /\ Clipped(i, chunk).end = i.end
              /\ Clipped(i, chunk).kind = i.kind
  BY DEF Clipped, Item, Chunk, Block

\* Laying keeps its type.
LEMMA LayOpType ==
  ASSUME NEW walk \in Laid, NEW i \in Item, NEW chunk \in Chunk
  PROVE  LayOp(walk, i, chunk) \in Laid
<1> DEFINE c == Clipped(i, chunk)
           d == Buffer(walk.cursor, c.start)
           new == [cursor |-> c.end,
                   blocks |-> walk.blocks \cup {c} \cup {b \in {d} : b.start < b.end}]
<1>1. c \in Block  BY ClippedType
<1>2. c.start \in Int /\ c.end \in Int /\ walk.cursor \in Int /\ walk.blocks \in SUBSET Block
  BY <1>1 DEF Block, Laid
<1>3. d \in Block  BY <1>2 DEF Block, Buffer
<1>4. LayOp(walk, i, chunk) = IF c.end <= walk.cursor THEN walk ELSE new  BY DEF LayOp
<1> HIDE DEF c, d
<1>5. new \in Laid  BY <1>1, <1>2, <1>3 DEF Laid
<1> QED  BY <1>4, <1>5

\* The walk over the items of one blocked period.
LaidOut(w, s, n, chunk) ==
  /\ w[0] = [cursor |-> chunk.start, blocks |-> {}]
  /\ \A k \in 1 .. n : w[k] = LayOp(w[k - 1], s[k], chunk)

\* A changeover up to the end of the period closes it.
Closed(walk, chunk) ==
  walk.blocks \cup {b \in {Buffer(walk.cursor, chunk.end)} : b.start < b.end}

\* The items in a blocked period.
Inside(chunk, items) == {i \in items : Overlaps(i, chunk)}

\* The pieces of a blocked period are what that walk ends with.
LEMMA LayWalk ==
  ASSUME NEW chunk \in Chunk, NEW items \in SUBSET Item, IsFiniteSet(items)
  PROVE  \E w : /\ LaidOut(w, Sorted(Inside(chunk, items)), Cardinality(Inside(chunk, items)), chunk)
                /\ Pieces(chunk, items) = Closed(w[Cardinality(Inside(chunk, items))], chunk)
<1> DEFINE S == Inside(chunk, items)
           s == Sorted(S)
           N == Cardinality(S)
           base == [cursor |-> chunk.start, blocks |-> {}]
           Op(walk, i) == LayOp(walk, i, chunk)
           Eq(iter) == iter = [t \in SUBSET DOMAIN s |->
                                 IF t = {} THEN base ELSE Op(iter[t \ {Max(t)}], s[Max(t)])]
           f == CHOOSE iter : Eq(iter)
<1>1. Pieces(chunk, items) = Closed(f[DOMAIN s], chunk)
  BY DEF Pieces, FoldLeft, MapThenFoldSet, LayOp, Closed, Inside
<1>2. N \in Nat /\ s \in [1 .. N -> Item]
  <2>1. S \in SUBSET items /\ \A i \in S : i.start \in Int  BY DEF Inside, Item
  <2>2. IsFiniteSet(S)  BY <2>1, FS_Subset
  <2> HIDE DEF S
  <2>3. N \in Nat /\ s \in [1 .. N -> S]  BY <2>1, <2>2, SortedIs
  <2> QED  BY <2>1, <2>3
<1> SUFFICES \E w : /\ w[0] = base
                    /\ \A k \in 1 .. N : w[k] = Op(w[k - 1], s[k])
                    /\ w[N] = f[DOMAIN s]
  BY <1>1 DEF LaidOut
<1> HIDE DEF N, s, S
<1>3. \E iter : Eq(iter)
  <2> DEFINE step1 == [x \in Laid \X (1 .. N) |-> Op(x[1], s[x[2]])]
  <2>1. step1 \in [Laid \X (1 .. N) -> Laid]
    <3>1. ASSUME NEW x \in Laid \X (1 .. N)  PROVE Op(x[1], s[x[2]]) \in Laid
      <4>1. x[1] \in Laid /\ s[x[2]] \in Item  BY <1>2
      <4> QED  BY <4>1, LayOpType
    <3> HIDE DEF Op
    <3> QED  BY <3>1
  <2>2. \A m \in Laid, k \in 1 .. N : step1[<<m, k>>] = Op(m, s[k])  OBVIOUS
  <2>3. base \in Laid  BY DEF Laid, Chunk
  <2> HIDE DEF step1, base, Op
  <2>4. PICK g \in [SUBSET (1 .. N) -> Laid] : Folds(N, base, step1, g)
    BY <1>2, <2>1, <2>3, FoldExists
  <2>5. ASSUME NEW t \in SUBSET (1 .. N)
        PROVE  g[t] = IF t = {} THEN base ELSE Op(g[t \ {Max(t)}], s[Max(t)])
    <3>1. g[t] = IF t = {} THEN base ELSE step1[<<g[t \ {Max(t)}], Max(t)>>]
      BY <2>4 DEF Folds
    <3>2. CASE t = {}  BY <3>1, <3>2
    <3>3. CASE t # {}
      <4>1. Max(t) \in 1 .. N  BY <1>2, <3>3, MaxOf
      <4>2. g[t \ {Max(t)}] \in Laid  OBVIOUS
      <4> QED  BY <2>2, <3>1, <3>3, <4>1, <4>2
    <3> QED  BY <3>2, <3>3
  <2>6. DOMAIN s = 1 .. N  BY <1>2
  <2>7. Eq(g)  BY <2>5, <2>6
  <2> QED  BY <2>7
<1>4. Eq(f)  BY <1>3
<1> HIDE DEF f, Op, base
<1> DEFINE w == [k \in 0 .. N |-> f[1 .. k]]
<1>5. DOMAIN s = 1 .. N  BY <1>2
<1>6. w[0] = base
  <2>1. 1 .. 0 = {} /\ {} \in SUBSET DOMAIN s /\ 0 \in 0 .. N  BY <1>2
  <2>2. f[{}] = base  BY <1>4, <2>1
  <2> QED  BY <2>1, <2>2
<1>7. ASSUME NEW k \in 1 .. N  PROVE w[k] = Op(w[k - 1], s[k])
  <2>1. Max(1 .. k) = k /\ (1 .. k) \ {k} = 1 .. k - 1 /\ 1 .. k # {}
    <3>1. k \in Nat \ {0}  BY <1>2
    <3> QED  BY <3>1, MaxOfInterval
  <2>2. 1 .. k \in SUBSET DOMAIN s  BY <1>2, <1>5
  <2>3. f[1 .. k] = Op(f[(1 .. k) \ {Max(1 .. k)}], s[Max(1 .. k)])  BY <1>4, <2>1, <2>2
  <2>4. w[k] = f[1 .. k] /\ w[k - 1] = f[1 .. k - 1]  BY <1>2
  <2> QED  BY <2>1, <2>3, <2>4
<1>8. w[N] = f[DOMAIN s]  BY <1>2, <1>5
<1> HIDE DEF w
<1> QED  BY <1>6, <1>7, <1>8

\* What has been laid of a blocked period after k of its items: everything up
\* to the cursor, and the items among it as they are.
LayInv(walk, s, k, chunk) ==
  /\ walk \in Laid /\ \A b \in walk.blocks : Lasts(b)
  /\ chunk.start <= walk.cursor
  /\ \A t \in Int : (\E b \in walk.blocks : In(t, b)) <=> chunk.start <= t /\ t < walk.cursor
  /\ \A t \in Int : (\E b \in walk.blocks : b.kind # "BUFFER" /\ In(t, b))
                      <=> \E j \in 1 .. k : In(t, s[j])
  /\ walk.cursor = chunk.start \/ \E j \in 1 .. k : walk.cursor = s[j].end

\* Each item laid keeps it.
LEMMA LayStep ==
  ASSUME NEW chunk \in Chunk, NEW N \in Nat, NEW s \in [1 .. N -> Item],
         \A j \in 1 .. N : chunk.start <= s[j].start /\ s[j].end <= chunk.end,
         \A j, k \in 1 .. N : j < k => s[j].start <= s[k].start,
         NEW k \in 1 .. N, NEW walk, LayInv(walk, s, k - 1, chunk)
  PROVE  LayInv(LayOp(walk, s[k], chunk), s, k, chunk)
<1> DEFINE i == s[k]
           c == Clipped(i, chunk)
           cur == walk.cursor
           next == LayOp(walk, i, chunk)
<1>1. /\ i \in Item /\ i.start \in Int /\ i.end \in Int /\ i.start < i.end
      /\ i.kind # "BUFFER" /\ chunk.start <= i.start
      /\ chunk.start \in Int
  BY DEF Item, Chunk
<1>2. c \in Block /\ c.start = i.start /\ c.end = i.end /\ c.kind = i.kind
  BY ClippedType
<1>3. /\ walk \in Laid /\ cur \in Int /\ chunk.start <= cur
      /\ walk.blocks \in SUBSET Block
      /\ \A b \in walk.blocks : Lasts(b)
  BY DEF LayInv, Laid
<1>4. \A j : j \in 1 .. k <=> j = k \/ j \in 1 .. k - 1  OBVIOUS
<1>5. \A t \in Int : (\E b \in walk.blocks : In(t, b)) <=> chunk.start <= t /\ t < cur
  BY DEF LayInv
<1>6. \A t \in Int : (\E b \in walk.blocks : b.kind # "BUFFER" /\ In(t, b))
                       <=> \E j \in 1 .. k - 1 : In(t, s[j])
  BY DEF LayInv
<1>7. \A t : (\E j \in 1 .. k : In(t, s[j])) <=> In(t, i) \/ \E j \in 1 .. k - 1 : In(t, s[j])
  BY <1>4
<1>8. cur = chunk.start \/ \E j \in 1 .. k - 1 : cur = s[j].end
  BY DEF LayInv
<1>9. CASE c.end <= cur
  <2>1. next = walk  BY <1>9 DEF LayOp
  <2>2. PICK j \in 1 .. k - 1 : cur = s[j].end
    BY <1>1, <1>2, <1>8, <1>9
  <2>3. s[j].start <= i.start /\ s[j].start \in Int /\ s[j].end \in Int
    <3>1. j \in 1 .. N /\ j < k  OBVIOUS
    <3> QED  BY <3>1 DEF Item
  <2>4. \A t \in Int : In(t, i) => In(t, s[j])
    BY <1>1, <1>2, <1>9, <2>2, <2>3 DEF In
  <2>5. \A t \in Int : (\E b \in walk.blocks : b.kind # "BUFFER" /\ In(t, b))
                         <=> \E l \in 1 .. k : In(t, s[l])
    BY <1>6, <1>7, <2>4
  <2>6. cur = chunk.start \/ \E l \in 1 .. k : cur = s[l].end  BY <1>4, <1>8
  <2> QED  BY <1>3, <1>5, <2>1, <2>5, <2>6 DEF LayInv
<1>10. CASE ~ (c.end <= cur)
  <2> DEFINE d == Buffer(cur, c.start)
             D == {b \in {d} : b.start < b.end}
  <2>1. /\ next.cursor = c.end /\ next.blocks = walk.blocks \cup {c} \cup D
        /\ next \in Laid
    <3>1. next \in Laid  BY <1>1, <1>3, LayOpType
    <3>2. next = [cursor |-> c.end, blocks |-> walk.blocks \cup {c} \cup D]
      BY <1>10 DEF LayOp
    <3> QED  BY <3>1, <3>2
  <2>2. d.start = cur /\ d.end = i.start /\ d.kind = "BUFFER"  BY <1>2 DEF Buffer
  <2> HIDE DEF next, i, c, cur, d
  <2>3. \A b \in next.blocks : b \in walk.blocks \/ b = c \/ (b = d /\ cur < i.start)
    BY <2>1, <2>2
  <2>4. \A b \in next.blocks : Lasts(b)
    BY <1>1, <1>2, <1>3, <2>2, <2>3 DEF Lasts
  <2>5. ASSUME NEW t \in Int
        PROVE  (\E b \in next.blocks : In(t, b)) <=> chunk.start <= t /\ t < i.end
    <3>1. (\E b \in next.blocks : In(t, b))
            <=> (\E b \in walk.blocks : In(t, b)) \/ In(t, c) \/ (cur < i.start /\ In(t, d))
      BY <2>1, <2>2
    <3>2. In(t, c) <=> i.start <= t /\ t < i.end  BY <1>2 DEF In
    <3>3. In(t, d) <=> cur <= t /\ t < i.start  BY <2>2 DEF In
    <3>4. cur < i.end  BY <1>1, <1>2, <1>3, <1>10
    <3> QED  BY <1>1, <1>3, <1>5, <3>1, <3>2, <3>3, <3>4
  <2>6. ASSUME NEW t \in Int
        PROVE  (\E b \in next.blocks : b.kind # "BUFFER" /\ In(t, b))
                 <=> \E j \in 1 .. k : In(t, s[j])
    <3>1. (\E b \in next.blocks : b.kind # "BUFFER" /\ In(t, b))
            <=> (\E b \in walk.blocks : b.kind # "BUFFER" /\ In(t, b)) \/ In(t, c)
      BY <1>1, <1>2, <2>1, <2>2
    <3>2. In(t, c) <=> In(t, i)  BY <1>2 DEF In
    <3> QED  BY <1>6, <1>7, <3>1, <3>2
  <2>7. \E j \in 1 .. k : next.cursor = s[j].end
    <3>1. k \in 1 .. k  OBVIOUS
    <3> QED  BY <1>2, <2>1, <3>1 DEF i
  <2>8. chunk.start <= next.cursor /\ next.cursor = i.end
    BY <1>1, <1>2, <2>1
  <2> QED  BY <2>1, <2>4, <2>5, <2>6, <2>7, <2>8 DEF LayInv, next, i
<1> QED  BY <1>9, <1>10

\* The pieces of a blocked period cover it, and those that are not BUFFER are
\* the items in it.
LEMMA PiecesAre ==
  ASSUME NEW chunk \in Chunk, NEW items \in SUBSET Item, IsFiniteSet(items),
         \A i \in Inside(chunk, items) : chunk.start <= i.start /\ i.end <= chunk.end
  PROVE  /\ \A b \in Pieces(chunk, items) : Lasts(b)
         /\ \A t \in Int : (\E b \in Pieces(chunk, items) : In(t, b)) <=> In(t, chunk)
         /\ \A t \in Int : (\E b \in Pieces(chunk, items) : b.kind # "BUFFER" /\ In(t, b))
                             <=> \E i \in Inside(chunk, items) : In(t, i)
<1> DEFINE S == Inside(chunk, items)
           s == Sorted(S)
           N == Cardinality(S)
           P == Pieces(chunk, items)
<1>1. /\ N \in Nat /\ s \in [1 .. N -> Item] /\ \A j \in 1 .. N : s[j] \in S
      /\ \A i \in S : \E j \in 1 .. N : s[j] = i
      /\ \A j, k \in 1 .. N : j < k => s[j].start <= s[k].start
  <2>1. S \in SUBSET items /\ \A i \in S : i.start \in Int  BY DEF Inside, Item
  <2>2. IsFiniteSet(S)  BY <2>1, FS_Subset
  <2> HIDE DEF S
  <2>3. /\ N \in Nat /\ s \in [1 .. N -> S]
        /\ \A i \in S : \E j \in 1 .. N : s[j] = i
        /\ \A j, k \in 1 .. N : j < k => s[j].start <= s[k].start
    BY <2>1, <2>2, SortedIs
  <2> QED  BY <2>1, <2>3
<1>2. PICK w : LaidOut(w, s, N, chunk) /\ P = Closed(w[N], chunk)
  BY LayWalk
<1>3. \A j \in 1 .. N : chunk.start <= s[j].start /\ s[j].end <= chunk.end  BY <1>1
<1> HIDE DEF N, s, S, P
<1> DEFINE G == {k \in 0 .. N : LayInv(w[k], s, k, chunk)}
<1>4. chunk.start \in Int /\ chunk.end \in Int /\ chunk.start < chunk.end  BY DEF Chunk
<1>5. 0 \in G
  <2>1. w[0] = [cursor |-> chunk.start, blocks |-> {}]  BY <1>2 DEF LaidOut
  <2>2. w[0] \in Laid /\ w[0].cursor = chunk.start /\ w[0].blocks = {}
    BY <1>4, <2>1 DEF Laid
  <2>3. ASSUME NEW t \in Int  PROVE ~ (chunk.start <= t /\ t < chunk.start)  BY <1>4
  <2>4. LayInv(w[0], s, 0, chunk)  BY <1>4, <2>2, <2>3 DEF LayInv
  <2> QED  BY <1>1, <2>4
<1>6. ASSUME NEW k \in 0 .. N - 1, k \in G  PROVE k + 1 \in G
  <2>1. k + 1 \in 1 .. N /\ (k + 1) - 1 = k  BY <1>1
  <2>2. LayInv(w[k], s, (k + 1) - 1, chunk)  BY <1>6, <2>1
  <2>3. LayInv(LayOp(w[k], s[k + 1], chunk), s, k + 1, chunk)
    BY <1>1, <1>3, <2>1, <2>2, LayStep
  <2>4. w[k + 1] = LayOp(w[k], s[k + 1], chunk)  BY <1>2, <2>1 DEF LaidOut
  <2> QED  BY <2>1, <2>3, <2>4
<1>7. LayInv(w[N], s, N, chunk)
  <2> HIDE DEF G
  <2>1. N \in Nat /\ N \in 0 .. N  BY <1>1
  <2>2. N \in G  BY <1>5, <1>6, <2>1, UpToN
  <2> QED  BY <2>2 DEF G
<1> DEFINE cur == w[N].cursor
           d == Buffer(cur, chunk.end)
           B == w[N].blocks
<1>8. /\ cur \in Int /\ chunk.start <= cur /\ \A b \in B : Lasts(b)
      /\ \A t \in Int : (\E b \in B : In(t, b)) <=> chunk.start <= t /\ t < cur
      /\ \A t \in Int : (\E b \in B : b.kind # "BUFFER" /\ In(t, b))
                          <=> \E j \in 1 .. N : In(t, s[j])
      /\ cur = chunk.start \/ \E j \in 1 .. N : cur = s[j].end
  BY <1>7 DEF LayInv, Laid
<1>9. cur <= chunk.end  BY <1>3, <1>4, <1>8
<1>10. P = B \cup {b \in {d} : b.start < b.end}  BY <1>2 DEF Closed
<1>11. d.start = cur /\ d.end = chunk.end /\ d.kind = "BUFFER"  BY DEF Buffer
<1> HIDE DEF cur, d, B
<1>12. \A b \in P : Lasts(b)  BY <1>4, <1>8, <1>10, <1>11 DEF Lasts
<1>13. ASSUME NEW t \in Int  PROVE (\E b \in P : In(t, b)) <=> In(t, chunk)
  <2>1. (\E b \in P : In(t, b)) <=> (\E b \in B : In(t, b)) \/ (cur < chunk.end /\ In(t, d))
    BY <1>10, <1>11
  <2>2. In(t, d) <=> cur <= t /\ t < chunk.end  BY <1>11 DEF In
  <2>3. In(t, chunk) <=> chunk.start <= t /\ t < chunk.end  BY DEF In
  <2> QED  BY <1>4, <1>8, <1>9, <2>1, <2>2, <2>3
<1>14. ASSUME NEW t \in Int
       PROVE  (\E b \in P : b.kind # "BUFFER" /\ In(t, b)) <=> \E i \in S : In(t, i)
  <2>1. (\E b \in P : b.kind # "BUFFER" /\ In(t, b)) <=> \E b \in B : b.kind # "BUFFER" /\ In(t, b)
    BY <1>10, <1>11
  <2>2. (\E j \in 1 .. N : In(t, s[j])) <=> \E i \in S : In(t, i)  BY <1>1
  <2> QED  BY <1>8, <2>1, <2>2
<1> QED  BY <1>12, <1>13, <1>14 DEF P, S

\* The timeline covers exactly the widened items, and apart from the changeovers
\* exactly the items.
LEMMA TimelineIs ==
  ASSUME NEW S \in SUBSET Item, IsFiniteSet(S), NEW buffer \in Nat
  PROVE  /\ \A b \in ComputeBlockedTimeline(S, buffer) : Lasts(b)
         /\ \A t \in Int : (\E b \in ComputeBlockedTimeline(S, buffer) : In(t, b))
                             <=> \E i \in S : In(t, Grown(i, buffer))
         /\ \A t \in Int : (\E b \in ComputeBlockedTimeline(S, buffer) :
                              b.kind # "BUFFER" /\ In(t, b))
                             <=> \E i \in S : In(t, i)
<1> DEFINE M == ToSet(Blocked(S, buffer))
           T == ComputeBlockedTimeline(S, buffer)
<1>1. /\ \A c \in M : c \in Chunk
      /\ \A t \in Int : (\E c \in M : In(t, c)) <=> \E i \in S : In(t, Grown(i, buffer))
  BY BlockedIs
<1>2. \A i \in S : \E c \in M : c.start <= i.start - buffer /\ i.end + buffer <= c.end
  BY InsideOne
<1>3. T = UNION {Pieces(c, S) : c \in M}  BY DEF ComputeBlockedTimeline
<1>4. ASSUME NEW c \in M, NEW d \in M, NEW t \in Int, In(t, c), In(t, d)  PROVE c = d
  <2>1. PICK a \in DOMAIN Blocked(S, buffer) : c = Blocked(S, buffer)[a]  BY DEF ToSet
  <2>2. PICK b \in DOMAIN Blocked(S, buffer) : d = Blocked(S, buffer)[b]  BY DEF ToSet
  <2>3. Apart(Blocked(S, buffer)) /\ a \in Int /\ b \in Int  BY BlockedIs
  <2>4. Lasts(c) /\ Lasts(d)  BY <1>1, ItemsLast
  <2> HIDE DEF M
  <2>5. CASE a < b
    <3>1. c.end < d.start  BY <2>1, <2>2, <2>3, <2>5 DEF Apart
    <3> QED  BY <1>4, <2>4, <3>1 DEF In, Lasts
  <2>6. CASE b < a
    <3>1. d.end < c.start  BY <2>1, <2>2, <2>3, <2>6 DEF Apart
    <3> QED  BY <1>4, <2>4, <3>1 DEF In, Lasts
  <2>7. CASE a = b  BY <2>1, <2>2, <2>7
  <2> QED  BY <2>3, <2>5, <2>6, <2>7
<1> HIDE DEF M, T
<1>5. \A i \in S : Lasts(i) /\ i \in Item  BY ItemsLast
<1>6. \A i \in S : \E c \in M : c.start <= i.start /\ i.end <= c.end
  <2> SUFFICES ASSUME NEW i \in S  PROVE \E c \in M : c.start <= i.start /\ i.end <= c.end
    OBVIOUS
  <2>1. PICK c \in M : c.start <= i.start - buffer /\ i.end + buffer <= c.end  BY <1>2
  <2>2. Lasts(c)  BY <1>1, ItemsLast
  <2>3. c.start <= i.start /\ i.end <= c.end  BY <1>5, <2>1, <2>2 DEF Lasts
  <2> QED  BY <2>3
<1>7. ASSUME NEW c \in M, NEW i \in Inside(c, S)  PROVE c.start <= i.start /\ i.end <= c.end
  <2>1. i \in S /\ Overlaps(i, c)  BY DEF Inside
  <2>2. PICK d \in M : d.start <= i.start /\ i.end <= d.end  BY <1>6, <2>1
  <2>3. Lasts(c) /\ Lasts(d) /\ Lasts(i)  BY <1>1, <1>5, <2>1, ItemsLast
  <2>4. PICK t \in Int : In(t, i) /\ In(t, c)  BY <2>1, <2>3, OverlapIsShared
  <2>5. In(t, d)  BY <2>2, <2>3, <2>4 DEF In, Lasts
  <2>6. c = d  BY <1>4, <2>4, <2>5
  <2> QED  BY <2>2, <2>6
<1>8. ASSUME NEW c \in M
      PROVE  /\ \A b \in Pieces(c, S) : Lasts(b)
             /\ \A t \in Int : (\E b \in Pieces(c, S) : In(t, b)) <=> In(t, c)
             /\ \A t \in Int : (\E b \in Pieces(c, S) : b.kind # "BUFFER" /\ In(t, b))
                                 <=> \E i \in Inside(c, S) : In(t, i)
  BY <1>1, <1>7, PiecesAre
<1>9. \A b : b \in T <=> \E c \in M : b \in Pieces(c, S)  BY <1>3
<1>10. \A b \in T : Lasts(b)  BY <1>8, <1>9
<1>11. ASSUME NEW t \in Int
       PROVE  (\E b \in T : In(t, b)) <=> \E i \in S : In(t, Grown(i, buffer))
  <2>1. (\E b \in T : In(t, b)) <=> \E c \in M : \E b \in Pieces(c, S) : In(t, b)  BY <1>9
  <2>2. (\E b \in T : In(t, b)) <=> \E c \in M : In(t, c)  BY <1>8, <2>1
  <2> QED  BY <1>1, <2>2
<1>12. ASSUME NEW t \in Int
       PROVE  (\E b \in T : b.kind # "BUFFER" /\ In(t, b)) <=> \E i \in S : In(t, i)
  <2>1. (\E b \in T : b.kind # "BUFFER" /\ In(t, b))
          <=> \E c \in M : \E b \in Pieces(c, S) : b.kind # "BUFFER" /\ In(t, b)
    BY <1>9
  <2>2. (\E b \in T : b.kind # "BUFFER" /\ In(t, b)) <=> \E c \in M : \E i \in Inside(c, S) : In(t, i)
    BY <1>8, <2>1
  <2>3. ASSUME NEW i \in S, In(t, i)  PROVE \E c \in M : i \in Inside(c, S)
    <3>1. PICK c \in M : c.start <= i.start /\ i.end <= c.end  BY <1>6
    <3>2. Overlaps(i, c)
      <4>1. Lasts(c) /\ Lasts(i)  BY <1>1, <1>5, ItemsLast
      <4> QED  BY <3>1, <4>1 DEF Overlaps, Lasts
    <3> QED  BY <3>2 DEF Inside
  <2>4. \A c : Inside(c, S) \subseteq S  BY DEF Inside
  <2> QED  BY <2>2, <2>3, <2>4
<1> QED  BY <1>10, <1>11, <1>12 DEF T

-----------------------------------------------------------------------------
(* The room as it is.                                                      *)

\* A live booking has a period that may be booked.
LEMMA LiveRow ==
  ASSUME TypeOK, NEW b \in Live  PROVE booking[b].period \in Periods
  BY LiveIsWritten DEF Written

\* Every period that may be booked lasts.
LEMMA PeriodsLast == \A w \in Periods : Lasts(w)
<1> SUFFICES ASSUME NEW w \in Periods  PROVE Lasts(w)
  OBVIOUS
<1>1. w.start \in Int /\ w.end \in Int /\ w.end - w.start >= MinLength
  BY RoomAssumption DEF Periods, Instants
<1>2. MinLength \in Nat \ {0}  BY RoomAssumption
<1> QED  BY <1>1, <1>2 DEF Lasts

\* What is busy is finitely many periods.
LEMMA BusyIs ==
  ASSUME TypeOK
  PROVE  Busy \in SUBSET Item /\ IsFiniteSet(Busy)
<1> DEFINE A == {Tagged(booking[b].period, "BOOKING") : b \in Live}
           B == {Tagged(w, "BLACKOUT") : w \in Blackouts}
<1>1. A \in SUBSET Item
  <2>1. ASSUME NEW b \in Live  PROVE Tagged(booking[b].period, "BOOKING") \in Item
    BY LiveRow, PeriodsLast DEF Tagged, Item, Lasts
  <2> QED  BY <2>1
<1>2. B \in SUBSET Item
  <2>1. ASSUME NEW w \in Blackouts  PROVE Tagged(w, "BLACKOUT") \in Item
    <3>1. w.start \in Int /\ w.end \in Int /\ w.start < w.end  BY RoomAssumption
    <3> QED  BY <3>1 DEF Tagged, Item
  <2> QED  BY <2>1
<1>3. IsFiniteSet(A)
  <2>1. IsFiniteSet(Live)
    <3>1. Live \in SUBSET Bookings  BY DEF Live
    <3> QED  BY <3>1, RoomAssumption, FS_Subset
  <2> DEFINE f == [b \in Live |-> Tagged(booking[b].period, "BOOKING")]
  <2>2. f \in Surjection(Live, A)  BY DEF Surjection
  <2> HIDE DEF f, A
  <2> QED  BY <2>1, <2>2, FS_Surjection
<1>4. IsFiniteSet(B)
  <2> DEFINE f == [w \in Blackouts |-> Tagged(w, "BLACKOUT")]
  <2>1. f \in Surjection(Blackouts, B)  BY DEF Surjection
  <2>2. IsFiniteSet(Blackouts)  BY RoomAssumption
  <2> HIDE DEF f, B
  <2> QED  BY <2>1, <2>2, FS_Surjection
<1>5. Busy = A \cup B  BY DEF Busy
<1> HIDE DEF A, B
<1>6. IsFiniteSet(A \cup B)  BY <1>3, <1>4, FS_Union
<1> QED  BY <1>1, <1>2, <1>5, <1>6

\* The check before a booking says that the period is clear of everything busy,
\* widened by the changeover.
LEMMA CheckIsClear ==
  ASSUME TypeOK, NEW w, Lasts(w)
  PROVE  AssertFree(w, None) <=> \A i \in Busy : ~Overlaps(w, Grown(i, Changeover))
<1>1. ASSUME NEW p, Lasts(p), NEW kind \in {"BOOKING", "BLACKOUT"}
      PROVE  Clashes(w, p) <=> Overlaps(w, Grown(Tagged(p, kind), Changeover))
  <2> DEFINE i == Tagged(p, kind)
  <2>1. i \in Item /\ i.start = p.start /\ i.end = p.end  BY <1>1 DEF Tagged, Item, Lasts
  <2>2. Changeover \in Nat  BY RoomAssumption
  <2> HIDE DEF i
  <2>3. Grown(i, Changeover).start = p.start - Changeover /\ Grown(i, Changeover).end = p.end + Changeover
    BY <2>1, <2>2, GrownIs
  <2> QED  BY <1>1, <2>2, <2>3 DEF Clashes, Overlaps, Lasts, i
<1>2. Live \ {None} = Live  BY RoomAssumption DEF Live
<1>3. \A b \in Live : Lasts(booking[b].period)  BY LiveRow, PeriodsLast
<1>4. \A b \in Blackouts : Lasts(b)  BY RoomAssumption DEF Lasts
<1>5. (\A i \in Busy : ~Overlaps(w, Grown(i, Changeover)))
        <=> /\ \A b \in Live : ~Overlaps(w, Grown(Tagged(booking[b].period, "BOOKING"), Changeover))
            /\ \A b \in Blackouts : ~Overlaps(w, Grown(Tagged(b, "BLACKOUT"), Changeover))
  BY DEF Busy
<1> QED  BY <1>1, <1>2, <1>3, <1>4, <1>5 DEF AssertFree

\* The search and the checks agree in every state that is well typed.
LEMMA SearchAgreesNow == TypeOK => SearchAgrees
<1> SUFFICES ASSUME TypeOK, NEW w \in Periods
    PROVE  LET blocks == BlockingBlocks(w, Calendar) IN
      /\ (blocks = {}) <=> AssertFree(w, None)
      /\ (blocks = {}) <=> IsWindowFree(w, Busy, Changeover)
      /\ (\E b \in blocks : b.kind # "BUFFER") <=> (\E i \in Busy : Overlaps(w, i))
      /\ \A until \in BlockedUntil(blocks) : until > w.start
  BY DEF SearchAgrees
<1> DEFINE T == ComputeBlockedTimeline(Busy, Changeover)
           blocks == BlockingBlocks(w, Calendar)
<1>1. Lasts(w) /\ Busy \in SUBSET Item /\ IsFiniteSet(Busy) /\ Changeover \in Nat
  BY PeriodsLast, BusyIs, RoomAssumption
<1>2. blocks = {b \in T : Overlaps(w, b)}  BY DEF Calendar, BlockingBlocks
<1>3. /\ \A b \in T : Lasts(b)
      /\ \A t \in Int : (\E b \in T : In(t, b)) <=> \E i \in Busy : In(t, Grown(i, Changeover))
      /\ \A t \in Int : (\E b \in T : b.kind # "BUFFER" /\ In(t, b)) <=> \E i \in Busy : In(t, i)
  BY <1>1, TimelineIs
<1>4. \A i \in Busy : Lasts(i) /\ Lasts(Grown(i, Changeover))
  BY <1>1, ItemsLast, GrownIs
<1>5. blocks = {} <=> ~ \E b \in T : Overlaps(w, b)  BY <1>2
<1> HIDE DEF T, blocks
<1>6. (\E b \in T : Overlaps(w, b)) <=> \E t \in Int : In(t, w) /\ \E b \in T : In(t, b)
  BY <1>1, <1>3, OverlapIsShared
<1>7. (\E i \in Busy : Overlaps(w, Grown(i, Changeover)))
        <=> \E t \in Int : In(t, w) /\ \E i \in Busy : In(t, Grown(i, Changeover))
  BY <1>1, <1>4, OverlapIsShared
<1>8. blocks = {} <=> \A i \in Busy : ~Overlaps(w, Grown(i, Changeover))
  BY <1>3, <1>5, <1>6, <1>7
<1>9. blocks = {} <=> AssertFree(w, None)  BY <1>1, <1>8, CheckIsClear
<1>10. blocks = {} <=> IsWindowFree(w, Busy, Changeover)  BY <1>1, <1>8, FreeIsClear
<1>11. (\E b \in blocks : b.kind # "BUFFER") <=> (\E i \in Busy : Overlaps(w, i))
  <2>1. (\E b \in blocks : b.kind # "BUFFER")
          <=> \E t \in Int : In(t, w) /\ \E b \in T : b.kind # "BUFFER" /\ In(t, b)
    BY <1>1, <1>2, <1>3, OverlapIsShared
  <2>2. (\E i \in Busy : Overlaps(w, i)) <=> \E t \in Int : In(t, w) /\ \E i \in Busy : In(t, i)
    BY <1>1, <1>4, OverlapIsShared
  <2> QED  BY <1>3, <2>1, <2>2
<1>12. ASSUME NEW until \in BlockedUntil(blocks)  PROVE until > w.start
  <2>1. PICK b \in blocks : until = b.end  BY DEF BlockedUntil
  <2>2. Overlaps(w, b) /\ Lasts(b)  BY <1>2, <1>3
  <2> QED  BY <1>1, <2>1, <2>2 DEF Overlaps, Lasts
<1> QED  BY <1>9, <1>10, <1>11, <1>12 DEF blocks

\* And the next opening offered is the earliest there is.
LEMMA NextFreeNow == TypeOK => NextFreeIsEarliest
<1> SUFFICES ASSUME TypeOK, NEW from \in now .. Closes, NEW duration \in MinLength .. MaxLength
    PROVE  LET free == {t \in from .. Closes :
                          /\ Align(t, Step) = t
                          /\ t + duration <= Closes
                          /\ AssertFree(Window(t, duration), None)}
           IN  NextFreeWindow(from, Closes, duration, Busy, Changeover, Step)
                 = {Min(free) : t \in free}
  BY DEF NextFreeIsEarliest
<1> DEFINE free == {t \in from .. Closes :
                      /\ Align(t, Step) = t
                      /\ t + duration <= Closes
                      /\ AssertFree(Window(t, duration), None)}
           M == Blocked(Busy, Changeover)
           Ok(t) == Possible(t, from, duration, Closes, M, Step)
           found == NextFreeWindow(from, Closes, duration, Busy, Changeover, Step)
<1>1. /\ from \in Int /\ Closes \in Nat /\ duration \in Nat \ {0} /\ Step \in Nat
      /\ Changeover \in Nat
  <2>1. now \in Nat /\ Closes \in Nat /\ MinLength \in Nat \ {0} /\ Step \in Nat
        /\ MaxLength \in Nat /\ Changeover \in Nat
    BY RoomAssumption DEF TypeOK
  <2> QED  BY <2>1
<1>2. Busy \in SUBSET Item /\ IsFiniteSet(Busy)  BY BusyIs
<1>3. M \in Seq(Chunk) /\ Apart(M)  BY <1>1, <1>2, BlockedIs
<1>4. ASSUME NEW t \in Int
      PROVE  Fits(t, duration, Closes, M)
               <=> t + duration <= Closes /\ AssertFree(Window(t, duration), None)
  <2> DEFINE w == Window(t, duration)
  <2>1. Lasts(w)  BY <1>1 DEF Window, Lasts
  <2>2. Fits(t, duration, Closes, M) <=> t + duration <= Closes /\ IsWindowFree(w, Busy, Changeover)
    BY DEF Fits, IsWindowFree
  <2> HIDE DEF w
  <2>3. IsWindowFree(w, Busy, Changeover) <=> AssertFree(w, None)
    BY <1>1, <1>2, <2>1, FreeIsClear, CheckIsClear
  <2> QED  BY <2>2, <2>3 DEF w
<1>5. ASSUME NEW t \in Int  PROVE t \in free <=> Ok(t)
  <2>1. t \in free <=> /\ t \in from .. Closes /\ Align(t, Step) = t
                       /\ Fits(t, duration, Closes, M)
    BY <1>4
  <2>2. t >= from /\ t + duration <= Closes => t \in from .. Closes  BY <1>1
  <2> QED  BY <1>4, <2>1, <2>2 DEF Possible
<1>6. free \in SUBSET Int  BY <1>1
<1> HIDE DEF M, free, found, Ok
<1>7. \/ found = {} /\ \A t \in Int : ~ Ok(t)
      \/ \E x \in Int : found = {x} /\ Ok(x) /\ \A t \in Int : Ok(t) => x <= t
  <2>1. Earliest(found, from, duration, Closes, M, Step)
    BY <1>1, <1>3, NextFreeIs DEF M, found
  <2> QED  BY <2>1 DEF Earliest, Ok
<1>8. CASE found = {} /\ \A t \in Int : ~ Ok(t)
  <2>1. free = {}  BY <1>5, <1>6, <1>8
  <2>2. {Min(free) : t \in free} = {}  BY <2>1
  <2> QED  BY <1>8, <2>2 DEF free, found
<1>9. CASE \E x \in Int : found = {x} /\ Ok(x) /\ \A t \in Int : Ok(t) => x <= t
  <2>1. PICK x \in Int : found = {x} /\ Ok(x) /\ \A t \in Int : Ok(t) => x <= t  BY <1>9
  <2>2. x \in free /\ \A t \in free : x <= t  BY <1>5, <1>6, <2>1
  <2>3. Min(free) = x
    <3>1. Min(free) \in free /\ \A t \in free : Min(free) <= t  BY <2>2 DEF Min
    <3>2. Min(free) \in Int /\ Min(free) <= x /\ x <= Min(free)  BY <1>6, <2>2, <3>1
    <3> QED  BY <3>2
  <2>4. {Min(free) : t \in free} = {x}  BY <2>2, <2>3
  <2> QED  BY <2>1, <2>4 DEF free, found
<1> QED  BY <1>7, <1>8, <1>9

\* In every state the service reaches, the search, the timeline and the check
\* before a booking give one answer about every window a person may ask for
\* (availability service and slots.ts).
THEOREM SearchAlwaysAgrees == Spec => []SearchAgrees
  BY TypesHold, SearchAgreesNow, PTL

\* In every state the service reaches, the next opening the search offers could
\* be booked as offered, and is the earliest there is (slots.ts nextFreeWindow).
THEOREM OffersAreEarliest == Spec => []NextFreeIsEarliest
  BY TypesHold, NextFreeNow, PTL
=============================================================================
