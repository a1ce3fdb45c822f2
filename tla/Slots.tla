------------------------------- MODULE Slots -------------------------------
(***************************************************************************)
(* The availability arithmetic of the meeting rooms: half-open periods, the *)
(* changeover buffer around each, the timeline they make, and the next free *)
(* window.  Pure functions of what is busy; instants are integers.          *)
(***************************************************************************)
EXTENDS Integers, Sequences, SequencesExt, FiniteSetsExt

\* A busy period is a record with a start, an end and a kind.
Overlaps(a, b) == a.start < b.end /\ b.start < a.end

\* As if a room were reset only after a meeting.
Grown_Bug(i, buffer) == [i EXCEPT !.end = @ + buffer]

Grown(i, buffer) == [i EXCEPT !.start = @ - buffer, !.end = @ + buffer]

ApplyBuffer(items, buffer) == {Grown(i, buffer) : i \in items}

\* By the start alone: periods that start together come in either order.
Sorted(items) ==
  CHOOSE s \in [1 .. Cardinality(items) -> items] :
    /\ \A j, k \in DOMAIN s : j < k => s[j].start <= s[k].start
    /\ ToSet(s) = items

\* Overlapping or touching periods become one.
MergeIntervals(items) ==
  FoldLeft(LAMBDA merged, i :
             IF merged # <<>> /\ i.start <= Last(merged).end
             THEN [merged EXCEPT ![Len(merged)].end = IF i.end > @ THEN i.end ELSE @]
             ELSE Append(merged, [start |-> i.start, end |-> i.end]),
           <<>>, Sorted(items))

Blocked(busy, buffer) == MergeIntervals(ApplyBuffer(busy, buffer))

IsWindowFree(window, busy, buffer) ==
  \A i \in ToSet(Blocked(busy, buffer)) : ~Overlaps(window, i)

\* As if a suggestion were rounded down.
Align_Bug(t, step) == IF step <= 0 THEN t ELSE t - (t % step)

\* Up to the next point of the grid.
Align(t, step) == IF step <= 0 THEN t ELSE t + ((step - (t % step)) % step)

Window(start, duration) == [start |-> start, end |-> start + duration]

Fits(start, duration, dayEnd, blocked) ==
  /\ start + duration <= dayEnd
  /\ \A i \in ToSet(blocked) : ~Overlaps(Window(start, duration), i)

\* The walk through the gaps.  cursor: the earliest start still possible;
\* found: the answer, once there is one.
NextFreeWindow(from, dayEnd, duration, busy, buffer, step) ==
  LET blocked == Blocked(busy, buffer)
      Look(walk, i) ==
        IF walk.found # {} \/ i.end <= walk.cursor THEN walk
        ELSE IF /\ i.start > walk.cursor
                /\ Fits(walk.cursor, duration, dayEnd, blocked)
                /\ walk.cursor + duration <= i.start
             THEN [walk EXCEPT !.found = {walk.cursor}]
             ELSE [walk EXCEPT !.cursor = Align(i.end, step)]
      walked == FoldLeft(Look, [cursor |-> Align(from, step), found |-> {}], blocked)
  IN  IF walked.found # {} THEN walked.found
      ELSE {t \in {walked.cursor} : Fits(t, duration, dayEnd, blocked)}

Clipped(i, chunk) ==
  [start |-> IF i.start > chunk.start THEN i.start ELSE chunk.start,
   end |-> IF i.end < chunk.end THEN i.end ELSE chunk.end,
   kind |-> i.kind]

Buffer(start, end) == [start |-> start, end |-> end, kind |-> "BUFFER"]

\* The pieces of one merged period: the items in it, and BUFFER between them.
Pieces(chunk, items) ==
  LET inside == Sorted({i \in items : Overlaps(i, chunk)})
      Lay(walk, i) ==
        LET c == Clipped(i, chunk) IN
          IF c.end <= walk.cursor THEN walk
          ELSE [cursor |-> c.end,
                blocks |-> walk.blocks \cup {c}
                           \cup {b \in {Buffer(walk.cursor, c.start)} : b.start < b.end}]
      laid == FoldLeft(Lay, [cursor |-> chunk.start, blocks |-> {}], inside)
  IN  laid.blocks \cup {b \in {Buffer(laid.cursor, chunk.end)} : b.start < b.end}

ComputeBlockedTimeline(items, buffer) ==
  UNION {Pieces(chunk, items) : chunk \in ToSet(Blocked(items, buffer))}

\* Why a window is blocked: what it touches of the timeline.
BlockingBlocks(window, timeline) == {b \in timeline : Overlaps(window, b)}

BlockedUntil(blocks) == {u \in {b.end : b \in blocks} : \A b \in blocks : b.end <= u}
=============================================================================
