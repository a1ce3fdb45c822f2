---------------------------- MODULE BackfillProofs ----------------------------
(***************************************************************************)
(* Proofs about Backfill: for any number of bootstraps, requests, lines and *)
(* exports, any window of at least two batches and any age at which a row   *)
(* is taken for a dead one's.                                              *)
(***************************************************************************)
EXTENDS Backfill, TLAPS

\* What a call has written, and what it has read.
CallFits(c) ==
  /\ c.pc \in {"stream", "saved"} =>
       /\ c.skip <= c.flushed
       /\ c.skip = 0 => 1 .. c.flushed \subseteq mirror
       /\ c.ended => (c.cut <=> c.read # Lines)
  /\ c.pc = "whole" /\ ~c.cut => mirror = Orders
  /\ c.pc \notin {"stream", "saved", "whole"} => ~c.ended

IInv == TypeOK /\ \A p \in Callers : CallFits(caller[p])

\* The constants.
LEMMA Numbers ==
  /\ Lines \in Nat /\ Batch \in Nat /\ Batch > 0 /\ Window \in Nat
  /\ StaleAfter \in Nat /\ StaleAfter > 0 /\ MaxExports \in Nat
  BY BackfillAssumption

Moved(c, pc) == [c EXCEPT !.pc = pc]

\* A call at another stage.
LEMMA MovedType ==
  ASSUME NEW c \in Call, NEW pc \in Stages
  PROVE  /\ Moved(c, pc) \in Call /\ Moved(c, pc).pc = pc /\ Moved(c, pc).skip = c.skip
         /\ Moved(c, pc).read = c.read /\ Moved(c, pc).flushed = c.flushed
         /\ Moved(c, pc).ended = c.ended /\ Moved(c, pc).cut = c.cut
         /\ Moved(c, pc).op = c.op
  BY DEF Call, Moved

\* A call that has yet to begin.
LEMMA NoCallType ==
  NoCall \in Call /\ NoCall.pc = "idle" /\ NoCall.ended = FALSE
<1>1. NoCall \in Call  BY Numbers DEF NoCall, Call, Stages, NoExport
<1> QED  BY <1>1 DEF NoCall

\* A step that moves one call and writes nothing to the mirror.
LEMMA CallMoves ==
  ASSUME IInv, NEW p \in Callers, NEW c \in Call, caller' = [caller EXCEPT ![p] = c],
         mirror' = mirror, CallFits(c),
         export' \in [Exports -> {"none", "running", "completed", "gone"}],
         row' \in [status : {"NONE", "RUNNING", "OK", "ERROR"}, age : 0 .. StaleAfter,
                   ok : BOOLEAN, progress : Progress]
  PROVE  IInv'
<1>1. TypeOK'  BY DEF IInv, TypeOK
<1>2. \A q \in Callers : caller'[q] = IF q = p THEN c ELSE caller[q]  BY DEF IInv, TypeOK
<1>3. ASSUME NEW q \in Callers  PROVE CallFits(caller[q])'
  <2>1. CASE q = p
    <3>1. caller'[q] = c  BY <1>2, <2>1
    <3> QED  BY <3>1 DEF CallFits
  <2>2. CASE q # p
    <3>1. caller'[q] = caller[q]  BY <1>2, <2>2
    <3> QED  BY <3>1 DEF CallFits, IInv
  <2> QED  BY <2>1, <2>2
<1> QED  BY <1>1, <1>3 DEF IInv

\* A call that stops, or has yet to begin.
LEMMA CallStops ==
  ASSUME NEW c \in Call, c.pc \notin {"stream", "saved", "whole"}, ~c.ended
  PROVE  CallFits(c)
  BY DEF CallFits

\* The ways a call ends.
LEMMA Ends ==
  ASSUME NEW p \in Callers
  PROVE  /\ AfterThrow(p) \in Call /\ CallFits(AfterThrow(p))
         /\ Ended(p) \in Call /\ CallFits(Ended(p))
         /\ Failing \in Call /\ CallFits(Failing)
         /\ NoCall \in Call /\ CallFits(NoCall)
         /\ Moved(NoCall, "done") \in Call /\ CallFits(Moved(NoCall, "done"))
<1>1. CallFits(NoCall)  BY NoCallType, CallStops
<1>2. ASSUME NEW pc \in {"failed", "over", "fail", "done"}
      PROVE  Moved(NoCall, pc) \in Call /\ CallFits(Moved(NoCall, pc))
  <2>1. pc \in Stages  BY DEF Stages
  <2>2. /\ Moved(NoCall, pc) \in Call /\ Moved(NoCall, pc).pc = pc
        /\ Moved(NoCall, pc).ended = FALSE
    BY <2>1, NoCallType, MovedType
  <2> QED  BY <2>2, CallStops
<1>3. /\ AfterThrow(p) = IF p \in Buttons THEN Moved(NoCall, "failed") ELSE NoCall
      /\ Ended(p) = IF p \in Buttons THEN Moved(NoCall, "over") ELSE NoCall
      /\ Failing = Moved(NoCall, "fail")
  BY DEF AfterThrow, Ended, Failing, Moved
<1> QED  BY <1>1, <1>2, <1>3, NoCallType

\* A call goes on to another stage before the stream.
LEMMA Goes ==
  ASSUME IInv, NEW p \in Callers, NEW pc \in {"record", "mark", "claim", "save", "wait", "idle"},
         caller[p].pc \notin {"stream", "saved", "whole"}
  PROVE  Moved(caller[p], pc) \in Call /\ CallFits(Moved(caller[p], pc))
<1>1. caller[p] \in Call /\ ~caller[p].ended  BY DEF IInv, TypeOK, CallFits
<1>2. pc \in Stages  BY DEF Stages
<1>3. /\ Moved(caller[p], pc) \in Call /\ Moved(caller[p], pc).pc = pc
      /\ Moved(caller[p], pc).ended = caller[p].ended
  BY <1>1, <1>2, MovedType
<1> QED  BY <1>1, <1>3, CallStops

Rows == [status : {"NONE", "RUNNING", "OK", "ERROR"}, age : 0 .. StaleAfter,
         ok : BOOLEAN, progress : Progress]

\* The row as each statement leaves it.
LEMMA RowType ==
  ASSUME IInv, NEW op \in {NoExport} \cup Exports, NEW n \in Nat
  PROVE  /\ row \in Rows
         /\ [row EXCEPT !.status = "OK", !.age = 0, !.ok = TRUE] \in Rows
         /\ [row EXCEPT !.status = "RUNNING", !.age = 0] \in Rows
         /\ [row EXCEPT !.status = "ERROR", !.age = 0] \in Rows
         /\ [row EXCEPT !.age = 0, !.progress = [op |-> op, lines |-> n]] \in Rows
         /\ [row EXCEPT !.status = "OK", !.age = 0, !.ok = TRUE, !.progress = NoProgress] \in Rows
<1>1. row \in Rows  BY DEF IInv, TypeOK, Rows
<1>2. 0 \in 0 .. StaleAfter  BY Numbers
<1>3. NoProgress \in Progress /\ [op |-> op, lines |-> n] \in Progress
  BY DEF NoProgress, Progress
<1> DEFINE y == [op |-> op, lines |-> n]
<1>4. y \in Progress  BY <1>3
<1> HIDE DEF y
<1>5. [row EXCEPT !.age = 0, !.progress = y] \in Rows
  BY <1>1, <1>2, <1>4 DEF Rows
<1>6. [row EXCEPT !.status = "OK", !.age = 0, !.ok = TRUE, !.progress = NoProgress] \in Rows
  BY <1>1, <1>2, <1>3 DEF Rows
<1> QED  BY <1>1, <1>2, <1>5, <1>6 DEF Rows, y

-----------------------------------------------------------------------------
(* The steps before the stream.                                            *)

\* Time, and Shopify's exports.
LEMMA Outside ==
  ASSUME IInv, Tick \/ \E x \in Exports : ExportEnds(x) \/ ExportExpires(x)
  PROVE  IInv'
<1>1. /\ row' \in Rows /\ mirror' = mirror /\ caller' = caller
      /\ export' \in [Exports -> {"none", "running", "completed", "gone"}]
  <2>1. CASE Tick
    <3>1. row \in Rows /\ row.age \in 0 .. StaleAfter /\ row.age < StaleAfter
      BY <2>1 DEF Tick, IInv, TypeOK, Rows
    <3>2. row.age + 1 \in 0 .. StaleAfter  BY <3>1, Numbers
    <3>3. row' \in Rows  BY <2>1, <3>1, <3>2 DEF Tick, Rows
    <3> QED  BY <2>1, <3>3 DEF Tick, IInv, TypeOK
  <2>2. ASSUME NEW x \in Exports, ExportEnds(x) \/ ExportExpires(x)
        PROVE  row' = row /\ mirror' = mirror /\ caller' = caller
               /\ export' \in [Exports -> {"none", "running", "completed", "gone"}]
    BY <2>2 DEF ExportEnds, ExportExpires, IInv, TypeOK
  <2> QED  BY <2>1, <2>2 DEF IInv, TypeOK, Rows
<1>2. TypeOK'  BY <1>1 DEF IInv, TypeOK, Rows
<1>3. \A p \in Callers : CallFits(caller[p])'  BY <1>1 DEF IInv, CallFits
<1> QED  BY <1>2, <1>3 DEF IInv

\* Entering backfill(), and what it does until the stream begins.
LEMMA Entering ==
  ASSUME IInv, NEW p \in Callers,
         \/ Boot(p) \/ Look(p) \/ Record(p) \/ Mark(p) \/ Refused(p) \/ Resume(p)
         \/ ThrowsEarly(p) \/ SaveFirst(p)
  PROVE  \E c \in Call :
           /\ caller' = [caller EXCEPT ![p] = c] /\ CallFits(c)
           /\ mirror' = mirror /\ export' = export /\ row' \in Rows
<1>0. caller[p] \in Call /\ caller[p].op \in {NoExport} \cup Exports /\ caller[p].skip \in Nat
  BY DEF IInv, TypeOK, Call
<1>1. CASE Boot(p)
  <2>1. PICK pc \in {"claim", "record"} :
          caller' = [caller EXCEPT ![p].pc = pc] /\ UNCHANGED <<export, mirror, row>>
    BY <1>1 DEF Boot, Goto
  <2>2. caller' = [caller EXCEPT ![p] = Moved(caller[p], pc)]  BY <2>1 DEF Moved
  <2>3. caller[p].pc \notin {"stream", "saved", "whole"}  BY <1>1 DEF Boot, At
  <2> QED  BY <2>1, <2>2, <2>3, Goes, RowType
<1>2. CASE Look(p)
  <2>1. caller' = [caller EXCEPT ![p] = Moved(caller[p], "mark")]
        /\ UNCHANGED <<export, mirror, row>>
    BY <1>2 DEF Look, Goto, Moved
  <2>2. caller[p].pc \notin {"stream", "saved", "whole"}  BY <1>2 DEF Look, At
  <2> QED  BY <2>1, <2>2, Goes, RowType
<1>3. CASE Record(p)
  <2>1. /\ caller' = [caller EXCEPT ![p] = Moved(caller[p], "idle")]
        /\ row' = [row EXCEPT !.status = "OK", !.age = 0, !.ok = TRUE]
        /\ UNCHANGED <<export, mirror>>
    BY <1>3 DEF Record, Goto, Moved
  <2>2. caller[p].pc \notin {"stream", "saved", "whole"}  BY <1>3 DEF Record, At
  <2> QED  BY <1>0, <2>1, <2>2, Goes, RowType
<1>4. CASE Mark(p)
  <2>1. /\ caller' = [caller EXCEPT ![p] = Moved(caller[p], "claim")]
        /\ row' = [row EXCEPT !.status = "RUNNING", !.age = 0]
        /\ UNCHANGED <<export, mirror>>
    BY <1>4 DEF Mark, Goto, Moved
  <2>2. caller[p].pc \notin {"stream", "saved", "whole"}  BY <1>4 DEF Mark, At
  <2> QED  BY <1>0, <2>1, <2>2, Goes, RowType
<1>5. CASE Refused(p) \/ ThrowsEarly(p)
  <2>1. caller' = [caller EXCEPT ![p] = AfterThrow(p)] /\ UNCHANGED <<export, mirror, row>>
    BY <1>5 DEF Refused, ThrowsEarly
  <2> QED  BY <1>0, <2>1, Ends, RowType
<1>6. CASE Resume(p)
  <2>1. /\ caller' = [caller EXCEPT ![p] = Moved(caller[p], "save")]
        /\ UNCHANGED <<export, mirror, row>>
    BY <1>6 DEF Resume, Goto, Moved
  <2>2. caller[p].pc \notin {"stream", "saved", "whole"}  BY <1>6 DEF Resume, At
  <2> QED  BY <1>0, <2>1, <2>2, Goes, RowType
<1>7. CASE SaveFirst(p)
  <2>1. /\ caller' = [caller EXCEPT ![p] = Moved(caller[p], "wait")]
        /\ row' = [row EXCEPT !.age = 0,
                     !.progress = [op |-> caller[p].op, lines |-> caller[p].skip]]
        /\ UNCHANGED <<export, mirror>>
    BY <1>7 DEF SaveFirst, Goto, Moved
  <2>2. caller[p].pc \notin {"stream", "saved", "whole"}  BY <1>7 DEF SaveFirst, At
  <2> QED  BY <1>0, <2>1, <2>2, Goes, RowType
<1> QED  BY <1>1, <1>2, <1>3, <1>4, <1>5, <1>6, <1>7

Begun(c, pc, op, skip) == [c EXCEPT !.pc = pc, !.op = op, !.skip = skip]

\* A call that has its claim, or its export.
LEMMA BegunType ==
  ASSUME NEW c \in Call, ~c.ended, NEW pc \in {"start", "save"},
         NEW op \in {NoExport} \cup Exports, NEW skip \in Nat
  PROVE  Begun(c, pc, op, skip) \in Call /\ CallFits(Begun(c, pc, op, skip))
<1>1. pc \in Stages  BY DEF Stages
<1>2. /\ Begun(c, pc, op, skip) \in Call /\ Begun(c, pc, op, skip).pc = pc
      /\ Begun(c, pc, op, skip).ended = c.ended
  BY <1>1 DEF Call, Begun
<1> QED  BY <1>2, CallStops

\* The claim, and a new export.
LEMMA Claiming ==
  ASSUME IInv, NEW p \in Callers, Claim(p) \/ StartExport(p)
  PROVE  \E c \in Call :
           /\ caller' = [caller EXCEPT ![p] = c] /\ CallFits(c)
           /\ mirror' = mirror /\ row' \in Rows
           /\ export' \in [Exports -> {"none", "running", "completed", "gone"}]
<1>0. /\ caller[p] \in Call /\ row \in Rows
      /\ export \in [Exports -> {"none", "running", "completed", "gone"}]
      /\ row.progress.op \in {NoExport} \cup Exports /\ row.progress.lines \in Nat
  BY DEF IInv, TypeOK, Rows, Progress
<1>1. CASE Claim(p)
  <2>1. /\ caller' = [caller EXCEPT ![p] = Begun(caller[p], "start", row.progress.op,
                                                row.progress.lines)]
        /\ row' = [row EXCEPT !.status = "RUNNING", !.age = 0]
        /\ UNCHANGED <<export, mirror>>
    BY <1>1 DEF Claim, Begun
  <2>2. ~caller[p].ended  BY <1>1 DEF Claim, At, IInv, CallFits
  <2> QED  BY <1>0, <2>1, <2>2, BegunType, RowType
<1>2. CASE StartExport(p)
  <2>0. PICK x \in Exports :
          /\ export' = [export EXCEPT ![x] = "running"]
          /\ caller' = [caller EXCEPT ![p].pc = "save", ![p].op = x, ![p].skip = 0]
    BY <1>2, Zenon DEF StartExport
  <2>1. /\ export' = [export EXCEPT ![x] = "running"]
        /\ caller' = [caller EXCEPT ![p] = Begun(caller[p], "save", x, 0)]
        /\ UNCHANGED <<row, mirror>>
    BY <1>2, <2>0, ZenonT(40) DEF StartExport, Begun
  <2>2. ~caller[p].ended  BY <1>2 DEF StartExport, At, IInv, CallFits
  <2>3. export' \in [Exports -> {"none", "running", "completed", "gone"}]  BY <1>0, <2>1
  <2> QED  BY <1>0, <2>1, <2>2, <2>3, BegunType
<1> QED  BY <1>1, <1>2

-----------------------------------------------------------------------------
(* The stream.                                                             *)

Streaming(c, at) == [c EXCEPT !.pc = "stream", !.flushed = at]
ReadTo(c, n) == [c EXCEPT !.read = n]
BodyEnds(c, n, cut) == [c EXCEPT !.read = n, !.ended = TRUE, !.cut = cut]
Batched(c, n) == [c EXCEPT !.pc = "saved", !.flushed = n]
Passed(cut) == [NoCall EXCEPT !.pc = "whole", !.cut = cut]

\* The stream begins.
LEMMA StreamingType ==
  ASSUME NEW c \in Call, NEW at \in Nat
  PROVE  /\ Streaming(c, at) \in Call /\ Streaming(c, at).pc = "stream"
         /\ Streaming(c, at).flushed = at /\ Streaming(c, at).skip = c.skip
         /\ Streaming(c, at).ended = c.ended
<1>0. "stream" \in Stages  BY DEF Stages
<1> QED  BY <1>0 DEF Call, Streaming

\* Lines go by.
LEMMA ReadToType ==
  ASSUME NEW c \in Call, NEW n \in 0 .. Lines
  PROVE  /\ ReadTo(c, n) \in Call /\ ReadTo(c, n).pc = c.pc /\ ReadTo(c, n).skip = c.skip
         /\ ReadTo(c, n).flushed = c.flushed /\ ReadTo(c, n).ended = c.ended
  BY DEF Call, ReadTo

\* The body is at its end.
LEMMA BodyEndsType ==
  ASSUME NEW c \in Call, NEW n \in 0 .. Lines, NEW cut \in BOOLEAN
  PROVE  /\ BodyEnds(c, n, cut) \in Call /\ BodyEnds(c, n, cut).pc = c.pc
         /\ BodyEnds(c, n, cut).skip = c.skip /\ BodyEnds(c, n, cut).flushed = c.flushed
         /\ BodyEnds(c, n, cut).ended = TRUE /\ BodyEnds(c, n, cut).cut = cut
         /\ BodyEnds(c, n, cut).read = n
  BY DEF Call, BodyEnds

\* A batch is written.
LEMMA BatchedType ==
  ASSUME NEW c \in Call, NEW at \in Nat
  PROVE  /\ Batched(c, at) \in Call /\ Batched(c, at).pc = "saved"
         /\ Batched(c, at).skip = c.skip /\ Batched(c, at).flushed = at
         /\ Batched(c, at).ended = c.ended /\ Batched(c, at).cut = c.cut
         /\ Batched(c, at).read = c.read
<1>0. "saved" \in Stages  BY DEF Stages
<1> QED  BY <1>0 DEF Call, Batched

\* The count of lines is right.
LEMMA PassedType ==
  ASSUME NEW cut \in BOOLEAN
  PROVE  Passed(cut) \in Call /\ Passed(cut).pc = "whole" /\ Passed(cut).cut = cut
<1>0. "whole" \in Stages  BY DEF Stages
<1> QED  BY <1>0, NoCallType DEF Call, Passed

\* What leaves the window was read before.
LEMMA LeavingIsHeld ==
  ASSUME NEW c \in Call
  PROVE  Leaving(c) \in Nat /\ Leaving(c) <= Held(c)
<1>1. c.read \in Nat /\ c.flushed \in Nat /\ c.ended \in BOOLEAN  BY Numbers DEF Call
<1>2. Held(c) \in Nat  BY <1>1 DEF Held
<1> QED  BY <1>1, <1>2, Numbers DEF Leaving

\* The stream begins, goes on and is judged.
LEMMA StreamSteps ==
  ASSUME IInv, NEW p \in Callers,
         \/ Download(p) \/ Read(p) \/ SaveProgress(p) \/ Check(p) \/ Throws(p)
  PROVE  \E c \in Call :
           /\ caller' = [caller EXCEPT ![p] = c] /\ CallFits(c)
           /\ mirror' = mirror /\ export' = export /\ row' \in Rows
<1> DEFINE z == caller[p]
<1>0. /\ z \in Call /\ CallFits(z) /\ row \in Rows /\ mirror \subseteq Orders
      /\ z.op \in {NoExport} \cup Exports /\ z.skip \in Nat /\ z.read \in 0 .. Lines
      /\ z.flushed \in Nat /\ z.ended \in BOOLEAN /\ z.cut \in BOOLEAN
  BY DEF IInv, TypeOK, Call, Rows
<1>1. CASE Download(p)
  <2>1. /\ caller' = [caller EXCEPT ![p] = Streaming(z, z.skip)]
        /\ UNCHANGED <<row, export, mirror>> /\ z.pc = "wait"
    BY <1>1 DEF Download, Streaming, At
  <2>2. ~z.ended  BY <1>0, <2>1 DEF CallFits
  <2> DEFINE c == Streaming(z, z.skip)
  <2>3. /\ c \in Call /\ c.pc = "stream" /\ c.flushed = z.skip /\ c.skip = z.skip
        /\ ~c.ended
    BY <1>0, <2>2, StreamingType
  <2>4. caller' = [caller EXCEPT ![p] = c]  BY <2>1
  <2> HIDE DEF c, z
  <2>5. c.skip = 0 => 1 .. c.flushed = {}  BY <2>3
  <2>6. CallFits(c)  BY <1>0, <2>3, <2>5 DEF CallFits
  <2> QED  BY <1>0, <2>1, <2>3, <2>4, <2>6
<1>2. CASE Read(p)
  <2>0. z.pc = "stream" /\ ~z.ended /\ UNCHANGED <<row, export, mirror>>
    BY <1>2 DEF Read, At
  <2>1. \/ caller' = [caller EXCEPT ![p] = ReadTo(z, Full(z))] /\ Full(z) <= Lines
        \/ \E n \in z.read .. Lines : caller' = [caller EXCEPT ![p] = BodyEnds(z, n, n < Lines)]
    BY <1>2, Zenon DEF Read, ReadTo, BodyEnds
  <2>2. /\ z.skip <= z.flushed
        /\ z.skip = 0 => 1 .. z.flushed \subseteq mirror
    BY <1>0, <2>0 DEF CallFits
  <2>3. CASE caller' = [caller EXCEPT ![p] = ReadTo(z, Full(z))] /\ Full(z) <= Lines
    <3> DEFINE c == ReadTo(z, Full(z))
    <3>1. Full(z) \in 0 .. Lines  BY <1>0, <2>3, Numbers DEF Full
    <3>2. /\ c \in Call /\ c.pc = z.pc /\ c.skip = z.skip /\ c.flushed = z.flushed
          /\ c.ended = z.ended
      BY <1>0, <3>1, ReadToType
    <3>3. caller' = [caller EXCEPT ![p] = c]  BY <2>3
    <3> HIDE DEF c, z
    <3>4. CallFits(c)  BY <2>0, <2>2, <3>2 DEF CallFits
    <3> QED  BY <1>0, <2>0, <3>2, <3>3, <3>4
  <2>4. ASSUME NEW n \in z.read .. Lines,
               caller' = [caller EXCEPT ![p] = BodyEnds(z, n, n < Lines)]
        PROVE  \E c \in Call : caller' = [caller EXCEPT ![p] = c] /\ CallFits(c)
    <3>1. n \in 0 .. Lines  BY <1>0, Numbers
    <3>2. CASE n < Lines
      <4> DEFINE c == BodyEnds(z, n, TRUE)
      <4>1. (n < Lines) = TRUE  BY <3>2
      <4>2. caller' = [caller EXCEPT ![p] = c]  BY <2>4, <4>1
      <4>3. /\ c \in Call /\ c.pc = z.pc /\ c.skip = z.skip /\ c.flushed = z.flushed
            /\ c.cut = TRUE /\ c.read = n
        BY <1>0, <3>1, BodyEndsType
      <4>5. n # Lines  BY <3>1, <3>2, Numbers
      <4> HIDE DEF c, z
      <4>6. CallFits(c)  BY <2>0, <2>2, <4>3, <4>5 DEF CallFits
      <4> QED  BY <4>2, <4>3, <4>6
    <3>3. CASE ~(n < Lines)
      <4> DEFINE c == BodyEnds(z, n, FALSE)
      <4>1. (n < Lines) = FALSE  BY <3>3
      <4>2. caller' = [caller EXCEPT ![p] = c]  BY <2>4, <4>1
      <4>3. /\ c \in Call /\ c.pc = z.pc /\ c.skip = z.skip /\ c.flushed = z.flushed
            /\ c.cut = FALSE /\ c.read = n
        BY <1>0, <3>1, BodyEndsType
      <4>4. n = Lines  BY <3>1, <3>3, Numbers
      <4> HIDE DEF c, z
      <4>5. CallFits(c)  BY <2>0, <2>2, <4>3, <4>4 DEF CallFits
      <4> QED  BY <4>2, <4>3, <4>5
    <3> QED  BY <3>2, <3>3
  <2> QED  BY <1>0, <2>0, <2>1, <2>3, <2>4
<1>3. CASE SaveProgress(p)
  <2>1. /\ caller' = [caller EXCEPT ![p] = Moved(z, "stream")]
        /\ row' = [row EXCEPT !.age = 0, !.progress = [op |-> z.op, lines |-> SavedLines(z)]]
        /\ UNCHANGED <<export, mirror>> /\ z.pc = "saved"
    BY <1>3 DEF SaveProgress, Goto, Moved, At
  <2>2. SavedLines(z) \in Nat  BY <1>0, Numbers DEF SavedLines
  <2>3. row' \in Rows  BY <1>0, <2>1, <2>2, RowType
  <2> DEFINE c == Moved(z, "stream")
  <2>4. /\ c \in Call /\ c.pc = "stream" /\ c.skip = z.skip /\ c.flushed = z.flushed
        /\ c.cut = z.cut /\ c.read = z.read /\ c.ended = z.ended
    <3>1. "stream" \in Stages  BY DEF Stages
    <3> QED  BY <1>0, <3>1, MovedType
  <2>5. caller' = [caller EXCEPT ![p] = c]  BY <2>1
  <2> HIDE DEF c, z
  <2>6. CallFits(c)  BY <1>0, <2>1, <2>4 DEF CallFits
  <2> QED  BY <2>1, <2>3, <2>4, <2>5, <2>6
<1>4. CASE Check(p)
  <2>0. z.pc = "stream" /\ Drained(z) /\ UNCHANGED <<row, export, mirror>>
    BY <1>4 DEF Check, At
  <2>1. caller' = [caller EXCEPT ![p] = IF Seen(z) = Lines THEN Passed(z.cut) ELSE Failing]
    BY <1>4 DEF Check, Passed
  <2>2. CASE Seen(z) = Lines
    <3>1. z.ended /\ z.read <= z.flushed
      <4>1. z.ended /\ Held(z) = 0  BY <2>0 DEF Drained
      <4> QED  BY <1>0, <4>1 DEF Held
    <3>2. ~z.cut => mirror = Orders
      <4> SUFFICES ASSUME ~z.cut  PROVE mirror = Orders
        OBVIOUS
      <4>1. z.read = Lines /\ (z.skip = 0 => 1 .. z.flushed \subseteq mirror)
        BY <1>0, <2>0, <3>1 DEF CallFits
      <4>2. z.skip = 0  BY <1>0, <2>2, <4>1, Numbers DEF Seen
      <4>3. Orders \subseteq 1 .. z.flushed  BY <1>0, <3>1, <4>1, Numbers DEF Orders
      <4> QED  BY <1>0, <4>1, <4>2, <4>3
    <3> DEFINE c == Passed(z.cut)
    <3>3. c \in Call /\ c.pc = "whole" /\ c.cut = z.cut  BY <1>0, PassedType
    <3>4. caller' = [caller EXCEPT ![p] = c]  BY <2>1, <2>2
    <3> HIDE DEF c, z
    <3>5. CallFits(c)  BY <3>2, <3>3 DEF CallFits
    <3> QED  BY <1>0, <2>0, <3>3, <3>4, <3>5
  <2>3. CASE Seen(z) # Lines
    <3>1. caller' = [caller EXCEPT ![p] = Failing]  BY <2>1, <2>3
    <3> QED  BY <1>0, <2>0, <3>1, Ends
  <2> QED  BY <2>2, <2>3
<1>5. CASE Throws(p)
  <2>1. caller' = [caller EXCEPT ![p] = Failing] /\ UNCHANGED <<row, export, mirror>>
    BY <1>5 DEF Throws
  <2> QED  BY <1>0, <2>1, Ends
<1> QED  BY <1>1, <1>2, <1>3, <1>4, <1>5

\* A batch is written: the mirror has every line up to its end.
LEMMA FlushKeeps ==
  ASSUME IInv, NEW p \in Callers, Flush(p)
  PROVE  IInv'
<1> DEFINE z == caller[p]
           n == Leaving(z)
           at == z.flushed + n
           c == Batched(z, at)
<1>0. /\ z \in Call /\ CallFits(z) /\ mirror \subseteq Orders /\ z.pc = "stream"
      /\ z.skip \in Nat /\ z.read \in 0 .. Lines /\ z.flushed \in Nat
  BY DEF IInv, TypeOK, Call, Flush, At
<1>1. /\ n > 0 /\ mirror' = mirror \cup (z.flushed + 1 .. at)
      /\ caller' = [caller EXCEPT ![p] = c] /\ UNCHANGED <<row, export>>
  BY DEF Flush, Batched
<1>2. n \in Nat /\ n <= Held(z)  BY <1>0, LeavingIsHeld
<1>3. at \in Nat /\ at <= Lines /\ z.flushed <= at
  BY <1>0, <1>1, <1>2, Numbers DEF Held
<1>4. /\ c \in Call /\ c.pc = "saved" /\ c.skip = z.skip /\ c.flushed = at
      /\ c.ended = z.ended /\ c.cut = z.cut /\ c.read = z.read
  <2> HIDE DEF at
  <2> QED  BY <1>0, <1>3, BatchedType
<1> HIDE DEF c, at, n, z
<1>5. mirror' \subseteq Orders /\ mirror \subseteq mirror'
  <2>1. z.flushed + 1 .. at \subseteq 1 .. Lines  BY <1>0, <1>3, Numbers
  <2> QED  BY <1>0, <1>1, <2>1 DEF Orders
<1>6. TypeOK'  BY <1>1, <1>4, <1>5 DEF IInv, TypeOK
<1>7. \A q \in Callers : caller'[q] = IF q = p THEN c ELSE caller[q]
  BY <1>1 DEF IInv, TypeOK
<1>8. ASSUME c.skip = 0  PROVE 1 .. at \subseteq mirror'
  <2>1. 1 .. z.flushed \subseteq mirror  BY <1>0, <1>4, <1>8 DEF CallFits
  <2>2. 1 .. at \subseteq (1 .. z.flushed) \cup (z.flushed + 1 .. at)  BY <1>0, <1>3
  <2> QED  BY <1>1, <2>1, <2>2
<1>9. ASSUME NEW q \in Callers  PROVE CallFits(caller[q])'
  <2>1. CASE q = p
    <3>1. caller'[q].pc = "saved" /\ caller'[q] = c  BY <1>4, <1>7, <2>1
    <3>2. caller'[q].skip = z.skip /\ caller'[q].flushed = at /\ caller'[q].ended = z.ended
          /\ caller'[q].cut = z.cut /\ caller'[q].read = z.read
      BY <1>4, <3>1
    <3>3. z.skip <= at /\ (z.ended => (z.cut <=> z.read # Lines))
      BY <1>0, <1>3 DEF CallFits
    <3>4. z.skip = 0 => 1 .. at \subseteq mirror'  BY <1>4, <1>8
    <3> QED  BY <3>1, <3>2, <3>3, <3>4 DEF CallFits
  <2>2. CASE q # p
    <3>1. caller'[q] = caller[q]  BY <1>7, <2>2
    <3>2. CallFits(caller[q])  BY DEF IInv
    <3>3. mirror = Orders => mirror' = Orders  BY <1>5
    <3> QED  BY <1>5, <3>1, <3>2, <3>3 DEF CallFits
  <2> QED  BY <2>1, <2>2
<1> QED  BY <1>6, <1>9 DEF IInv

\* How a call ends.
LEMMA Ending ==
  ASSUME IInv, NEW p \in Callers,
         Succeed(p) \/ RecordFailure(p) \/ Report(p) \/ ReportThrows(p) \/ Crash(p)
  PROVE  \E c \in Call :
           /\ caller' = [caller EXCEPT ![p] = c] /\ CallFits(c)
           /\ mirror' = mirror /\ export' = export /\ row' \in Rows
<1>0. NoExport \in {NoExport} \cup Exports /\ 0 \in Nat  OBVIOUS
<1>1. CASE Succeed(p)
  <2>1. /\ caller' = [caller EXCEPT ![p] = IF p \in Buttons THEN Moved(NoCall, "done") ELSE NoCall]
        /\ row' = [row EXCEPT !.status = "OK", !.age = 0, !.ok = TRUE, !.progress = NoProgress]
        /\ UNCHANGED <<export, mirror>>
    BY <1>1 DEF Succeed, Moved
  <2> QED  BY <1>0, <2>1, Ends, RowType
<1>2. CASE RecordFailure(p)
  BY <1>0, <1>2, Ends, RowType DEF RecordFailure
<1>3. CASE Report(p)
  <2>1. /\ caller' = [caller EXCEPT ![p] = Ended(p)] /\ UNCHANGED <<export, mirror>>
        /\ \/ row' = [row EXCEPT !.status = "OK", !.age = 0, !.ok = TRUE]
           \/ row' = [row EXCEPT !.status = "ERROR", !.age = 0]
    BY <1>3 DEF Report
  <2> QED  BY <1>0, <2>1, Ends, RowType
<1>4. CASE Crash(p)
  BY <1>0, <1>4, Ends, RowType DEF Crash
<1>5. CASE ReportThrows(p)
  <2>1. /\ caller' = [caller EXCEPT ![p] = Moved(caller[p], "failed")]
        /\ UNCHANGED <<export, mirror>> /\ caller[p].pc = "done"
        /\ \/ row' = row
           \/ row' = [row EXCEPT !.status = "OK", !.age = 0, !.ok = TRUE]
    BY <1>5 DEF ReportThrows, Goto, Moved, At
  <2>2. caller[p] \in Call /\ ~caller[p].ended /\ "failed" \in Stages
    BY <2>1 DEF IInv, TypeOK, CallFits, Stages
  <2> DEFINE c == Moved(caller[p], "failed")
  <2>3. c \in Call /\ c.pc = "failed" /\ ~c.ended  BY <2>2, MovedType
  <2>4. CallFits(c)  BY <2>3, CallStops
  <2> QED  BY <1>0, <2>1, <2>3, <2>4, RowType
<1> QED  BY <1>1, <1>2, <1>3, <1>4, <1>5

-----------------------------------------------------------------------------
(* The theorems.                                                           *)

\* No step of any call, of Shopify or of the clock breaks the invariant.
LEMMA Invariance == Spec => []IInv
<1>1. Init => IInv
  <2> SUFFICES ASSUME Init  PROVE IInv
    OBVIOUS
  <2>1. TypeOK
    BY Numbers, NoCallType DEF Init, TypeOK, NoProgress, Progress
  <2>2. \A p \in Callers : caller[p] = NoCall  BY DEF Init
  <2> QED  BY <2>1, <2>2, NoCallType, CallStops DEF IInv
<1>2. IInv /\ [Next]_vars => IInv'
  <2> SUFFICES ASSUME IInv, [Next]_vars  PROVE IInv'
    OBVIOUS
  <2>1. CASE UNCHANGED vars
    <3>1. UNCHANGED <<row, export, mirror, caller>>  BY <2>1 DEF vars
    <3>2. TypeOK'  BY <3>1 DEF IInv, TypeOK
    <3>3. \A p \in Callers : CallFits(caller[p])'  BY <3>1 DEF IInv, CallFits
    <3> QED  BY <3>2, <3>3 DEF IInv
  <2>2. CASE Tick \/ \E x \in Exports : ExportEnds(x) \/ ExportExpires(x)
    BY <2>2, Outside
  <2>3. ASSUME NEW p \in Callers, Boot(p) \/ Look(p) \/ Step(p) \/ Crash(p)
        PROVE  IInv'
    <3>1. CASE Flush(p)  BY <3>1, FlushKeeps
    <3>2. CASE ~Flush(p)
      <4>0. export \in [Exports -> {"none", "running", "completed", "gone"}]
        BY DEF IInv, TypeOK
      <4>1. PICK c \in Call :
              /\ caller' = [caller EXCEPT ![p] = c] /\ CallFits(c)
              /\ mirror' = mirror /\ row' \in Rows
              /\ export' \in [Exports -> {"none", "running", "completed", "gone"}]
        <5>1. CASE \/ Boot(p) \/ Look(p) \/ Record(p) \/ Mark(p) \/ Refused(p) \/ Resume(p)
                   \/ ThrowsEarly(p) \/ SaveFirst(p)
          BY <4>0, <5>1, Entering
        <5>2. CASE Claim(p) \/ StartExport(p)  BY <5>2, Claiming
        <5>3. CASE Download(p) \/ Read(p) \/ SaveProgress(p) \/ Check(p) \/ Throws(p)
          BY <4>0, <5>3, StreamSteps
        <5>4. CASE Succeed(p) \/ RecordFailure(p) \/ Report(p) \/ ReportThrows(p) \/ Crash(p)
          BY <4>0, <5>4, Ending
        <5> QED  BY <2>3, <3>2, <5>1, <5>2, <5>3, <5>4 DEF Step
      <4> QED  BY <4>1, CallMoves DEF Rows
    <3> QED  BY <3>1, <3>2
  <2> QED  BY <2>1, <2>2, <2>3 DEF Next
<1> QED  BY <1>1, <1>2, PTL DEF Spec

\* Every variable keeps its type: the progress row, the calls' locals, and the
\* mirror never gets a line the export does not have.
THEOREM TypesHold == Spec => []TypeOK
<1>1. IInv => TypeOK  BY DEF IInv
<1> QED  BY <1>1, Invariance, PTL

\* What backfill() is about to record as a complete import, of a body that was
\* not cut short, is in the mirror, every order of it.
THEOREM CheckedImportIsWhole == Spec => []CheckedIsWhole
<1>1. IInv => CheckedIsWhole  BY DEF IInv, CallFits, CheckedIsWhole, At
<1> QED  BY <1>1, Invariance, PTL

\* What the completeness check finds of a body that is at its end
\* (backfill.service.ts:263): of an attempt that began at the first line it says
\* exactly whether the body was cut short; of one that resumed it never finds
\* that all was read when all was, so a resumed import that lost nothing is
\* recorded as failed.
JudgedByTheCount == \A p \in Callers :
  LET c == caller[p] IN
    At(p, "stream") /\ Drained(c) =>
      /\ c.skip = 0 => (Seen(c) # Lines <=> c.cut)
      /\ c.skip # 0 /\ ~c.cut => Seen(c) # Lines

\* What comments say of the check holds of first attempts, and only of these.
THEOREM OnlyFirstAttemptsAreJudgedRightly == Spec => []JudgedByTheCount
<1>1. IInv => JudgedByTheCount
  <2> SUFFICES ASSUME IInv, NEW p \in Callers, At(p, "stream"), Drained(caller[p])
               PROVE  /\ caller[p].skip = 0 => (Seen(caller[p]) # Lines <=> caller[p].cut)
                      /\ caller[p].skip # 0 /\ ~caller[p].cut => Seen(caller[p]) # Lines
    BY DEF JudgedByTheCount
  <2>1. caller[p] \in Call /\ CallFits(caller[p])  BY DEF IInv, TypeOK
  <2>2. caller[p].skip \in Nat /\ caller[p].read \in 0 .. Lines /\ caller[p].cut \in BOOLEAN
    BY <2>1 DEF Call
  <2>3. caller[p].cut <=> caller[p].read # Lines  BY <2>1 DEF CallFits, At, Drained
  <2> QED  BY <2>2, <2>3, Numbers DEF Seen
<1> QED  BY <1>1, Invariance, PTL
=============================================================================
