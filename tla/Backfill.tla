------------------------------ MODULE Backfill ------------------------------
(***************************************************************************)
(* The import of the shop's whole history: the claim on the row            *)
(* 'orders_backfill' of sd_sync_state, the bulk export at Shopify, the     *)
(* stream of its lines through a window into the mirror, the progress that *)
(* is saved after every batch, and the next attempt that resumes from it.  *)
(*                                                                         *)
(* Callers are the places backfill() is entered from: the bootstrap of an  *)
(* API process, when no import is on record, and the operator's button.    *)
(* The export is Lines lines long, each an order without children.         *)
(***************************************************************************)
EXTENDS Integers, FiniteSets

CONSTANTS
  Boots,       \* bootstraps
  Buttons,     \* operator requests, each of them one call
  Lines,       \* lines of an export
  Window,      \* orders kept open, waiting for children
  Batch,       \* orders written at a time
  Enough,      \* orders that are taken for all of them (95% of the shop's count)
  StaleAfter,  \* ticks after which a RUNNING row is taken to be a dead one's
  MaxExports   \* bound: exports ever started

ASSUME BackfillAssumption ==
  /\ Boots \cap Buttons = {}
  /\ Lines \in Nat \ {0} /\ Batch \in Nat \ {0} /\ Window \in Nat /\ Window >= 2 * Batch
  /\ Enough \in 1 .. Lines
  /\ StaleAfter \in Nat \ {0} /\ MaxExports \in Nat

Callers == Boots \cup Buttons
Orders == 1 .. Lines
Exports == 1 .. MaxExports
NoExport == 0

VARIABLES
  row,      \* status, ticks since last_run_at, last_ok_at set?, progress
  export,   \* each export at Shopify: none, running, completed, gone
  mirror,   \* the orders of the history that sd_orders has
  caller    \* the local variables of each call

vars == <<row, export, mirror, caller>>

-----------------------------------------------------------------------------
NoProgress == [op |-> NoExport, lines |-> 0]
Progress == [op : {NoExport} \cup Exports, lines : Nat]

\* cut: the body really ended before its time, which the code cannot see.
NoCall == [pc |-> "idle", op |-> NoExport, skip |-> 0, read |-> 0, flushed |-> 0,
           ended |-> FALSE, cut |-> FALSE]

\* "record" and "mark" come before the claim, "failed" and "done" after the row
\* says how the import ended, when the button still has to report.
Stages == {"idle", "record", "mark", "claim", "start", "save", "wait",
           "stream", "saved", "whole", "fail", "failed", "done", "over"}

Call == [pc : Stages, op : {NoExport} \cup Exports, skip : Nat, read : 0 .. Lines,
         flushed : Nat, ended : BOOLEAN, cut : BOOLEAN]

\* Types: the row, the calls and what Shopify holds.
TypeOK ==
  /\ row \in [status : {"NONE", "RUNNING", "OK", "ERROR"}, age : 0 .. StaleAfter,
              ok : BOOLEAN, progress : Progress]
  /\ export \in [Exports -> {"none", "running", "completed", "gone"}]
  /\ mirror \subseteq Orders
  /\ caller \in [Callers -> Call]

Init ==
  /\ row = [status |-> "NONE", age |-> 0, ok |-> FALSE, progress |-> NoProgress]
  /\ export = [x \in Exports |-> "none"]
  /\ mirror = {}
  /\ caller = [p \in Callers |-> NoCall]

\* A process boots again, a request is over.
Ended(p) == IF p \in Buttons THEN [NoCall EXCEPT !.pc = "over"] ELSE NoCall

At(p, pc) == caller[p].pc = pc
Goto(p, pc) == caller' = [caller EXCEPT ![p].pc = pc]

-----------------------------------------------------------------------------
(* Time and Shopify *)

\* The age of the row is asked for only while it says RUNNING.
Tick ==
  /\ row.status = "RUNNING" /\ row.age < StaleAfter
  /\ row' = [row EXCEPT !.age = @ + 1]
  /\ UNCHANGED <<export, mirror, caller>>

ExportEnds(x) ==
  /\ export[x] = "running"
  /\ export' = [export EXCEPT ![x] = "completed"]
  /\ UNCHANGED <<row, mirror, caller>>

ExportExpires(x) ==
  /\ export[x] = "completed"
  /\ export' = [export EXCEPT ![x] = "gone"]
  /\ UNCHANGED <<row, mirror, caller>>

-----------------------------------------------------------------------------
(* Entering backfill() *)

\* bootstrap, when the row has never recorded an import.  The shop's own count
\* decides whether the history is there; when it cannot be had, the import goes
\* ahead.
Boot(p) ==
  /\ p \in Boots /\ At(p, "idle")
  /\ ~ row.ok
  /\ \/ Goto(p, "claim")
     \/ Cardinality(mirror) >= Enough /\ Goto(p, "record")
  /\ UNCHANGED <<row, export, mirror>>

\* markBackfilled.
Record(p) ==
  /\ At(p, "record")
  /\ row' = [row EXCEPT !.status = "OK", !.age = 0, !.ok = TRUE]
  /\ Goto(p, "idle")
  /\ UNCHANGED <<export, mirror>>

\* startDetached: what the button finds, and then writes without looking again.
Look(p) ==
  /\ p \in Buttons /\ At(p, "idle")
  /\ row.status # "RUNNING" \/ row.age = StaleAfter
  /\ Goto(p, "mark")
  /\ UNCHANGED <<row, export, mirror>>

Mark(p) ==
  /\ At(p, "mark")
  /\ row' = [row EXCEPT !.status = "RUNNING", !.age = 0]
  /\ Goto(p, "claim")
  /\ UNCHANGED <<export, mirror>>

-----------------------------------------------------------------------------
(* backfill() *)

Claimable == row.status # "RUNNING" \/ row.age = StaleAfter

Claim(p) ==
  /\ At(p, "claim")
  /\ Claimable
  /\ row' = [row EXCEPT !.status = "RUNNING", !.age = 0]
  /\ caller' = [caller EXCEPT ![p].pc = "start", ![p].op = row.progress.op,
                              ![p].skip = row.progress.lines]
  /\ UNCHANGED <<export, mirror>>

\* How a call ends that threw: the button's runner has something to report.
AfterThrow(p) == IF p \in Buttons THEN [NoCall EXCEPT !.pc = "failed"] ELSE NoCall

\* The ConflictException.
Refused(p) ==
  /\ At(p, "claim")
  /\ ~ Claimable
  /\ caller' = [caller EXCEPT ![p] = AfterThrow(p)]
  /\ UNCHANGED <<row, export, mirror>>

\* The last attempt's export, if Shopify still has it.
Resume(p) ==
  /\ At(p, "start")
  /\ caller[p].op # NoExport
  /\ export[caller[p].op] = "completed"
  /\ Goto(p, "save")
  /\ UNCHANGED <<row, export, mirror>>

\* A new export, unless one is running.  (Asking whether the old one is still
\* there may fail, and then it counts as gone.)
StartExport(p) ==
  /\ At(p, "start")
  /\ \A x \in Exports : export[x] # "running"
  /\ \E x \in Exports :
       /\ export[x] = "none" /\ (\A y \in 1 .. x - 1 : export[y] # "none")
       /\ export' = [export EXCEPT ![x] = "running"]
       /\ caller' = [caller EXCEPT ![p].pc = "save", ![p].op = x, ![p].skip = 0]
  /\ UNCHANGED <<row, mirror>>

\* Before its try block a throw leaves the row RUNNING: the export is refused,
\* or a statement or a request fails.
ThrowsEarly(p) ==
  /\ caller[p].pc \in {"start", "save"}
  /\ caller' = [caller EXCEPT ![p] = AfterThrow(p)]
  /\ UNCHANGED <<row, export, mirror>>

SaveFirst(p) ==
  /\ At(p, "save")
  /\ row' = [row EXCEPT !.age = 0, !.progress = [op |-> caller[p].op, lines |-> caller[p].skip]]
  /\ Goto(p, "wait")
  /\ UNCHANGED <<export, mirror>>

\* waitAndIngest: the export is there, and the download begins.
Download(p) ==
  /\ At(p, "wait")
  /\ export[caller[p].op] = "completed"
  /\ caller' = [caller EXCEPT ![p].pc = "stream", ![p].flushed = caller[p].skip]
  /\ UNCHANGED <<row, export, mirror>>

\* streamBulkJsonl: lines it has read and not yet written.
Held(c) == IF c.read > c.flushed THEN c.read - c.flushed ELSE 0

Full(c) == c.flushed + Window + Batch

\* Lines go by until the window overflows into a full batch, or the body ends,
\* which nothing distinguishes from a body that was cut short.  A line the last
\* attempt counted is counted again and not opened.
Read(p) ==
  /\ At(p, "stream") /\ ~ caller[p].ended
  /\ LET c == caller[p] IN
       \/ /\ c.read < Full(c) /\ Full(c) <= Lines
          /\ caller' = [caller EXCEPT ![p].read = Full(c)]
       \/ \E n \in c.read .. Lines :
            /\ n < Full(c)
            /\ caller' = [caller EXCEPT ![p].read = n, ![p].ended = TRUE, ![p].cut = n < Lines]
  /\ UNCHANGED <<row, export, mirror>>

\* As if a batch were taken beyond what is held.
Leaving_Bug(c) == IF c.ended /\ Held(c) = 0 THEN 0 ELSE Batch

\* How many orders leave the window: a batch once it is full, and at the end
\* of the body whatever is left.
Leaving(c) ==
  IF Held(c) = Window + Batch \/ (c.ended /\ Held(c) >= Batch) THEN Batch
  ELSE IF c.ended THEN Held(c) ELSE 0

\* upsertOrders on the batch.
Flush(p) ==
  /\ At(p, "stream")
  /\ LET c == caller[p]
         n == Leaving(c) IN
       /\ n > 0
       /\ mirror' = mirror \cup (c.flushed + 1 .. c.flushed + n)
       /\ caller' = [caller EXCEPT ![p].pc = "saved", ![p].flushed = c.flushed + n]
  /\ UNCHANGED <<row, export>>

\* onProgress: the lines read, not the lines written, and the skipped ones twice.
SavedLines(c) == c.read + c.skip

SaveProgress(p) ==
  /\ At(p, "saved")
  /\ row' = [row EXCEPT !.age = 0,
               !.progress = [op |-> caller[p].op, lines |-> SavedLines(caller[p])]]
  /\ Goto(p, "stream")
  /\ UNCHANGED <<export, mirror>>

\* As if the skipped lines were not counted a second time.
Seen_Bug(c) == c.read

\* The line count against the export's objectCount.
Seen(c) == c.read + c.skip
Failing == [NoCall EXCEPT !.pc = "fail"]
Drained(c) == c.ended /\ Held(c) = 0

Check(p) ==
  /\ At(p, "stream") /\ Drained(caller[p])
  /\ caller' = [caller EXCEPT ![p] =
       IF Seen(@) = Lines THEN [NoCall EXCEPT !.pc = "whole", !.cut = caller[p].cut] ELSE Failing]
  /\ UNCHANGED <<row, export, mirror>>

\* Any request, write or timeout inside the try block may fail.
Throws(p) ==
  /\ caller[p].pc \in {"wait", "stream", "saved", "whole"}
  /\ caller' = [caller EXCEPT ![p] = Failing]
  /\ UNCHANGED <<row, export, mirror>>

Succeed(p) ==
  /\ At(p, "whole")
  /\ row' = [row EXCEPT !.status = "OK", !.age = 0, !.ok = TRUE, !.progress = NoProgress]
  /\ caller' = [caller EXCEPT ![p] =
       IF p \in Buttons THEN [NoCall EXCEPT !.pc = "done"] ELSE NoCall]
  /\ UNCHANGED <<export, mirror>>

\* The progress is left for the next attempt.
RecordFailure(p) ==
  /\ At(p, "fail")
  /\ row' = [row EXCEPT !.status = "ERROR", !.age = 0]
  /\ caller' = [caller EXCEPT ![p] = AfterThrow(p)]
  /\ UNCHANGED <<export, mirror>>

\* The detached runner writes the outcome, whoever has the row by now.
Report(p) ==
  /\ \/ At(p, "done") /\ row' = [row EXCEPT !.status = "OK", !.age = 0, !.ok = TRUE]
     \/ At(p, "failed") /\ row' = [row EXCEPT !.status = "ERROR", !.age = 0]
  /\ caller' = [caller EXCEPT ![p] = Ended(p)]
  /\ UNCHANGED <<export, mirror>>

\* Writing down a success throws, committed or not, and is caught as if the
\* import had failed.
ReportThrows(p) ==
  /\ At(p, "done")
  /\ \/ row' = row
     \/ row' = [row EXCEPT !.status = "OK", !.age = 0, !.ok = TRUE]
  /\ Goto(p, "failed")
  /\ UNCHANGED <<export, mirror>>

\* The process stops, or what is left of the call is lost with its error.
Crash(p) ==
  /\ caller[p].pc \notin {"idle", "over"}
  /\ caller' = [caller EXCEPT ![p] = Ended(p)]
  /\ UNCHANGED <<row, export, mirror>>

-----------------------------------------------------------------------------
Step(p) ==
  \/ Record(p) \/ Mark(p)
  \/ Claim(p) \/ Refused(p)
  \/ Resume(p) \/ StartExport(p) \/ ThrowsEarly(p) \/ SaveFirst(p)
  \/ Download(p) \/ Read(p) \/ Flush(p) \/ SaveProgress(p)
  \/ Check(p) \/ Throws(p) \/ Succeed(p) \/ RecordFailure(p)
  \/ Report(p) \/ ReportThrows(p)

Next ==
  \/ Tick
  \/ \E x \in Exports : ExportEnds(x) \/ ExportExpires(x)
  \/ \E p \in Callers : Boot(p) \/ Look(p) \/ Step(p) \/ Crash(p)

Spec == Init /\ [][Next]_vars

-----------------------------------------------------------------------------
(* Properties *)

\* What passes the completeness check and was not cut short has been written,
\* every order of it: nothing is lost in the window or between two attempts,
\* whoever shared the row, the export and its progress with this one.
CheckedIsWhole == \A p \in Callers : At(p, "whole") /\ ~ caller[p].cut => mirror = Orders

-----------------------------------------------------------------------------
(* What comments say, and the code does not do.                            *)

\* backfill.service.ts:263: the counts "disagree when the body was cut short".
TruncatedWasCut == \A p \in Callers :
  At(p, "stream") /\ Drained(caller[p]) /\ Seen(caller[p]) # Lines => caller[p].cut

\* sync.service.ts:377: "One import at a time, decided by the database", by the
\* row that says RUNNING while an import has the claim.
ClaimIsItsHolders ==
  [][\A p \in Callers :
       /\ caller[p].pc \in {"start", "save", "wait", "stream", "saved", "whole"}
       /\ caller'[p] = caller[p] /\ row.status = "RUNNING"
       => row'.status = "RUNNING"]_vars
=============================================================================
