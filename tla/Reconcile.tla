------------------------------ MODULE Reconcile ------------------------------
(***************************************************************************)
(* The mirror of the shop's orders and the three writers it has: webhooks, *)
(* the re-read of an order that follows one, and reconciliation, which     *)
(* pages through what changed since its watermark and keeps a cursor when  *)
(* it is cut off.  A manual reconciliation runs beside the scheduled one:  *)
(* the job lock is the scheduler's and SyncController.reconcile has none.  *)
(*                                                                         *)
(* An order's version is its updated_at.  The shop's clock is ClockLag     *)
(* behind the API's; two changes never share an instant unless they are    *)
(* one bulk edit.                                                          *)
(***************************************************************************)
EXTENDS Integers, FiniteSets

CONSTANTS
  N,          \* orders are numbered by their gid
  Runs,       \* the runs of reconcile() that may be under way together
  Scheduled,  \* the one the scheduler starts again and again
  PageSize, MaxPages,
  Overlap, MaxAge, ClockLag,
  MaxTime     \* bound: the last instant

ASSUME ReconcileAssumption ==
  /\ N \in Nat
  /\ Scheduled \in Runs
  /\ PageSize \in Nat \ {0} /\ MaxPages \in Nat \ {0}
  /\ Overlap \in Nat /\ MaxAge \in Nat /\ MaxTime \in Nat
  /\ ClockLag \in 0 .. Overlap

Orders == 1 .. N

VARIABLES
  now,      \* the API's clock
  shopAt,   \* updated_at of each order in the shop
  sent,     \* the webhooks sent: order and version; any may come late, twice or never
  row,      \* sd_orders.shopify_updated_at
  lines,    \* the version its line items were last written from
  reread,   \* the worker's re-read of an order: which, and what it read
  sync,     \* sd_sync_state of 'orders'
  run       \* the local variables of each run of reconcile()

vars == <<now, shopAt, sent, row, lines, reread, sync, run>>

ShopClock == now - ClockLag

-----------------------------------------------------------------------------
(* The shop's list of orders, sorted by updated_at, then by id. *)

Position(o, v) == v * (N + 1) + o
NoCursor == -1

After(o, cursor) == cursor # NoCursor => Position(o, shopAt[o]) > cursor
Matching(since, cursor) == {o \in Orders : shopAt[o] >= since /\ After(o, cursor)}

\* The first PageSize of the matching orders.
IsPage(P, M) ==
  /\ P \subseteq M
  /\ Cardinality(P) = IF Cardinality(M) < PageSize THEN Cardinality(M) ELSE PageSize
  /\ \A p \in P, q \in M \ P : Position(p, shopAt[p]) < Position(q, shopAt[q])

First(S) == CHOOSE p \in S : \A q \in S : Position(p[1], p[2]) <= Position(q[1], q[2])
EndCursor(P) ==
  CHOOSE c \in {Position(o, shopAt[o]) : o \in P} : \A o \in P : Position(o, shopAt[o]) <= c

-----------------------------------------------------------------------------
NoRun == [pc |-> "idle", since |-> 0, cursor |-> NoCursor, startedAt |-> 0, pages |-> 0,
          todo |-> {}, end |-> NoCursor, more |-> FALSE, last |-> NoCursor]
NoRead == <<>>

Run == [pc : {"idle", "down", "fetch", "write", "complete", "cut off"}, since : Int, cursor : Int, startedAt : Int,
        pages : 0 .. MaxPages, todo : SUBSET (Orders \X Nat), end : Int, more : BOOLEAN,
        last : Int]

\* Types: the rows, the runs and the clocks hold what their columns and variables can.
TypeOK ==
  /\ now \in ClockLag .. MaxTime + ClockLag
  /\ shopAt \in [Orders -> Nat]
  /\ sent \subseteq Orders \X Nat
  /\ row \in [Orders -> Nat]
  /\ lines \in [Orders -> Nat]
  /\ reread \in {NoRead} \cup Orders \X Nat
  /\ sync \in [watermark : Int, cursor : Int, since : Int]
  /\ run \in [Runs -> Run]

\* The history was imported and one reconciliation has ended well.
Init ==
  /\ now = ClockLag
  /\ shopAt = [o \in Orders |-> 0]
  /\ sent = {}
  /\ row = shopAt
  /\ lines = shopAt
  /\ reread = NoRead
  /\ sync = [watermark |-> ClockLag, cursor |-> NoCursor, since |-> 0]
  /\ run = [r \in Runs |-> NoRun]

-----------------------------------------------------------------------------
(* The shop *)

Tick ==
  /\ now < MaxTime + ClockLag
  /\ now' = now + 1
  /\ UNCHANGED <<shopAt, sent, row, lines, reread, sync, run>>

\* One order changes, or a bulk edit gives several the same instant.
Change(S) ==
  /\ S # {}
  /\ now < MaxTime + ClockLag
  /\ now' = now + 1
  /\ shopAt' = [o \in Orders |-> IF o \in S THEN now' - ClockLag ELSE shopAt[o]]
  /\ sent' = sent \cup {<<o, now' - ClockLag>> : o \in S}
  /\ UNCHANGED <<row, lines, reread, sync, run>>

-----------------------------------------------------------------------------
(* The writers of the mirror *)

\* The guard of both upserts, evaluated while the row is locked.
Accepts_Bug(o, v) == v > row[o]
Accepts_Bug2(o, v) == TRUE
Accepts(o, v) == v >= row[o]

\* The line items and refunds that a read of the order carries.  An order is
\* taken to have at most the 100 lines a read asks for; of a longer one the rest
\* is neither written nor pruned.
WriteLines(o, v) == lines' = [lines EXCEPT ![o] = v]

\* One order's transaction of upsertOrders: row and line items, or nothing.
Upsert(o, v) ==
  IF Accepts(o, v)
    THEN /\ row' = [row EXCEPT ![o] = v]
         /\ WriteLines(o, v)
    ELSE UNCHANGED <<row, lines>>

\* writeOrder: the payload has no line items to write.
ApplyOrder(o, v) ==
  /\ <<o, v>> \in sent
  /\ Accepts(o, v)
  /\ row' = [row EXCEPT ![o] = v]
  /\ UNCHANGED <<now, shopAt, sent, lines, reread, sync, run>>

\* The re-read that follows a webhook about the order, or about a refund of it.
Hydrate(o) ==
  /\ reread = NoRead
  /\ \E p \in sent : p[1] = o
  /\ reread' = <<o, shopAt[o]>>
  /\ UNCHANGED <<now, shopAt, sent, row, lines, sync, run>>

HydrateWrite ==
  /\ reread # NoRead
  /\ Upsert(reread[1], reread[2])
  /\ reread' = NoRead
  /\ UNCHANGED <<now, shopAt, sent, sync, run>>

\* Three attempts fail, or the process stops: the line items are left to reconciliation.
HydrateGivesUp ==
  /\ reread # NoRead
  /\ reread' = NoRead
  /\ UNCHANGED <<now, shopAt, sent, row, lines, sync, run>>

-----------------------------------------------------------------------------
(* Reconciliation *)

Resuming_Bug == sync.cursor # NoCursor /\ now < sync.since
Resuming == sync.cursor # NoCursor /\ now - sync.since < MaxAge

Start(r) ==
  /\ run[r].pc \in {"idle", "down"}
  /\ run' = [run EXCEPT ![r] =
       [NoRun EXCEPT !.pc = "fetch", !.startedAt = now,
                     !.since = IF Resuming THEN sync.since ELSE sync.watermark - Overlap,
                     !.cursor = IF Resuming THEN sync.cursor ELSE NoCursor]]
  /\ UNCHANGED <<now, shopAt, sent, row, lines, reread, sync>>

\* How a run ends: it has come to the last page, or it has not.
Complete(x) == [NoRun EXCEPT !.pc = "complete", !.startedAt = x.startedAt]
CutOff(x) ==
  [NoRun EXCEPT !.pc = "cut off", !.last = x.last,
                !.since = IF x.last = NoCursor THEN 0 ELSE x.since]

Fetch(r) ==
  /\ run[r].pc = "fetch"
  /\ LET M == Matching(run[r].since, run[r].cursor) IN
     \E P \in SUBSET M :
       /\ IsPage(P, M)
       /\ run' = [run EXCEPT ![r] =
            IF P = {}
              THEN Complete(@)
              ELSE [@ EXCEPT !.pc = "write", !.pages = run[r].pages + 1, !.end = EndCursor(P),
                             !.todo = {<<o, shopAt[o]>> : o \in P}, !.more = P # M,
                             !.cursor = NoCursor]]
  /\ UNCHANGED <<now, shopAt, sent, row, lines, reread, sync>>

FetchFails(r) ==
  /\ run[r].pc = "fetch"
  /\ run' = [run EXCEPT ![r] = CutOff(@)]
  /\ UNCHANGED <<now, shopAt, sent, row, lines, reread, sync>>

\* The run once every order of its page is written: the checkpoint moves only now.
PageDone_Bug(x) ==
  LET y == [x EXCEPT !.pc = "fetch", !.todo = {}, !.end = NoCursor, !.more = FALSE,
                     !.last = x.end, !.cursor = x.end] IN
  IF ~x.more THEN Complete(y) ELSE y
PageDone(x) ==
  LET y == [x EXCEPT !.pc = "fetch", !.todo = {}, !.end = NoCursor, !.more = FALSE,
                     !.last = x.end, !.cursor = x.end] IN
  IF ~x.more THEN Complete(y) ELSE IF x.pages < MaxPages THEN y ELSE CutOff(y)

\* upsertOrders, one order and one transaction at a time.
WriteOrder(r) ==
  /\ run[r].pc = "write"
  /\ LET p == First(run[r].todo)
         left == run[r].todo \ {p} IN
       /\ Upsert(p[1], p[2])
       /\ run' = [run EXCEPT ![r] =
            IF left = {} THEN PageDone(@) ELSE [@ EXCEPT !.todo = left]]
  /\ UNCHANGED <<now, shopAt, sent, reread, sync>>

WriteFails(r) ==
  /\ run[r].pc = "write"
  /\ run' = [run EXCEPT ![r] = CutOff(@)]
  /\ UNCHANGED <<now, shopAt, sent, row, lines, reread, sync>>

\* Only a complete run moves the watermark, and to the instant it began; only
\* one that was cut off leaves a cursor.
MarkSync(r) ==
  /\ run[r].pc \in {"complete", "cut off"}
  /\ sync' = [watermark |-> IF run[r].pc = "complete" THEN run[r].startedAt ELSE sync.watermark,
              cursor |-> run[r].last,
              since |-> run[r].since]
  /\ run' = [run EXCEPT ![r] = NoRun]
  /\ UNCHANGED <<now, shopAt, sent, row, lines, reread>>

\* The process stops, or markSync itself fails: nothing of the run is kept.
Crash(r) ==
  /\ run[r].pc \notin {"idle", "down"}
  /\ run' = [run EXCEPT ![r] = [NoRun EXCEPT !.pc = "down"]]
  /\ UNCHANGED <<now, shopAt, sent, row, lines, reread, sync>>

-----------------------------------------------------------------------------
Step(r) == Fetch(r) \/ WriteOrder(r) \/ MarkSync(r)

Fails(r) == FetchFails(r) \/ WriteFails(r) \/ Crash(r)

Next ==
  \/ Tick
  \/ \E S \in SUBSET Orders : Change(S)
  \/ \E p \in sent : ApplyOrder(p[1], p[2])
  \/ \E o \in Orders : Hydrate(o)
  \/ HydrateWrite \/ HydrateGivesUp
  \/ \E r \in Runs : Start(r) \/ Step(r) \/ Fails(r)

Spec == Init /\ [][Next]_vars

FairSpec ==
  /\ Spec
  /\ WF_vars(Start(Scheduled))
  /\ WF_vars(Step(Scheduled))

-----------------------------------------------------------------------------
(* Properties *)

\* Where the next run looks: at or after the bound it asks for, and past the
\* cursor if it takes that up.  A run may find the cursor too old at any time.
NextRunSees(o) ==
  /\ shopAt[o] >= sync.watermark - Overlap
  /\ sync.cursor # NoCursor => shopAt[o] >= sync.since /\ After(o, sync.cursor)

\* An order of which the mirror does not show the last version, with its line
\* items, is one the next run of reconcile() will be given: whatever webhooks
\* were lost or late, whichever re-read failed, however runs overlapped, failed
\* half-way or were cut off (reconcile-pages.ts, markSync, the upserts' guard).
NothingSlipsBy == \A o \in Orders : lines[o] < shopAt[o] => NextRunSees(o)

\* The mirror never goes back, is never ahead of the shop, and the watermark
\* never passes an order that is not in it.
Promise == INSTANCE MirrorPromise WITH horizon <- sync.watermark - Overlap
KeepsPromise == Promise!Spec

\* When the shop falls quiet and runs stop failing, the mirror comes to show
\* every order whole, however many runs that takes, and whatever was lost
\* before (reconcile: "this makes it correct").
CatchesUp ==
  <>[][\A r \in Runs : ~Fails(r)]_vars => <>[](lines = shopAt)
=============================================================================
