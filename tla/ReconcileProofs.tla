--------------------------- MODULE ReconcileProofs ---------------------------
(***************************************************************************)
(* Proofs about Reconcile: for any number of orders and of runs, any size   *)
(* of a page and of a run's budget, and any overlap that covers the lag of  *)
(* the shop's clock.                                                        *)
(***************************************************************************)
EXTENDS Reconcile, FiniteSetTheorems, WellFoundedInduction, TLAPS

-----------------------------------------------------------------------------
(* The order of the shop's list.                                           *)

\* A set of natural numbers has a least one.
LEMMA Least ==
  ASSUME NEW T \in SUBSET Nat, T # {}
  PROVE  \E x \in T : \A y \in T : x <= y
<1>1. PICK x \in T : \A y \in T : ~ (<<y, x>> \in OpToRel(<, Nat))
  BY NatLessThanWellFounded, WFMin
<1>2. ASSUME NEW y \in T  PROVE x <= y
  <2>1. ~ (y < x)  BY <1>1 DEF OpToRel
  <2> QED  BY <2>1
<1> QED  BY <1>2

\* And one that is bounded has a greatest.
LEMMA Greatest ==
  ASSUME NEW T \in SUBSET Nat, T # {}, NEW B \in Nat, \A x \in T : x <= B
  PROVE  \E x \in T : \A y \in T : y <= x
<1> DEFINE U == {B - x : x \in T}
<1>0. \A x \in T : B - x \in Nat  OBVIOUS
<1>1. U \in SUBSET Nat /\ U # {}  BY <1>0
<1> HIDE DEF U
<1>2. PICK u \in U : \A v \in U : u <= v  BY <1>1, Least
<1> USE DEF U
<1>3. PICK x \in T : u = B - x  BY <1>2
<1>4. ASSUME NEW y \in T  PROVE y <= x
  <2>1. B - y \in U  OBVIOUS
  <2>2. B - x <= B - y  BY <1>2, <1>3, <2>1
  <2> QED  BY <2>2
<1> QED  BY <1>4

\* Positions are natural numbers.
LEMMA PositionType ==
  ASSUME NEW o \in Orders, NEW v \in Nat
  PROVE  Position(o, v) \in Nat
<1>1. N + 1 \in Nat /\ o \in Nat  BY ReconcileAssumption DEF Orders
<1>2. v * (N + 1) \in Nat  BY <1>1
<1> QED  BY <1>1, <1>2 DEF Position

\* What changed later comes later in the list, whatever its id.
LEMMA LaterIsAfter ==
  ASSUME NEW o \in Orders, NEW p \in Orders, NEW v \in Nat, NEW w \in Nat, v < w
  PROVE  Position(o, v) < Position(p, w)
<1> DEFINE M == N + 1
           d == w - v - 1
<1>1. N \in Nat /\ M \in Nat /\ o \in Nat /\ p \in Nat /\ o <= N /\ 1 <= p /\ d \in Nat
  BY ReconcileAssumption DEF Orders
<1>2. d * M \in Nat  BY <1>1
<1>3. w = v + 1 + d  OBVIOUS
<1>4. w * M = v * M + M + d * M  BY <1>1, <1>3
<1>5. v * M \in Nat  BY <1>1
<1>6. Position(o, v) = v * M + o /\ Position(p, w) = w * M + p  BY DEF Position
<1> HIDE DEF d
<1>7. o < M  BY <1>1
<1> HIDE DEF M
<1> QED  BY <1>1, <1>2, <1>4, <1>5, <1>6, <1>7

\* The first of a page is one of the page.
LEMMA FirstIsThere ==
  ASSUME NEW S \in SUBSET (Orders \X Nat), S # {}
  PROVE  First(S) \in S
<1> DEFINE T == {Position(p[1], p[2]) : p \in S}
<1>1. T \in SUBSET Nat /\ T # {}  BY PositionType
<1> HIDE DEF T
<1>2. PICK x \in T : \A y \in T : x <= y  BY <1>1, Least
<1>3. PICK p \in S : x = Position(p[1], p[2])  BY <1>2 DEF T
<1>4. \A q \in S : Position(p[1], p[2]) <= Position(q[1], q[2])  BY <1>2, <1>3 DEF T
<1> QED  BY <1>4 DEF First

\* The cursor a page ends at is the position of one of its orders.
LEMMA EndIsThere ==
  ASSUME NEW P \in SUBSET Orders, P # {}, shopAt \in [Orders -> Nat],
         NEW B \in Nat, \A o \in P : shopAt[o] <= B
  PROVE  \E o \in P : EndCursor(P) = Position(o, shopAt[o])
<1> DEFINE T == {Position(o, shopAt[o]) : o \in P}
<1>1. T \in SUBSET Nat /\ T # {}  BY PositionType
<1>2. PICK o \in P : TRUE  OBVIOUS
<1>3. Position(o, B + 1) \in Nat  BY PositionType
<1>4. \A p \in P : Position(p, shopAt[p]) <= Position(o, B + 1)
  <2> SUFFICES ASSUME NEW p \in P  PROVE Position(p, shopAt[p]) <= Position(o, B + 1)
    OBVIOUS
  <2>1. shopAt[p] \in Nat /\ shopAt[p] < B + 1 /\ B + 1 \in Nat  OBVIOUS
  <2>2. Position(p, shopAt[p]) < Position(o, B + 1)  BY <2>1, LaterIsAfter
  <2> QED  BY <1>3, <2>1, <2>2, PositionType
<1>5. \A x \in T : x <= Position(o, B + 1)  BY <1>4
<1> HIDE DEF T
<1>6. PICK x \in T : \A y \in T : y <= x  BY <1>1, <1>3, <1>5, Greatest
<1>7. \E c \in T : \A p \in P : Position(p, shopAt[p]) <= c  BY <1>6 DEF T
<1>8. EndCursor(P) \in T  BY <1>7 DEF EndCursor, T
<1> QED  BY <1>8 DEF T

\* A page is empty only when nothing matches.
LEMMA EmptyPage ==
  ASSUME NEW M \in SUBSET Orders, IsPage({}, M)
  PROVE  M = {}
<1>1. IsFiniteSet(Orders)  BY ReconcileAssumption, FS_Interval DEF Orders
<1>2. IsFiniteSet(M)  BY <1>1, FS_Subset
<1>3. Cardinality(M) \in Nat  BY <1>2, FS_CardinalityType
<1>4. Cardinality({}) = 0  BY FS_EmptySet
<1>5. Cardinality(M) = 0  BY <1>3, <1>4, ReconcileAssumption DEF IsPage
<1> QED  BY <1>2, <1>5, FS_EmptySet

-----------------------------------------------------------------------------
(* The inductive invariant.                                                *)

Stale(o) == lines[o] < shopAt[o]

\* A place in the list as it is, or was.
Place(c) == \E o \in Orders, v \in Nat : v <= ShopClock /\ c = Position(o, v)

\* Every order that is not shown whole is found from here on.
Covers(since, cursor) ==
  \A o \in Orders : Stale(o) => shopAt[o] >= since /\ After(o, cursor)

\* The mirror shows what the shop had, and no writer has anything newer.
Mirrored ==
  /\ \A o \in Orders : lines[o] <= row[o] /\ row[o] <= shopAt[o] /\ shopAt[o] <= ShopClock
  /\ \A p \in sent : p[2] <= shopAt[p[1]]
  /\ reread # NoRead => reread[2] <= shopAt[reread[1]]

SyncFits ==
  /\ sync.watermark <= now
  /\ Covers(sync.watermark - Overlap, NoCursor)
  /\ sync.cursor # NoCursor =>
       Place(sync.cursor) /\ sync.since <= ShopClock /\ Covers(sync.since, sync.cursor)

\* An order that changed after the run began is the next run's.
ChangedSince(o, start) == shopAt[o] > start - ClockLag

\* What a run that is under way has not written it is going to find, or the
\* next one is.
Fits(x) ==
  /\ x.startedAt <= now /\ x.since <= ShopClock
  /\ x.pc = "fetch" =>
       /\ x.pages < MaxPages
       /\ Covers(x.since, x.cursor)
       /\ x.cursor # NoCursor => Place(x.cursor)
       /\ x.last \in {NoCursor, x.cursor}
  /\ x.pc = "write" =>
       /\ x.todo # {}
       /\ \A p \in x.todo : p[2] <= shopAt[p[1]]
       /\ Place(x.end)
       /\ \A o \in Orders : Stale(o) =>
            \/ <<o, shopAt[o]>> \in x.todo
            \/ /\ shopAt[o] >= x.since /\ After(o, x.end)
               /\ x.more \/ ChangedSince(o, x.startedAt)
       /\ x.last # NoCursor => Place(x.last) /\ Covers(x.since, x.last)
  /\ x.pc = "complete" =>
       /\ x.last = NoCursor
       /\ \A o \in Orders : Stale(o) => ChangedSince(o, x.startedAt)
  /\ x.pc = "cut off" /\ x.last # NoCursor =>
       Place(x.last) /\ Covers(x.since, x.last)

RunFits(r) == Fits(run[r])

IInv == TypeOK /\ Mirrored /\ SyncFits /\ \A r \in Runs : RunFits(r)

-----------------------------------------------------------------------------
(* What every step has in common: time does not go back, what changes in    *)
(* the shop changes now, and what the mirror shows it goes on showing.      *)

Onward ==
  /\ now' = now \/ now' = now + 1
  /\ \A o \in Orders :
       /\ shopAt'[o] = shopAt[o] \/ (shopAt'[o] = now' - ClockLag /\ now' = now + 1)
       /\ lines'[o] < shopAt'[o] => Stale(o) \/ shopAt'[o] # shopAt[o]

\* The clocks.
LEMMA Clocks ==
  ASSUME TypeOK
  PROVE  /\ now \in Nat /\ ClockLag \in Nat /\ Overlap \in Nat /\ ClockLag <= Overlap
         /\ ShopClock \in Nat /\ ShopClock = now - ClockLag
  BY ReconcileAssumption DEF TypeOK, ShopClock

\* A place stays a place.
LEMMA PlaceKept ==
  ASSUME TypeOK, Onward, NEW c, Place(c)
  PROVE  \E o \in Orders, v \in Nat : v <= now' - ClockLag /\ c = Position(o, v)
<1>1. PICK o \in Orders, v \in Nat : v <= ShopClock /\ c = Position(o, v)  BY DEF Place
<1>2. v <= now' - ClockLag  BY <1>1, Clocks DEF Onward
<1> QED  BY <1>1, <1>2

\* What changes now comes after every place.
LEMMA ChangeIsAfter ==
  ASSUME TypeOK, NEW c, Place(c), NEW o \in Orders, NEW w \in Nat, w = ShopClock + 1
  PROVE  Position(o, w) > c
<1>1. PICK p \in Orders, v \in Nat : v <= ShopClock /\ c = Position(p, v)  BY DEF Place
<1>2. v < w  BY <1>1, Clocks
<1>3. Position(p, v) < Position(o, w)  BY <1>2, LaterIsAfter
<1> QED  BY <1>1, <1>3, PositionType

\* What is covered stays covered.
LEMMA CoversKept ==
  ASSUME TypeOK, TypeOK', Onward, NEW since \in Int, NEW cursor, since <= ShopClock,
         cursor # NoCursor => Place(cursor), Covers(since, cursor)
  PROVE  \A o \in Orders : lines'[o] < shopAt'[o] =>
           /\ shopAt'[o] >= since
           /\ cursor # NoCursor => Position(o, shopAt'[o]) > cursor
<1> SUFFICES ASSUME NEW o \in Orders, lines'[o] < shopAt'[o]
             PROVE  /\ shopAt'[o] >= since
                    /\ cursor # NoCursor => Position(o, shopAt'[o]) > cursor
  OBVIOUS
<1>1. CASE shopAt'[o] = shopAt[o]
  <2>1. Stale(o)  BY <1>1 DEF Onward
  <2> QED  BY <1>1, <2>1 DEF Covers, After
<1>2. CASE shopAt'[o] # shopAt[o]
  <2>1. shopAt'[o] = ShopClock + 1  BY <1>2, Clocks DEF Onward
  <2>2. shopAt'[o] \in Nat  BY DEF TypeOK
  <2> QED  BY <2>1, <2>2, ChangeIsAfter, Clocks
<1> QED  BY <1>1, <1>2

\* The part of a run that is under way.
LEMMA RunKept ==
  ASSUME TypeOK, TypeOK', Mirrored, Onward, NEW r \in Runs, RunFits(r), run'[r] = run[r]
  PROVE  RunFits(r)'
<1>0. /\ run[r] \in Run
      /\ run[r].since \in Int /\ run[r].startedAt \in Int /\ run[r].todo \subseteq Orders \X Nat
  BY DEF TypeOK, Run
<1>1. run[r].startedAt <= now' /\ run[r].since <= now' - ClockLag
  <2>1. run[r].startedAt <= now /\ run[r].since <= ShopClock  BY DEF RunFits, Fits
  <2> QED  BY <1>0, <2>1, Clocks DEF Onward
<1>2. \A o \in Orders : shopAt'[o] \in Nat /\ shopAt[o] \in Nat
  BY DEF TypeOK
<1>3. \A o \in Orders : shopAt'[o] = shopAt[o]
         \/ (shopAt'[o] = ShopClock + 1 /\ shopAt'[o] > shopAt[o])
         \/ (shopAt'[o] = ShopClock + 1 /\ shopAt[o] > ShopClock)
  BY <1>2, Clocks DEF Onward
<1>4. CASE run[r].pc = "fetch"
  <2>1. /\ run[r].pages < MaxPages
        /\ Covers(run[r].since, run[r].cursor) /\ run[r].since <= ShopClock
        /\ run[r].cursor # NoCursor => Place(run[r].cursor)
        /\ run[r].last \in {NoCursor, run[r].cursor}
    BY <1>4 DEF RunFits, Fits
  <2>2. \A o \in Orders : lines'[o] < shopAt'[o] =>
           /\ shopAt'[o] >= run[r].since
           /\ run[r].cursor # NoCursor => Position(o, shopAt'[o]) > run[r].cursor
    BY <1>0, <2>1, CoversKept
  <2>3. run[r].cursor # NoCursor =>
          \E o \in Orders, v \in Nat : v <= now' - ClockLag /\ run[r].cursor = Position(o, v)
    BY <2>1, PlaceKept
  <2> QED
    BY <1>1, <1>4, <2>1, <2>2, <2>3 DEF RunFits, Fits, Covers, Stale, After, Place, ShopClock
<1>5. CASE run[r].pc = "complete"
  <2>1. /\ run[r].last = NoCursor /\ run[r].startedAt <= now
        /\ \A o \in Orders : Stale(o) => ChangedSince(o, run[r].startedAt)
    BY <1>5 DEF RunFits, Fits
  <2>2. ASSUME NEW o \in Orders, lines'[o] < shopAt'[o]
        PROVE  shopAt'[o] > run[r].startedAt - ClockLag
    <3>1. CASE shopAt'[o] = shopAt[o]
      <4>1. Stale(o)  BY <2>2, <3>1 DEF Onward
      <4> QED  BY <2>1, <3>1, <4>1 DEF ChangedSince
    <3>2. CASE shopAt'[o] # shopAt[o]
      BY <1>0, <1>3, <2>1, <3>2, Clocks
    <3> QED  BY <3>1, <3>2
  <2> QED  BY <1>1, <1>5, <2>1, <2>2 DEF RunFits, Fits, Stale, ChangedSince, ShopClock
<1>6. CASE run[r].pc = "cut off"
  <2>1. run[r].last # NoCursor => Place(run[r].last) /\ Covers(run[r].since, run[r].last)
    BY <1>6 DEF RunFits, Fits
  <2>2. run[r].last # NoCursor => \A o \in Orders : lines'[o] < shopAt'[o] =>
           /\ shopAt'[o] >= run[r].since
           /\ run[r].last # NoCursor => Position(o, shopAt'[o]) > run[r].last
    BY <1>0, <2>1, CoversKept DEF RunFits, Fits
  <2>3. run[r].last # NoCursor =>
          \E o \in Orders, v \in Nat : v <= now' - ClockLag /\ run[r].last = Position(o, v)
    BY <2>1, PlaceKept
  <2> QED
    BY <1>1, <1>6, <2>2, <2>3 DEF RunFits, Fits, Covers, Stale, After, Place, ShopClock
<1>7. CASE run[r].pc = "write"
  <2>1. /\ run[r].todo # {}
        /\ \A p \in run[r].todo : p[2] <= shopAt[p[1]]
        /\ Place(run[r].end)
        /\ \A o \in Orders : Stale(o) =>
            \/ <<o, shopAt[o]>> \in run[r].todo
            \/ /\ shopAt[o] >= run[r].since /\ After(o, run[r].end)
               /\ run[r].more \/ ChangedSince(o, run[r].startedAt)
        /\ run[r].last # NoCursor => Place(run[r].last) /\ Covers(run[r].since, run[r].last)
        /\ run[r].startedAt <= now /\ run[r].since <= ShopClock
    BY <1>7 DEF RunFits, Fits
  <2>2. run[r].last # NoCursor => \A o \in Orders : lines'[o] < shopAt'[o] =>
           /\ shopAt'[o] >= run[r].since
           /\ run[r].last # NoCursor => Position(o, shopAt'[o]) > run[r].last
    BY <1>0, <2>1, CoversKept
  <2>3. run[r].last # NoCursor =>
          \E o \in Orders, v \in Nat : v <= now' - ClockLag /\ run[r].last = Position(o, v)
    BY <2>1, PlaceKept
  <2>4. \E o \in Orders, v \in Nat : v <= now' - ClockLag /\ run[r].end = Position(o, v)
    BY <2>1, PlaceKept
  <2>5. ASSUME NEW o \in Orders, lines'[o] < shopAt'[o]
        PROVE  \/ <<o, shopAt'[o]>> \in run[r].todo
               \/ /\ shopAt'[o] >= run[r].since
                  /\ run[r].end # NoCursor => Position(o, shopAt'[o]) > run[r].end
                  /\ run[r].more \/ shopAt'[o] > run[r].startedAt - ClockLag
    <3>1. CASE shopAt'[o] = shopAt[o]
      <4>1. Stale(o)  BY <2>5, <3>1 DEF Onward
      <4> QED  BY <2>1, <3>1, <4>1 DEF ChangedSince, After
    <3>2. CASE shopAt'[o] # shopAt[o]
      <4>1. shopAt'[o] = ShopClock + 1  BY <1>3, <3>2
      <4>2. Position(o, shopAt'[o]) > run[r].end  BY <1>2, <2>1, <4>1, ChangeIsAfter
      <4> QED  BY <1>0, <2>1, <4>1, <4>2, Clocks
    <3> QED  BY <3>1, <3>2
  <2>6. ASSUME NEW p \in run[r].todo  PROVE p[2] <= shopAt'[p[1]]
    <3>1. p[1] \in Orders /\ p[2] \in Nat  BY <1>0
    <3>2. p[2] <= shopAt[p[1]]  BY <2>1
    <3>3. shopAt[p[1]] <= ShopClock  BY <3>1 DEF Mirrored
    <3> QED  BY <1>2, <1>3, <3>1, <3>2, <3>3, Clocks
  <2> QED
    BY <1>1, <1>7, <2>1, <2>2, <2>3, <2>4, <2>5, <2>6
    DEF RunFits, Fits, Covers, Stale, After, Place, ShopClock, ChangedSince
<1>8. CASE run[r].pc \in {"idle", "down"}
  BY <1>1, <1>8 DEF RunFits, Fits, ShopClock
<1> QED  BY <1>0, <1>4, <1>5, <1>6, <1>7, <1>8 DEF Run

-----------------------------------------------------------------------------
(* The records a run goes through.                                         *)

\* A record with the fields of a run, each of its type, is one.
LEMMA RunIs ==
  ASSUME NEW a \in {"idle", "down", "fetch", "write", "complete", "cut off"},
         NEW b \in Int, NEW c \in Int, NEW d \in Int, NEW e \in 0 .. MaxPages,
         NEW f \in SUBSET (Orders \X Nat), NEW g \in Int, NEW h \in BOOLEAN, NEW i \in Int
  PROVE  [pc |-> a, since |-> b, cursor |-> c, startedAt |-> d, pages |-> e,
          todo |-> f, end |-> g, more |-> h, last |-> i] \in Run
  BY DEF Run

\* A record is made of its fields.
LEMMA RunFields ==
  ASSUME NEW w, w = [s \in DOMAIN w |-> w[s]],
         DOMAIN w = {"pc", "since", "cursor", "startedAt", "pages", "todo", "end", "more", "last"}
  PROVE  w = [pc |-> w.pc, since |-> w.since, cursor |-> w.cursor, startedAt |-> w.startedAt,
              pages |-> w.pages, todo |-> w.todo, end |-> w.end, more |-> w.more, last |-> w.last]
  OBVIOUS

Started(at, since, cursor) ==
  [NoRun EXCEPT !.pc = "fetch", !.startedAt = at, !.since = since, !.cursor = cursor]

Fetched(z, n, e, T, m) ==
  [z EXCEPT !.pc = "write", !.pages = n, !.end = e, !.todo = T, !.more = m, !.cursor = NoCursor]

\* A run that has begun.
LEMMA StartedType ==
  ASSUME NEW since \in Int, NEW cursor \in Int, NEW at \in Int,
         NEW x, x = Started(at, since, cursor)
  PROVE  /\ x \in Run /\ x.pc = "fetch" /\ x.startedAt = at /\ x.since = since
         /\ x.cursor = cursor /\ x.last = NoCursor /\ x.pages = 0
<1> DEFINE y == [pc |-> "fetch", since |-> since, cursor |-> cursor, startedAt |-> at, pages |-> 0,
                 todo |-> {}, end |-> NoCursor, more |-> FALSE, last |-> NoCursor]
<1>1. x = y  BY DEF NoRun, Started
<1>2. y \in Run  BY ReconcileAssumption DEF Run, NoCursor
<1>3. /\ y.pc = "fetch" /\ y.startedAt = at /\ y.since = since /\ y.cursor = cursor
      /\ y.last = NoCursor /\ y.pages = 0
  OBVIOUS
<1> HIDE DEF y
<1> QED  BY <1>1, <1>2, <1>3

\* No run.
LEMMA NoRunType ==
  /\ NoRun \in Run /\ NoRun.pc = "idle" /\ NoRun.startedAt = 0 /\ NoRun.since = 0
<1>1. NoRun \in Run  BY ReconcileAssumption DEF Run, NoCursor, NoRun
<1> QED  BY <1>1 DEF NoRun

\* A run whose process has stopped.
LEMMA DownType ==
  ASSUME NEW x, x = [NoRun EXCEPT !.pc = "down"]
  PROVE  x \in Run /\ x.pc = "down" /\ x.startedAt = 0 /\ x.since = 0
<1> DEFINE y == [pc |-> "down", since |-> 0, cursor |-> NoCursor, startedAt |-> 0, pages |-> 0,
                 todo |-> {}, end |-> NoCursor, more |-> FALSE, last |-> NoCursor]
<1>1. x = y  BY DEF NoRun
<1>2. y \in Run  BY ReconcileAssumption DEF Run, NoCursor
<1>3. y.pc = "down" /\ y.startedAt = 0 /\ y.since = 0  OBVIOUS
<1> HIDE DEF y
<1> QED  BY <1>1, <1>2, <1>3

\* A run that has come to the last page.
LEMMA CompleteType ==
  ASSUME NEW z, NEW x, x = Complete(z), z.startedAt \in Int
  PROVE  x \in Run /\ x.pc = "complete" /\ x.startedAt = z.startedAt /\ x.since = 0
         /\ x.last = NoCursor
<1> DEFINE at == z.startedAt
           y == [pc |-> "complete", since |-> 0, cursor |-> NoCursor, startedAt |-> at, pages |-> 0,
                 todo |-> {}, end |-> NoCursor, more |-> FALSE, last |-> NoCursor]
<1>1. x = y  BY DEF NoRun, Complete
<1>0. at \in Int  OBVIOUS
<1>4. at = z.startedAt  OBVIOUS
<1> HIDE DEF at
<1>2. y \in Run  BY <1>0, ReconcileAssumption DEF Run, NoCursor
<1>3. y.pc = "complete" /\ y.startedAt = at /\ y.since = 0 /\ y.last = NoCursor  OBVIOUS
<1> HIDE DEF y
<1> QED  BY <1>1, <1>2, <1>3, <1>4

\* A run that was cut off.
LEMMA CutOffType ==
  ASSUME NEW z, NEW x, x = CutOff(z), z.last \in Int, z.since \in Int
  PROVE  x \in Run /\ x.pc = "cut off" /\ x.startedAt = 0 /\ x.last = z.last
         /\ x.since = IF z.last = NoCursor THEN 0 ELSE z.since
<1> DEFINE last == z.last
           since == IF z.last = NoCursor THEN 0 ELSE z.since
           y == [pc |-> "cut off", since |-> since, cursor |-> NoCursor, startedAt |-> 0, pages |-> 0,
                 todo |-> {}, end |-> NoCursor, more |-> FALSE, last |-> last]
<1>1. x = y  BY DEF NoRun, CutOff
<1>0. last \in Int /\ since \in Int  OBVIOUS
<1>4. last = z.last /\ since = IF z.last = NoCursor THEN 0 ELSE z.since  OBVIOUS
<1> HIDE DEF last, since
<1>2. y \in Run  BY <1>0, ReconcileAssumption DEF Run, NoCursor
<1>3. y.pc = "cut off" /\ y.startedAt = 0 /\ y.since = since /\ y.last = last  OBVIOUS
<1> HIDE DEF y
<1> QED  BY <1>1, <1>2, <1>3, <1>4

\* A run that has fetched a page.
LEMMA FetchedType ==
  ASSUME NEW z \in Run, z.pages < MaxPages, NEW e \in Int, NEW m \in BOOLEAN,
         NEW T \in SUBSET (Orders \X Nat), NEW n \in Int, n = z.pages + 1
  PROVE  /\ Fetched(z, n, e, T, m) \in Run
         /\ Fetched(z, n, e, T, m).pc = "write" /\ Fetched(z, n, e, T, m).end = e
         /\ Fetched(z, n, e, T, m).todo = T /\ Fetched(z, n, e, T, m).more = m
         /\ Fetched(z, n, e, T, m).since = z.since
         /\ Fetched(z, n, e, T, m).startedAt = z.startedAt
         /\ Fetched(z, n, e, T, m).last = z.last
<1> DEFINE x == Fetched(z, n, e, T, m)
           y == [pc |-> "write", since |-> z.since, cursor |-> NoCursor, startedAt |-> z.startedAt,
                 pages |-> n, todo |-> T, end |-> e, more |-> m, last |-> z.last]
<1>10. x = Fetched(z, n, e, T, m)  OBVIOUS
<1> HIDE DEF x
<1>4. x.pc = "write" /\ x.pages = n /\ x.end = e /\ x.todo = T  BY <1>10 DEF Run, Fetched
<1>5. x.more = m /\ x.cursor = NoCursor  BY <1>10 DEF Run, Fetched
<1>6. x.since = z.since /\ x.startedAt = z.startedAt /\ x.last = z.last  BY <1>10 DEF Run, Fetched
<1>7. DOMAIN x = {"pc", "since", "cursor", "startedAt", "pages", "todo", "end", "more", "last"}
  <2>1. DOMAIN x = DOMAIN z  BY <1>10 DEF Fetched
  <2> QED  BY <2>1 DEF Run
<1>8. x = [s \in DOMAIN x |-> x[s]]  BY <1>10 DEF Fetched
<1>9. x = [pc |-> x.pc, since |-> x.since, cursor |-> x.cursor, startedAt |-> x.startedAt,
           pages |-> x.pages, todo |-> x.todo, end |-> x.end, more |-> x.more, last |-> x.last]
  BY <1>7, <1>8, RunFields
<1>1. x = y
  <2> DEFINE zs == z.since
             zt == z.startedAt
             zl == z.last
             u == [pc |-> "write", since |-> zs, cursor |-> NoCursor, startedAt |-> zt,
                   pages |-> n, todo |-> T, end |-> e, more |-> m, last |-> zl]
  <2>1. x.since = zs /\ x.startedAt = zt /\ x.last = zl  BY <1>6
  <2>2. u = y  OBVIOUS
  <2> HIDE DEF zs, zt, zl, y
  <2>3. x = u  BY ONLY <1>4, <1>5, <1>9, <2>1 DEF u
  <2> QED  BY <2>2, <2>3
<1>0. z.since \in Int /\ z.startedAt \in Int /\ z.last \in Int /\ n \in 0 .. MaxPages
  <2>1. z.since \in Int /\ z.startedAt \in Int /\ z.last \in Int /\ z.pages \in 0 .. MaxPages
    BY DEF Run
  <2> DEFINE k == z.pages
  <2>2. k \in 0 .. MaxPages /\ k < MaxPages /\ n = k + 1  BY <2>1
  <2> HIDE DEF k
  <2>3. n \in 0 .. MaxPages  BY ONLY <2>2, ReconcileAssumption DEF ReconcileAssumption
  <2> QED  BY <2>1, <2>3
<1>2. y \in Run  
  <2>1. NoCursor \in Int /\ "write" \in {"idle", "down", "fetch", "write", "complete", "cut off"}
    BY DEF NoCursor
  <2> QED  BY <1>0, <2>1, RunIs
<1>3. /\ y.pc = "write" /\ y.end = e /\ y.todo = T /\ y.more = m /\ y.since = z.since
      /\ y.startedAt = z.startedAt /\ y.last = z.last
  OBVIOUS
<1> HIDE DEF y
<1> QED  BY <1>1, <1>2, <1>3, <1>10

LessToDo(z, T) == [z EXCEPT !.todo = T]

\* A run with one order less to write.
LEMMA LessToDoType ==
  ASSUME NEW z \in Run, NEW T \in SUBSET (Orders \X Nat)
  PROVE  /\ LessToDo(z, T) \in Run /\ LessToDo(z, T).todo = T /\ LessToDo(z, T).pc = z.pc
         /\ LessToDo(z, T).end = z.end /\ LessToDo(z, T).more = z.more
         /\ LessToDo(z, T).since = z.since /\ LessToDo(z, T).startedAt = z.startedAt
         /\ LessToDo(z, T).last = z.last
  BY DEF Run, LessToDo

\* A run that has written a page.
LEMMA PageDoneType ==
  ASSUME NEW z \in Run, NEW x, x = PageDone(z)
  PROVE  /\ x \in Run
         /\ \/ /\ ~z.more /\ x.pc = "complete" /\ x.startedAt = z.startedAt /\ x.since = 0
               /\ x.last = NoCursor
            \/ /\ z.more /\ x.pc = "fetch" /\ x.startedAt = z.startedAt /\ x.since = z.since
               /\ x.last = z.end /\ x.cursor = z.end /\ x.pages < MaxPages
            \/ /\ z.more /\ x.pc = "cut off" /\ x.startedAt = 0 /\ x.last = z.end
               /\ x.since = IF z.end = NoCursor THEN 0 ELSE z.since
<1> DEFINE y == [pc |-> "fetch", since |-> z.since, cursor |-> z.end, startedAt |-> z.startedAt,
                 pages |-> z.pages, todo |-> {}, end |-> NoCursor, more |-> FALSE, last |-> z.end]
<1>1. ASSUME NEW w, w = [z EXCEPT !.pc = "fetch", !.todo = {}, !.end = NoCursor, !.more = FALSE,
                                  !.last = z.end, !.cursor = z.end]
      PROVE  w = y
  <2>1. w.pc = "fetch" /\ w.todo = {} /\ w.end = NoCursor /\ w.more = FALSE  BY <1>1 DEF Run
  <2>2. w.last = z.end /\ w.cursor = z.end  BY <1>1 DEF Run
  <2>3. w.since = z.since /\ w.startedAt = z.startedAt /\ w.pages = z.pages  BY <1>1 DEF Run
  <2>4. DOMAIN w = {"pc", "since", "cursor", "startedAt", "pages", "todo", "end", "more", "last"}
    <3>1. DOMAIN w = DOMAIN z  BY <1>1
    <3> QED  BY <3>1 DEF Run
  <2>5. w = [s \in DOMAIN w |-> w[s]]  BY <1>1
  <2> QED  BY <2>1, <2>2, <2>3, <2>4, <2>5
<1>0. /\ z.since \in Int /\ z.startedAt \in Int /\ z.end \in Int /\ z.pages \in 0 .. MaxPages
      /\ z.more \in BOOLEAN
  BY DEF Run
<1>2. y \in Run  
  <2>1. /\ NoCursor \in Int /\ "fetch" \in {"idle", "down", "fetch", "write", "complete", "cut off"}
        /\ {} \in SUBSET (Orders \X Nat) /\ FALSE \in BOOLEAN
    BY DEF NoCursor
  <2> QED  BY <1>0, <2>1, RunIs
<1>3. /\ y.pc = "fetch" /\ y.startedAt = z.startedAt /\ y.since = z.since
      /\ y.last = z.end /\ y.cursor = z.end /\ y.pages = z.pages
  OBVIOUS
<1> HIDE DEF y
<1>4. x = IF ~z.more THEN Complete(y) ELSE IF z.pages < MaxPages THEN y ELSE CutOff(y)
  BY <1>1 DEF PageDone
<1>5. CASE ~z.more  BY <1>0, <1>3, <1>4, <1>5, CompleteType
<1>6. CASE z.more /\ z.pages < MaxPages  BY <1>0, <1>2, <1>3, <1>4, <1>6
<1>7. CASE z.more /\ ~(z.pages < MaxPages)
  <2>1. x = CutOff(y)  BY <1>4, <1>7
  <2> QED  BY <1>0, <1>3, <1>7, <2>1, CutOffType, ZenonT(40)
<1> QED  BY <1>5, <1>6, <1>7

-----------------------------------------------------------------------------
(* What the steps do.                                                      *)

\* One order written from a read of it: the row and the line items together,
\* or neither when the mirror is already newer.
LEMMA Written ==
  ASSUME TypeOK, Mirrored, NEW o \in Orders, NEW v \in Nat, v <= shopAt[o], Upsert(o, v),
         UNCHANGED <<now, shopAt>>
  PROVE  /\ row' \in [Orders -> Nat] /\ lines' \in [Orders -> Nat]
         /\ \A q \in Orders : lines'[q] <= row'[q] /\ row'[q] <= shopAt'[q]
         /\ \A q \in Orders : lines'[q] < shopAt'[q] => Stale(q)
         /\ v = shopAt[o] => lines'[o] = shopAt'[o]
<1>1. /\ row \in [Orders -> Nat] /\ lines \in [Orders -> Nat] /\ shopAt \in [Orders -> Nat]
      /\ \A q \in Orders : lines[q] <= row[q] /\ row[q] <= shopAt[q]
  BY DEF TypeOK, Mirrored
<1>2. CASE Accepts(o, v)
  <2>1. row' = [row EXCEPT ![o] = v] /\ lines' = [lines EXCEPT ![o] = v] /\ v >= row[o]
    BY <1>2 DEF Upsert, WriteLines, Accepts
  <2>2. /\ row' \in [Orders -> Nat] /\ lines' \in [Orders -> Nat]
        /\ row'[o] = v /\ lines'[o] = v
        /\ \A q \in Orders : q # o => row'[q] = row[q] /\ lines'[q] = lines[q]
    BY <1>1, <2>1
  <2> QED  BY <1>1, <2>1, <2>2 DEF Stale
<1>3. CASE ~Accepts(o, v)
  <2>1. row' = row /\ lines' = lines /\ v < row[o]
    BY <1>1, <1>3 DEF Upsert, Accepts
  <2> QED  BY <1>1, <2>1 DEF Stale
<1> QED  BY <1>2, <1>3

\* A step of a run that writes nothing.
LEMMA RunMoves ==
  ASSUME TypeOK, Mirrored, NEW r \in Runs, NEW x \in Run, run' = [run EXCEPT ![r] = x],
         UNCHANGED <<now, shopAt, sent, row, lines, reread>>,
         sync' \in [watermark : Int, cursor : Int, since : Int]
  PROVE  TypeOK' /\ Mirrored' /\ Onward
<1>1. TypeOK'  BY DEF TypeOK
<1>2. Mirrored'
  <2>1. ShopClock' = ShopClock  BY DEF ShopClock
  <2> QED  BY <2>1 DEF Mirrored
<1>3. Onward  BY DEF Onward, Stale
<1> QED  BY <1>1, <1>2, <1>3

\* What holds of a run's new state holds of the run when nothing else moves.
LEMMA RunBecomes ==
  ASSUME NEW r \in Runs, NEW x, run'[r] = x, UNCHANGED <<now, shopAt, lines>>, Fits(x)
  PROVE  RunFits(r)'
<1>1. Fits(x)'
  BY DEF Fits, Place, Covers, Stale, After, ChangedSince, ShopClock
<1> QED  BY <1>1 DEF RunFits

\* The sync state that nobody touches.
LEMMA SyncKept ==
  ASSUME TypeOK, TypeOK', Onward, SyncFits, sync' = sync
  PROVE  SyncFits'
<1>1. sync.watermark \in Int /\ sync.since \in Int /\ sync.cursor \in Int  BY DEF TypeOK
<1>2. sync.watermark <= now'  BY <1>1, Clocks DEF SyncFits, Onward
<1>3. \A o \in Orders : lines'[o] < shopAt'[o] => shopAt'[o] >= sync.watermark - Overlap
  <2>1. sync.watermark - Overlap \in Int /\ sync.watermark - Overlap <= ShopClock
    BY <1>1, Clocks DEF SyncFits
  <2> QED  BY <2>1, CoversKept DEF SyncFits
<1>4. ASSUME sync.cursor # NoCursor
      PROVE  /\ \E o \in Orders, v \in Nat : v <= now' - ClockLag /\ sync.cursor = Position(o, v)
             /\ sync.since <= now' - ClockLag
             /\ \A o \in Orders : lines'[o] < shopAt'[o] =>
                  shopAt'[o] >= sync.since /\ Position(o, shopAt'[o]) > sync.cursor
  <2>1. Place(sync.cursor) /\ sync.since <= ShopClock /\ Covers(sync.since, sync.cursor)
    BY <1>4 DEF SyncFits
  <2>2. \A o \in Orders : lines'[o] < shopAt'[o] =>
           /\ shopAt'[o] >= sync.since
           /\ sync.cursor # NoCursor => Position(o, shopAt'[o]) > sync.cursor
    BY <1>1, <2>1, CoversKept
  <2>3. sync.since <= now' - ClockLag  BY <1>1, <2>1, Clocks DEF Onward
  <2> QED  BY <1>4, <2>1, <2>2, <2>3, PlaceKept
<1> QED  BY <1>2, <1>3, <1>4 DEF SyncFits, Covers, Stale, After, Place, ShopClock, NoCursor

-----------------------------------------------------------------------------
(* Where each step takes a run.                                            *)

\* A run begins where the last one left off, or at the watermark.
LEMMA StartFits ==
  ASSUME IInv, NEW r \in Runs, Start(r)
  PROVE  \E x \in Run : run' = [run EXCEPT ![r] = x] /\ Fits(x)
<1> DEFINE since == IF Resuming THEN sync.since ELSE sync.watermark - Overlap
           cursor == IF Resuming THEN sync.cursor ELSE NoCursor
           x == Started(now, since, cursor)
<1>1. /\ sync.watermark \in Int /\ sync.since \in Int /\ sync.cursor \in Int /\ now \in Int
      /\ NoCursor \in Int
  BY Clocks DEF IInv, TypeOK, NoCursor
<1>2. since \in Int /\ cursor \in Int  BY <1>1, Clocks DEF IInv
<1>3. /\ since <= ShopClock /\ Covers(since, cursor)
      /\ cursor # NoCursor => Place(cursor)
  <2>1. CASE Resuming
    <3>1. since = sync.since /\ cursor = sync.cursor /\ sync.cursor # NoCursor
      BY <2>1 DEF Resuming
    <3> HIDE DEF since, cursor
    <3> QED  BY <3>1 DEF IInv, SyncFits
  <2>2. CASE ~Resuming
    <3>1. since = sync.watermark - Overlap /\ cursor = NoCursor  BY <2>2
    <3>2. sync.watermark - Overlap <= ShopClock  BY <1>1, Clocks DEF IInv, SyncFits
    <3> HIDE DEF since, cursor
    <3> QED  BY <3>1, <3>2 DEF IInv, SyncFits
  <2> QED  BY <2>1, <2>2
<1>4. run' = [run EXCEPT ![r] = x]  BY DEF Start, Started
<1>5. now \in Int /\ x = Started(now, since, cursor)
  BY <1>1
<1> HIDE DEF x, since, cursor
<1>6. /\ x \in Run /\ x.pc = "fetch" /\ x.startedAt = now /\ x.since = since
      /\ x.cursor = cursor /\ x.last = NoCursor /\ x.pages = 0
  BY <1>2, <1>5, StartedType
<1>7. Fits(x)
  <2>1. x.startedAt <= now /\ x.since <= ShopClock  BY <1>1, <1>3, <1>6
  <2>2. x.pages < MaxPages  BY <1>6, ReconcileAssumption
  <2> QED  BY <1>3, <1>6, <2>1, <2>2 DEF Fits
<1> QED  BY <1>4, <1>6, <1>7

\* A run stops half-way: what it leaves is the last page it finished.
LEMMA CutOffFits ==
  ASSUME IInv, NEW r \in Runs, run[r].pc \in {"fetch", "write"}
  PROVE  CutOff(run[r]) \in Run /\ Fits(CutOff(run[r]))
<1> DEFINE x == CutOff(run[r])
<1>1. run[r] \in Run /\ run[r].last \in Int /\ run[r].since \in Int  BY DEF IInv, TypeOK, Run
<1>2. x = CutOff(run[r])  OBVIOUS
<1> HIDE DEF x
<1>3. /\ x \in Run /\ x.pc = "cut off" /\ x.startedAt = 0 /\ x.last = run[r].last
      /\ x.since = IF run[r].last = NoCursor THEN 0 ELSE run[r].since
  BY <1>1, <1>2, CutOffType
<1>4. x.startedAt <= now /\ x.since <= ShopClock
  <2>1. run[r].since <= ShopClock  BY DEF IInv, RunFits, Fits
  <2>2. now \in Nat /\ ShopClock \in Nat  BY Clocks DEF IInv
  <2>3. x.startedAt = 0 /\ x.since \in {0, run[r].since}  BY <1>3
  <2> QED  BY <2>1, <2>2, <2>3
<1>5. x.last # NoCursor => Place(x.last) /\ Covers(x.since, x.last)
  <2> SUFFICES ASSUME x.last # NoCursor
               PROVE Place(run[r].last) /\ Covers(run[r].since, run[r].last)
    BY <1>3
  <2>1. CASE run[r].pc = "fetch"
    <3>1. run[r].last = run[r].cursor  BY <1>3, <2>1 DEF IInv, RunFits, Fits
    <3> QED  BY <1>3, <2>1, <3>1 DEF IInv, RunFits, Fits
  <2>2. CASE run[r].pc = "write"
    BY <1>3, <2>2 DEF IInv, RunFits, Fits
  <2> QED  BY <2>1, <2>2
<1>6. Fits(x)  BY <1>3, <1>4, <1>5 DEF Fits
<1> QED  BY <1>2, <1>3, <1>6

\* A run whose process stops, or that is over.
LEMMA NothingFits ==
  ASSUME TypeOK
  PROVE  /\ NoRun \in Run /\ Fits(NoRun)
         /\ [NoRun EXCEPT !.pc = "down"] \in Run /\ Fits([NoRun EXCEPT !.pc = "down"])
<1>1. NoRun \in Run /\ Fits(NoRun)  BY NoRunType, Clocks DEF Fits
<1> DEFINE x == [NoRun EXCEPT !.pc = "down"]
<1>2. x = [NoRun EXCEPT !.pc = "down"]  OBVIOUS
<1> HIDE DEF x
<1>3. x \in Run /\ x.pc = "down" /\ x.startedAt = 0 /\ x.since = 0  BY <1>2, DownType
<1>4. Fits(x)  BY <1>3, Clocks DEF Fits
<1> QED  BY <1>1, <1>2, <1>3, <1>4

\* A page: what matches is in it or comes after its end.
LEMMA FetchFits ==
  ASSUME IInv, NEW r \in Runs, Fetch(r)
  PROVE  \E x \in Run : run' = [run EXCEPT ![r] = x] /\ Fits(x)
<1> DEFINE z == run[r]
           M == Matching(z.since, z.cursor)
<1>1. PICK P \in SUBSET M :
        /\ IsPage(P, M)
        /\ run' = [run EXCEPT ![r] =
            IF P = {}
              THEN Complete(z)
              ELSE Fetched(z, z.pages + 1, EndCursor(P), {<<o, shopAt[o]>> : o \in P}, P # M)]
  BY Zenon DEF Fetch, Fetched
<1>2. /\ z \in Run /\ z.pc = "fetch" /\ Fits(z)
      /\ z.since \in Int /\ z.startedAt \in Int /\ z.last \in Int /\ z.cursor \in Int
      /\ z.pages \in 0 .. MaxPages
  BY DEF IInv, TypeOK, Run, Fetch, RunFits
<1>3. M \subseteq Orders  BY DEF Matching
<1>4. \A o \in Orders : Stale(o) => o \in M
  BY <1>2 DEF Matching, Fits, Covers
<1>5. \A o \in Orders : shopAt[o] \in Nat /\ shopAt[o] <= ShopClock
  BY DEF IInv, TypeOK, Mirrored
<1> HIDE DEF M
<1>6. CASE P = {}
  <2> DEFINE x == Complete(z)
  <2>1. x = Complete(z)  OBVIOUS
  <2> HIDE DEF x
  <2>2. /\ x \in Run /\ x.pc = "complete" /\ x.startedAt = z.startedAt /\ x.since = 0
        /\ x.last = NoCursor
    BY <1>2, <2>1, CompleteType
  <2>3. M = {}  BY <1>1, <1>3, <1>6, EmptyPage
  <2>4. \A o \in Orders : ~Stale(o)  BY <1>4, <2>3
  <2>5. x.startedAt <= now /\ x.since <= ShopClock  BY <1>2, <2>2, Clocks DEF Fits, IInv
  <2>6. Fits(x)  BY <2>2, <2>4, <2>5 DEF Fits
  <2>7. run' = [run EXCEPT ![r] = x]  BY <1>1, <1>6, <2>1
  <2> QED  BY <2>2, <2>6, <2>7
<1>7. CASE P # {}
  <2> DEFINE e == EndCursor(P)
             T == {<<o, shopAt[o]>> : o \in P}
             m == (P # M)
             n == z.pages + 1
             x == Fetched(z, n, e, T, m)
  <2>1. PICK p \in P : e = Position(p, shopAt[p])
    BY <1>3, <1>5, <1>7, Clocks, EndIsThere DEF IInv, TypeOK
  <2>2. P \subseteq Orders /\ p \in Orders  BY <1>3
  <2>3. e \in Int /\ T \in SUBSET (Orders \X Nat) /\ m \in BOOLEAN /\ n = z.pages + 1
    <3>1. e \in Int  BY <1>5, <2>1, <2>2, PositionType
    <3>2. T \in SUBSET (Orders \X Nat)  BY <1>5, <2>2
    <3> QED  BY <3>1, <3>2
  <2>4. x = Fetched(z, n, e, T, m)  OBVIOUS
  <2>5. run' = [run EXCEPT ![r] = x]  BY <1>1, <1>7
  <2>6. T # {} /\ \A t \in T : t[2] <= shopAt[t[1]]
    <3>1. T # {}  BY <1>7
    <3>2. ASSUME NEW t \in T  PROVE t[2] <= shopAt[t[1]]
      <4>1. PICK o \in P : t = <<o, shopAt[o]>>  OBVIOUS
      <4>2. t[1] = o /\ t[2] = shopAt[o]  BY <4>1
      <4> QED  BY <1>5, <2>2, <4>2
    <3> QED  BY <3>1, <3>2
  <2>7. \A o \in P : <<o, shopAt[o]>> \in T  OBVIOUS
  <2>8. z.pages < MaxPages  BY <1>2 DEF Fits
  <2>9. m = (P # M)  OBVIOUS
  <2> HIDE DEF x, e, T, m, n, z
  <2>10. /\ x \in Run /\ x.pc = "write" /\ x.end = e /\ x.todo = T /\ x.more = m
         /\ x.since = z.since /\ x.startedAt = z.startedAt /\ x.last = z.last
    <3>1. z \in Run /\ n \in Int  BY <1>2, <2>3
    <3> QED  BY <2>3, <2>4, <2>8, <3>1, FetchedType
  <2>11. Place(e)  BY <1>5, <2>1, <2>2 DEF Place
  <2>12. ASSUME NEW o \in Orders, Stale(o)
         PROVE  \/ <<o, shopAt[o]>> \in T
                \/ shopAt[o] >= z.since /\ After(o, e) /\ m
    <3>1. o \in M  BY <1>4, <2>12
    <3>2. CASE o \in P  BY <2>7, <3>2
    <3>3. CASE o \notin P
      <4>1. m  BY <2>9, <3>1, <3>3
      <4>2. Position(p, shopAt[p]) < Position(o, shopAt[o])  BY <1>1, <3>1, <3>3 DEF IsPage
      <4>3. Position(o, shopAt[o]) \in Nat  BY <1>5, PositionType
      <4>4. After(o, e)  BY <1>5, <2>1, <2>2, <4>2, <4>3, PositionType DEF After
      <4>5. shopAt[o] >= z.since  BY <1>2, <2>12 DEF Fits, Covers
      <4> QED  BY <4>1, <4>4, <4>5
    <3> QED  BY <3>2, <3>3
  <2>13. z.last # NoCursor => Place(z.last) /\ Covers(z.since, z.last)
    <3> SUFFICES ASSUME z.last # NoCursor  PROVE Place(z.last) /\ Covers(z.since, z.last)
      OBVIOUS
    <3>1. z.last = z.cursor  BY <1>2 DEF Fits
    <3> QED  BY <1>2, <3>1 DEF Fits
  <2>14. z.startedAt <= now /\ z.since <= ShopClock  BY <1>2 DEF Fits
  <2>15. Fits(x)
    BY <2>6, <2>10, <2>11, <2>12, <2>13, <2>14 DEF Fits
  <2> QED  BY <2>5, <2>10, <2>15
<1> QED  BY <1>6, <1>7

\* One order less to find, and after the last one of a page the next begins
\* where this one ends.
LEMMA WriteFits ==
  ASSUME IInv, NEW r \in Runs, WriteOrder(r)
  PROVE  TypeOK' /\ Mirrored' /\ Onward /\ RunFits(r)'
<1> DEFINE z == run[r]
           p == First(z.todo)
           left == z.todo \ {p}
<1>1. /\ z \in Run /\ z.pc = "write" /\ Fits(z) /\ z.todo \in SUBSET (Orders \X Nat)
      /\ z.since \in Int /\ z.startedAt \in Int /\ z.end \in Int /\ z.last \in Int
      /\ z.more \in BOOLEAN
  BY DEF IInv, TypeOK, Run, WriteOrder, RunFits
<1>2. z.todo # {} /\ \A q \in z.todo : q[2] <= shopAt[q[1]]  BY <1>1 DEF Fits
<1>3. p \in z.todo  BY <1>1, <1>2, FirstIsThere
<1>4. p[1] \in Orders /\ p[2] \in Nat /\ p[2] <= shopAt[p[1]] /\ p = <<p[1], p[2]>>
  BY <1>1, <1>2, <1>3
<1>5. Upsert(p[1], p[2])  BY DEF WriteOrder
<1>6. PICK x : /\ run' = [run EXCEPT ![r] = x]
              /\ x = IF left = {} THEN PageDone(z) ELSE LessToDo(z, left)
  BY DEF WriteOrder, LessToDo
<1>7. UNCHANGED <<now, shopAt, sent, reread, sync>>  BY DEF WriteOrder
<1>8. left \in SUBSET (Orders \X Nat) /\ left \subseteq z.todo /\ \A q \in z.todo : q = p \/ q \in left
  BY <1>1
<1> HIDE DEF left, p, z
<1>10. /\ row' \in [Orders -> Nat] /\ lines' \in [Orders -> Nat]
       /\ \A q \in Orders : lines'[q] <= row'[q] /\ row'[q] <= shopAt'[q]
       /\ \A q \in Orders : lines'[q] < shopAt'[q] => Stale(q)
       /\ p[2] = shopAt[p[1]] => lines'[p[1]] = shopAt'[p[1]]
  BY <1>4, <1>5, <1>7, Written DEF IInv
<1>11. /\ \A o \in Orders : shopAt[o] \in Nat /\ lines'[o] \in Nat /\ shopAt'[o] = shopAt[o]
       /\ ShopClock' = ShopClock
  BY <1>7, <1>10 DEF IInv, TypeOK, ShopClock
<1>12. ASSUME NEW o \in Orders, lines'[o] < shopAt'[o]
       PROVE  \/ <<o, shopAt[o]>> \in left
              \/ /\ shopAt[o] >= z.since /\ After(o, z.end)
                 /\ z.more \/ ChangedSince(o, z.startedAt)
  <2>1. Stale(o)  BY <1>10, <1>12
  <2>2. CASE <<o, shopAt[o]>> \in z.todo
    <3>1. <<o, shopAt[o]>> # p
      <4> SUFFICES ASSUME <<o, shopAt[o]>> = p  PROVE FALSE
        OBVIOUS
      <4>1. p[1] = o /\ p[2] = shopAt[o]  OBVIOUS
      <4> QED  BY <1>10, <1>11, <1>12, <4>1
    <3> QED  BY <1>8, <2>2, <3>1
  <2>3. CASE <<o, shopAt[o]>> \notin z.todo
    BY <1>1, <2>1, <2>3 DEF Fits
  <2> QED  BY <2>2, <2>3
<1>13. Place(z.end) /\ z.startedAt <= now /\ z.since <= ShopClock  BY <1>1 DEF Fits
<1>14. z.last # NoCursor => Place(z.last) /\ Covers(z.since, z.last)  BY <1>1 DEF Fits
<1>15. now \in Nat /\ ShopClock \in Nat  BY Clocks DEF IInv
<1>20. ASSUME left = {}  PROVE x \in Run /\ Fits(x)'
  <2>1. x = PageDone(z)  BY <1>6, <1>20
  <2>2. /\ x \in Run
        /\ \/ /\ ~z.more /\ x.pc = "complete" /\ x.startedAt = z.startedAt /\ x.since = 0
              /\ x.last = NoCursor
           \/ /\ z.more /\ x.pc = "fetch" /\ x.startedAt = z.startedAt /\ x.since = z.since
              /\ x.last = z.end /\ x.cursor = z.end /\ x.pages < MaxPages
           \/ /\ z.more /\ x.pc = "cut off" /\ x.startedAt = 0 /\ x.last = z.end
              /\ x.since = IF z.end = NoCursor THEN 0 ELSE z.since
    BY <1>1, <2>1, PageDoneType
  <2>3. \A o \in Orders : lines'[o] < shopAt'[o] =>
          /\ shopAt[o] >= z.since /\ After(o, z.end)
          /\ z.more \/ ChangedSince(o, z.startedAt)
    BY <1>12, <1>20
  <2>4. Fits(x)'
    <3>1. CASE x.pc = "complete"
      <4>1. /\ x.startedAt = z.startedAt /\ x.since = 0 /\ x.last = NoCursor /\ ~z.more
        BY <2>2, <3>1
      <4>2. \A o \in Orders : lines'[o] < shopAt'[o] => shopAt[o] > z.startedAt - ClockLag
        BY <2>3, <4>1 DEF ChangedSince
      <4> QED  BY <1>7, <1>11, <1>13, <1>15, <3>1, <4>1, <4>2 DEF Fits, Stale, ChangedSince
    <3>2. CASE x.pc = "fetch"
      <4>1. /\ x.startedAt = z.startedAt /\ x.since = z.since /\ x.last = z.end
            /\ x.cursor = z.end /\ x.pages < MaxPages
        BY <2>2, <3>2
      <4> QED
        BY <1>7, <1>11, <1>13, <2>3, <3>2, <4>1 DEF Fits, Stale, Covers, After, Place
    <3>3. CASE x.pc = "cut off"
      <4>1. x.startedAt = 0 /\ x.last = z.end
        BY <2>2, <3>3
      <4>2. x.since \in {0, z.since} /\ (z.end # NoCursor => x.since = z.since)  BY <2>2, <3>3
      <4>3. x.since <= ShopClock  BY <1>13, <1>15, <4>2
      <4>4. x.startedAt <= now  BY <1>15, <4>1
      <4>5. CASE x.last = NoCursor
        BY <1>7, <1>11, <3>3, <4>3, <4>4, <4>5 DEF Fits
      <4>6. CASE x.last # NoCursor
        <5>1. x.since = z.since  BY <4>1, <4>2, <4>6
        <5> QED
          BY <1>7, <1>11, <1>13, <2>3, <3>3, <4>1, <4>3, <4>4, <5>1
          DEF Fits, Stale, Covers, After, Place
      <4> QED  BY <4>5, <4>6
    <3> QED  BY <2>2, <3>1, <3>2, <3>3
  <2> QED  BY <2>2, <2>4
<1>21. ASSUME left # {}  PROVE x \in Run /\ Fits(x)'
  <2>1. x = LessToDo(z, left)  BY <1>6, <1>21
  <2>2. /\ x \in Run /\ x.todo = left /\ x.pc = "write" /\ x.end = z.end /\ x.more = z.more
        /\ x.since = z.since /\ x.startedAt = z.startedAt /\ x.last = z.last
    BY <1>1, <1>8, <2>1, LessToDoType
  <2>3. \A q \in left : q[2] <= shopAt'[q[1]]  BY <1>2, <1>7, <1>8
  <2>4. z.last # NoCursor => Place(z.last) /\ \A o \in Orders : lines'[o] < shopAt'[o] =>
                                shopAt[o] >= z.since /\ After(o, z.last)
    BY <1>10, <1>14 DEF Covers
  <2>5. Fits(x)'
    BY <1>7, <1>11, <1>12, <1>13, <1>21, <2>2, <2>3, <2>4
    DEF Fits, Stale, Covers, After, Place, ChangedSince
  <2> QED  BY <2>2, <2>5
<1>22. x \in Run /\ Fits(x)'  BY <1>20, <1>21
<1>23. TypeOK'  BY <1>6, <1>7, <1>10, <1>22 DEF IInv, TypeOK
<1>24. Mirrored'
  BY <1>7, <1>10, <1>11 DEF IInv, Mirrored
<1>25. Onward  BY <1>7, <1>10, <1>11 DEF Onward
<1>26. RunFits(r)'
  <2>1. run'[r] = x  BY <1>6 DEF IInv, TypeOK
  <2> QED  BY <1>22, <2>1 DEF RunFits
<1> QED  BY <1>23, <1>24, <1>25, <1>26

\* The watermark of a run that came to the end passes nothing that is missing.
LEMMA MarkFits ==
  ASSUME IInv, NEW r \in Runs, MarkSync(r)
  PROVE  /\ SyncFits' /\ sync' \in [watermark : Int, cursor : Int, since : Int]
         /\ \A o \in Orders : shopAt[o] < sync'.watermark - Overlap => lines[o] = shopAt[o]
<1> DEFINE z == run[r]
           y == IF z.pc = "complete" THEN z.startedAt ELSE sync.watermark
<1>1. /\ z \in Run /\ Fits(z) /\ z.startedAt \in Int /\ z.since \in Int /\ z.last \in Int
  BY DEF IInv, TypeOK, Run, RunFits
<1>2. sync' = [watermark |-> y, cursor |-> z.last, since |-> z.since]  BY DEF MarkSync
<1>3. z.pc \in {"complete", "cut off"} /\ UNCHANGED <<now, shopAt, lines>>  BY DEF MarkSync
<1>4. sync.watermark \in Int /\ y \in Int  BY <1>1 DEF IInv, TypeOK
<1>5. /\ now \in Nat /\ ClockLag \in Nat /\ Overlap \in Nat /\ ClockLag <= Overlap
      /\ ShopClock = now - ClockLag
  BY Clocks DEF IInv
<1>6. \A o \in Orders : shopAt[o] \in Nat /\ lines[o] \in Nat /\ lines[o] <= shopAt[o]
  BY DEF IInv, TypeOK, Mirrored
<1>7. y <= now /\ Covers(y - Overlap, NoCursor)
  <2>1. CASE z.pc = "complete"
    <3>1. y = z.startedAt /\ z.startedAt <= now
          /\ \A o \in Orders : Stale(o) => ChangedSince(o, z.startedAt)
      BY <1>1, <2>1 DEF Fits
    <3>2. ASSUME NEW o \in Orders, Stale(o)  PROVE shopAt[o] >= y - Overlap
      <4>1. shopAt[o] > z.startedAt - ClockLag  BY <3>1, <3>2 DEF ChangedSince
      <4> QED  BY <1>1, <1>5, <1>6, <3>1, <4>1
    <3> QED  BY <3>1, <3>2 DEF Covers, After
  <2>2. CASE z.pc = "cut off"
    <3>1. y = sync.watermark  BY <2>2
    <3> QED  BY <3>1 DEF IInv, SyncFits
  <2> QED  BY <1>3, <2>1, <2>2
<1>8. z.last # NoCursor => Place(z.last) /\ z.since <= ShopClock /\ Covers(z.since, z.last)
  BY <1>1, <1>3 DEF Fits
<1>9. PICK w : w = y  OBVIOUS
<1>10. PICK last, since : last = z.last /\ since = z.since  OBVIOUS
<1> HIDE DEF y, z
<1>11. sync'.watermark = w /\ sync'.cursor = last /\ sync'.since = since
  BY <1>2, <1>9, <1>10
<1>12. SyncFits'
  <2>1. w <= now /\ Covers(w - Overlap, NoCursor)
        /\ (last # NoCursor => Place(last) /\ since <= ShopClock /\ Covers(since, last))
    BY <1>7, <1>8, <1>9, <1>10
  <2> QED
    BY <1>3, <1>11, <2>1 DEF SyncFits, Covers, Stale, After, Place, ShopClock
<1>13. sync' \in [watermark : Int, cursor : Int, since : Int]  BY <1>1, <1>2, <1>4
<1>14. ASSUME NEW o \in Orders, shopAt[o] < sync'.watermark - Overlap
       PROVE  lines[o] = shopAt[o]
  <2>1. shopAt[o] < y - Overlap  BY <1>9, <1>11, <1>14
  <2>2. ~Stale(o)  BY <1>4, <1>5, <1>6, <1>7, <2>1 DEF Covers
  <2> QED  BY <1>6, <2>2 DEF Stale
<1> QED  BY <1>12, <1>13, <1>14

-----------------------------------------------------------------------------
(* The steps that are not a run's.                                         *)

\* Time passes, and the shop changes.
LEMMA TimePasses ==
  ASSUME IInv, Tick \/ \E S \in SUBSET Orders : Change(S)
  PROVE  /\ TypeOK' /\ Mirrored' /\ Onward /\ sync' = sync /\ run' = run
         /\ row' = row /\ lines' = lines /\ ShopClock' = ShopClock + 1
         /\ \A o \in Orders : shopAt'[o] = shopAt[o] \/ shopAt'[o] = ShopClock + 1
<1>1. PICK S \in SUBSET Orders :
        /\ now < MaxTime + ClockLag /\ now' = now + 1
        /\ shopAt' = [o \in Orders |-> IF o \in S THEN now' - ClockLag ELSE shopAt[o]]
        /\ sent' = sent \cup {<<o, now' - ClockLag>> : o \in S}
        /\ UNCHANGED <<row, lines, reread, sync, run>>
  <2>1. CASE Tick
    <3>1. /\ now < MaxTime + ClockLag /\ now' = now + 1
          /\ UNCHANGED <<shopAt, sent, row, lines, reread, sync, run>>
      BY <2>1 DEF Tick
    <3>2. shopAt = [o \in Orders |-> shopAt[o]]  BY DEF IInv, TypeOK
    <3>3. {} \in SUBSET Orders  OBVIOUS
    <3>4. shopAt' = [o \in Orders |-> IF o \in {} THEN now' - ClockLag ELSE shopAt[o]]
      BY <3>1, <3>2
    <3>5. sent' = sent \cup {<<o, now' - ClockLag>> : o \in {}}  BY <3>1
    <3> QED  BY <3>1, <3>3, <3>4, <3>5
  <2>2. CASE \E S \in SUBSET Orders : Change(S)
    BY <2>2 DEF Change
  <2> QED  BY <2>1, <2>2
<1>2. /\ now \in Nat /\ ClockLag \in Nat /\ MaxTime \in Nat /\ ShopClock \in Nat
      /\ ShopClock = now - ClockLag /\ now >= ClockLag
  BY Clocks, ReconcileAssumption DEF IInv, TypeOK
<1> DEFINE w == now' - ClockLag
<1>3. w \in Nat /\ w = ShopClock + 1 /\ ShopClock' = w /\ now' \in ClockLag .. MaxTime + ClockLag
  BY <1>1, <1>2 DEF ShopClock
<1>4. /\ shopAt \in [Orders -> Nat] /\ sent \subseteq Orders \X Nat
      /\ row \in [Orders -> Nat] /\ lines \in [Orders -> Nat]
      /\ reread \in {NoRead} \cup Orders \X Nat
      /\ \A o \in Orders : lines[o] <= row[o] /\ row[o] <= shopAt[o] /\ shopAt[o] <= ShopClock
      /\ \A p \in sent : p[2] <= shopAt[p[1]]
      /\ reread # NoRead => reread[2] <= shopAt[reread[1]]
  BY DEF IInv, TypeOK, Mirrored
<1>5. /\ shopAt' = [o \in Orders |-> IF o \in S THEN w ELSE shopAt[o]]
      /\ sent' = sent \cup {<<o, w>> : o \in S}
  BY <1>1
<1> HIDE DEF w
<1>6. shopAt' \in [Orders -> Nat]  BY <1>3, <1>4, <1>5
<1>7. \A o \in Orders : shopAt'[o] = IF o \in S THEN w ELSE shopAt[o]  BY <1>5
<1>8. \A o \in Orders : shopAt[o] \in Nat /\ shopAt'[o] \in Nat /\ shopAt[o] <= shopAt'[o]
                       /\ shopAt'[o] <= w
  BY <1>2, <1>3, <1>4, <1>6, <1>7
<1>9. sent' \subseteq Orders \X Nat  BY <1>3, <1>4, <1>5
<1>10. TypeOK'
  BY <1>1, <1>3, <1>6, <1>9 DEF IInv, TypeOK
<1>11. Mirrored'
  <2>1. \A o \in Orders : row'[o] = row[o] /\ lines'[o] = lines[o] /\ row[o] \in Nat
    BY <1>1, <1>4
  <2>2. \A o \in Orders : lines'[o] <= row'[o] /\ row'[o] <= shopAt'[o]
    BY <1>4, <1>8, <2>1
  <2>3. ASSUME NEW p \in sent'  PROVE p[2] <= shopAt'[p[1]]
    <3>1. CASE p \in sent
      <4>1. p[1] \in Orders /\ p[2] \in Nat /\ p[2] <= shopAt[p[1]]  BY <1>4, <3>1
      <4> QED  BY <1>8, <4>1
    <3>2. CASE p \notin sent
      <4>1. PICK o \in S : p = <<o, w>>  BY <1>5, <3>2
      <4>2. p[1] = o /\ p[2] = w /\ o \in Orders  BY <4>1
      <4>3. shopAt'[o] = w  BY <1>7, <4>2
      <4> QED  BY <1>3, <4>2, <4>3
    <3> QED  BY <3>1, <3>2
  <2>4. ASSUME reread # NoRead  PROVE reread[2] <= shopAt'[reread[1]]
    <3>1. reread[1] \in Orders /\ reread[2] \in Nat /\ reread[2] <= shopAt[reread[1]]
      BY <1>4, <2>4
    <3> QED  BY <1>8, <3>1
  <2>5. reread' = reread  BY <1>1
  <2> QED  BY <1>3, <1>8, <2>2, <2>3, <2>4, <2>5 DEF Mirrored
<1>12. Onward
  <2>1. \A o \in Orders : shopAt'[o] = shopAt[o] \/ shopAt'[o] = w  BY <1>7
  <2> QED  BY <1>1, <2>1 DEF Onward, Stale, w
<1>13. \A o \in Orders : shopAt'[o] = shopAt[o] \/ shopAt'[o] = ShopClock + 1
  BY <1>3, <1>7
<1> QED  BY <1>1, <1>3, <1>10, <1>11, <1>12, <1>13

\* A webhook writes a row; a re-read of an order is taken, written or given up.
LEMMA MirrorMoves ==
  ASSUME IInv,
         \/ \E p \in sent : ApplyOrder(p[1], p[2])
         \/ \E o \in Orders : Hydrate(o)
         \/ HydrateWrite \/ HydrateGivesUp
  PROVE  TypeOK' /\ Mirrored' /\ Onward /\ sync' = sync /\ run' = run
<1>1. /\ shopAt \in [Orders -> Nat] /\ sent \subseteq Orders \X Nat
      /\ row \in [Orders -> Nat] /\ lines \in [Orders -> Nat]
      /\ reread \in {NoRead} \cup Orders \X Nat
      /\ \A o \in Orders : lines[o] <= row[o] /\ row[o] <= shopAt[o] /\ shopAt[o] <= ShopClock
      /\ \A p \in sent : p[2] <= shopAt[p[1]]
      /\ reread # NoRead => reread[2] <= shopAt[reread[1]]
  BY DEF IInv, TypeOK, Mirrored
<1>2. CASE \E p \in sent : ApplyOrder(p[1], p[2])
  <2>1. PICK p \in sent : ApplyOrder(p[1], p[2])  BY <1>2
  <2>2. PICK o \in Orders, v \in Nat : o = p[1] /\ v = p[2]  BY <1>1
  <2>3. v <= shopAt[o]  BY <1>1, <2>2
  <2>4. /\ v >= row[o] /\ row' = [row EXCEPT ![o] = v]
        /\ UNCHANGED <<now, shopAt, sent, lines, reread, sync, run>>
    BY <2>1, <2>2 DEF ApplyOrder, Accepts
  <2>5. row' \in [Orders -> Nat] /\ row'[o] = v /\ \A q \in Orders : q # o => row'[q] = row[q]
    BY <1>1, <2>4
  <2>6. TypeOK'  BY <2>4, <2>5 DEF IInv, TypeOK
  <2>7. \A q \in Orders : lines[q] <= row'[q] /\ row'[q] <= shopAt[q]
    BY <1>1, <2>3, <2>4, <2>5
  <2>8. ShopClock' = ShopClock  BY <2>4 DEF ShopClock
  <2>9. Mirrored'  BY <1>1, <2>4, <2>7, <2>8 DEF Mirrored
  <2>10. Onward  BY <2>4 DEF Onward, Stale
  <2> QED  BY <2>4, <2>6, <2>9, <2>10
<1>3. CASE \E o \in Orders : Hydrate(o)
  <2>1. PICK o \in Orders : Hydrate(o)  BY <1>3
  <2>2. /\ reread' = <<o, shopAt[o]>>
        /\ UNCHANGED <<now, shopAt, sent, row, lines, sync, run>>
    BY <2>1 DEF Hydrate
  <2>3. shopAt[o] \in Nat /\ reread' \in Orders \X Nat  BY <1>1, <2>2
  <2>4. TypeOK'  BY <2>2, <2>3 DEF IInv, TypeOK
  <2>5. ShopClock' = ShopClock  BY <2>2 DEF ShopClock
  <2>6. reread'[2] <= shopAt[reread'[1]]  BY <2>2, <2>3
  <2>7. Mirrored'  BY <1>1, <2>2, <2>5, <2>6 DEF Mirrored
  <2>8. Onward  BY <2>2 DEF Onward, Stale
  <2> QED  BY <2>2, <2>4, <2>7, <2>8
<1>4. CASE HydrateWrite
  <2>1. PICK o \in Orders, v \in Nat : o = reread[1] /\ v = reread[2]
    BY <1>1, <1>4 DEF HydrateWrite
  <2>2. /\ Upsert(o, v) /\ v <= shopAt[o] /\ reread' = NoRead
        /\ UNCHANGED <<now, shopAt, sent, sync, run>>
    BY <1>1, <1>4, <2>1 DEF HydrateWrite
  <2>3. /\ row' \in [Orders -> Nat] /\ lines' \in [Orders -> Nat]
        /\ \A q \in Orders : lines'[q] <= row'[q] /\ row'[q] <= shopAt'[q]
        /\ \A q \in Orders : lines'[q] < shopAt'[q] => Stale(q)
    BY <2>2, Written DEF IInv
  <2>4. TypeOK'  BY <2>2, <2>3 DEF IInv, TypeOK
  <2>5. ShopClock' = ShopClock  BY <2>2 DEF ShopClock
  <2>6. Mirrored'  BY <1>1, <2>2, <2>3, <2>5 DEF Mirrored
  <2>7. Onward  BY <2>2, <2>3 DEF Onward
  <2> QED  BY <2>2, <2>4, <2>6, <2>7
<1>5. CASE HydrateGivesUp
  <2>1. /\ reread' = NoRead
        /\ UNCHANGED <<now, shopAt, sent, row, lines, sync, run>>
    BY <1>5 DEF HydrateGivesUp
  <2>2. TypeOK'  BY <2>1 DEF IInv, TypeOK
  <2>3. ShopClock' = ShopClock  BY <2>1 DEF ShopClock
  <2>4. Mirrored'  BY <1>1, <2>1, <2>3 DEF Mirrored
  <2>5. Onward  BY <2>1 DEF Onward, Stale
  <2> QED  BY <2>1, <2>2, <2>4, <2>5
<1> QED  BY <1>2, <1>3, <1>4, <1>5

\* What a run does that writes nothing, and the sync state after it.
LEMMA QuietSteps ==
  ASSUME IInv, NEW r \in Runs,
         Start(r) \/ Fetch(r) \/ MarkSync(r) \/ Fails(r)
  PROVE  \E x \in Run :
           /\ run' = [run EXCEPT ![r] = x] /\ Fits(x)
           /\ UNCHANGED <<now, shopAt, sent, row, lines, reread>>
           /\ sync' = sync \/ MarkSync(r)
<1>1. CASE Start(r)  BY <1>1, StartFits DEF Start
<1>2. CASE Fetch(r)  BY <1>2, FetchFits DEF Fetch
<1>3. CASE FetchFails(r)
  <2>1. run' = [run EXCEPT ![r] = CutOff(run[r])]  BY <1>3 DEF FetchFails
  <2> QED  BY <1>3, <2>1, CutOffFits DEF FetchFails
<1>4. CASE WriteFails(r)
  <2>1. run' = [run EXCEPT ![r] = CutOff(run[r])]  BY <1>4 DEF WriteFails
  <2> QED  BY <1>4, <2>1, CutOffFits DEF WriteFails
<1>5. CASE MarkSync(r)  BY <1>5, NothingFits DEF MarkSync, IInv
<1>6. CASE Crash(r)
  <2>1. run' = [run EXCEPT ![r] = [NoRun EXCEPT !.pc = "down"]]  BY <1>6 DEF Crash
  <2> QED  BY <1>6, <2>1, NothingFits DEF Crash, IInv
<1> QED  BY <1>1, <1>2, <1>3, <1>4, <1>5, <1>6 DEF Fails

\* What any step but MarkSync leaves of the sync state and of the other runs.
LEMMA RestKept ==
  ASSUME IInv, TypeOK', Mirrored', Onward, NEW r,
         \A q \in Runs : q # r => run'[q] = run[q],
         r \in Runs => RunFits(r)', SyncFits' \/ sync' = sync
  PROVE  IInv'
<1>1. \A q \in Runs : q # r => RunFits(q)'  BY RunKept DEF IInv
<1>2. SyncFits'  BY SyncKept DEF IInv
<1> QED  BY <1>1, <1>2 DEF IInv

\* Nothing the shop, the webhooks or the runs do breaks it.
LEMMA NextKeeps ==
  ASSUME IInv, Next
  PROVE  IInv'
<1>1. CASE \/ Tick \/ (\E S \in SUBSET Orders : Change(S))
           \/ (\E p \in sent : ApplyOrder(p[1], p[2]))
           \/ (\E o \in Orders : Hydrate(o))
           \/ HydrateWrite \/ HydrateGivesUp
  <2>1. TypeOK' /\ Mirrored' /\ Onward /\ sync' = sync /\ run' = run
    BY <1>1, TimePasses, MirrorMoves
  <2>2. \A r \in Runs : RunFits(r)'  BY <2>1, RunKept DEF IInv
  <2>3. SyncFits'  BY <2>1, SyncKept DEF IInv
  <2> QED  BY <2>1, <2>2, <2>3 DEF IInv
<1>2. ASSUME NEW r \in Runs, Start(r) \/ Fetch(r) \/ MarkSync(r) \/ Fails(r)
      PROVE  IInv'
  <2>1. PICK x \in Run :
           /\ run' = [run EXCEPT ![r] = x] /\ Fits(x)
           /\ UNCHANGED <<now, shopAt, sent, row, lines, reread>>
           /\ sync' = sync \/ MarkSync(r)
    BY <1>2, QuietSteps
  <2>2. sync' \in [watermark : Int, cursor : Int, since : Int] /\ (SyncFits' \/ sync' = sync)
    BY <2>1, MarkFits DEF IInv, TypeOK
  <2>3. TypeOK' /\ Mirrored' /\ Onward  BY <2>1, <2>2, RunMoves DEF IInv
  <2>4. run'[r] = x /\ \A q \in Runs : q # r => run'[q] = run[q]  BY <2>1 DEF IInv, TypeOK
  <2>5. RunFits(r)'  BY <2>1, <2>4, RunBecomes
  <2> QED  BY <2>2, <2>3, <2>4, <2>5, RestKept
<1>3. ASSUME NEW r \in Runs, WriteOrder(r)
      PROVE  IInv'
  <2>1. TypeOK' /\ Mirrored' /\ Onward /\ RunFits(r)'  BY <1>3, WriteFits
  <2>2. sync' = sync /\ \A q \in Runs : q # r => run'[q] = run[q]
    BY <1>3 DEF WriteOrder, IInv, TypeOK
  <2> QED  BY <2>1, <2>2, RestKept
<1> QED  BY <1>1, <1>2, <1>3 DEF Next, Step

\* It holds at the start.
LEMMA InitFits == Init => IInv
<1> SUFFICES ASSUME Init  PROVE IInv
  OBVIOUS
<1>1. /\ now = ClockLag /\ shopAt = [o \in Orders |-> 0] /\ sent = {} /\ row = shopAt
      /\ lines = shopAt /\ reread = NoRead /\ run = [r \in Runs |-> NoRun]
      /\ sync = [watermark |-> ClockLag, cursor |-> NoCursor, since |-> 0]
  BY DEF Init
<1>2. ClockLag \in Nat /\ MaxTime \in Nat  BY ReconcileAssumption
<1>3. TypeOK  BY <1>1, <1>2, NoRunType DEF TypeOK, NoCursor
<1>4. \A o \in Orders : shopAt[o] = 0 /\ lines[o] = 0 /\ row[o] = 0 /\ ~Stale(o)
  BY <1>1 DEF Stale
<1>5. ShopClock = 0  BY <1>1, <1>2 DEF ShopClock
<1>6. Mirrored  BY <1>1, <1>4, <1>5 DEF Mirrored
<1>7. SyncFits  BY <1>1, <1>2, <1>4 DEF SyncFits, Covers
<1>8. \A r \in Runs : RunFits(r)  BY <1>1, <1>3, NothingFits DEF RunFits
<1> QED  BY <1>3, <1>6, <1>7, <1>8 DEF IInv

\* A step that changes nothing.
LEMMA StutterKeeps ==
  ASSUME IInv, UNCHANGED vars
  PROVE  IInv'
<1>1. /\ UNCHANGED <<now, shopAt, sent, row, lines, reread, sync, run>>  BY DEF vars
<1>2. TypeOK'  BY <1>1 DEF IInv, TypeOK
<1>3. Mirrored'  BY <1>1 DEF IInv, Mirrored, ShopClock
<1>4. Onward  BY <1>1 DEF Onward, Stale
<1>5. \A r \in Runs : RunFits(r)'  BY <1>1, <1>2, <1>4, RunKept DEF IInv
<1>6. SyncFits'  BY <1>1, <1>2, <1>4, SyncKept DEF IInv
<1> QED  BY <1>2, <1>3, <1>5, <1>6 DEF IInv

\* The inductive invariant holds in every state.
LEMMA Invariance == Spec => []IInv
<1>1. IInv /\ [Next]_vars => IInv'  BY NextKeeps, StutterKeeps
<1> QED  BY <1>1, InitFits, PTL DEF Spec

-----------------------------------------------------------------------------
(* The theorems.                                                           *)

\* Every variable keeps its type: the clocks, the rows and the runs stay what
\* sd_orders, sd_sync_state and the locals of reconcile() can hold.
THEOREM TypesHold == Spec => []TypeOK
<1>1. IInv => TypeOK  BY DEF IInv
<1> QED  BY <1>1, Invariance, PTL

\* An order the mirror does not show whole is one the next run is given,
\* whatever was lost, failed, was cut off or overlapped before.
THEOREM NothingSlips == Spec => []NothingSlipsBy
<1>1. IInv => NothingSlipsBy
  BY DEF IInv, SyncFits, Covers, Stale, After, NothingSlipsBy, NextRunSees
<1> QED  BY <1>1, Invariance, PTL

-----------------------------------------------------------------------------
(* The refinement.                                                         *)

PromiseStep == [Promise!Next]_(Promise!vars)

\* What the mirror does not notice.
LEMMA Stutters ==
  ASSUME UNCHANGED <<shopAt, row, lines, sync>>
  PROVE  PromiseStep
  BY DEF PromiseStep, Promise!vars

\* The whole of an order written, or refused.
LEMMA WholeKeepsPromise ==
  ASSUME TypeOK, Mirrored, NEW o \in Orders, NEW v \in Nat, v <= shopAt[o], Upsert(o, v),
         UNCHANGED <<shopAt, sync>>
  PROVE  PromiseStep
<1>0. /\ row \in [Orders -> Nat] /\ lines \in [Orders -> Nat] /\ shopAt \in [Orders -> Nat]
  BY DEF TypeOK
<1>1. CASE Accepts(o, v)
  <2>1. row' = [row EXCEPT ![o] = v] /\ lines' = [lines EXCEPT ![o] = v] /\ v >= row[o]
    BY <1>1 DEF Upsert, WriteLines, Accepts
  <2>2. row'[o] = v  BY <1>0, <2>1
  <2>3. v \in row[o] .. shopAt[o]  BY <1>0, <2>1
  <2>4. Promise!MirrorWhole(o)
    BY <2>1, <2>2, <2>3 DEF Promise!MirrorWhole
  <2> QED  BY <2>4 DEF PromiseStep, Promise!Next
<1>2. CASE ~Accepts(o, v)
  BY <1>2, Stutters DEF Upsert
<1> QED  BY <1>1, <1>2

\* Every behaviour of the mirror, lost webhooks, failed runs and overlapping
\* ones included, is one that the promise allows: no row goes back, and the
\* watermark passes nothing that is missing.
THEOREM MirrorKeepsPromise == Spec => KeepsPromise
<1>1. Init => Promise!Init
  <2> SUFFICES ASSUME Init  PROVE Promise!Init
    OBVIOUS
  <2>1. shopAt \in [Orders -> Int] /\ row = shopAt /\ lines = shopAt  BY DEF Init
  <2>2. sync.watermark - Overlap \in Int  BY ReconcileAssumption DEF Init
  <2> QED  BY <2>1, <2>2 DEF Promise!Init
<1>2. IInv /\ [Next]_vars => PromiseStep
  <2> SUFFICES ASSUME IInv, [Next]_vars  PROVE PromiseStep
    OBVIOUS
  <2>0. /\ TypeOK /\ Mirrored
        /\ shopAt \in [Orders -> Nat] /\ row \in [Orders -> Nat] /\ lines \in [Orders -> Nat]
        /\ sync.watermark \in Int
    BY DEF IInv, TypeOK
  <2>1. CASE UNCHANGED vars
    BY <2>1, Stutters DEF vars
  <2>2. CASE Tick \/ \E S \in SUBSET Orders : Change(S)
    <3>1. /\ TypeOK' /\ sync' = sync /\ row' = row /\ lines' = lines
          /\ \A o \in Orders : shopAt'[o] = shopAt[o] \/ shopAt'[o] = ShopClock + 1
      BY <2>2, TimePasses
    <3>2. shopAt' \in [Orders -> Int]  BY <3>1 DEF TypeOK
    <3>3. ASSUME NEW o \in Orders
          PROVE  \/ shopAt'[o] = shopAt[o]
                 \/ shopAt'[o] > shopAt[o] /\ shopAt'[o] >= sync.watermark - Overlap
      <4>1. shopAt[o] \in Nat /\ shopAt[o] <= ShopClock /\ sync.watermark <= now
        BY <2>0 DEF IInv, Mirrored, SyncFits
      <4> QED  BY <2>0, <3>1, <4>1, Clocks
    <3>4. Promise!Change  BY <3>1, <3>2, <3>3 DEF Promise!Change
    <3> QED  BY <3>4 DEF PromiseStep, Promise!Next
  <2>3. ASSUME NEW p \in sent, ApplyOrder(p[1], p[2])  PROVE PromiseStep
    <3>1. PICK o \in Orders, v \in Nat : o = p[1] /\ v = p[2]  BY DEF IInv, TypeOK
    <3>2. v <= shopAt[o]  BY <2>0, <3>1 DEF Mirrored
    <3>3. v >= row[o] /\ row' = [row EXCEPT ![o] = v] /\ UNCHANGED <<shopAt, lines, sync>>
      BY <2>3, <3>1 DEF ApplyOrder, Accepts
    <3>4. row'[o] = v  BY <2>0, <3>3
    <3>5. v \in row[o] .. shopAt[o]  BY <2>0, <3>2, <3>3
    <3>6. Promise!MirrorRow(o)  BY <3>3, <3>4, <3>5 DEF Promise!MirrorRow
    <3> QED  BY <3>6 DEF PromiseStep, Promise!Next
  <2>4. CASE (\E o \in Orders : Hydrate(o)) \/ HydrateGivesUp
    BY <2>4, Stutters DEF Hydrate, HydrateGivesUp
  <2>5. CASE HydrateWrite
    <3>1. PICK o \in Orders, v \in Nat : o = reread[1] /\ v = reread[2]
      BY <2>0, <2>5 DEF HydrateWrite, TypeOK
    <3>2. v <= shopAt[o] /\ Upsert(o, v) /\ UNCHANGED <<shopAt, sync>>
      BY <2>0, <2>5, <3>1 DEF HydrateWrite, Mirrored
    <3> QED  BY <2>0, <3>2, WholeKeepsPromise
  <2>6. ASSUME NEW r \in Runs, Start(r) \/ Fetch(r) \/ MarkSync(r) \/ Fails(r)
        PROVE  PromiseStep
    <3>1. CASE MarkSync(r)
      <4>1. /\ sync' \in [watermark : Int, cursor : Int, since : Int]
            /\ \A o \in Orders : shopAt[o] < sync'.watermark - Overlap => lines[o] = shopAt[o]
        BY <3>1, MarkFits
      <4>2. UNCHANGED <<shopAt, row, lines>>  BY <3>1 DEF MarkSync
      <4>3. sync'.watermark - Overlap \in Int  BY <2>0, <4>1, Clocks
      <4>4. Promise!Advance  BY <4>1, <4>2, <4>3 DEF Promise!Advance
      <4> QED  BY <4>4 DEF PromiseStep, Promise!Next
    <3>2. CASE ~MarkSync(r)
      BY <2>6, <3>2, Stutters DEF Start, Fetch, Fails, FetchFails, WriteFails, Crash
    <3> QED  BY <3>1, <3>2
  <2>7. ASSUME NEW r \in Runs, WriteOrder(r)  PROVE PromiseStep
    <3> DEFINE q == First(run[r].todo)
    <3>1. /\ run[r].todo \in SUBSET (Orders \X Nat) /\ run[r].pc = "write"
      BY <2>0, <2>7 DEF TypeOK, Run, WriteOrder
    <3>2. run[r].todo # {} /\ \A p \in run[r].todo : p[2] <= shopAt[p[1]]
      BY <3>1 DEF IInv, RunFits, Fits
    <3>3. q \in run[r].todo  BY <3>1, <3>2, FirstIsThere
    <3>4. Upsert(q[1], q[2]) /\ UNCHANGED <<shopAt, sync>>  BY <2>7 DEF WriteOrder
    <3> HIDE DEF q
    <3>5. q[1] \in Orders /\ q[2] \in Nat /\ q[2] <= shopAt[q[1]]  BY <3>1, <3>2, <3>3
    <3> QED  BY <2>0, <3>4, <3>5, WholeKeepsPromise
  <2> QED  BY <2>1, <2>2, <2>3, <2>4, <2>5, <2>6, <2>7 DEF Next, Step
<1> QED  BY <1>1, <1>2, Invariance, PTL DEF Spec, KeepsPromise, Promise!Spec, PromiseStep
-----------------------------------------------------------------------------
(* Pages go onward.                                                         *)

\* What a run leaves behind lies before the page it is at.
LastIsBehind == \A r \in Runs : run[r].pc = "write" => run[r].last < run[r].end

\* A run as a step finds it and leaves it: the next page ends after the place it
\* was asked from, and the last finished place only moves forward.
GoesOnward(z, x) ==
  /\ z.pc = "fetch" /\ x.pc = "write" => x.end > z.cursor
  /\ x.last \notin {NoCursor, z.last} => x.last > z.last
  /\ x.pc = "write" => x.last < x.end

\* A place comes after no place.
LEMMA PlaceIsAfterNone ==
  ASSUME NEW c, Place(c)  PROVE c \in Nat /\ c > NoCursor
  BY PositionType DEF Place, NoCursor

\* A page ends after the place it was asked from.
LEMMA FetchGoesOnward ==
  ASSUME IInv, NEW r \in Runs, Fetch(r)
  PROVE  GoesOnward(run[r], run'[r])
<1> DEFINE z == run[r]
           M == Matching(z.since, z.cursor)
<1>1. PICK P \in SUBSET M :
        /\ IsPage(P, M)
        /\ run' = [run EXCEPT ![r] =
            IF P = {}
              THEN Complete(z)
              ELSE Fetched(z, z.pages + 1, EndCursor(P), {<<o, shopAt[o]>> : o \in P}, P # M)]
  BY Zenon DEF Fetch, Fetched
<1>2. /\ z \in Run /\ z.pc = "fetch" /\ Fits(z)
      /\ z.startedAt \in Int /\ z.last \in Int /\ z.cursor \in Int /\ z.pages \in 0 .. MaxPages
  BY DEF IInv, TypeOK, Run, Fetch, RunFits
<1>3. M \subseteq Orders /\ \A o \in M : After(o, z.cursor)  BY DEF Matching
<1>4. \A o \in Orders : shopAt[o] \in Nat /\ shopAt[o] <= ShopClock
  BY DEF IInv, TypeOK, Mirrored
<1> HIDE DEF M
<1>5. CASE P = {}
  <2> DEFINE x == Complete(z)
  <2>1. run'[r] = x  BY <1>1, <1>5 DEF IInv, TypeOK
  <2>2. x = Complete(z)  OBVIOUS
  <2> HIDE DEF x, z
  <2>3. x.pc = "complete" /\ x.last = NoCursor  BY <1>2, <2>2, CompleteType
  <2>4. GoesOnward(z, x)  BY <2>3 DEF GoesOnward
  <2> QED  BY <2>1, <2>4 DEF z
<1>6. CASE P # {}
  <2> DEFINE e == EndCursor(P)
             T == {<<o, shopAt[o]>> : o \in P}
             m == (P # M)
             n == z.pages + 1
             x == Fetched(z, n, e, T, m)
  <2>1. PICK p \in P : e = Position(p, shopAt[p])
    BY <1>3, <1>4, <1>6, Clocks, EndIsThere DEF IInv, TypeOK
  <2>2. P \subseteq Orders /\ p \in Orders /\ After(p, z.cursor)  BY <1>3
  <2>3. e \in Nat  BY <1>4, <2>1, <2>2, PositionType
  <2>4. T \in SUBSET (Orders \X Nat) /\ m \in BOOLEAN /\ n = z.pages + 1  BY <1>4, <2>2
  <2>5. run'[r] = x  BY <1>1, <1>6 DEF IInv, TypeOK
  <2>6. x = Fetched(z, n, e, T, m)  OBVIOUS
  <2>7. z.pages < MaxPages /\ z.last \in {NoCursor, z.cursor}  BY <1>2 DEF Fits
  <2>8. e > z.cursor  BY <1>2, <2>1, <2>2, <2>3 DEF After, NoCursor
  <2>9. e > z.last  BY <2>3, <2>7, <2>8 DEF NoCursor
  <2> HIDE DEF x, e, T, m, n, z
  <2>10. x.pc = "write" /\ x.end = e /\ x.last = z.last
    <3>1. z \in Run /\ n \in Int /\ e \in Int  BY <1>2, <2>3, <2>4
    <3> QED  BY <2>4, <2>6, <2>7, <3>1, FetchedType
  <2>11. z.last < e  BY <1>2, <2>3, <2>9
  <2>12. GoesOnward(z, x)  BY <2>8, <2>10, <2>11 DEF GoesOnward
  <2> QED  BY <2>5, <2>12 DEF z
<1> QED  BY <1>5, <1>6

\* A page that is written takes the place on to its end.
LEMMA WriteGoesOnward ==
  ASSUME IInv, LastIsBehind, NEW r \in Runs, WriteOrder(r)
  PROVE  GoesOnward(run[r], run'[r])
<1> DEFINE z == run[r]
           left == z.todo \ {First(z.todo)}
<1>1. /\ z \in Run /\ z.pc = "write" /\ z.last < z.end /\ z.todo \in SUBSET (Orders \X Nat)
      /\ z.last \in Int /\ z.end \in Int
  BY DEF IInv, TypeOK, Run, WriteOrder, LastIsBehind
<1>2. PICK x : /\ run' = [run EXCEPT ![r] = x]
              /\ x = IF left = {} THEN PageDone(z) ELSE LessToDo(z, left)
  BY DEF WriteOrder, LessToDo
<1>3. run'[r] = x  BY <1>2 DEF IInv, TypeOK
<1>4. left \in SUBSET (Orders \X Nat)  BY <1>1
<1> HIDE DEF left, z
<1>5. CASE left = {}
  <2>1. x.pc \in {"complete", "fetch", "cut off"} /\ x.last \in {NoCursor, z.end}
    BY <1>1, <1>2, <1>5, PageDoneType
  <2>2. GoesOnward(z, x)  BY <1>1, <2>1 DEF GoesOnward
  <2> QED  BY <1>3, <2>2 DEF z
<1>6. CASE left # {}
  <2>1. x.pc = "write" /\ x.end = z.end /\ x.last = z.last
    BY <1>1, <1>2, <1>4, <1>6, LessToDoType
  <2>2. GoesOnward(z, x)  BY <1>1, <2>1 DEF GoesOnward
  <2> QED  BY <1>3, <2>2 DEF z
<1> QED  BY <1>5, <1>6

\* How a run begins and ends: with no place, or with the one it has.
LEMMA RestGoesOnward ==
  ASSUME IInv, NEW r \in Runs, Start(r) \/ MarkSync(r) \/ Fails(r)
  PROVE  GoesOnward(run[r], run'[r])
<1> DEFINE z == run[r]
<1>1. /\ z \in Run /\ z.last \in Int /\ z.since \in Int /\ run \in [Runs -> Run]
  BY DEF IInv, TypeOK, Run
<1>2. ASSUME NEW x, run'[r] = x, x.pc # "write", x.last \in {NoCursor, z.last}
      PROVE  GoesOnward(run[r], run'[r])
  BY <1>2 DEF GoesOnward
<1>3. CASE Start(r)
  <2> DEFINE since == IF Resuming THEN sync.since ELSE sync.watermark - Overlap
             cursor == IF Resuming THEN sync.cursor ELSE NoCursor
             x == Started(now, since, cursor)
  <2>1. run'[r] = x  BY <1>1, <1>3 DEF Start, Started
  <2>2. since \in Int /\ cursor \in Int /\ now \in Int
    BY Clocks DEF IInv, TypeOK, NoCursor
  <2>3. x = Started(now, since, cursor)  OBVIOUS
  <2> HIDE DEF x, since, cursor
  <2>4. x.pc = "fetch" /\ x.last = NoCursor  BY <2>2, <2>3, StartedType
  <2> QED  BY <1>2, <2>1, <2>4
<1>4. CASE FetchFails(r) \/ WriteFails(r)
  <2> DEFINE x == CutOff(z)
  <2>1. run'[r] = x  BY <1>1, <1>4 DEF FetchFails, WriteFails
  <2>2. x = CutOff(z)  OBVIOUS
  <2> HIDE DEF x, z
  <2>3. x.pc = "cut off" /\ x.last = z.last  BY <1>1, <2>2, CutOffType
  <2> QED  BY <1>2, <2>1, <2>3
<1>5. CASE MarkSync(r)
  <2>1. run'[r] = NoRun  BY <1>1, <1>5 DEF MarkSync
  <2>2. NoRun.pc = "idle" /\ NoRun.last = NoCursor  BY DEF NoRun
  <2> QED  BY <1>2, <2>1, <2>2
<1>6. CASE Crash(r)
  <2>1. run'[r] = [NoRun EXCEPT !.pc = "down"]  BY <1>1, <1>6 DEF Crash
  <2>2. run'[r].pc = "down" /\ run'[r].last = NoCursor  BY <2>1 DEF NoRun
  <2> QED  BY <1>2, <2>2
<1> QED  BY <1>3, <1>4, <1>5, <1>6 DEF Fails

\* Every step takes every run onward, or leaves it.
LEMMA AllGoOnward ==
  ASSUME IInv, LastIsBehind, [Next]_vars, NEW r \in Runs
  PROVE  GoesOnward(run[r], run'[r])
<1>1. ASSUME run'[r] = run[r]  PROVE GoesOnward(run[r], run'[r])
  BY <1>1 DEF GoesOnward, LastIsBehind
<1>2. CASE \/ Tick \/ (\E S \in SUBSET Orders : Change(S))
           \/ (\E p \in sent : ApplyOrder(p[1], p[2]))
           \/ (\E o \in Orders : Hydrate(o))
           \/ HydrateWrite \/ HydrateGivesUp
  BY <1>1, <1>2, TimePasses, MirrorMoves
<1>3. CASE UNCHANGED vars  BY <1>1, <1>3 DEF vars
<1>4. ASSUME NEW q \in Runs, Start(q) \/ Step(q) \/ Fails(q)
      PROVE  GoesOnward(run[r], run'[r])
  <2>1. CASE q = r
    BY <1>4, <2>1, FetchGoesOnward, WriteGoesOnward, RestGoesOnward DEF Step
  <2>2. CASE q # r
    <3>1. \E x : run' = [run EXCEPT ![q] = x]
      <4>1. CASE WriteOrder(q)  BY <4>1 DEF WriteOrder
      <4>2. CASE ~WriteOrder(q)  BY <1>4, <4>2, QuietSteps DEF Step
      <4> QED  BY <4>1, <4>2
    <3>2. run'[r] = run[r]  BY <2>2, <3>1 DEF IInv, TypeOK
    <3> QED  BY <1>1, <3>2
  <2> QED  BY <2>1, <2>2
<1> QED  BY <1>2, <1>3, <1>4 DEF Next

\* A run never asks again for what it was given: each page ends after the place
\* it was asked from, and the place a run will leave as cursor only moves
\* forward, though orders change, and move in the list, while it is walked
\* (reconcile-pages.ts).
PagesGoOnward ==
  [][\A r \in Runs :
       /\ run[r].pc = "fetch" /\ run'[r].pc = "write" => run'[r].end > run[r].cursor
       /\ run'[r].last \notin {NoCursor, run[r].last} => run'[r].last > run[r].last]_vars

\* The walk through the shop's list goes onward whatever changes in the list.
THEOREM RunsGoOnward == Spec => PagesGoOnward
<1> DEFINE A == \A r \in Runs :
                  /\ run[r].pc = "fetch" /\ run'[r].pc = "write" => run'[r].end > run[r].cursor
                  /\ run'[r].last \notin {NoCursor, run[r].last} => run'[r].last > run[r].last
<1>1. Init => LastIsBehind
  <2> SUFFICES ASSUME Init  PROVE LastIsBehind
    OBVIOUS
  <2>1. \A r \in Runs : run[r] = NoRun  BY DEF Init
  <2>2. NoRun.pc = "idle"  BY DEF NoRun
  <2> QED  BY <2>1, <2>2 DEF LastIsBehind
<1>2. IInv /\ LastIsBehind /\ [Next]_vars => LastIsBehind'
  BY AllGoOnward DEF GoesOnward, LastIsBehind
<1>3. IInv /\ LastIsBehind /\ [Next]_vars => [A]_vars
  BY AllGoOnward DEF GoesOnward
<1> QED  BY <1>1, <1>2, <1>3, Invariance, PTL DEF Spec, PagesGoOnward
=============================================================================
