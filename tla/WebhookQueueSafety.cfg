\* One event, two workers, stable ids, two stops and a replay.
SPECIFICATION Spec
CONSTANTS
  Events = {e1}
  Workers = {w1, w2}
  e1 = e1
  w1 = w1
  w2 = w2
  NoWorker = NoWorker
  Former = Former
  NoEvent = NoEvent
  MaxAttempts = 3
  LeaseTicks = 2
  Poison = {}
  StableId = TRUE
  MaxStops = 2
  MaxReplays = 1
SYMMETRY Symmetry
INVARIANTS TypeOK BudgetRespected AnnouncedByOne
PROPERTIES LiveClaimIsRespected KeepsPromise
\* Once every event is retired and the bounds are spent nothing is left to do.
CHECK_DEADLOCK FALSE
