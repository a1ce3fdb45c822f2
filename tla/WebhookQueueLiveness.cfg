\* Two events, one of which kills its worker; every restart has a new id.
SPECIFICATION FairSpec
CONSTANTS
  Events = {e1, e2}
  Workers = {w1}
  e1 = e1
  e2 = e2
  w1 = w1
  NoWorker = NoWorker
  Former = Former
  NoEvent = NoEvent
  MaxAttempts = 2
  LeaseTicks = 1
  Poison = {e2}
  StableId = FALSE
  MaxStops = 1
  MaxReplays = 1
PROPERTIES KeepsPromiseFairly PoisonIsRetired
\* Once every event is retired and the bounds are spent nothing is left to do.
CHECK_DEADLOCK FALSE
