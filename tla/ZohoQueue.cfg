SPECIFICATION FairSpec
CONSTANTS
  p1 = p1
  p2 = p2
  Payments = {p1, p2}
  RequestOf <- MCRequestOf
  Workers = {w1, w2}
  Nobody = Nobody
  Nothing = Nothing
  MaxAttempts = 2
  MaxStops = 1
  MaxRetries = 1
  MaxMisreads = 1
INVARIANTS TypeOK PostedIsRecorded
PROPERTIES KeepsPromise QueueDrains
CHECK_DEADLOCK FALSE
