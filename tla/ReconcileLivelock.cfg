\* A backlog longer than one run, after an outage longer than RESUME_MAX_AGE_MS.
SPECIFICATION FairSpec
CONSTANTS
  N = 2
  Runs = {s}
  Scheduled = s
  PageSize = 1
  MaxPages = 1
  Overlap = 1
  MaxAge = 2
  ClockLag = 1
  MaxTime = 2
PROPERTIES CatchesUp
