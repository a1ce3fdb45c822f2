\* Two runs under way together over two pages, of which a run reads one, and
\* two instants at which the shop changes.
SPECIFICATION FairSpec
CONSTANTS
  N = 2
  Runs = {s, m}
  Scheduled = s
  PageSize = 1
  MaxPages = 1
  Overlap = 1
  MaxAge = 9
  ClockLag = 1
  MaxTime = 2
INVARIANTS TypeOK NothingSlipsBy
PROPERTIES KeepsPromise CatchesUp
