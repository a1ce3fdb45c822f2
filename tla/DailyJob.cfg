SPECIFICATION FairSpec
CONSTANTS
  Processes = {p1, p2, p3}
  Nobody = Nobody
  Intervals = 3
INVARIANTS TypeOK OneAtATime RecordedOnce RecordIsTrue QuietDayIsDone
PROPERTIES LeaseComesFree
