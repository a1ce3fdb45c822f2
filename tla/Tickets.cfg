SPECIFICATION Spec
CONSTANTS
  MaxItems = 2
  Workers = {w1, w2}
  Nobody = Nobody
  Calls = {c1, c2}
  Fast = {2}
SYMMETRY Symmetry
INVARIANTS TypeOK BlockedIsAwaited
PROPERTIES FollowsTheTable AssignedKnowingly
CHECK_DEADLOCK FALSE
