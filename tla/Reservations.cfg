SPECIFICATION Spec
CONSTANTS
  Bookings = {b1, b2}
  Calls = {c1, c2}
  Closes = 5
  MinLength = 1
  MaxLength = 2
  Step = 2
  Changeover = 1
  Blackouts <- MCBlackouts
  Clock = {2}
  None = None
SYMMETRY Symmetry
INVARIANTS TypeOK NoDoubleBooking SearchAgrees NextFreeIsEarliest
PROPERTIES AnswersSurvive
CHECK_DEADLOCK FALSE
