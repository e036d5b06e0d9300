\* Two requests, four attempts, two changes of the password.
CONSTANTS
  r1 = r1
  r2 = r2
  Request <- TwoRequests
  MaxAttempts = 4
  MaxPassword = 2
SYMMETRY Symmetry
SPECIFICATION Spec
INVARIANTS
  OneWayIn
  EndedPasswordIsLate
  GuessesBounded
CHECK_DEADLOCK FALSE
