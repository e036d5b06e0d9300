\* Four passwords, two of them remembered, two changes at a time.
SPECIFICATION Spec
CONSTANTS
  p1 = p1
  p2 = p2
  p3 = p3
  p4 = p4
  r1 = r1
  r2 = r2
  Password <- FourPasswords
  Request <- TwoRequests
  History = 2
  MaxVersion = 1
  MaxRevision = 4
  MaxLinks = 2
INVARIANTS
  ResetLinkOnce
PROPERTIES
  ReplacedIsRemembered
  AtomicChanges
SYMMETRY Symmetry
CHECK_DEADLOCK FALSE
