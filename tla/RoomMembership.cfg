\* Three outsiders, a room for three, two requests at a time.
SPECIFICATION Spec
CONSTANTS
  owner = owner
  u1 = u1
  u2 = u2
  u3 = u3
  nobody = nobody
  r1 = r1
  r2 = r2
  User <- Accounts
  Owner = owner
  NoUser = nobody
  Admitted <- CodeHolders
  Request <- TwoRequests
  MaxMembers = 3
  MaxProgress = 1
  MaxVersion = 2
INVARIANTS
  CapacityKept
  OwnerKeepsItsPlace
PROPERTIES
  OwnerFlagUntouched
SYMMETRY Symmetry
CHECK_DEADLOCK FALSE
