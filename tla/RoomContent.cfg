\* A room with its owner and one more account, one item of each kind.
SPECIFICATION Spec
CONSTANTS
  owner = owner
  u1 = u1
  nobody = nobody
  m1 = m1
  t1 = t1
  s1 = s1
  nothing = nothing
  r1 = r1
  r2 = r2
  Account <- Accounts
  Owner = owner
  NoAccount = nobody
  Message <- Messages
  Task <- Tasks
  Resource <- Resources
  NoItem = nothing
  Request <- TwoRequests
INVARIANTS
  OrphanIsLate
  ErasedAuthorIsLate
SYMMETRY Symmetry
CHECK_DEADLOCK FALSE
