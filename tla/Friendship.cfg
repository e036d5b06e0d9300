\* Two accounts, two requests at a time.
CONSTANTS
  a = a
  b = b
  r1 = r1
  r2 = r2
  NoPair = NoPair
  Account <- Accounts
  Request <- Requests
SYMMETRY Symmetry
SPECIFICATION FriendshipSpec
INVARIANTS
  FriendshipTypeOK
  FriendsAreMutual
  NoticeAsksForAnswer
  OneWaits
