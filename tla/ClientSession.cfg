\* One tab with two calls at a time, one login, one lost answer.
SPECIFICATION LiveSpec
CONSTANTS
  t1 = t1
  s1 = s1
  s2 = s2
  Tab <- OneTab
  Slot <- TwoSlots
  MaxTokens = 3
  MaxLogins = 1
  MaxLosses = 1
  MayLimit = TRUE
INVARIANTS
  ReuseMeansTheft
PROPERTIES
  UnauthorizedIsDefinitive
  EveryCallSettles
CHECK_DEADLOCK FALSE
