\* Two sessions, two requests at a time, a history of one token and two
\* refreshes per session: the history overflows, the limit is reached, and
\* the server may stop at any time.
SPECIFICATION LiveSpec
CONSTANTS
  s1 = s1
  s2 = s2
  r1 = r1
  r2 = r2
  none = none
  Session <- TwoSessions
  NoSession <- none
  Request <- TwoRequests
  History = 1
  MaxRefresh = 2
  MaxTokens = 3
INVARIANTS
  CurrentTokenIsFresh
PROPERTIES
  RevocationIsFinal
  ReuseEndsFamily
CHECK_DEADLOCK FALSE
