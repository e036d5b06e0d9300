\* Two messages, and two turns of the page or its connection.  When all are
\* used up it may stop.
CONSTANTS
  MaxMessages = 2
  MaxTurns = 2
SPECIFICATION ChatSpec
CHECK_DEADLOCK FALSE
INVARIANTS
  ChatTypeOK
  NoneTwice
  NothingElseMissed
  TicksAreTrue
  ShownIsRead
