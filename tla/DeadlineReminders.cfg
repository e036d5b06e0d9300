\* Two tasks, one due date, one worker, one fault.
SPECIFICATION RemindersLiveSpec
CONSTANTS
  u1 = u1
  u2 = u2
  nobody = nobody
  t1 = t1
  t2 = t2
  nothing = nothing
  r1 = r1
  w1 = w1
  w2 = w2
  Assignee <- OneAccount
  NoAssignee = nobody
  Card <- TwoTasks
  NoCard = nothing
  Editor <- OneRequest
  Server <- OneServer
  MaxDate = 1
  MaxFaults = 1
INVARIANTS
  MarkedWasNotified
PROPERTIES
  ReminderComes
CHECK_DEADLOCK FALSE
