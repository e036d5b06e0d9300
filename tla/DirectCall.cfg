\* Two accounts, two calls, one reload or lost message.  Nobody may call: it may stop.
CONSTANTS
  a = a
  b = b
  s1 = s1
  MaxCalls = 2
  MaxFaults = 1
  None = None
  Account <- Accounts
  Slot <- Slots
SYMMETRY Symmetry
SPECIFICATION CallSpec
CHECK_DEADLOCK FALSE
INVARIANTS
  CallTypeOK
  CameraOff
  CallHasConnection
  CandidatesArrive
  NobodyTalksAlone
