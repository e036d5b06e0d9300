\* Three members, a call for two, three clicks on "join", one move or loss.
CONSTANTS
  amy = amy
  bob = bob
  cat = cat
  None = None
  MaxPeers = 2
  MaxJoins = 3
  MaxTurns = 1
  Account <- Accounts
SYMMETRY Symmetry
SPECIFICATION VideoSpec
CHECK_DEADLOCK FALSE
INVARIANTS
  VideoTypeOK
  ShownIsIn
  MeshIsComplete
  CameraOff
