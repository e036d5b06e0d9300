\* Three accounts, five connections, one call for two participants.
SPECIFICATION LiveSpec
CONSTANTS
  a1 = a1
  a2 = a2
  a3 = a3
  b1 = b1
  c1 = c1
  ann = ann
  bob = bob
  cy = cy
  v1 = v1
  v2 = v2
  none = none
  NoSocket = none
  MaxPeers = 2
  Socket <- Connections
  User <- Accounts
  UserOf <- AccountOf
  Room <- OneRoom
INVARIANTS
  CapKept
  EntryAccountedFor
PROPERTIES
  DeadEntryGoes
CHECK_DEADLOCK FALSE
