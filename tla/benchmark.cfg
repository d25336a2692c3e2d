SPECIFICATION Spec
CONSTANTS
  c1 = c1
  c2 = c2
  Awaiters = {awaiter}
  Requests <- Entries
  Leaves <- Entries
  BatchMax = 3
  EntriesPerTick = 2
  Clients <- TwoClients
  MaxDraws = 2
SYMMETRY Symmetry
CHECK_DEADLOCK FALSE
INVARIANTS
  TypeOK
  HashesAtTheirIndex
  ConfirmedAreStored
  NoProofRefused
  DurationsMatchRequests
