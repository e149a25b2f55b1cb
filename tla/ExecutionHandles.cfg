CONSTANTS
  Thread = {0, 1}
  MaxSlots = 3
  MaxActive = 2
  MaxQueued = 1
  Context = {0, 1, 2}
  MaxSlices = 2
  MaxCancels = 1
  Hosts <- LiveHosts
SPECIFICATION LiveSpec
INVARIANTS SlicesTakeTurns BoundedBypass NoSessionLeak
PROPERTIES ImplementsScheduler EveryoneFinishes
CHECK_DEADLOCK FALSE
