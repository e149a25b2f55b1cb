CONSTANTS
  Scripts <- TwoRuns
  Rooms = {0, 3, 4, 10}
  SliceFuel = 2
  QueueLimit = 3
  ChargeFlush = 2
  MaxResends = 2
SPECIFICATION Spec
INVARIANTS ReportsAreTrue EventsAddUp TriplesWhole
PROPERTY Returns
CHECK_DEADLOCK FALSE
