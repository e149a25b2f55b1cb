CONSTANTS
  Thread = {t1}
  MaxSlots = 5
  MaxActive = 2
  MaxQueued = 2
SPECIFICATION FairSpec
INVARIANTS ExactAccounting NeverOversubscribed QueueMatchesMirrors NoOvertaking RunTurnLive
PROPERTIES ImplementsAdmission NoStarvation
CHECK_DEADLOCK FALSE
