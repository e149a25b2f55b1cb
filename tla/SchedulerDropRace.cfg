CONSTANTS
  Thread = {t1, t2}
  MaxSlots = 3
  MaxActive = 1
  MaxQueued = 1
SPECIFICATION Spec
SYMMETRY ThreadSymmetry
INVARIANT ExactAccounting
CHECK_DEADLOCK FALSE
