CONSTANTS
  Waker = {w1, w2}
  NoWaker = NoWaker
  MaxSets = 2
  Job = {j1, j2, j3}
  MaxQueued = 2
  Mine = j1
SPECIFICATION AdapterSpec
INVARIANTS AnswerIsKept CountCoversJobs
PROPERTY WakesArrive
CHECK_DEADLOCK FALSE
