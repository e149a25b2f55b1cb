CONSTANTS
  Thread = {0}
  MaxSlots = 2
  MaxActive = 2
  MaxQueued = 0
  Context = {0, 1}
  MaxSlices = 3
  MaxCancels = 0
  Hosts <- CallingHosts
SPECIFICATION FairSpec
PROPERTY AnswerResumes
CHECK_DEADLOCK FALSE
