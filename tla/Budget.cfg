CONSTANTS
  Word = 7
  Amount = {0, 1, 2, 7}
  Configs <- MCConfigs
  MaxEffects = 3
  MaxRuns = 2
SPECIFICATION Spec
INVARIANTS BooksBalance EffectsArePaid
PROPERTIES WithinLimits OnlyFuelIsRenewed
CHECK_DEADLOCK FALSE
