CONSTANTS
  Name = {f, x}
  Data = {d1, d2}
  Module = {m}
  Cell = {c1, c2, c3}
  MaxScopes = 3
  MaxWork = 7
  NoCell = NoCell
  Unseen = Unseen
SPECIFICATION Spec
SYMMETRY AddressSymmetry
INVARIANTS RollbackRestores ScopesReturn FrameBaseMatches
CHECK_DEADLOCK FALSE
