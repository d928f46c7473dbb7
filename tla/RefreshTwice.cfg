\* Two refreshes with one token, nothing fails.
SPECIFICATION Spec
CONSTANTS
  Requests = {q1, q2, q3}
  Environments <- Overlaps
  TicksPerSecond = 2
  AccessTtl = 1
  RefreshTtl = 1
  MaxNow = 1
  None = None
SYMMETRY RequestSymmetry
INVARIANTS
  RotatesOnce
