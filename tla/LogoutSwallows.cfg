\* Redis fails while a logout verifies its access token.
SPECIFICATION Spec
CONSTANTS
  Requests = {q1, q2, q3}
  Environments <- Faultiest
  TicksPerSecond = 2
  AccessTtl = 1
  RefreshTtl = 1
  MaxNow = 1
  None = None
SYMMETRY RequestSymmetry
INVARIANTS
  LogoutRevokes
