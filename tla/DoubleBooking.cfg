\* Overlapping cancels, nothing fails.
SPECIFICATION Spec
CONSTANTS
  Rooms = {r1}
  Creates = {c1, c2, c3}
  Cancels = {x1, x2}
  Directs = {}
  Environments <- OnlyOverlaps
  None = None
SYMMETRY KindSymmetry
INVARIANTS
  NoDoubleBooking
