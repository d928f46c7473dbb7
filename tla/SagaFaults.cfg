\* Three creates when all is calm, and everything that can go wrong.
SPECIFICATION FairSpec
CONSTANTS
  Rooms = {r1}
  Creates = {c1, c2, c3}
  Cancels = {x1, x2}
  Directs = {d1}
  Environments <- CalmAndRough
  None = None
INVARIANTS
  InductiveInv
  HoldsMatchBookings
  AnswersHonest
  HeldForReason
  CalmNoDoubleBooking
PROPERTIES
  HandlersEnd
