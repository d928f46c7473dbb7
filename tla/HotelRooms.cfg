\* Every endpoint, creates racing with the calls that name the new room.
SPECIFICATION FairSpec
CONSTANTS
  Hotels = {h1}
  Rooms = {r1}
  Requests = {q1, q2, q3}
  Endpoints <- AllEndpoints
  PoolSize = 2
  None = None
INVARIANTS
  InductiveInv
  OneWriterPerRoom
  ReservationsExclusive
  ReserveBodyTruthful
  PoolNeverStuck
PROPERTIES
  ImplementsAtomicRooms
  EveryRequestEnds
