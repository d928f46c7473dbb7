SPECIFICATION FairSpec
CONSTANTS
  Requests = {q1, q2}
  Spellings <- Addresses
  Normal <- Lowercase
  FaultSets <- OneSideAtATime
  None = None
INVARIANTS
  InductiveInv
  OneUserPerEmail
  PublishFindsExchange
  EventsMatchUsers
PROPERTIES
  QueuedUntilHandled
  SignUpsEnd
  QueuedIsHandled
