\* The gateway with a backend of each kind; all is well again when nothing is left to do.
SPECIFICATION FairSpec
CONSTANTS
  Requests = {q1}
  Stores <- SomeStores
  Environments <- SomeEnvironments
  MaxFaults = 1
  None = None
CHECK_DEADLOCK FALSE
INVARIANTS
  InductiveInv
  ServesOnlyReady
  TraceTellsTruth
  AnswersHonest
PROPERTIES
  EverythingSettles
