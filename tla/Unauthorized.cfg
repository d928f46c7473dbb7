\* A user who is signed in asks for the profile.
SPECIFICATION Spec
CONSTANTS
  Requests = {q1}
  Stores <- SomeStores
  Environments <- SomeEnvironments
  MaxFaults = 1
  None = None
CHECK_DEADLOCK FALSE
INVARIANTS
  UnauthorizedIsDeserved
