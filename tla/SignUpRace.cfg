SPECIFICATION Spec
CONSTANTS
  Requests = {q1, q2}
  Spellings <- Addresses
  Normal <- Lowercase
  FaultSets <- Nothing
  None = None
INVARIANTS
  TakenIsConflict
