\* Two instances behind one gateway, uploads racing with a read of their ids.
SPECIFICATION FairSpec
CONSTANTS
  Gateways = {g1}
  Instances = {i1, i2}
  Uploads = {u1, u2}
  Reads = {q1}
  Files <- SomeFiles
  Limit = 2
  MaxBytes = 1
  FaultSets <- OneKindAtATime
  None = None
INVARIANTS
  InductiveInv
  RecordsBacked
  CreatedIsReadable
PROPERTIES
  SomeInstanceServes
  MediaRequestsEnd
