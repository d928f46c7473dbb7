\* Three requests in every environment.
SPECIFICATION FairSpec
CONSTANTS
  Requests = {q1, q2, q3}
  Environments <- Every
  TicksPerSecond = 2
  AccessTtl = 1
  RefreshTtl = 1
  MaxNow = 2
  None = None
INVARIANTS
  InductiveInv
  CookieBacked
  LogoutRevokesIfRedisAnswers
  CalmSessionsAreChains
PROPERTIES
  AdmitsOnlyUndenied
  RequestsEnd
