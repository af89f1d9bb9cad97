SPECIFICATION FairTasksSpec
CONSTANTS
  Runs = {r1}
  Notices = {n1}
  Workers = {w1}
  Tokens = {k1}
  Semantics = {s1}
  Churn = {c1}
  Scopes = {"all_pending"}
  MaxContext = 2
  ClaimLimit = 1
  SliceSize = 1
  GlobalCap = 1
  LeaseTicks = 1
  HardAge = 0
  MaxTickets = 1
  MaxBatch = 1
  NoToken = NoToken
  NoWorker = NoWorker
  NoBasis = NoBasis
  NoResult = NoResult
INVARIANTS TasksTypeOK FinishedRunsAreDone
PROPERTIES ExhaustedRunsAreClosed
