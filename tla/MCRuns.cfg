SPECIFICATION Spec
CONSTANTS
  Runs = {r1, r2}
  Notices = {n1}
  Workers = {w1}
  Tokens = {k1}
  Semantics = {s1}
  Churn = {c1, c2}
  Scopes = {"all_pending", "new", "changed"}
  MaxContext = 1
  ClaimLimit = 1
  SliceSize = 1
  GlobalCap = 1
  LeaseTicks = 1
  HardAge = 0
  MaxTickets = 1
  MaxBatch = 1
  NoToken = NoToken
  NoWorker = NoWorker
  NoBasis = NoBasis
  NoResult = NoResult
INVARIANTS SkippedHasEvidence
