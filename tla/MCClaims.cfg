SPECIFICATION Spec
CONSTANTS
  Runs = {r1}
  Notices = {n1, n2}
  Workers = {w1, w2}
  Tokens = {k1, k2, k3}
  Semantics = {s1}
  Churn = {c1}
  Scopes = {"all_pending"}
  MaxContext = 1
  ClaimLimit = 2
  SliceSize = 1
  GlobalCap = 2
  LeaseTicks = 2
  HardAge = 1
  MaxTickets = 2
  MaxBatch = 2
  NoToken = NoToken
  NoWorker = NoWorker
  NoBasis = NoBasis
  NoResult = NoResult
SYMMETRY Symmetry
INVARIANTS TypeOK ClaimColumns FinishedRunsAreDone ReservationsAge
PROPERTIES LedgerSpec
