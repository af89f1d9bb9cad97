SPECIFICATION Spec
CONSTANTS
  Runs = {r1}
  Notices = {n1}
  Workers = {w1}
  Tokens = {k1, k2, k3}
  Semantics = {s1, s2}
  Churn = {c1, c2}
  Scopes = {"all_pending"}
  MaxContext = 2
  ClaimLimit = 1
  SliceSize = 1
  GlobalCap = 1
  LeaseTicks = 1
  HardAge = 0
  MaxTickets = 2
  MaxBatch = 1
  NoToken = NoToken
  NoWorker = NoWorker
  NoBasis = NoBasis
  NoResult = NoResult
SYMMETRY Symmetry
INVARIANTS OpenWorkIsBound CompletionHasEvidence FreshUnlessReissued
