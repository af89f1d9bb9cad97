SPECIFICATION FairSpec
CONSTANTS
  Plans <- PlansValue
  Commits <- CommitsValue
  Base <- BaseOf
  Rank <- RankOf
  Workstreams <- WorkstreamsValue
  Overlap <- OverlapValue
  Needs <- NeedsValue
  Heartbeats = {"pre_merge", "cancelled"}
  Priorities = {10, 50}
  DeployIds = {1, 2}
  Outcomes = {"merged", "closed"}
  Keys = {1, 2}
INVARIANTS
  PromotionTypeOK
  PublishedIsBound
  AcceptanceIsEarned
  PreMergeIsEarned
  DeployedOnce
  WaitingIsStored
PROPERTIES
  
  DeploymentResolves
  ReadyDrains
CHECK_DEADLOCK FALSE
