SPECIFICATION Spec
CONSTANTS
  Plans <- LanePlan
  Commits <- CommitsValue
  Base <- BaseOf
  Rank <- RankOf
  Workstreams <- WorkstreamsValue
  Overlap <- OverlapValue
  Needs <- NeedsValue
  Heartbeats = {"pre_merge", "cancelled"}
  Priorities = {10, 50}
  DeployIds = {1, 2}
  Outcomes = {"merged", "closed"}
  Keys = {1, 2}
INVARIANT LaneIsShared
CHECK_DEADLOCK FALSE
