SPECIFICATION BackendSpec
CONSTANTS
  Connectors = {"a", "b"}
  Records = {1, 2, 3, 4}
  Countdown = {1}
  Runs = {1, 2, 3}
  PageSize = 1
  K = {1,2,3,4,5,6,7,8,9,10,11,12,13}
  DetailLimit = 1
  Plans <- PlansValue
  Users = {1, 2}
  Scenes <- ScenesValue
  Notices = {1, 2}
  Versions = {1, 2, 3}
  Requests = {1, 2}
  Leases = {1, 2}
  Pendings = {1}
  Opps = {1, 2}
  S = {1, 2, 3, 4, 5, 6, 7, 8, 9, 10, 11, 12, 13, 14, 15, 16}
  Loads <- LoadsValue
  Shares <- SharesValue
  Setups <- SetupsValue
INVARIANTS
  BackendTypeOK
  RevisionsAreSemantic
  SuccessIsComplete
  OneScheduledRun
  AcceptedMeansPassed
  FlagFollowsReview
  CasesAreProtected
  OutcomeIsTold
  PlanSuffices
PROPERTIES
  DeadlineMovesWithRevision
  DetailsAreKept
  CompleteMeansStored
  DueIsDispatched
  AutomationComesBack
  OneActiveContext
  CommandsAreAccounted
CHECK_DEADLOCK FALSE
