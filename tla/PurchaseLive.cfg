CONSTANTS
  None = None
  Failed = Failed
  Scenarios = {"all"}
  Requests = {r1, r2}
  Stock = {n1, n2}
  Service = "telnyx"
  Campaign = TRUE
  MayAttach = FALSE
  Jobs = {j1, j2, j3}
  MaxAttempts = 2
  MaxErrors = 1
  MaxCrashes = 0
SPECIFICATION FairScenarioSpec
CHECK_DEADLOCK FALSE
PROPERTIES EventuallySettled
