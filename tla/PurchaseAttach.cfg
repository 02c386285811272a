CONSTANTS
  None = None
  Failed = Failed
  Scenarios = {"all"}
  Requests = {r1}
  Stock = {n1, n2}
  Service = "bandwidth"
  Campaign = FALSE
  MayAttach = TRUE
  Jobs = {j1, j2, j3}
  MaxAttempts = 2
  MaxErrors = 0
  MaxCrashes = 0
SPECIFICATION ScenarioSpec
CHECK_DEADLOCK FALSE
PROPERTIES AttachHonoured
