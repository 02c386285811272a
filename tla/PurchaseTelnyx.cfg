CONSTANTS
  None = None
  Failed = Failed
  Scenarios = {"all"}
  Requests = {r1, r2}
  Stock = {n1, n2, n3}
  Service = "telnyx"
  Campaign = TRUE
  MayAttach = FALSE
  Jobs = {j1, j2, j3}
  MaxAttempts = 2
  MaxErrors = 0
  MaxCrashes = 1
SPECIFICATION ScenarioSpec
SYMMETRY PurchaseSymmetry
CHECK_DEADLOCK FALSE
INVARIANTS StepsDone
PROPERTIES ImplementsPool
