CONSTANTS
  None = None
  Failed = Failed
  Scenarios = {"three requests", "twilio"}
  Requests = {r1, r2, r3}
  Stock = {n1, n2}
  Service = "bandwidth"
  Campaign = FALSE
  MayAttach = FALSE
  Jobs = {j1, j2, j3, j4}
  MaxAttempts = 2
  MaxErrors = 1
  MaxCrashes = 0
SPECIFICATION ScenarioSpec
SYMMETRY PurchaseSymmetry
CHECK_DEADLOCK FALSE
INVARIANTS LiveOnce NothingOrphaned OneJobEach ClaimsExclude
