CONSTANTS
  m1 = m1
  m2 = m2
  m3 = m3
  alice = alice
  bob = bob
  None = None
  Scenarios = {"all"} Messages = {m1, m2}
  Contacts = {alice, bob}
  ContactOf <- MCContactOf
  Known <- Strangers
  Numbers = {}
  Requests = {r1, r2}
  ContactLimit = 1
  MaxAttempts = 2
  Concurrency = 2
  Timely = TRUE
  MaxErrors = 0
  MaxCrashes = 0
  MaxFlushes = 0
SPECIFICATION ScenarioSpec
CHECK_DEADLOCK FALSE
INVARIANTS ClosedStaysOut
