CONSTANTS
  m1 = m1 m2 = m2 m3 = m3 alice = alice bob = bob None = None
  Scenarios = {"requests", "flush"}
  Messages = {m1, m2, m3}
  Contacts = {alice, bob}
  ContactOf <- MCContactOf
  Known <- Strangers
  Numbers = {}
  Requests = {r1, r2}
  ContactLimit = 0
  MaxAttempts = 2
  Concurrency = 2
  Timely = TRUE
  MaxErrors = 0
  MaxCrashes = 0
  MaxFlushes = 1
SPECIFICATION ScenarioSpec
SYMMETRY RequestSymmetry
CHECK_DEADLOCK FALSE
INVARIANTS AwaitingXorRouted NoneStranded PendingExact NoRequestForNobody OnlyBought
