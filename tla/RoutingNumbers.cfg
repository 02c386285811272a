CONSTANTS
  m1 = m1 m2 = m2 m3 = m3 alice = alice bob = bob None = None
  Scenarios = {"numbers", "crash"}
  Messages = {m1, m2, m3}
  Contacts = {alice, bob}
  ContactOf <- MCContactOf
  Known <- Strangers
  Numbers = {n1}
  Requests = {r1}
  ContactLimit = 1
  MaxAttempts = 2
  Concurrency = 2
  Timely = TRUE
  MaxErrors = 1
  MaxCrashes = 1
  MaxFlushes = 0
SPECIFICATION ScenarioSpec
SYMMETRY RequestSymmetry
CHECK_DEADLOCK FALSE
INVARIANTS TypeOK UsageCovered LimitKnown
PROPERTIES ImplementsLifecycle RetriedOnlyIfBought
