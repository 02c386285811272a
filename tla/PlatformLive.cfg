CONSTANTS
  b1 = b1 b2 = b2 r1 = r1 r2 = r2 r3 = r3 p1 = p1 p2 = p2 l1 = l1 l2 = l2
  a1 = a1 a2 = a2 a3 = a3
  Parts = {"delivery", "twilio", "inbound", "hydration", "registration"}
  \* MessageDelivery
  None = None Failed = Failed Own = Own
  Messages = {m1}
  Service = "telnyx"
  Events = {"delivered"}
  Unknown = {}
  Copies = 1
  Batches = {b1}
  MaxAttempts = 2
  ForwardAttempts = 1
  OwnAttempts = 1
  TrackCost = FALSE
  MaxErrors = 1
  MaxCrashes = 0
  \* NumberRetirement
  Nil = Nil
  Rows = {r1, r2, r3}
  Phones = {p1, p2}
  PhoneOf <- PhonesOfRows
  Places = {l1, l2}
  PlaceOf <- PlacesOfRows
  Contacts = {c1}
  Seller = "twilio"
  SellAttempts = 2
  SaleErrors = 1
  SaleCrashes = 0
  \* InboundMessages
  Texts = {t1}
  Malformed = {}
  Posts = 2
  InboundAttempts = 2
  InboundFaults = 2
  \* MessageChannels
  Outbound = {m1, m2}
  Locations = {l1}
  Located = {l1}
  Limit = 1
  MaxNumbers = 1
  ChannelAttempts = 2
  ChannelFaults = 1
  NoLocation = NoLocation
  \* Lookups
  Requests = {q1}
  Http = h
  Numbers = {n1}
  LookupAttempts = 2
  LookupFaults = 1
  \* AreaCodes
  Near <- NearHere
  Far <- FarFromHere
  Prefilled = {a1}
  MaxSearches = 1
  Strategy = "same-state-by-distance"
  MinSuitable = 3
  RefreshEvery = 2
  MaxStock = 4
  FindAttempts = 2
  AreaFaults = 1
  Unestimated = Unestimated
  \* Hydration
  Procs = {w1, w2}
  Indexes = {i1}
  Rehydrations = 0
  Flushes = 0
  HydrationFaults = 1
  Nobody = Nobody
  \* UsageRollups
  Usages = {u1}
  Inbound = {}
  Day = 1
  Clients = {d1}
  Looked = {n1}
  LastHour = 2
  NotYet = NotYet
  \* Registration
  Calls = {k1, k2, k3}
  Invalid = {k3}
  Profiles = 1
  PoolSize = 1
  RegistrationFaults = 1
SPECIFICATION FairPlatformSpec
\* The parts end: their counters are bounded.
CHECK_DEADLOCK FALSE
PROPERTIES
  EventuallyTold FailureTold EventuallySold EventuallyForwarded CallReturns
  RegisterAnswered
