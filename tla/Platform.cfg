CONSTANTS
  b1 = b1 b2 = b2 r1 = r1 r2 = r2 r3 = r3 p1 = p1 p2 = p2 l1 = l1 l2 = l2
  a1 = a1 a2 = a2 a3 = a3
  Parts = {"faults", "tagged", "overlap", "twilio", "bandwidth", "mappings", "inbound",
           "channels", "lookups", "search", "exact", "hydration", "usage",
           "registration"}
  \* MessageDelivery
  None = None Failed = Failed Own = Own
  Messages = {m1}
  Service = "telnyx"
  Events = {"sent", "delivered", "unknown"}
  Unknown = {"unknown"}
  Copies = 2
  Batches = {b1, b2}
  MaxAttempts = 2
  ForwardAttempts = 2
  OwnAttempts = 2
  TrackCost = TRUE
  MaxErrors = 1
  MaxCrashes = 1
  \* NumberRetirement
  Nil = Nil
  Rows = {r1, r2, r3}
  Phones = {p1, p2}
  PhoneOf <- PhonesOfRows
  Places = {l1, l2}
  PlaceOf <- PlacesOfRows
  Contacts = {c1}
  Seller = "twilio"
  SellAttempts = 2
  SaleErrors = 1
  SaleCrashes = 1
  \* InboundMessages
  Texts = {t1, t2}
  Malformed = {t2}
  Posts = 2
  InboundAttempts = 2
  InboundFaults = 2
  \* MessageChannels
  Outbound = {m1, m2}
  Locations = {l1, l2, l3}
  Located = {l1}
  Limit = 2
  MaxNumbers = 2
  ChannelAttempts = 2
  ChannelFaults = 1
  NoLocation = NoLocation
  \* Lookups
  Requests = {q1, q2}
  Http = h
  Numbers = {n1}
  LookupAttempts = 2
  LookupFaults = 2
  \* AreaCodes
  Near <- NearHere
  Far <- FarFromHere
  Prefilled = {a1}
  MaxSearches = 2
  Strategy = "same-state-by-distance"
  MinSuitable = 3
  RefreshEvery = 2
  MaxStock = 4
  FindAttempts = 2
  AreaFaults = 1
  Unestimated = Unestimated
  \* Hydration
  Procs = {w1, w2}
  Indexes = {i1, i2}
  Rehydrations = 1
  Flushes = 1
  HydrationFaults = 1
  Nobody = Nobody
  \* UsageRollups
  Usages = {u1, u2}
  Inbound = {u2}
  Day = 1
  Clients = {d1, d2}
  Looked = {n1}
  LastHour = 3
  NotYet = NotYet
  \* Registration
  Calls = {k1, k2, k3}
  Invalid = {k3}
  Profiles = 2
  PoolSize = 2
  RegistrationFaults = 2
SPECIFICATION PlatformSpec
\* The parts end: their counters are bounded.
CHECK_DEADLOCK FALSE
INVARIANTS
  SendingsAgree ReportsAccounted
  SalesAgree CordonedMappingsAgree
  AnsweredIsKept DeliveredOnce
  LocationsWithinLimit
  LookedUpOnce AccessAccounted
  SearchOutward BeliefRefreshed
  HydrationSound
  BilledOnce
  RegisteredWhole
PROPERTIES ImplementsPromise ChannelsImplementLifecycle
