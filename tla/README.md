# Switchboard in TLA+

Switchboard accepts text messages over GraphQL, decides which phone number each
one is sent from, buys numbers when it has too few, hands the messages to a telco
(Bandwidth, Telnyx or Twilio), and forwards replies and delivery reports to its
clients. It is an Express server and a graphile-worker process over one PostgreSQL
database, with Redis for what must be fast. Much of the logic is triggers and SQL
functions (`migrations/`, whose result is `schema-dump.sql`); the rest is the jobs of
`src/jobs`, run by many concurrent workers and retried when they fail.

This directory holds TLA+ modules of its core, TLC configurations that check them,
and theorems with proofs that `tlapm` checks. Paths below are relative to the
repository.

    tlc -workers 2 -config RoutingRequests.cfg MCMessageRouting
    tlc -workers 2 -config Platform.cfg MCPlatform
    tlapm MessageRoutingProofs.tla

## Inventory

| Component | State | Operations | What is hard | What makes it correct |
|---|---|---|---|---|
| Grey-route processing (`process-grey-route-message.ts`) | `outbound_messages_routing`, `outbound_messages_awaiting_from_number`, `phone_number_requests` | choose a number by mapping, by availability, by pending request, or by a new request | every decision is read, awaited on and used later by up to 200 concurrent handlers; retries after a crash | no message routed twice, lost, or left waiting for a number that was bought |
| Redis indexes (`src/lib/redis`, `lua/`) | sorted sets of numbers and requests, limits, hydrated profiles, a lock | hydrate, choose, count on insert events, flush | hydration races with the events; check-then-increment; memoized limits; a lock that times out; FLUSHALL on any connection error | counts never fall short of Postgres, limits are applied, no number is offered before it is bought, one caller hydrates and the others wait for it |
| Resolution (`resolve-messages-awaiting-from-number.ts`, fulfil trigger) | three delayed jobs per request | move every waiting message to the routing table in one statement | late inserts; a row that is in both tables | everything that waits is routed |
| From-number mappings (migration 20220913162302) | one active mapping per contact | upsert on routing, cordon, invalidate | triggers of concurrent transactions; a number chosen before it is sold | a contact keeps its number, and a cordon is never left behind |
| Jobs (`src/lib/worker.ts`) | `graphile_worker.jobs`, `worker.failed_jobs` | start, retry, park | last attempt, a worker that dies | no job is lost without a trace |
| Purchase pipeline (`purchase-number.ts`, `queue-next-step-in-purchase-number-pipeline.ts`, three more jobs) | `phone_number_requests`, `all_phone_numbers` | search, claim, check, order, poll, associate, complete | two requests choose one number; the order is outside the transaction; a step runs twice | one live number per request, through every step, none paid for and forgotten |
| 10DLC attachment (`attach_10dlc_campaign_to_profile`) | campaign of the profile | cordon, queue associations | purchases in flight; the profile cached for five minutes | numbers bought later are on the campaign |
| Caches (`src/models/cache`) | profile and account in Redis, five minutes | read through | stale decisions | |
| Message sending (`send-message.ts`) | `outbound_messages_telco` | check the deadline, call the telco, record the result, or the failure and its report | no transaction: a crash between any two statements; retries meet the rows of earlier attempts | sent once and recorded, or recorded as failed and reported |
| Delivery reports (`apis/delivery-reports.ts`, `resolve_delivery_reports`, `forward-delivery-report`) | `delivery_reports`, `unmatched_delivery_reports` | webhook, batch match, forward | a report before its message; overlapping batches; a retry the client has seen already | each report kept, matched and forwarded once |
| 10DLC and toll-free processing (`process-10dlc-message.ts`, `process_toll_free_message`) | as grey route | mapping, or the one number of a location; one statement for toll-free | the channel is cached; nothing waits, the job throws | a parked message is not routed as well |
| Inbound (`apis/replies.ts`, `forward-inbound-message.ts`) | `inbound_messages`, forward attempts | persist, answer, forward, retry | the telco posts what is not answered 200 again; the post to the client comes before its record | what is answered is stored, each row reaches the client |
| Number lifecycle (release, decommission and cordon triggers, `sell-number.ts`) | `all_phone_numbers`, `sending_locations`, mappings | cascade, queue the sale, sell, record | two triggers queue sales; the telco answers and the record fails; Redis keeps what was released | one sale per release, and none of a number bought again |
| Area codes (`find-suitable-area-codes.ts`, `estimate-area-code-capacity.ts`, `telco-data.ts`) | `sending_locations.area_codes`, `area_code_capacities` | search outward, estimate, count down, refresh | offsets of two searches; answers older than the purchases they overwrite | nearest first, enough numbers or all codes asked, beliefs refreshed |
| Lookups (`jobs/lookup.ts`, `apis/lookup.ts`, triggers of `lookup.accesses`) | requests, accesses, phone data | add, look up, mark done, close | the trigger rests an access on another's job; an answer is paid for before it is stored | an access waits for nothing but a job, no number is paid for twice without a fault |
| Provisioning (`ProvisionSendingLocations.ts`) | locations and their requests | create with a limit of 49 for 10DLC | a throw after the insert; two transactions that count | whole locations, within the limit |
| Billing (`generate_usage_rollups`, `incremental_rollup_backfill_from`) | hourly rollups | roll up, backfill | rows that arrive after their hour; a job that runs again | a message and a lookup are billed in one hour |
| Registration (`apis/admin.ts`) | clients, profiles, Telnyx messaging profiles, a pool | one transaction with calls to Telnyx inside | a rollback does not reach Telnyx; connections are not released | answered, and whole when answered 200 |
| Maintenance, cost backfill, HTTP plumbing | | | | |

How they interact: inserting a message fires a trigger that queues the process job of the
profile's channel; that job reads Redis (grey route) or the numbers of a location, inserts
a row, and `insert` emits an in-process event whose handlers update Redis. Inserting a
phone number request fires triggers that set its campaign and queue `purchase-number`.
Each purchase step commits together with the job for the next step. The last step sets
`fulfilled_at`, whose trigger makes the number live, counts the capacity of its area code
down and queues the resolve jobs. A routing row fires the triggers that keep the contact's
mapping and queue `send-message`. The telco's reports and texts come back through webhooks
whose rows queue the forwarding jobs. Releasing a number, or decommissioning its location,
queues `sell-number` and invalidates mappings; Redis is told of neither until it hydrates again.

## Modules

| Module | Models |
|---|---|
| `MessageLifecycle` | what a sender is promised: a message is accepted, waits or is routed, or is given up before anything is recorded; `MessageRouting` and `MessageChannels` implement it |
| `MessageRouting` | grey-route processing, the Redis indexes with their hydration and events, resolution, worker crashes, flushes |
| `MCMessageRouting` | three messages, two contacts, scenarios for TLC |
| `MessageRoutingProofs` | theorems of `MessageRouting` |
| `NumberPool` | what purchasing promises: a request is fulfilled once, with a number that was not live |
| `NumberPurchase` | the four purchase jobs, the telco, 10DLC attachment, the profile cache, crashes |
| `MCNumberPurchase` | symmetry and scenarios for TLC |
| `NumberPurchaseProofs` | theorems of `NumberPurchase` |
| `ReportPromise` | what a client is promised of delivery reports: it is told of events that happened and were recorded, and nothing is taken back |
| `MessageDelivery` | `send-message`, the report webhook, the batch that matches reports, `forward-delivery-report` |
| `MessageDeliveryProofs` | theorems of `MessageDelivery` |
| `NumberRetirement` | release, decommissioning, cordons, the sale, mappings, and routing with what Redis still lists |
| `NumberRetirementProofs` | theorems of `NumberRetirement` |
| `InboundMessages` | the webhook of texts, their rows, and their forwarding |
| `InboundProofs` | theorems of `InboundMessages` |
| `MessageChannels` | 10DLC and toll-free processing, and the creation of sending locations |
| `Lookups` | accesses, lookup jobs, stored data, requests, and the HTTP endpoint |
| `AreaCodes` | the search for area codes, the estimates of their capacity, and the purchases between |
| `Hydration` | the check, the lock and the second check around a hydration, for several processes |
| `UsageRollups` | the hourly rollups of messages and lookups, and the backfill |
| `LocationsProofs` | theorems of `MessageChannels` and `AreaCodes` |
| `RecordsProofs` | theorems of `Hydration`, `Lookups` and `UsageRollups` |
| `Registration` | `POST /register` |
| `RegistrationProofs` | theorems of `Registration` |
| `MCPlatform` | instances of the last nine state machines for TLC, one after the other |

`MessageRouting` sees a purchase as the one action `Fulfil`, and `NumberPurchase`
implements `NumberPool`, whose `Fulfil` is that step; the awaiting rows are the only
thing the two share and purchasing never reads them. The other machines share tables with
these two at their edges only: `MessageDelivery` begins with the routing row that `MessageRouting`
inserts (`TriggerSendMessage`), `NumberRetirement` has the end of a purchase as `Order` and `GoLive`
and the routing of one contact as `ReadMapping`, `Choose` and `InsertRouting`, `AreaCodes` has a
purchase as `RequestNumber` and `Fulfill`.

A definition above another that differs from it in one detail, such as `SentTooLate` above
`HandleMessageSent`, is a fault the code could plausibly have. Put in the place of the other, it
makes TLC report the property it belongs to (`mutants` in `PROJECT.json`); it is part of no
specification.

### MessageRouting

One profile, one sending location, one worker process with `Concurrency` handlers,
one day. `job`, `attempts` are the graphile-worker row of each message; `pc`,
`picked`, `first`, `idx`, `phase`, `snapUsage`, `snapPending` are the locals of its
running handler; `awaiting`, `routed`, `mapping`, `today`, `request`, `resolves` are
Postgres; `available`, `pending`, `closed`, `loaded`, `hydrated`, `lock` are Redis keys;
`handlersOn`, `memo`, `event`, `announce` belong to the process.

Each action is one database statement or one Redis command, so that every `await` of
the code is a point where others act:

* `LookupMapping`, `ChooseLocation`, `ChooseNumber`, `ChoosePending`, `CheckRequest`,
  `CreateRequest`, `InsertAwaiting`, `InsertRouting` follow `doProcessGreyRouteMessage`
  from top to bottom. `Throw` is an attempt that fails: retried, or parked by
  `failedJobParker` when it was the last.
* `CheckHydrated`, `TakeLock`, `Hydrate…`/`Read…`/`Write…`, `FinishHydration` are
  `ensureHydratedRedisForProfile`; a hydration's query and its `zadd` are separate.
* `AnnounceRequest`, `CheckClosed`, `CountAwaiting`, `CountUsage` are the event handlers,
  which run some time after the insert that emitted the event.
* `Fulfil`, `Resolve` are the fulfil trigger and its three jobs.
* `Crash` ends the worker process: handlers and events are lost, running jobs are
  retried, and those on their last attempt are dead. `Flush` is FLUSHALL.

Abstractions: the throughput limit is a free choice of "no number"; zip codes, area
codes, segments and send times are left out; sending locations do not change; the
number bought for request `r` is written `r`. `Timely` states what the delays of ten
seconds, one minute and five minutes are for: no handler sits for five minutes between
reading its request and inserting its awaiting row. The expiry of the hydration lock
and several worker processes are in `Hydration`; several days are left out. The bound on
requests makes a message wait in `CreateRequest` when all are used.

### NumberPurchase

`state` to `campaign` are the columns of each request; `live` counts the live rows of a
number in `all_phone_numbers`; `owned` is what the telco has sold to this account;
`status`, `job`, `attempts` are rows of graphile-worker; `pc` to `newOrder` are the
locals of a handler and the writes its transaction has not committed.

`purchase-number` is one action per call (`Search`, `Candidate`, `Claim`, `CheckLive`,
`Order`, `FinishPurchase`), because the telco's answer, another transaction's claim and
the end of another purchase all matter in between. Unique indexes are modelled as
Postgres does them: an update waits for a claim in flight and fails against a committed
one. The other steps touch only the row of their request, so one action stands for the
telco call and the transaction. `EndStep` is the wrapper every step shares: it reads the
cached profile, and completes the purchase or queues the next job with the row as its
payload, and commits. A crash after the commit (`status` is `"committed"`) runs the step
again.

Abstractions: one area code and at most one fallback; one sending location; an order
that succeeds is identified with its number; the telco sells a number once and lists only
unsold ones; other customers of the telco appear only as shorter lists. Once a campaign
is attached it stays.

### MessageDelivery

The jobs run without a transaction, so each query and each call is an action: the job of message
`m` is `status[m]`, `attempts[m]`, and `pc[m]` says what its handler does next. `ValidateSendBefore`,
`SendAccepted`, `SendAnswerLost`, `SendRefused`, `SendInvalidFromNumber` and `SendFails` are the
outcomes of the check and of the call; `HandleMessageSent`, `InsertFailed` and `InsertReport` the
inserts. `row[m]` is the row of `outbound_messages_telco`: a sending, or `Failed`. Its key makes a
second insert throw. The k-th sending the telco accepts has service id `<<m, k>>`: when an answer
is lost and the job retried, there are two sendings and one row.

`InsertDeliveryReport` is the webhook's transaction, `LoseDeliveryReport` an event without a type in
the code or a transaction that fails: both are answered 200, and `lost` remembers the second. The
batch is one statement, split where Postgres splits it: `BatchRead` fixes the rows of its snapshot,
`BatchCommit` deletes those still there and inserts all it matched. `ForwardOk`, `ForwardError`,
`ForwardUnreadable` and `ForwardCrash` are one attempt of a forwarding job each. `expired`, `midnight`
and `aged` are the moments the code compares with: `send_before`, the day of the cost, the day the
batch and the trigger look back.

Abstractions: text, media, price (as "known"), signature and body of a webhook; a report names its
sending, its event, and which of several identical posts it is.

### NumberRetirement

Rows are rows of `all_phone_numbers`: a phone bought again has another row. `Release` and `Decomission`
are an operator's update with all triggers it fires: sale jobs, `released_at` of the numbers of a
location, mappings. `Cordon`, `Uncordon`, `CordonAges` and `SellCordonedNumbers` are the updates
and functions of cordons. The sale is `StartSale`, the telco's answer (`SellAccepted`, `SellDisowned`,
`SellFails`) and `RecordSold`. `owned` is what the account pays for, at the telco; Bandwidth accepts an
order to disconnect and `Outcomes` allows it to come to nothing. `HydrateRead` and `HydrateWrite` fill
`listed` and `located` from the tables and remove nothing, as the code; `ReadMapping`, `Choose` and
`InsertRouting` are a message of a contact, whose number may be released between two of them.

### InboundMessages

`PostText` is the telco, which posts again what has had no 200 yet: two handlers may run for one text. `PresistIncomingMessage` (the
code's name) is the insert with the trigger's job, `Answer200` the answer, `Ignore` a short code or
an unknown number (`SI000` of the trigger), `Refuse` every other error, a crash and a lost answer.
The job posts first (`ClientTakes`, `ClientRefuses`), then records the attempt, then throws
when the client refused (`EndAttempt`); `ForwardFails` is a failure before, between or after.

### MessageChannels

`QueueMessage` gives a message the job of the profile's channel; `CheckChannel` asks the cache.
`ReadMapping10`, `ChooseNumber` and `InsertRow` are `process-10dlc-message` for one location chosen
freely; a location with no number or with several makes it throw, and so does a profile without
locations. Whether a mapping to a cordoned number was touched within three days is left open. `ProcessTollFree` is the SQL
function. `CreateSendingLocation` counts the requests its transaction can see and inserts;
`CommitCreate` and `RollbackCreate` end it. `Progress10` is how far the sender of a message
sees it come, for `MessageLifecycle`.

### Lookups

An access is a request and a number. `AddNumber` is the trigger's decision, `CommitAccess` the commit:
in between other transactions decide without seeing it. `PerformLookup`, `LookupAnswered` and
`StoreAnswer` are the job: its first statement, the call that is paid for, and the insert of what it
answered, whose trigger is `MarkDone`. `StartFails` and `LookupFails` are a fault before or after each of
them; `unstored` counts the answers lost on the way. `HttpMiss`, `HttpAccess`,
`HttpStore` and `HttpHangs` are the endpoint, which runs its two inserts side by side.

### AreaCodes

Codes are a sequence by distance, those of the state and the others. `StartSearch`, `Ask`,
`PersistFound`, `SaveFound`, `OtherStates`, `NotEnough` and `Enough` are the loop of
`find-suitable-area-codes` with its local variables; an attempt starts from nothing.
`AskEstimate` and `WriteEstimate` keep the telco's answer apart from its upsert, and `BreakEstimate` is
an attempt that fails with answers still to be written. `unseen` counts the purchases since an estimate was
asked for, `overwritten` the estimates written since then that purchases had overtaken. `Fulfill`
is the trigger that counts down and, each `RefreshEvery` purchases, asks for an estimate or a search.

### Hydration

`CheckIfHydrated`, `GetLock`, `Recheck`, `Load`, `RecordHydrationComplete`, `Unlock`, `EnsureAllHandlers`
and `ReadIndex` are `ensureHydratedRedisForProfile` and the call of an index. `LockExpires` is the
timeout of redis-lock; a holder whose time is up does not delete the key. `LoadFails` is what
`Promise.all` makes of a load that fails: the call throws and gives the lock back, while its other loads
run on and end some time later (`strays`, `StrayEnds`). `Rehydrate`,
`ResetAllHydrationState` (which flushes the lock too) and `Restart` are what else happens to Redis and to
a process. `torn` remembers that a lock was lost under a hydration that goes on.

### UsageRollups

Time is counted in hours. A message sent is created, processed and stamped (`Create`, `Process`,
`Stamp`), hours or days apart; a text that was received (`Inbound`) is stamped only. `Stamp` and `Insert` are apart: a text is stamped by the telco's clock and
inserted when its webhook succeeds. `GenerateUsageRollups` is the SQL function with its
`on conflict do nothing` and its window of a day around the creation of a message (`CreatedAround`), `Backfill` the function that stamps the messages of an hour anew.

### Registration

`Connect` takes a connection that nothing gives back; `ConnectFails` and `BeginFails` are outside of the
handler's `try`; `SetUpProfile` is the call of Telnyx, `InsertProfile` the rows; `RollbackRegistration` answers 500
and leaves at Telnyx what was made, or may have been made by the call that failed (`MayBeMade`).
Nothing answers when the rollback fails as well (`RollbackFails`) or the commit takes effect and
its answer is lost (`CommitUnanswered`: the rollback after it undoes nothing). `RestartServer`
frees the pool.

### MCPlatform

Each behaviour is one of `Parts`; the components it is not about rest, so a run explores the sum of
the components and not their product. They have no table in common, so nothing is lost by it.
`PlatformNext` says which next-state relation each part runs; three parts are
`MessageDelivery` with other constants (`faults`, `tagged`, `overlap`), three are `NumberRetirement`
(`twilio`, `bandwidth`, `mappings`), two are `AreaCodes` (`search`, `exact`). `Within` bounds them.

## Runs

Every run ends within the five minutes with two workers; `Platform` and `RoutingNumbers`, the
longest, take between two and three of them.

| Run | Instance | Shows |
|---|---|---|
| `RoutingRequests` | 3 messages, 2 contacts, 2 requests, limit 0, 2 handlers; once more with a FLUSHALL anywhere | `AwaitingXorRouted`, `NoneStranded`, `PendingExact`, `NoRequestForNobody`, `OnlyBought` |
| `RoutingNumbers` | a number that is owned, new contacts, hydration racing with inserts; once more with a crash and a failing statement | `TypeOK`, `UsageCovered`, `LimitKnown`, `ImplementsLifecycle`, `RetriedOnlyIfBought` |
| `RoutingLive` | fairness, no failure, 2 messages to a new contact and a known one, limit 1, 2 requests and 2 attempts, so that a message may meet a bought request at each of them and be parked | `EventuallyRouted` |
| `RoutingReadd` | | violates `ClosedStaysOut`: a retired request is added to the sorted set again |
| `PurchaseBandwidth` | 3 requests, 2 numbers, 4 jobs; once more with Twilio, a campaign attached meanwhile and a failing call | `LiveOnce`, `NothingOrphaned`, `OneJobEach`, `ClaimsExclude` |
| `PurchaseTelnyx` | 2 requests, 3 numbers, a campaign, one crash | `StepsDone`, `ImplementsPool` |
| `PurchaseLive` | fairness, one failing call | `EventuallySettled` |
| `PurchaseDeadCheck` | | violates `CheckStopsLive`: Bandwidth's check never finds a live number |
| `PurchaseAttach` | | violates `AttachHonoured`: a number bought across an attachment is not on the campaign |
| `Platform` | the parts below, 477 682 states | one property for each question that the table below asks |
| `PlatformLive` | fairness, five parts, 19 837 states | `EventuallyTold`, `FailureTold`, `EventuallySold`, `EventuallyForwarded`, `CallReturns`, `RegisterAnswered` |
| `RetirementMappings` | the part `mappings` | violates `MappingsLive`: a message makes a valid mapping to a number that was sold |

The parts of `Platform`:

| Part | Bounds | Properties |
|---|---|---|
| `faults` | 1 message, Telnyx, 2 attempts, 1 error, 1 crash, events sent and delivered | `SendingsAgree`, `ReportsAccounted`, `ImplementsPromise` |
| `tagged` | the same with Bandwidth, whose reports carry the message, and an event the code has no type for | the same |
| `overlap` | Twilio, 2 posts of a report, 2 batches, 1 rollback | the same |
| `twilio`, `bandwidth` | 2 rows of one phone in two locations, 2 attempts, 1 error, 1 crash | `SalesAgree` |
| `mappings` | 2 phones, 1 contact, cordons, no faults | `CordonedMappingsAgree` |
| `inbound` | 2 texts, one from a short code, 2 posts, 2 attempts, 2 faults | `AnsweredIsKept`, `DeliveredOnce` |
| `channels` | 2 messages, 3 locations of which 2 are created, limit 2, up to 2 numbers in one, 2 locations in use or 1 with a fault | `ChannelsImplementLifecycle`, `LocationsWithinLimit` |
| `lookups` | 2 requests and the endpoint for one number, 2 attempts and 2 faults, so that a job may be parked, or a number whose lookups overlapped or whose data went stale | `LookedUpOnce`, `AccessAccounted` |
| `search`, `exact` | 2 codes near, 1 far, 2 searches, a refresh every 2 purchases, 1 purchase open, or 1 fault with none | `SearchOutward`, `BeliefRefreshed` |
| `hydration` | 2 processes, 2 indexes, a rehydration, and a flush or a fault | `HydrationSound` |
| `usage` | 4 hours, a day of 1 hour, a message sent and one received, or 2 clients with a number | `BilledOnce` |
| `registration` | 3 calls, one of them invalid, 2 profiles, a pool of 2 | `RegisteredWhole` |

Some of these are conjunctions of several named statements, such as `SentOnce`, `VerdictsAgree`
and `CostIsOfRecorded` in `SendingsAgree`; each has its comment in its module.

Why the bounds are enough: two messages of one contact are needed for the mapping to be
written by one and read by the other, and a third for a second contact. The contact limit
0 is the smallest with the inclusive comparison of the code, and makes a second request
necessary at once. Two requests are the fewest of which one is full or fulfilled while
another is open. Two attempts distinguish a retry from the last attempt. Three requests
over two numbers are the fewest where two claims collide and a third loses both; three
numbers with two requests leave one over when a crash orphans an order. In
`MessageDelivery` messages share no row but the number their repair is for, so one message with all
faults says what many do; two batches and two posts are the fewest that overlap. Two rows of
one phone are the fewest of which one is sold again. Two creations are the fewest that pass a limit
together, and a limit of 2 with one location there leaves room for one of them. Two codes near and
one far have the offset of the first search differ from that of the second. Two processes compete
for a lock. With a day of one hour, four hours have a message that is sent more than a day after its
creation, and an hour after that in which it is still not billed.
Constants that bound the search (`MaxErrors`, `MaxCrashes`, `SaleErrors`, `InboundFaults`,
`Posts`, `Copies`, `Rows` and others) are named as bounds in the modules. What `Within` leaves out of a part,
such as a fault of a search beside an open purchase, the theorems below cover. `CHECK_DEADLOCK FALSE` is set because
a finished instance has nothing left to do.

### What holds only under a condition

The comments of the properties name these; the runs choose their instances accordingly.

* `AwaitingXorRouted` and `NoneStranded` hold without worker crashes. After a crash between
  the awaiting insert and the end of the job the message is processed again, may be routed
  by a mapping, and its two rows then make every resolve job of the request fail on the
  primary key: the other messages that wait for that number stay where they are. The model
  contains this behaviour; `ImplementsLifecycle` still holds, but nothing routes them.
* `PendingExact` needs no crash and no flush, since both lose events.
* `UsageCovered` is claimed while every contact is new. With a mapping, the handler never
  touches an index, so after a restart it can insert before the process listens.
* `LimitKnown` holds without flushes. A flush between the hydration check and the read of
  the limit is memoized as `NaN` until the worker restarts.
* `ImplementsPool` is claimed for Telnyx and Twilio with crashes, and for all three without one. With Bandwidth, a
  crash after the commit of `purchase-number` runs it again; two orders are then polled,
  and the success of the older one completes a request whose row names the newer number.
* `LiveOnce` (for the same reason), `NothingOrphaned`, `OneJobEach` and `ClaimsExclude` need
  no crash (and the second no failing call): the order is placed before anything is committed.
* `SendingsAgree` and the failures in `ReportsAccounted` leave out the messages in `hurt`: a fault between
  the telco's acceptance and the row that records it, or between the two inserts of a failure, makes a
  retry send again, or stop at the row of the attempt before. That is what the code does.
* One batch at a time matches a report once. The cron runs it every minute and nothing stops a
  second run from overlapping a slow first: the two insert and forward the same report twice.
  `ResolvedOnce` leaves out the reports that were in both snapshots (`twice`).
* `EventuallyTold` and `FailureTold` end with the day the batch and the trigger look back
  (`aged`): a report of an older message stays unmatched, and a failure's job can never be parsed.
* `LiveStaysOwned` leaves out sales that were tried again after the telco had accepted them
  (`resold`): such a retry disconnects a number that was bought again meanwhile.
* `SoldNotOwned` leaves out the rows whose disconnect order Bandwidth took and did not carry out,
  which nobody reads (`unread`), and those `sell_cordoned_numbers` marks sold, which sells nothing.
* `AnsweredIsKept` leaves out texts to a number that is no longer in use; `TakenOnce` those whose
  attempt failed after the client had the text. `ChannelsImplementLifecycle` counts a message whose job
  failed after its insert (`repeated10`) as routed: its retries fail on the row there is, and its job is parked.
* `LimitKeptAlone` is claimed until two transactions overlap, which may each count 48. A profile
  registered with more numbers than the limit keeps them, and gets no other.
* `RetriedOnlyIfBought` and `EventuallyRouted` allow for a bought request in Redis: nothing outside of the
  tests emits `fulfilled:phone_number_request`, so it stays in the sorted set until a message picks it,
  throws and retires it. A message that meets as many of them in a row as it has attempts is parked and
  is not routed.
* `LookedUpOnce` leaves out numbers whose inserts overlapped, that the endpoint asked for, or that went stale;
  an answer that a fault lost before it was stored is paid for again (`unstored`).
* `AccessAccounted` allows an access to wait for a job that used up its attempts: it stays `fetching`.
* `BeliefRefreshed` allows as many purchases again for each estimate that purchases had overtaken when it was
  written (`overwritten`): it sets the count back, and the multiple of five comes later.
* `HydrationSound` leaves out what follows a lock lost under a hydration that goes on (`torn`), and the
  loads that run on after their hydration failed (`strays`): beside the next hydration they may write
  into the same keys.
* `BilledOnce` leaves out rows that came after the rollup of their hour, which are never billed, and
  those the backfill stamped anew, which may be billed twice. A message sent more than a day after it was
  created is billed in no hour, and the property says so.
* `RegisterAnswered` allows a call to wait for a connection when all are taken, as none is ever released,
  and to be lost to a failure that nothing catches: of the pool, of `begin`, of the rollback, or of the server.

### Fairness

`RoutingLive` assumes weak fairness of `Start`, the handler and index steps, the event
handlers, `Fulfil` and `Resolve`: graphile-worker polls for due jobs, promises that are
awaited settle, and a purchase ends in a number. The last is not the code's to give, so
`EventuallyRouted` is about what routing does once numbers are bought: a message is routed, or parked
after attempts that were each lost to a bought request; one that waits for a number is routed. It also needs
`Timely`. `PurchaseLive` assumes fairness of the workers only: an order may stay incomplete
for ever, and the job is parked. Nothing is assumed of crashes, errors, flushes or attachment.
`PlatformLive` assumes weak fairness of the steps of a job that is due (`SendStep`, `ForwardStep`,
`SaleStep`, `ForwardTextStep`), of the minutely batch, of the steps of a call and of a request once it
has begun, and of the timeout of the lock, which Redis keeps. Posts of the telco, the repair of a
number, operators and clients may never come.

### Disagreements with the code's own comments

* `existing-pending-request.ts:110-111`: "we don't want to RE-add the fulfilled pending
  request to the sorted set". The check and the increment are two commands; the request can
  be retired in between (`RoutingReadd`). The next message that picks it fails once and
  retires it again.
* `bandwidth-base.ts:102`: "Make sure a different request didn't just buy this number". The
  number it asks for lacks `+1` (`PurchaseDeadCheck`). The order is then refused by the
  telco, and the request polls it until it is parked.
* `attach_10dlc_campaign_to_profile`: "if it's 0, that's ok, we'll associate the number when
  we buy it". Not for a number being bought: the campaign of its request was copied at the
  insert, and the profile is cached (`PurchaseAttach`).
* `docs/timescale.md:258`: "A trigger on `sms.phone_numbers` that deletes the `prev_mapping` (or marks it
  as invalidates) when the number is sold". A message that chose its number before the sale inserts
  after it, and its mapping stays (`RetirementMappings`): later messages of the contact are sent from
  a number that is gone.

## Proofs

Every safety invariant, every action property and every refinement that a run checks is
a theorem as well, in eight modules, each `[]Inv` from an inductive invariant that TLC was
given first. They hold for every set of messages, contacts, numbers, requests, jobs, rows,
processes, hours, texts and calls, for every limit and for every number of attempts, crashes,
errors and flushes, under the assumptions named in the modules that declare the constants
(`RoutingAssumption`, `PurchaseAssumption`, `DeliveryAssumption`, `RetirementAssumption`,
`InboundAssumption`, `ChannelsAssumption`, `AreaCodesAssumption`, `HydrationAssumption`,
`LookupsAssumption`, `UsageAssumption`, `RegistrationAssumption`): null values are none of the
values, limits and bounds are naturals, an attempt is allowed, and the sets that are counted
are finite. The type invariant of every module is a theorem too; only that of `MessageRouting` is also
the question of a run. `tlapm` takes from half a minute to a few minutes per module.

Where a property holds only while nothing of some kind has failed, the theorem says so of
the state, not of the constants: `crashes = 0 => ...` holds in every behaviour up to its first
crash, whatever `MaxCrashes` is. The exceptions in the properties themselves (`hurt`, `twice`,
`resold`, `unread`, `raced`, `unstored`, `overwritten`, `late`, `moved`, `torn`, `overlapped`,
`repeated10`) are history
variables that name what went wrong.

### `MessageRoutingProofs`

* `TypeCorrect`. Types alone are not inductive: a handler at `route` writes what it has
  picked, and a retry increments the attempts. `IInv` adds `HandlerOK`: a handler runs exactly
  when its job does, a queued job has attempts left, what has been picked at each point of the
  handler, and that a handler at its end has recorded something.
* `RoutingRefinesLifecycle`. From `IInv`; each action maps to a step of `MessageLifecycle` or
  to none. `Resolve` is `RouteWaiting` because it does nothing when one of its messages is
  routed already; a crash is `Abandon` of the messages on their last attempt that have nothing
  recorded.
* `NoCrashXor`, `NobodyStranded`, `BoughtForSomebody`, `LimitsLearnt`, `PendingCounted` from
  `RoutingInv`, whose parts hold each up to the failure that breaks it:
  * always, `Requested`: a request without a row is known nowhere (no handler, event, score,
    snapshot or resolve job is of it), and only a fulfilled one is retired or resolved;
    and `EventsOfRecorded`: only an insert emits an event.
  * up to a flush, `LoadedFirst`: an index that is ready has been loaded. So the limits are there
    whenever they are memoized, and this survives crashes of workers.
  * up to a crash, `Settled`: a message with a record is at the end of its handler or done
    (`OnceRecorded`), so no batch of `Resolve` meets a routed message and none is refused; with
    `Timely`, a handler that is about to wait for a bought number has a resolve job ahead of it
    (`WaitsInTime`), which makes `NoneStranded` inductive; and a request has somebody until a
    statement fails.
  * up to either, `Exact`: only one handler hydrates, before any request is made, and the process
    listens from then on (`HydratedOnce`); a request has no score until it is announced
    (`AnnouncedFirst`). Then each action adds to both sides of `PendingExact` or to neither. That
    the announcement comes before the first count is what the order of the commands
    in one connection is needed for.
* `UsageCounted`, with `Known = {}`, from `UsageInv`: nothing is recorded before the hydration, which
  hence writes zeros (`SentAfter`); a message whose contact is not new today goes to a number that
  has texted the contact (`RepeatOnly`), so the insert that emits no event adds no contact; and
  score and events in flight cover the contacts (`Covered`).

* `NumbersBoughtFirst`, with crashes, flushes and errors. `OnlyBought` forgets where a number can be on its
  way to a message; `UsedOnceBought` names those places: the snapshot of a hydration, a handler
  that is about to route, an event that is still to be handled. That the resolve jobs exist only of a
  fulfilled request is `Requested` above.

* `AttemptsLostToBought`, from `IInv` and `RoutingInv`: without crashes and flushes a limit is always read where
  it was set, and an insert meets no earlier record of its message, so a handler throws in the check of
  its request or at a failing statement, and nowhere else (`ThrowsIfBought`).

### `NumberPurchaseProofs`

* `TypeCorrect`: as above, with `HandlerOK` for the purchase jobs.
* `StepsComplete`. The invariant `ChainOK` says that a job of a step
  exists only when the steps before it are done for its request. The cached profile matters:
  with a campaign from the start, the cache can only say so.
* `PurchaseRefinesPool`, unless the telco is Bandwidth, with crashes
  and repeated steps. The invariant `Distinct` says that the numbers in the rows of requests
  and in uncommitted handlers are owned and all different, and that a number is live only for
  the fulfilled request that holds it.
* `PurchaseRefinesPoolUncrashed`, for all three: a behaviour without crashes implements
  `NumberPool`. From `PurchaseInv` below, whose `Rows` gives the completing step a
  pending request and the number in its row, and whose `Sold` says that number is not live.
* `PurchaseIsChain`, `NumberLiveOnce`, `PaidIsKnown`, `OrdersExclude` from `PurchaseInv`, for all
  three telcos. `Handlers` holds always: an order that is not committed is at `finish`, and with Bandwidth
  the handler holds its claim from the update on. Up to a crash, `Chained`: a pending request has exactly one
  job (`OneJob`), whose payload agrees with the row (`Rows`); a number is sold for one order, in a row or in a
  handler, and is not live before that order completes (`Sold`); with Bandwidth a claimed number is in no other
  transaction and no other row in flight (`Claims`); and up to an error every number paid for is in a row or a
  handler (`Known`). The proofs need `OneJob`: a second job of the same request would overwrite the
  row and orphan its number, which is what a crash after the commit does.

### `MessageDeliveryProofs`

* `DeliveryTypeCorrect`, `SendingsInAgreement`, `ReportsKeptAndForwarded` from `DInv`. `JobOK` bounds
  the calls by the attempts; `Progress` says, for a message no fault has put in doubt, how often
  the telco was called and what its row says at each place of the handler; `FailureOK` pairs a failure with its
  report; `StoredOK`, `SnapsOK` and `ForwardsOK` follow a report from the webhook through the snapshots of the
  batches to its job. `SnapsOK` is the one that is not obvious: a report in a snapshot that is no
  longer unmatched, or is in two snapshots, is in `twice`.
* `DeliveryKeepsPromise`. Each action of the webhook, the batch and the forwarding maps to a step of
  `ReportPromise` or to none.

### `NumberRetirementProofs`

* `RetirementTypeCorrect`, `SalesInAgreement`, `CordonsInAgreement` from `RInv`. Sales are about the
  number, which several rows share, so the invariant is too: as long as no sale of a number was tried
  again after it succeeded, one row at most holds it, and then the account owns it (`HoldersOK`);
  a number of the account has a row that has yet to sell it, or whose order was not carried out
  (`OwnersOK`); `JobsOK` ties jobs to released rows.

### `InboundProofs`

* `InboundTypeCorrect`, `AnsweredKept`, `DeliveredIsOnce`. The inductive invariant adds three things.
  `PostsOK`: a post under way has a number the telco has used and no row, and a row has a job from its
  insert on, so that no post overwrites another's job. `AttemptsOK`: a job that waits has an attempt
  left, and one that posts has counted its attempt, so what the client took and what is recorded
  stay below it. `ToldOK`: what the client was told by the state of the job, once unless repeated.

### `LocationsProofs`

* `ChannelsTypeCorrect`, `GivenUpNotRouted`, `LocationsAddedWithinLimit` from `ChannelsInv`. The limit is on a cardinality:
  the requests are a finite set (`NumberRequests`), a commit adds one element to it, and a transaction that
  counted alone still has room for it when it commits (`CountedWithRoom`).
* `ChannelsRefineLifecycle`. `RowsWritten` of `ChannelsInv` says that a routed message is past its insert,
  or in `repeated10`, and `Decided10` the converse: before the job there is no row, at the insert a
  location is chosen, and after it there is a row. Then each step moves one message at most
  (`OneMessageMoves`), by `Accept`, `Route` or `Abandon`.
* `AreaCodesTypeCorrect`, `SearchesGoOutward`, `BeliefsRefreshed` from `AreaCodesInv`. `SearchOK` says that all codes before the offset
  have been asked, and all near ones before the first of the other states. `CountsDown` says that purchases
  since an estimate was asked for and the remainder of the capacity stay within `RefreshEvery`, so one of them
  meets the multiple at which the trigger asks; each overtaken estimate may start that count again.

### `RecordsProofs`

* `HydrationTypeCorrect`, `HydrationCorrect` from `HydrationInv`, until a lock is lost: who hydrates holds the lock, a hydration
  has a reason of its own, and what is loaded by each place of the call. The loads of a failed hydration
  only add to what is loaded, so they disturb none of it.
* `LookupsTypeCorrect`, `AccessesAccounted`, `NumbersLookedUpOnce` from `LookupsInv`: an access that is done has its data or rests
  on a lookup that is under way or was given up (`RestOnLookups`); unless it raced, a number has one job, and
  what was paid for it beyond the answers lost is counted by the place of that job (`OneJobOf`).
* `UsageTypeCorrect`, `UsageBilledOnce` from `UsageInv`: an hour without a rollup has no counts, a message is counted in the
  hour it is stamped with, which is not before it was created (`StampsInOrder`), a number in the first hour it was looked up.

### `RegistrationProofs`

* `RegistrationTypeCorrect`, `WholeOrFailed` (`RegistrationSpec => []RegisteredWhole`). `ProgressOK` counts, for each place in the
  handler, the profiles made at Telnyx and the rows inserted: the first is ahead by one exactly
  between the call and the insert.

Only model-checked: the liveness properties (`EventuallyRouted`, `EventuallySettled` and those of
`PlatformLive`), since `tlapm` does not reason about `ENABLED` and so fairness stays with TLC; and
the properties that a run violates, for which TLC's counterexample is the proof.

## Not modelled

* Formatting, logging, metrics, GraphQL resolvers that only read, and authentication; the
  geographic choice among locations; the HTTP calls behind a telco client, whose outcomes are actions.
* The truncation of daily tables, the vacuum and `get-mno-metadata`: single statements or pure I/O.
* The cost backfill: it updates rows of past days that nothing else writes.
* The throughput hash and the two lua scripts are a free choice of "no number" in `MessageRouting`.
* Type declarations and table shapes (`lib/types.ts`, `db-types.ts`, `schema.graphql`) have no behaviour.

What the code may get wrong and no property states, because the model simply has that behaviour
or leaves the data out:

* Bandwidth's disconnect order is not read; `sell_cordoned_numbers` marks numbers sold that it does not sell;
  an old cordoned mapping that is used revives; a purchase that completes after its location
  was decommissioned makes a live number there.
* A notice of a new or a removed location is lost in a process without handlers for the profile.
* A lookup job that is parked leaves its access `fetching`, and the trigger then queues no other job for the
  number: every later access of it is done at once, without data, until the endpoint asks.
* A number another client looked up before is billed to nobody again: former lookups are sought among all
  clients (`schema-dump.sql:440`).
* `choose_area_code_for_sending_location` orders by capacity, and a code without any row comes first, as null;
  the order is modelled (`Most`), and no document says otherwise.
* The HTTP lookup has no `try`: a failing insert or an answer without a carrier leaves the client without
  an answer. A retried area code search overwrites the list of the attempt before.
* A worker that is down at two minutes past the hour leaves that hour without a rollup: the cron has no backfill.
* The contact limit is overshot by the inclusive range of `getexistingavailablenumber.lua`, and
  `updatenextsendableby.lua` compares with a name it never sets. `countSent + countToBeSent` in
  `get-existing-available-number.ts:296` adds what Postgres returns as strings.
* The job that `attach_10dlc_campaign_to_profile` adds for a live number lacks the id its schema asks for.
* Reports are forwarded in no order: "delivered" may reach the client before "sent".

## Plan

1. The cost backfill and the rest of the administration, as actions beside what they race with.
2. The two lua scripts as operators against a reference definition over bounded inputs.
3. Several workers and several days in `MessageRouting`, with the hydration of `Hydration` in place of
   its own; `RoutingInv` is written so that only `HydratedOnce` would change.
