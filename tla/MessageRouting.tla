--------------------------- MODULE MessageRouting ---------------------------
(***************************************************************************)
(* How one grey-route profile with one sending location gives its outbound *)
(* messages a from-number: the process-grey-route-message job, the Redis   *)
(* indexes it consults (and their hydration), the in-process events that   *)
(* keep the indexes up to date, and the resolve-messages-awaiting-from-    *)
(* number jobs that a fulfilled phone number request queues.               *)
(*                                                                         *)
(* The horizon is one day.  A number bought for request r is written r.    *)
(* Time is left out: throughput limits become a free choice of "no number",*)
(* and the delays of the three resolve jobs become the assumption Timely.  *)
(***************************************************************************)
EXTENDS Integers, FiniteSets

CONSTANTS
  Messages,      \* outbound messages
  Contacts,      \* the people they are sent to
  ContactOf,     \* the contact of each message
  Known,         \* contacts texted before today, who have a mapping already
  Numbers,       \* phone numbers the sending location owns from the start
  Requests,      \* rows sms.phone_number_requests can get (bound)
  None,          \* SQL null / no choice
  ContactLimit,  \* sms.profiles.daily_contact_limit
  MaxAttempts,   \* max_attempts of the process-message job (5)
  Concurrency,   \* GRAPHILE_WORKER_CONCURRENCY
  Timely,        \* no handler outlives the last resolve job of a request
  MaxErrors,     \* bound on failing database statements
  MaxCrashes,    \* bound on worker crashes
  MaxFlushes     \* bound on losses of the Redis data

ASSUME RoutingAssumption ==
  /\ IsFiniteSet(Messages)
  /\ IsFiniteSet(Contacts)
  /\ ContactOf \in [Messages -> Contacts]
  /\ Known \subseteq Contacts
  /\ Numbers \cap Requests = {}
  /\ None \notin Numbers \cup Requests
  /\ ContactLimit \in Nat
  /\ MaxAttempts \in Nat \ {0}
  /\ Concurrency \in Nat \ {0}
  /\ Timely \in BOOLEAN
  /\ MaxErrors \in Nat
  /\ MaxCrashes \in Nat
  /\ MaxFlushes \in Nat

VARIABLES
  \* the process-message job of each message (graphile-worker)
  job, attempts,
  \* the running handler of each message
  pc, idx, phase, snapUsage, snapPending, picked, first,
  \* Postgres
  awaiting, routed, mapping, today, request, resolves,
  \* Redis
  available, pending, closed, loaded, hydrated, lock,
  \* the worker process
  handlersOn, memo, event, announce,
  \* bounds
  errors, crashes, flushes

jobVars == <<job, attempts>>
idxVars == <<idx, phase, snapUsage, snapPending>>
stepVars == <<pc, picked, first>>
dbVars == <<awaiting, routed, mapping, today, request, resolves>>
indexVars == <<available, pending, closed>>
redisVars == <<available, pending, closed, loaded, hydrated, lock>>
procVars == <<handlersOn, memo, event, announce>>
boundVars == <<errors, crashes, flushes>>
vars == <<job, attempts, pc, idx, phase, snapUsage, snapPending, picked, first,
          awaiting, routed, mapping, today, request, resolves,
          available, pending, closed, loaded, hydrated, lock,
          handlersOn, memo, event, announce, errors, crashes, flushes>>

AllNumbers == Numbers \cup Requests
Indexes == {"location", "number", "pending"}
Absent == -1                     \* not a member of the sorted set
Score == Nat \cup {Absent}
NoEvent == [kind |-> "none", of |-> None]
Nothing(S) == [x \in S |-> Absent]

-----------------------------------------------------------------------------
Init ==
  /\ job = [m \in Messages |-> "absent"]
  /\ attempts = [m \in Messages |-> 0]
  /\ pc = [m \in Messages |-> "idle"]
  /\ idx = [m \in Messages |-> "check"]
  /\ phase = [m \in Messages |-> [i \in Indexes |-> "todo"]]
  /\ snapUsage = [m \in Messages |-> Nothing(AllNumbers)]
  /\ snapPending = [m \in Messages |-> Nothing(Requests)]
  /\ picked = [m \in Messages |-> None]
  /\ first = [m \in Messages |-> FALSE]
  /\ awaiting = [m \in Messages |-> None]
  /\ routed = [m \in Messages |-> None]
  /\ mapping \in {f \in [Contacts -> Numbers \cup {None}] :
                    \A c \in Contacts : f[c] # None <=> c \in Known}
  /\ today = [c \in Contacts |-> FALSE]
  /\ request = [r \in Requests |-> "unused"]
  /\ resolves = [r \in Requests |-> 0]
  /\ available = Nothing(AllNumbers)
  /\ pending = Nothing(Requests)
  /\ closed = {}
  /\ loaded = [i \in Indexes |-> FALSE]
  /\ hydrated = FALSE
  /\ lock = FALSE
  /\ handlersOn = FALSE
  /\ memo = [i \in {"number", "pending"} |-> "unset"]
  /\ event = [m \in Messages |-> NoEvent]
  /\ announce = [r \in Requests |-> FALSE]
  /\ errors = 0
  /\ crashes = 0
  /\ flushes = 0

-----------------------------------------------------------------------------
(* The job and its attempts. *)

(* Inserting the message queues its job. *)
Submit(m) ==
  /\ job[m] = "absent"
  /\ job' = [job EXCEPT ![m] = "queued"]
  /\ UNCHANGED <<attempts, pc, picked, first, idxVars, dbVars, redisVars,
                 procVars, boundVars>>

SlotFree == Cardinality({m \in Messages : job[m] = "running"}) < Concurrency

(* A worker takes the job; graphile-worker counts the attempt. *)
Start(m) ==
  /\ job[m] = "queued"
  /\ SlotFree
  /\ job' = [job EXCEPT ![m] = "running"]
  /\ attempts' = [attempts EXCEPT ![m] = @ + 1]
  /\ pc' = [pc EXCEPT ![m] = "mapping"]
  /\ UNCHANGED <<picked, first, idxVars, dbVars, redisVars, procVars, boundVars>>

(* The handler of m ends; its local variables are gone. *)
EndHandler(m) ==
  /\ pc' = [pc EXCEPT ![m] = "idle"]
  /\ picked' = [picked EXCEPT ![m] = None]
  /\ first' = [first EXCEPT ![m] = FALSE]

(* The handler of m throws: the job is retried, or parked in
   worker.failed_jobs when this was its last attempt. *)
Throw(m) ==
  /\ job' = [job EXCEPT ![m] =
               IF attempts[m] = MaxAttempts THEN "parked" ELSE "queued"]
  /\ EndHandler(m)

Complete(m) ==
  /\ pc[m] = "complete"
  /\ job' = [job EXCEPT ![m] = "done"]
  /\ EndHandler(m)
  /\ UNCHANGED <<attempts, idxVars, dbVars, redisVars, procVars, boundVars>>

-----------------------------------------------------------------------------
(* The call of a Redis index: every call first makes sure that the profile
   is hydrated and that this process listens to the insert events. *)

Indexing(m) == pc[m] \in {"location", "number", "pending"}

CheckHydrated(m) ==
  /\ Indexing(m)
  /\ idx[m] = "check"
  /\ idx' = [idx EXCEPT ![m] = IF hydrated THEN "ready" ELSE "lock"]
  /\ handlersOn' = (handlersOn \/ hydrated)
  /\ UNCHANGED <<jobVars, stepVars, phase, snapUsage, snapPending, dbVars,
                 redisVars, memo, event, announce, boundVars>>

(* withLock: under the lock the profile is checked again. *)
TakeLock(m) ==
  /\ idx[m] = "lock"
  /\ ~lock
  /\ IF hydrated
       THEN /\ idx' = [idx EXCEPT ![m] = "ready"]
            /\ handlersOn' = TRUE
            /\ UNCHANGED lock
       ELSE /\ idx' = [idx EXCEPT ![m] = "hydrate"]
            /\ lock' = TRUE
            /\ UNCHANGED handlersOn
  /\ UNCHANGED <<jobVars, stepVars, phase, snapUsage, snapPending, dbVars,
                 indexVars, loaded, hydrated, memo, event, announce, boundVars>>

SetPhase(m, i, p) == phase' = [phase EXCEPT ![m][i] = p]
Load(i) == loaded' = [loaded EXCEPT ![i] = TRUE]

(* A hydration's zadd: it overwrites the members it has read and leaves
   the others in place. *)
ZAddAll(zset, snapshot) ==
  [x \in DOMAIN zset |-> IF snapshot[x] # Absent THEN snapshot[x] ELSE zset[x]]

(* Sending locations do not change here, so one step stands for the query
   and the write. *)
HydrateLocations(m) ==
  /\ idx[m] = "hydrate"
  /\ phase[m]["location"] = "todo"
  /\ SetPhase(m, "location", "done")
  /\ Load("location")
  /\ UNCHANGED <<jobVars, stepVars, idx, snapUsage, snapPending, dbVars,
                 indexVars, hydrated, lock, procVars, boundVars>>

RoutedContacts(n) == {ContactOf[m] : m \in {x \in Messages : routed[x] = n}}

LiveOrAsked(n) == n \in Numbers \/ (n \in Requests /\ request[n] # "unused")

Live(n) == n \in Numbers \/ (n \in Requests /\ request[n] = "fulfilled")

(* todaysUsageHydrator: the distinct recipients of today per live number. *)
ReadUsage(m) ==
  /\ idx[m] = "hydrate"
  /\ phase[m]["number"] = "todo"
  /\ SetPhase(m, "number", "read")
  /\ snapUsage' = [snapUsage EXCEPT ![m] =
       [n \in AllNumbers |->
          IF Live(n) THEN Cardinality(RoutedContacts(n)) ELSE Absent]]
  /\ UNCHANGED <<jobVars, stepVars, idx, snapPending, dbVars, redisVars,
                 procVars, boundVars>>

WriteUsage(m) ==
  /\ idx[m] = "hydrate"
  /\ phase[m]["number"] = "read"
  /\ SetPhase(m, "number", "done")
  /\ available' = ZAddAll(available, snapUsage[m])
  /\ snapUsage' = [snapUsage EXCEPT ![m] = Nothing(AllNumbers)]
  /\ Load("number")
  /\ UNCHANGED <<jobVars, stepVars, idx, snapPending, dbVars, pending, closed,
                 hydrated, lock, procVars, boundVars>>

WaitingFor(r) == {m \in Messages : awaiting[m] = r}

(* The messages awaiting each request, whether it is fulfilled or not, and 0
   for an unfulfilled request that has none. *)
ReadPending(m) ==
  /\ idx[m] = "hydrate"
  /\ phase[m]["pending"] = "todo"
  /\ SetPhase(m, "pending", "read")
  /\ snapPending' = [snapPending EXCEPT ![m] =
       [r \in Requests |->
          IF WaitingFor(r) # {} \/ request[r] = "pending"
            THEN Cardinality(WaitingFor(r)) ELSE Absent]]
  /\ UNCHANGED <<jobVars, stepVars, idx, snapUsage, dbVars, redisVars,
                 procVars, boundVars>>

WritePending(m) ==
  /\ idx[m] = "hydrate"
  /\ phase[m]["pending"] = "read"
  /\ SetPhase(m, "pending", "done")
  /\ pending' = ZAddAll(pending, snapPending[m])
  /\ snapPending' = [snapPending EXCEPT ![m] = Nothing(Requests)]
  /\ Load("pending")
  /\ UNCHANGED <<jobVars, stepVars, idx, snapUsage, dbVars, available, closed,
                 hydrated, lock, procVars, boundVars>>

AnyLoaded(m) == \E i \in Indexes : phase[m][i] = "done"

(* Promise.all over the indexes. *)
AllLoaded(m) == \A i \in Indexes : phase[m][i] = "done"

(* recordHydrationComplete, then unlock (which deletes the lock key, whoever
   holds it by then), then the handlers. *)
FinishHydration(m) ==
  /\ idx[m] = "hydrate"
  /\ AllLoaded(m)
  /\ idx' = [idx EXCEPT ![m] = "ready"]
  /\ phase' = [phase EXCEPT ![m] = [i \in Indexes |-> "todo"]]
  /\ hydrated' = TRUE
  /\ lock' = FALSE
  /\ handlersOn' = TRUE
  /\ UNCHANGED <<jobVars, stepVars, snapUsage, snapPending, dbVars, indexVars,
                 loaded, memo, event, announce, boundVars>>

(* The contact limit is read once per process and memoized, even when the
   key is missing (parseInt gives NaN). *)
LearnLimit(m) ==
  /\ idx[m] = "ready"
  /\ pc[m] \in {"number", "pending"}
  /\ memo[pc[m]] = "unset"
  /\ memo' = [memo EXCEPT ![pc[m]] = IF loaded[pc[m]] THEN "ok" ELSE "nan"]
  /\ UNCHANGED <<jobVars, stepVars, idxVars, dbVars, redisVars, handlersOn,
                 event, announce, boundVars>>

-----------------------------------------------------------------------------
(* The handler of process-grey-route-message, one action per database
   statement or Redis command. *)

LookupMapping(m) ==
  LET c == ContactOf[m] IN
  /\ pc[m] = "mapping"
  /\ IF mapping[c] # None
       THEN /\ pc' = [pc EXCEPT ![m] = "route"]
            /\ picked' = [picked EXCEPT ![m] = mapping[c]]
            /\ first' = [first EXCEPT ![m] = ~today[c]]
            /\ UNCHANGED idx
       ELSE /\ pc' = [pc EXCEPT ![m] = "location"]
            /\ idx' = [idx EXCEPT ![m] = "check"]
            /\ UNCHANGED <<picked, first>>
  /\ UNCHANGED <<jobVars, phase, snapUsage, snapPending, dbVars, redisVars,
                 procVars, boundVars>>

(* The index function of chooseSendingLocationForContact; with no location
   in Redis the handler throws. *)
ChooseLocation(m) ==
  /\ pc[m] = "location"
  /\ idx[m] = "ready"
  /\ idx' = [idx EXCEPT ![m] = "check"]
  /\ IF loaded["location"]
       THEN /\ pc' = [pc EXCEPT ![m] = "number"]
            /\ UNCHANGED <<job, picked, first>>
       ELSE Throw(m)
  /\ UNCHANGED <<attempts, phase, snapUsage, snapPending, dbVars, redisVars,
                 procVars, boundVars>>

Usable(n) == available[n] \in 0..ContactLimit

(* getexistingavailablenumber.lua; whether a usable number is skipped because
   its next send would be too late is left open. *)
ChooseNumber(m) ==
  /\ pc[m] = "number"
  /\ idx[m] = "ready"
  /\ memo["number"] # "unset"
  /\ idx' = [idx EXCEPT ![m] = "check"]
  /\ \/ /\ memo["number"] = "nan"
        /\ Throw(m)
     \/ \E n \in AllNumbers :
          /\ memo["number"] = "ok"
          /\ Usable(n)
          /\ pc' = [pc EXCEPT ![m] = "route"]
          /\ picked' = [picked EXCEPT ![m] = n]
          /\ first' = [first EXCEPT ![m] = TRUE]
          /\ UNCHANGED job
     \/ /\ memo["number"] = "ok"
        /\ pc' = [pc EXCEPT ![m] = "pending"]
        /\ UNCHANGED <<job, picked, first>>
  /\ UNCHANGED <<attempts, phase, snapUsage, snapPending, dbVars, redisVars,
                 procVars, boundVars>>

(* zrangebyscore -1 .. limit, limit 1: an unfilled request with the lowest
   score. *)
Open == {r \in Requests : pending[r] \in 0..ContactLimit}
Emptiest == {r \in Open : \A s \in Open : pending[r] <= pending[s]}

ChoosePending(m) ==
  /\ pc[m] = "pending"
  /\ idx[m] = "ready"
  /\ memo["pending"] # "unset"
  /\ idx' = [idx EXCEPT ![m] = "check"]
  /\ \/ /\ memo["pending"] = "nan"
        /\ Throw(m)
     \/ \E r \in Emptiest :
          /\ memo["pending"] = "ok"
          /\ pc' = [pc EXCEPT ![m] = "check"]
          /\ picked' = [picked EXCEPT ![m] = r]
          /\ UNCHANGED <<job, first>>
     \/ /\ memo["pending"] = "ok"
        /\ Open = {}
        /\ pc' = [pc EXCEPT ![m] = "create"]
        /\ UNCHANGED <<job, picked, first>>
  /\ UNCHANGED <<attempts, phase, snapUsage, snapPending, dbVars, redisVars,
                 procVars, boundVars>>

(* handlePhoneNumberRequestFulfillment: zrem and sadd in one pipeline. *)
Retire(r) ==
  /\ pending' = [pending EXCEPT ![r] = Absent]
  /\ closed' = closed \cup {r}

NeverFulfilled(r) == FALSE

Fulfilled(r) == request[r] = "fulfilled"

(* The request chosen in Redis is read in Postgres; a fulfilled one is
   retired and the attempt fails. *)
CheckRequest(m) ==
  /\ pc[m] = "check"
  /\ IF Fulfilled(picked[m])
       THEN /\ Retire(picked[m])
            /\ Throw(m)
       ELSE /\ pc' = [pc EXCEPT ![m] = "await"]
            /\ UNCHANGED <<job, picked, first, pending, closed>>
  /\ UNCHANGED <<attempts, idxVars, dbVars, available, loaded, hydrated, lock,
                 procVars, boundVars>>

ChooseAgain == "pending"

AfterCreate == "await"

(* insert into sms.phone_number_requests; the emitted event is a zadd of
   score 0.  A message waits here when the bound on requests is used up. *)
CreateRequest(m) ==
  /\ pc[m] = "create"
  /\ \E r \in Requests :
       /\ request[r] = "unused"
       /\ request' = [request EXCEPT ![r] = "pending"]
       /\ announce' = [announce EXCEPT ![r] = handlersOn]
       /\ picked' = [picked EXCEPT ![m] = r]
  /\ pc' = [pc EXCEPT ![m] = AfterCreate]
  /\ UNCHANGED <<jobVars, first, idxVars, awaiting, routed, mapping, today,
                 resolves, redisVars, handlersOn, memo, event, boundVars>>

(* insert into sms.outbound_messages_awaiting_from_number, whose primary key
   is the message id. *)
InsertAwaiting(m) ==
  /\ pc[m] = "await"
  /\ IF awaiting[m] # None
       THEN /\ Throw(m)
            /\ UNCHANGED <<awaiting, event>>
       ELSE /\ awaiting' = [awaiting EXCEPT ![m] = picked[m]]
            /\ event' = [event EXCEPT ![m] =
                 IF handlersOn THEN [kind |-> "check", of |-> picked[m]] ELSE @]
            /\ pc' = [pc EXCEPT ![m] = "complete"]
            /\ UNCHANGED <<job, picked, first>>
  /\ UNCHANGED <<attempts, idxVars, routed, mapping, today, request, resolves,
                 redisVars, handlersOn, memo, announce, boundVars>>

(* The routing insert trigger: a contact without a mapping gets one, a
   contact that has one keeps its number; the pair was used now. *)
MapContacts(S, n) ==
  /\ mapping' = [c \in Contacts |->
                   IF c \in S /\ mapping[c] = None THEN n ELSE mapping[c]]
  /\ today' = [c \in Contacts |-> today[c] \/ c \in S]

(* insert into sms.outbound_messages_routing, whose primary key holds the
   message id. *)
InsertRouting(m) ==
  /\ pc[m] = "route"
  /\ IF routed[m] # None
       THEN /\ Throw(m)
            /\ UNCHANGED <<routed, mapping, today, event>>
       ELSE /\ routed' = [routed EXCEPT ![m] = picked[m]]
            /\ MapContacts({ContactOf[m]}, picked[m])
            /\ event' = [event EXCEPT ![m] =
                 IF handlersOn /\ first[m]
                   THEN [kind |-> "usage", of |-> picked[m]] ELSE @]
            /\ pc' = [pc EXCEPT ![m] = "complete"]
            /\ UNCHANGED <<job, picked, first>>
  /\ UNCHANGED <<attempts, idxVars, awaiting, request, resolves, redisVars,
                 handlersOn, memo, announce, boundVars>>

(* A statement of the handler fails (a lost connection, a timeout) without
   having changed anything. *)
DbError(m) ==
  /\ errors < MaxErrors
  /\ pc[m] \in {"mapping", "check", "create", "await", "route"}
  /\ errors' = errors + 1
  /\ Throw(m)
  /\ UNCHANGED <<attempts, idxVars, dbVars, redisVars, procVars, crashes,
                 flushes>>

-----------------------------------------------------------------------------
(* The event handlers of the worker process; each runs some time after the
   insert that emitted its event. *)

IncrementOnce(score) == 1

Increment(score) == IF score = Absent THEN 1 ELSE score + 1

AnnounceRequest(r) ==
  /\ announce[r]
  /\ announce' = [announce EXCEPT ![r] = FALSE]
  /\ pending' = [pending EXCEPT ![r] = 0]
  /\ UNCHANGED <<jobVars, stepVars, idxVars, dbVars, available, closed, loaded,
                 hydrated, lock, handlersOn, memo, event, boundVars>>

(* sismember of the fulfilled requests, then in a later command zincrby. *)
CheckClosed(m) ==
  /\ event[m].kind = "check"
  /\ event' = [event EXCEPT ![m] =
       IF @.of \in closed THEN NoEvent ELSE [kind |-> "count", of |-> @.of]]
  /\ UNCHANGED <<jobVars, stepVars, idxVars, dbVars, redisVars, handlersOn,
                 memo, announce, boundVars>>

AnyOrder(r) == TRUE

Announced(r) == ~announce[r]

(* The commands of one process reach Redis in order, so the zadd of the new
   request comes first. *)
CountAwaiting(m) ==
  LET r == event[m].of IN
  /\ event[m].kind = "count"
  /\ Announced(r)
  /\ pending' = [pending EXCEPT ![r] = Increment(@)]
  /\ event' = [event EXCEPT ![m] = NoEvent]
  /\ UNCHANGED <<jobVars, stepVars, idxVars, dbVars, available, closed, loaded,
                 hydrated, lock, handlersOn, memo, announce, boundVars>>

CountUsage(m) ==
  /\ event[m].kind = "usage"
  /\ available' = [available EXCEPT ![event[m].of] = Increment(@)]
  /\ event' = [event EXCEPT ![m] = NoEvent]
  /\ UNCHANGED <<jobVars, stepVars, idxVars, dbVars, pending, closed, loaded,
                 hydrated, lock, handlersOn, memo, announce, boundVars>>

-----------------------------------------------------------------------------
NoResolveJobs == 0

ResolveJobs == 3

(* The purchase of a number ends: the fulfil trigger queues three resolve
   jobs.  The purchase itself is NumberPurchase's. *)
Fulfil(r) ==
  /\ request[r] = "pending"
  /\ request' = [request EXCEPT ![r] = "fulfilled"]
  /\ resolves' = [resolves EXCEPT ![r] = ResolveJobs]
  /\ UNCHANGED <<jobVars, stepVars, idxVars, awaiting, routed, mapping, today,
                 redisVars, procVars, boundVars>>

ResolveUnqueued(r) == TRUE

ResolveQueued(r) == resolves[r] > 0

(* The last of the three jobs runs five minutes after the fulfilment. *)
LastIsTimely(r) ==
  (Timely /\ resolves[r] = 1) =>
     \A m \in Messages : ~(pc[m] = "await" /\ picked[m] = r)

KeepWaiting(S) == UNCHANGED awaiting

DeleteWaiting(S) ==
  awaiting' = [m \in Messages |-> IF m \in S THEN None ELSE awaiting[m]]

NoConflict(S) == FALSE

Conflicts(S) == \E m \in S : routed[m] # None

(* One statement moves every message that waits for r to the routing table.
   If one of them is there already the statement fails, every time it is
   retried, and the job is parked without having moved any. *)
Resolve(r) ==
  LET batch == WaitingFor(r) IN
  /\ ResolveQueued(r)
  /\ LastIsTimely(r)
  /\ resolves' = [resolves EXCEPT ![r] = @ - 1]
  /\ IF Conflicts(batch)
       THEN UNCHANGED <<awaiting, routed, mapping, today>>
       ELSE /\ DeleteWaiting(batch)
            /\ routed' = [m \in Messages |->
                            IF m \in batch THEN r ELSE routed[m]]
            /\ MapContacts({ContactOf[m] : m \in batch}, r)
  /\ UNCHANGED <<jobVars, stepVars, idxVars, request, redisVars, procVars,
                 boundVars>>

-----------------------------------------------------------------------------
(* The worker process dies: its handlers and undelivered events are lost and
   its running jobs are retried later, except those on their last attempt,
   which nothing picks up again. *)
Crash ==
  /\ crashes < MaxCrashes
  /\ \E m \in Messages : job[m] = "running" \/ event[m] # NoEvent
  /\ crashes' = crashes + 1
  /\ job' = [m \in Messages |->
               IF job[m] # "running" THEN job[m]
               ELSE IF attempts[m] < MaxAttempts THEN "queued" ELSE "dead"]
  /\ pc' = [m \in Messages |-> "idle"]
  /\ picked' = [m \in Messages |-> None]
  /\ first' = [m \in Messages |-> FALSE]
  /\ idx' = [m \in Messages |-> "check"]
  /\ phase' = [m \in Messages |-> [i \in Indexes |-> "todo"]]
  /\ snapUsage' = [m \in Messages |-> Nothing(AllNumbers)]
  /\ snapPending' = [m \in Messages |-> Nothing(Requests)]
  /\ lock' = FALSE
  /\ handlersOn' = FALSE
  /\ memo' = [i \in {"number", "pending"} |-> "unset"]
  /\ event' = [m \in Messages |-> NoEvent]
  /\ announce' = [r \in Requests |-> FALSE]
  /\ UNCHANGED <<attempts, dbVars, indexVars, loaded, hydrated, errors, flushes>>

(* FLUSHALL: the daily flush-redis job, or an error on a Redis connection. *)
Flush ==
  /\ flushes < MaxFlushes
  /\ flushes' = flushes + 1
  /\ available' = Nothing(AllNumbers)
  /\ pending' = Nothing(Requests)
  /\ closed' = {}
  /\ loaded' = [i \in Indexes |-> FALSE]
  /\ hydrated' = FALSE
  /\ lock' = FALSE
  /\ UNCHANGED <<jobVars, stepVars, idxVars, dbVars, procVars, errors, crashes>>

-----------------------------------------------------------------------------
CallIndex(m) ==
  \/ CheckHydrated(m) \/ TakeLock(m) \/ FinishHydration(m) \/ LearnLimit(m)
  \/ HydrateLocations(m)
  \/ ReadUsage(m) \/ WriteUsage(m)
  \/ ReadPending(m) \/ WritePending(m)

Handle(m) ==
  \/ LookupMapping(m) \/ ChooseLocation(m) \/ ChooseNumber(m)
  \/ ChoosePending(m) \/ CheckRequest(m) \/ CreateRequest(m)
  \/ InsertAwaiting(m) \/ InsertRouting(m) \/ Complete(m)

DeliverEvent(m) == CheckClosed(m) \/ CountAwaiting(m) \/ CountUsage(m)

Next ==
  \/ \E m \in Messages :
       \/ Submit(m) \/ Start(m) \/ CallIndex(m) \/ Handle(m) \/ DbError(m)
       \/ DeliverEvent(m)
  \/ \E r \in Requests : AnnounceRequest(r) \/ Fulfil(r) \/ Resolve(r)
  \/ Crash
  \/ Flush

Spec == Init /\ [][Next]_vars

(* The scheduling the code relies on: workers take queued jobs, a running
   handler and the event handlers go on, a number is bought in the end for
   every request, and its resolve jobs run. *)
Fairness ==
  /\ \A m \in Messages : /\ WF_vars(Start(m))
                         /\ WF_vars(CallIndex(m))
                         /\ WF_vars(Handle(m))
                         /\ WF_vars(DeliverEvent(m))
  /\ \A r \in Requests : /\ WF_vars(AnnounceRequest(r))
                         /\ WF_vars(Fulfil(r))
                         /\ WF_vars(Resolve(r))

FairSpec == Spec /\ Fairness

-----------------------------------------------------------------------------
JobType ==
  /\ job \in [Messages -> {"absent", "queued", "running", "done", "parked",
                            "dead"}]
  /\ attempts \in [Messages -> 0..MaxAttempts]

HandlerType ==
  /\ pc \in [Messages -> {"idle", "mapping", "location", "number", "pending",
                           "check", "create", "await", "route", "complete"}]
  /\ picked \in [Messages -> AllNumbers \cup {None}]
  /\ first \in [Messages -> BOOLEAN]

IndexType ==
  /\ idx \in [Messages -> {"check", "lock", "hydrate", "ready"}]
  /\ phase \in [Messages -> [Indexes -> {"todo", "read", "done"}]]
  /\ snapUsage \in [Messages -> [AllNumbers -> Score]]
  /\ snapPending \in [Messages -> [Requests -> Score]]

DbType ==
  /\ awaiting \in [Messages -> Requests \cup {None}]
  /\ routed \in [Messages -> AllNumbers \cup {None}]
  /\ mapping \in [Contacts -> AllNumbers \cup {None}]
  /\ today \in [Contacts -> BOOLEAN]
  /\ request \in [Requests -> {"unused", "pending", "fulfilled"}]
  /\ resolves \in [Requests -> 0..3]

RedisType ==
  /\ available \in [AllNumbers -> Score]
  /\ pending \in [Requests -> Score]
  /\ closed \subseteq Requests
  /\ loaded \in [Indexes -> BOOLEAN]
  /\ hydrated \in BOOLEAN
  /\ lock \in BOOLEAN

ProcType ==
  /\ handlersOn \in BOOLEAN
  /\ memo \in [{"number", "pending"} -> {"unset", "ok", "nan"}]
  /\ event \in [Messages -> [kind : {"none", "check", "count", "usage"},
                              of : AllNumbers \cup {None}]]
  /\ announce \in [Requests -> BOOLEAN]

BoundType ==
  /\ errors \in 0..MaxErrors
  /\ crashes \in 0..MaxCrashes
  /\ flushes \in 0..MaxFlushes

(* Every variable has the type its column, key or local has in the code. *)
TypeOK ==
  /\ JobType
  /\ HandlerType
  /\ IndexType
  /\ DbType
  /\ RedisType
  /\ ProcType
  /\ BoundType

(* While no worker crashes, a message that waits for a number has not been
   routed: the awaiting row is gone when the routing row appears. *)
AwaitingXorRouted == \A m \in Messages : awaiting[m] = None \/ routed[m] = None

(* While no worker crashes, a message that waits for a request whose number
   has been bought still has a resolve job ahead of it: the check of the
   request and the insert of the awaiting row are not atomic, and a purchase
   can end between them. *)
NoneStranded ==
  \A m \in Messages : awaiting[m] # None =>
     (request[awaiting[m]] = "fulfilled" => resolves[awaiting[m]] > 0)

Unapplied(r) ==
  {m \in Messages : event[m].of = r /\ event[m].kind \in {"check", "count"}}

(* Without crashes and flushes, the score Redis holds for an unfulfilled
   request, with the events still to be handled, is the number of messages
   that wait for it in Postgres, so the contact limit is applied to it. *)
PendingExact ==
  crashes = 0 /\ flushes = 0 => \A r \in Requests : request[r] = "pending" =>
     (IF pending[r] = Absent THEN 0 ELSE pending[r]) + Cardinality(Unapplied(r))
       = Cardinality(WaitingFor(r))

(* Without crashes and flushes, and while every contact is new, Redis never
   credits a number with fewer contacts than it has texted, once the events
   in flight are handled: a number is not used past its daily limit because
   an insert went uncounted. *)
UsageCovered ==
  crashes = 0 /\ flushes = 0 => \A n \in Numbers :
     LET inFlight == {m \in Messages : event[m] = [kind |-> "usage", of |-> n]}
     IN RoutedContacts(n) # {} =>
          available[n] + Cardinality(inFlight) >= Cardinality(RoutedContacts(n))

(* Without crashes and errors, no number is bought for nobody: an unfulfilled
   request has a message that waits for it or is about to. *)
NoRequestForNobody ==
  \A r \in Requests : request[r] = "pending" =>
     \/ WaitingFor(r) # {}
     \/ \E m \in Messages : pc[m] = "await" /\ picked[m] = r

(* Whatever fails, and however old the snapshot of a hydration, an event or the
   request read by a handler is: the number of a request sends nothing, is
   nobody's mapping and is not offered by Redis before it has been bought. *)
OnlyBought ==
  \A r \in Requests : request[r] # "fulfilled" =>
     /\ \A m \in Messages : routed[m] # r
     /\ \A c \in Contacts : mapping[c] # r
     /\ available[r] = Absent

(* Unless Redis is flushed, a worker never memoizes a missing contact limit:
   the limits are in Redis before any index is read, in a restarted worker
   too. *)
LimitKnown == \A i \in DOMAIN memo : memo[i] # "nan"

(* existing-pending-request.ts: "we don't want to RE-add the fulfilled pending
   request to the sorted set". *)
ClosedStaysOut == \A r \in closed : pending[r] = Absent

(* While no worker crashes and Redis keeps its data, an attempt at a message that
   no failing statement ends is lost to one thing only: the request Redis chose
   was bought meanwhile, as nothing takes a bought request out of the sorted
   set but the attempt that finds it there.  Neither an index read before it is
   loaded nor a second record of the message costs an attempt. *)
RetriedOnlyIfBought ==
  [][crashes' = 0 /\ flushes = 0 /\ UNCHANGED errors =>
       \A m \in Messages :
         job[m] = "running" /\ job'[m] \in {"queued", "parked"} =>
           pc[m] = "check" /\ Fulfilled(picked[m])]_vars

(* While nothing fails, every message whose job is queued is routed in the end,
   unless each of its attempts chose a request bought meanwhile and the job is
   parked; and a message that waits for a number is routed with it. *)
EventuallyRouted ==
  \A m \in Messages :
    /\ job[m] = "queued" ~> routed[m] # None \/ job[m] = "parked"
    /\ awaiting[m] # None ~> routed[m] # None

(* What a job in each state means for a message nothing is recorded for; a
   job that is done without a record would have lost its message. *)
JobStatus(j) ==
  CASE j = "absent" -> "new"
    [] j \in {"queued", "running"} -> "processing"
    [] j \in {"parked", "dead"} -> "abandoned"
    [] j = "done" -> "lost"

(* How far a message has come, for its sender. *)
StatusOf(m) ==
  CASE routed[m] # None -> "routed"
    [] routed[m] = None /\ awaiting[m] # None -> "awaiting"
    [] routed[m] = None /\ awaiting[m] = None -> JobStatus(job[m])

Lifecycle == INSTANCE MessageLifecycle
  WITH Senders <- AllNumbers, NoSender <- None, from <- routed,
       status <- [m \in Messages |-> StatusOf(m)]

(* Whatever crashes, flushes and errors happen, each message is given one
   from-number at most, is never lost by a job that ends well, and is not
   given up once something is recorded for it. *)
ImplementsLifecycle == Lifecycle!Spec
=============================================================================
