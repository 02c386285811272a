--------------------------- MODULE NumberPurchase ---------------------------
(***************************************************************************)
(* The purchase of phone numbers for one sending location: the job that    *)
(* the insert of a phone number request queues, the steps of the purchase  *)
(* pipeline (purchase-number, poll-number-order, associate-service-profile,*)
(* associate-service-10dlc-campaign), each of which runs in a transaction  *)
(* that also queues the next one, the telco that sells the numbers, and a  *)
(* 10DLC campaign attached to the profile meanwhile.                       *)
(*                                                                         *)
(* A step whose telco call and statements cannot interleave with anything  *)
(* the properties see is one action; purchase-number is one action per     *)
(* call, its writes invisible to others until it commits.  An order that   *)
(* succeeds is identified with the number it is for.                       *)
(***************************************************************************)
EXTENDS Integers, FiniteSets

CONSTANTS
  Requests,     \* rows sms.phone_number_requests can get (bound)
  Stock,        \* the numbers the telco can sell
  Service,      \* the telco of the sending account
  Campaign,     \* whether the profile has a 10DLC campaign from the start
  MayAttach,    \* whether one may be attached later
  Jobs,         \* rows worker.jobs can have at a time (bound)
  MaxAttempts,  \* max_attempts of a job (25)
  MaxErrors,    \* bound on failing calls and statements
  MaxCrashes,   \* bound on crashes of a worker
  None,         \* SQL null
  Failed        \* an order the telco did not complete

ASSUME PurchaseAssumption ==
  /\ Service \in {"bandwidth", "telnyx", "twilio"}
  /\ Campaign \in BOOLEAN
  /\ MayAttach \in BOOLEAN
  /\ MaxAttempts \in Nat \ {0}
  /\ MaxErrors \in Nat
  /\ MaxCrashes \in Nat
  /\ None \notin Stock \cup Requests
  /\ Failed \notin Stock \cup {None}

VARIABLES
  \* sms.phone_number_requests
  state, phone, order, profiled, attached, campaign,
  \* sms.phone_numbers and the campaign of sms.profiles
  live, cordoned, profileCampaign,
  \* the profile's 10DLC flag in the Redis cache
  cached,
  \* the numbers this account has bought from the telco
  owned,
  \* graphile-worker's jobs
  status, job, attempts,
  \* the running handler of each job and its uncommitted writes
  pc, list, cand, fallback, newPhone, newOrder,
  \* bounds
  errors, crashes

rowVars == <<state, phone, order, profiled, attached, campaign>>
numberVars == <<live, cordoned, profileCampaign>>
jobVars == <<status, job, attempts>>
handlerVars == <<pc, list, cand, fallback, newPhone, newOrder>>
boundVars == <<errors, crashes>>
vars == <<state, phone, order, profiled, attached, campaign,
          live, cordoned, profileCampaign, cached, owned,
          status, job, attempts,
          pc, list, cand, fallback, newPhone, newOrder, errors, crashes>>

Tasks == {"purchase-number", "poll-number-order", "associate-service-profile",
          "associate-service-10dlc-campaign"}
NoJob == [task |-> "none", of |-> None, number |-> None, order |-> None,
          campaign |-> FALSE]

-----------------------------------------------------------------------------
Init ==
  /\ state = [r \in Requests |-> "unused"]
  /\ phone = [r \in Requests |-> None]
  /\ order = [r \in Requests |-> None]
  /\ profiled = [r \in Requests |-> FALSE]
  /\ attached = [r \in Requests |-> FALSE]
  /\ campaign = [r \in Requests |-> FALSE]
  /\ live = [n \in Stock |-> 0]
  /\ cordoned = {}
  /\ profileCampaign = Campaign
  /\ cached = "unset"
  /\ owned = {}
  /\ status = [j \in Jobs |-> "free"]
  /\ job = [j \in Jobs |-> NoJob]
  /\ attempts = [j \in Jobs |-> 0]
  /\ pc = [j \in Jobs |-> "idle"]
  /\ list = [j \in Jobs |-> {}]
  /\ cand = [j \in Jobs |-> None]
  /\ fallback = [j \in Jobs |-> FALSE]
  /\ newPhone = [j \in Jobs |-> None]
  /\ newOrder = [j \in Jobs |-> None]
  /\ errors = 0
  /\ crashes = 0

-----------------------------------------------------------------------------
(* graphile-worker *)

Free == {j \in Jobs : status[j] = "free"}
Fresh == CHOOSE j \in Free : TRUE

(* graphile_worker.add_job, next to a change of the status of the job that
   calls it. *)
AddJob(statuses, payload) ==
  /\ Free # {}
  /\ status' = [statuses EXCEPT ![Fresh] = "queued"]
  /\ job' = [job EXCEPT ![Fresh] = payload]
  /\ attempts' = [attempts EXCEPT ![Fresh] = 0]

(* The locals of a handler, and its transaction, are gone. *)
EndHandler(j) ==
  /\ pc' = [pc EXCEPT ![j] = "idle"]
  /\ list' = [list EXCEPT ![j] = {}]
  /\ cand' = [cand EXCEPT ![j] = None]
  /\ fallback' = [fallback EXCEPT ![j] = FALSE]
  /\ newPhone' = [newPhone EXCEPT ![j] = None]
  /\ newOrder' = [newOrder EXCEPT ![j] = None]

Start(j) ==
  /\ status[j] = "queued"
  /\ status' = [status EXCEPT ![j] = "running"]
  /\ attempts' = [attempts EXCEPT ![j] = @ + 1]
  /\ pc' = [pc EXCEPT ![j] =
              IF job[j].task = "purchase-number" THEN "search" ELSE "step"]
  /\ UNCHANGED <<rowVars, numberVars, cached, owned, job, list, cand, fallback,
                 newPhone, newOrder, boundVars>>

LastAttempt(j) == attempts[j] = MaxAttempts

(* The handler throws: its transaction is rolled back and the job retried,
   or parked in worker.failed_jobs. *)
Throw(j) ==
  /\ status' = [status EXCEPT ![j] =
                  IF LastAttempt(j) THEN "parked" ELSE "queued"]
  /\ EndHandler(j)

(* A call of the telco, of Redis or of Postgres fails. *)
Fail(j) ==
  /\ errors < MaxErrors
  /\ status[j] = "running"
  /\ errors' = errors + 1
  /\ Throw(j)
  /\ UNCHANGED <<rowVars, numberVars, cached, owned, job, attempts, crashes>>

(* The worker of j dies: an open transaction is rolled back, and the job
   runs again even if its transaction was committed. *)
Crash(j) ==
  /\ crashes < MaxCrashes
  /\ status[j] \in {"running", "committed"}
  /\ crashes' = crashes + 1
  /\ status' = [status EXCEPT ![j] = IF LastAttempt(j) THEN "dead" ELSE "queued"]
  /\ EndHandler(j)
  /\ UNCHANGED <<rowVars, numberVars, cached, owned, job, attempts, errors>>

(* The worker deletes a job whose handler has returned. *)
Complete(j) ==
  /\ status[j] = "committed"
  /\ status' = [status EXCEPT ![j] = "free"]
  /\ job' = [job EXCEPT ![j] = NoJob]
  /\ attempts' = [attempts EXCEPT ![j] = 0]
  /\ UNCHANGED <<rowVars, numberVars, cached, owned, handlerVars, boundVars>>

-----------------------------------------------------------------------------
(* The insert of a request: one trigger copies the campaign of the profile
   to the row, another queues the first job. *)
CreateRequest(r) ==
  /\ state[r] = "unused"
  /\ state' = [state EXCEPT ![r] = "pending"]
  /\ campaign' = [campaign EXCEPT ![r] = profileCampaign]
  /\ AddJob(status, [task |-> "purchase-number", of |-> r, number |-> None,
                     order |-> None, campaign |-> profileCampaign])
  /\ UNCHANGED <<phone, order, profiled, attached, numberVars, cached, owned,
                 handlerVars, boundVars>>

-----------------------------------------------------------------------------
(* The end of every step of the pipeline. *)

Cache(flag) == IF flag THEN "yes" ELSE "no"

(* profileConfigCache.getProfileConfig *)
CachedFlag == IF cached = "unset" THEN Cache(profileCampaign) ELSE cached

SkipsProfile(service, is10dlc, task) ==
  IF task = "purchase-number" THEN "poll-number-order" ELSE "complete-purchase"

getNextAction(service, is10dlc, task) ==
  IF task = "purchase-number" /\ service # "twilio" THEN "poll-number-order"
  ELSE IF task = "poll-number-order" /\ service = "telnyx"
    THEN "associate-service-profile"
  ELSE IF is10dlc /\ task # "associate-service-10dlc-campaign"
    THEN "associate-service-10dlc-campaign"
  ELSE "complete-purchase"

Refires(r) == TRUE

(* The trigger of a fulfilment fires when fulfilled_at was null. *)
FirstFulfilment(r) == state[r] = "pending"

AlwaysQueues(next) == TRUE

QueuesNext(next) == next # "complete-purchase"

(* The wrapper of a step of the job j: with the row's phone number ph and
   order o, it completes the purchase or queues the next step with the row
   as its payload, and commits. *)
EndStep(j, ph, o) ==
  LET r == job[j].of
      next == getNextAction(Service, CachedFlag = "yes", job[j].task)
  IN
  /\ cached' = CachedFlag
  /\ IF next = "complete-purchase" /\ FirstFulfilment(r)
       THEN /\ state' = [state EXCEPT ![r] = "fulfilled"]
            /\ live' = [live EXCEPT ![ph] = @ + 1]
       ELSE UNCHANGED <<state, live>>
  /\ IF QueuesNext(next)
       THEN AddJob([status EXCEPT ![j] = "committed"],
                   [task |-> next, of |-> r, number |-> ph, order |-> o,
                    campaign |-> campaign[r]])
       ELSE /\ status' = [status EXCEPT ![j] = "committed"]
            /\ UNCHANGED <<job, attempts>>
  /\ EndHandler(j)
  /\ UNCHANGED <<campaign, cordoned, profileCampaign, boundVars>>

(* No other transaction has written the row of request r. *)
RowFree(j, r) ==
  \A k \in Jobs \ {j} : job[k].of = r => newPhone[k] = None

-----------------------------------------------------------------------------
(* purchase-number *)

(* The telco lists available numbers of the area code; Twilio buys without
   a list. *)
Search(j) ==
  /\ pc[j] = "search"
  /\ cached' = CachedFlag
  /\ IF Service = "twilio"
       THEN /\ pc' = [pc EXCEPT ![j] = "order"]
            /\ UNCHANGED list
       ELSE /\ pc' = [pc EXCEPT ![j] = "next"]
            /\ \E S \in SUBSET (Stock \ owned) : list' = [list EXCEPT ![j] = S]
  /\ UNCHANGED <<rowVars, numberVars, owned, jobVars, cand, fallback, newPhone,
                 newOrder, boundVars>>

(* NoAvailableNumbersError: one fallback area code is tried, if the
   purchasing strategy of the location allows one and there is one. *)
Exhausted(j) ==
  \/ /\ ~fallback[j]
     /\ fallback' = [fallback EXCEPT ![j] = TRUE]
     /\ pc' = [pc EXCEPT ![j] = "search"]
     /\ UNCHANGED <<status, list, cand, newPhone, newOrder>>
  \/ Throw(j)

GiveUp(j) ==
  /\ pc[j] = "next"
  /\ list[j] = {}
  /\ Exhausted(j)
  /\ UNCHANGED <<rowVars, numberVars, cached, owned, job, attempts, boundVars>>

WithoutPop(S, n) == S

Pop(S, n) == S \ {n}

Candidate(j) ==
  /\ pc[j] = "next"
  /\ \E n \in list[j] :
       /\ cand' = [cand EXCEPT ![j] = n]
       /\ list' = [list EXCEPT ![j] = Pop(@, n)]
  /\ pc' = [pc EXCEPT ![j] = IF Service = "bandwidth" THEN "claim" ELSE "check"]
  /\ UNCHANGED <<rowVars, numberVars, cached, owned, jobVars, fallback, newPhone,
                 newOrder, boundVars>>

NeverClaimed(r, n) == FALSE

(* The unique index on the numbers of unfulfilled requests. *)
Claimed(r, n) ==
  /\ state[r] = "pending"
  /\ \E s \in Requests \ {r} : state[s] = "pending" /\ phone[s] = n

(* Another transaction has claimed the number and not committed yet. *)
ClaimInFlight(j, n) ==
  /\ state[job[j].of] = "pending"
  /\ \E k \in Jobs \ {j} : newPhone[k] = n /\ state[job[k].of] = "pending"

(* Bandwidth: the number is written to the row first.  The update waits for
   a claim in flight, and a unique violation moves on to the next number. *)
Claim(j) ==
  LET r == job[j].of
      n == cand[j]
  IN
  /\ pc[j] = "claim"
  /\ ~ClaimInFlight(j, n)
  /\ RowFree(j, r)
  /\ IF Claimed(r, n)
       THEN /\ pc' = [pc EXCEPT ![j] = "next"]
            /\ UNCHANGED newPhone
       ELSE /\ pc' = [pc EXCEPT ![j] = "check"]
            /\ newPhone' = [newPhone EXCEPT ![j] = n]
  /\ UNCHANGED <<rowVars, numberVars, cached, owned, jobVars, list, cand,
                 fallback, newOrder, boundVars>>

(* doesLivePhoneNumberExist.  Bandwidth asks for the number without its +1,
   and live numbers are stored with it. *)
doesLivePhoneNumberExist(n) == Service # "bandwidth" /\ live[n] > 0

CheckLive(j) ==
  /\ pc[j] = "check"
  /\ pc' = [pc EXCEPT ![j] = IF doesLivePhoneNumberExist(cand[j])
                               THEN "next" ELSE "order"]
  /\ UNCHANGED <<rowVars, numberVars, cached, owned, jobVars, list, cand,
                 fallback, newPhone, newOrder, boundVars>>

AlsoNext == "next"

AfterOrder == "finish"

(* The order of number n is accepted and saved to the row. *)
Buy(j, n) ==
  /\ owned' = owned \cup {n}
  /\ newPhone' = [newPhone EXCEPT ![j] = n]
  /\ newOrder' = [newOrder EXCEPT ![j] = n]
  /\ pc' = [pc EXCEPT ![j] = AfterOrder]
  /\ UNCHANGED <<status, list, cand, fallback>>

(* A number sold meanwhile: Bandwidth accepts the order and fails it later,
   Telnyx rejects it.  Twilio picks a number itself. *)
Order(j) ==
  /\ pc[j] = "order"
  /\ \/ /\ Service # "twilio"
        /\ cand[j] \notin owned
        /\ Buy(j, cand[j])
     \/ /\ Service = "bandwidth"
        /\ cand[j] \in owned
        /\ newOrder' = [newOrder EXCEPT ![j] = Failed]
        /\ pc' = [pc EXCEPT ![j] = "finish"]
        /\ UNCHANGED <<owned, status, list, cand, fallback, newPhone>>
     \/ /\ Service = "telnyx"
        /\ cand[j] \in owned
        /\ pc' = [pc EXCEPT ![j] = "next"]
        /\ UNCHANGED <<owned, status, list, cand, fallback, newPhone, newOrder>>
     \/ /\ Service = "twilio"
        /\ \E n \in Stock \ owned : Buy(j, n)
     \/ /\ Service = "twilio"
        /\ Exhausted(j)
        /\ UNCHANGED owned
  /\ UNCHANGED <<rowVars, numberVars, cached, job, attempts, boundVars>>

FinishPurchase(j) ==
  LET r == job[j].of IN
  /\ pc[j] = "finish"
  /\ phone' = [phone EXCEPT ![r] = newPhone[j]]
  /\ order' = [order EXCEPT ![r] = newOrder[j]]
  /\ EndStep(j, newPhone[j], newOrder[j])
  /\ UNCHANGED <<profiled, attached, owned>>

-----------------------------------------------------------------------------
(* The other steps, with the payload their job was queued with. *)

AtStep(j, task) ==
  /\ pc[j] = "step"
  /\ job[j].task = task
  /\ RowFree(j, job[j].of)

AnyStatus(o) == TRUE

OrderComplete(o) == o # Failed

PollNumberOrder(j) ==
  LET r == job[j].of IN
  /\ AtStep(j, "poll-number-order")
  /\ OrderComplete(job[j].order)
  /\ EndStep(j, phone[r], order[r])
  /\ UNCHANGED <<phone, order, profiled, attached, owned>>

(* The order is not complete yet, or failed. *)
OrderNotReady(j) ==
  /\ AtStep(j, "poll-number-order")
  /\ Throw(j)
  /\ UNCHANGED <<rowVars, numberVars, cached, owned, job, attempts, boundVars>>

AssociateProfile(j) ==
  LET r == job[j].of IN
  /\ AtStep(j, "associate-service-profile")
  /\ profiled' = [profiled EXCEPT ![r] = TRUE]
  /\ EndStep(j, phone[r], order[r])
  /\ UNCHANGED <<phone, order, attached, owned>>

(* The payload's schema requires the id of the request and of a campaign. *)
AssociateCampaign(j) ==
  LET r == job[j].of IN
  /\ AtStep(j, "associate-service-10dlc-campaign")
  /\ IF r # None /\ job[j].campaign
       THEN /\ attached' = [attached EXCEPT ![r] = TRUE]
            /\ EndStep(j, phone[r], order[r])
            /\ UNCHANGED <<phone, order, profiled, owned>>
       ELSE /\ Throw(j)
            /\ UNCHANGED <<rowVars, numberVars, cached, owned, job, attempts,
                           boundVars>>

-----------------------------------------------------------------------------
(* public.attach_10dlc_campaign_to_profile: the profile gets a campaign, all
   numbers of the location but one are cordoned, and a job is queued for the
   request of that one, with a payload that lacks the request's id. *)
AttachCampaign ==
  /\ MayAttach
  /\ ~profileCampaign
  /\ profileCampaign' = TRUE
  /\ \/ /\ \A n \in Stock : live[n] = 0
        /\ UNCHANGED <<cordoned, jobVars>>
     \/ \E n \in {n \in Stock : live[n] > 0} :
          /\ cordoned' = {x \in Stock \ {n} : live[x] > 0}
          /\ Cardinality({r \in Requests : phone[r] = n}) = 1
          /\ AddJob(status, [task |-> "associate-service-10dlc-campaign",
                             of |-> None, number |-> n, order |-> None,
                             campaign |-> TRUE])
  /\ UNCHANGED <<rowVars, live, cached, owned, handlerVars, boundVars>>

(* The cached profile expires after five minutes. *)
ExpireCache ==
  /\ MayAttach
  /\ cached # "unset"
  /\ cached' = "unset"
  /\ UNCHANGED <<rowVars, numberVars, owned, jobVars, handlerVars, boundVars>>

-----------------------------------------------------------------------------
Purchase(j) ==
  \/ Search(j) \/ GiveUp(j) \/ Candidate(j) \/ Claim(j) \/ CheckLive(j)
  \/ Order(j) \/ FinishPurchase(j)

Step(j) ==
  \/ PollNumberOrder(j) \/ OrderNotReady(j) \/ AssociateProfile(j)
  \/ AssociateCampaign(j)

Next ==
  \/ \E r \in Requests : CreateRequest(r)
  \/ \E j \in Jobs :
       \/ Start(j) \/ Purchase(j) \/ Step(j) \/ Complete(j) \/ Fail(j)
       \/ Crash(j)
  \/ AttachCampaign
  \/ ExpireCache

Spec == Init /\ [][Next]_vars

(* Workers take queued jobs and running handlers go on; nothing is assumed
   of the telco, whose orders may stay incomplete until the job is parked. *)
Fairness ==
  \A j \in Jobs : /\ WF_vars(Start(j))
                  /\ WF_vars(Purchase(j))
                  /\ WF_vars(Step(j))
                  /\ WF_vars(Complete(j))

FairSpec == Spec /\ Fairness

-----------------------------------------------------------------------------
RowType ==
  /\ state \in [Requests -> {"unused", "pending", "fulfilled"}]
  /\ phone \in [Requests -> Stock \cup {None}]
  /\ order \in [Requests -> Stock \cup {None, Failed}]
  /\ profiled \in [Requests -> BOOLEAN]
  /\ attached \in [Requests -> BOOLEAN]
  /\ campaign \in [Requests -> BOOLEAN]

NumberType ==
  /\ live \in [Stock -> Nat]
  /\ cordoned \subseteq Stock
  /\ profileCampaign \in BOOLEAN
  /\ cached \in {"unset", "no", "yes"}
  /\ owned \subseteq Stock

JobType ==
  /\ status \in [Jobs -> {"free", "queued", "running", "committed", "parked",
                           "dead"}]
  /\ job \in [Jobs -> [task : Tasks \cup {"none"},
                        of : Requests \cup {None},
                        number : Stock \cup {None},
                        order : Stock \cup {None, Failed},
                        campaign : BOOLEAN]]
  /\ attempts \in [Jobs -> 0..MaxAttempts]

HandlerType ==
  /\ pc \in [Jobs -> {"idle", "search", "next", "claim", "check", "order",
                       "finish", "step"}]
  /\ list \in [Jobs -> SUBSET Stock]
  /\ cand \in [Jobs -> Stock \cup {None}]
  /\ fallback \in [Jobs -> BOOLEAN]
  /\ newPhone \in [Jobs -> Stock \cup {None}]
  /\ newOrder \in [Jobs -> Stock \cup {None, Failed}]

BoundType ==
  /\ errors \in 0..MaxErrors
  /\ crashes \in 0..MaxCrashes

(* Every variable has the type its column, key or local has in the code, and
   no job is tried more often than it may be. *)
TypeOK ==
  /\ RowType
  /\ NumberType
  /\ JobType
  /\ HandlerType
  /\ BoundType

(* Unless a worker crashes, no number is made live twice, although two
   requests may have ordered it and no index of the table forbids a second
   live row: the order that came second fails, and a purchase goes on only
   after an order that completed. *)
LiveOnce == \A n \in Stock : live[n] <= 1

(* Unless a worker crashes or a call fails between an order and the commit
   that records it, every number that was paid for is known: it is in the row
   of a request, or about to be. *)
NothingOrphaned ==
  errors = 0 /\ crashes = 0 => \A n \in owned : \/ \E r \in Requests : phone[r] = n /\ order[r] = n
                   \/ \E j \in Jobs : newPhone[j] = n /\ newOrder[j] = n

JobsOf(r) == {j \in Jobs : job[j].of = r /\ status[j] # "committed"}

(* Unless a worker crashes, the steps of a purchase are a chain: a pending
   request has exactly one job, a fulfilled one has none. *)
OneJobEach ==
  \A r \in Requests :
     Cardinality(JobsOf(r)) = IF state[r] = "pending" THEN 1 ELSE 0

(* A number is not live before the telco can use it for this profile: with
   Telnyx it is on the messaging profile, and with a campaign the profile had
   from the start it is on the campaign. *)
StepsDone ==
  \A r \in Requests : state[r] = "fulfilled" =>
     /\ Service = "telnyx" => profiled[r]
     /\ Campaign => attached[r]

(* Unless a worker crashes, two requests in flight never order the same
   number: an order fails only for a number that is live already. *)
ClaimsExclude ==
  \A r \in Requests : order[r] = Failed => live[phone[r]] > 0

(* bandwidth-base.ts and telnyx.ts: "Make sure a different request didn't
   just buy this number" before it is ordered. *)
CheckStopsLive ==
  [][\A j \in Jobs : pc[j] = "check" /\ pc'[j] = "order" =>
       live[cand[j]] = 0]_vars

(* public.attach_10dlc_campaign_to_profile: a location that has no number yet
   is fine, "we'll associate the number when we buy it". *)
AttachHonoured ==
  [][\A r \in Requests :
       profileCampaign /\ state[r] = "pending" /\ state'[r] = "fulfilled" =>
         attached'[r]]_vars

(* A request is fulfilled, or its job parked, in the end: no purchase goes
   round in circles over numbers it cannot have. *)
EventuallySettled ==
  \A r \in Requests : state[r] = "pending" ~>
     \/ state[r] = "fulfilled"
     \/ \E j \in Jobs : job[j].of = r /\ status[j] \in {"parked", "dead"}

Pool == INSTANCE NumberPool

(* Seen from outside, a purchase is one step: it makes one number live that
   was not, once per request, even when a worker crashes after a commit and
   the step is run again. *)
ImplementsPool == Pool!Spec
=============================================================================
