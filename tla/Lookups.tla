------------------------------ MODULE Lookups ------------------------------
(***************************************************************************)
(* Carrier lookups: a client adds numbers to a request, a trigger decides  *)
(* for each whether a lookup job is needed, the job asks Telnyx and stores *)
(* the answer, which marks every access of the number done; and the HTTP   *)
(* endpoint that looks one number up at once, beside the jobs.             *)
(*                                                                         *)
(* An access is the pair of a request and a number.  The endpoint's access *)
(* belongs to no request (Http) and is born done, but the trigger decides  *)
(* for it as well.                                                         *)
(***************************************************************************)
EXTENDS Integers, FiniteSets

CONSTANTS
  Requests,       \* lookup.requests of clients
  Http,           \* the request of accesses made by the endpoint
  Numbers,        \* normalized phone numbers
  LookupAttempts, \* max_attempts of lookup (25)
  LookupFaults    \* bound on failing statements and crashes

ASSUME LookupsAssumption ==
  /\ Http \notin Requests
  /\ LookupAttempts \in Nat \ {0}
  /\ LookupFaults \in Nat

VARIABLES
  \* lookup.accesses: their state, or "none"
  access,
  \* an insert of an access between its trigger and its commit
  inserting,
  \* lookup.phone_data: numbers ever stored, and those still fresh
  known, fresh,
  \* the lookup job an access queued, its attempts
  lookup, lookupTries,
  \* the endpoint: its call for a number
  http,
  \* lookup.requests closed, completed
  closed, completed,
  \* history: calls of Telnyx paid for a number, and answers a failure lost
  \* before they were stored; numbers whose inserts overlapped, that the
  \* endpoint looked up, or that went stale
  paid, unstored, raced,
  \* bound
  lookupFaults

lookupVars == <<access, inserting, known, fresh, lookup, lookupTries, http, closed,
                completed, paid, unstored, raced, lookupFaults>>
requestVars == <<closed, completed>>
dataVars == <<known, fresh>>
paidVars == <<paid, unstored>>
Accesses == (Requests \cup {Http}) \X Numbers
Of(n) == {a \in Accesses : a[2] = n}

LookupsInit ==
  /\ access = [a \in Accesses |-> "none"]
  /\ inserting = [a \in Accesses |-> "no"]
  /\ known = {} /\ fresh = {}
  /\ lookup = [a \in Accesses |-> "none"]
  /\ lookupTries = [a \in Accesses |-> 0]
  /\ http = [n \in Numbers |-> "idle"]
  /\ closed = {} /\ completed = {}
  /\ paid = [n \in Numbers |-> 0]
  /\ unstored = [n \in Numbers |-> 0]
  /\ raced = {}
  /\ lookupFaults = 0

LookupFault == /\ lookupFaults < LookupFaults
               /\ lookupFaults' = lookupFaults + 1

-----------------------------------------------------------------------------
\* tg__access__fulfill, before the insert: a job unless the number is fresh or
\* an access of it is not done.
Fetching(n) == \E a \in Of(n) : access[a] \in {"waiting", "fetching"}
IgnoresFetching(n) == n \notin fresh
NeedsLookup(n) == ~(n \in fresh \/ Fetching(n))

Overlaps(a) == \E b \in Of(a[2]) \ {a} : inserting[b] # "no"

\* addPhoneNumbersToRequest: numbers are normalized first, and a number that the
\* request has keeps its access.
AddNumber(a) ==
  /\ a[1] \in Requests /\ access[a] = "none" /\ inserting[a] = "no"
  /\ inserting' = [inserting EXCEPT ![a] = IF NeedsLookup(a[2]) THEN "job" ELSE "done"]
  /\ raced' = IF Overlaps(a) THEN raced \cup {a[2]} ELSE raced
  /\ UNCHANGED <<access, dataVars, lookup, lookupTries, http, requestVars, paidVars,
                 lookupFaults>>

\* The commit of an access and of the job its trigger added.
CommitAccess(a) ==
  /\ inserting[a] # "no"
  /\ inserting' = [inserting EXCEPT ![a] = "no"]
  /\ access' = [access EXCEPT ![a] =
                  IF inserting[a] = "job" /\ a[1] # Http THEN "waiting" ELSE "done"]
  /\ lookup' = [lookup EXCEPT ![a] = IF inserting[a] = "job" THEN "queued" ELSE @]
  /\ UNCHANGED <<dataVars, lookupTries, http, requestVars, paidVars, raced, lookupFaults>>

AbortAccess(a) ==
  /\ inserting[a] # "no" /\ LookupFault
  /\ inserting' = [inserting EXCEPT ![a] = "no"]
  /\ UNCHANGED <<access, dataVars, lookup, lookupTries, http, requestVars,
                 paidVars, raced>>

-----------------------------------------------------------------------------
\* The job: the access is fetching, even if another job made it done meanwhile;
\* then Telnyx is asked, and its answer stored.
PerformLookup(a) ==
  /\ lookup[a] = "queued"
  /\ lookup' = [lookup EXCEPT ![a] = "fetching"]
  /\ lookupTries' = [lookupTries EXCEPT ![a] = @ + 1]
  /\ access' = [access EXCEPT ![a] = "fetching"]
  /\ UNCHANGED <<inserting, dataVars, http, requestVars, paidVars, raced, lookupFaults>>

\* tg__lookup__update_phone_data and tg__lookup__mark_access_done.
MarkAsked(n) == [a \in Accesses |-> IF a \in Of(n) /\ access[a] = "waiting"
                                    THEN "done" ELSE access[a]]
MarkDone(n) == [a \in Accesses |-> IF a \in Of(n) /\ access[a] # "none"
                                   THEN "done" ELSE access[a]]

StoreLookup(n) ==
  /\ known' = known \cup {n} /\ fresh' = fresh \cup {n}
  /\ access' = MarkDone(n)

\* The call: an error of Telnyx is an answer as well.
Pay(n) == paid' = [paid EXCEPT ![n] = @ + 1]
Lose(n) == unstored' = [unstored EXCEPT ![n] = @ + 1]

LookupAnswered(a) ==
  /\ lookup[a] = "fetching"
  /\ Pay(a[2])
  /\ lookup' = [lookup EXCEPT ![a] = "answered"]
  /\ UNCHANGED <<access, inserting, dataVars, lookupTries, http, requestVars, unstored, raced,
                 lookupFaults>>

StoreAnswer(a) ==
  /\ lookup[a] = "answered"
  /\ StoreLookup(a[2])
  /\ lookup' = [lookup EXCEPT ![a] = "done"]
  /\ UNCHANGED <<inserting, lookupTries, http, requestVars, paidVars, raced, lookupFaults>>

\* A statement fails or the worker crashes: before the call, within it, when
\* Telnyx may have answered nobody, or before the answer is stored.
Retry(a) == lookup' = [lookup EXCEPT ![a] =
              IF lookupTries'[a] = LookupAttempts THEN "over" ELSE "queued"]

StartFails(a) ==
  /\ lookup[a] = "queued" /\ LookupFault
  /\ lookupTries' = [lookupTries EXCEPT ![a] = @ + 1]
  /\ Retry(a)
  /\ UNCHANGED <<access, inserting, dataVars, http, requestVars, paidVars, raced>>

LookupFails(a) ==
  /\ lookup[a] \in {"fetching", "answered"} /\ LookupFault
  /\ UNCHANGED lookupTries
  /\ Retry(a)
  /\ \/ lookup[a] = "fetching" /\ UNCHANGED paidVars
     \/ lookup[a] = "fetching" /\ Pay(a[2]) /\ Lose(a[2])
     \/ lookup[a] = "answered" /\ Lose(a[2]) /\ UNCHANGED paid
  /\ UNCHANGED <<access, inserting, dataVars, http, requestVars, raced>>

LookupStep(a) == PerformLookup(a) \/ LookupAnswered(a) \/ StoreAnswer(a)

-----------------------------------------------------------------------------
\* GET /lookup/:number.  A miss asks Telnyx, then inserts the answer and the
\* access in parallel; an answer without a carrier makes neither insert, and the
\* client no answer.
HttpHit(n) ==
  /\ http[n] = "idle" /\ n \in fresh
  /\ http' = [http EXCEPT ![n] = "access"]
  /\ UNCHANGED <<access, inserting, dataVars, lookup, lookupTries, requestVars, paidVars,
                 raced, lookupFaults>>

HttpMiss(n) ==
  /\ http[n] = "idle" /\ n \notin fresh
  /\ http' = [http EXCEPT ![n] = "both"]
  /\ Pay(n)
  /\ raced' = raced \cup {n}
  /\ UNCHANGED <<access, inserting, dataVars, lookup, lookupTries, requestVars, unstored,
                 lookupFaults>>

HttpAccess(n) ==
  /\ http[n] \in {"both", "access"}
  /\ http' = [http EXCEPT ![n] = IF @ = "both" THEN "store" ELSE "told"]
  /\ inserting' = [inserting EXCEPT ![<<Http, n>>] =
                     IF NeedsLookup(n) THEN "job" ELSE "done"]
  /\ UNCHANGED <<access, dataVars, lookup, lookupTries, requestVars, paidVars,
                 raced, lookupFaults>>

HttpStore(n) ==
  /\ http[n] \in {"both", "store"}
  /\ http' = [http EXCEPT ![n] = IF @ = "both" THEN "access" ELSE "told"]
  /\ StoreLookup(n)
  /\ UNCHANGED <<inserting, lookup, lookupTries, requestVars, paidVars, raced, lookupFaults>>

HttpHangs(n) ==
  /\ http[n] \in {"both", "store"} /\ LookupFault
  /\ http' = [http EXCEPT ![n] = "hung"]
  /\ UNCHANGED <<access, inserting, dataVars, lookup, lookupTries, requestVars, paidVars,
                 raced>>

\* The data of a number ages.
GoStale(n) ==
  /\ n \in fresh
  /\ fresh' = fresh \ {n}
  /\ raced' = raced \cup {n}
  /\ UNCHANGED <<access, inserting, known, paidVars, lookup, lookupTries, http,
                 requestVars, lookupFaults>>

-----------------------------------------------------------------------------
\* lookup.close_request and lookup.request_progress.
AllDone(r) == \A n \in Numbers : access[<<r, n>>] \in {"none", "done"}

CloseRequest(r) ==
  /\ r \notin closed
  /\ closed' = closed \cup {r}
  /\ completed' = IF AllDone(r) THEN completed \cup {r} ELSE completed
  /\ UNCHANGED <<access, inserting, dataVars, lookup, lookupTries, http, paidVars,
                 raced, lookupFaults>>

RequestProgress(r) ==
  /\ r \in closed /\ r \notin completed /\ AllDone(r)
  /\ completed' = completed \cup {r}
  /\ UNCHANGED <<access, inserting, dataVars, lookup, lookupTries, http, closed,
                 paidVars, raced, lookupFaults>>

LookupsNext ==
  \/ \E a \in Accesses : AddNumber(a) \/ CommitAccess(a) \/ AbortAccess(a)
                         \/ LookupStep(a) \/ StartFails(a) \/ LookupFails(a)
  \/ \E n \in Numbers : HttpHit(n) \/ HttpMiss(n) \/ HttpAccess(n) \/ HttpStore(n)
                        \/ HttpHangs(n) \/ GoStale(n)
  \/ \E r \in Requests : CloseRequest(r) \/ RequestProgress(r)

LookupsSpec == LookupsInit /\ [][LookupsNext]_lookupVars

-----------------------------------------------------------------------------
(* Shape of the state of lookups: a job has no more attempts than it may. *)
LookupsTypeOK ==
  /\ access \in [Accesses -> {"none", "waiting", "fetching", "done"}]
  /\ inserting \in [Accesses -> {"no", "job", "done"}]
  /\ fresh \subseteq known /\ known \subseteq Numbers
  /\ lookup \in [Accesses -> {"none", "queued", "fetching", "answered", "done", "over"}]
  /\ lookupTries \in [Accesses -> 0..LookupAttempts]
  /\ closed \subseteq Requests /\ completed \subseteq closed
  /\ http \in [Numbers -> {"idle", "both", "store", "access", "told", "hung"}]
  /\ paid \in [Numbers -> Nat] /\ unstored \in [Numbers -> Nat]
  /\ raced \subseteq Numbers
  /\ lookupFaults \in 0..LookupFaults

UnderWay(a) == lookup[a] \in {"queued", "fetching", "answered"}
GivenUp(a) == lookup[a] = "over" /\ lookupTries[a] = LookupAttempts

(* An access waits only for a job of its own that will still run, or that was
   parked when every attempt it may have had failed: nothing else leaves an
   access waiting for ever. *)
WaitingIsPursued ==
  \A a \in Accesses : access[a] \in {"waiting", "fetching"} => UnderWay(a) \/ GivenUp(a)

(* The trigger calls an access done that rests on the lookup of another, so an
   access of a request that is done may have no data yet: then a job of the
   number will still run, or one used up its attempts. *)
DoneHasDataOrLookup ==
  \A a \in Accesses : a[1] \in Requests /\ access[a] = "done" =>
    a[2] \in known \/ \E b \in Of(a[2]) : UnderWay(b) \/ GivenUp(b)

(* Every access is accounted for: it has data, or a job will still bring it, or
   all attempts of that job failed (tg__access__fulfill, performLookup).  In
   that last case the access, and all that rest on it, have no data until the
   endpoint asks: the trigger queues no other job while one is left fetching. *)
AccessAccounted == WaitingIsPursued /\ DoneHasDataOrLookup

(* Telnyx is paid for a number once, and once more for each answer that a
   failure lost before it was stored, unless two inserts of the number
   overlapped, the endpoint asked beside the jobs, or its data went stale
   (performLookup pays, then stores). *)
LookedUpOnce == \A n \in Numbers \ raced : paid[n] <= 1 + unstored[n]
=============================================================================
