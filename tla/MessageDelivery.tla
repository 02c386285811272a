-------------------------- MODULE MessageDelivery ---------------------------
(***************************************************************************)
(* From a routed message to the client's knowledge of what became of it:  *)
(* the send-message job, the telco, the webhook that takes the telco's    *)
(* delivery reports, the minutely batch that finds the message of a       *)
(* report, and the jobs that forward reports to the client.               *)
(*                                                                         *)
(* The jobs run without a transaction: every query commits on its own, so *)
(* each is an action, and a crash or a failing query may come between any *)
(* two.  The k-th sending of message m that the telco accepts has service *)
(* id <<m, k>>; a report names its sending, its event and which of        *)
(* several identical posts it is.                                          *)
(***************************************************************************)
EXTENDS Integers, FiniteSets

CONSTANTS
  Messages,        \* routed messages, each with a send-message job
  Service,         \* the telco of the sending account
  Events,          \* the events the telco reports
  Unknown,         \* those the code has no event type for
  Copies,          \* posts of one report (bound)
  Batches,         \* runs of resolve-delivery-reports at a time (bound)
  MaxAttempts,     \* max_attempts of send-message (5)
  ForwardAttempts, \* max_attempts of forward-delivery-report (6)
  OwnAttempts,     \* the same, of the job the trigger queues (25)
  TrackCost,       \* config.trackCost
  MaxErrors,       \* bound on failing calls and statements
  MaxCrashes,      \* bound on crashes of a worker
  None,            \* SQL null
  Failed,          \* telco_status failed, without a service id
  Own              \* the maker of reports that are not from the service

ASSUME DeliveryAssumption ==
  /\ Service \in {"bandwidth", "telnyx", "twilio"}
  /\ Unknown \subseteq Events
  /\ Copies \in Nat \ {0}
  /\ MaxAttempts \in Nat \ {0}
  /\ ForwardAttempts \in Nat \ {0}
  /\ OwnAttempts \in Nat \ {0}
  /\ TrackCost \in BOOLEAN
  /\ MaxErrors \in Nat
  /\ MaxCrashes \in Nat
  /\ None \notin Nat \cup {Failed}
  /\ Failed \notin Nat \cup Events
  /\ Own \notin Batches \cup {"webhook"}
  /\ "webhook" \notin Batches

VARIABLES
  \* the send-message job of each message
  status, attempts, pc,
  \* the telco: sendings accepted, whether it knows the from number
  calls, numberKnown,
  \* the repair of a from number: associate-service-profile-to-phone-number
  repair,
  \* sms.outbound_messages_telco: the sending recorded, or Failed; its cost
  row, cost,
  \* time: past send_before, after the day of the message, a day later
  expired, midnight, aged,
  \* sms.unmatched_delivery_reports, sms.delivery_reports and the jobs
  unmatched, resolved, forwards,
  \* a batch between its snapshot and its commit
  snap,
  \* what was posted by the telco, lost after a 200, and told to the client
  posted, lost, told,
  \* history: messages hit by a fault after a write that a retry repeats;
  \* reports that two overlapping batches have matched
  hurt, twice,
  \* bounds
  errors, crashes

jobVars == <<status, attempts, pc>>
telcoVars == <<calls, numberKnown, repair>>
rowVars == <<row, cost>>
timeVars == <<expired, midnight, aged>>
batchVars == <<snap, twice>>
reportVars == <<unmatched, resolved, forwards, batchVars>>
postVars == <<posted, lost, told>>
faultVars == <<hurt, errors, crashes>>
vars == <<status, attempts, pc, calls, numberKnown, repair, row, cost,
          expired, midnight, aged, unmatched, resolved, forwards, snap,
          twice, posted, lost, told, hurt, errors, crashes>>

-----------------------------------------------------------------------------
\* Reports.  The server's own report of a coded error has no sending.
Sendings == 1..MaxAttempts
TelcoReports == [of : Messages, sending : Sendings, event : Events,
                 copy : 1..Copies]
OwnReport(m) == [of |-> m, sending |-> 0, event |-> Failed, copy |-> 1]
Reports == TelcoReports \cup {OwnReport(m) : m \in Messages}
Makers == Batches \cup {"webhook", Own}
JobMax(by) == IF by = Own THEN OwnAttempts ELSE ForwardAttempts

\* Telnyx reports the price of a message with its reports.
ReportsCost == Service = "telnyx"
\* The errors of the telco that SwitchboardErrorCodes has a code for.
HasCodes == Service \in {"telnyx", "twilio"}
\* Bandwidth's reports carry the tag the message was sent with.
Tagged == Service = "bandwidth"

Forward(r, by, readable) ==
  [of |-> r, by |-> by, attempts |-> 0, status |-> "queued",
   readable |-> readable]

Init ==
  /\ status = [m \in Messages |-> "none"]
  /\ attempts = [m \in Messages |-> 0]
  /\ pc = [m \in Messages |-> "idle"]
  /\ calls = [m \in Messages |-> 0]
  /\ numberKnown \in (IF Service = "telnyx" THEN BOOLEAN ELSE {TRUE})
  /\ repair = "none"
  /\ row = [m \in Messages |-> None]
  /\ cost = {}
  /\ expired = {} /\ midnight = FALSE /\ aged = {}
  /\ unmatched = {} /\ resolved = {} /\ forwards = {}
  /\ snap = [b \in Batches |-> {}] /\ twice = {}
  /\ posted = {} /\ lost = {} /\ told = {}
  /\ hurt = {}
  /\ errors = 0 /\ crashes = 0

-----------------------------------------------------------------------------
\* The message gets its from number: the trigger of its row queues the job.
TriggerSendMessage(m) ==
  /\ status[m] = "none"
  /\ status' = [status EXCEPT ![m] = "queued"]
  /\ UNCHANGED <<attempts, pc, telcoVars, rowVars, timeVars, reportVars, postVars,
                 faultVars>>

\* The job queue.
Start(m) ==
  /\ status[m] = "queued" /\ attempts[m] < MaxAttempts
  /\ status' = [status EXCEPT ![m] = "running"]
  /\ attempts' = [attempts EXCEPT ![m] = @ + 1]
  /\ pc' = [pc EXCEPT ![m] = "check"]
  /\ UNCHANGED <<telcoVars, rowVars, timeVars, reportVars, postVars, faultVars>>

\* The handler throws: a retry, or on the last attempt the job is parked.
Throw(m) ==
  /\ status' = [status EXCEPT ![m] =
       IF attempts[m] = MaxAttempts THEN "parked" ELSE "queued"]
  /\ pc' = [pc EXCEPT ![m] = "idle"]
  /\ UNCHANGED attempts

\* A call or a statement of the handler fails.
Fail(m) == /\ errors < MaxErrors
           /\ errors' = errors + 1
           /\ Throw(m)
           /\ UNCHANGED crashes

Goto(m, label) == /\ pc' = [pc EXCEPT ![m] = label]
                  /\ UNCHANGED <<status, attempts>>

\* A worker dies.  The lock of its job expires; Start takes it again only
\* while it has attempts left.
Crash(m) ==
  /\ pc[m] # "idle" /\ crashes < MaxCrashes
  /\ crashes' = crashes + 1
  /\ status' = [status EXCEPT ![m] = "queued"]
  /\ pc' = [pc EXCEPT ![m] = "idle"]
  /\ hurt' = IF pc[m] \in {"record", "report", "finish"}
             THEN hurt \cup {m} ELSE hurt
  /\ UNCHANGED <<attempts, errors, telcoVars, rowVars, timeVars, reportVars,
                 postVars>>

\* The job of a handler that returned is removed from the queue.
Complete(m) ==
  /\ pc[m] = "finish"
  /\ status' = [status EXCEPT ![m] = "done"]
  /\ pc' = [pc EXCEPT ![m] = "idle"]
  /\ UNCHANGED <<attempts, telcoVars, rowVars, timeVars, reportVars, postVars,
                 faultVars>>

-----------------------------------------------------------------------------
\* sendMessage, one action per call and per query.
ValidateSendBefore(m) ==
  /\ pc[m] = "check"
  /\ Goto(m, IF m \in expired THEN "coded" ELSE "call")
  /\ UNCHANGED <<telcoVars, rowVars, timeVars, reportVars, postVars, faultVars>>

\* The telco accepts the message; the handler goes on to record it.
SendAccepted(m) ==
  /\ pc[m] = "call" /\ numberKnown
  /\ calls' = [calls EXCEPT ![m] = @ + 1]
  /\ Goto(m, "record")
  /\ UNCHANGED <<numberKnown, repair, rowVars, timeVars, reportVars, postVars,
                 faultVars>>

\* The telco accepts it and the answer is lost: the handler sees a failure.
SendAnswerLost(m) ==
  /\ pc[m] = "call" /\ numberKnown
  /\ calls' = [calls EXCEPT ![m] = @ + 1]
  /\ hurt' = hurt \cup {m}
  /\ Fail(m)
  /\ UNCHANGED <<numberKnown, repair, rowVars, timeVars, reportVars, postVars>>

\* The telco refuses it for a reason that has a code.
SendRefused(m) ==
  /\ pc[m] = "call" /\ HasCodes
  /\ Goto(m, "coded")
  /\ UNCHANGED <<telcoVars, rowVars, timeVars, reportVars, postVars, faultVars>>

\* Telnyx does not know the from number: a repair is queued under the number
\* as its key, and the message is retried.
SendInvalidFromNumber(m) ==
  /\ pc[m] = "call" /\ ~numberKnown
  /\ repair' = "queued"
  /\ Throw(m)
  /\ UNCHANGED <<calls, numberKnown, rowVars, timeVars, reportVars, postVars,
                 faultVars>>

\* The call fails, or is refused without a code, or a query before it fails.
SendFails(m) ==
  /\ pc[m] \in {"check", "call"}
  /\ Fail(m)
  /\ UNCHANGED <<telcoVars, rowVars, timeVars, reportVars, postVars, hurt>>

\* The row of a message can be inserted once: (original_created_at, id) is
\* the key of the table.
SentTooLate(m) ==
  /\ pc[m] = "record"
  /\ IF row[m] = None /\ m \notin expired
     THEN /\ row' = [row EXCEPT ![m] = calls[m]]
          /\ Goto(m, "finish")
     ELSE row' = row /\ Goto(m, "coded")
  /\ UNCHANGED <<cost, telcoVars, timeVars, reportVars, postVars, faultVars>>

HandleMessageSent(m) ==
  /\ pc[m] = "record"
  /\ IF row[m] = None
     THEN /\ row' = [row EXCEPT ![m] = calls[m]]
          /\ Goto(m, "finish")
     ELSE row' = row /\ Throw(m)
  /\ UNCHANGED <<cost, telcoVars, timeVars, reportVars, postVars, faultVars>>

\* handleCodedError: first the telco row ...
InsertFailedOnly(m) ==
  /\ pc[m] = "coded"
  /\ IF row[m] = None
     THEN /\ row' = [row EXCEPT ![m] = Failed]
          /\ Goto(m, "finish")
     ELSE row' = row /\ Throw(m)
  /\ UNCHANGED <<cost, telcoVars, timeVars, reportVars, postVars, faultVars>>

InsertFailed(m) ==
  /\ pc[m] = "coded"
  /\ IF row[m] = None
     THEN /\ row' = [row EXCEPT ![m] = Failed]
          /\ Goto(m, "report")
     ELSE row' = row /\ Throw(m)
  /\ UNCHANGED <<cost, telcoVars, timeVars, reportVars, postVars, faultVars>>

\* ... then the report, whose trigger queues its forwarding.  The trigger
\* looks for the message among those of the last day; when it is older the
\* payload is null, and the job can never be parsed.
InsertReport(m) ==
  /\ pc[m] = "report"
  /\ resolved' = resolved \cup {[of |-> OwnReport(m), by |-> Own]}
  /\ forwards' = forwards \cup {Forward(OwnReport(m), Own, m \notin aged)}
  /\ Goto(m, "finish")
  /\ UNCHANGED <<unmatched, batchVars, telcoVars, rowVars, timeVars, postVars,
                 faultVars>>

\* An insert fails for another reason.
InsertFails(m) ==
  /\ pc[m] \in {"record", "coded", "report"}
  /\ hurt' = IF pc[m] = "coded" THEN hurt ELSE hurt \cup {m}
  /\ Fail(m)
  /\ UNCHANGED <<telcoVars, rowVars, timeVars, reportVars, postVars>>

\* The repair of the from number succeeds.
Repair ==
  /\ repair = "queued"
  /\ repair' = "none" /\ numberKnown' = TRUE
  /\ UNCHANGED <<jobVars, calls, rowVars, timeVars, reportVars, postVars,
                 faultVars>>

-----------------------------------------------------------------------------
\* The webhook for delivery reports: whatever happens, the telco gets a 200.
MatchesRow(r) == row[r.of] = r.sending

\* updateMessageCost, by service id and among the messages of today.
CostAfter(r) ==
  IF TrackCost /\ ReportsCost /\ ~midnight /\ MatchesRow(r)
  THEN cost \cup {r.of} ELSE cost

HasEventType(r) == r.event \notin Unknown

Post(r) ==
  /\ r.sending <= calls[r.of]
  /\ r \notin posted
  /\ r.copy > 1 => [r EXCEPT !.copy = @ - 1] \in posted
  /\ posted' = posted \cup {r}

InsertResolved(r) ==
  /\ resolved' = resolved \cup {[of |-> r, by |-> "webhook"]}
  /\ forwards' = forwards \cup {Forward(r, "webhook", TRUE)}
  /\ UNCHANGED unmatched

InsertUnresolved(r) ==
  /\ unmatched' = unmatched \cup {r}
  /\ UNCHANGED <<resolved, forwards>>

\* One transaction stores the report: with its message when the tag names it,
\* else for the batch to match.
InsertDeliveryReport(r) ==
  /\ HasEventType(r)
  /\ Post(r)
  /\ IF Tagged THEN InsertResolved(r) ELSE InsertUnresolved(r)
  /\ cost' = CostAfter(r)
  /\ UNCHANGED <<lost, told, batchVars, row, jobVars, telcoVars, timeVars, faultVars>>

\* The event has no type in the code, or the transaction fails.
LoseDeliveryReport(r) ==
  /\ Post(r)
  /\ IF HasEventType(r)
     THEN errors < MaxErrors /\ errors' = errors + 1
     ELSE UNCHANGED errors
  /\ lost' = lost \cup {r}
  /\ UNCHANGED <<told, hurt, crashes, jobVars, telcoVars, rowVars, timeVars,
                 reportVars>>

-----------------------------------------------------------------------------
\* The batch, one statement: what it matches is fixed by its snapshot, and the
\* rows it deletes are those of the snapshot that are still there.
MatchedInTime == {r \in unmatched : MatchesRow(r) /\ r.of \notin expired}

Matched == {r \in unmatched : MatchesRow(r) /\ r.of \notin aged}

BatchRead(b) ==
  /\ snap[b] = {} /\ Matched # {}
  /\ snap' = [snap EXCEPT ![b] = Matched]
  /\ twice' = twice \cup UNION {Matched \cap snap[c] : c \in Batches}
  /\ UNCHANGED <<unmatched, resolved, forwards, jobVars, telcoVars, rowVars,
                 timeVars, postVars, faultVars>>

DeletedByServiceId(b) ==
  {r \in unmatched : \E s \in snap[b] : s.of = r.of /\ s.sending = r.sending}

Deleted(b) == unmatched \cap snap[b]

ForwardsOf(b) == {Forward(r, b, TRUE) : r \in snap[b]}

BatchCommit(b) ==
  /\ snap[b] # {}
  /\ unmatched' = unmatched \ Deleted(b)
  /\ resolved' = resolved \cup {[of |-> r, by |-> b] : r \in snap[b]}
  /\ forwards' = forwards \cup ForwardsOf(b)
  /\ snap' = [snap EXCEPT ![b] = {}]
  /\ UNCHANGED <<twice, jobVars, telcoVars, rowVars, timeVars, postVars, faultVars>>

\* The statement fails or its worker dies: nothing of it remains.
AbortKeepsJobs(b) ==
  /\ snap[b] # {} /\ crashes < MaxCrashes
  /\ crashes' = crashes + 1
  /\ forwards' = forwards \cup ForwardsOf(b)
  /\ snap' = [snap EXCEPT ![b] = {}]
  /\ UNCHANGED <<unmatched, resolved, twice, hurt, errors, jobVars,
                 telcoVars, rowVars, timeVars, postVars>>

BatchAbort(b) ==
  /\ snap[b] # {} /\ crashes < MaxCrashes
  /\ crashes' = crashes + 1
  /\ snap' = [snap EXCEPT ![b] = {}]
  /\ UNCHANGED <<unmatched, resolved, forwards, twice, hurt, errors, jobVars,
                 telcoVars, rowVars, timeVars, postVars>>

-----------------------------------------------------------------------------
\* forward-delivery-report, one attempt of a job per action.
Attempted(f) == [f EXCEPT !.attempts = @ + 1]

Rethrown(f) == [Attempted(f) EXCEPT !.status =
  IF f.attempts + 1 = JobMax(f.by) THEN "parked" ELSE "queued"]

Runnable(f) == f.status = "queued" /\ f.attempts < JobMax(f.by)

ForwardOk(f) ==
  /\ Runnable(f) /\ f.readable
  /\ told' = told \cup {f.of}
  /\ forwards' = (forwards \ {f}) \cup {[Attempted(f) EXCEPT !.status = "done"]}
  /\ UNCHANGED <<posted, lost, unmatched, resolved, batchVars, jobVars, telcoVars,
                 rowVars, timeVars, faultVars>>

\* The client refuses it, or takes it and the answer is lost.
ForwardError(f) ==
  /\ Runnable(f) /\ f.readable /\ errors < MaxErrors
  /\ errors' = errors + 1
  /\ told' \in {told, told \cup {f.of}}
  /\ forwards' = (forwards \ {f}) \cup {Rethrown(f)}
  /\ UNCHANGED <<posted, lost, hurt, crashes, unmatched, resolved, batchVars,
                 jobVars, telcoVars, rowVars, timeVars>>

\* The payload is not what ForwardDeliveryReportPayloadSchema asks for.
ForwardUnreadable(f) ==
  /\ Runnable(f) /\ ~f.readable
  /\ forwards' = (forwards \ {f}) \cup {Rethrown(f)}
  /\ UNCHANGED <<unmatched, resolved, batchVars, jobVars, telcoVars, rowVars,
                 timeVars, postVars, faultVars>>

\* The worker dies before or after the client got it; after the last attempt
\* nothing takes the job up again.
ForwardCrash(f) ==
  /\ Runnable(f) /\ f.readable /\ crashes < MaxCrashes
  /\ crashes' = crashes + 1
  /\ told' \in {told, told \cup {f.of}}
  /\ forwards' = (forwards \ {f}) \cup {Attempted(f)}
  /\ UNCHANGED <<posted, lost, hurt, errors, unmatched, resolved, batchVars,
                 jobVars, telcoVars, rowVars, timeVars>>

-----------------------------------------------------------------------------
\* Time passes.
Expire(m) == /\ m \notin expired
             /\ expired' = expired \cup {m}
             /\ UNCHANGED <<midnight, aged, jobVars, telcoVars, rowVars,
                            reportVars, postVars, faultVars>>

Midnight == /\ ~midnight
            /\ midnight' = TRUE
            /\ UNCHANGED <<expired, aged, jobVars, telcoVars, rowVars,
                           reportVars, postVars, faultVars>>

Age(m) == /\ midnight /\ m \notin aged
          /\ aged' = aged \cup {m}
          /\ UNCHANGED <<expired, midnight, jobVars, telcoVars, rowVars,
                         reportVars, postVars, faultVars>>

SendStep(m) ==
  \/ Start(m) \/ Crash(m) \/ Complete(m)
  \/ ValidateSendBefore(m)
  \/ SendAccepted(m) \/ SendAnswerLost(m) \/ SendRefused(m)
  \/ SendInvalidFromNumber(m) \/ SendFails(m)
  \/ HandleMessageSent(m) \/ InsertFailed(m) \/ InsertReport(m)
  \/ InsertFails(m)

ForwardStep(f) ==
  ForwardOk(f) \/ ForwardError(f) \/ ForwardUnreadable(f) \/ ForwardCrash(f)

Next ==
  \/ \E m \in Messages : TriggerSendMessage(m) \/ SendStep(m) \/ Expire(m) \/ Age(m)
  \/ Midnight \/ Repair
  \/ \E r \in TelcoReports : InsertDeliveryReport(r) \/ LoseDeliveryReport(r)
  \/ \E b \in Batches : BatchRead(b) \/ BatchCommit(b) \/ BatchAbort(b)
  \/ \E f \in forwards : ForwardStep(f)

Spec == Init /\ [][Next]_vars

\* The worker runs its jobs, the batch runs every minute, and a job's handler
\* ends.  The telco may post late or never, and time may stand still.
Fairness ==
  /\ \A m \in Messages : WF_vars(SendStep(m))
  /\ \A b \in Batches : WF_vars(BatchRead(b)) /\ WF_vars(BatchCommit(b))
  /\ WF_vars(\E f \in forwards : ForwardStep(f))

FairSpec == Spec /\ Fairness

-----------------------------------------------------------------------------
\* The shape of the state.
TypeOK ==
  /\ status \in [Messages -> {"none", "queued", "running", "done", "parked"}]
  /\ attempts \in [Messages -> 0..MaxAttempts]
  /\ pc \in [Messages -> {"idle", "check", "call", "record", "coded",
                          "report", "finish"}]
  /\ calls \in [Messages -> 0..MaxAttempts]
  /\ numberKnown \in BOOLEAN /\ repair \in {"none", "queued"}
  /\ row \in [Messages -> Sendings \cup {None, Failed}]
  /\ cost \subseteq Messages
  /\ expired \subseteq Messages /\ aged \subseteq Messages
  /\ midnight \in BOOLEAN
  /\ unmatched \subseteq TelcoReports
  /\ resolved \subseteq [of : Reports, by : Makers]
  /\ forwards \subseteq
       [of : Reports, by : Makers, attempts : 0..(ForwardAttempts + OwnAttempts),
        status : {"queued", "done", "parked"}, readable : BOOLEAN]
  /\ snap \in [Batches -> SUBSET TelcoReports]
  /\ posted \subseteq TelcoReports /\ lost \subseteq posted
  /\ told \subseteq Reports
  /\ hurt \subseteq Messages /\ twice \subseteq TelcoReports
  /\ errors \in 0..MaxErrors /\ crashes \in 0..MaxCrashes

Reported(r) == \E x \in resolved : x.of = r

\* A message is sent twice, or sent and also recorded as failed, only when a
\* fault came between a write and the next: the call and the insert that
\* records it, or the record and the end of its job.  Retries alone, repairs,
\* refusals and deadlines never do it.
SentOnce ==
  \A m \in Messages \ hurt :
    /\ calls[m] <= 1
    /\ row[m] = Failed => calls[m] = 0
    /\ calls[m] = 1 => row[m] = 1 \/ pc[m] = "record"

\* A message recorded as failed has its report, unless a fault came between
\* the two inserts (the retry then stops at the key of the first).
FailureReported ==
  \A m \in Messages \ hurt :
    row[m] = Failed => Reported(OwnReport(m)) \/ pc[m] = "report"

\* The client is never told both that a message was not sent, by Switchboard,
\* and what the telco did with it, unless a fault had it sent in doubt.
VerdictsAgree ==
  \A m \in Messages \ hurt :
    ~ (OwnReport(m) \in told /\ \E r \in told : r.of = m /\ r.sending > 0)

\* A report the server stored stays stored: the batch deletes an unmatched
\* report only together with inserting it as a delivery report, also when
\* further posts for the same sending arrive while it runs.
ReportKept ==
  \A r \in posted \ lost : r \in unmatched \/ Reported(r)

\* A report is matched and forwarded once, unless two batches overlapped that
\* both matched it; and what was matched does not wait to be matched.
ResolvedOnce ==
  /\ \A x, y \in resolved : x.of = y.of /\ x.of \notin twice => x = y
  /\ \A x \in resolved : x.of \notin unmatched

\* Every delivery report has exactly one job that forwards it, whoever made
\* it, and no job forwards a report there is no row of.
ForwardEach ==
  /\ \A x \in resolved :
       Cardinality({f \in forwards : f.of = x.of /\ f.by = x.by}) = 1
  /\ \A f \in forwards : [of |-> f.of, by |-> f.by] \in resolved

\* The price of a message is only taken from reports of the sending that is
\* recorded for it, not from those of an unrecorded duplicate.
CostIsOfRecorded ==
  \A m \in cost :
    /\ row[m] \in Sendings
    /\ \E r \in posted \ lost : r.of = m /\ r.sending = row[m]

\* What is recorded of a message is the one sending it had, or its failure, and
\* the client and the price of the message agree with it, unless a fault left
\* the sending in doubt (send-message.ts, delivery-reports.ts).
SendingsAgree == SentOnce /\ VerdictsAgree /\ CostIsOfRecorded

\* Every report the telco was answered for, and every failure, is kept until it
\* is forwarded, by one job for each row (delivery-reports.ts, send-message.ts,
\* sms.resolve_delivery_reports).
ReportsAccounted ==
  FailureReported /\ ReportKept /\ ForwardEach /\ ResolvedOnce

\* The detailed system only tells the client what happened and was recorded.
Promise == INSTANCE ReportPromise WITH
  Events <- Reports,
  happened <- posted \cup {x.of : x \in {y \in resolved : y.of.sending = 0}},
  recorded <- {x.of : x \in resolved},
  told <- told

ImplementsPromise == Promise!Spec

Ended(r) ==
  \E f \in forwards : f.of = r /\ ~Runnable(f)

\* A stored report of a recorded sending is told to the client or its job is
\* used up, unless the message gets older than the day the batch looks back.
EventuallyTold ==
  \A r \in TelcoReports :
    r \in posted \ lost /\ MatchesRow(r)
      ~> r \in told \/ Ended(r) \/ r.of \in aged

\* The client of a message recorded as failed hears so, when no fault came
\* between the inserts and the message is not older than a day.
FailureTold ==
  \A m \in Messages :
    row[m] = Failed ~>
      OwnReport(m) \in told \/ Ended(OwnReport(m)) \/ m \in hurt \/ m \in aged
=============================================================================
