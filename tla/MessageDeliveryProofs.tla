----------------------- MODULE MessageDeliveryProofs ------------------------
(***************************************************************************)
(* Theorems of MessageDelivery, for any number of messages, events,        *)
(* batches, attempts and faults: what is recorded of a message is what     *)
(* became of it, a stored report is kept until one job forwards it, and    *)
(* the client is only told what happened and was recorded.                 *)
(***************************************************************************)
EXTENDS MessageDelivery, TLAPS, FiniteSetTheorems

\* A worker is at a step of the handler exactly while the job runs, and an
\* attempt calls the telco at most once, after it was counted.
JobOK ==
  \A m \in Messages :
    /\ pc[m] = "idle" <=> status[m] # "running"
    /\ calls[m] <= attempts[m]
    /\ pc[m] \in {"check", "call"} => calls[m] < attempts[m]
    /\ pc[m] = "record" => calls[m] > 0

\* How far a message is that no fault has put in doubt.
Progress ==
  \A m \in Messages \ hurt :
    /\ status[m] \in {"none", "queued", "parked"} \/ pc[m] \in {"check", "call", "coded"}
         => calls[m] = 0 /\ row[m] = None
    /\ pc[m] = "record" => calls[m] = 1 /\ row[m] = None
    /\ pc[m] = "report" => calls[m] = 0 /\ row[m] = Failed
    /\ pc[m] = "finish" \/ status[m] = "done"
         => \/ calls[m] = 1 /\ row[m] = 1
            \/ calls[m] = 0 /\ row[m] = Failed

\* A failure is reported once, and only of a message recorded as failed.
FailureOK ==
  \A m \in Messages :
    /\ pc[m] = "report" => row[m] = Failed /\ ~Reported(OwnReport(m))
    /\ Reported(OwnReport(m)) => row[m] = Failed
    /\ m \notin hurt /\ row[m] = Failed
         => Reported(OwnReport(m)) \/ pc[m] = "report"

\* A report is of a sending the telco has accepted, and one that was stored is
\* in the hands of a batch only as long as it waits, or was matched by another.
StoredOK ==
  /\ \A r \in posted : r.sending <= calls[r.of]
  /\ unmatched \subseteq posted \ lost
  /\ \A b \in Batches : snap[b] \subseteq posted \ lost
  /\ \A x \in resolved : x.of \in posted \ lost \/ x.of.sending = 0
  /\ \A r \in posted \ lost : r \in unmatched \/ Reported(r)

\* What a batch has in its snapshot it has not resolved; what another batch has
\* too, or has resolved, was matched twice.
SnapsOK ==
  \A b \in Batches : \A r \in snap[b] :
    /\ [of |-> r, by |-> b] \notin resolved
    /\ r \in unmatched \/ r \in twice
    /\ Reported(r) => r \in twice
    /\ \A c \in Batches : r \in snap[c] => b = c \/ r \in twice

\* Each delivery report has one job, and the client heard only of those.
ForwardsOK ==
  /\ \A f \in forwards : [of |-> f.of, by |-> f.by] \in resolved
  /\ \A x \in resolved : \E f \in forwards : f.of = x.of /\ f.by = x.by
  /\ \A f, g \in forwards : f.of = g.of /\ f.by = g.by => f = g
  /\ \A e \in told : Reported(e)

DInv == /\ TypeOK /\ JobOK /\ Progress /\ FailureOK /\ StoredOK /\ SnapsOK
        /\ ResolvedOnce /\ ForwardsOK /\ CostIsOfRecorded

-----------------------------------------------------------------------------
LEMMA InitDInv == Init => DInv
<1> SUFFICES ASSUME Init PROVE DInv
  OBVIOUS
<1>1. TypeOK
  <2>1. numberKnown \in BOOLEAN
    <3>1. CASE Service = "telnyx"
      BY <3>1 DEF Init
    <3>2. CASE Service # "telnyx"
      BY <3>2 DEF Init
    <3> QED BY <3>1, <3>2
  <2>2. /\ snap \in [Batches -> SUBSET TelcoReports]
        /\ unmatched \subseteq TelcoReports /\ posted \subseteq TelcoReports
        /\ lost \subseteq posted /\ twice \subseteq TelcoReports
    BY DEF Init
  <2>3. /\ told \subseteq Reports /\ resolved \subseteq [of : Reports, by : Makers]
        /\ forwards \subseteq
             [of : Reports, by : Makers, attempts : 0..(ForwardAttempts + OwnAttempts),
              status : {"queued", "done", "parked"}, readable : BOOLEAN]
    BY DEF Init
  <2>4. /\ status \in [Messages -> {"none", "queued", "running", "done", "parked"}]
        /\ pc \in [Messages -> {"idle", "check", "call", "record", "coded",
                                "report", "finish"}]
        /\ attempts \in [Messages -> 0..MaxAttempts]
        /\ calls \in [Messages -> 0..MaxAttempts]
        /\ row \in [Messages -> Sendings \cup {None, Failed}]
    BY DeliveryAssumption DEF Init
  <2>5. midnight \in BOOLEAN
    BY DEF Init
  <2>6. /\ repair \in {"none", "queued"}
        /\ cost \subseteq Messages /\ expired \subseteq Messages
        /\ aged \subseteq Messages /\ hurt \subseteq Messages
        /\ errors \in 0..MaxErrors /\ crashes \in 0..MaxCrashes
    BY DeliveryAssumption DEF Init
  <2> QED BY <2>1, <2>2, <2>3, <2>4, <2>5, <2>6 DEF TypeOK
<1>2. JobOK /\ Progress
  BY DeliveryAssumption DEF Init, JobOK, Progress
<1>3. FailureOK
  BY DeliveryAssumption DEF Init, FailureOK, Reported
<1> QED BY <1>1, <1>2, <1>3
        DEF Init, DInv, Reported, StoredOK, SnapsOK, ResolvedOnce, ForwardsOK,
            CostIsOfRecorded

\* The reports of the telco and those of the server are not confused.
LEMMA ReportKinds ==
  /\ \A r \in TelcoReports : /\ r.of \in Messages /\ r.sending \in Nat /\ r.sending > 0
                             /\ \A m \in Messages : r # OwnReport(m)
  /\ \A m, n \in Messages : /\ OwnReport(m).of = m /\ OwnReport(m).sending = 0
                            /\ OwnReport(m) = OwnReport(n) => m = n
  /\ \A r \in Reports : r.sending = 0 => \E m \in Messages : r = OwnReport(m)
  /\ \A r \in Reports : r.sending # 0 => r \in TelcoReports
BY DeliveryAssumption DEF TelcoReports, OwnReport, Reports, Sendings

\* Steps that leave the reports alone keep what is known of them, whatever the
\* telco accepts meanwhile.
LEMMA ReportsFrame ==
  ASSUME DInv, UNCHANGED <<reportVars, postVars>>,
         \A m \in Messages : calls'[m] \in Nat /\ calls[m] <= calls'[m]
  PROVE  StoredOK' /\ SnapsOK' /\ ResolvedOnce' /\ ForwardsOK'
<1>1. UNCHANGED <<unmatched, resolved, forwards, snap, twice, posted, lost, told>>
  BY DEF reportVars, batchVars, postVars
<1>2. \A r \in posted : r.sending <= calls'[r.of]
  <2>1. SUFFICES ASSUME NEW r \in posted PROVE r.sending <= calls'[r.of]
    OBVIOUS
  <2>2. r \in TelcoReports /\ r.sending <= calls[r.of]
    BY <2>1 DEF DInv, TypeOK, StoredOK
  <2>3. r.of \in Messages /\ r.sending \in Nat /\ calls[r.of] \in Nat
    BY <2>2, ReportKinds, DeliveryAssumption DEF DInv, TypeOK
  <2> QED BY <2>2, <2>3
<1>3. StoredOK'
  BY <1>1, <1>2 DEF DInv, StoredOK, Reported
<1> QED BY <1>1, <1>3 DEF DInv, SnapsOK, Reported, ResolvedOnce, ForwardsOK

\* Steps that leave the jobs alone keep what is known of them.
LEMMA JobsFrame ==
  ASSUME DInv, UNCHANGED <<jobVars, calls, row, hurt>>
  PROVE  JobOK' /\ Progress'
BY DEF DInv, JobOK, Progress, jobVars

-----------------------------------------------------------------------------
\* The steps of a job that leave the reports alone.  Each proves what it does to
\* the jobs; the frame above does the rest.
LEMMA QuietStep ==
  ASSUME DInv, TypeOK', JobOK', Progress', FailureOK', UNCHANGED <<reportVars, postVars>>,
         \A m \in Messages : calls[m] <= calls'[m],
         UNCHANGED cost, \A m \in Messages : row[m] # None => row'[m] = row[m]
  PROVE  DInv'
<1>1. \A m \in Messages : calls'[m] \in Nat
  BY DeliveryAssumption DEF TypeOK
<1>2. CostIsOfRecorded'
  BY DeliveryAssumption DEF DInv, TypeOK, CostIsOfRecorded, postVars, Sendings
<1> QED BY <1>1, <1>2, ReportsFrame DEF DInv

LEMMA TriggerStep ==
  ASSUME DInv, NEW m \in Messages, TriggerSendMessage(m)
  PROVE  DInv'
<1> USE DeliveryAssumption
<1>1. TypeOK'
  BY DEF TriggerSendMessage, DInv, TypeOK, telcoVars, rowVars, timeVars, reportVars,
         batchVars, postVars, faultVars
<1>2. JobOK' /\ Progress'
  BY DEF TriggerSendMessage, DInv, TypeOK, JobOK, Progress, telcoVars, rowVars, faultVars
<1>3. FailureOK'
  BY DEF TriggerSendMessage, DInv, FailureOK, Reported, rowVars, reportVars, faultVars
<1> QED BY <1>1, <1>2, <1>3, QuietStep DEF TriggerSendMessage, telcoVars, rowVars, DInv, TypeOK

LEMMA StartStep ==
  ASSUME DInv, NEW m \in Messages, Start(m)
  PROVE  DInv'
<1> USE DeliveryAssumption
<1>1. TypeOK'
  BY DEF Start, DInv, TypeOK, telcoVars, rowVars, timeVars, reportVars, batchVars,
         postVars, faultVars
<1>2. JobOK' /\ Progress'
  BY DEF Start, DInv, TypeOK, JobOK, Progress, telcoVars, rowVars, faultVars
<1>3. FailureOK'
  BY DEF Start, DInv, TypeOK, FailureOK, JobOK, Reported, rowVars, reportVars, faultVars
<1> QED BY <1>1, <1>2, <1>3, QuietStep DEF Start, telcoVars, rowVars, DInv, TypeOK

LEMMA CrashStep ==
  ASSUME DInv, NEW m \in Messages, Crash(m)
  PROVE  DInv'
<1> USE DeliveryAssumption
<1>1. TypeOK'
  BY DEF Crash, DInv, TypeOK, telcoVars, rowVars, timeVars, reportVars, batchVars,
         postVars, faultVars
<1>2. JobOK' /\ Progress'
  BY DEF Crash, DInv, TypeOK, JobOK, Progress, telcoVars, rowVars
<1>3. FailureOK'
  BY DEF Crash, DInv, TypeOK, FailureOK, Reported, rowVars, reportVars
<1> QED BY <1>1, <1>2, <1>3, QuietStep DEF Crash, telcoVars, rowVars, DInv, TypeOK

LEMMA CompleteStep ==
  ASSUME DInv, NEW m \in Messages, Complete(m)
  PROVE  DInv'
<1> USE DeliveryAssumption
<1>1. TypeOK'
  BY DEF Complete, DInv, TypeOK, telcoVars, rowVars, timeVars, reportVars, batchVars,
         postVars, faultVars
<1>2. JobOK' /\ Progress'
  BY DEF Complete, DInv, TypeOK, JobOK, Progress, telcoVars, rowVars, faultVars
<1>3. FailureOK'
  BY DEF Complete, DInv, TypeOK, FailureOK, Reported, rowVars, reportVars, faultVars
<1> QED BY <1>1, <1>2, <1>3, QuietStep DEF Complete, telcoVars, rowVars, DInv, TypeOK

LEMMA ValidateStep ==
  ASSUME DInv, NEW m \in Messages, ValidateSendBefore(m) \/ SendRefused(m)
  PROVE  DInv'
<1> USE DeliveryAssumption DEF Goto
<1>1. TypeOK'
  BY DEF ValidateSendBefore, SendRefused, DInv, TypeOK, telcoVars, rowVars, timeVars,
         reportVars, batchVars, postVars, faultVars
<1>2. JobOK' /\ Progress'
  BY DEF ValidateSendBefore, SendRefused, DInv, TypeOK, JobOK, Progress, telcoVars,
         rowVars, faultVars
<1>3. FailureOK'
  BY DEF ValidateSendBefore, SendRefused, DInv, TypeOK, FailureOK, Reported, rowVars,
         reportVars, faultVars
<1> QED BY <1>1, <1>2, <1>3, QuietStep
        DEF ValidateSendBefore, SendRefused, telcoVars, rowVars, DInv, TypeOK

LEMMA AcceptedStep ==
  ASSUME DInv, NEW m \in Messages, SendAccepted(m)
  PROVE  DInv'
<1> USE DeliveryAssumption DEF Goto
<1>1. TypeOK'
  BY DEF SendAccepted, DInv, TypeOK, JobOK, rowVars, timeVars,
         reportVars, batchVars, postVars, faultVars
<1>2. JobOK' /\ Progress'
  BY DEF SendAccepted, DInv, TypeOK, JobOK, Progress, rowVars, faultVars
<1>3. FailureOK'
  BY DEF SendAccepted, DInv, TypeOK, FailureOK, Reported, rowVars, reportVars, faultVars
<1>4. \A n \in Messages : calls[n] <= calls'[n]
  BY DEF SendAccepted, DInv, TypeOK
<1> QED BY <1>1, <1>2, <1>3, <1>4, QuietStep DEF SendAccepted, rowVars

\* The answer of the telco is lost, or a step fails and the job is thrown.
LEMMA FailStep ==
  ASSUME DInv, NEW m \in Messages,
         SendAnswerLost(m) \/ SendInvalidFromNumber(m) \/ SendFails(m) \/ InsertFails(m)
  PROVE  DInv'
<1> USE DeliveryAssumption DEF Throw, Fail
<1>1. CASE SendAnswerLost(m)
  <2>1. TypeOK'
    BY <1>1 DEF SendAnswerLost, DInv, TypeOK, JobOK, rowVars, timeVars, reportVars,
                batchVars, postVars
  <2>2. JobOK' /\ Progress'
    BY <1>1 DEF SendAnswerLost, DInv, TypeOK, JobOK, Progress, rowVars
  <2>3. FailureOK'
    BY <1>1 DEF SendAnswerLost, DInv, TypeOK, FailureOK, Reported, rowVars, reportVars
  <2>4. \A n \in Messages : calls[n] <= calls'[n]
    BY <1>1 DEF SendAnswerLost, DInv, TypeOK
  <2> QED BY <1>1, <2>1, <2>2, <2>3, <2>4, QuietStep DEF SendAnswerLost, rowVars
<1>2. CASE SendInvalidFromNumber(m) \/ SendFails(m)
  <2>1. TypeOK'
    BY <1>2 DEF SendInvalidFromNumber, SendFails, DInv, TypeOK, telcoVars, rowVars,
                timeVars, reportVars, batchVars, postVars, faultVars
  <2>2. JobOK' /\ Progress'
    BY <1>2 DEF SendInvalidFromNumber, SendFails, DInv, TypeOK, JobOK, Progress,
                telcoVars, rowVars, faultVars
  <2>3. FailureOK'
    BY <1>2 DEF SendInvalidFromNumber, SendFails, DInv, TypeOK, FailureOK, Reported,
                rowVars, reportVars, faultVars
  <2> QED BY <1>2, <2>1, <2>2, <2>3, QuietStep
          DEF SendInvalidFromNumber, SendFails, telcoVars, rowVars, DInv, TypeOK
<1>3. CASE InsertFails(m)
  <2>1. TypeOK'
    BY <1>3 DEF InsertFails, DInv, TypeOK, telcoVars, rowVars, timeVars, reportVars,
                batchVars, postVars
  <2>2. JobOK' /\ Progress'
    BY <1>3 DEF InsertFails, DInv, TypeOK, JobOK, Progress, telcoVars, rowVars
  <2>3. FailureOK'
    BY <1>3 DEF InsertFails, DInv, TypeOK, FailureOK, Reported, rowVars, reportVars
  <2> QED BY <1>3, <2>1, <2>2, <2>3, QuietStep
          DEF InsertFails, telcoVars, rowVars, DInv, TypeOK
<1> QED BY <1>1, <1>2, <1>3

\* The inserts of the telco row: one for each message.
LEMMA RecordStep ==
  ASSUME DInv, NEW m \in Messages, HandleMessageSent(m) \/ InsertFailed(m)
  PROVE  DInv'
<1> USE DeliveryAssumption DEF Throw, Goto
<1>1. CASE HandleMessageSent(m)
  <2>1. TypeOK'
    BY <1>1 DEF HandleMessageSent, DInv, TypeOK, JobOK, Sendings, telcoVars, timeVars,
                reportVars, batchVars, postVars, faultVars
  <2>2. JobOK' /\ Progress'
    BY <1>1 DEF HandleMessageSent, DInv, TypeOK, JobOK, Progress, telcoVars, faultVars
  <2>3. FailureOK'
    BY <1>1, <2>1 DEF HandleMessageSent, DInv, TypeOK, JobOK, FailureOK, Reported,
                      reportVars, faultVars
  <2> QED BY <1>1, <2>1, <2>2, <2>3, QuietStep
          DEF HandleMessageSent, telcoVars, DInv, TypeOK
<1>2. CASE InsertFailed(m)
  <2>1. TypeOK'
    BY <1>2 DEF InsertFailed, DInv, TypeOK, Sendings, telcoVars, timeVars, reportVars,
                batchVars, postVars, faultVars
  <2>2. JobOK' /\ Progress'
    BY <1>2 DEF InsertFailed, DInv, TypeOK, JobOK, Progress, telcoVars, faultVars
  <2>3. FailureOK'
    BY <1>2 DEF InsertFailed, DInv, TypeOK, FailureOK, Reported, reportVars, faultVars
  <2> QED BY <1>2, <2>1, <2>2, <2>3, QuietStep
          DEF InsertFailed, telcoVars, DInv, TypeOK
<1> QED BY <1>1, <1>2

-----------------------------------------------------------------------------
\* A report of a failure: its row, and the one job the trigger queues.
LEMMA InsertReportStep ==
  ASSUME DInv, NEW m \in Messages, InsertReport(m)
  PROVE  DInv'
<1> USE DeliveryAssumption
<1> DEFINE e == OwnReport(m)
           x == [of |-> e, by |-> Own]
           f == Forward(e, Own, m \notin aged)
<1>1. /\ pc[m] = "report" /\ row[m] = Failed /\ ~Reported(e)
      /\ e \in Reports /\ Own \in Makers
  BY DEF InsertReport, DInv, FailureOK, Reports, Makers
<1>2. /\ resolved' = resolved \cup {x} /\ forwards' = forwards \cup {f}
      /\ pc' = [pc EXCEPT ![m] = "finish"]
      /\ UNCHANGED <<status, attempts, calls, numberKnown, repair, row, cost, expired,
                     midnight, aged, unmatched, snap, twice, posted, lost, told,
                     hurt, errors, crashes>>
  BY DEF InsertReport, Goto, telcoVars, rowVars, timeVars, batchVars, postVars, faultVars
<1>3. TypeOK'
  <2>1. f \in [of : Reports, by : Makers, attempts : 0..(ForwardAttempts + OwnAttempts),
               status : {"queued", "done", "parked"}, readable : BOOLEAN]
    BY <1>1 DEF Forward
  <2> QED BY <1>1, <1>2, <2>1 DEF DInv, TypeOK
<1>4. JobOK' /\ Progress'
  BY <1>1, <1>2 DEF DInv, TypeOK, JobOK, Progress
<1>5. \A r \in Reports : Reported(r)' <=> Reported(r) \/ r = e
  <2>1. x.of = e
    OBVIOUS
  <2> QED BY <1>2, <2>1 DEF Reported
<1>6. FailureOK'
  BY <1>1, <1>2, <1>5, ReportKinds DEF DInv, TypeOK, FailureOK, Reports
<1>7. e \notin TelcoReports /\ e.sending = 0
  BY ReportKinds
<1>8. StoredOK'
  BY <1>2, <1>7 DEF DInv, TypeOK, StoredOK, Reported
<1>9. SnapsOK'
  <2>1. SUFFICES ASSUME NEW b \in Batches, NEW r \in snap[b]
                 PROVE  /\ [of |-> r, by |-> b] \notin resolved'
                        /\ r \in unmatched \/ r \in twice
                        /\ Reported(r)' => r \in twice
                        /\ \A c \in Batches : r \in snap[c] => b = c \/ r \in twice
    BY <1>2 DEF SnapsOK
  <2>2. r \in TelcoReports /\ r # e /\ r \in Reports
    BY <1>7 DEF DInv, TypeOK, Reports
  <2> QED BY <1>2, <1>5, <2>2 DEF DInv, SnapsOK
<1>10. ResolvedOnce'
  BY <1>1, <1>2, <1>7 DEF DInv, TypeOK, ResolvedOnce, Reported
<1>11. ForwardsOK'
  <2>1. f.of = e /\ f.by = Own /\ x.of = e /\ x.by = Own
    BY DEF Forward
  <2>2. \A g \in forwards : g.of # e
    BY <1>1 DEF DInv, ForwardsOK, Reported
  <2>3. \A r \in told : Reported(r)'
    BY <1>2 DEF DInv, ForwardsOK, Reported
  <2>4. \A g \in forwards' : [of |-> g.of, by |-> g.by] \in resolved'
    BY <1>2, <2>1 DEF DInv, ForwardsOK
  <2>5. \A y \in resolved' : \E g \in forwards' : g.of = y.of /\ g.by = y.by
    BY <1>2, <2>1 DEF DInv, ForwardsOK
  <2>6. \A g, h \in forwards' : g.of = h.of /\ g.by = h.by => g = h
    BY <1>2, <2>1, <2>2 DEF DInv, ForwardsOK
  <2> QED BY <1>2, <2>3, <2>4, <2>5, <2>6 DEF ForwardsOK
<1>12. CostIsOfRecorded'
  BY <1>2 DEF DInv, CostIsOfRecorded
<1> QED BY <1>3, <1>4, <1>6, <1>8, <1>9, <1>10, <1>11, <1>12 DEF DInv

\* The webhook, when the report is stored.
LEMMA StoreReportStep ==
  ASSUME DInv, NEW r \in TelcoReports, InsertDeliveryReport(r)
  PROVE  DInv'
<1> USE DeliveryAssumption
<1> DEFINE x == [of |-> r, by |-> "webhook"]
           f == Forward(r, "webhook", TRUE)
<1>1. /\ r \notin posted /\ r.sending <= calls[r.of] /\ posted' = posted \cup {r}
      /\ cost' = CostAfter(r)
      /\ UNCHANGED <<status, attempts, pc, calls, numberKnown, repair, row, expired,
                     midnight, aged, snap, twice, lost, told, hurt, errors, crashes>>
  BY DEF InsertDeliveryReport, Post, jobVars, telcoVars, timeVars, batchVars, faultVars
<1>2. \/ /\ resolved' = resolved \cup {x} /\ forwards' = forwards \cup {f}
         /\ UNCHANGED unmatched
      \/ unmatched' = unmatched \cup {r} /\ UNCHANGED <<resolved, forwards>>
  BY DEF InsertDeliveryReport, InsertResolved, InsertUnresolved
<1>3. /\ r \notin unmatched /\ ~Reported(r) /\ r \notin lost
      /\ \A b \in Batches : r \notin snap[b]
      /\ r \in Reports /\ r.sending # 0 /\ \A m \in Messages : r # OwnReport(m)
      /\ "webhook" \in Makers
  BY <1>1, ReportKinds DEF DInv, TypeOK, StoredOK, Reported, Reports, Makers
<1>4. x.of = r /\ x.by = "webhook" /\ f.of = r /\ f.by = "webhook"
  BY DEF Forward
<1>5. TypeOK'
  <2>1. f \in [of : Reports, by : Makers, attempts : 0..(ForwardAttempts + OwnAttempts),
               status : {"queued", "done", "parked"}, readable : BOOLEAN]
    BY <1>3 DEF Forward
  <2>2. x \in [of : Reports, by : Makers]
    BY <1>3
  <2>3. cost' \subseteq Messages
    BY <1>1, ReportKinds DEF CostAfter, DInv, TypeOK
  <2> QED BY <1>1, <1>2, <2>1, <2>2, <2>3 DEF DInv, TypeOK
<1>6. JobOK' /\ Progress'
  BY <1>1, JobsFrame DEF jobVars
<1>7. /\ \A s \in Reports : Reported(s) => Reported(s)'
      /\ \A s \in Reports : s # r /\ Reported(s)' => Reported(s)
  BY <1>2, <1>4 DEF Reported
<1>8. FailureOK'
  <2>1. \A m \in Messages : Reported(OwnReport(m))' <=> Reported(OwnReport(m))
    BY <1>3, <1>7 DEF Reports
  <2> QED BY <1>1, <2>1 DEF DInv, FailureOK
<1>9. StoredOK'
  BY <1>1, <1>2, <1>3, <1>4 DEF DInv, TypeOK, StoredOK, Reported
<1>10. SnapsOK'
  <2>1. SUFFICES ASSUME NEW b \in Batches, NEW s \in snap[b]
                 PROVE  /\ [of |-> s, by |-> b] \notin resolved'
                        /\ s \in unmatched' \/ s \in twice
                        /\ Reported(s)' => s \in twice
                        /\ \A c \in Batches : s \in snap[c] => b = c \/ s \in twice
    BY <1>1 DEF SnapsOK
  <2>2. s \in Reports /\ s # r
    BY <1>3 DEF DInv, TypeOK, Reports
  <2>3. ~ Reported(s) => ~ Reported(s)'
    BY <1>7, <2>2
  <2> QED BY <1>2, <1>4, <2>2, <2>3 DEF DInv, SnapsOK
<1>11. ResolvedOnce'
  BY <1>1, <1>2, <1>3, <1>4 DEF DInv, ResolvedOnce, Reported
<1>12. ForwardsOK'
  <2>1. \A g \in forwards : g.of # r
    BY <1>3 DEF DInv, ForwardsOK, Reported
  <2>2. \A s \in told : Reported(s)'
    BY <1>1, <1>2 DEF DInv, ForwardsOK, Reported
  <2>3. ASSUME NEW g \in forwards' PROVE [of |-> g.of, by |-> g.by] \in resolved'
    <3>1. CASE g \in forwards
      BY <1>2, <3>1 DEF DInv, ForwardsOK
    <3>2. CASE g \notin forwards
      <4>1. g = f /\ x \in resolved'
        BY <1>2, <3>2
      <4> QED BY <4>1, <1>4
    <3> QED BY <3>1, <3>2
  <2>4. \A y \in resolved' : \E g \in forwards' : g.of = y.of /\ g.by = y.by
    BY <1>2, <1>4 DEF DInv, ForwardsOK
  <2>5. ASSUME NEW g \in forwards', NEW h \in forwards', g.of = h.of, g.by = h.by
        PROVE  g = h
    <3>1. CASE g.of = r
      <4>1. (g \in forwards \/ g = f) /\ (h \in forwards \/ h = f)
        BY <1>2, <2>5
      <4> QED BY <4>1, <2>1, <2>5, <3>1
    <3>2. CASE g.of # r
      <4>1. (g \in forwards \/ g.of = f.of) /\ (h \in forwards \/ h.of = f.of)
        BY <1>2, <2>5
      <4>2. g \in forwards /\ h \in forwards
        BY <4>1, <1>4, <2>5, <3>2
      <4> QED BY <4>2, <2>5 DEF DInv, ForwardsOK
    <3> QED BY <3>1, <3>2
  <2> QED BY <1>1, <2>2, <2>3, <2>4, <2>5 DEF ForwardsOK
<1>13. CostIsOfRecorded'
  <2>1. \A m \in cost : m \in cost'
    BY <1>1 DEF CostAfter
  <2>2. \A m \in cost' : m \in cost \/ (m = r.of /\ row[m] = r.sending)
    <3>1. cost' = cost \/ (row[r.of] = r.sending /\ cost' = cost \cup {r.of})
      BY <1>1, Zenon DEF CostAfter, MatchesRow
    <3> QED BY <3>1
  <2>3. r.sending \in Sendings
    BY DEF TelcoReports
  <2> QED BY <1>1, <1>3, <2>2, <2>3 DEF DInv, CostIsOfRecorded
<1> QED BY <1>5, <1>6, <1>8, <1>9, <1>10, <1>11, <1>12, <1>13 DEF DInv

\* The webhook, when it is not.
LEMMA LoseReportStep ==
  ASSUME DInv, NEW r \in TelcoReports, LoseDeliveryReport(r)
  PROVE  DInv'
<1> USE DeliveryAssumption
<1>1. /\ r \notin posted /\ r.sending <= calls[r.of] /\ posted' = posted \cup {r}
      /\ lost' = lost \cup {r} /\ (errors' = errors \/ (errors < MaxErrors /\ errors' = errors + 1))
      /\ UNCHANGED <<status, attempts, pc, calls, numberKnown, repair, row, cost, expired,
                     midnight, aged, unmatched, resolved, forwards, snap, twice, told,
                     hurt, crashes>>
  <2>1. errors' = errors \/ (errors < MaxErrors /\ errors' = errors + 1)
    <3>1. CASE HasEventType(r)
      BY <3>1 DEF LoseDeliveryReport, HasEventType
    <3>2. CASE ~ HasEventType(r)
      BY <3>2 DEF LoseDeliveryReport, HasEventType
    <3> QED BY <3>1, <3>2
  <2> QED BY <2>1 DEF LoseDeliveryReport, Post, jobVars, telcoVars, rowVars, timeVars,
                      reportVars, batchVars
<1>2. posted' \ lost' = posted \ lost
  BY <1>1 DEF DInv, TypeOK
<1>3. TypeOK'
  BY <1>1 DEF DInv, TypeOK
<1>4. JobOK' /\ Progress'
  BY <1>1, JobsFrame DEF jobVars
<1>5. FailureOK' /\ SnapsOK' /\ ResolvedOnce' /\ ForwardsOK'
  BY <1>1 DEF DInv, FailureOK, SnapsOK, ResolvedOnce, ForwardsOK, Reported
<1>6. StoredOK' /\ CostIsOfRecorded'
  BY <1>1, <1>2 DEF DInv, StoredOK, CostIsOfRecorded, Reported
<1> QED BY <1>3, <1>4, <1>5, <1>6 DEF DInv

-----------------------------------------------------------------------------
\* The batch takes its snapshot of reports that wait, so of none it has resolved.
LEMMA BatchReadStep ==
  ASSUME DInv, NEW b \in Batches, BatchRead(b)
  PROVE  DInv'
<1>1. /\ snap[b] = {} /\ snap' = [snap EXCEPT ![b] = Matched]
      /\ twice' = twice \cup UNION {Matched \cap snap[c] : c \in Batches}
      /\ UNCHANGED <<unmatched, resolved, forwards, status, attempts, pc, calls,
                     numberKnown, repair, row, cost, expired, midnight, aged, posted,
                     lost, told, hurt, errors, crashes>>
  BY DEF BatchRead, jobVars, telcoVars, rowVars, timeVars, postVars, faultVars
<1>2. Matched \subseteq unmatched /\ Matched \subseteq posted \ lost
  BY DEF Matched, DInv, StoredOK
<1>3. \A r \in Matched : ~Reported(r)
  BY <1>2 DEF DInv, ResolvedOnce, Reported
<1>4. snap \in [Batches -> SUBSET TelcoReports]
  BY DEF DInv, TypeOK
<1>5. /\ snap'[b] = Matched
      /\ \A c \in Batches : c # b => snap'[c] = snap[c]
  BY <1>1, <1>4
<1>6. \A c \in Batches : Matched \cap snap[c] \subseteq twice'
  BY <1>1
<1>7. TypeOK'
  BY <1>1, <1>2, <1>4 DEF DInv, TypeOK
<1>8. JobOK' /\ Progress'
  BY <1>1, JobsFrame DEF jobVars
<1>9. FailureOK' /\ ForwardsOK' /\ CostIsOfRecorded'
  BY <1>1 DEF DInv, FailureOK, ForwardsOK, CostIsOfRecorded, Reported
<1>10. StoredOK'
  BY <1>1, <1>2, <1>5 DEF DInv, StoredOK, Reported
<1>11. ResolvedOnce'
  BY <1>1 DEF DInv, ResolvedOnce
<1>12. SnapsOK'
  <2>1. SUFFICES ASSUME NEW c \in Batches, NEW r \in snap'[c]
                 PROVE  /\ [of |-> r, by |-> c] \notin resolved
                        /\ r \in unmatched \/ r \in twice'
                        /\ Reported(r) => r \in twice'
                        /\ \A d \in Batches : r \in snap'[d] => c = d \/ r \in twice'
    BY <1>1 DEF SnapsOK, Reported
  <2>2. CASE c = b
    <3>1. r \in Matched /\ ~Reported(r) /\ r \in unmatched
      BY <2>1, <2>2, <1>2, <1>3, <1>5
    <3>2. [of |-> r, by |-> c] \notin resolved
      <4> DEFINE x == [of |-> r, by |-> c]
      <4>1. x.of = r
        OBVIOUS
      <4> QED BY <3>1, <4>1 DEF Reported
    <3>3. \A d \in Batches : r \in snap'[d] => c = d \/ r \in twice'
      BY <2>2, <3>1, <1>5, <1>6
    <3> QED BY <3>1, <3>2, <3>3
  <2>3. CASE c # b
    <3>1. r \in snap[c]
      BY <2>1, <2>3, <1>5
    <3>2. /\ [of |-> r, by |-> c] \notin resolved
          /\ r \in unmatched \/ r \in twice
          /\ Reported(r) => r \in twice
          /\ \A d \in Batches : r \in snap[d] => c = d \/ r \in twice
      BY <3>1 DEF DInv, SnapsOK
    <3>3. twice \subseteq twice'
      BY <1>1
    <3>4. ASSUME NEW d \in Batches, r \in snap'[d] PROVE c = d \/ r \in twice'
      <4>1. CASE d = b
        BY <4>1, <3>1, <3>4, <1>5, <1>6
      <4>2. CASE d # b
        BY <4>2, <3>2, <3>3, <3>4, <1>5
      <4> QED BY <4>1, <4>2
    <3> QED BY <3>2, <3>3, <3>4
  <2> QED BY <2>2, <2>3
<1> QED BY <1>7, <1>8, <1>9, <1>10, <1>11, <1>12 DEF DInv

\* The batch commits: what it matched is stored against its message, leaves the
\* waiting reports, and has its jobs.
LEMMA BatchCommitStep ==
  ASSUME DInv, NEW b \in Batches, BatchCommit(b)
  PROVE  DInv'
<1> USE DeliveryAssumption
<1> DEFINE new == {[of |-> r, by |-> b] : r \in snap[b]}
<1>1. /\ unmatched' = unmatched \ snap[b] /\ snap' = [snap EXCEPT ![b] = {}]
      /\ resolved' = resolved \cup new /\ forwards' = forwards \cup ForwardsOf(b)
      /\ UNCHANGED <<twice, status, attempts, pc, calls, numberKnown, repair, row,
                     cost, expired, midnight, aged, posted, lost, told, hurt,
                     errors, crashes>>
  BY DEF BatchCommit, Deleted, jobVars, telcoVars, rowVars, timeVars, postVars, faultVars
<1>2. /\ \A x \in new : x.of \in snap[b] /\ x.by = b
      /\ \A r \in snap[b] : \E x \in new : x.of = r
      /\ \A x, y \in new : x.of = y.of => x = y
      /\ \A f \in ForwardsOf(b) : f.of \in snap[b] /\ f.by = b
      /\ \A f \in ForwardsOf(b) : [of |-> f.of, by |-> f.by] \in new
      /\ \A x \in new : \E f \in ForwardsOf(b) : f.of = x.of /\ f.by = x.by
      /\ \A f, g \in ForwardsOf(b) : f.of = g.of => f = g
  <2>1. \A x \in new : \E r \in snap[b] : x = [of |-> r, by |-> b]
    OBVIOUS
  <2>2. \A r \in snap[b] : [of |-> r, by |-> b] \in new
    OBVIOUS
  <2>3. \A r : Forward(r, b, TRUE).of = r /\ Forward(r, b, TRUE).by = b
    BY DEF Forward
  <2>4. \A f \in ForwardsOf(b) : \E r \in snap[b] : f = Forward(r, b, TRUE)
    BY DEF ForwardsOf
  <2>5. \A r \in snap[b] : Forward(r, b, TRUE) \in ForwardsOf(b)
    BY DEF ForwardsOf
  <2> HIDE DEF new
  <2>6. \A x \in new : x.of \in snap[b] /\ x.by = b /\ x = [of |-> x.of, by |-> b]
    BY <2>1
  <2>7. \A r \in snap[b] : \E x \in new : x.of = r
    BY <2>2
  <2>8. \A x, y \in new : x.of = y.of => x = y
    BY <2>6
  <2>9. \A f \in ForwardsOf(b) :
          f.of \in snap[b] /\ f.by = b /\ f = Forward(f.of, b, TRUE)
    BY <2>3, <2>4
  <2>10. \A f, g \in ForwardsOf(b) : f.of = g.of => f = g
    BY <2>9, Zenon
  <2>11. \A f \in ForwardsOf(b) : [of |-> f.of, by |-> f.by] \in new
    BY <2>2, <2>9
  <2>12. \A x \in new : \E f \in ForwardsOf(b) : f.of = x.of /\ f.by = x.by
    <3>1. SUFFICES ASSUME NEW x \in new
                   PROVE  \E f \in ForwardsOf(b) : f.of = x.of /\ f.by = x.by
      OBVIOUS
    <3>2. Forward(x.of, b, TRUE) \in ForwardsOf(b)
      BY <2>5, <2>6
    <3> QED BY <3>2, <2>3, <2>6
  <2> QED BY <2>6, <2>7, <2>8, <2>9, <2>10, <2>11, <2>12
<1>3. /\ snap \in [Batches -> SUBSET TelcoReports] /\ snap[b] \subseteq TelcoReports
      /\ snap[b] \subseteq posted \ lost
      /\ \A r \in snap[b] : \A m \in Messages : r # OwnReport(m)
      /\ \A r \in snap[b] : r \in Reports
      /\ b \in Makers
  BY ReportKinds DEF DInv, TypeOK, StoredOK, Reports, Makers
<1>4. /\ snap'[b] = {}
      /\ \A c \in Batches : c # b => snap'[c] = snap[c]
  BY <1>1, <1>3
<1>5. \A r : Reported(r)' <=> Reported(r) \/ r \in snap[b]
  BY <1>1, <1>2 DEF Reported
<1>6. TypeOK'
  <2>1. \A r \in snap[b] : Forward(r, b, TRUE) \in
           [of : Reports, by : Makers, attempts : 0..(ForwardAttempts + OwnAttempts),
            status : {"queued", "done", "parked"}, readable : BOOLEAN]
    BY <1>3 DEF Forward
  <2>2. forwards' \subseteq
           [of : Reports, by : Makers, attempts : 0..(ForwardAttempts + OwnAttempts),
            status : {"queued", "done", "parked"}, readable : BOOLEAN]
    <3>1. forwards \subseteq
             [of : Reports, by : Makers, attempts : 0..(ForwardAttempts + OwnAttempts),
              status : {"queued", "done", "parked"}, readable : BOOLEAN]
      BY DEF DInv, TypeOK
    <3>2. ForwardsOf(b) \subseteq
             [of : Reports, by : Makers, attempts : 0..(ForwardAttempts + OwnAttempts),
              status : {"queued", "done", "parked"}, readable : BOOLEAN]
      BY <2>1, Zenon DEF ForwardsOf
    <3> QED BY <1>1, <3>1, <3>2, Zenon
  <2>3. resolved' \subseteq [of : Reports, by : Makers]
    BY <1>1, <1>3 DEF DInv, TypeOK
  <2>4. snap' \in [Batches -> SUBSET TelcoReports]
    BY <1>1, <1>3
  <2> QED BY <1>1, <2>2, <2>3, <2>4 DEF DInv, TypeOK
<1>7. JobOK' /\ Progress'
  BY <1>1, JobsFrame DEF jobVars
<1>8. FailureOK' /\ CostIsOfRecorded'
  BY <1>1, <1>3, <1>5 DEF DInv, FailureOK, CostIsOfRecorded
<1>9. StoredOK'
  <2>1. \A x \in resolved' : x.of \in posted \ lost \/ x.of.sending = 0
    BY <1>1, <1>2, <1>3 DEF DInv, StoredOK
  <2>2. \A c \in Batches : snap'[c] \subseteq posted \ lost
    BY <1>4 DEF DInv, StoredOK
  <2> QED BY <1>1, <1>5, <2>1, <2>2 DEF DInv, StoredOK
<1>10. SnapsOK'
  <2>1. SUFFICES ASSUME NEW c \in Batches, NEW r \in snap'[c]
                 PROVE  /\ [of |-> r, by |-> c] \notin resolved'
                        /\ r \in unmatched' \/ r \in twice
                        /\ Reported(r)' => r \in twice
                        /\ \A d \in Batches : r \in snap'[d] => c = d \/ r \in twice
    BY <1>1 DEF SnapsOK
  <2>2. c # b /\ r \in snap[c]
    BY <1>4
  <2>3. /\ [of |-> r, by |-> c] \notin resolved
        /\ r \in unmatched \/ r \in twice
        /\ Reported(r) => r \in twice
        /\ \A d \in Batches : r \in snap[d] => c = d \/ r \in twice
    BY <2>2 DEF DInv, SnapsOK
  <2>4. [of |-> r, by |-> c] \notin new
    <3>1. \A y \in new : y.by # c
      BY <1>2, <2>2
    <3>2. [of |-> r, by |-> c].by = c
      OBVIOUS
    <3> HIDE DEF new
    <3> QED BY <3>1, <3>2
  <2>5. \A d \in Batches : r \in snap'[d] => r \in snap[d]
    BY <1>4
  <2> QED BY <1>1, <1>5, <2>2, <2>3, <2>4, <2>5
<1>11. ResolvedOnce'
  <2>1. ASSUME NEW x \in resolved', NEW y \in resolved', x.of = y.of, x.of \notin twice
        PROVE  x = y
    <3>1. CASE x.of \in snap[b]
      <4>1. ~ Reported(x.of)
        BY <2>1, <3>1 DEF DInv, SnapsOK
      <4>2. x \in new /\ y \in new
        BY <1>1, <2>1, <4>1 DEF Reported
      <4> QED BY <1>2, <2>1, <4>2
    <3>2. CASE x.of \notin snap[b]
      <4>1. x \in resolved /\ y \in resolved
        BY <1>1, <1>2, <2>1, <3>2
      <4> QED BY <2>1, <4>1 DEF DInv, ResolvedOnce
    <3> QED BY <3>1, <3>2
  <2>2. \A x \in resolved' : x.of \notin unmatched'
    BY <1>1, <1>2 DEF DInv, ResolvedOnce
  <2> QED BY <1>1, <2>1, <2>2 DEF ResolvedOnce
<1>12. ForwardsOK'
  <2>1. \A e \in told : Reported(e)'
    BY <1>5 DEF DInv, ForwardsOK
  <2>2. ASSUME NEW f \in forwards' PROVE [of |-> f.of, by |-> f.by] \in resolved'
    BY <1>1, <1>2 DEF DInv, ForwardsOK
  <2>3. \A x \in resolved' : \E f \in forwards' : f.of = x.of /\ f.by = x.by
    BY <1>1, <1>2 DEF DInv, ForwardsOK
  <2>4. \A f \in forwards, g \in ForwardsOf(b) : ~ (f.of = g.of /\ f.by = g.by)
    BY <1>2 DEF DInv, ForwardsOK, SnapsOK
  <2>5. \A f, g \in forwards' : f.of = g.of /\ f.by = g.by => f = g
    BY <1>1, <1>2, <2>4 DEF DInv, ForwardsOK
  <2> QED BY <1>1, <2>1, <2>2, <2>3, <2>5 DEF ForwardsOK
<1> QED BY <1>6, <1>7, <1>8, <1>9, <1>10, <1>11, <1>12 DEF DInv

LEMMA BatchAbortStep ==
  ASSUME DInv, NEW b \in Batches, BatchAbort(b)
  PROVE  DInv'
<1>1. /\ snap' = [snap EXCEPT ![b] = {}]
      /\ crashes < MaxCrashes /\ crashes' = crashes + 1
      /\ UNCHANGED <<unmatched, resolved, forwards, twice, status, attempts, pc, calls,
                     numberKnown, repair, row, cost, expired, midnight, aged, posted,
                     lost, told, hurt, errors>>
  BY DEF BatchAbort, jobVars, telcoVars, rowVars, timeVars, postVars
<1>2. \A c \in Batches : snap'[c] \subseteq snap[c]
  BY <1>1 DEF DInv, TypeOK
<1>3. TypeOK'
  BY <1>1, DeliveryAssumption DEF DInv, TypeOK
<1>4. JobOK' /\ Progress'
  BY <1>1, JobsFrame DEF jobVars
<1>5. FailureOK' /\ ForwardsOK' /\ CostIsOfRecorded' /\ ResolvedOnce'
  BY <1>1 DEF DInv, FailureOK, ForwardsOK, CostIsOfRecorded, ResolvedOnce, Reported
<1>6. StoredOK'
  BY <1>1, <1>2 DEF DInv, StoredOK, Reported
<1>7. SnapsOK'
  BY <1>1, <1>2 DEF DInv, SnapsOK, Reported
<1> QED BY <1>3, <1>4, <1>5, <1>6, <1>7 DEF DInv

\* An attempt to forward keeps the job that of its report.
LEMMA ForwardStepDInv ==
  ASSUME DInv, NEW f \in forwards, ForwardStep(f)
  PROVE  DInv'
<1> USE DeliveryAssumption
<1> DEFINE jobs == [of : Reports, by : Makers,
                    attempts : 0..(ForwardAttempts + OwnAttempts),
                    status : {"queued", "done", "parked"}, readable : BOOLEAN]
<1>1. f \in jobs /\ Runnable(f)
  BY DEF DInv, TypeOK, ForwardStep, ForwardOk, ForwardError, ForwardUnreadable, ForwardCrash
<1>2. f.attempts + 1 \in 0..(ForwardAttempts + OwnAttempts)
  BY <1>1 DEF Runnable, JobMax
<1>3. PICK g \in {[Attempted(f) EXCEPT !.status = "done"], Rethrown(f), Attempted(f)} :
        forwards' = (forwards \ {f}) \cup {g}
  BY DEF ForwardStep, ForwardOk, ForwardError, ForwardUnreadable, ForwardCrash
<1>4. g \in jobs /\ g.of = f.of /\ g.by = f.by
  BY <1>1, <1>2 DEF Attempted, Rethrown
<1>5. /\ told' \in {told, told \cup {f.of}}
      /\ errors' \in 0..MaxErrors /\ crashes' \in 0..MaxCrashes
      /\ UNCHANGED <<status, attempts, pc, calls, numberKnown, repair, row, cost, expired,
                     midnight, aged, unmatched, resolved, snap, twice, posted, lost, hurt>>
  BY DEF DInv, TypeOK, ForwardStep, ForwardOk, ForwardError, ForwardUnreadable,
         ForwardCrash, jobVars, telcoVars, rowVars, timeVars, batchVars, postVars, faultVars
<1>6. TypeOK'
  BY <1>1, <1>3, <1>4, <1>5 DEF DInv, TypeOK
<1>7. JobOK' /\ Progress'
  BY <1>5, JobsFrame DEF jobVars
<1>8. FailureOK' /\ CostIsOfRecorded' /\ ResolvedOnce' /\ StoredOK' /\ SnapsOK'
  BY <1>5 DEF DInv, FailureOK, CostIsOfRecorded, ResolvedOnce, StoredOK, SnapsOK, Reported
<1>9. ForwardsOK'
  <2>1. /\ \A h \in forwards : [of |-> h.of, by |-> h.by] \in resolved
        /\ \A x \in resolved : \E h \in forwards : h.of = x.of /\ h.by = x.by
        /\ \A h, k \in forwards : h.of = k.of /\ h.by = k.by => h = k
        /\ \A e \in told : Reported(e)
    BY DEF DInv, ForwardsOK
  <2>2. Reported(f.of)
    <3> DEFINE x == [of |-> f.of, by |-> f.by]
    <3>1. x \in resolved /\ x.of = f.of
      BY <2>1
    <3> QED BY <3>1 DEF Reported
  <2>3. \A e \in told' : Reported(e)'
    BY <1>5, <2>1, <2>2 DEF Reported
  <2>4. \A h \in forwards' : [of |-> h.of, by |-> h.by] \in resolved'
    BY <1>3, <1>4, <1>5, <2>1
  <2>5. \A x \in resolved' : \E h \in forwards' : h.of = x.of /\ h.by = x.by
    BY <1>3, <1>4, <1>5, <2>1
  <2>6. \A h, k \in forwards' : h.of = k.of /\ h.by = k.by => h = k
    BY <1>3, <1>4, <2>1
  <2> QED BY <2>3, <2>4, <2>5, <2>6 DEF ForwardsOK
<1> QED BY <1>6, <1>7, <1>8, <1>9 DEF DInv

\* Time, and the repair of a from number, touch none of what the parts relate.
LEMMA TimeStep ==
  ASSUME DInv,
         (\E m \in Messages : Expire(m) \/ Age(m)) \/ Midnight \/ Repair \/ UNCHANGED vars
  PROVE  DInv'
<1>1. UNCHANGED <<status, attempts, pc, calls, row, cost, unmatched, resolved, forwards,
                  snap, twice, posted, lost, told, hurt, errors, crashes>>
  BY DEF Expire, Age, Midnight, Repair, vars, jobVars, telcoVars, rowVars, reportVars,
         batchVars, postVars, faultVars
<1>2. TypeOK'
  <2>1. /\ expired' \subseteq Messages /\ aged' \subseteq Messages
        /\ midnight' \in BOOLEAN /\ numberKnown' \in BOOLEAN
        /\ repair' \in {"none", "queued"}
    BY DEF DInv, TypeOK, Expire, Age, Midnight, Repair, vars, telcoVars, timeVars
  <2> QED BY <1>1, <2>1 DEF DInv, TypeOK
<1>3. JobOK' /\ Progress' /\ FailureOK' /\ CostIsOfRecorded'
  BY <1>1 DEF DInv, JobOK, Progress, FailureOK, CostIsOfRecorded, Reported
<1>4. StoredOK' /\ SnapsOK' /\ ResolvedOnce' /\ ForwardsOK'
  BY <1>1 DEF DInv, StoredOK, SnapsOK, ResolvedOnce, ForwardsOK, Reported
<1> QED BY <1>2, <1>3, <1>4 DEF DInv

LEMMA StepDInv == DInv /\ [Next]_vars => DInv'
<1> SUFFICES ASSUME DInv, [Next]_vars PROVE DInv'
  OBVIOUS
<1>1. ASSUME NEW m \in Messages, SendStep(m) PROVE DInv'
  BY <1>1, StartStep, CrashStep, CompleteStep, ValidateStep, AcceptedStep, FailStep,
     RecordStep, InsertReportStep DEF SendStep
<1>2. ASSUME NEW m \in Messages, TriggerSendMessage(m) \/ Expire(m) \/ Age(m) PROVE DInv'
  BY <1>2, TriggerStep, TimeStep
<1>3. ASSUME NEW r \in TelcoReports, InsertDeliveryReport(r) \/ LoseDeliveryReport(r)
      PROVE  DInv'
  BY <1>3, StoreReportStep, LoseReportStep
<1>4. ASSUME NEW b \in Batches, BatchRead(b) \/ BatchCommit(b) \/ BatchAbort(b)
      PROVE  DInv'
  BY <1>4, BatchReadStep, BatchCommitStep, BatchAbortStep
<1>5. ASSUME NEW f \in forwards, ForwardStep(f) PROVE DInv'
  BY <1>5, ForwardStepDInv
<1>6. CASE Midnight \/ Repair \/ UNCHANGED vars
  BY <1>6, TimeStep
<1> QED BY <1>1, <1>2, <1>3, <1>4, <1>5, <1>6 DEF Next

LEMMA InductiveDelivery == Spec => []DInv
BY InitDInv, StepDInv, PTL DEF Spec

-----------------------------------------------------------------------------
\* The state keeps its shape.
THEOREM DeliveryTypeCorrect == Spec => []TypeOK
BY InductiveDelivery, PTL DEF DInv

\* What is recorded of a message, what the client is told of it and what it cost
\* are of the one sending it had, or of its failure, unless a fault came between
\* the call and the insert that records it (send-message, the webhook and the
\* batch of delivery reports).
THEOREM SendingsInAgreement == Spec => []SendingsAgree
<1>1. ASSUME DInv PROVE SentOnce
  BY <1>1, DeliveryAssumption DEF DInv, TypeOK, JobOK, Progress, SentOnce, Sendings
<1>2. ASSUME DInv, NEW m \in Messages \ hurt, OwnReport(m) \in told,
             NEW r \in told, r.of = m, r.sending > 0
      PROVE  FALSE
  <2>1. row[m] = Failed /\ calls[m] = 0
    BY <1>1, <1>2 DEF DInv, ForwardsOK, FailureOK, SentOnce
  <2>2. r \in TelcoReports /\ r.sending # 0
    <3>1. r \in Reports /\ r.sending # 0
      BY <1>2, ReportKinds DEF DInv, TypeOK
    <3> QED BY <3>1, ReportKinds
  <2>3. PICK x \in resolved : x.of = r
    BY <1>2 DEF DInv, ForwardsOK, Reported
  <2>4. r \in posted
    BY <2>2, <2>3, <1>2 DEF DInv, StoredOK
  <2>5. r.sending <= calls[m]
    BY <2>4, <1>2 DEF DInv, StoredOK
  <2> QED BY <2>1, <2>2, <2>5, ReportKinds
<1>3. DInv => SendingsAgree
  BY <1>1, <1>2 DEF SendingsAgree, VerdictsAgree, DInv
<1> QED BY <1>3, InductiveDelivery, PTL

\* A report that was stored waits or is resolved, and is matched once unless two
\* batches overlapped; a failure is reported; and each row of a report has the
\* one job that forwards it (the webhook, sms.resolve_delivery_reports, the
\* trigger of sms.delivery_reports).
THEOREM ReportsKeptAndForwarded == Spec => []ReportsAccounted
<1>1. ASSUME DInv, NEW x \in resolved
      PROVE  Cardinality({f \in forwards : f.of = x.of /\ f.by = x.by}) = 1
  <2>1. PICK g \in forwards : g.of = x.of /\ g.by = x.by
    BY <1>1 DEF DInv, ForwardsOK
  <2>2. {f \in forwards : f.of = x.of /\ f.by = x.by} = {g}
    BY <1>1, <2>1 DEF DInv, ForwardsOK
  <2> QED BY <2>2, FS_Singleton
<1>2. DInv => ForwardEach
  BY <1>1 DEF DInv, ForwardsOK, ForwardEach
<1>3. DInv => FailureReported /\ ReportKept /\ ResolvedOnce
  BY DEF DInv, FailureOK, FailureReported, StoredOK, ReportKept
<1> QED BY <1>2, <1>3, InductiveDelivery, PTL DEF ReportsAccounted

-----------------------------------------------------------------------------
\* The refinement: every step is one of the promise, or changes nothing in it.
LEMMA PromiseStep ==
  ASSUME DInv, DInv', [Next]_vars
  PROVE  [Promise!Next]_(Promise!vars)
<1> DEFINE own == {x.of : x \in {y \in resolved : y.of.sending = 0}}
           happened == posted \cup own
           recorded == {x.of : x \in resolved}
<1>1. recorded \subseteq happened
  BY DEF DInv, StoredOK
<1>2. CASE UNCHANGED <<posted, resolved, told>>
  BY <1>2 DEF Promise!vars
<1>3. ASSUME NEW m \in Messages, InsertReport(m) PROVE Promise!Next
  <2> DEFINE e == OwnReport(m)
             x == [of |-> e, by |-> Own]
  <2>1. resolved' = resolved \cup {x} /\ UNCHANGED <<posted, told>>
    BY <1>3 DEF InsertReport, postVars
  <2>2. e.sending = 0 /\ e \in Reports /\ x.of = e
    BY ReportKinds DEF Reports
  <2>3. happened' = happened \cup {e} /\ recorded' = recorded \cup {e}
    BY <2>1, <2>2
  <2>4. Promise!HappenRecorded(e)
    BY <2>1, <2>3 DEF Promise!HappenRecorded
  <2> QED BY <2>2, <2>4 DEF Promise!Next
<1>4. ASSUME NEW r \in TelcoReports, InsertDeliveryReport(r) PROVE Promise!Next
  <2> DEFINE x == [of |-> r, by |-> "webhook"]
  <2>1. /\ r \notin posted /\ posted' = posted \cup {r} /\ UNCHANGED told
        /\ resolved' = resolved \/ resolved' = resolved \cup {x}
    BY <1>4 DEF InsertDeliveryReport, Post, InsertResolved, InsertUnresolved
  <2>2. r \in Reports /\ r.sending # 0 /\ x.of = r
    BY ReportKinds DEF Reports
  <2>3. own' = own /\ happened' = happened \cup {r}
    BY <2>1, <2>2
  <2>4. CASE resolved' = resolved
    <3>1. r \notin happened
      <4>1. \A y \in own : y.sending = 0
        OBVIOUS
      <4> QED BY <2>1, <2>2, <4>1
    <3>2. Promise!Happen(r)
      BY <2>1, <2>3, <2>4, <3>1 DEF Promise!Happen
    <3> QED BY <2>2, <3>2 DEF Promise!Next
  <2>5. CASE resolved' = resolved \cup {x}
    <3>1. recorded' = recorded \cup {r}
      BY <2>2, <2>5
    <3>2. Promise!HappenRecorded(r)
      BY <2>1, <2>3, <3>1 DEF Promise!HappenRecorded
    <3> QED BY <2>2, <3>2 DEF Promise!Next
  <2> QED BY <2>1, <2>4, <2>5
<1>5. ASSUME NEW r \in TelcoReports, LoseDeliveryReport(r) PROVE Promise!Next
  <2>1. /\ r \notin posted /\ posted' = posted \cup {r}
        /\ UNCHANGED <<resolved, told>>
    BY <1>5 DEF LoseDeliveryReport, Post, reportVars
  <2>2. r \in Reports /\ r.sending # 0
    BY ReportKinds DEF Reports
  <2>3. r \notin happened
    <3>1. \A y \in own : y.sending = 0
      OBVIOUS
    <3> QED BY <2>1, <2>2, <3>1
  <2>4. Promise!Happen(r)
    BY <2>1, <2>3 DEF Promise!Happen
  <2> QED BY <2>2, <2>4 DEF Promise!Next
<1>6. ASSUME NEW b \in Batches, BatchCommit(b) PROVE [Promise!Next]_(Promise!vars)
  <2> DEFINE new == {[of |-> r, by |-> b] : r \in snap[b]}
  <2>1. resolved' = resolved \cup new /\ UNCHANGED <<posted, told>>
    BY <1>6 DEF BatchCommit, postVars
  <2>2. snap[b] \subseteq posted /\ snap[b] \subseteq TelcoReports
    BY DEF DInv, TypeOK, StoredOK
  <2>3. recorded' = recorded \cup snap[b]
    <3>1. \A r \in snap[b] : [of |-> r, by |-> b] \in new /\ [of |-> r, by |-> b].of = r
      OBVIOUS
    <3>2. \A x \in new : x.of \in snap[b]
      OBVIOUS
    <3> HIDE DEF new
    <3>3. \A r \in snap[b] : \E x \in new : x.of = r
      BY <3>1
    <3> QED BY <2>1, <3>2, <3>3
  <2>4. own' = own
    <3>1. \A x \in new : x.of.sending # 0
      BY <2>2, ReportKinds
    <3> QED BY <2>1, <3>1
  <2>5. happened' = happened
    BY <2>1, <2>4
  <2>6. recorded \subseteq recorded' /\ recorded' \subseteq happened
    BY <1>1, <2>2, <2>3
  <2>7. CASE recorded' = recorded
    BY <2>1, <2>5, <2>7 DEF Promise!vars
  <2>8. CASE recorded' # recorded
    <3>1. Promise!Record
      BY <2>1, <2>5, <2>6, <2>8 DEF Promise!Record
    <3> QED BY <3>1 DEF Promise!Next
  <2> QED BY <2>7, <2>8
<1>7. ASSUME NEW f \in forwards, ForwardStep(f) PROVE [Promise!Next]_(Promise!vars)
  <2>1. told' \in {told, told \cup {f.of}} /\ UNCHANGED <<posted, resolved>>
    BY <1>7 DEF ForwardStep, ForwardOk, ForwardError, ForwardUnreadable, ForwardCrash,
                postVars
  <2>2. f.of \in recorded /\ f.of \in Reports
    <3> DEFINE x == [of |-> f.of, by |-> f.by]
    <3>1. x \in resolved /\ x.of = f.of
      BY DEF DInv, ForwardsOK
    <3> QED BY <3>1 DEF DInv, TypeOK
  <2>3. CASE told' = told
    BY <1>2, <2>1, <2>3
  <2>4. CASE told' = told \cup {f.of}
    <3>1. Promise!Tell(f.of)
      BY <2>1, <2>2, <2>4 DEF Promise!Tell
    <3> QED BY <2>2, <3>1 DEF Promise!Next
  <2> QED BY <2>1, <2>3, <2>4
<1>8. ASSUME NEW m \in Messages,
             TriggerSendMessage(m) \/ (SendStep(m) /\ ~InsertReport(m)) \/ Expire(m) \/ Age(m)
      PROVE  UNCHANGED <<posted, resolved, told>>
  BY <1>8 DEF TriggerSendMessage, SendStep, Start, Crash, Complete, ValidateSendBefore,
              SendAccepted, SendAnswerLost, SendRefused, SendInvalidFromNumber, SendFails,
              HandleMessageSent, InsertFailed, InsertFails, Expire, Age, reportVars, postVars
<1>9. ASSUME NEW b \in Batches, BatchRead(b) \/ BatchAbort(b)
      PROVE  UNCHANGED <<posted, resolved, told>>
  BY <1>9 DEF BatchRead, BatchAbort, postVars
<1>10. CASE Midnight \/ Repair \/ UNCHANGED vars
  <2>1. UNCHANGED <<posted, resolved, told>>
    BY <1>10 DEF Midnight, Repair, vars, reportVars, postVars
  <2> QED BY <1>2, <2>1
<1> QED BY <1>2, <1>3, <1>4, <1>5, <1>6, <1>7, <1>8, <1>9, <1>10 DEF Next

\* Delivery keeps its promise: the client of a message is told only of events that
\* happened and were recorded first, and nothing recorded or told is taken back.
THEOREM DeliveryKeepsPromise == Spec => ImplementsPromise
<1>1. Init => Promise!Init
  BY DEF Init, Promise!Init
<1> QED BY <1>1, PromiseStep, InductiveDelivery, PTL DEF Spec, ImplementsPromise, Promise!Spec

=============================================================================
