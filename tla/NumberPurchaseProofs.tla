------------------------ MODULE NumberPurchaseProofs ------------------------
(***************************************************************************)
(* Theorems of NumberPurchase, for every set of requests, numbers and jobs *)
(* and every bound on attempts, errors and crashes.                        *)
(***************************************************************************)
EXTENDS NumberPurchase, TLAPS, FiniteSetTheorems

(* What the job, the locals and the open transaction of a handler say of each
   other: the part of the inductive invariant that types do not give. *)
HandlerOK ==
  \A j \in Jobs :
    /\ pc[j] # "idle" <=> status[j] = "running"
    /\ status[j] = "queued" => attempts[j] < MaxAttempts
    /\ pc[j] \notin {"idle", "step"} => job[j].task = "purchase-number"
    /\ job[j].task \in Tasks \ {"associate-service-10dlc-campaign"} =>
         job[j].of \in Requests
    /\ pc[j] \in {"claim", "check"} => cand[j] \in Stock
    /\ pc[j] = "order" /\ Service # "twilio" => cand[j] \in Stock
    /\ pc[j] \in {"check", "order"} /\ Service = "bandwidth" =>
         newPhone[j] \in Stock
    /\ pc[j] = "finish" => newPhone[j] \in Stock

IInv == TypeOK /\ HandlerOK

-----------------------------------------------------------------------------
(* A new job takes a row that no other job uses. *)
LEMMA FreshFree ==
  ASSUME Free # {}
  PROVE  Fresh \in Jobs /\ status[Fresh] = "free"
BY DEF Fresh, Free

(* Queuing a job with a well-typed payload keeps the jobs well typed, and
   changes the status of no other job. *)
LEMMA AddJobType ==
  ASSUME JobType,
         NEW statuses \in [Jobs -> {"free", "queued", "running", "committed",
                                    "parked", "dead"}],
         NEW p \in [task : Tasks \cup {"none"}, of : Requests \cup {None},
                    number : Stock \cup {None},
                    order : Stock \cup {None, Failed}, campaign : BOOLEAN],
         AddJob(statuses, p)
  PROVE  /\ JobType'
         /\ Fresh \in Jobs /\ status[Fresh] = "free"
         /\ status'[Fresh] = "queued" /\ job'[Fresh] = p /\ attempts'[Fresh] = 0
         /\ \A j \in Jobs \ {Fresh} : /\ status'[j] = statuses[j]
                                     /\ job'[j] = job[j]
                                     /\ attempts'[j] = attempts[j]
<1>1. Fresh \in Jobs /\ status[Fresh] = "free"
  BY FreshFree DEF AddJob
<1>. QED  BY <1>1, PurchaseAssumption DEF AddJob, JobType

(* What the end of a step of the pipeline does to every variable it writes. *)
LEMMA EndStepType ==
  ASSUME IInv, NEW j \in Jobs, status[j] = "running",
         job[j].of \in Requests, job[j].task \in Tasks,
         NEW ph \in Stock \cup {None}, NEW o \in Stock \cup {None, Failed},
         EndStep(j, ph, o)
  PROVE  /\ state' \in [Requests -> {"unused", "pending", "fulfilled"}]
         /\ live' \in [Stock -> Nat]
         /\ cached' \in {"unset", "no", "yes"}
         /\ JobType' /\ HandlerType' /\ HandlerOK'
<1>. USE DEF IInv, TypeOK
<1>1. state' \in [Requests -> {"unused", "pending", "fulfilled"}]
  BY DEF EndStep, RowType
<1>2. live' \in [Stock -> Nat]
  <2>1. \/ live' = live
        \/ live' = [n \in DOMAIN live |->
                      IF n = ph THEN live[n] + 1 ELSE live[n]]
    BY DEF EndStep
  <2>. QED  BY <2>1 DEF NumberType
<1>3. cached' \in {"unset", "no", "yes"}
  BY DEF EndStep, CachedFlag, Cache, NumberType
<1>4. HandlerType'
  BY DEF EndStep, EndHandler, HandlerType
<1>. DEFINE next == getNextAction(Service, CachedFlag = "yes", job[j].task)
            payload == [task |-> next, of |-> job[j].of, number |-> ph,
                        order |-> o, campaign |-> campaign[job[j].of]]
            statuses == [status EXCEPT ![j] = "committed"]
<1>5. CASE QueuesNext(next)
  <2>1. next \in Tasks
    BY <1>5 DEF QueuesNext, getNextAction, Tasks
  <2>2. payload \in [task : Tasks \cup {"none"}, of : Requests \cup {None},
                     number : Stock \cup {None},
                     order : Stock \cup {None, Failed}, campaign : BOOLEAN]
    BY <2>1 DEF RowType
  <2>3. statuses \in [Jobs -> {"free", "queued", "running", "committed",
                               "parked", "dead"}]
    BY DEF JobType
  <2>4. AddJob(statuses, payload)
    BY <1>5 DEF EndStep
  <2>5. /\ JobType'
        /\ Fresh \in Jobs /\ status[Fresh] = "free"
        /\ status'[Fresh] = "queued" /\ job'[Fresh] = payload
        /\ attempts'[Fresh] = 0
        /\ \A k \in Jobs \ {Fresh} : /\ status'[k] = statuses[k]
                                    /\ job'[k] = job[k]
                                    /\ attempts'[k] = attempts[k]
    <3>. HIDE DEF next, payload, statuses
    <3>. QED  BY <2>2, <2>3, <2>4, AddJobType
  <2>6. HandlerOK'
    <3>1. SUFFICES ASSUME NEW k \in Jobs
                   PROVE  HandlerOK!(k)'
      BY DEF HandlerOK
    <3>2. CASE k = Fresh
      BY <3>2, <2>5, PurchaseAssumption DEF EndStep, EndHandler, HandlerType,
         HandlerOK
    <3>3. CASE k # Fresh
      BY <3>3, <2>5 DEF EndStep, EndHandler, HandlerType, JobType, HandlerOK
    <3>. QED  BY <3>2, <3>3
  <2>. QED  BY <1>1, <1>2, <1>3, <1>4, <2>5, <2>6
<1>6. CASE ~QueuesNext(next)
  <2>1. status' = statuses /\ UNCHANGED <<job, attempts>>
    BY <1>6 DEF EndStep
  <2>2. JobType'
    BY <2>1 DEF JobType
  <2>3. HandlerOK'
    BY <2>1 DEF EndStep, EndHandler, HandlerType, JobType, HandlerOK
  <2>. QED  BY <1>1, <1>2, <1>3, <1>4, <2>2, <2>3
<1>. QED  BY <1>5, <1>6

(* A handler that ends without an effect leaves its job queued, parked or
   dead, and nothing else changes. *)
LEMMA EndJob ==
  ASSUME IInv, NEW j \in Jobs, status[j] \in {"running", "committed"},
         NEW s \in {"queued", "parked", "dead"},
         s = "queued" => attempts[j] # MaxAttempts,
         status' = [status EXCEPT ![j] = s], UNCHANGED <<job, attempts>>,
         EndHandler(j)
  PROVE  JobType' /\ HandlerType' /\ HandlerOK'
<1>. USE DEF IInv, TypeOK
<1>1. JobType'
  BY DEF JobType
<1>2. HandlerType'
  BY DEF EndHandler, HandlerType
<1>3. \A k \in Jobs \ {j} : /\ status'[k] = status[k] /\ pc'[k] = pc[k]
                         /\ cand'[k] = cand[k] /\ newPhone'[k] = newPhone[k]
  BY DEF EndHandler, JobType, HandlerType
<1>4. status'[j] = s /\ pc'[j] = "idle"
  BY DEF EndHandler, JobType, HandlerType
<1>5. s = "queued" => attempts[j] < MaxAttempts
  BY PurchaseAssumption DEF JobType
<1>6. HandlerOK'
  BY <1>3, <1>4, <1>5 DEF HandlerOK
<1>. QED  BY <1>1, <1>2, <1>6

(* The same of a handler that throws. *)
LEMMA ThrowOK ==
  ASSUME IInv, NEW j \in Jobs, status[j] = "running", Throw(j),
         UNCHANGED <<job, attempts>>
  PROVE  JobType' /\ HandlerType' /\ HandlerOK'
BY EndJob DEF Throw, LastAttempt

(* The initial states are well typed. *)
LEMMA InitIInv == Init => IInv
<1>. SUFFICES ASSUME Init PROVE IInv
  OBVIOUS
<1>. USE DEF Init
<1>1. RowType /\ NumberType
  BY PurchaseAssumption DEF RowType, NumberType
<1>2. JobType
  BY PurchaseAssumption DEF JobType, NoJob
<1>3. HandlerType
  BY DEF HandlerType
<1>4. BoundType
  BY PurchaseAssumption DEF BoundType
<1>5. HandlerOK
  BY PurchaseAssumption DEF HandlerOK, NoJob, Tasks
<1>. QED  BY <1>1, <1>2, <1>3, <1>4, <1>5 DEF IInv, TypeOK

(* Every step keeps the inductive invariant. *)
LEMMA NextIInv == IInv /\ [Next]_vars => IInv'
<1>. SUFFICES ASSUME IInv, [Next]_vars
              PROVE  IInv'
  OBVIOUS
<1>. USE DEF IInv, TypeOK
<1>1. ASSUME NEW r \in Requests, CreateRequest(r)
      PROVE  IInv'
  <2>. DEFINE payload == [task |-> "purchase-number", of |-> r, number |-> None,
                           order |-> None, campaign |-> profileCampaign]
  <2>1. /\ JobType'
        /\ Fresh \in Jobs /\ status[Fresh] = "free"
        /\ status'[Fresh] = "queued" /\ job'[Fresh] = payload
        /\ attempts'[Fresh] = 0
        /\ \A k \in Jobs \ {Fresh} : /\ status'[k] = status[k]
                                    /\ job'[k] = job[k]
                                    /\ attempts'[k] = attempts[k]
    <3>1. payload \in [task : Tasks \cup {"none"}, of : Requests \cup {None},
                       number : Stock \cup {None},
                       order : Stock \cup {None, Failed}, campaign : BOOLEAN]
      BY DEF Tasks, NumberType
    <3>2. status \in [Jobs -> {"free", "queued", "running", "committed",
                               "parked", "dead"}]
      BY DEF JobType
    <3>3. AddJob(status, payload)
      BY <1>1 DEF CreateRequest
    <3>. QED  BY <3>1, <3>2, <3>3, AddJobType
  <2>2. HandlerOK'
    BY <1>1, <2>1, PurchaseAssumption DEF CreateRequest, HandlerOK, Tasks,
       handlerVars
  <2>3. RowType'
    BY <1>1 DEF CreateRequest, RowType, NumberType
  <2>. QED
    BY <1>1, <2>1, <2>2, <2>3 DEF CreateRequest, NumberType, HandlerType,
       BoundType, numberVars, handlerVars, boundVars
<1>2. ASSUME NEW j \in Jobs, Start(j)
      PROVE  IInv'
  <2>1. JobType'
    BY <1>2, PurchaseAssumption DEF Start, JobType, HandlerOK
  <2>2. HandlerType'
    BY <1>2 DEF Start, HandlerType, HandlerOK
  <2>3. HandlerOK'
    BY <1>2, PurchaseAssumption DEF Start, HandlerOK, JobType, HandlerType,
       Tasks, jobVars, handlerVars
  <2>4. RowType' /\ NumberType' /\ BoundType'
    BY <1>2 DEF Start, RowType, NumberType, BoundType, rowVars, numberVars,
       jobVars, handlerVars, boundVars
  <2>. QED  BY <2>1, <2>2, <2>3, <2>4
<1>3. ASSUME NEW j \in Jobs, Search(j)
      PROVE  IInv'
  <2>1. NumberType'
    BY <1>3 DEF Search, CachedFlag, Cache, NumberType, numberVars
  <2>2. HandlerType'
    BY <1>3 DEF Search, CachedFlag, Cache, HandlerType, HandlerOK
  <2>3. HandlerOK'
    BY <1>3, PurchaseAssumption DEF Search, CachedFlag, Cache, HandlerOK,
       JobType, HandlerType, Tasks, jobVars, handlerVars
  <2>4. RowType' /\ JobType' /\ BoundType'
    BY <1>3 DEF Search, CachedFlag, Cache, RowType, JobType, BoundType,
       rowVars, numberVars, jobVars, handlerVars, boundVars
  <2>. QED  BY <2>1, <2>2, <2>3, <2>4
<1>4. ASSUME NEW j \in Jobs, GiveUp(j)
      PROVE  IInv'
  <2>1. CASE Throw(j)
    <3>1. status[j] = "running"
      BY <1>4 DEF GiveUp, HandlerOK
    <3>2. JobType' /\ HandlerType' /\ HandlerOK'
      BY <1>4, <2>1, <3>1, ThrowOK DEF GiveUp
    <3>. QED
      BY <1>4, <3>2 DEF GiveUp, RowType, NumberType, BoundType, rowVars,
         numberVars, boundVars
  <2>2. CASE ~Throw(j)
    <3>1. JobType' /\ HandlerType'
      BY <1>4, <2>2 DEF GiveUp, Exhausted, JobType, HandlerType
    <3>2. HandlerOK'
      BY <1>4, <2>2 DEF GiveUp, Exhausted, HandlerType, HandlerOK
    <3>. QED
      BY <1>4, <3>1, <3>2 DEF GiveUp, RowType, NumberType, BoundType, rowVars,
         numberVars, boundVars
  <2>. QED  BY <2>1, <2>2
<1>5. ASSUME NEW j \in Jobs, Candidate(j)
      PROVE  IInv'
  <2>1. HandlerType'
    BY <1>5 DEF Candidate, Pop, HandlerType, HandlerOK
  <2>2. HandlerOK'
    BY <1>5, PurchaseAssumption DEF Candidate, Pop, HandlerOK, JobType,
       HandlerType, Tasks, jobVars, handlerVars
  <2>3. RowType' /\ NumberType' /\ JobType' /\ BoundType'
    BY <1>5 DEF Candidate, Pop, RowType, NumberType, JobType, BoundType,
       rowVars, numberVars, jobVars, handlerVars, boundVars
  <2>. QED  BY <2>1, <2>2, <2>3
<1>6. ASSUME NEW j \in Jobs, Claim(j)
      PROVE  IInv'
  <2>1. HandlerType'
    BY <1>6 DEF Claim, HandlerType, HandlerOK
  <2>2. HandlerOK'
    BY <1>6, PurchaseAssumption DEF Claim, HandlerOK, JobType, HandlerType,
       Tasks, jobVars, handlerVars
  <2>3. RowType' /\ NumberType' /\ JobType' /\ BoundType'
    BY <1>6 DEF Claim, RowType, NumberType, JobType, BoundType, rowVars,
       numberVars, jobVars, handlerVars, boundVars
  <2>. QED  BY <2>1, <2>2, <2>3
<1>7. ASSUME NEW j \in Jobs, CheckLive(j)
      PROVE  IInv'
  <2>1. HandlerType'
    BY <1>7 DEF CheckLive, HandlerType, HandlerOK
  <2>2. HandlerOK'
    BY <1>7, PurchaseAssumption DEF CheckLive, HandlerOK, JobType,
       HandlerType, Tasks, jobVars, handlerVars
  <2>3. RowType' /\ NumberType' /\ JobType' /\ BoundType'
    BY <1>7 DEF CheckLive, RowType, NumberType, JobType, BoundType, rowVars,
       numberVars, jobVars, handlerVars, boundVars
  <2>. QED  BY <2>1, <2>2, <2>3
<1>8. ASSUME NEW j \in Jobs, Order(j)
      PROVE  IInv'
  <2>1. status[j] = "running" /\ (Service # "twilio" => cand[j] \in Stock)
    BY <1>8 DEF Order, HandlerOK
  <2>2. NumberType'
    BY <1>8, <2>1 DEF Order, Buy, NumberType, numberVars
  <2>3. CASE Throw(j)
    <3>1. JobType' /\ HandlerType' /\ HandlerOK'
      BY <1>8, <2>1, <2>3, ThrowOK DEF Order
    <3>. QED
      BY <1>8, <2>2, <3>1 DEF Order, RowType, BoundType, rowVars, boundVars
  <2>4. CASE ~Throw(j)
    <3>1. UNCHANGED jobVars
      BY <1>8, <2>4 DEF Order, Buy, Exhausted, jobVars
    <3>2. HandlerType'
      <4>1. CASE \E n \in Stock : Buy(j, n)
        BY <1>8, <4>1 DEF Order, Buy, AfterOrder, HandlerType
      <4>2. CASE ~\E n \in Stock : Buy(j, n)
        BY <1>8, <2>1, <2>4, <4>2 DEF Order, Exhausted, HandlerType
      <4>. QED  BY <4>1, <4>2
    <3>3. /\ pc'[j] \in {"finish", "next", "search"}
          /\ pc'[j] = "finish" => newPhone'[j] \in Stock
          /\ \A i \in Jobs \ {j} : /\ pc'[i] = pc[i] /\ cand'[i] = cand[i]
                                   /\ newPhone'[i] = newPhone[i]
      BY <1>8, <2>1, <2>4 DEF Order, Buy, AfterOrder, Exhausted, HandlerType,
         HandlerOK
    <3>4. job[j].task = "purchase-number"
      BY <1>8 DEF Order, HandlerOK
    <3>5. HandlerOK'
      BY <2>1, <3>1, <3>3, <3>4 DEF HandlerOK, jobVars
    <3>6. JobType'
      BY <3>1 DEF JobType, jobVars
    <3>. QED
      BY <1>8, <2>2, <3>2, <3>5, <3>6 DEF Order, RowType, BoundType, rowVars,
         boundVars
  <2>. QED  BY <2>3, <2>4
<1>9. ASSUME NEW j \in Jobs, FinishPurchase(j)
      PROVE  IInv'
  <2>1. /\ status[j] = "running" /\ job[j].task \in Tasks
        /\ job[j].of \in Requests
        /\ EndStep(j, newPhone[j], newOrder[j])
    BY <1>9 DEF FinishPurchase, HandlerOK, JobType, Tasks
  <2>2. /\ state' \in [Requests -> {"unused", "pending", "fulfilled"}]
        /\ live' \in [Stock -> Nat]
        /\ cached' \in {"unset", "no", "yes"}
        /\ JobType' /\ HandlerType' /\ HandlerOK'
    BY <2>1, EndStepType DEF HandlerType
  <2>. QED
    BY <1>9, <2>1, <2>2 DEF FinishPurchase, EndStep, RowType, NumberType,
       BoundType, boundVars, HandlerType
<1>10. ASSUME NEW j \in Jobs, PollNumberOrder(j)
      PROVE  IInv'
  <2>1. /\ status[j] = "running" /\ job[j].task \in Tasks
        /\ job[j].of \in Requests
        /\ EndStep(j, phone[job[j].of], order[job[j].of])
    BY <1>10 DEF PollNumberOrder, AtStep, HandlerOK, JobType, Tasks
  <2>2. /\ state' \in [Requests -> {"unused", "pending", "fulfilled"}]
        /\ live' \in [Stock -> Nat]
        /\ cached' \in {"unset", "no", "yes"}
        /\ JobType' /\ HandlerType' /\ HandlerOK'
    BY <2>1, EndStepType DEF RowType
  <2>. QED
    BY <1>10, <2>1, <2>2 DEF PollNumberOrder, EndStep, RowType, NumberType,
       BoundType, boundVars
<1>11. ASSUME NEW j \in Jobs, OrderNotReady(j)
      PROVE  IInv'
  <2>1. JobType' /\ HandlerType' /\ HandlerOK'
    BY <1>11, ThrowOK DEF OrderNotReady, AtStep, HandlerOK
  <2>. QED
    BY <1>11, <2>1 DEF OrderNotReady, RowType, NumberType, BoundType, rowVars,
       numberVars, boundVars
<1>12. ASSUME NEW j \in Jobs, AssociateProfile(j)
      PROVE  IInv'
  <2>1. /\ status[j] = "running" /\ job[j].task \in Tasks
        /\ job[j].of \in Requests
        /\ EndStep(j, phone[job[j].of], order[job[j].of])
    BY <1>12 DEF AssociateProfile, AtStep, HandlerOK, JobType, Tasks
  <2>2. /\ state' \in [Requests -> {"unused", "pending", "fulfilled"}]
        /\ live' \in [Stock -> Nat]
        /\ cached' \in {"unset", "no", "yes"}
        /\ JobType' /\ HandlerType' /\ HandlerOK'
    BY <2>1, EndStepType DEF RowType
  <2>. QED
    BY <1>12, <2>1, <2>2 DEF AssociateProfile, EndStep, RowType, NumberType,
       BoundType, boundVars
<1>13. ASSUME NEW j \in Jobs, AssociateCampaign(j)
      PROVE  IInv'
  <2>1. CASE job[j].of # None /\ job[j].campaign
    <3>1. /\ status[j] = "running" /\ job[j].task \in Tasks
          /\ job[j].of \in Requests
          /\ EndStep(j, phone[job[j].of], order[job[j].of])
      BY <1>13, <2>1 DEF AssociateCampaign, AtStep, HandlerOK, JobType, Tasks
    <3>2. /\ state' \in [Requests -> {"unused", "pending", "fulfilled"}]
          /\ live' \in [Stock -> Nat]
          /\ cached' \in {"unset", "no", "yes"}
          /\ JobType' /\ HandlerType' /\ HandlerOK'
      BY <3>1, EndStepType DEF RowType
    <3>. QED
      BY <1>13, <2>1, <3>1, <3>2 DEF AssociateCampaign, EndStep, RowType,
         NumberType, BoundType, boundVars
  <2>2. CASE ~(job[j].of # None /\ job[j].campaign)
    <3>1. JobType' /\ HandlerType' /\ HandlerOK'
      BY <1>13, <2>2, ThrowOK DEF AssociateCampaign, AtStep, HandlerOK
    <3>. QED
      BY <1>13, <2>2, <3>1 DEF AssociateCampaign, RowType, NumberType,
         BoundType, rowVars, numberVars, boundVars
  <2>. QED  BY <2>1, <2>2
<1>14. ASSUME NEW j \in Jobs, Complete(j)
      PROVE  IInv'
  <2>1. JobType'
    BY <1>14, PurchaseAssumption DEF Complete, NoJob, JobType, HandlerOK
  <2>2. HandlerOK'
    BY <1>14, PurchaseAssumption DEF Complete, NoJob, HandlerOK, JobType,
       HandlerType, Tasks, jobVars, handlerVars
  <2>3. RowType' /\ NumberType' /\ HandlerType' /\ BoundType'
    BY <1>14 DEF Complete, NoJob, RowType, NumberType, HandlerType,
       BoundType, rowVars, numberVars, jobVars, handlerVars, boundVars
  <2>. QED  BY <2>1, <2>2, <2>3
<1>15. ASSUME NEW j \in Jobs, Fail(j)
      PROVE  IInv'
  <2>1. JobType' /\ HandlerType' /\ HandlerOK'
    BY <1>15, ThrowOK DEF Fail
  <2>2. BoundType'
    BY <1>15, PurchaseAssumption DEF Fail, BoundType
  <2>. QED
    BY <1>15, <2>1, <2>2 DEF Fail, RowType, NumberType, rowVars, numberVars
<1>16. ASSUME NEW j \in Jobs, Crash(j)
      PROVE  IInv'
  <2>1. JobType' /\ HandlerType' /\ HandlerOK'
    BY <1>16, EndJob DEF Crash, LastAttempt
  <2>2. BoundType'
    BY <1>16, PurchaseAssumption DEF Crash, BoundType
  <2>. QED
    BY <1>16, <2>1, <2>2 DEF Crash, RowType, NumberType, rowVars, numberVars
<1>17. CASE AttachCampaign
  <2>1. CASE UNCHANGED jobVars
    <3>1. JobType' /\ HandlerOK'
      BY <1>17, <2>1 DEF AttachCampaign, JobType, HandlerOK, jobVars,
         handlerVars
    <3>2. NumberType'
      BY <1>17 DEF AttachCampaign, NumberType
    <3>. QED
      BY <1>17, <3>1, <3>2 DEF AttachCampaign, RowType, HandlerType, BoundType,
         rowVars, handlerVars, boundVars
  <2>2. ASSUME NEW n \in Stock,
               AddJob(status, [task |-> "associate-service-10dlc-campaign",
                               of |-> None, number |-> n, order |-> None,
                               campaign |-> TRUE])
        PROVE  IInv'
    <3>. DEFINE payload == [task |-> "associate-service-10dlc-campaign",
                            of |-> None, number |-> n, order |-> None,
                            campaign |-> TRUE]
    <3>1. payload \in [task : Tasks \cup {"none"}, of : Requests \cup {None},
                       number : Stock \cup {None},
                       order : Stock \cup {None, Failed}, campaign : BOOLEAN]
      BY DEF Tasks
    <3>2. status \in [Jobs -> {"free", "queued", "running", "committed",
                               "parked", "dead"}]
      BY DEF JobType
    <3>3. /\ JobType'
          /\ Fresh \in Jobs /\ status[Fresh] = "free"
          /\ status'[Fresh] = "queued" /\ job'[Fresh] = payload
          /\ attempts'[Fresh] = 0
          /\ \A k \in Jobs \ {Fresh} : /\ status'[k] = status[k]
                                      /\ job'[k] = job[k]
                                      /\ attempts'[k] = attempts[k]
      BY <2>2, <3>1, <3>2, AddJobType
    <3>4. HandlerOK'
      BY <1>17, <3>3, PurchaseAssumption DEF AttachCampaign, HandlerOK,
         handlerVars
    <3>5. NumberType'
      BY <1>17 DEF AttachCampaign, NumberType
    <3>. QED
      BY <1>17, <3>3, <3>4, <3>5 DEF AttachCampaign, RowType, HandlerType,
         BoundType, rowVars, handlerVars, boundVars
  <2>. QED  BY <1>17, <2>1, <2>2 DEF AttachCampaign
<1>18. CASE ExpireCache
  <2>1. NumberType'
    BY <1>18 DEF ExpireCache, NumberType, numberVars
  <2>2. RowType' /\ JobType' /\ HandlerType' /\ BoundType' /\ HandlerOK'
    BY <1>18 DEF ExpireCache, RowType, JobType, HandlerType, BoundType,
       HandlerOK, rowVars, numberVars, jobVars, handlerVars, boundVars
  <2>. QED  BY <2>1, <2>2
<1>19. CASE UNCHANGED vars
  BY <1>19 DEF vars, RowType, NumberType, JobType, HandlerType, BoundType,
     HandlerOK
<1>. QED
  BY <1>1, <1>2, <1>3, <1>4, <1>5, <1>6, <1>7, <1>8, <1>9, <1>10, <1>11,
     <1>12, <1>13, <1>14, <1>15, <1>16, <1>17, <1>18, <1>19 DEF Next,
     Purchase, Step

(* Every variable keeps the type its column, key or local has in the code,
   and no job is tried more than MaxAttempts times. *)
THEOREM TypeCorrect == Spec => []TypeOK
<1>1. IInv => TypeOK
  BY DEF IInv
<1>. QED  BY <1>1, InitIInv, NextIInv, PTL DEF Spec

-----------------------------------------------------------------------------
(* A pipeline is at a later step only when the earlier ones are done, and the
   profile of a campaign that was there from the start is never cached
   without it. *)
ChainOK ==
  /\ Campaign => profileCampaign /\ cached # "no"
  /\ \A j \in Jobs :
       /\ Service = "telnyx"
       /\ job[j].task = "associate-service-10dlc-campaign"
       /\ job[j].of \in Requests
       => profiled[job[j].of]

(* What EndStep leaves of ChainOK and StepsDone to check: the steps a
   completed or queued job relies on are done. *)
LEMMA EndStepChain ==
  ASSUME IInv, ChainOK, StepsDone, NEW j \in Jobs, NEW ph, NEW o,
         job[j].of \in Requests, job[j].task \in Tasks, EndStep(j, ph, o),
         \A r \in Requests : /\ profiled[r] => profiled'[r]
                             /\ attached[r] => attached'[r],
         job[j].task = "associate-service-profile" => profiled'[job[j].of],
         job[j].task = "associate-service-10dlc-campaign" =>
           attached'[job[j].of]
  PROVE  ChainOK' /\ StepsDone'
<1>. USE DEF IInv, TypeOK
<1>. DEFINE r == job[j].of
            is10dlc == CachedFlag = "yes"
            next == getNextAction(Service, is10dlc, job[j].task)
<1>1. Campaign => /\ is10dlc /\ cached' # "no" /\ profileCampaign'
  BY DEF ChainOK, EndStep, CachedFlag, Cache, NumberType
<1>2. Service = "telnyx" /\ next \in {"associate-service-10dlc-campaign",
                                      "complete-purchase"} => profiled'[r]
  BY DEF getNextAction, ChainOK, Tasks
<1>3. Campaign /\ next = "complete-purchase" => attached'[r]
  BY <1>1 DEF getNextAction
<1>4. StepsDone'
  <2>1. \A s \in Requests : state'[s] = "fulfilled" =>
          state[s] = "fulfilled" \/ (s = r /\ next = "complete-purchase")
    BY DEF EndStep, RowType
  <2>. QED  BY <1>2, <1>3, <2>1 DEF StepsDone
<1>5. ChainOK'
  <2>1. \A k \in Jobs : \/ job'[k] = job[k]
                        \/ job'[k].task = next /\ job'[k].of = r
    BY FreshFree DEF EndStep, AddJob, JobType
  <2>. QED  BY <1>1, <1>2, <2>1 DEF ChainOK
<1>. QED  BY <1>4, <1>5

(* With Telnyx, a number that messages may be sent from is on the messaging
   profile, and if the profile had a campaign from the start it is on the
   campaign, whatever crashes, repeats and failures there are. *)
THEOREM StepsComplete == Spec => []StepsDone
<1>1. Init => ChainOK /\ StepsDone
  BY DEF Init, ChainOK, StepsDone, NoJob
<1>2. IInv /\ ChainOK /\ StepsDone /\ [Next]_vars => ChainOK' /\ StepsDone'
  <2>. SUFFICES ASSUME IInv, ChainOK, StepsDone, [Next]_vars
                PROVE  ChainOK' /\ StepsDone'
    OBVIOUS
  <2>. USE DEF IInv, TypeOK
  <2>1. ASSUME NEW r \in Requests, CreateRequest(r)
        PROVE  ChainOK' /\ StepsDone'
    <3>1. StepsDone'
      BY <2>1 DEF CreateRequest, StepsDone, RowType
    <3>2. \A k \in Jobs : \/ job'[k] = job[k]
                          \/ job'[k].task = "purchase-number"
      BY <2>1, FreshFree DEF CreateRequest, AddJob, JobType
    <3>. QED  BY <2>1, <3>1, <3>2 DEF CreateRequest, ChainOK, numberVars
  <2>2. ASSUME NEW j \in Jobs,
               \/ Start(j) \/ GiveUp(j) \/ Candidate(j) \/ Claim(j)
               \/ CheckLive(j) \/ Order(j) \/ OrderNotReady(j) \/ Fail(j)
               \/ Crash(j)
        PROVE  ChainOK' /\ StepsDone'
    <3>1. UNCHANGED <<rowVars, profileCampaign, cached, job>>
      BY <2>2 DEF Start, GiveUp, Candidate, Claim, CheckLive, Order,
         OrderNotReady, Fail, Crash, numberVars, jobVars
    <3>. QED  BY <3>1 DEF ChainOK, StepsDone, rowVars
  <2>3. ASSUME NEW j \in Jobs, Search(j)
        PROVE  ChainOK' /\ StepsDone'
    BY <2>3 DEF Search, CachedFlag, Cache, ChainOK, StepsDone, rowVars,
       numberVars, jobVars, NumberType
  <2>4. ASSUME NEW j \in Jobs, Complete(j)
        PROVE  ChainOK' /\ StepsDone'
    <3>1. \A k \in Jobs : job'[k] = job[k] \/ job'[k].task = "none"
      BY <2>4 DEF Complete, NoJob, JobType
    <3>. QED
      BY <2>4, <3>1 DEF Complete, ChainOK, StepsDone, rowVars, numberVars
  <2>5. ASSUME NEW j \in Jobs, FinishPurchase(j)
        PROVE  ChainOK' /\ StepsDone'
    <3>1. /\ job[j].task = "purchase-number" /\ job[j].of \in Requests
          /\ EndStep(j, newPhone[j], newOrder[j])
          /\ UNCHANGED <<profiled, attached>>
      BY <2>5 DEF FinishPurchase, HandlerOK, Tasks
    <3>. QED  BY <3>1, EndStepChain DEF Tasks
  <2>6. ASSUME NEW j \in Jobs, PollNumberOrder(j)
        PROVE  ChainOK' /\ StepsDone'
    <3>1. /\ job[j].task = "poll-number-order" /\ job[j].of \in Requests
          /\ EndStep(j, phone[job[j].of], order[job[j].of])
          /\ UNCHANGED <<profiled, attached>>
      BY <2>6 DEF PollNumberOrder, AtStep, HandlerOK, Tasks
    <3>. QED  BY <3>1, EndStepChain DEF Tasks
  <2>7. ASSUME NEW j \in Jobs, AssociateProfile(j)
        PROVE  ChainOK' /\ StepsDone'
    <3>1. /\ job[j].task = "associate-service-profile"
          /\ job[j].of \in Requests
          /\ EndStep(j, phone[job[j].of], order[job[j].of])
          /\ profiled' = [profiled EXCEPT ![job[j].of] = TRUE]
          /\ UNCHANGED attached
      BY <2>7 DEF AssociateProfile, AtStep, HandlerOK, Tasks
    <3>. QED  BY <3>1, EndStepChain DEF Tasks, RowType
  <2>8. ASSUME NEW j \in Jobs, AssociateCampaign(j)
        PROVE  ChainOK' /\ StepsDone'
    <3>1. CASE job[j].of # None /\ job[j].campaign
      <4>1. /\ job[j].task = "associate-service-10dlc-campaign"
            /\ job[j].of \in Requests
            /\ EndStep(j, phone[job[j].of], order[job[j].of])
            /\ attached' = [attached EXCEPT ![job[j].of] = TRUE]
            /\ UNCHANGED profiled
        BY <2>8, <3>1 DEF AssociateCampaign, AtStep, JobType
      <4>. QED  BY <4>1, EndStepChain DEF Tasks, RowType
    <3>2. CASE ~(job[j].of # None /\ job[j].campaign)
      BY <2>8, <3>2 DEF AssociateCampaign, ChainOK, StepsDone, rowVars,
         numberVars
    <3>. QED  BY <3>1, <3>2
  <2>9. CASE AttachCampaign
    <3>1. \A k \in Jobs : job'[k] = job[k] \/ job'[k].of = None
      <4>1. CASE UNCHANGED jobVars
        BY <4>1 DEF jobVars
      <4>2. ASSUME NEW n \in Stock,
                   AddJob(status, [task |-> "associate-service-10dlc-campaign",
                                   of |-> None, number |-> n, order |-> None,
                                   campaign |-> TRUE])
            PROVE  \A k \in Jobs : job'[k] = job[k] \/ job'[k].of = None
        BY <4>2, FreshFree DEF AddJob, JobType
      <4>. QED  BY <2>9, <4>1, <4>2 DEF AttachCampaign
    <3>. QED
      BY <2>9, <3>1, PurchaseAssumption DEF AttachCampaign, ChainOK, StepsDone,
         rowVars
  <2>10. CASE ExpireCache
    BY <2>10 DEF ExpireCache, ChainOK, StepsDone, rowVars, numberVars, jobVars
  <2>11. CASE UNCHANGED vars
    BY <2>11 DEF vars, ChainOK, StepsDone
  <2>. QED
    BY <2>1, <2>2, <2>3, <2>4, <2>5, <2>6, <2>7, <2>8, <2>9, <2>10, <2>11
       DEF Next, Purchase, Step
<1>. QED  BY <1>1, <1>2, InitIInv, NextIInv, PTL DEF Spec

-----------------------------------------------------------------------------
(* Telnyx and Twilio sell a number once and confirm the sale at once, so the
   numbers in the rows, in open transactions and in use are all different:
   the inductive invariant behind the refinement of NumberPool. *)
Distinct ==
  /\ \A n \in Stock : live[n] > 0 => n \in owned
  /\ \A r \in Requests : phone[r] # None =>
       /\ phone[r] \in owned
       /\ state[r] # "fulfilled" => live[phone[r]] = 0
       /\ \A s \in Requests \ {r} : phone[s] # phone[r]
  /\ \A j \in Jobs : newPhone[j] # None =>
       /\ newPhone[j] \in owned
       /\ live[newPhone[j]] = 0
       /\ \A r \in Requests : phone[r] # newPhone[j]
       /\ \A k \in Jobs \ {j} : newPhone[k] # newPhone[j]
  /\ \A j \in Jobs :
       /\ job[j].task \in Tasks \ {"purchase-number"} /\ job[j].of \in Requests
            => phone[job[j].of] \in Stock
       /\ pc[j] # "claim"

(* Both parts of a step that does not fulfil a request. *)
PoolStep == Distinct' /\ [Pool!Next]_(Pool!pool)

(* A step that moves no number, and leaves a handler's uncommitted number
   alone or drops it, stutters. *)
LEMMA NoNumberMoves ==
  ASSUME IInv, Distinct, UNCHANGED <<state, live, phone, owned>>,
         \A j \in Jobs : newPhone'[j] \in {newPhone[j], None},
         \A j \in Jobs : job'[j].task \in Tasks \ {"purchase-number"} =>
           \/ job'[j] = job[j]
           \/ job'[j].of \notin Requests,
         \A j \in Jobs : pc'[j] # "claim"
  PROVE  PoolStep
<1>1. Distinct'
  <2>1. \A j \in Jobs : newPhone'[j] # None => newPhone'[j] = newPhone[j]
    OBVIOUS
  <2>2. \A j \in Jobs : newPhone'[j] # None =>
          /\ newPhone'[j] \in owned'
          /\ live'[newPhone'[j]] = 0
          /\ \A r \in Requests : phone'[r] # newPhone'[j]
          /\ \A k \in Jobs \ {j} : newPhone'[k] # newPhone'[j]
    BY <2>1 DEF Distinct
  <2>. QED  BY <2>2 DEF Distinct
<1>2. UNCHANGED Pool!pool
  BY DEF Pool!pool
<1>. QED  BY <1>1, <1>2 DEF PoolStep

(* The end of a step of the pipeline for request r, whose row then holds the
   number ph that this account owns and no other request or handler has. *)
LEMMA EndStepPool ==
  ASSUME IInv, Distinct, NEW j \in Jobs, NEW ph \in Stock, NEW o,
         job[j].of \in Requests, EndStep(j, ph, o), UNCHANGED owned,
         phone' = [phone EXCEPT ![job[j].of] = ph],
         ph \in owned,
         state[job[j].of] # "fulfilled" => live[ph] = 0,
         \A s \in Requests \ {job[j].of} : phone[s] # ph,
         \A k \in Jobs \ {j} : newPhone[k] # ph
  PROVE  PoolStep
<1>. DEFINE r == job[j].of
<1>. USE DEF IInv, TypeOK
<1>1. \/ /\ state' = state /\ live' = live
      \/ /\ state[r] = "pending"
         /\ state' = [state EXCEPT ![r] = "fulfilled"]
         /\ live' = [live EXCEPT ![ph] = 1]
  BY PurchaseAssumption DEF EndStep, FirstFulfilment, NumberType
<1>2. /\ newPhone'[j] = None /\ pc'[j] = "idle"
      /\ \A k \in Jobs \ {j} : newPhone'[k] = newPhone[k] /\ pc'[k] = pc[k]
  BY DEF EndStep, EndHandler, HandlerType
<1>3. \A s \in Requests : phone'[s] = IF s = r THEN ph ELSE phone[s]
  BY DEF RowType
<1>4. \A n \in Stock \ {ph} : live'[n] = live[n]
  BY <1>1 DEF NumberType
<1>5. \A s \in Requests : state'[s] # "fulfilled" =>
        state[s] # "fulfilled" /\ (s = r => live'[ph] = live[ph])
  BY <1>1 DEF RowType
<1>6. \A n \in Stock : live'[n] > 0 => n \in owned'
  BY <1>4 DEF Distinct
<1>7. \A s \in Requests : phone'[s] # None =>
        /\ phone'[s] \in owned'
        /\ state'[s] # "fulfilled" => live'[phone'[s]] = 0
        /\ \A t \in Requests \ {s} : phone'[t] # phone'[s]
  BY <1>3, <1>4, <1>5 DEF Distinct, RowType
<1>8. \A k \in Jobs : newPhone'[k] # None =>
        /\ newPhone'[k] \in owned'
        /\ live'[newPhone'[k]] = 0
        /\ \A s \in Requests : phone'[s] # newPhone'[k]
        /\ \A i \in Jobs \ {k} : newPhone'[i] # newPhone'[k]
  BY <1>2, <1>3, <1>4 DEF Distinct, HandlerType
<1>9. \A k \in Jobs :
        /\ job'[k].task \in Tasks \ {"purchase-number"}
           /\ job'[k].of \in Requests => phone'[job'[k].of] \in Stock
        /\ pc'[k] # "claim"
  <2>1. \A k \in Jobs : job'[k] = job[k] \/ job'[k].of = r
    BY FreshFree DEF EndStep, AddJob, JobType
  <2>. QED  BY <1>2, <1>3, <2>1 DEF Distinct
<1>10. Distinct'
  BY <1>6, <1>7, <1>8, <1>9 DEF Distinct
<1>11. [Pool!Next]_(Pool!pool)
  BY <1>1 DEF Pool!Next, Pool!Fulfil, Pool!pool
<1>. QED  BY <1>10, <1>11 DEF PoolStep

(* With a telco that confirms a sale at once, each request gets at most one
   number and no number is made live twice, however many requests compete and
   however often crashed steps are run again. *)
THEOREM PurchaseRefinesPool ==
  ASSUME Service # "bandwidth"
  PROVE  Spec => ImplementsPool
<1>1. Init => Distinct /\ Pool!Init
  BY DEF Init, Distinct, NoJob, Tasks, Pool!Init
<1>2. IInv /\ Distinct /\ [Next]_vars => PoolStep
  <2>. SUFFICES ASSUME IInv, Distinct, [Next]_vars
                PROVE  PoolStep
    OBVIOUS
  <2>. USE DEF IInv, TypeOK
  <2>1. ASSUME NEW r \in Requests, CreateRequest(r)
        PROVE  PoolStep
    <3>1. \A k \in Jobs : \/ job'[k] = job[k]
                          \/ job'[k].task = "purchase-number"
      BY <2>1, FreshFree DEF CreateRequest, AddJob, JobType
    <3>2. /\ state[r] = "unused"
          /\ state' = [state EXCEPT ![r] = "pending"]
          /\ UNCHANGED <<live, phone, owned, newPhone, pc>>
      BY <2>1 DEF CreateRequest, numberVars, handlerVars
    <3>3. [Pool!Next]_(Pool!pool)
      BY <3>2 DEF Pool!Next, Pool!Ask
    <3>4. Distinct'
      BY <3>1, <3>2 DEF Distinct, RowType
    <3>. QED  BY <3>3, <3>4 DEF PoolStep
  <2>2. ASSUME NEW j \in Jobs, Start(j) \/ Search(j) \/ Candidate(j) \/ CheckLive(j)
        PROVE  PoolStep
    <3>1. /\ UNCHANGED <<state, live, phone, owned, newPhone, job>>
          /\ \A k \in Jobs : pc'[k] # "claim"
      BY <2>2 DEF Start, Search, Candidate, CheckLive, rowVars, numberVars,
         jobVars, HandlerType, Distinct
    <3>. QED  BY <3>1, NoNumberMoves
  <2>3. ASSUME NEW j \in Jobs, GiveUp(j) \/ OrderNotReady(j) \/ Fail(j) \/ Crash(j)
        PROVE  PoolStep
    <3>1. /\ UNCHANGED <<state, live, phone, owned, job>>
          /\ \A k \in Jobs : newPhone'[k] \in {newPhone[k], None}
          /\ \A k \in Jobs : pc'[k] # "claim"
      BY <2>3 DEF GiveUp, OrderNotReady, Fail, Crash, Exhausted, Throw,
         EndHandler, rowVars, numberVars, HandlerType, Distinct
    <3>. QED  BY <3>1, NoNumberMoves
  <2>4. ASSUME NEW j \in Jobs, Claim(j)
        PROVE  PoolStep
    BY <2>4 DEF Claim, Distinct
  <2>5. ASSUME NEW j \in Jobs, Order(j)
        PROVE  PoolStep
    <3>1. ASSUME NEW n \in Stock \ owned, Buy(j, n)
          PROVE  PoolStep
      <4>1. /\ UNCHANGED <<state, live, phone, job>>
            /\ owned' = owned \cup {n}
            /\ newPhone'[j] = n
            /\ \A k \in Jobs \ {j} : newPhone'[k] = newPhone[k]
            /\ \A k \in Jobs : pc'[k] # "claim"
        BY <2>5, <3>1 DEF Order, Buy, AfterOrder, rowVars, numberVars,
           HandlerType, Distinct
      <4>2. live[n] = 0
        BY DEF Distinct, NumberType
      <4>3. Distinct'
        BY <4>1, <4>2, PurchaseAssumption DEF Distinct
      <4>. QED  BY <4>1, <4>3 DEF PoolStep, Pool!pool
    <3>2. CASE ~\E n \in Stock \ owned : Buy(j, n)
      <4>1. cand[j] \in Stock \/ Service = "twilio"
        BY <2>5 DEF Order, HandlerOK
      <4>2. /\ UNCHANGED <<state, live, phone, owned, job>>
            /\ \A k \in Jobs : newPhone'[k] \in {newPhone[k], None}
            /\ \A k \in Jobs : pc'[k] # "claim"
        BY <2>5, <3>2, <4>1, Service # "bandwidth" DEF Order, Exhausted, Throw,
           EndHandler, rowVars, numberVars, HandlerType, Distinct
      <4>. QED  BY <4>2, NoNumberMoves
    <3>. QED  BY <3>1, <3>2
  <2>6. ASSUME NEW j \in Jobs, FinishPurchase(j)
        PROVE  PoolStep
    <3>1. /\ job[j].of \in Requests /\ newPhone[j] \in Stock
          /\ EndStep(j, newPhone[j], newOrder[j]) /\ UNCHANGED owned
          /\ phone' = [phone EXCEPT ![job[j].of] = newPhone[j]]
      BY <2>6 DEF FinishPurchase, HandlerOK, Tasks
    <3>2. newPhone[j] # None
      BY <3>1, PurchaseAssumption
    <3>3. /\ newPhone[j] \in owned /\ live[newPhone[j]] = 0
          /\ \A s \in Requests : phone[s] # newPhone[j]
          /\ \A k \in Jobs \ {j} : newPhone[k] # newPhone[j]
      BY <3>2 DEF Distinct
    <3>. QED  BY <3>1, <3>3, EndStepPool
  <2>7. ASSUME NEW j \in Jobs,
               PollNumberOrder(j) \/ AssociateProfile(j) \/ AssociateCampaign(j)
        PROVE  PoolStep
    <3>1. CASE job[j].of \in Requests
               /\ EndStep(j, phone[job[j].of], order[job[j].of])
      <4>1. phone[job[j].of] \in Stock
        BY <2>7, <3>1 DEF PollNumberOrder, AssociateProfile, AssociateCampaign,
           AtStep, Distinct, Tasks
      <4>2. UNCHANGED <<phone, owned>>
        BY <2>7 DEF PollNumberOrder, AssociateProfile, AssociateCampaign,
           rowVars
      <4>3. phone' = [phone EXCEPT ![job[j].of] = phone[job[j].of]]
        BY <4>2 DEF RowType
      <4>4. phone[job[j].of] # None
        BY <4>1, PurchaseAssumption
      <4>5. /\ phone[job[j].of] \in owned
            /\ state[job[j].of] # "fulfilled" => live[phone[job[j].of]] = 0
            /\ \A s \in Requests \ {job[j].of} : phone[s] # phone[job[j].of]
            /\ \A k \in Jobs \ {j} : newPhone[k] # phone[job[j].of]
        BY <3>1, <4>4 DEF Distinct
      <4>. QED  BY <3>1, <4>1, <4>2, <4>3, <4>5, EndStepPool
    <3>2. CASE ~(job[j].of \in Requests
                 /\ EndStep(j, phone[job[j].of], order[job[j].of]))
      <4>1. AssociateCampaign(j) /\ Throw(j)
        BY <2>7, <3>2 DEF PollNumberOrder, AssociateProfile, AssociateCampaign,
           AtStep, HandlerOK, JobType, Tasks
      <4>2. /\ UNCHANGED <<state, live, phone, owned, job>>
            /\ \A k \in Jobs : newPhone'[k] \in {newPhone[k], None}
            /\ \A k \in Jobs : pc'[k] # "claim"
        BY <3>2, <4>1 DEF AssociateCampaign, AtStep, HandlerOK, JobType, Throw,
           EndHandler, rowVars, numberVars, HandlerType, Distinct
      <4>. QED  BY <4>2, NoNumberMoves
    <3>. QED  BY <3>1, <3>2
  <2>8. ASSUME NEW j \in Jobs, Complete(j)
        PROVE  PoolStep
    <3>1. \A k \in Jobs : job'[k] = job[k] \/ job'[k].task = "none"
      BY <2>8 DEF Complete, NoJob, JobType
    <3>2. UNCHANGED <<state, live, phone, owned, newPhone, pc>>
      BY <2>8 DEF Complete, rowVars, numberVars, handlerVars
    <3>. QED  BY <3>1, <3>2, NoNumberMoves DEF Distinct, Tasks
  <2>9. CASE AttachCampaign
    <3>1. \A k \in Jobs : job'[k] = job[k] \/ job'[k].of = None
      <4>1. CASE UNCHANGED jobVars
        BY <4>1 DEF jobVars
      <4>2. ASSUME NEW n \in Stock,
                   AddJob(status, [task |-> "associate-service-10dlc-campaign",
                                   of |-> None, number |-> n, order |-> None,
                                   campaign |-> TRUE])
            PROVE  \A k \in Jobs : job'[k] = job[k] \/ job'[k].of = None
        BY <4>2, FreshFree DEF AddJob, JobType
      <4>. QED  BY <2>9, <4>1, <4>2 DEF AttachCampaign
    <3>2. UNCHANGED <<state, live, phone, owned, newPhone, pc>>
      BY <2>9 DEF AttachCampaign, rowVars, handlerVars
    <3>. QED  BY <3>1, <3>2, NoNumberMoves, PurchaseAssumption DEF Distinct
  <2>10. CASE ExpireCache \/ UNCHANGED vars
    <3>1. UNCHANGED <<state, live, phone, owned, newPhone, pc, job>>
      BY <2>10 DEF ExpireCache, vars, rowVars, numberVars, jobVars, handlerVars
    <3>. QED  BY <3>1, NoNumberMoves DEF Distinct
  <2>. QED
    BY <2>1, <2>2, <2>3, <2>4, <2>5, <2>6, <2>7, <2>8, <2>9, <2>10
       DEF Next, Purchase, Step
<1>3. PoolStep => Distinct' /\ [Pool!Next]_(Pool!pool)
  BY DEF PoolStep
<1>. QED
  BY <1>1, <1>2, <1>3, InitIInv, NextIInv, PTL DEF Spec, ImplementsPool, Pool!Spec
-----------------------------------------------------------------------------
(* A handler has an order only between the sale and its commit, and with
   Bandwidth it holds its claim from the write of the row on. *)
Buying(j) ==
  /\ newOrder[j] # None => pc[j] = "finish"
  /\ pc[j] = "finish" => /\ newOrder[j] \in {newPhone[j], Failed}
                         /\ newOrder[j] = Failed => Service = "bandwidth"
  /\ Service = "bandwidth" /\ newPhone[j] # None =>
       pc[j] \in {"check", "order", "finish"} /\ newPhone[j] = cand[j]
  /\ pc[j] = "claim" => Service = "bandwidth"

Handlers ==
  \A j \in Jobs : Buying(j) /\ (status[j] = "free" => job[j].of = None)

(* While no worker crashed, a request in flight has one job, and no other
   request has any. *)
OneJob ==
  \A r \in Requests :
    IF state[r] = "pending" THEN \E j \in Jobs : JobsOf(r) = {j}
                            ELSE JobsOf(r) = {}

(* The row of a request says how far its job is. *)
RowOfJob(j) ==
  LET r == job[j].of IN
  r \in Requests /\ status[j] # "committed" =>
    IF job[j].task = "purchase-number"
    THEN phone[r] = None /\ order[r] = None
    ELSE /\ phone[r] \in Stock /\ order[r] = job[j].order
         /\ order[r] \in {phone[r], Failed}
         /\ order[r] = Failed => /\ Service = "bandwidth"
                                 /\ job[j].task = "poll-number-order"

RowOfRequest(r) ==
  /\ state[r] = "unused" => phone[r] = None /\ order[r] = None
  /\ state[r] = "fulfilled" =>
       phone[r] \in Stock /\ order[r] = phone[r] /\ live[phone[r]] > 0

Rows == (\A j \in Jobs : RowOfJob(j)) /\ (\A r \in Requests : RowOfRequest(r))

(* A number is sold for one order, which makes it live at most once. *)
Sold ==
  /\ \A r \in Requests : order[r] \in Stock =>
       /\ order[r] \in owned
       /\ state[r] # "fulfilled" => live[order[r]] = 0
       /\ \A s \in Requests \ {r} : order[s] # order[r]
  /\ \A j \in Jobs : newOrder[j] \in Stock =>
       /\ newOrder[j] \in owned /\ live[newOrder[j]] = 0
       /\ \A r \in Requests : order[r] # newOrder[j]
       /\ \A k \in Jobs \ {j} : newOrder[k] # newOrder[j]
  /\ \A n \in Stock : live[n] > 0 => n \in owned
  /\ LiveOnce

(* Bandwidth: a number a transaction has claimed is in no other transaction
   and in no row of another request in flight. *)
Claims ==
  Service = "bandwidth" => \A j \in Jobs : newPhone[j] # None =>
    /\ \A k \in Jobs \ {j} : newPhone[k] # newPhone[j]
    /\ \A s \in Requests \ {job[j].of} :
         state[s] = "pending" => phone[s] # newPhone[j]

(* Every number that was paid for is in a row or about to be, so an order
   that fails is for a number that is live. *)
Known ==
  /\ NothingOrphaned
  /\ ClaimsExclude
  /\ \A j \in Jobs : newOrder[j] = Failed => live[newPhone[j]] > 0

(* While no worker has crashed, all of the invariant but the handlers'. *)
Chained == OneJob /\ Rows /\ Sold /\ Claims /\ (errors = 0 => Known)

PurchaseInv == Handlers /\ (crashes = 0 => Chained)

(* A request that has a job at work is pending and has no other. *)
LEMMA JobAtWork ==
  ASSUME IInv, OneJob, NEW j \in Jobs, job[j].of \in Requests,
         status[j] # "committed"
  PROVE  state[job[j].of] = "pending" /\ JobsOf(job[j].of) = {j}
<1>1. j \in JobsOf(job[j].of)
  BY DEF JobsOf
<1>. QED  BY <1>1 DEF OneJob

(* Bandwidth: only a running purchase-number holds a claim. *)
LEMMA ClaimerAtWork ==
  ASSUME IInv, Handlers, Service = "bandwidth", NEW j \in Jobs,
         newPhone[j] # None
  PROVE  status[j] = "running" /\ job[j].of \in Requests
<1>1. pc[j] \in {"check", "order", "finish"}
  BY DEF Handlers, Buying
<1>. QED  BY <1>1 DEF IInv, HandlerOK, Tasks

(* Every step leaves the locals of the handlers in order. *)
LEMMA HandlersStep == IInv /\ Handlers /\ [Next]_vars => Handlers'
<1>. SUFFICES ASSUME IInv, Handlers, [Next]_vars
              PROVE  Handlers'
  OBVIOUS
<1>. USE DEF IInv, TypeOK
<1>1. ASSUME UNCHANGED handlerVars,
             \A k \in Jobs : status'[k] = "free" => job'[k].of = None
      PROVE  Handlers'
  BY <1>1 DEF Handlers, Buying, handlerVars
<1>2. ASSUME NEW j \in Jobs, status[j] # "free",
             UNCHANGED job,
             \A k \in Jobs \ {j} : status'[k] = status[k],
             status'[j] # "free", Buying(j)',
             \A k \in Jobs \ {j} : /\ pc'[k] = pc[k]
                                   /\ cand'[k] = cand[k]
                                   /\ newPhone'[k] = newPhone[k]
                                   /\ newOrder'[k] = newOrder[k]
      PROVE  Handlers'
  BY <1>2 DEF Handlers, Buying
<1>3. ASSUME NEW j \in Jobs, EndHandler(j)
      PROVE  /\ Buying(j)'
             /\ \A k \in Jobs \ {j} : /\ pc'[k] = pc[k]
                                      /\ cand'[k] = cand[k]
                                      /\ newPhone'[k] = newPhone[k]
                                      /\ newOrder'[k] = newOrder[k]
  BY <1>3 DEF EndHandler, HandlerType, Buying
<1>4. ASSUME NEW j \in Jobs, status[j] # "free", UNCHANGED job, EndHandler(j),
             NEW s \in {"queued", "parked", "dead", "committed"},
             status' = [status EXCEPT ![j] = s]
      PROVE  Handlers'
  BY <1>2, <1>3, <1>4 DEF JobType
<1>5. ASSUME NEW j \in Jobs, status[j] # "free", UNCHANGED job, Throw(j)
      PROVE  Handlers'
  BY <1>4, <1>5 DEF Throw
<1>6. ASSUME NEW j \in Jobs, NEW ph, NEW o, EndStep(j, ph, o),
             status[j] = "running"
      PROVE  Handlers'
  <2>1. /\ Buying(j)'
        /\ \A k \in Jobs \ {j} : Buying(k)'
    BY <1>3, <1>6 DEF EndStep, Handlers, Buying
  <2>2. \A k \in Jobs : status'[k] = "free" => job'[k].of = None
    <3>1. CASE UNCHANGED <<job, attempts>>
               /\ status' = [status EXCEPT ![j] = "committed"]
      BY <3>1 DEF JobType, Handlers
    <3>2. ASSUME NEW p, AddJob([status EXCEPT ![j] = "committed"], p)
          PROVE  \A k \in Jobs : status'[k] = "free" => job'[k].of = None
      BY <3>2, FreshFree DEF AddJob, JobType, Handlers
    <3>. QED  BY <1>6, <3>1, <3>2 DEF EndStep
  <2>. QED  BY <2>1, <2>2 DEF Handlers
<1>7. ASSUME NEW r \in Requests, CreateRequest(r)
      PROVE  Handlers'
  <2>1. \A k \in Jobs : status'[k] = "free" => job'[k].of = None
    BY <1>7, FreshFree DEF CreateRequest, AddJob, JobType, Handlers
  <2>. QED  BY <1>1, <1>7, <2>1 DEF CreateRequest
<1>8. ASSUME NEW j \in Jobs, Start(j)
      PROVE  Handlers'
  <2>1. pc[j] = "idle"
    BY <1>8 DEF Start, HandlerOK
  <2>2. Buying(j)'
    BY <1>8, <2>1 DEF Start, Handlers, Buying, HandlerType
  <2>. QED
    BY <1>2, <1>8, <2>2 DEF Start, JobType, HandlerType
<1>9. ASSUME NEW j \in Jobs, Search(j) \/ Candidate(j) \/ Claim(j) \/ CheckLive(j)
      PROVE  Handlers'
  <2>1. status[j] = "running" /\ UNCHANGED <<job, status>>
    BY <1>9 DEF Search, Candidate, Claim, CheckLive, HandlerOK, jobVars
  <2>2. \A k \in Jobs \ {j} : /\ pc'[k] = pc[k]
                              /\ cand'[k] = cand[k]
                              /\ newPhone'[k] = newPhone[k]
                              /\ newOrder'[k] = newOrder[k]
    BY <1>9 DEF Search, Candidate, Claim, CheckLive, HandlerType
  <2>3. Buying(j)'
    <3>1. CASE Search(j)
      BY <3>1 DEF Search, Handlers, Buying, HandlerType
    <3>2. CASE Candidate(j)
      BY <3>2 DEF Candidate, Handlers, Buying, HandlerType
    <3>3. CASE Claim(j)
      BY <3>3 DEF Claim, Handlers, Buying, HandlerType
    <3>4. CASE CheckLive(j)
      BY <3>4 DEF CheckLive, doesLivePhoneNumberExist, Handlers, Buying,
         HandlerType
    <3>. QED  BY <1>9, <3>1, <3>2, <3>3, <3>4
  <2>. QED  BY <1>2, <2>1, <2>2, <2>3
<1>10. ASSUME NEW j \in Jobs, Exhausted(j), UNCHANGED job,
              pc[j] = "next" \/ (pc[j] = "order" /\ Service = "twilio")
       PROVE  Handlers'
  <2>1. status[j] = "running"
    BY <1>10 DEF HandlerOK
  <2>2. CASE Throw(j)
    BY <1>5, <1>10, <2>1, <2>2
  <2>3. CASE ~Throw(j)
    <3>1. /\ pc' = [pc EXCEPT ![j] = "search"]
          /\ UNCHANGED <<status, cand, newPhone, newOrder>>
      BY <1>10, <2>3 DEF Exhausted
    <3>2. Buying(j)'
      BY <1>10, <3>1 DEF Handlers, Buying, HandlerType
    <3>. QED  BY <1>2, <1>10, <2>1, <3>1, <3>2 DEF HandlerType
  <2>. QED  BY <2>2, <2>3
<1>11. ASSUME NEW j \in Jobs, GiveUp(j)
       PROVE  Handlers'
  BY <1>10, <1>11 DEF GiveUp
<1>12. ASSUME NEW j \in Jobs, Order(j)
       PROVE  Handlers'
  <2>1. status[j] = "running" /\ UNCHANGED job
    BY <1>12 DEF Order, HandlerOK
  <2>2. ASSUME NEW n \in Stock, Buy(j, n),
               Service = "bandwidth" => n = cand[j]
        PROVE  Handlers'
    <3>1. Buying(j)'
      BY <2>2, PurchaseAssumption DEF Buy, AfterOrder, Handlers, Buying,
         HandlerType
    <3>. QED  BY <1>2, <2>1, <2>2, <3>1 DEF Buy, HandlerType
  <2>3. CASE /\ Service = "bandwidth"
             /\ newOrder' = [newOrder EXCEPT ![j] = Failed]
             /\ pc' = [pc EXCEPT ![j] = "finish"]
             /\ UNCHANGED <<status, cand, newPhone>>
    <3>1. Buying(j)'
      BY <1>12, <2>3 DEF Order, Handlers, Buying, HandlerType
    <3>. QED  BY <1>2, <2>1, <2>3, <3>1 DEF HandlerType
  <2>4. CASE /\ Service = "telnyx"
             /\ pc' = [pc EXCEPT ![j] = "next"]
             /\ UNCHANGED <<status, cand, newPhone, newOrder>>
    <3>1. Buying(j)'
      BY <1>12, <2>4 DEF Order, Handlers, Buying, HandlerType
    <3>. QED  BY <1>2, <2>1, <2>4, <3>1 DEF HandlerType
  <2>5. CASE Service = "twilio" /\ Exhausted(j)
    BY <1>10, <1>12, <2>5 DEF Order
  <2>6. Service # "twilio" => cand[j] \in Stock
    BY <1>12 DEF Order, HandlerOK
  <2>. QED
    BY <1>12, <2>2, <2>3, <2>4, <2>5, <2>6 DEF Order
<1>13. ASSUME NEW j \in Jobs,
              FinishPurchase(j) \/ PollNumberOrder(j) \/ AssociateProfile(j)
              \/ AssociateCampaign(j) \/ OrderNotReady(j)
       PROVE  Handlers'
  <2>1. status[j] = "running"
    BY <1>13 DEF FinishPurchase, PollNumberOrder, AssociateProfile,
       AssociateCampaign, OrderNotReady, AtStep, HandlerOK
  <2>2. \/ \E ph, o : EndStep(j, ph, o)
        \/ Throw(j) /\ UNCHANGED job
    BY <1>13 DEF FinishPurchase, PollNumberOrder, AssociateProfile,
       AssociateCampaign, OrderNotReady
  <2>. QED  BY <1>5, <1>6, <2>1, <2>2
<1>14. ASSUME NEW j \in Jobs, Complete(j)
       PROVE  Handlers'
  <2>1. \A k \in Jobs : status'[k] = "free" => job'[k].of = None
    BY <1>14 DEF Complete, NoJob, JobType, Handlers
  <2>. QED  BY <1>1, <1>14, <2>1 DEF Complete
<1>15. ASSUME NEW j \in Jobs, Fail(j) \/ Crash(j)
       PROVE  Handlers'
  BY <1>4, <1>5, <1>15 DEF Fail, Crash
<1>16. CASE AttachCampaign
  <2>1. \A k \in Jobs : status'[k] = "free" => job'[k].of = None
    BY <1>16, FreshFree DEF AttachCampaign, AddJob, JobType, Handlers, jobVars
  <2>. QED  BY <1>1, <1>16, <2>1 DEF AttachCampaign
<1>17. CASE ExpireCache \/ UNCHANGED vars
  BY <1>1, <1>17 DEF ExpireCache, vars, handlerVars, jobVars, Handlers
<1>. QED
  BY <1>7, <1>8, <1>9, <1>11, <1>12, <1>13, <1>14, <1>15, <1>16, <1>17
     DEF Next, Purchase, Step

(* A step that writes no row, and lets a handler at most lose what it wrote,
   leaves the chains of the requests as they were. *)
LEMMA QuietStep ==
  ASSUME IInv, IInv', Handlers, Chained,
         UNCHANGED <<state, live, phone, order, owned>>,
         \A k \in Jobs :
           \/ /\ job'[k] = job[k]
              /\ status'[k] = "committed" <=> status[k] = "committed"
           \/ /\ job'[k].of \notin Requests
              /\ job[k].of \in Requests => status[k] = "committed"
              /\ status[k] # "running",
         \A k \in Jobs :
           \/ newPhone'[k] = newPhone[k] /\ newOrder'[k] = newOrder[k]
           \/ /\ newPhone'[k] = None /\ newOrder'[k] = None
              /\ errors' = 0 => newOrder[k] = None,
         errors' = 0 => errors = 0, crashes = 0
  PROVE  Chained'
<1>. USE DEF IInv, TypeOK
<1>1. \A r \in Requests : JobsOf(r)' = JobsOf(r)
  BY DEF JobsOf
<1>2. OneJob'
  BY <1>1 DEF Chained, OneJob
<1>3. Rows'
  <2>1. \A k \in Jobs : RowOfJob(k)'
    BY DEF Chained, Rows, RowOfJob
  <2>2. \A r \in Requests : RowOfRequest(r)'
    BY DEF Chained, Rows, RowOfRequest
  <2>. QED  BY <2>1, <2>2 DEF Rows
<1>4. \A k \in Jobs : newOrder'[k] \in Stock => newOrder'[k] = newOrder[k]
  BY PurchaseAssumption
<1>5. Sold'
  <2>1. \A k \in Jobs : newOrder'[k] \in Stock =>
          /\ newOrder'[k] \in owned' /\ live'[newOrder'[k]] = 0
          /\ \A r \in Requests : order'[r] # newOrder'[k]
          /\ \A i \in Jobs \ {k} : newOrder'[i] # newOrder'[k]
    BY <1>4 DEF Chained, Sold
  <2>2. \A r \in Requests : order'[r] \in Stock =>
          /\ order'[r] \in owned'
          /\ state'[r] # "fulfilled" => live'[order'[r]] = 0
          /\ \A s \in Requests \ {r} : order'[s] # order'[r]
    BY DEF Chained, Sold
  <2>3. (\A n \in Stock : live'[n] > 0 => n \in owned') /\ LiveOnce'
    BY DEF Chained, Sold, LiveOnce
  <2>. QED  BY <2>1, <2>2, <2>3 DEF Sold
<1>6. Claims'
  <2>. SUFFICES ASSUME Service = "bandwidth", NEW k \in Jobs,
                       newPhone'[k] # None
                PROVE  /\ \A i \in Jobs \ {k} : newPhone'[i] # newPhone'[k]
                       /\ \A s \in Requests \ {job'[k].of} :
                            state'[s] = "pending" => phone'[s] # newPhone'[k]
    BY DEF Claims
  <2>1. newPhone'[k] = newPhone[k]
    OBVIOUS
  <2>2. status[k] = "running"
    BY <2>1, ClaimerAtWork
  <2>3. job'[k] = job[k]
    BY <2>2
  <2>. QED  BY <2>1, <2>3 DEF Chained, Claims
<1>7. ASSUME errors' = 0 PROVE Known'
  <2>1. Known
    BY <1>7 DEF Chained
  <2>2. \A k \in Jobs : newOrder[k] # None =>
          newPhone'[k] = newPhone[k] /\ newOrder'[k] = newOrder[k]
    BY <1>7
  <2>3. NothingOrphaned'
    BY <1>7, <2>1, <2>2, PurchaseAssumption DEF Known, NothingOrphaned
  <2>4. ClaimsExclude'
    BY <2>1 DEF Known, ClaimsExclude
  <2>5. \A k \in Jobs : newOrder'[k] = Failed => live'[newPhone'[k]] > 0
    BY <2>1, <2>2, PurchaseAssumption DEF Known
  <2>. QED  BY <2>3, <2>4, <2>5 DEF Known
<1>. QED  BY <1>2, <1>3, <1>5, <1>6, <1>7 DEF Chained

(* A row whose order failed has the number it was for. *)
LEMMA FailedRow ==
  ASSUME OneJob, Rows, RowType, NEW r \in Requests, order[r] = Failed
  PROVE  phone[r] \in Stock
<1>1. CASE state[r] = "pending"
  <2>1. PICK j \in Jobs : j \in JobsOf(r)
    BY <1>1 DEF OneJob
  <2>. QED
    BY <2>1, PurchaseAssumption DEF JobsOf, Rows, RowOfJob
<1>2. CASE state[r] # "pending"
  BY <1>2, PurchaseAssumption DEF Rows, RowOfRequest, RowType
<1>. QED  BY <1>1, <1>2

(* The end of a step of the pipeline, whose row then holds the number ph and
   its order o: the request has its next job, or is fulfilled and has none. *)
LEMMA EndStepChained ==
  ASSUME IInv, IInv', Handlers, Chained, crashes = 0, NEW j \in Jobs,
         status[j] = "running", job[j].of \in Requests, job[j].task \in Tasks,
         NEW ph \in Stock, NEW o \in {ph, Failed}, EndStep(j, ph, o),
         phone' = [phone EXCEPT ![job[j].of] = ph],
         order' = [order EXCEPT ![job[j].of] = o],
         UNCHANGED owned,
         phone[job[j].of] \in {None, ph}, order[job[j].of] \in {None, o},
         newOrder[j] = None \/ (newOrder[j] = o /\ newPhone[j] = ph),
         o = Failed => /\ Service = "bandwidth"
                       /\ job[j].task = "purchase-number"
                       /\ errors = 0 => live[ph] > 0,
         o = ph => /\ ph \in owned /\ live[ph] = 0
                   /\ \A s \in Requests \ {job[j].of} : order[s] # ph
                   /\ \A k \in Jobs \ {j} : newOrder[k] # ph,
         Service = "bandwidth" => \A k \in Jobs \ {j} : newPhone[k] # ph
  PROVE  Chained'
<1>. USE DEF IInv, TypeOK
<1>. DEFINE r == job[j].of
            next == getNextAction(Service, CachedFlag = "yes", job[j].task)
<1>1. state[r] = "pending" /\ JobsOf(r) = {j}
  BY JobAtWork DEF Chained
<1>2. next # "purchase-number"
  BY DEF getNextAction
<1>3. o = Failed => next = "poll-number-order"
  BY DEF getNextAction
<1>4. /\ newPhone'[j] = None /\ newOrder'[j] = None
      /\ \A k \in Jobs \ {j} : /\ newPhone'[k] = newPhone[k]
                               /\ newOrder'[k] = newOrder[k]
  BY DEF EndStep, EndHandler, HandlerType
<1>5. /\ phone'[r] = ph /\ order'[r] = o
      /\ \A s \in Requests \ {r} : phone'[s] = phone[s] /\ order'[s] = order[s]
  BY DEF RowType
<1>6. UNCHANGED <<errors, crashes>>
  BY DEF EndStep, boundVars
<1>7. CASE QueuesNext(next)
  <2>1. UNCHANGED <<state, live>>
    BY <1>7 DEF EndStep, QueuesNext
  <2>2. /\ Fresh \in Jobs /\ status[Fresh] = "free" /\ Fresh # j
        /\ status'[Fresh] = "queued" /\ status'[j] = "committed"
        /\ job'[Fresh].task = next /\ job'[Fresh].of = r
        /\ job'[Fresh].order = o
        /\ \A k \in Jobs \ {Fresh} : job'[k] = job[k]
        /\ \A k \in Jobs \ {Fresh, j} : status'[k] = status[k]
    BY <1>7, FreshFree DEF EndStep, AddJob, JobType
  <2>. HIDE DEF next
  <2>3. JobsOf(r)' = {Fresh}
    BY <1>1, <2>2 DEF JobsOf
  <2>4. job[Fresh].of = None
    BY <2>2 DEF Handlers
  <2>5. \A s \in Requests \ {r} : JobsOf(s)' = JobsOf(s)
    BY <2>2, <2>4, PurchaseAssumption DEF JobsOf
  <2>6. OneJob'
    <3>1. ASSUME NEW s \in Requests
          PROVE  IF state'[s] = "pending" THEN \E i \in Jobs : JobsOf(s)' = {i}
                                          ELSE JobsOf(s)' = {}
      BY <1>1, <2>1, <2>2, <2>3, <2>5 DEF Chained, OneJob
    <3>. QED  BY <3>1 DEF OneJob
  <2>7. Rows'
    <3>1. ASSUME NEW k \in Jobs PROVE RowOfJob(k)'
      <4>1. CASE k = Fresh
        BY <4>1, <1>2, <1>3, <1>5, <2>2 DEF RowOfJob
      <4>2. CASE k = j
        BY <4>2, <2>2 DEF RowOfJob
      <4>3. CASE k # Fresh /\ k # j
        <5>1. job[k].of = r => status[k] = "committed"
          BY <4>3, <1>1 DEF JobsOf
        <5>. QED
          BY <4>3, <5>1, <1>5, <2>2 DEF RowOfJob, Chained, Rows
      <4>. QED  BY <4>1, <4>2, <4>3
    <3>2. ASSUME NEW s \in Requests PROVE RowOfRequest(s)'
      BY <1>1, <1>5, <2>1 DEF RowOfRequest, Chained, Rows
    <3>. QED  BY <3>1, <3>2 DEF Rows
  <2>8. Sold'
    <3>1. ASSUME NEW s \in Requests, order'[s] \in Stock
          PROVE  /\ order'[s] \in owned'
                 /\ state'[s] # "fulfilled" => live'[order'[s]] = 0
                 /\ \A t \in Requests \ {s} : order'[t] # order'[s]
      BY <3>1, <1>5, <2>1, PurchaseAssumption DEF Chained, Sold
    <3>2. ASSUME NEW k \in Jobs, newOrder'[k] \in Stock
          PROVE  /\ newOrder'[k] \in owned' /\ live'[newOrder'[k]] = 0
                 /\ \A s \in Requests : order'[s] # newOrder'[k]
                 /\ \A i \in Jobs \ {k} : newOrder'[i] # newOrder'[k]
      BY <3>2, <1>4, <1>5, <2>1, PurchaseAssumption DEF Chained, Sold
    <3>3. (\A n \in Stock : live'[n] > 0 => n \in owned') /\ LiveOnce'
      BY <2>1 DEF Chained, Sold, LiveOnce
    <3>. QED  BY <3>1, <3>2, <3>3 DEF Sold
  <2>9. Claims'
    <3>. SUFFICES ASSUME Service = "bandwidth", NEW k \in Jobs,
                         newPhone'[k] # None
                  PROVE  /\ \A i \in Jobs \ {k} : newPhone'[i] # newPhone'[k]
                         /\ \A s \in Requests \ {job'[k].of} :
                              state'[s] = "pending" => phone'[s] # newPhone'[k]
      BY DEF Claims
    <3>1. k # j /\ newPhone'[k] = newPhone[k]
      BY <1>4
    <3>2. job'[k] = job[k]
      BY <3>1, <2>2, ClaimerAtWork
    <3>. QED  BY <1>4, <1>5, <2>1, <3>1, <3>2 DEF Chained, Claims
  <2>10. ASSUME errors' = 0 PROVE Known'
    <3>1. Known
      BY <2>10, <1>6 DEF Chained
    <3>2. NothingOrphaned'
      <4>1. ASSUME NEW n \in owned
            PROVE  \/ \E s \in Requests : phone'[s] = n /\ order'[s] = n
                   \/ \E k \in Jobs : newPhone'[k] = n /\ newOrder'[k] = n
        <5>1. \/ \E s \in Requests : phone[s] = n /\ order[s] = n
              \/ \E k \in Jobs : newPhone[k] = n /\ newOrder[k] = n
          BY <3>1, <2>10, <1>6 DEF Known, NothingOrphaned
        <5>. QED
          BY <5>1, <1>4, <1>5, PurchaseAssumption DEF NumberType
      <4>. QED  BY <4>1 DEF NothingOrphaned
    <3>3. ClaimsExclude'
      BY <3>1, <1>5, <1>6, <2>1, <2>10, PurchaseAssumption
         DEF Known, ClaimsExclude
    <3>4. \A k \in Jobs : newOrder'[k] = Failed => live'[newPhone'[k]] > 0
      BY <3>1, <1>4, <2>1, PurchaseAssumption DEF Known
    <3>. QED  BY <3>2, <3>3, <3>4 DEF Known
  <2>. QED  BY <2>6, <2>7, <2>8, <2>9, <2>10 DEF Chained
<1>8. CASE ~QueuesNext(next)
  <2>1. next = "complete-purchase" /\ o = ph
    BY <1>3, <1>8 DEF QueuesNext
  <2>2. /\ state' = [state EXCEPT ![r] = "fulfilled"]
        /\ live' = [live EXCEPT ![ph] = @ + 1]
    BY <1>1, <2>1 DEF EndStep, FirstFulfilment
  <2>3. UNCHANGED job /\ status' = [status EXCEPT ![j] = "committed"]
    BY <1>8 DEF EndStep
  <2>. HIDE DEF next
  <2>4. /\ state'[r] = "fulfilled"
        /\ \A s \in Requests \ {r} : state'[s] = state[s]
    BY <2>2 DEF RowType
  <2>5. /\ live'[ph] = 1
        /\ \A n \in Stock \ {ph} : live'[n] = live[n]
    BY <2>1, <2>2 DEF NumberType
  <2>6. /\ status'[j] = "committed"
        /\ \A k \in Jobs \ {j} : status'[k] = status[k]
    BY <2>3 DEF JobType
  <2>7. JobsOf(r)' = {}
    BY <1>1, <2>3, <2>6 DEF JobsOf
  <2>8. \A s \in Requests \ {r} : JobsOf(s)' = JobsOf(s)
    BY <2>3, <2>6 DEF JobsOf
  <2>9. OneJob'
    <3>1. ASSUME NEW s \in Requests
          PROVE  IF state'[s] = "pending" THEN \E i \in Jobs : JobsOf(s)' = {i}
                                          ELSE JobsOf(s)' = {}
      <4>1. CASE s = r
        BY <4>1, <2>3, <2>4, <2>7
      <4>2. CASE s # r
        BY <4>2, <2>4, <2>8 DEF Chained, OneJob
      <4>. QED  BY <4>1, <4>2
    <3>. QED  BY <3>1 DEF OneJob
  <2>10. Rows'
    <3>1. ASSUME NEW k \in Jobs PROVE RowOfJob(k)'
      <4>1. job[k].of = r /\ k # j => status[k] = "committed"
        BY <1>1 DEF JobsOf
      <4>. QED
        BY <4>1, <1>5, <2>3, <2>6 DEF RowOfJob, Chained, Rows
    <3>2. ASSUME NEW s \in Requests PROVE RowOfRequest(s)'
      <4>1. CASE s = r
        BY <4>1, <1>5, <2>1, <2>4, <2>5 DEF RowOfRequest
      <4>2. CASE s # r
        BY <4>2, <1>5, <2>4, <2>5 DEF RowOfRequest, Chained, Rows, NumberType
      <4>. QED  BY <4>1, <4>2
    <3>. QED  BY <3>1, <3>2 DEF Rows
  <2>11. Sold'
    <3>1. ASSUME NEW s \in Requests, order'[s] \in Stock
          PROVE  /\ order'[s] \in owned'
                 /\ state'[s] # "fulfilled" => live'[order'[s]] = 0
                 /\ \A t \in Requests \ {s} : order'[t] # order'[s]
      BY <3>1, <1>5, <2>1, <2>4, <2>5, PurchaseAssumption DEF Chained, Sold
    <3>2. ASSUME NEW k \in Jobs, newOrder'[k] \in Stock
          PROVE  /\ newOrder'[k] \in owned' /\ live'[newOrder'[k]] = 0
                 /\ \A s \in Requests : order'[s] # newOrder'[k]
                 /\ \A i \in Jobs \ {k} : newOrder'[i] # newOrder'[k]
      BY <3>2, <1>4, <1>5, <2>1, <2>5, PurchaseAssumption DEF Chained, Sold
    <3>3. \A n \in Stock : live'[n] > 0 => n \in owned'
      BY <2>1, <2>5 DEF Chained, Sold
    <3>4. LiveOnce'
      BY <2>5 DEF Chained, Sold, LiveOnce
    <3>. QED  BY <3>1, <3>2, <3>3, <3>4 DEF Sold
  <2>12. Claims'
    BY <1>4, <1>5, <2>3, <2>4 DEF Chained, Claims
  <2>13. ASSUME errors' = 0 PROVE Known'
    <3>1. Known
      BY <2>13, <1>6 DEF Chained
    <3>2. NothingOrphaned'
      <4>1. ASSUME NEW n \in owned
            PROVE  \/ \E s \in Requests : phone'[s] = n /\ order'[s] = n
                   \/ \E k \in Jobs : newPhone'[k] = n /\ newOrder'[k] = n
        <5>1. \/ \E s \in Requests : phone[s] = n /\ order[s] = n
              \/ \E k \in Jobs : newPhone[k] = n /\ newOrder[k] = n
          BY <3>1, <2>13, <1>6 DEF Known, NothingOrphaned
        <5>. QED
          BY <5>1, <1>4, <1>5, PurchaseAssumption DEF NumberType
      <4>. QED  BY <4>1 DEF NothingOrphaned
    <3>3. \A n \in Stock : live[n] > 0 => live'[n] > 0
      BY <2>5
    <3>4. ClaimsExclude'
      <4>1. ASSUME NEW s \in Requests, order'[s] = Failed
            PROVE  live'[phone'[s]] > 0
        <5>1. s # r
          BY <4>1, <1>5, <2>1, PurchaseAssumption
        <5>2. live[phone[s]] > 0
          BY <3>1, <4>1, <5>1, <1>5 DEF Known, ClaimsExclude
        <5>3. phone[s] \in Stock
          BY FailedRow, <4>1, <5>1, <1>5 DEF Chained
        <5>. QED  BY <5>1, <5>2, <5>3, <1>5, <3>3
      <4>. QED  BY <4>1 DEF ClaimsExclude
    <3>5. \A k \in Jobs : newOrder'[k] = Failed => live'[newPhone'[k]] > 0
      <4>1. ASSUME NEW k \in Jobs, newOrder[k] = Failed
            PROVE  newPhone[k] \in Stock
        BY <4>1, PurchaseAssumption DEF Handlers, Buying, HandlerOK
      <4>. QED
        BY <3>1, <4>1, <1>4, <3>3, PurchaseAssumption DEF Known
    <3>. QED  BY <3>2, <3>4, <3>5 DEF Known
  <2>. QED  BY <2>9, <2>10, <2>11, <2>12, <2>13 DEF Chained
<1>. QED  BY <1>7, <1>8

(* The initial state has no chain to break. *)
LEMMA InitPurchase == Init => PurchaseInv
<1>. SUFFICES ASSUME Init PROVE Handlers /\ Chained
  BY DEF PurchaseInv
<1>. USE PurchaseAssumption DEF Init, NoJob
<1>1. Handlers
  BY DEF Handlers, Buying
<1>2. \A r \in Requests : JobsOf(r) = {}
  BY DEF JobsOf
<1>3. OneJob
  BY <1>2 DEF OneJob
<1>4. Rows
  BY DEF Rows, RowOfJob, RowOfRequest
<1>5. Sold /\ Claims
  BY DEF Sold, LiveOnce, Claims
<1>6. Known
  BY DEF Known, NothingOrphaned, ClaimsExclude
<1>. QED  BY <1>1, <1>3, <1>4, <1>5, <1>6 DEF Chained

(* A new request has its first job and nothing else. *)
LEMMA CreateChained ==
  ASSUME IInv, Handlers, Chained, crashes = 0, NEW r \in Requests,
         CreateRequest(r)
  PROVE  Chained'
<1>. USE DEF IInv, TypeOK
<1>1. /\ state[r] = "unused" /\ state'[r] = "pending"
      /\ \A s \in Requests \ {r} : state'[s] = state[s]
      /\ UNCHANGED <<phone, order, live, owned, newPhone, newOrder, errors,
                     crashes>>
  BY DEF CreateRequest, RowType, numberVars, handlerVars, boundVars
<1>2. /\ Fresh \in Jobs /\ status[Fresh] = "free" /\ job[Fresh].of = None
      /\ status'[Fresh] = "queued"
      /\ job'[Fresh].task = "purchase-number" /\ job'[Fresh].of = r
      /\ \A k \in Jobs \ {Fresh} : job'[k] = job[k] /\ status'[k] = status[k]
  BY FreshFree DEF CreateRequest, AddJob, JobType, Handlers
<1>3. JobsOf(r) = {} /\ phone[r] = None /\ order[r] = None
  BY <1>1 DEF Chained, OneJob, Rows, RowOfRequest
<1>4. JobsOf(r)' = {Fresh}
  BY <1>2, <1>3 DEF JobsOf
<1>5. \A s \in Requests \ {r} : JobsOf(s)' = JobsOf(s)
  BY <1>2, PurchaseAssumption DEF JobsOf
<1>6. OneJob'
  <2>1. ASSUME NEW s \in Requests
        PROVE  IF state'[s] = "pending" THEN \E i \in Jobs : JobsOf(s)' = {i}
                                        ELSE JobsOf(s)' = {}
    BY <1>1, <1>2, <1>4, <1>5 DEF Chained, OneJob
  <2>. QED  BY <2>1 DEF OneJob
<1>7. Rows'
  <2>1. ASSUME NEW k \in Jobs PROVE RowOfJob(k)'
    <3>1. CASE k = Fresh
      BY <3>1, <1>1, <1>2, <1>3 DEF RowOfJob
    <3>2. CASE k # Fresh
      BY <3>2, <1>1, <1>2 DEF RowOfJob, Chained, Rows
    <3>. QED  BY <3>1, <3>2
  <2>2. ASSUME NEW s \in Requests PROVE RowOfRequest(s)'
    BY <1>1 DEF RowOfRequest, Chained, Rows
  <2>. QED  BY <2>1, <2>2 DEF Rows
<1>8. Sold'
  <2>1. \A s \in Requests : state'[s] # "fulfilled" => state[s] # "fulfilled"
    BY <1>1
  <2>. QED  BY <1>1, <2>1 DEF Chained, Sold, LiveOnce
<1>9. Claims'
  <2>. SUFFICES ASSUME Service = "bandwidth", NEW k \in Jobs,
                       newPhone'[k] # None
                PROVE  /\ \A i \in Jobs \ {k} : newPhone'[i] # newPhone'[k]
                       /\ \A s \in Requests \ {job'[k].of} :
                            state'[s] = "pending" => phone'[s] # newPhone'[k]
    BY DEF Claims
  <2>1. newPhone'[k] = newPhone[k]
    BY <1>1
  <2>2. job'[k] = job[k]
    BY <2>1, <1>2, ClaimerAtWork
  <2>. QED  BY <2>1, <2>2, <1>1, <1>3 DEF Chained, Claims
<1>10. ASSUME errors' = 0 PROVE Known'
  BY <1>10, <1>1 DEF Chained, Known, NothingOrphaned, ClaimsExclude
<1>. QED  BY <1>6, <1>7, <1>8, <1>9, <1>10 DEF Chained

(* Bandwidth: the unique index, and waiting for claims in flight, keep a new
   claim apart from all others. *)
LEMMA ClaimChained ==
  ASSUME IInv, Handlers, Chained, crashes = 0, NEW j \in Jobs, Claim(j)
  PROVE  Chained'
<1>. USE DEF IInv, TypeOK
<1>1. /\ status[j] = "running" /\ job[j].of \in Requests /\ cand[j] \in Stock
      /\ newOrder[j] = None
  BY DEF Claim, HandlerOK, Tasks, Handlers, Buying
<1>2. /\ UNCHANGED <<state, phone, order, live, owned, status, job, newOrder,
                     errors, crashes>>
      /\ \A k \in Jobs \ {j} : newPhone'[k] = newPhone[k]
      /\ \/ newPhone'[j] = newPhone[j]
         \/ newPhone'[j] = cand[j] /\ ~Claimed(job[j].of, cand[j])
      /\ ~ClaimInFlight(j, cand[j])
  BY DEF Claim, rowVars, numberVars, jobVars, boundVars, HandlerType
<1>3. OneJob' /\ Rows' /\ Sold'
  BY <1>2 DEF Chained, OneJob, JobsOf, Rows, RowOfJob, RowOfRequest, Sold,
     LiveOnce
<1>4. state[job[j].of] = "pending"
  BY <1>1, JobAtWork DEF Chained
<1>5. CASE newPhone'[j] = newPhone[j]
  <2>1. \A k \in Jobs : newPhone'[k] = newPhone[k]
    BY <1>2, <1>5
  <2>2. Claims'
    BY <1>2, <2>1 DEF Chained, Claims
  <2>3. ASSUME errors' = 0 PROVE Known'
    BY <2>3, <1>2, <2>1 DEF Chained, Known, NothingOrphaned, ClaimsExclude
  <2>. QED  BY <1>3, <2>2, <2>3 DEF Chained
<1>6. CASE newPhone'[j] = cand[j] /\ ~Claimed(job[j].of, cand[j])
  <2>1. ASSUME Service = "bandwidth", NEW k \in Jobs \ {j}
        PROVE  newPhone[k] # cand[j]
    <3>1. SUFFICES ASSUME newPhone[k] = cand[j] PROVE FALSE
      OBVIOUS
    <3>2. newPhone[k] # None
      BY <1>1, <3>1, PurchaseAssumption
    <3>3. state[job[k].of] = "pending"
      BY <2>1, <3>2, ClaimerAtWork, JobAtWork DEF Chained
    <3>. QED  BY <1>2, <1>4, <3>1, <3>3 DEF ClaimInFlight
  <2>2. \A s \in Requests \ {job[j].of} : state[s] = "pending" => phone[s] # cand[j]
    BY <1>4, <1>6 DEF Claimed
  <2>3. Claims'
    BY <1>2, <1>6, <2>1, <2>2 DEF Chained, Claims
  <2>4. ASSUME errors' = 0 PROVE Known'
    <3>1. Known
      BY <2>4, <1>2 DEF Chained
    <3>2. \A k \in Jobs : newOrder[k] # None => newPhone'[k] = newPhone[k]
      BY <1>1, <1>2
    <3>3. NothingOrphaned'
      BY <3>1, <3>2, <1>2, <2>4, PurchaseAssumption
         DEF Known, NothingOrphaned, NumberType
    <3>4. ClaimsExclude'
      BY <3>1, <1>2 DEF Known, ClaimsExclude
    <3>5. \A k \in Jobs : newOrder'[k] = Failed => live'[newPhone'[k]] > 0
      BY <3>1, <3>2, <1>2, PurchaseAssumption DEF Known
    <3>. QED  BY <3>3, <3>4, <3>5 DEF Known
  <2>. QED  BY <1>3, <2>3, <2>4 DEF Chained
<1>. QED  BY <1>2, <1>5, <1>6

(* A sale: nobody has ordered a number that this account did not own. *)
LEMMA BuyChained ==
  ASSUME IInv, Handlers, Chained, crashes = 0, NEW j \in Jobs,
         pc[j] = "order", NEW n \in Stock \ owned, Buy(j, n),
         Service # "twilio" => n = cand[j],
         UNCHANGED <<rowVars, numberVars, job, boundVars>>
  PROVE  Chained'
<1>. USE DEF IInv, TypeOK
<1>1. /\ UNCHANGED <<state, phone, order, live, status, job, errors, crashes>>
      /\ owned' = owned \cup {n}
      /\ newPhone'[j] = n /\ newOrder'[j] = n
      /\ \A k \in Jobs \ {j} : /\ newPhone'[k] = newPhone[k]
                               /\ newOrder'[k] = newOrder[k]
  BY DEF Buy, rowVars, numberVars, boundVars, HandlerType
<1>2. newOrder[j] = None
  BY DEF Handlers, Buying
<1>3. OneJob' /\ Rows'
  BY <1>1 DEF Chained, OneJob, JobsOf, Rows, RowOfJob, RowOfRequest
<1>4. Sold'
  <2>1. live[n] = 0
    BY DEF Chained, Sold, NumberType
  <2>2. ASSUME NEW s \in Requests, order'[s] \in Stock
        PROVE  /\ order'[s] \in owned'
               /\ state'[s] # "fulfilled" => live'[order'[s]] = 0
               /\ \A t \in Requests \ {s} : order'[t] # order'[s]
    BY <2>2, <1>1 DEF Chained, Sold
  <2>3. ASSUME NEW k \in Jobs, newOrder'[k] \in Stock
        PROVE  /\ newOrder'[k] \in owned' /\ live'[newOrder'[k]] = 0
               /\ \A s \in Requests : order'[s] # newOrder'[k]
               /\ \A i \in Jobs \ {k} : newOrder'[i] # newOrder'[k]
    <3>1. \A s \in Requests : order[s] # n
      BY DEF Chained, Sold
    <3>2. \A i \in Jobs : newOrder[i] # n
      BY DEF Chained, Sold
    <3>. QED  BY <2>1, <2>3, <3>1, <3>2, <1>1 DEF Chained, Sold
  <2>4. \A m \in Stock : live'[m] > 0 => m \in owned'
    BY <1>1 DEF Chained, Sold
  <2>. QED  BY <2>2, <2>3, <2>4, <1>1 DEF Sold, Chained, LiveOnce
<1>5. Claims'
  <2>1. Service = "bandwidth" => newPhone[j] = n
    BY PurchaseAssumption DEF HandlerOK, Handlers, Buying
  <2>. QED  BY <2>1, <1>1 DEF Chained, Claims
<1>6. ASSUME errors' = 0 PROVE Known'
  <2>1. Known
    BY <1>6, <1>1 DEF Chained
  <2>2. NothingOrphaned'
    <3>1. ASSUME NEW m \in owned
          PROVE  \/ \E s \in Requests : phone'[s] = m /\ order'[s] = m
                 \/ \E k \in Jobs : newPhone'[k] = m /\ newOrder'[k] = m
      <4>1. \/ \E s \in Requests : phone[s] = m /\ order[s] = m
            \/ \E k \in Jobs : newPhone[k] = m /\ newOrder[k] = m
        BY <2>1, <1>1, <1>6 DEF Known, NothingOrphaned
      <4>2. m # None
        BY PurchaseAssumption DEF NumberType
      <4>. QED  BY <4>1, <4>2, <1>1, <1>2
    <3>. QED  BY <3>1, <1>1 DEF NothingOrphaned
  <2>3. ClaimsExclude'
    BY <2>1, <1>1 DEF Known, ClaimsExclude
  <2>4. \A k \in Jobs : newOrder'[k] = Failed => live'[newPhone'[k]] > 0
    BY <2>1, <1>1, PurchaseAssumption DEF Known
  <2>. QED  BY <2>2, <2>3, <2>4 DEF Known
<1>. QED  BY <1>3, <1>4, <1>5, <1>6 DEF Chained

(* Bandwidth: an order for a number this account has already bought fails.
   While no call has failed, the request it was bought for is done. *)
LEMMA FailedOrderChained ==
  ASSUME IInv, Handlers, Chained, crashes = 0, NEW j \in Jobs,
         pc[j] = "order", Service = "bandwidth", cand[j] \in owned,
         newOrder' = [newOrder EXCEPT ![j] = Failed],
         UNCHANGED <<rowVars, numberVars, owned, status, job, newPhone,
                     boundVars>>
  PROVE  Chained'
<1>. USE DEF IInv, TypeOK
<1>1. /\ UNCHANGED <<state, phone, order, live, owned, status, job, newPhone,
                     errors, crashes>>
      /\ newOrder'[j] = Failed
      /\ \A k \in Jobs \ {j} : newOrder'[k] = newOrder[k]
  BY DEF rowVars, numberVars, boundVars, HandlerType
<1>2. /\ newOrder[j] = None /\ newPhone[j] = cand[j] /\ newPhone[j] # None
      /\ status[j] = "running" /\ job[j].task = "purchase-number"
      /\ job[j].of \in Requests
  BY PurchaseAssumption DEF HandlerOK, Handlers, Buying, Tasks
<1>3. OneJob' /\ Rows'
  BY <1>1 DEF Chained, OneJob, JobsOf, Rows, RowOfJob, RowOfRequest
<1>4. Sold' /\ Claims'
  <2>1. \A k \in Jobs : newOrder'[k] \in Stock => newOrder'[k] = newOrder[k]
    BY <1>1, PurchaseAssumption
  <2>2. \A k \in Jobs : newOrder'[k] \in Stock =>
          /\ newOrder'[k] \in owned' /\ live'[newOrder'[k]] = 0
          /\ \A r \in Requests : order'[r] # newOrder'[k]
          /\ \A i \in Jobs \ {k} : newOrder'[i] # newOrder'[k]
    BY <1>1, <2>1 DEF Chained, Sold
  <2>. QED  BY <2>2, <1>1 DEF Chained, Sold, Claims, LiveOnce
<1>5. ASSUME errors' = 0 PROVE Known'
  <2>1. Known /\ errors = 0
    BY <1>5, <1>1 DEF Chained
  <2>2. NothingOrphaned'
    BY <2>1, <1>1, <1>2, PurchaseAssumption DEF Known, NothingOrphaned
  <2>3. ClaimsExclude'
    BY <2>1, <1>1 DEF Known, ClaimsExclude
  <2>4. live[cand[j]] > 0
    <3>1. \A k \in Jobs : newPhone[k] = cand[j] => newOrder[k] # cand[j]
      BY <1>2, PurchaseAssumption DEF Chained, Claims
    <3>2. PICK r \in Requests : phone[r] = cand[j] /\ order[r] = cand[j]
      BY <2>1, <3>1 DEF Known, NothingOrphaned
    <3>3. state[r] # "unused"
      BY <3>2, <1>2 DEF Chained, Rows, RowOfRequest
    <3>4. r # job[j].of
      BY <3>2, <1>2 DEF Chained, Rows, RowOfJob
    <3>5. state[r] # "pending"
      BY <3>2, <3>4, <1>2 DEF Chained, Claims
    <3>6. state[r] = "fulfilled"
      BY <3>3, <3>5 DEF RowType
    <3>. QED  BY <3>2, <3>6 DEF Chained, Rows, RowOfRequest
  <2>5. \A k \in Jobs : newOrder'[k] = Failed => live'[newPhone'[k]] > 0
    BY <2>1, <2>4, <1>1, <1>2 DEF Known
  <2>. QED  BY <2>2, <2>3, <2>5 DEF Known
<1>. QED  BY <1>3, <1>4, <1>5 DEF Chained

(* Every step keeps the chains of the requests. *)
LEMMA NextPurchase == IInv /\ IInv' /\ PurchaseInv /\ [Next]_vars => PurchaseInv'
<1>. SUFFICES ASSUME IInv, IInv', PurchaseInv, [Next]_vars, crashes' = 0
              PROVE  Chained'
  BY HandlersStep DEF PurchaseInv
<1>. USE DEF IInv, TypeOK
<1>1. Handlers
  BY DEF PurchaseInv
<1>2. crashes = 0 /\ \A j \in Jobs : ~Crash(j)
  <2>1. \A j \in Jobs : ~Crash(j)
    BY PurchaseAssumption DEF Crash, BoundType
  <2>2. crashes' = crashes
    BY <2>1 DEF Next, Purchase, Step, vars, boundVars, CreateRequest, Start,
       Search, GiveUp, Candidate, Claim, CheckLive, Order, FinishPurchase,
       EndStep, PollNumberOrder, OrderNotReady, AssociateProfile,
       AssociateCampaign, Complete, Fail, AttachCampaign, ExpireCache
  <2>. QED  BY <2>1, <2>2
<1>3. Chained
  BY <1>2 DEF PurchaseInv
<1>4. ASSUME UNCHANGED <<state, live, phone, order, owned, newPhone, newOrder,
                         job, errors>>,
             \A k \in Jobs : status'[k] = "committed" <=> status[k] = "committed"
      PROVE  Chained'
  BY <1>1, <1>2, <1>3, <1>4, QuietStep
<1>5. ASSUME NEW j \in Jobs, status[j] = "running", Throw(j),
             UNCHANGED <<state, live, phone, order, owned, job>>,
             errors' = 0 => errors = 0 /\ newOrder[j] = None
      PROVE  Chained'
  <2>1. \A k \in Jobs : status'[k] = "committed" <=> status[k] = "committed"
    BY <1>5 DEF Throw, JobType
  <2>2. \A k \in Jobs :
          \/ newPhone'[k] = newPhone[k] /\ newOrder'[k] = newOrder[k]
          \/ /\ newPhone'[k] = None /\ newOrder'[k] = None
             /\ errors' = 0 => newOrder[k] = None
    BY <1>5 DEF Throw, EndHandler, HandlerType
  <2>. QED  BY <1>1, <1>2, <1>3, <1>5, <2>1, <2>2, QuietStep
<1>6. ASSUME NEW j \in Jobs, Exhausted(j),
             pc[j] = "next" \/ (pc[j] = "order" /\ Service = "twilio"),
             UNCHANGED <<state, live, phone, order, owned, job, errors>>
      PROVE  Chained'
  <2>1. status[j] = "running" /\ newOrder[j] = None
    BY <1>1, <1>6 DEF HandlerOK, Handlers, Buying
  <2>. QED  BY <1>4, <1>5, <1>6, <2>1 DEF Exhausted
<1>7. ASSUME NEW r \in Requests, CreateRequest(r)
      PROVE  Chained'
  BY <1>1, <1>2, <1>3, <1>7, CreateChained
<1>8. ASSUME NEW j \in Jobs, Start(j)
      PROVE  Chained'
  <2>1. \A k \in Jobs : status'[k] = "committed" <=> status[k] = "committed"
    BY <1>8 DEF Start, JobType
  <2>. QED  BY <1>4, <1>8, <2>1 DEF Start, rowVars, numberVars, boundVars
<1>9. ASSUME NEW j \in Jobs, Search(j) \/ Candidate(j) \/ CheckLive(j)
      PROVE  Chained'
  BY <1>4, <1>9 DEF Search, Candidate, CheckLive, rowVars, numberVars,
     boundVars, jobVars
<1>10. ASSUME NEW j \in Jobs, GiveUp(j)
       PROVE  Chained'
  BY <1>6, <1>10 DEF GiveUp, rowVars, numberVars, boundVars
<1>11. ASSUME NEW j \in Jobs, Claim(j)
       PROVE  Chained'
  BY <1>1, <1>2, <1>3, <1>11, ClaimChained
<1>12. ASSUME NEW j \in Jobs, Order(j)
       PROVE  Chained'
  <2>1. /\ pc[j] = "order"
        /\ UNCHANGED <<rowVars, numberVars, job, boundVars>>
    BY <1>12 DEF Order
  <2>2. CASE \E n \in Stock \ owned :
               Buy(j, n) /\ (Service # "twilio" => n = cand[j])
    BY <1>1, <1>2, <1>3, <2>1, <2>2, BuyChained
  <2>3. CASE /\ Service = "bandwidth" /\ cand[j] \in owned
             /\ newOrder' = [newOrder EXCEPT ![j] = Failed]
             /\ UNCHANGED <<owned, status, newPhone>>
    BY <1>1, <1>2, <1>3, <2>1, <2>3, FailedOrderChained
  <2>4. CASE UNCHANGED <<owned, status, newPhone, newOrder>>
    BY <1>4, <2>1, <2>4 DEF rowVars, numberVars, boundVars
  <2>5. CASE Service = "twilio" /\ Exhausted(j) /\ UNCHANGED owned
    BY <1>6, <2>1, <2>5 DEF rowVars, numberVars, boundVars
  <2>6. Service # "twilio" => cand[j] \in Stock
    BY <1>12 DEF Order, HandlerOK
  <2>. QED  BY <1>12, <2>2, <2>3, <2>4, <2>5, <2>6 DEF Order
<1>13. ASSUME NEW j \in Jobs, FinishPurchase(j)
       PROVE  Chained'
  <2>. DEFINE r == job[j].of
              ph == newPhone[j]
              o == newOrder[j]
  <2>1. /\ pc[j] = "finish" /\ status[j] = "running"
        /\ job[j].task = "purchase-number" /\ r \in Requests /\ ph \in Stock
        /\ o \in {ph, Failed}
        /\ o = Failed => Service = "bandwidth"
        /\ EndStep(j, ph, o)
        /\ phone' = [phone EXCEPT ![r] = ph]
        /\ order' = [order EXCEPT ![r] = o]
        /\ UNCHANGED owned
    BY <1>1, <1>13 DEF FinishPurchase, HandlerOK, Tasks, Handlers, Buying
  <2>2. phone[r] = None /\ order[r] = None
    BY <1>3, <2>1 DEF Chained, Rows, RowOfJob
  <2>3. ph # None
    BY <2>1, PurchaseAssumption
  <2>4. o = Failed /\ errors = 0 => live[ph] > 0
    BY <1>3 DEF Chained, Known
  <2>5. o = ph => /\ ph \in owned /\ live[ph] = 0
                  /\ \A s \in Requests \ {r} : order[s] # ph
                  /\ \A k \in Jobs \ {j} : newOrder[k] # ph
    BY <1>3, <2>1 DEF Chained, Sold
  <2>6. Service = "bandwidth" => \A k \in Jobs \ {j} : newPhone[k] # ph
    BY <1>3, <2>3 DEF Chained, Claims
  <2>7. job[j].task \in Tasks
    BY <2>1 DEF Tasks
  <2>. HIDE DEF o, ph
  <2>8. phone[r] \in {None, ph} /\ order[r] \in {None, o}
    BY <2>2
  <2>9. newOrder[j] = None \/ (newOrder[j] = o /\ newPhone[j] = ph)
    BY DEF o, ph
  <2>10. o = Failed => /\ Service = "bandwidth"
                       /\ job[j].task = "purchase-number"
                       /\ errors = 0 => live[ph] > 0
    BY <2>1, <2>4
  <2>. QED
    BY <1>1, <1>2, <1>3, <2>1, <2>5, <2>6, <2>7, <2>8, <2>9, <2>10,
       EndStepChained
<1>14. ASSUME NEW j \in Jobs, status[j] = "running", pc[j] = "step",
              job[j].task \in Tasks \ {"purchase-number"},
              job[j].of \in Requests,
              job[j].task = "poll-number-order" => job[j].order # Failed,
              EndStep(j, phone[job[j].of], order[job[j].of]),
              UNCHANGED <<phone, order, owned>>
       PROVE  Chained'
  <2>. DEFINE r == job[j].of
              ph == phone[r]
              o == order[r]
  <2>1. ph \in Stock /\ o = ph
    BY <1>3, <1>14 DEF Chained, Rows, RowOfJob
  <2>2. state[r] = "pending" /\ JobsOf(r) = {j}
    BY <1>3, <1>14, JobAtWork DEF Chained
  <2>3. newOrder[j] = None
    BY <1>1, <1>14 DEF Handlers, Buying
  <2>4. /\ ph \in owned /\ live[ph] = 0
        /\ \A s \in Requests \ {r} : order[s] # ph
        /\ \A k \in Jobs : newOrder[k] # ph
    <3>1. order[r] \in Stock /\ order[r] = ph /\ r \in Requests
      BY <1>14, <2>1
    <3>2. /\ order[r] \in owned /\ live[order[r]] = 0
          /\ \A s \in Requests \ {r} : order[s] # order[r]
      BY <1>3, <2>2, <3>1 DEF Chained, Sold
    <3>3. \A k \in Jobs : newOrder[k] # order[r]
      BY <1>3, <3>1 DEF Chained, Sold
    <3>. QED  BY <3>1, <3>2, <3>3
  <2>5. ASSUME Service = "bandwidth", NEW k \in Jobs \ {j}
        PROVE  newPhone[k] # ph
    <3>1. SUFFICES ASSUME newPhone[k] = ph PROVE FALSE
      OBVIOUS
    <3>2. newPhone[k] # None
      BY <2>1, <3>1, PurchaseAssumption
    <3>3. status[k] = "running"
      BY <1>1, <2>5, <3>2, ClaimerAtWork
    <3>4. job[k].of # r
      BY <2>2, <3>3 DEF JobsOf
    <3>. QED  BY <1>3, <1>14, <2>2, <2>5, <3>1, <3>2, <3>4 DEF Chained, Claims
  <2>6. /\ phone' = [phone EXCEPT ![r] = ph]
        /\ order' = [order EXCEPT ![r] = o]
    BY <1>14 DEF RowType
  <2>7. o # Failed
    BY <2>1, PurchaseAssumption
  <2>8. o \in {ph, Failed} /\ phone[r] \in {None, ph} /\ order[r] \in {None, o}
    BY <2>1
  <2>9. EndStep(j, ph, o)
    BY <1>14
  <2>. HIDE DEF o, ph
  <2>. QED
    BY <1>1, <1>2, <1>3, <1>14, <2>1, <2>3, <2>4, <2>5, <2>6, <2>7, <2>8, <2>9,
       EndStepChained
<1>15. ASSUME NEW j \in Jobs, PollNumberOrder(j) \/ AssociateProfile(j)
       PROVE  Chained'
  <2>1. /\ pc[j] = "step" /\ status[j] = "running"
        /\ job[j].task \in Tasks \ {"purchase-number"} /\ job[j].of \in Requests
        /\ job[j].task = "poll-number-order" => job[j].order # Failed
        /\ EndStep(j, phone[job[j].of], order[job[j].of])
        /\ UNCHANGED <<phone, order, owned>>
    BY <1>15 DEF PollNumberOrder, AssociateProfile, AtStep, OrderComplete,
       HandlerOK, Tasks
  <2>. QED  BY <1>14, <2>1
<1>16. ASSUME NEW j \in Jobs, OrderNotReady(j)
       PROVE  Chained'
  <2>1. status[j] = "running" /\ newOrder[j] = None
    BY <1>1, <1>16 DEF OrderNotReady, AtStep, HandlerOK, Handlers, Buying
  <2>. QED
    BY <1>5, <1>16, <2>1 DEF OrderNotReady, rowVars, numberVars, boundVars
<1>17. ASSUME NEW j \in Jobs, AssociateCampaign(j)
       PROVE  Chained'
  <2>1. /\ pc[j] = "step" /\ status[j] = "running" /\ newOrder[j] = None
        /\ job[j].task = "associate-service-10dlc-campaign"
    BY <1>1, <1>17 DEF AssociateCampaign, AtStep, HandlerOK, Handlers, Buying
  <2>2. CASE job[j].of # None /\ job[j].campaign
    <3>1. job[j].of \in Requests
      BY <2>2 DEF JobType
    <3>2. job[j].task \in Tasks \ {"purchase-number"}
      BY <2>1 DEF Tasks
    <3>. QED
      BY <1>14, <1>17, <2>1, <2>2, <3>1, <3>2 DEF AssociateCampaign
  <2>3. CASE ~(job[j].of # None /\ job[j].campaign)
    BY <1>5, <1>17, <2>1, <2>3 DEF AssociateCampaign, rowVars, numberVars,
       boundVars
  <2>. QED  BY <2>2, <2>3
<1>18. ASSUME NEW j \in Jobs, Complete(j)
       PROVE  Chained'
  <2>1. /\ status[j] = "committed"
        /\ job'[j].of = None
        /\ \A k \in Jobs \ {j} : job'[k] = job[k] /\ status'[k] = status[k]
        /\ UNCHANGED <<state, live, phone, order, owned, newPhone, newOrder,
                       errors>>
    BY <1>18 DEF Complete, NoJob, JobType, rowVars, numberVars, handlerVars,
       boundVars
  <2>. QED  BY <1>1, <1>2, <1>3, <2>1, PurchaseAssumption, QuietStep
<1>19. ASSUME NEW j \in Jobs, Fail(j)
       PROVE  Chained'
  <2>1. errors' # 0
    BY <1>19, PurchaseAssumption DEF Fail, BoundType
  <2>. QED  BY <1>5, <1>19, <2>1 DEF Fail, rowVars, numberVars
<1>20. CASE AttachCampaign
  <2>1. UNCHANGED <<state, live, phone, order, owned, newPhone, newOrder, errors>>
    BY <1>20 DEF AttachCampaign, rowVars, handlerVars, boundVars
  <2>2. CASE UNCHANGED jobVars
    BY <1>4, <2>1, <2>2 DEF jobVars
  <2>3. ASSUME NEW n \in Stock,
               AddJob(status, [task |-> "associate-service-10dlc-campaign",
                               of |-> None, number |-> n, order |-> None,
                               campaign |-> TRUE])
        PROVE  Chained'
    <3>1. /\ Fresh \in Jobs /\ status[Fresh] = "free" /\ job[Fresh].of = None
          /\ job'[Fresh].of = None
          /\ \A k \in Jobs \ {Fresh} : job'[k] = job[k] /\ status'[k] = status[k]
      BY <1>1, <2>3, FreshFree DEF AddJob, JobType, Handlers
    <3>. QED
      BY <1>1, <1>2, <1>3, <2>1, <3>1, PurchaseAssumption, QuietStep
  <2>. QED  BY <1>20, <2>2, <2>3 DEF AttachCampaign
<1>21. CASE ExpireCache \/ UNCHANGED vars
  BY <1>4, <1>21 DEF ExpireCache, vars, rowVars, numberVars, jobVars,
     handlerVars, boundVars
<1>. QED
  BY <1>2, <1>7, <1>8, <1>9, <1>10, <1>11, <1>12, <1>13, <1>15, <1>16, <1>17,
     <1>18, <1>19, <1>20, <1>21 DEF Next, Purchase, Step

LEMMA InvPurchase == Spec => [](IInv /\ PurchaseInv)
BY InitIInv, NextIInv, InitPurchase, NextPurchase, PTL DEF Spec

(* While no worker crashes, the jobs of a purchase are a chain: a pending
   request has exactly one, and a fulfilled one has none, whatever fails and
   is retried, whichever telco sells and however requests compete. *)
THEOREM PurchaseIsChain == Spec => [](crashes = 0 => OneJobEach)
<1>1. IInv /\ PurchaseInv => (crashes = 0 => OneJobEach)
  <2>. SUFFICES ASSUME OneJob, NEW r \in Requests
                PROVE  Cardinality(JobsOf(r)) =
                         IF state[r] = "pending" THEN 1 ELSE 0
    BY DEF PurchaseInv, Chained, OneJobEach
  <2>1. CASE state[r] = "pending"
    BY <2>1, FS_Singleton DEF OneJob
  <2>2. CASE state[r] # "pending"
    BY <2>2, FS_EmptySet DEF OneJob
  <2>. QED  BY <2>1, <2>2
<1>. QED  BY <1>1, InvPurchase, PTL

(* While no worker crashes, no number is made live twice, with any telco and
   whichever calls fail: the second of two orders for a number fails, and its
   request never gets beyond the poll. *)
THEOREM NumberLiveOnce == Spec => [](crashes = 0 => LiveOnce)
<1>1. IInv /\ PurchaseInv => (crashes = 0 => LiveOnce)
  BY DEF PurchaseInv, Chained, Sold
<1>. QED  BY <1>1, InvPurchase, PTL

(* While nothing fails and no worker crashes, every number that was paid for
   is in a row or about to be committed to one. *)
THEOREM PaidIsKnown == Spec => []NothingOrphaned
<1>1. IInv /\ PurchaseInv => NothingOrphaned
  <2>1. CASE errors = 0 /\ crashes = 0
    BY <2>1 DEF PurchaseInv, Chained, Known
  <2>2. CASE ~(errors = 0 /\ crashes = 0)
    BY <2>2 DEF NothingOrphaned
  <2>. QED  BY <2>1, <2>2
<1>. QED  BY <1>1, InvPurchase, PTL

(* While nothing fails and no worker crashes, two requests in flight never
   order the same number: an order fails only for a number that is live. *)
THEOREM OrdersExclude == Spec => [](errors = 0 /\ crashes = 0 => ClaimsExclude)
<1>1. IInv /\ PurchaseInv => (errors = 0 /\ crashes = 0 => ClaimsExclude)
  BY DEF PurchaseInv, Chained, Known
<1>. QED  BY <1>1, InvPurchase, PTL

-----------------------------------------------------------------------------
(* Up to a crash, the end of a step of the pipeline fulfils the one request it
   is for, with the number of its order, which nobody has made live. *)
LEMMA EndStepFulfils ==
  ASSUME IInv, Chained, NEW j \in Jobs, status[j] = "running",
         job[j].of \in Requests, NEW ph, NEW o, EndStep(j, ph, o),
         getNextAction(Service, CachedFlag = "yes", job[j].task) =
           "complete-purchase" => ph \in Stock /\ live[ph] = 0
  PROVE  [Pool!Next]_(Pool!pool)
<1>. USE DEF IInv, TypeOK
<1>1. CASE UNCHANGED <<state, live>>
  BY <1>1 DEF Pool!pool
<1>2. CASE ~UNCHANGED <<state, live>>
  <2>1. /\ ph \in Stock /\ live[ph] = 0
        /\ state' = [state EXCEPT ![job[j].of] = "fulfilled"]
        /\ live' = [live EXCEPT ![ph] = @ + 1]
    BY <1>2 DEF EndStep
  <2>2. live' = [live EXCEPT ![ph] = 1]
    BY <2>1 DEF NumberType
  <2>3. state[job[j].of] = "pending"
    BY JobAtWork DEF Chained
  <2>. QED  BY <2>1, <2>2, <2>3 DEF Pool!Next, Pool!Fulfil
<1>. QED  BY <1>1, <1>2

(* Whichever telco sells, Bandwidth included, whose orders may fail after they
   were accepted: until a worker crashes, each request gets at most one number
   and no number is made live twice. *)
THEOREM PurchaseRefinesPoolUncrashed ==
  Spec /\ [](crashes = 0) => ImplementsPool
<1>1. Init => Pool!Init
  BY DEF Init, Pool!Init
<1>2. IInv /\ PurchaseInv /\ crashes = 0 /\ [Next]_vars => [Pool!Next]_(Pool!pool)
  <2>. SUFFICES ASSUME IInv, Handlers, Chained, [Next]_vars
                PROVE  [Pool!Next]_(Pool!pool)
    BY DEF PurchaseInv
  <2>. USE DEF IInv, TypeOK
  <2>1. ASSUME NEW r \in Requests, CreateRequest(r)
        PROVE  [Pool!Next]_(Pool!pool)
    BY <2>1 DEF CreateRequest, numberVars, Pool!Next, Pool!Ask
  <2>2. ASSUME NEW j \in Jobs, FinishPurchase(j)
        PROVE  [Pool!Next]_(Pool!pool)
    <3>1. /\ status[j] = "running" /\ job[j].task = "purchase-number"
          /\ job[j].of \in Requests /\ newPhone[j] \in Stock
          /\ newOrder[j] \in {newPhone[j], Failed}
          /\ newOrder[j] = Failed => Service = "bandwidth"
          /\ EndStep(j, newPhone[j], newOrder[j])
      BY <2>2 DEF FinishPurchase, HandlerOK, Tasks, Handlers, Buying
    <3>2. CASE newOrder[j] = Failed
      BY <3>1, <3>2, EndStepFulfils DEF getNextAction
    <3>3. CASE newOrder[j] = newPhone[j]
      <4>1. live[newPhone[j]] = 0
        BY <3>1, <3>3 DEF Chained, Sold
      <4>. QED  BY <3>1, <4>1, EndStepFulfils
    <3>. QED  BY <3>1, <3>2, <3>3
  <2>3. ASSUME NEW j \in Jobs, pc[j] = "step",
               job[j].task \in Tasks \ {"purchase-number"},
               job[j].of \in Requests,
               job[j].task = "poll-number-order" => job[j].order # Failed,
               EndStep(j, phone[job[j].of], order[job[j].of])
        PROVE  [Pool!Next]_(Pool!pool)
    <3>1. status[j] = "running"
      BY <2>3 DEF HandlerOK
    <3>2. /\ phone[job[j].of] \in Stock
          /\ order[job[j].of] = phone[job[j].of]
      BY <2>3, <3>1 DEF Chained, Rows, RowOfJob
    <3>3. state[job[j].of] = "pending"
      BY <2>3, <3>1, JobAtWork DEF Chained
    <3>4. live[phone[job[j].of]] = 0
      <4>1. order[job[j].of] \in Stock /\ state[job[j].of] # "fulfilled"
        BY <3>2, <3>3
      <4>2. live[order[job[j].of]] = 0
        BY <2>3, <4>1 DEF Chained, Sold
      <4>. QED  BY <3>2, <4>2
    <3>. QED  BY <2>3, <3>1, <3>2, <3>4, EndStepFulfils
  <2>4. ASSUME NEW j \in Jobs, PollNumberOrder(j) \/ AssociateProfile(j)
        PROVE  [Pool!Next]_(Pool!pool)
    BY <2>3, <2>4 DEF PollNumberOrder, AssociateProfile, AtStep,
       OrderComplete, HandlerOK, Tasks
  <2>5. ASSUME NEW j \in Jobs, AssociateCampaign(j)
        PROVE  [Pool!Next]_(Pool!pool)
    <3>1. CASE job[j].of # None /\ job[j].campaign
      BY <2>3, <2>5, <3>1 DEF AssociateCampaign, AtStep, JobType, Tasks
    <3>2. CASE ~(job[j].of # None /\ job[j].campaign)
      BY <2>5, <3>2 DEF AssociateCampaign, rowVars, numberVars, Pool!pool
    <3>. QED  BY <3>1, <3>2
  <2>6. ASSUME NEW j \in Jobs,
               \/ Start(j) \/ Search(j) \/ GiveUp(j) \/ Candidate(j) \/ Claim(j)
               \/ CheckLive(j) \/ Order(j) \/ OrderNotReady(j) \/ Complete(j)
               \/ Fail(j) \/ Crash(j)
        PROVE  UNCHANGED Pool!pool
    BY <2>6 DEF Start, Search, GiveUp, Candidate, Claim, CheckLive, Order,
       OrderNotReady, Complete, Fail, Crash, rowVars, numberVars, Pool!pool
  <2>7. CASE AttachCampaign \/ ExpireCache \/ UNCHANGED vars
    BY <2>7 DEF AttachCampaign, ExpireCache, vars, rowVars, numberVars,
       Pool!pool
  <2>. QED
    BY <2>1, <2>2, <2>4, <2>5, <2>6, <2>7 DEF Next, Purchase, Step
<1>. QED
  BY <1>1, <1>2, InvPurchase, PTL DEF Spec, ImplementsPool, Pool!Spec
=============================================================================
