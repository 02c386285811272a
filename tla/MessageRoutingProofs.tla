------------------------ MODULE MessageRoutingProofs ------------------------
(***************************************************************************)
(* Theorems of MessageRouting, for every set of messages, contacts,        *)
(* numbers and requests and every bound.                                   *)
(***************************************************************************)
EXTENDS MessageRouting, FiniteSetTheorems, TLAPS

Recorded(m) == routed[m] # None \/ awaiting[m] # None

(* What the local variables and the job of a message say of each other: the
   part of the inductive invariant that types do not give. *)
HandlerOK ==
  \A m \in Messages :
    /\ pc[m] # "idle" <=> job[m] = "running"
    /\ job[m] = "absent" => attempts[m] = 0
    /\ job[m] = "queued" => attempts[m] < MaxAttempts
    /\ pc[m] = "route" => picked[m] \in AllNumbers
    /\ pc[m] \in {"check", "await"} => picked[m] \in Requests
    /\ pc[m] = "complete" => Recorded(m)
    /\ job[m] = "done" => Recorded(m)

IInv == TypeOK /\ HandlerOK

-----------------------------------------------------------------------------
(* The counts a hydration reads are numbers. *)
LEMMA CountType ==
  ASSUME NEW n, NEW r
  PROVE  /\ Cardinality(RoutedContacts(n)) \in Nat
         /\ Cardinality(WaitingFor(r)) \in Nat
<1>1. RoutedContacts(n) \subseteq Contacts
  BY RoutingAssumption DEF RoutedContacts
<1>2. WaitingFor(r) \subseteq Messages
  BY DEF WaitingFor
<1>. QED  BY <1>1, <1>2, FS_Subset, FS_CardinalityType, RoutingAssumption

-----------------------------------------------------------------------------
(* zincrby leaves a score in the sorted set. *)
LEMMA IncrementType == ASSUME NEW s \in Score PROVE Increment(s) \in Score
BY DEF Increment, Score, Absent

(* The inductive invariant holds before the first message. *)
LEMMA InitIInv == Init => IInv
<1>. SUFFICES ASSUME Init PROVE IInv
  OBVIOUS
<1>. USE DEF Init, Nothing, Absent, Score, NoEvent
<1>1. JobType /\ HandlerType
  BY RoutingAssumption DEF JobType, HandlerType
<1>2. IndexType
  BY DEF IndexType
<1>3. DbType
  BY DEF DbType, AllNumbers
<1>4. RedisType
  BY DEF RedisType
<1>5. ProcType
  BY DEF ProcType
<1>6. BoundType
  BY RoutingAssumption DEF BoundType
<1>7. HandlerOK
  BY DEF HandlerOK
<1>. QED  BY <1>1, <1>2, <1>3, <1>4, <1>5, <1>6, <1>7 DEF IInv, TypeOK

(* Every action of the job, the index, the database, the event handlers and
   the worker keeps the inductive invariant. *)
LEMMA NextIInv == IInv /\ [Next]_vars => IInv'
<1>. SUFFICES ASSUME IInv, [Next]_vars
              PROVE  IInv'
  OBVIOUS
<1>. USE DEF IInv, TypeOK
<1>1. ASSUME NEW m \in Messages, Submit(m)
      PROVE  IInv'
  <2>1. JobType'
    BY <1>1 DEF Submit, JobType
  <2>2. HandlerOK'
    BY <1>1, RoutingAssumption DEF Submit, HandlerOK, Recorded, JobType,
       HandlerType, DbType, dbVars
  <2>3. HandlerType' /\ IndexType' /\ DbType' /\ RedisType' /\ ProcType' /\
     BoundType'
    BY <1>1 DEF Submit, HandlerType, IndexType, DbType, RedisType, ProcType,
       BoundType, idxVars, dbVars, redisVars, procVars, boundVars
  <2>. QED  BY <2>1, <2>2, <2>3
<1>2. ASSUME NEW m \in Messages, Start(m)
      PROVE  IInv'
  <2>1. JobType'
    BY <1>2, RoutingAssumption DEF Start, JobType, HandlerOK
  <2>2. HandlerType'
    BY <1>2 DEF Start, HandlerType
  <2>3. HandlerOK'
    BY <1>2, RoutingAssumption DEF Start, HandlerOK, Recorded, JobType,
       HandlerType, DbType, dbVars
  <2>4. IndexType' /\ DbType' /\ RedisType' /\ ProcType' /\ BoundType'
    BY <1>2 DEF Start, IndexType, DbType, RedisType, ProcType, BoundType,
       idxVars, dbVars, redisVars, procVars, boundVars
  <2>. QED  BY <2>1, <2>2, <2>3, <2>4
<1>3. ASSUME NEW m \in Messages, CheckHydrated(m)
      PROVE  IInv'
  <2>1. IndexType'
    BY <1>3 DEF CheckHydrated, IndexType
  <2>2. ProcType'
    BY <1>3 DEF CheckHydrated, ProcType
  <2>3. JobType' /\ HandlerType' /\ DbType' /\ RedisType' /\ BoundType' /\
     HandlerOK'
    BY <1>3 DEF CheckHydrated, JobType, HandlerType, DbType, RedisType,
       BoundType, HandlerOK, Recorded, jobVars, stepVars, dbVars, redisVars,
       boundVars
  <2>. QED  BY <2>1, <2>2, <2>3
<1>4. ASSUME NEW m \in Messages, TakeLock(m)
      PROVE  IInv'
  <2>1. IndexType'
    BY <1>4 DEF TakeLock, IndexType
  <2>2. RedisType'
    BY <1>4 DEF TakeLock, RedisType, indexVars
  <2>3. ProcType'
    BY <1>4 DEF TakeLock, ProcType
  <2>4. JobType' /\ HandlerType' /\ DbType' /\ BoundType' /\ HandlerOK'
    BY <1>4 DEF TakeLock, JobType, HandlerType, DbType, BoundType, HandlerOK,
       Recorded, jobVars, stepVars, dbVars, indexVars, boundVars
  <2>. QED  BY <2>1, <2>2, <2>3, <2>4
<1>5. ASSUME NEW m \in Messages, FinishHydration(m)
      PROVE  IInv'
  <2>1. IndexType'
    BY <1>5 DEF FinishHydration, Indexes, IndexType
  <2>2. RedisType'
    BY <1>5 DEF FinishHydration, Indexes, RedisType, indexVars
  <2>3. ProcType'
    BY <1>5 DEF FinishHydration, Indexes, ProcType
  <2>4. JobType' /\ HandlerType' /\ DbType' /\ BoundType' /\ HandlerOK'
    BY <1>5 DEF FinishHydration, Indexes, JobType, HandlerType, DbType,
       BoundType, HandlerOK, Recorded, jobVars, stepVars, dbVars, indexVars,
       boundVars
  <2>. QED  BY <2>1, <2>2, <2>3, <2>4
<1>6. ASSUME NEW m \in Messages, LearnLimit(m)
      PROVE  IInv'
  <2>1. ProcType'
    BY <1>6 DEF LearnLimit, ProcType
  <2>2. JobType' /\ HandlerType' /\ IndexType' /\ DbType' /\ RedisType' /\
     BoundType' /\ HandlerOK'
    BY <1>6 DEF LearnLimit, JobType, HandlerType, IndexType, DbType,
       RedisType, BoundType, HandlerOK, Recorded, jobVars, stepVars, idxVars,
       dbVars, redisVars, boundVars
  <2>. QED  BY <2>1, <2>2
<1>7. ASSUME NEW m \in Messages, HydrateLocations(m)
      PROVE  IInv'
  <2>1. IndexType'
    BY <1>7 DEF HydrateLocations, SetPhase, Load, Indexes, IndexType
  <2>2. RedisType'
    BY <1>7 DEF HydrateLocations, SetPhase, Load, Indexes, RedisType,
       indexVars
  <2>3. JobType' /\ HandlerType' /\ DbType' /\ ProcType' /\ BoundType' /\
     HandlerOK'
    BY <1>7 DEF HydrateLocations, SetPhase, Load, Indexes, JobType,
       HandlerType, DbType, ProcType, BoundType, HandlerOK, Recorded, jobVars,
       stepVars, dbVars, indexVars, procVars, boundVars
  <2>. QED  BY <2>1, <2>2, <2>3
<1>8. ASSUME NEW m \in Messages, ReadUsage(m)
      PROVE  IInv'
  <2>1. IndexType'
    BY <1>8, CountType DEF ReadUsage, SetPhase, Indexes, Score, Absent,
       IndexType
  <2>2. JobType' /\ HandlerType' /\ DbType' /\ RedisType' /\ ProcType' /\
     BoundType' /\ HandlerOK'
    BY <1>8 DEF ReadUsage, SetPhase, Indexes, Score, Absent, JobType,
       HandlerType, DbType, RedisType, ProcType, BoundType, HandlerOK,
       Recorded, jobVars, stepVars, dbVars, redisVars, procVars, boundVars
  <2>. QED  BY <2>1, <2>2
<1>9. ASSUME NEW m \in Messages, WriteUsage(m)
      PROVE  IInv'
  <2>1. IndexType'
    BY <1>9 DEF WriteUsage, SetPhase, Load, Indexes, ZAddAll, Nothing, Score,
       Absent, IndexType
  <2>2. RedisType'
    BY <1>9 DEF WriteUsage, SetPhase, Load, Indexes, ZAddAll, Nothing, Score,
       Absent, RedisType, IndexType
  <2>3. JobType' /\ HandlerType' /\ DbType' /\ ProcType' /\ BoundType' /\
     HandlerOK'
    BY <1>9 DEF WriteUsage, SetPhase, Load, Indexes, ZAddAll, Nothing, Score,
       Absent, JobType, HandlerType, DbType, ProcType, BoundType, HandlerOK,
       Recorded, jobVars, stepVars, dbVars, procVars, boundVars
  <2>. QED  BY <2>1, <2>2, <2>3
<1>10. ASSUME NEW m \in Messages, ReadPending(m)
      PROVE  IInv'
  <2>1. IndexType'
    BY <1>10, CountType DEF ReadPending, SetPhase, Indexes, Score, Absent,
       IndexType
  <2>2. JobType' /\ HandlerType' /\ DbType' /\ RedisType' /\ ProcType' /\
     BoundType' /\ HandlerOK'
    BY <1>10 DEF ReadPending, SetPhase, Indexes, Score, Absent, JobType,
       HandlerType, DbType, RedisType, ProcType, BoundType, HandlerOK,
       Recorded, jobVars, stepVars, dbVars, redisVars, procVars, boundVars
  <2>. QED  BY <2>1, <2>2
<1>11. ASSUME NEW m \in Messages, WritePending(m)
      PROVE  IInv'
  <2>1. IndexType'
    BY <1>11 DEF WritePending, SetPhase, Load, Indexes, ZAddAll, Nothing,
       Score, Absent, IndexType
  <2>2. RedisType'
    BY <1>11 DEF WritePending, SetPhase, Load, Indexes, ZAddAll, Nothing,
       Score, Absent, RedisType, IndexType
  <2>3. JobType' /\ HandlerType' /\ DbType' /\ ProcType' /\ BoundType' /\
     HandlerOK'
    BY <1>11 DEF WritePending, SetPhase, Load, Indexes, ZAddAll, Nothing,
       Score, Absent, JobType, HandlerType, DbType, ProcType, BoundType,
       HandlerOK, Recorded, jobVars, stepVars, dbVars, procVars, boundVars
  <2>. QED  BY <2>1, <2>2, <2>3
<1>12. ASSUME NEW m \in Messages, LookupMapping(m)
      PROVE  IInv'
  <2>1. HandlerType'
    BY <1>12, RoutingAssumption DEF LookupMapping, HandlerType, DbType
  <2>2. IndexType'
    BY <1>12 DEF LookupMapping, IndexType
  <2>3. HandlerOK'
    BY <1>12, RoutingAssumption DEF LookupMapping, HandlerOK, Recorded,
       JobType, HandlerType, DbType, jobVars, dbVars
  <2>4. JobType' /\ DbType' /\ RedisType' /\ ProcType' /\ BoundType'
    BY <1>12 DEF LookupMapping, JobType, DbType, RedisType, ProcType,
       BoundType, jobVars, dbVars, redisVars, procVars, boundVars
  <2>. QED  BY <2>1, <2>2, <2>3, <2>4
<1>13. ASSUME NEW m \in Messages, ChooseLocation(m)
      PROVE  IInv'
  <2>1. JobType'
    BY <1>13 DEF ChooseLocation, Throw, EndHandler, JobType
  <2>2. HandlerType'
    BY <1>13 DEF ChooseLocation, Throw, EndHandler, HandlerType
  <2>3. IndexType'
    BY <1>13 DEF ChooseLocation, Throw, EndHandler, IndexType
  <2>4. HandlerOK'
    BY <1>13, RoutingAssumption DEF ChooseLocation, Throw, EndHandler,
       HandlerOK, Recorded, JobType, HandlerType, DbType, dbVars
  <2>5. DbType' /\ RedisType' /\ ProcType' /\ BoundType'
    BY <1>13 DEF ChooseLocation, Throw, EndHandler, DbType, RedisType,
       ProcType, BoundType, dbVars, redisVars, procVars, boundVars
  <2>. QED  BY <2>1, <2>2, <2>3, <2>4, <2>5
<1>14. ASSUME NEW m \in Messages, ChooseNumber(m)
      PROVE  IInv'
  <2>1. JobType'
    BY <1>14 DEF ChooseNumber, Throw, EndHandler, JobType
  <2>2. HandlerType'
    BY <1>14 DEF ChooseNumber, Throw, EndHandler, HandlerType
  <2>3. IndexType'
    BY <1>14 DEF ChooseNumber, Throw, EndHandler, IndexType
  <2>4. HandlerOK'
    BY <1>14, RoutingAssumption DEF ChooseNumber, Throw, EndHandler,
       HandlerOK, Recorded, JobType, HandlerType, DbType, dbVars
  <2>5. DbType' /\ RedisType' /\ ProcType' /\ BoundType'
    BY <1>14 DEF ChooseNumber, Throw, EndHandler, DbType, RedisType, ProcType,
       BoundType, dbVars, redisVars, procVars, boundVars
  <2>. QED  BY <2>1, <2>2, <2>3, <2>4, <2>5
<1>15. ASSUME NEW m \in Messages, ChoosePending(m)
      PROVE  IInv'
  <2>1. JobType'
    BY <1>15 DEF ChoosePending, Emptiest, Open, Throw, EndHandler, AllNumbers,
       JobType
  <2>2. HandlerType'
    BY <1>15 DEF ChoosePending, Emptiest, Open, Throw, EndHandler, AllNumbers,
       HandlerType
  <2>3. IndexType'
    BY <1>15 DEF ChoosePending, Emptiest, Open, Throw, EndHandler, AllNumbers,
       IndexType
  <2>4. HandlerOK'
    BY <1>15, RoutingAssumption DEF ChoosePending, Emptiest, Open, Throw,
       EndHandler, AllNumbers, HandlerOK, Recorded, JobType, HandlerType,
       DbType, dbVars
  <2>5. DbType' /\ RedisType' /\ ProcType' /\ BoundType'
    BY <1>15 DEF ChoosePending, Emptiest, Open, Throw, EndHandler, AllNumbers,
       DbType, RedisType, ProcType, BoundType, dbVars, redisVars, procVars,
       boundVars
  <2>. QED  BY <2>1, <2>2, <2>3, <2>4, <2>5
<1>16. ASSUME NEW m \in Messages, CheckRequest(m)
      PROVE  IInv'
  <2>1. JobType'
    BY <1>16 DEF CheckRequest, Retire, Throw, EndHandler, Score, Absent,
       JobType
  <2>2. HandlerType'
    BY <1>16 DEF CheckRequest, Retire, Throw, EndHandler, Score, Absent,
       HandlerType
  <2>3. RedisType'
    BY <1>16 DEF CheckRequest, Retire, Throw, EndHandler, Score, Absent,
       RedisType, HandlerOK
  <2>4. HandlerOK'
    BY <1>16, RoutingAssumption DEF CheckRequest, Retire, Throw, EndHandler,
       Score, Absent, HandlerOK, Recorded, JobType, HandlerType, DbType,
       dbVars
  <2>5. IndexType' /\ DbType' /\ ProcType' /\ BoundType'
    BY <1>16 DEF CheckRequest, Retire, Throw, EndHandler, Score, Absent,
       IndexType, DbType, ProcType, BoundType, idxVars, dbVars, procVars,
       boundVars
  <2>. QED  BY <2>1, <2>2, <2>3, <2>4, <2>5
<1>17. ASSUME NEW m \in Messages, CreateRequest(m)
      PROVE  IInv'
  <2>1. HandlerType'
    BY <1>17 DEF CreateRequest, AfterCreate, AllNumbers, HandlerType
  <2>2. DbType'
    BY <1>17 DEF CreateRequest, AfterCreate, AllNumbers, DbType
  <2>3. ProcType'
    BY <1>17 DEF CreateRequest, AfterCreate, AllNumbers, ProcType
  <2>4. HandlerOK'
    BY <1>17, RoutingAssumption DEF CreateRequest, AfterCreate, AllNumbers,
       HandlerOK, Recorded, JobType, HandlerType, DbType, jobVars
  <2>5. JobType' /\ IndexType' /\ RedisType' /\ BoundType'
    BY <1>17 DEF CreateRequest, AfterCreate, AllNumbers, JobType, IndexType,
       RedisType, BoundType, jobVars, idxVars, redisVars, boundVars
  <2>. QED  BY <2>1, <2>2, <2>3, <2>4, <2>5
<1>18. ASSUME NEW m \in Messages, InsertAwaiting(m)
      PROVE  IInv'
  <2>1. JobType'
    BY <1>18 DEF InsertAwaiting, Throw, EndHandler, AllNumbers, JobType
  <2>2. HandlerType'
    BY <1>18 DEF InsertAwaiting, Throw, EndHandler, AllNumbers, HandlerType
  <2>3. DbType'
    BY <1>18 DEF InsertAwaiting, Throw, EndHandler, AllNumbers, DbType,
       HandlerOK
  <2>4. ProcType'
    BY <1>18 DEF InsertAwaiting, Throw, EndHandler, AllNumbers, ProcType,
       HandlerType
  <2>5. HandlerOK'
    BY <1>18, RoutingAssumption DEF InsertAwaiting, Throw, EndHandler,
       AllNumbers, HandlerOK, Recorded, JobType, HandlerType, DbType
  <2>6. IndexType' /\ RedisType' /\ BoundType'
    BY <1>18 DEF InsertAwaiting, Throw, EndHandler, AllNumbers, IndexType,
       RedisType, BoundType, idxVars, redisVars, boundVars
  <2>. QED  BY <2>1, <2>2, <2>3, <2>4, <2>5, <2>6
<1>19. ASSUME NEW m \in Messages, InsertRouting(m)
      PROVE  IInv'
  <2>1. JobType'
    BY <1>19 DEF InsertRouting, MapContacts, Throw, EndHandler, AllNumbers,
       JobType
  <2>2. HandlerType'
    BY <1>19 DEF InsertRouting, MapContacts, Throw, EndHandler, AllNumbers,
       HandlerType
  <2>3. DbType'
    BY <1>19 DEF InsertRouting, MapContacts, Throw, EndHandler, AllNumbers,
       DbType, HandlerOK
  <2>4. ProcType'
    BY <1>19 DEF InsertRouting, MapContacts, Throw, EndHandler, AllNumbers,
       ProcType, HandlerType
  <2>5. HandlerOK'
    BY <1>19, RoutingAssumption DEF InsertRouting, MapContacts, Throw,
       EndHandler, AllNumbers, HandlerOK, Recorded, JobType, HandlerType,
       DbType
  <2>6. IndexType' /\ RedisType' /\ BoundType'
    BY <1>19 DEF InsertRouting, MapContacts, Throw, EndHandler, AllNumbers,
       IndexType, RedisType, BoundType, idxVars, redisVars, boundVars
  <2>. QED  BY <2>1, <2>2, <2>3, <2>4, <2>5, <2>6
<1>20. ASSUME NEW m \in Messages, Complete(m)
      PROVE  IInv'
  <2>1. JobType'
    BY <1>20 DEF Complete, EndHandler, JobType
  <2>2. HandlerType'
    BY <1>20 DEF Complete, EndHandler, HandlerType
  <2>3. HandlerOK'
    BY <1>20, RoutingAssumption DEF Complete, EndHandler, HandlerOK, Recorded,
       JobType, HandlerType, DbType, dbVars
  <2>4. IndexType' /\ DbType' /\ RedisType' /\ ProcType' /\ BoundType'
    BY <1>20 DEF Complete, EndHandler, IndexType, DbType, RedisType, ProcType,
       BoundType, idxVars, dbVars, redisVars, procVars, boundVars
  <2>. QED  BY <2>1, <2>2, <2>3, <2>4
<1>21. ASSUME NEW m \in Messages, DbError(m)
      PROVE  IInv'
  <2>1. JobType'
    BY <1>21 DEF DbError, Throw, EndHandler, JobType
  <2>2. HandlerType'
    BY <1>21 DEF DbError, Throw, EndHandler, HandlerType
  <2>3. BoundType'
    BY <1>21, RoutingAssumption DEF DbError, Throw, EndHandler, BoundType
  <2>4. HandlerOK'
    BY <1>21, RoutingAssumption DEF DbError, Throw, EndHandler, HandlerOK,
       Recorded, JobType, HandlerType, DbType, dbVars
  <2>5. IndexType' /\ DbType' /\ RedisType' /\ ProcType'
    BY <1>21 DEF DbError, Throw, EndHandler, IndexType, DbType, RedisType,
       ProcType, idxVars, dbVars, redisVars, procVars
  <2>. QED  BY <2>1, <2>2, <2>3, <2>4, <2>5
<1>22. ASSUME NEW m \in Messages, CheckClosed(m)
      PROVE  IInv'
  <2>1. ProcType'
    BY <1>22 DEF CheckClosed, NoEvent, ProcType
  <2>2. JobType' /\ HandlerType' /\ IndexType' /\ DbType' /\ RedisType' /\
     BoundType' /\ HandlerOK'
    BY <1>22 DEF CheckClosed, NoEvent, JobType, HandlerType, IndexType,
       DbType, RedisType, BoundType, HandlerOK, Recorded, jobVars, stepVars,
       idxVars, dbVars, redisVars, boundVars
  <2>. QED  BY <2>1, <2>2
<1>23. ASSUME NEW m \in Messages, CountAwaiting(m)
      PROVE  IInv'
  <2>1. RedisType'
    <3>1. pending' = [r \in DOMAIN pending |->
                        IF r = event[m].of THEN Increment(pending[r])
                                           ELSE pending[r]]
      BY <1>23 DEF CountAwaiting
    <3>2. pending' \in [Requests -> Score]
      BY <3>1, IncrementType DEF RedisType
    <3>. QED  BY <1>23, <3>2 DEF CountAwaiting, RedisType
  <2>2. ProcType'
    BY <1>23 DEF CountAwaiting, Increment, NoEvent, Score, Absent, ProcType
  <2>3. JobType' /\ HandlerType' /\ IndexType' /\ DbType' /\ BoundType' /\
     HandlerOK'
    BY <1>23 DEF CountAwaiting, Increment, NoEvent, Score, Absent, JobType,
       HandlerType, IndexType, DbType, BoundType, HandlerOK, Recorded,
       jobVars, stepVars, idxVars, dbVars, boundVars
  <2>. QED  BY <2>1, <2>2, <2>3
<1>24. ASSUME NEW m \in Messages, CountUsage(m)
      PROVE  IInv'
  <2>1. RedisType'
    <3>1. available' = [n \in DOMAIN available |->
                          IF n = event[m].of THEN Increment(available[n])
                                             ELSE available[n]]
      BY <1>24 DEF CountUsage
    <3>2. available' \in [AllNumbers -> Score]
      BY <3>1, IncrementType DEF RedisType
    <3>. QED  BY <1>24, <3>2 DEF CountUsage, RedisType
  <2>2. ProcType'
    BY <1>24 DEF CountUsage, Increment, NoEvent, Score, Absent, ProcType
  <2>3. JobType' /\ HandlerType' /\ IndexType' /\ DbType' /\ BoundType' /\
     HandlerOK'
    BY <1>24 DEF CountUsage, Increment, NoEvent, Score, Absent, JobType,
       HandlerType, IndexType, DbType, BoundType, HandlerOK, Recorded,
       jobVars, stepVars, idxVars, dbVars, boundVars
  <2>. QED  BY <2>1, <2>2, <2>3
<1>25. ASSUME NEW r \in Requests, AnnounceRequest(r)
      PROVE  IInv'
  <2>1. RedisType'
    BY <1>25 DEF AnnounceRequest, Score, Absent, RedisType
  <2>2. ProcType'
    BY <1>25 DEF AnnounceRequest, Score, Absent, ProcType
  <2>3. JobType' /\ HandlerType' /\ IndexType' /\ DbType' /\ BoundType' /\
     HandlerOK'
    BY <1>25 DEF AnnounceRequest, Score, Absent, JobType, HandlerType,
       IndexType, DbType, BoundType, HandlerOK, Recorded, jobVars, stepVars,
       idxVars, dbVars, boundVars
  <2>. QED  BY <2>1, <2>2, <2>3
<1>26. ASSUME NEW r \in Requests, Fulfil(r)
      PROVE  IInv'
  <2>1. DbType'
    BY <1>26 DEF Fulfil, ResolveJobs, DbType
  <2>2. JobType' /\ HandlerType' /\ IndexType' /\ RedisType' /\ ProcType' /\
     BoundType' /\ HandlerOK'
    BY <1>26 DEF Fulfil, ResolveJobs, JobType, HandlerType, IndexType,
       RedisType, ProcType, BoundType, HandlerOK, Recorded, jobVars, stepVars,
       idxVars, redisVars, procVars, boundVars
  <2>. QED  BY <2>1, <2>2
<1>27. ASSUME NEW r \in Requests, Resolve(r)
      PROVE  IInv'
  <2>1. DbType'
    <3>1. resolves' \in [Requests -> 0..3]
      BY <1>27 DEF Resolve, ResolveQueued, DbType
    <3>2. CASE Conflicts(WaitingFor(r))
      BY <1>27, <3>1, <3>2 DEF Resolve, DbType
    <3>3. CASE ~Conflicts(WaitingFor(r))
      BY <1>27, <3>1, <3>3 DEF Resolve, DbType, DeleteWaiting, MapContacts,
         AllNumbers
    <3>. QED  BY <3>2, <3>3
  <2>2. HandlerOK'
    BY <1>27, RoutingAssumption DEF Resolve, ResolveQueued, DeleteWaiting,
       WaitingFor, MapContacts, Conflicts, AllNumbers, HandlerOK, Recorded,
       JobType, HandlerType, DbType, jobVars, stepVars
  <2>3. JobType' /\ HandlerType' /\ IndexType' /\ RedisType' /\ ProcType' /\
     BoundType'
    BY <1>27 DEF Resolve, ResolveQueued, DeleteWaiting, WaitingFor,
       MapContacts, Conflicts, AllNumbers, JobType, HandlerType, IndexType,
       RedisType, ProcType, BoundType, jobVars, stepVars, idxVars, redisVars,
       procVars, boundVars
  <2>. QED  BY <2>1, <2>2, <2>3
<1>28. CASE Crash
  <2>1. JobType'
    BY <1>28 DEF Crash, Nothing, Score, Absent, NoEvent, Indexes, JobType
  <2>2. HandlerType'
    BY <1>28 DEF Crash, Nothing, Score, Absent, NoEvent, Indexes, HandlerType
  <2>3. IndexType'
    BY <1>28 DEF Crash, Nothing, Score, Absent, NoEvent, Indexes, IndexType
  <2>4. RedisType'
    BY <1>28 DEF Crash, Nothing, Score, Absent, NoEvent, Indexes, RedisType,
       indexVars
  <2>5. ProcType'
    BY <1>28 DEF Crash, Nothing, Score, Absent, NoEvent, Indexes, ProcType
  <2>6. BoundType'
    BY <1>28, RoutingAssumption DEF Crash, Nothing, Score, Absent, NoEvent,
       Indexes, BoundType
  <2>7. HandlerOK'
    BY <1>28, RoutingAssumption DEF Crash, Nothing, Score, Absent, NoEvent,
       Indexes, HandlerOK, Recorded, JobType, HandlerType, DbType, dbVars
  <2>8. DbType'
    BY <1>28 DEF Crash, Nothing, Score, Absent, NoEvent, Indexes, DbType,
       dbVars, indexVars
  <2>. QED  BY <2>1, <2>2, <2>3, <2>4, <2>5, <2>6, <2>7, <2>8
<1>29. CASE Flush
  <2>1. RedisType'
    BY <1>29 DEF Flush, Nothing, Score, Absent, Indexes, RedisType
  <2>2. BoundType'
    BY <1>29, RoutingAssumption DEF Flush, Nothing, Score, Absent, Indexes,
       BoundType
  <2>3. JobType' /\ HandlerType' /\ IndexType' /\ DbType' /\ ProcType' /\
     HandlerOK'
    BY <1>29 DEF Flush, Nothing, Score, Absent, Indexes, JobType, HandlerType,
       IndexType, DbType, ProcType, HandlerOK, Recorded, jobVars, stepVars,
       idxVars, dbVars, procVars
  <2>. QED  BY <2>1, <2>2, <2>3
<1>30. CASE UNCHANGED vars
  BY <1>30 DEF vars, JobType, HandlerType, IndexType, DbType, RedisType,
     ProcType,
     BoundType, HandlerOK, Recorded
<1>. QED
  BY <1>1, <1>2, <1>3, <1>4, <1>5, <1>6, <1>7, <1>8, <1>9, <1>10, <1>11,
     <1>12, <1>13, <1>14, <1>15, <1>16, <1>17, <1>18, <1>19, <1>20, <1>21,
     <1>22, <1>23, <1>24, <1>25, <1>26, <1>27, <1>28, <1>29, <1>30
     DEF Next, CallIndex, Handle, DeliverEvent

(* Every variable keeps its type, whatever crashes, flushes and errors
   happen to the worker, Redis and Postgres. *)
THEOREM TypeCorrect == Spec => []TypeOK
<1>1. IInv => TypeOK
  BY DEF IInv
<1>. QED  BY <1>1, InitIInv, NextIInv, PTL DEF Spec

-----------------------------------------------------------------------------
(* MessageRouting implements MessageLifecycle: each step of the routing code
   is a step of the message's life as its sender sees it, or none. *)

(* A step that leaves every status and every from-number alone is not seen. *)
LEMMA Stutter ==
  ASSUME routed' = routed,
         \A m \in Messages : StatusOf(m)' = StatusOf(m)
  PROVE  UNCHANGED Lifecycle!vars
BY DEF Lifecycle!vars

(* The steps that touch no job and neither message table are not seen. *)
LEMMA StutterNothingMoves ==
  ASSUME UNCHANGED <<job, awaiting, routed>>
  PROVE  UNCHANGED Lifecycle!vars
BY Stutter DEF StatusOf

(* A handler that throws abandons its message when the attempts are used up
   and nothing was recorded for it. *)
LEMMA ThrowStep ==
  ASSUME IInv, NEW m \in Messages, pc[m] # "idle", Throw(m),
         UNCHANGED <<awaiting, routed>>
  PROVE  [Lifecycle!Next]_(Lifecycle!vars)
<1>. USE DEF IInv, TypeOK
<1>1. /\ job[m] = "running"
      /\ job' = [job EXCEPT ![m] = job'[m]]
      /\ job'[m] \in {"queued", "parked"}
  BY DEF HandlerOK, Throw, JobType
<1>2. CASE Recorded(m) \/ job'[m] = "queued"
  <2>1. \A x \in Messages : StatusOf(x)' = StatusOf(x)
    BY <1>1, <1>2 DEF StatusOf, JobStatus, Recorded, JobType
  <2>. QED  BY <2>1, Stutter
<1>3. CASE ~Recorded(m) /\ job'[m] = "parked"
  <2>1. StatusOf(m) = "processing" /\ StatusOf(m)' = "abandoned"
    BY <1>1, <1>3 DEF StatusOf, JobStatus, Recorded
  <2>2. \A x \in Messages \ {m} : StatusOf(x)' = StatusOf(x)
    BY <1>1 DEF StatusOf, JobType
  <2>3. Lifecycle!Abandon({m})
    BY <2>1, <2>2 DEF Lifecycle!Abandon
  <2>. QED  BY <2>3 DEF Lifecycle!Next
<1>. QED  BY <1>1, <1>2, <1>3

(* Every step of the routing code is a step of the life of a message, or is
   not seen. *)
LEMMA LifecycleStep ==
  ASSUME IInv, [Next]_vars
  PROVE  [Lifecycle!Next]_(Lifecycle!vars)
<1>. USE DEF IInv, TypeOK
<1>1. ASSUME NEW m \in Messages, Submit(m)
      PROVE  [Lifecycle!Next]_(Lifecycle!vars)
  <2>0. UNCHANGED <<awaiting, routed>>
    BY <1>1 DEF Submit, dbVars
  <2>1. CASE Recorded(m)
    <3>1. \A x \in Messages : StatusOf(x)' = StatusOf(x)
      BY <1>1, <2>0, <2>1 DEF Submit, StatusOf, Recorded, JobType
    <3>. QED  BY <2>0, <3>1, Stutter
  <2>2. CASE ~Recorded(m)
    <3>1. StatusOf(m) = "new" /\ StatusOf(m)' = "processing"
      BY <1>1, <2>0, <2>2 DEF Submit, StatusOf, JobStatus, Recorded, JobType
    <3>2. \A x \in Messages \ {m} : StatusOf(x)' = StatusOf(x)
      BY <1>1, <2>0 DEF Submit, StatusOf, JobType
    <3>3. Lifecycle!Accept(m)
      BY <2>0, <3>1, <3>2 DEF Lifecycle!Accept
    <3>. QED  BY <3>3 DEF Lifecycle!Next
  <2>. QED  BY <2>1, <2>2
<1>2. ASSUME NEW m \in Messages, Start(m)
      PROVE  [Lifecycle!Next]_(Lifecycle!vars)
  <2>1. \A x \in Messages : StatusOf(x)' = StatusOf(x)
    BY <1>2 DEF Start, StatusOf, JobStatus, JobType, dbVars
  <2>. QED  BY <1>2, <2>1, Stutter DEF Start, dbVars
<1>3. ASSUME NEW m \in Messages, CallIndex(m) \/ DeliverEvent(m)
      PROVE  [Lifecycle!Next]_(Lifecycle!vars)
  BY <1>3, StutterNothingMoves
     DEF CallIndex, DeliverEvent, CheckHydrated, TakeLock, FinishHydration,
         LearnLimit, HydrateLocations, ReadUsage, WriteUsage, ReadPending,
         WritePending, CheckClosed, CountAwaiting, CountUsage, jobVars, dbVars
<1>4. ASSUME NEW m \in Messages,
             LookupMapping(m) \/ CreateRequest(m)
      PROVE  [Lifecycle!Next]_(Lifecycle!vars)
  BY <1>4, StutterNothingMoves DEF LookupMapping, CreateRequest, jobVars,
     dbVars
<1>5. ASSUME NEW m \in Messages,
             ChooseLocation(m) \/ ChooseNumber(m) \/ ChoosePending(m)
               \/ CheckRequest(m) \/ DbError(m)
      PROVE  [Lifecycle!Next]_(Lifecycle!vars)
  <2>1. UNCHANGED <<awaiting, routed>> /\ pc[m] # "idle"
    BY <1>5 DEF ChooseLocation, ChooseNumber, ChoosePending, CheckRequest,
       DbError, dbVars
  <2>2. Throw(m) \/ UNCHANGED job
    BY <1>5 DEF ChooseLocation, ChooseNumber, ChoosePending, CheckRequest,
       DbError
  <2>. QED  BY <2>1, <2>2, ThrowStep, StutterNothingMoves
<1>6. ASSUME NEW m \in Messages, InsertAwaiting(m)
      PROVE  [Lifecycle!Next]_(Lifecycle!vars)
  <2>1. CASE awaiting[m] # None
    BY <1>6, <2>1, ThrowStep DEF InsertAwaiting
  <2>2. CASE awaiting[m] = None
    <3>0. /\ awaiting' = [awaiting EXCEPT ![m] = picked[m]]
          /\ picked[m] # None
          /\ UNCHANGED <<job, routed>>
      BY <1>6, <2>2, RoutingAssumption DEF InsertAwaiting, HandlerOK
    <3>1. job[m] = "running"
      BY <1>6 DEF InsertAwaiting, HandlerOK
    <3>2. \A x \in Messages \ {m} : StatusOf(x)' = StatusOf(x)
      BY <3>0 DEF StatusOf, DbType
    <3>3. CASE routed[m] # None
      <4>1. StatusOf(m)' = StatusOf(m)
        BY <3>0, <3>3 DEF StatusOf
      <4>. QED  BY <3>0, <3>2, <4>1, Stutter
    <3>4. CASE routed[m] = None
      <4>1. StatusOf(m) = "processing"
        BY <2>2, <3>1, <3>4 DEF StatusOf, JobStatus
      <4>2. StatusOf(m)' = "awaiting"
        BY <3>0, <3>4 DEF StatusOf, DbType
      <4>3. Lifecycle!Await(m)
        BY <3>0, <3>2, <4>1, <4>2 DEF Lifecycle!Await
      <4>. QED  BY <4>3 DEF Lifecycle!Next
    <3>. QED  BY <3>3, <3>4
  <2>. QED  BY <2>1, <2>2
<1>7. ASSUME NEW m \in Messages, InsertRouting(m)
      PROVE  [Lifecycle!Next]_(Lifecycle!vars)
  <2>1. CASE routed[m] # None
    BY <1>7, <2>1, ThrowStep DEF InsertRouting
  <2>2. CASE routed[m] = None
    <3>0. /\ routed' = [routed EXCEPT ![m] = picked[m]]
          /\ picked[m] \in AllNumbers
          /\ UNCHANGED <<job, awaiting>>
      BY <1>7, <2>2 DEF InsertRouting, HandlerOK
    <3>1. job[m] = "running"
      BY <1>7 DEF InsertRouting, HandlerOK
    <3>2. \A x \in Messages \ {m} : StatusOf(x)' = StatusOf(x)
      BY <3>0 DEF StatusOf, DbType
    <3>3. StatusOf(m) \in {"processing", "awaiting"}
      BY <2>2, <3>1 DEF StatusOf, JobStatus
    <3>4. StatusOf(m)' = "routed"
      BY <3>0, RoutingAssumption DEF StatusOf, DbType, AllNumbers
    <3>5. Lifecycle!Route(m, picked[m])
      BY <3>0, <3>2, <3>3, <3>4 DEF Lifecycle!Route
    <3>. QED  BY <3>0, <3>5 DEF Lifecycle!Next
  <2>. QED  BY <2>1, <2>2
<1>8. ASSUME NEW m \in Messages, Complete(m)
      PROVE  [Lifecycle!Next]_(Lifecycle!vars)
  <2>1. Recorded(m) /\ UNCHANGED <<awaiting, routed>>
    BY <1>8 DEF Complete, HandlerOK, dbVars
  <2>2. \A x \in Messages : StatusOf(x)' = StatusOf(x)
    BY <1>8, <2>1 DEF Complete, StatusOf, Recorded, JobType
  <2>. QED  BY <2>1, <2>2, Stutter
<1>9. ASSUME NEW r \in Requests, AnnounceRequest(r) \/ Fulfil(r)
      PROVE  [Lifecycle!Next]_(Lifecycle!vars)
  BY <1>9, StutterNothingMoves DEF AnnounceRequest, Fulfil, jobVars, dbVars
<1>10. ASSUME NEW r \in Requests, Resolve(r)
       PROVE  [Lifecycle!Next]_(Lifecycle!vars)
  <2>. DEFINE batch == WaitingFor(r)
  <2>0. UNCHANGED job
    BY <1>10 DEF Resolve, jobVars
  <2>1. CASE Conflicts(batch) \/ batch = {}
    <3>1. UNCHANGED <<awaiting, routed>>
      BY <1>10, <2>1 DEF Resolve, DeleteWaiting, DbType
    <3>. QED  BY <2>0, <3>1, StutterNothingMoves
  <2>2. CASE ~Conflicts(batch) /\ batch # {}
    <3>0. /\ awaiting' = [m \in Messages |->
                            IF m \in batch THEN None ELSE awaiting[m]]
          /\ routed' = [m \in Messages |->
                          IF m \in batch THEN r ELSE routed[m]]
      BY <1>10, <2>2 DEF Resolve, DeleteWaiting
    <3>1. \A m \in batch : StatusOf(m) = "awaiting" /\ StatusOf(m)' = "routed"
      BY <2>2, <3>0, RoutingAssumption DEF StatusOf, Conflicts, WaitingFor
    <3>2. \A m \in Messages \ batch : StatusOf(m)' = StatusOf(m)
      BY <2>0, <3>0 DEF StatusOf
    <3>3. batch \in SUBSET Messages
      BY DEF WaitingFor
    <3>4. Lifecycle!RouteWaiting(batch, r)
      BY <2>2, <3>0, <3>1, <3>2, <3>3 DEF Lifecycle!RouteWaiting
    <3>. QED  BY <3>3, <3>4 DEF Lifecycle!Next, AllNumbers
  <2>. QED  BY <2>1, <2>2
<1>11. CASE Crash
  <2>. DEFINE lost == {m \in Messages : /\ job[m] = "running"
                                        /\ attempts[m] >= MaxAttempts
                                        /\ ~Recorded(m)}
  <2>0. /\ UNCHANGED <<awaiting, routed>>
        /\ \A m \in Messages : job'[m] =
             IF job[m] # "running" THEN job[m]
             ELSE IF attempts[m] < MaxAttempts THEN "queued" ELSE "dead"
    BY <1>11 DEF Crash, dbVars
  <2>1. \A m \in lost : StatusOf(m) = "processing" /\ StatusOf(m)' =
     "abandoned"
    <3>1. SUFFICES ASSUME NEW m \in lost
                   PROVE  StatusOf(m) = "processing" /\ StatusOf(m)' = "abandoned"
      OBVIOUS
    <3>2. job'[m] = "dead"
      BY <2>0, RoutingAssumption DEF JobType
    <3>. QED  BY <2>0, <3>2 DEF StatusOf, JobStatus, Recorded
  <2>2. \A m \in Messages \ lost : StatusOf(m)' = StatusOf(m)
    <3>1. SUFFICES ASSUME NEW m \in Messages \ lost
                   PROVE  StatusOf(m)' = StatusOf(m)
      OBVIOUS
    <3>2. Recorded(m) \/ job'[m] = job[m]
            \/ (job[m] = "running" /\ job'[m] = "queued")
      BY <2>0, RoutingAssumption DEF JobType
    <3>. QED  BY <2>0, <3>2 DEF StatusOf, JobStatus, Recorded
  <2>3. CASE lost = {}
    BY <2>0, <2>2, <2>3, Stutter
  <2>4. CASE lost # {}
    <3>1. Lifecycle!Abandon(lost)
      BY <2>0, <2>1, <2>2, <2>4 DEF Lifecycle!Abandon
    <3>. QED  BY <3>1 DEF Lifecycle!Next
  <2>. QED  BY <2>3, <2>4
<1>12. CASE Flush \/ UNCHANGED vars
  BY <1>12, StutterNothingMoves DEF Flush, vars, jobVars, dbVars
<1>. QED
  BY <1>1, <1>2, <1>3, <1>4, <1>5, <1>6, <1>7, <1>8, <1>9, <1>10, <1>11, <1>12
     DEF Next, Handle

(* No message is routed twice, lost by a job that ends well, or given up once
   something is recorded for it, whatever crashes, flushes and errors happen:
   the primary keys of the two tables and the one-statement resolve job are
   enough. *)
THEOREM RoutingRefinesLifecycle == Spec => ImplementsLifecycle
<1>1. Init => Lifecycle!Init
  BY DEF Init, Lifecycle!Init, StatusOf, JobStatus
<1>2. IInv /\ [Next]_vars => [Lifecycle!Next]_(Lifecycle!vars)
  BY LifecycleStep
<1>. QED
  BY <1>1, <1>2, InitIInv, NextIInv, PTL
     DEF Spec, ImplementsLifecycle, Lifecycle!Spec

-----------------------------------------------------------------------------
(* A request that has no row is known nowhere. *)
Unasked(r) ==
  /\ ~announce[r]
  /\ pending[r] = Absent
  /\ resolves[r] = 0
  /\ \A m \in Messages :
       /\ awaiting[m] # r
       /\ pc[m] \in {"check", "await"} => picked[m] # r
       /\ event[m].kind \in {"check", "count"} => event[m].of # r
       /\ snapPending[m][r] = Absent

(* Only a fulfilled request has resolve jobs or is retired. *)
Bought(r) == resolves[r] > 0 \/ r \in closed => request[r] = "fulfilled"

Requested ==
  \A r \in Requests : Bought(r) /\ (request[r] = "unused" => Unasked(r))

(* An insert emits the one event of its message. *)
EventsOfRecorded == \A m \in Messages : event[m].kind # "none" => Recorded(m)

(* Unless Redis is flushed, an index that is ready has been loaded. *)
LoadedFirst ==
  /\ hydrated => \A i \in Indexes : loaded[i]
  /\ \A m \in Messages : /\ idx[m] = "ready" => hydrated
                         /\ \A i \in Indexes : phase[m][i] = "done" => loaded[i]
  /\ LimitKnown

(* Without crashes a handler that has recorded its message ends, so it never
   tries to record it again. *)
OnceRecorded ==
  \A m \in Messages :
    Recorded(m) => /\ pc[m] = "complete" \/ job[m] = "done"
                   /\ awaiting[m] = None \/ routed[m] = None

(* A handler about to wait for a number that has been bought is in time for
   a resolve job. *)
WaitsInTime ==
  \A m \in Messages : pc[m] = "await" /\ request[picked[m]] = "fulfilled" =>
    resolves[picked[m]] > 0

(* Without crashes and flushes one handler hydrates, before any request is
   made, and from then on the process listens. *)
HydratedOnce ==
  /\ handlersOn = hydrated
  /\ \A m \in Messages : idx[m] = "hydrate" => ~hydrated /\ lock
  /\ \A m, k \in Messages : idx[m] = "hydrate" /\ idx[k] = "hydrate" => m = k
  /\ \A m \in Messages :
       pc[m] \in {"number", "pending", "check", "create", "await"} => hydrated
  /\ ~hydrated => \A r \in Requests : request[r] = "unused"

(* A request is counted from the moment it is announced. *)
AnnouncedFirst == \A r \in Requests : announce[r] => pending[r] = Absent

Settled ==
  /\ OnceRecorded
  /\ Timely => WaitsInTime /\ NoneStranded
  /\ errors = 0 => NoRequestForNobody

Exact == HydratedOnce /\ AnnouncedFirst /\ PendingExact

RoutingInv ==
  /\ Requested
  /\ EventsOfRecorded
  /\ flushes = 0 => LoadedFirst
  /\ crashes = 0 => Settled
  /\ crashes = 0 /\ flushes = 0 => Exact

-----------------------------------------------------------------------------
(* The locals of a handler that ends or throws. *)
LEMMA EndedLocals ==
  ASSUME IInv, NEW m \in Messages, EndHandler(m)
  PROVE  /\ pc'[m] = "idle" /\ picked'[m] = None
         /\ \A x \in Messages \ {m} : pc'[x] = pc[x] /\ picked'[x] = picked[x]
BY DEF EndHandler, IInv, TypeOK, HandlerType

(* A step that makes no request, event or count of one. *)
LEMMA RequestedFrame ==
  ASSUME Requested, UNCHANGED <<request, resolves, awaiting>>,
         closed' \subseteq closed,
         \A r \in Requests : /\ announce'[r] => announce[r]
                             /\ pending'[r] \in {pending[r], Absent},
         \A m \in Messages :
           /\ pc'[m] \in {"check", "await"} =>
                pc[m] \in {"check", "await"} /\ picked'[m] = picked[m]
           /\ event'[m].kind \in {"check", "count"} => event'[m] = event[m]
           /\ \A r \in Requests :
                snapPending'[m][r] \in {snapPending[m][r], Absent}
  PROVE  Requested'
<1>1. \A r \in Requests : Bought(r)'
  BY DEF Requested, Bought
<1>2. \A r \in Requests : request'[r] = "unused" => Unasked(r)'
  BY DEF Requested, Unasked
<1>. QED  BY <1>1, <1>2 DEF Requested

(* A request that has no row is never chosen, announced or counted. *)
LEMMA RequestedStep == IInv /\ Requested /\ [Next]_vars => Requested'
<1>. SUFFICES ASSUME IInv, Requested, [Next]_vars
              PROVE  Requested'
  OBVIOUS
<1>. USE DEF IInv, TypeOK
<1>1. ASSUME NEW m \in Messages, Submit(m) \/ Start(m) \/ LookupMapping(m)
      PROVE  Requested'
  <2>1. /\ UNCHANGED <<request, resolves, awaiting, closed, announce, pending,
                       event, snapPending>>
        /\ \A x \in Messages : pc'[x] \in {"check", "await"} =>
             pc[x] \in {"check", "await"} /\ picked'[x] = picked[x]
    BY <1>1 DEF Submit, Start, LookupMapping, HandlerType, jobVars, stepVars,
       dbVars, redisVars, procVars, idxVars
  <2>. QED  BY <2>1, RequestedFrame
<1>2. ASSUME NEW m \in Messages,
             \/ CheckHydrated(m) \/ TakeLock(m) \/ FinishHydration(m)
             \/ LearnLimit(m) \/ HydrateLocations(m) \/ ReadUsage(m)
             \/ WriteUsage(m)
      PROVE  Requested'
  <2>1. UNCHANGED <<request, resolves, awaiting, closed, announce, pending,
                    event, snapPending, pc, picked>>
    BY <1>2 DEF CheckHydrated, TakeLock, FinishHydration, LearnLimit,
       HydrateLocations, ReadUsage, WriteUsage, stepVars, dbVars, redisVars,
       indexVars, procVars, idxVars
  <2>. QED  BY <2>1, RequestedFrame
<1>3. ASSUME NEW m \in Messages,
             Complete(m) \/ DbError(m) \/ ChooseLocation(m) \/ ChooseNumber(m)
      PROVE  Requested'
  <2>1. UNCHANGED <<request, resolves, awaiting, closed, announce, pending,
                    event, snapPending>>
    BY <1>3 DEF Complete, DbError, ChooseLocation, ChooseNumber, dbVars,
       redisVars, procVars, idxVars
  <2>2. \/ EndHandler(m)
        \/ \E p \in {"number", "route", "pending"} : pc' = [pc EXCEPT ![m] = p]
           /\ \A x \in Messages \ {m} : picked'[x] = picked[x]
    BY <1>3 DEF Complete, DbError, ChooseLocation, ChooseNumber, Throw,
       HandlerType
  <2>3. \A x \in Messages : pc'[x] \in {"check", "await"} =>
          pc[x] \in {"check", "await"} /\ picked'[x] = picked[x]
    BY <2>2, EndedLocals DEF HandlerType
  <2>. QED  BY <2>1, <2>3, RequestedFrame
<1>4. ASSUME NEW m \in Messages, ReadPending(m)
      PROVE  Requested'
  <2>1. UNCHANGED <<request, resolves, awaiting, closed, announce, pending,
                    event, pc, picked>>
    BY <1>4 DEF ReadPending, stepVars, dbVars, redisVars, procVars
  <2>2. \A x \in Messages, r \in Requests : request[r] = "unused" =>
          snapPending'[x][r] = Absent
    <3>1. ASSUME NEW x \in Messages, NEW r \in Requests, request[r] = "unused"
          PROVE  snapPending'[x][r] = Absent
      <4>1. Unasked(r)
        BY <3>1 DEF Requested
      <4>2. WaitingFor(r) = {}
        BY <4>1 DEF WaitingFor, Unasked
      <4>3. CASE x = m
        BY <1>4, <3>1, <4>2, <4>3 DEF ReadPending, IndexType
      <4>4. CASE x # m
        BY <1>4, <4>1, <4>4 DEF ReadPending, IndexType, Unasked
      <4>. QED  BY <4>3, <4>4
    <3>. QED  BY <3>1
  <2>. QED  BY <2>1, <2>2 DEF Requested, Bought, Unasked
<1>5. ASSUME NEW m \in Messages, WritePending(m)
      PROVE  Requested'
  <2>1. UNCHANGED <<request, resolves, awaiting, closed, announce, event, pc,
                    picked>>
    BY <1>5 DEF WritePending, stepVars, dbVars, procVars
  <2>2. \A r \in Requests : pending'[r] \in {pending[r], snapPending[m][r]}
    BY <1>5 DEF WritePending, ZAddAll, RedisType
  <2>3. \A x \in Messages, r \in Requests :
          snapPending'[x][r] \in {snapPending[x][r], Absent}
    BY <1>5 DEF WritePending, Nothing, IndexType
  <2>. QED  BY <2>1, <2>2, <2>3 DEF Requested, Bought, Unasked
<1>6. ASSUME NEW m \in Messages, ChoosePending(m)
      PROVE  Requested'
  <2>1. UNCHANGED <<request, resolves, awaiting, closed, announce, pending,
                    event, snapPending>>
    BY <1>6 DEF ChoosePending, dbVars, redisVars, procVars, idxVars
  <2>2. CASE EndHandler(m) \/ (pc' = [pc EXCEPT ![m] = "create"] /\ UNCHANGED picked)
    <3>1. \A x \in Messages : pc'[x] \in {"check", "await"} =>
            pc[x] \in {"check", "await"} /\ picked'[x] = picked[x]
      BY <2>2, EndedLocals DEF HandlerType
    <3>. QED  BY <2>1, <3>1, RequestedFrame
  <2>3. ASSUME NEW s \in Emptiest, pc' = [pc EXCEPT ![m] = "check"],
               picked' = [picked EXCEPT ![m] = s]
        PROVE  Requested'
    <3>1. s \in Requests /\ pending[s] # Absent
      BY DEF Emptiest, Open, Absent
    <3>2. \A x \in Messages : /\ x # m => pc'[x] = pc[x] /\ picked'[x] = picked[x]
                              /\ x = m => picked'[x] = s
      BY <2>3 DEF HandlerType
    <3>. QED  BY <2>1, <3>1, <3>2 DEF Requested, Bought, Unasked
  <2>. QED  BY <1>6, <2>2, <2>3 DEF ChoosePending, Throw
<1>7. ASSUME NEW m \in Messages, CheckRequest(m)
      PROVE  Requested'
  <2>1. UNCHANGED <<request, resolves, awaiting, announce, event, snapPending>>
        /\ picked[m] \in Requests
    BY <1>7 DEF CheckRequest, dbVars, procVars, idxVars, HandlerOK
  <2>2. CASE Fulfilled(picked[m]) /\ Retire(picked[m]) /\ EndHandler(m)
    <3>1. /\ \A x \in Messages : pc'[x] \in {"check", "await"} =>
               pc[x] \in {"check", "await"} /\ picked'[x] = picked[x]
      BY <2>2, EndedLocals
    <3>2. \A r \in Requests : pending'[r] \in {pending[r], Absent}
      BY <2>2 DEF Retire, RedisType
    <3>. QED
      BY <2>1, <2>2, <3>1, <3>2 DEF Requested, Bought, Unasked, Retire, Fulfilled
  <2>3. CASE pc' = [pc EXCEPT ![m] = "await"]
             /\ UNCHANGED <<picked, pending, closed>>
    <3>1. \A x \in Messages : pc'[x] \in {"check", "await"} =>
            pc[x] \in {"check", "await"} /\ picked'[x] = picked[x]
      BY <1>7, <2>3 DEF CheckRequest, HandlerType
    <3>. QED  BY <2>1, <2>3, <3>1, RequestedFrame
  <2>. QED  BY <1>7, <2>2, <2>3 DEF CheckRequest, Throw
<1>8. ASSUME NEW m \in Messages, CreateRequest(m)
      PROVE  Requested'
  <2>1. PICK s \in Requests :
          /\ request[s] = "unused"
          /\ request' = [request EXCEPT ![s] = "pending"]
          /\ announce' = [announce EXCEPT ![s] = handlersOn]
          /\ picked' = [picked EXCEPT ![m] = s]
    BY <1>8 DEF CreateRequest
  <2>2. UNCHANGED <<resolves, awaiting, closed, pending, event, snapPending>>
    BY <1>8 DEF CreateRequest, redisVars, idxVars
  <2>3. /\ request'[s] = "pending"
        /\ \A r \in Requests \ {s} : /\ request'[r] = request[r]
                                    /\ announce'[r] = announce[r]
        /\ picked'[m] = s
        /\ \A x \in Messages \ {m} : picked'[x] = picked[x] /\ pc'[x] = pc[x]
    BY <1>8, <2>1 DEF CreateRequest, DbType, ProcType, HandlerType
  <2>4. Bought(s)'
    BY <2>1, <2>2, <2>3 DEF Requested, Bought, DbType
  <2>. QED  BY <2>2, <2>3, <2>4 DEF Requested, Bought, Unasked
<1>9. ASSUME NEW m \in Messages, InsertAwaiting(m)
      PROVE  Requested'
  <2>1. UNCHANGED <<request, resolves, closed, announce, pending, snapPending>>
        /\ picked[m] \in Requests /\ pc[m] = "await"
    BY <1>9 DEF InsertAwaiting, redisVars, idxVars, HandlerOK
  <2>2. CASE EndHandler(m) /\ UNCHANGED <<awaiting, event>>
    <3>1. /\ \A x \in Messages : pc'[x] \in {"check", "await"} =>
               pc[x] \in {"check", "await"} /\ picked'[x] = picked[x]
      BY <2>2, EndedLocals
    <3>. QED  BY <2>1, <2>2, <3>1, RequestedFrame
  <2>3. CASE awaiting[m] = None
    <3>1. /\ awaiting'[m] = picked[m]
          /\ event'[m] = event[m] \/ event'[m].of = picked[m]
          /\ pc'[m] = "complete"
          /\ \A x \in Messages \ {m} : /\ awaiting'[x] = awaiting[x]
                                       /\ event'[x] = event[x]
                                       /\ pc'[x] = pc[x]
          /\ UNCHANGED picked
      BY <1>9, <2>3 DEF InsertAwaiting, DbType, ProcType, HandlerType
    <3>. QED  BY <2>1, <3>1 DEF Requested, Bought, Unasked
  <2>. QED  BY <1>9, <2>2, <2>3 DEF InsertAwaiting, Throw
<1>10. ASSUME NEW m \in Messages, InsertRouting(m)
       PROVE  Requested'
  <2>1. UNCHANGED <<request, resolves, awaiting, closed, announce, pending,
                    snapPending>>
    BY <1>10 DEF InsertRouting, redisVars, idxVars
  <2>2. \A x \in Messages : pc'[x] \in {"check", "await"} =>
          pc[x] \in {"check", "await"} /\ picked'[x] = picked[x]
    BY <1>10, EndedLocals DEF InsertRouting, Throw, HandlerType
  <2>3. \A x \in Messages : event'[x].kind \in {"check", "count"} =>
          event'[x] = event[x]
    BY <1>10 DEF InsertRouting, ProcType
  <2>. QED  BY <2>1, <2>2, <2>3, RequestedFrame
<1>11. ASSUME NEW m \in Messages, DeliverEvent(m)
       PROVE  Requested'
  <2>1. UNCHANGED <<request, resolves, awaiting, closed, announce, snapPending,
                    pc, picked>>
    BY <1>11 DEF DeliverEvent, CheckClosed, CountAwaiting, CountUsage, dbVars,
       redisVars, idxVars, stepVars
  <2>2. \A x \in Messages : event'[x].kind \in {"check", "count"} =>
          event[x].kind \in {"check", "count"} /\ event'[x].of = event[x].of
    BY <1>11 DEF DeliverEvent, CheckClosed, CountAwaiting, CountUsage, NoEvent,
       ProcType
  <2>3. \A r \in Requests : \/ pending'[r] = pending[r]
                            \/ event[m].kind = "count" /\ event[m].of = r
    BY <1>11 DEF DeliverEvent, CheckClosed, CountAwaiting, CountUsage,
       redisVars, RedisType
  <2>. QED  BY <2>1, <2>2, <2>3 DEF Requested, Bought, Unasked
<1>12. ASSUME NEW r \in Requests, AnnounceRequest(r)
       PROVE  Requested'
  <2>1. /\ announce[r]
        /\ UNCHANGED <<request, resolves, awaiting, closed, event, snapPending,
                       pc, picked>>
        /\ \A s \in Requests \ {r} : /\ announce'[s] = announce[s]
                                     /\ pending'[s] = pending[s]
    BY <1>12 DEF AnnounceRequest, dbVars, idxVars, stepVars, ProcType,
       RedisType
  <2>. QED  BY <2>1 DEF Requested, Bought, Unasked
<1>13. ASSUME NEW r \in Requests, Fulfil(r)
       PROVE  Requested'
  <2>1. /\ request'[r] = "fulfilled"
        /\ UNCHANGED <<awaiting, closed, announce, pending, event, snapPending,
                       pc, picked>>
        /\ \A s \in Requests \ {r} : /\ request'[s] = request[s]
                                     /\ resolves'[s] = resolves[s]
    BY <1>13 DEF Fulfil, redisVars, procVars, idxVars, stepVars, DbType
  <2>. QED  BY <2>1 DEF Requested, Bought, Unasked
<1>14. ASSUME NEW r \in Requests, Resolve(r)
       PROVE  Requested'
  <2>1. /\ resolves[r] > 0
        /\ UNCHANGED <<request, closed, announce, pending, event, snapPending,
                       pc, picked>>
        /\ \A s \in Requests \ {r} : resolves'[s] = resolves[s]
        /\ \A m \in Messages : awaiting'[m] \in {awaiting[m], None}
    BY <1>14 DEF Resolve, ResolveQueued, DeleteWaiting, redisVars, procVars,
       idxVars, stepVars, DbType
  <2>2. request[r] = "fulfilled"
    BY <2>1 DEF Requested, Bought
  <2>. QED
    BY <2>1, <2>2, RoutingAssumption DEF Requested, Bought, Unasked
<1>15. CASE Crash
  <2>1. /\ UNCHANGED <<request, resolves, awaiting, closed, pending>>
        /\ \A x \in Messages : pc'[x] = "idle" /\ event'[x].kind = "none"
        /\ \A r \in Requests : announce'[r] = FALSE
        /\ \A x \in Messages, r \in Requests : snapPending'[x][r] = Absent
    BY <1>15 DEF Crash, NoEvent, Nothing, dbVars, indexVars
  <2>. QED  BY <2>1, RequestedFrame
<1>16. CASE Flush \/ UNCHANGED vars
  <2>1. /\ UNCHANGED <<request, resolves, awaiting, announce, event,
                       snapPending, pc, picked>>
        /\ closed' \subseteq closed
        /\ \A r \in Requests : pending'[r] \in {pending[r], Absent}
    BY <1>16 DEF Flush, vars, Nothing, dbVars, procVars, idxVars, stepVars
  <2>. QED  BY <2>1, RequestedFrame
<1>. QED
  BY <1>1, <1>2, <1>3, <1>4, <1>5, <1>6, <1>7, <1>8, <1>9, <1>10, <1>11, <1>12,
     <1>13, <1>14, <1>15, <1>16 DEF Next, CallIndex, Handle

(* What is recorded of a message stays recorded. *)
LEMMA RecordedStays ==
  ASSUME IInv, [Next]_vars, NEW m \in Messages, Recorded(m)
  PROVE  Recorded(m)'
<1>. USE DEF IInv, TypeOK
<1>1. CASE UNCHANGED <<awaiting, routed>>
  BY <1>1 DEF Recorded
<1>2. ASSUME NEW x \in Messages, InsertAwaiting(x)
      PROVE  Recorded(m)'
  BY <1>2, RoutingAssumption DEF InsertAwaiting, Recorded, HandlerOK, DbType
<1>3. ASSUME NEW x \in Messages, InsertRouting(x)
      PROVE  Recorded(m)'
  BY <1>3, RoutingAssumption DEF InsertRouting, Recorded, HandlerOK, DbType,
     AllNumbers
<1>4. ASSUME NEW r \in Requests, Resolve(r)
      PROVE  Recorded(m)'
  <2>1. CASE UNCHANGED <<awaiting, routed>>
    BY <2>1 DEF Recorded
  <2>2. CASE /\ DeleteWaiting(WaitingFor(r))
             /\ routed' = [x \in Messages |->
                             IF x \in WaitingFor(r) THEN r ELSE routed[x]]
    BY <2>2, RoutingAssumption DEF DeleteWaiting, Recorded
  <2>. QED  BY <1>4, <2>1, <2>2 DEF Resolve
<1>. QED
  BY <1>1, <1>2, <1>3, <1>4
     DEF Next, CallIndex, Handle, DeliverEvent, Submit, Start, CheckHydrated,
         TakeLock, FinishHydration, LearnLimit, HydrateLocations, ReadUsage,
         WriteUsage, ReadPending, WritePending, LookupMapping, ChooseLocation,
         ChooseNumber, ChoosePending, CheckRequest, CreateRequest, Complete,
         DbError, CheckClosed, CountAwaiting, CountUsage, AnnounceRequest,
         Fulfil, Crash, Flush, dbVars, vars

(* Only an insert emits the event of its message. *)
LEMMA EventsStep == IInv /\ EventsOfRecorded /\ [Next]_vars => EventsOfRecorded'
<1>. SUFFICES ASSUME IInv, EventsOfRecorded, [Next]_vars
              PROVE  EventsOfRecorded'
  OBVIOUS
<1>. USE DEF IInv, TypeOK
<1>1. \A m \in Messages : event'[m].kind # "none" =>
        event[m].kind # "none" \/ Recorded(m)'
  <2>1. ASSUME NEW m \in Messages, InsertAwaiting(m) \/ InsertRouting(m)
        PROVE  \A x \in Messages : event'[x].kind # "none" =>
                 event[x].kind # "none" \/ Recorded(x)'
    <3>1. \A x \in Messages \ {m} : event'[x] = event[x]
      BY <2>1 DEF InsertAwaiting, InsertRouting, ProcType
    <3>2. event' = event \/ Recorded(m)'
      BY <2>1, RoutingAssumption DEF InsertAwaiting, InsertRouting, Recorded,
         HandlerOK, DbType, AllNumbers
    <3>. QED  BY <3>1, <3>2
  <2>2. ASSUME NEW m \in Messages, DeliverEvent(m)
        PROVE  \A x \in Messages : event'[x].kind # "none" =>
                 event[x].kind # "none"
    BY <2>2 DEF DeliverEvent, CheckClosed, CountAwaiting, CountUsage, NoEvent,
       ProcType
  <2>3. CASE Crash
    BY <2>3 DEF Crash, NoEvent
  <2>4. CASE UNCHANGED event
    BY <2>4
  <2>. QED
    BY <2>1, <2>2, <2>3, <2>4
       DEF Next, CallIndex, Handle, Submit, Start, CheckHydrated, TakeLock,
           FinishHydration, LearnLimit, HydrateLocations, ReadUsage,
           WriteUsage, ReadPending, WritePending, LookupMapping,
           ChooseLocation, ChooseNumber, ChoosePending, CheckRequest,
           CreateRequest, Complete, DbError, AnnounceRequest, Fulfil, Resolve,
           Flush, procVars, vars
<1>. QED  BY <1>1, RecordedStays DEF EventsOfRecorded

-----------------------------------------------------------------------------
(* Unless Redis is flushed, nothing is read before it is loaded. *)
LEMMA LoadedStep ==
  ASSUME IInv, LoadedFirst, [Next]_vars, flushes' = flushes
  PROVE  LoadedFirst'
<1>. USE DEF IInv, TypeOK
<1>1. ASSUME UNCHANGED <<hydrated, loaded, memo, phase>>,
             \A m \in Messages : idx'[m] = "ready" => idx[m] = "ready" \/ hydrated
      PROVE  LoadedFirst'
  BY <1>1 DEF LoadedFirst, LimitKnown
<1>2. CASE UNCHANGED <<hydrated, loaded, memo, phase, idx>>
  BY <1>1, <1>2
<1>3. ASSUME NEW m \in Messages, CheckHydrated(m) \/ TakeLock(m)
      PROVE  LoadedFirst'
  <2>1. UNCHANGED <<hydrated, loaded, memo, phase>>
    BY <1>3 DEF CheckHydrated, TakeLock, redisVars
  <2>2. \A x \in Messages : idx'[x] = "ready" => idx[x] = "ready" \/ hydrated
    BY <1>3 DEF CheckHydrated, TakeLock, IndexType
  <2>. QED  BY <1>1, <2>1, <2>2
<1>4. ASSUME NEW m \in Messages, FinishHydration(m)
      PROVE  LoadedFirst'
  <2>1. /\ UNCHANGED <<loaded, memo>> /\ hydrated'
        /\ \A i \in Indexes : phase[m][i] = "done"
        /\ \A x \in Messages, i \in Indexes :
             phase'[x][i] = "done" => phase[x][i] = "done"
    BY <1>4 DEF FinishHydration, AllLoaded, IndexType
  <2>. QED  BY <2>1 DEF LoadedFirst, LimitKnown
<1>5. ASSUME NEW m \in Messages, LearnLimit(m)
      PROVE  LoadedFirst'
  <2>1. /\ UNCHANGED <<hydrated, loaded, idx, phase>>
        /\ \A i \in Indexes : loaded[i]
        /\ pc[m] \in {"number", "pending"}
        /\ memo' = [memo EXCEPT ![pc[m]] = IF loaded[pc[m]] THEN "ok" ELSE "nan"]
    BY <1>5 DEF LearnLimit, LoadedFirst, redisVars, idxVars
  <2>2. loaded[pc[m]]
    BY <2>1 DEF Indexes
  <2>3. \A i \in DOMAIN memo' : memo'[i] # "nan"
    BY <2>1, <2>2 DEF ProcType, LoadedFirst, LimitKnown
  <2>. QED  BY <2>1, <2>3 DEF LoadedFirst, LimitKnown
<1>6. ASSUME NEW m \in Messages, NEW i \in Indexes, Load(i),
             UNCHANGED <<hydrated, memo, idx>>,
             SetPhase(m, i, "done")
      PROVE  LoadedFirst'
  <2>1. \A k \in Indexes : loaded'[k] <=> loaded[k] \/ k = i
    BY <1>6 DEF Load, RedisType
  <2>2. \A x \in Messages, k \in Indexes :
          phase'[x][k] = "done" => phase[x][k] = "done" \/ k = i
    BY <1>6 DEF SetPhase, IndexType
  <2>. QED  BY <1>6, <2>1, <2>2 DEF LoadedFirst, LimitKnown
<1>7. ASSUME NEW m \in Messages,
             HydrateLocations(m) \/ WriteUsage(m) \/ WritePending(m)
      PROVE  LoadedFirst'
  BY <1>6, <1>7 DEF HydrateLocations, WriteUsage, WritePending, procVars,
     Indexes
<1>8. ASSUME NEW m \in Messages, ReadUsage(m) \/ ReadPending(m)
      PROVE  LoadedFirst'
  <2>1. /\ UNCHANGED <<hydrated, loaded, memo, idx>>
        /\ \A x \in Messages, k \in Indexes :
             phase'[x][k] = "done" => phase[x][k] = "done"
    BY <1>8 DEF ReadUsage, ReadPending, SetPhase, redisVars, procVars,
       IndexType, Indexes
  <2>. QED  BY <2>1 DEF LoadedFirst, LimitKnown
<1>9. ASSUME NEW m \in Messages,
             \/ LookupMapping(m) \/ ChooseLocation(m) \/ ChooseNumber(m)
             \/ ChoosePending(m)
      PROVE  LoadedFirst'
  <2>1. UNCHANGED <<hydrated, loaded, memo, phase>>
    BY <1>9 DEF LookupMapping, ChooseLocation, ChooseNumber, ChoosePending,
       redisVars, procVars
  <2>2. \A x \in Messages : idx'[x] = "ready" => idx[x] = "ready"
    BY <1>9 DEF LookupMapping, ChooseLocation, ChooseNumber, ChoosePending,
       IndexType
  <2>. QED  BY <1>1, <2>1, <2>2
<1>10. CASE Crash
  BY <1>10 DEF Crash, LoadedFirst, LimitKnown
<1>11. CASE Flush
  BY <1>11 DEF Flush, BoundType
<1>. QED
  BY <1>2, <1>3, <1>4, <1>5, <1>7, <1>8, <1>9, <1>10, <1>11
     DEF Next, CallIndex, Handle, Submit, Start, CheckRequest, CreateRequest,
         InsertAwaiting, InsertRouting, Complete, DbError, DeliverEvent,
         CheckClosed, CountAwaiting, CountUsage, AnnounceRequest, Fulfil,
         Resolve, Retire, redisVars, procVars, idxVars, vars

-----------------------------------------------------------------------------
(* While no worker crashes, no handler records a message twice. *)
LEMMA OnceRecordedStep ==
  ASSUME IInv, OnceRecorded, [Next]_vars, crashes' = crashes
  PROVE  OnceRecorded'
<1>. USE DEF IInv, TypeOK
<1>1. ASSUME NEW m \in Messages,
             \/ Submit(m) \/ Start(m) \/ CallIndex(m) \/ DeliverEvent(m)
             \/ LookupMapping(m) \/ ChooseLocation(m) \/ ChooseNumber(m)
             \/ ChoosePending(m) \/ CheckRequest(m) \/ CreateRequest(m)
             \/ Complete(m) \/ DbError(m)
      PROVE  OnceRecorded'
  <2>1. UNCHANGED <<awaiting, routed>>
    BY <1>1 DEF Submit, Start, CallIndex, DeliverEvent, CheckHydrated,
       TakeLock, FinishHydration, LearnLimit, HydrateLocations, ReadUsage,
       WriteUsage, ReadPending, WritePending, CheckClosed, CountAwaiting,
       CountUsage, LookupMapping, ChooseLocation, ChooseNumber,
       ChoosePending, CheckRequest, CreateRequest, Complete, DbError, dbVars
  <2>2. \A x \in Messages \ {m} : pc'[x] = pc[x] /\ job'[x] = job[x]
    BY <1>1 DEF Submit, Start, CallIndex, DeliverEvent, CheckHydrated,
       TakeLock, FinishHydration, LearnLimit, HydrateLocations, ReadUsage,
       WriteUsage, ReadPending, WritePending, CheckClosed, CountAwaiting,
       CountUsage, LookupMapping, ChooseLocation, ChooseNumber,
       ChoosePending, CheckRequest, CreateRequest, Complete, DbError,
       Throw, EndHandler, jobVars, stepVars, JobType, HandlerType
  <2>3. pc[m] = "complete" \/ job[m] = "done" =>
          pc'[m] = "complete" \/ job'[m] = "done"
    BY <1>1 DEF Submit, Start, CallIndex, DeliverEvent, CheckHydrated,
       TakeLock, FinishHydration, LearnLimit, HydrateLocations, ReadUsage,
       WriteUsage, ReadPending, WritePending, CheckClosed, CountAwaiting,
       CountUsage, LookupMapping, ChooseLocation, ChooseNumber,
       ChoosePending, CheckRequest, CreateRequest, Complete, DbError,
       Throw, EndHandler, jobVars, stepVars, JobType, HandlerType, HandlerOK
  <2>. QED  BY <2>1, <2>2, <2>3 DEF OnceRecorded, Recorded
<1>2. ASSUME NEW m \in Messages, InsertAwaiting(m) \/ InsertRouting(m)
      PROVE  OnceRecorded'
  <2>1. ~Recorded(m)
    BY <1>2 DEF InsertAwaiting, InsertRouting, OnceRecorded, HandlerOK
  <2>2. /\ \A x \in Messages \ {m} : /\ pc'[x] = pc[x]
                                     /\ job'[x] = job[x]
                                     /\ awaiting'[x] = awaiting[x]
                                     /\ routed'[x] = routed[x]
        /\ pc'[m] = "complete"
        /\ awaiting'[m] = None \/ routed'[m] = None
    BY <1>2, <2>1 DEF InsertAwaiting, InsertRouting, Recorded, HandlerType,
       DbType
  <2>. QED  BY <2>2 DEF OnceRecorded, Recorded
<1>3. ASSUME NEW r \in Requests, AnnounceRequest(r) \/ Fulfil(r)
      PROVE  OnceRecorded'
  BY <1>3 DEF AnnounceRequest, Fulfil, jobVars, stepVars, dbVars,
     OnceRecorded, Recorded
<1>4. ASSUME NEW r \in Requests, Resolve(r)
      PROVE  OnceRecorded'
  <2>1. UNCHANGED <<job, pc>>
    BY <1>4 DEF Resolve, jobVars, stepVars
  <2>2. \A m \in Messages :
          \/ awaiting'[m] = awaiting[m] /\ routed'[m] = routed[m]
          \/ Recorded(m) /\ awaiting'[m] = None
    BY <1>4 DEF Resolve, DeleteWaiting, WaitingFor, Recorded, DbType
  <2>. QED  BY <2>1, <2>2 DEF OnceRecorded, Recorded
<1>5. CASE Crash
  BY <1>5 DEF Crash, BoundType
<1>6. CASE Flush \/ UNCHANGED vars
  BY <1>6 DEF Flush, vars, jobVars, stepVars, dbVars, OnceRecorded, Recorded
<1>. QED
  BY <1>1, <1>2, <1>3, <1>4, <1>5, <1>6 DEF Next, Handle

(* A step that moves no handler to or from the insert of an awaiting row. *)
LEMMA WaitsFrame ==
  ASSUME UNCHANGED <<request, resolves, awaiting>>,
         \A m \in Messages :
           /\ pc'[m] = "await" <=> pc[m] = "await"
           /\ pc[m] = "await" => picked'[m] = picked[m]
  PROVE  /\ WaitsInTime /\ NoneStranded => WaitsInTime' /\ NoneStranded'
         /\ NoRequestForNobody => NoRequestForNobody'
<1>1. WaitsInTime /\ NoneStranded => WaitsInTime' /\ NoneStranded'
  BY DEF WaitsInTime, NoneStranded
<1>2. NoRequestForNobody => NoRequestForNobody'
  BY DEF NoRequestForNobody, WaitingFor
<1>. QED  BY <1>1, <1>2

(* While no worker crashes, no step strands a message that waits, or leaves a
   request without one. *)
LEMMA SettledStep ==
  ASSUME IInv, Requested, Settled, [Next]_vars, crashes' = crashes,
         errors' = 0 => errors = 0
  PROVE  Settled'
<1>. USE DEF IInv, TypeOK
<1>1. OnceRecorded'
  BY OnceRecordedStep DEF Settled
<1>. DEFINE Waits == /\ Timely => WaitsInTime /\ NoneStranded
                     /\ errors = 0 => NoRequestForNobody
<1>2. Waits
  BY DEF Settled
<1>3. ASSUME UNCHANGED <<request, resolves, awaiting>>,
             \A m \in Messages :
               /\ pc'[m] = "await" <=> pc[m] = "await"
               /\ pc[m] = "await" => picked'[m] = picked[m]
      PROVE  Waits'
  BY <1>2, <1>3, WaitsFrame
<1>4. ASSUME UNCHANGED <<request, resolves, awaiting, pc, picked>>
      PROVE  Waits'
  BY <1>3, <1>4
<1>5. ASSUME NEW m \in Messages,
             \/ Submit(m) \/ Start(m) \/ LookupMapping(m) \/ ChooseLocation(m)
             \/ ChooseNumber(m) \/ ChoosePending(m) \/ Complete(m)
             \/ InsertRouting(m)
      PROVE  Waits'
  <2>1. UNCHANGED <<request, resolves, awaiting>>
    BY <1>5 DEF Submit, Start, LookupMapping, ChooseLocation, ChooseNumber,
       ChoosePending, Complete, InsertRouting, dbVars
  <2>2. /\ pc[m] # "await" /\ pc'[m] # "await"
        /\ \A x \in Messages \ {m} : pc'[x] = pc[x] /\ picked'[x] = picked[x]
    <3>1. CASE Submit(m) \/ Start(m) \/ LookupMapping(m)
      BY <3>1 DEF Submit, Start, LookupMapping, HandlerType, HandlerOK
    <3>2. CASE ChooseLocation(m) \/ Complete(m) \/ InsertRouting(m)
      BY <3>2, EndedLocals DEF ChooseLocation, Complete, InsertRouting, Throw,
         HandlerType
    <3>3. CASE ChooseNumber(m) \/ ChoosePending(m)
      BY <3>3, EndedLocals DEF ChooseNumber, ChoosePending, Throw, HandlerType
    <3>. QED  BY <1>5, <3>1, <3>2, <3>3
  <2>. QED  BY <1>3, <2>1, <2>2
<1>6. ASSUME NEW m \in Messages, CheckRequest(m)
      PROVE  Waits'
  <2>1. UNCHANGED <<request, resolves, awaiting, errors>>
    BY <1>6 DEF CheckRequest, dbVars, boundVars
  <2>2. CASE Fulfilled(picked[m]) /\ EndHandler(m)
    BY <1>3, <1>6, <2>1, <2>2, EndedLocals DEF CheckRequest
  <2>3. CASE ~Fulfilled(picked[m])
    <3>1. /\ request[picked[m]] # "fulfilled" /\ pc[m] = "check"
          /\ pc'[m] = "await" /\ UNCHANGED picked
          /\ \A x \in Messages \ {m} : pc'[x] = pc[x]
      BY <1>6, <2>3 DEF CheckRequest, Fulfilled, HandlerType
    <3>2. WaitsInTime /\ NoneStranded => WaitsInTime' /\ NoneStranded'
      BY <2>1, <3>1 DEF WaitsInTime, NoneStranded
    <3>3. NoRequestForNobody => NoRequestForNobody'
      BY <2>1, <3>1 DEF NoRequestForNobody, WaitingFor
    <3>. QED  BY <1>2, <2>1, <3>2, <3>3
  <2>. QED  BY <1>6, <2>2, <2>3 DEF CheckRequest, Throw
<1>7. ASSUME NEW m \in Messages, CreateRequest(m)
      PROVE  Waits'
  <2>1. PICK s \in Requests :
          /\ request[s] = "unused"
          /\ request' = [request EXCEPT ![s] = "pending"]
          /\ picked' = [picked EXCEPT ![m] = s]
    BY <1>7 DEF CreateRequest
  <2>2. /\ UNCHANGED <<resolves, awaiting, errors>>
        /\ pc[m] = "create" /\ pc'[m] = "await" /\ picked'[m] = s
        /\ \A x \in Messages \ {m} : pc'[x] = pc[x] /\ picked'[x] = picked[x]
        /\ request'[s] = "pending"
        /\ \A r \in Requests \ {s} : request'[r] = request[r]
    BY <1>7, <2>1 DEF CreateRequest, AfterCreate, HandlerType, DbType, boundVars
  <2>3. \A x \in Messages : awaiting[x] # s
    BY <2>1 DEF Requested, Unasked
  <2>4. \A x \in Messages : pc[x] = "await" => picked[x] \in Requests
    BY DEF HandlerOK
  <2>5. WaitsInTime => WaitsInTime'
    BY <2>2, <2>4 DEF WaitsInTime
  <2>6. NoneStranded => NoneStranded'
    BY <2>2, <2>3 DEF NoneStranded, DbType
  <2>7. NoRequestForNobody => NoRequestForNobody'
    BY <2>2 DEF NoRequestForNobody, WaitingFor
  <2>. QED  BY <1>2, <2>2, <2>5, <2>6, <2>7
<1>8. ASSUME NEW m \in Messages, InsertAwaiting(m)
      PROVE  Waits'
  <2>1. awaiting[m] = None
    BY <1>8 DEF InsertAwaiting, Settled, OnceRecorded, Recorded, HandlerOK
  <2>2. /\ UNCHANGED <<request, resolves, errors, picked>>
        /\ pc[m] = "await" /\ pc'[m] = "complete" /\ awaiting'[m] = picked[m]
        /\ \A x \in Messages \ {m} :
             pc'[x] = pc[x] /\ awaiting'[x] = awaiting[x]
    BY <1>8, <2>1 DEF InsertAwaiting, HandlerType, DbType, boundVars
  <2>3. WaitsInTime /\ NoneStranded => WaitsInTime' /\ NoneStranded'
    BY <2>2 DEF WaitsInTime, NoneStranded
  <2>4. NoRequestForNobody => NoRequestForNobody'
    <3>1. ASSUME NoRequestForNobody, NEW r \in Requests, request'[r] = "pending"
          PROVE  \/ WaitingFor(r)' # {}
                 \/ \E x \in Messages : pc'[x] = "await" /\ picked'[x] = r
      <4>1. CASE WaitingFor(r) # {}
        BY <2>1, <2>2, <4>1, RoutingAssumption DEF WaitingFor
      <4>2. ASSUME NEW x \in Messages, pc[x] = "await", picked[x] = r
            PROVE  \/ WaitingFor(r)' # {}
                   \/ \E y \in Messages : pc'[y] = "await" /\ picked'[y] = r
        BY <2>2, <4>2 DEF WaitingFor
      <4>. QED  BY <2>2, <3>1, <4>1, <4>2 DEF NoRequestForNobody
    <3>. QED  BY <3>1 DEF NoRequestForNobody
  <2>. QED  BY <1>2, <2>2, <2>3, <2>4
<1>9. ASSUME NEW m \in Messages, DbError(m)
      PROVE  Waits'
  <2>1. /\ UNCHANGED <<request, resolves, awaiting>> /\ errors' # 0
        /\ EndHandler(m)
    BY <1>9 DEF DbError, Throw, dbVars, BoundType
  <2>2. WaitsInTime /\ NoneStranded => WaitsInTime' /\ NoneStranded'
    BY <2>1, EndedLocals DEF WaitsInTime, NoneStranded
  <2>. QED  BY <1>2, <2>1, <2>2
<1>10. ASSUME NEW r \in Requests, Fulfil(r)
       PROVE  Waits'
  <2>1. /\ UNCHANGED <<awaiting, errors, pc, picked>>
        /\ request'[r] = "fulfilled" /\ resolves'[r] = 3
        /\ \A s \in Requests \ {r} :
             request'[s] = request[s] /\ resolves'[s] = resolves[s]
    BY <1>10 DEF Fulfil, ResolveJobs, DbType, stepVars, boundVars
  <2>2. WaitsInTime => WaitsInTime'
    BY <2>1 DEF WaitsInTime, HandlerOK
  <2>3. NoneStranded => NoneStranded'
    BY <2>1 DEF NoneStranded, DbType
  <2>4. NoRequestForNobody => NoRequestForNobody'
    BY <2>1 DEF NoRequestForNobody, WaitingFor
  <2>. QED  BY <1>2, <2>1, <2>2, <2>3, <2>4
<1>11. ASSUME NEW r \in Requests, Resolve(r)
       PROVE  Waits'
  <2>1. ~Conflicts(WaitingFor(r))
    BY RoutingAssumption DEF Settled, OnceRecorded, Recorded, Conflicts, WaitingFor
  <2>2. /\ UNCHANGED <<request, errors, pc, picked>>
        /\ resolves[r] > 0 /\ resolves'[r] = resolves[r] - 1
        /\ \A s \in Requests \ {r} : resolves'[s] = resolves[s]
        /\ \A m \in Messages :
             awaiting'[m] = IF awaiting[m] = r THEN None ELSE awaiting[m]
    BY <1>11, <2>1 DEF Resolve, ResolveQueued, DeleteWaiting, WaitingFor,
       DbType, stepVars, boundVars
  <2>3. Timely /\ resolves[r] = 1 =>
          \A m \in Messages : ~(pc[m] = "await" /\ picked[m] = r)
    BY <1>11 DEF Resolve, LastIsTimely
  <2>4. Timely /\ WaitsInTime => WaitsInTime'
    BY <2>2, <2>3 DEF WaitsInTime, HandlerOK, DbType
  <2>5. NoneStranded => NoneStranded'
    BY <2>2 DEF NoneStranded, DbType
  <2>6. request[r] = "fulfilled"
    BY <2>2 DEF Requested, Bought
  <2>7. NoRequestForNobody => NoRequestForNobody'
    BY <2>2, <2>6, RoutingAssumption DEF NoRequestForNobody, WaitingFor
  <2>. QED  BY <1>2, <2>2, <2>4, <2>5, <2>7
<1>12. ~Crash
  BY DEF Crash, BoundType
<1>13. Waits'
  BY <1>4, <1>5, <1>6, <1>7, <1>8, <1>9, <1>10, <1>11, <1>12
     DEF Next, CallIndex, Handle, DeliverEvent, CheckHydrated, TakeLock,
         FinishHydration, LearnLimit, HydrateLocations, ReadUsage, WriteUsage,
         ReadPending, WritePending, CheckClosed, CountAwaiting, CountUsage,
         AnnounceRequest, Flush, dbVars, stepVars, vars
<1>. QED  BY <1>1, <1>13 DEF Settled

-----------------------------------------------------------------------------
(* Without crashes and flushes a profile is hydrated once, before any of its
   requests is made. *)
LEMMA HydratedOnceStep ==
  ASSUME IInv, Requested, LoadedFirst, HydratedOnce, [Next]_vars,
         crashes' = crashes, flushes' = flushes
  PROVE  HydratedOnce'
<1>. USE DEF IInv, TypeOK
<1>. DEFINE Past == {"number", "pending", "check", "create", "await"}
<1>1. ASSUME UNCHANGED <<handlersOn, hydrated, lock, request>>,
             \A m \in Messages : /\ idx'[m] = "hydrate" => idx[m] = "hydrate"
                                 /\ pc'[m] \in Past => pc[m] \in Past \/ hydrated
      PROVE  HydratedOnce'
  BY <1>1 DEF HydratedOnce
<1>2. CASE UNCHANGED <<handlersOn, hydrated, lock, request, idx, pc>>
  BY <1>1, <1>2
<1>3. ASSUME NEW m \in Messages, CheckHydrated(m)
      PROVE  HydratedOnce'
  <2>1. /\ UNCHANGED <<hydrated, lock, request, pc>>
        /\ handlersOn' = (handlersOn \/ hydrated)
        /\ idx' = [idx EXCEPT ![m] = IF hydrated THEN "ready" ELSE "lock"]
    BY <1>3 DEF CheckHydrated, redisVars, stepVars, dbVars
  <2>2. UNCHANGED handlersOn
    BY <2>1 DEF HydratedOnce, ProcType
  <2>3. \A x \in Messages : idx'[x] = "hydrate" => idx[x] = "hydrate"
    BY <2>1 DEF IndexType
  <2>. QED  BY <1>1, <2>1, <2>2, <2>3
<1>4. ASSUME NEW m \in Messages, TakeLock(m)
      PROVE  HydratedOnce'
  <2>1. CASE hydrated
    <3>1. /\ UNCHANGED <<hydrated, lock, request, pc>> /\ handlersOn' = TRUE
          /\ idx' = [idx EXCEPT ![m] = "ready"]
      BY <1>4, <2>1 DEF TakeLock, stepVars, dbVars
    <3>2. UNCHANGED handlersOn
      BY <2>1, <3>1 DEF HydratedOnce
    <3>3. \A x \in Messages : idx'[x] = "hydrate" => idx[x] = "hydrate"
      BY <3>1 DEF IndexType
    <3>. QED  BY <1>1, <3>1, <3>2, <3>3
  <2>2. CASE ~hydrated
    <3>1. /\ UNCHANGED <<hydrated, handlersOn, request, pc>>
          /\ ~lock /\ lock'
          /\ \A x \in Messages \ {m} : idx'[x] = idx[x]
      BY <1>4, <2>2 DEF TakeLock, stepVars, dbVars, IndexType
    <3>2. \A x \in Messages \ {m} : idx'[x] # "hydrate"
      BY <3>1 DEF HydratedOnce
    <3>. QED  BY <2>2, <3>1, <3>2 DEF HydratedOnce
  <2>. QED  BY <2>1, <2>2
<1>5. ASSUME NEW m \in Messages, FinishHydration(m)
      PROVE  HydratedOnce'
  <2>1. /\ UNCHANGED <<request, pc>> /\ hydrated' = TRUE /\ handlersOn' = TRUE
        /\ idx[m] = "hydrate" /\ idx'[m] = "ready"
        /\ \A x \in Messages \ {m} : idx'[x] = idx[x]
    BY <1>5 DEF FinishHydration, stepVars, dbVars, IndexType
  <2>2. \A x \in Messages : idx'[x] # "hydrate"
    BY <2>1 DEF HydratedOnce
  <2>. QED  BY <2>1, <2>2 DEF HydratedOnce
<1>6. ASSUME NEW m \in Messages,
             \/ Submit(m) \/ Start(m) \/ LookupMapping(m) \/ ChooseLocation(m)
             \/ ChooseNumber(m) \/ ChoosePending(m) \/ CheckRequest(m)
             \/ InsertAwaiting(m) \/ InsertRouting(m) \/ Complete(m)
             \/ DbError(m)
      PROVE  HydratedOnce'
  <2>1. UNCHANGED <<handlersOn, hydrated, lock, request>>
    BY <1>6 DEF Submit, Start, LookupMapping, ChooseLocation, ChooseNumber,
       ChoosePending, CheckRequest, InsertAwaiting, InsertRouting, Complete,
       DbError, dbVars, redisVars, procVars
  <2>2. \A x \in Messages : idx'[x] = "hydrate" => idx[x] = "hydrate"
    BY <1>6 DEF Submit, Start, LookupMapping, ChooseLocation, ChooseNumber,
       ChoosePending, CheckRequest, InsertAwaiting, InsertRouting, Complete,
       DbError, idxVars, IndexType
  <2>3. \A x \in Messages : pc'[x] \in Past => pc[x] \in Past \/ hydrated
    <3>1. CASE Submit(m) \/ Start(m) \/ LookupMapping(m)
      BY <3>1 DEF Submit, Start, LookupMapping, stepVars, HandlerType
    <3>2. CASE ChooseLocation(m)
      <4>1. hydrated
        BY <3>2 DEF ChooseLocation, LoadedFirst
      <4>. QED  BY <4>1
    <3>3. CASE ChooseNumber(m) \/ ChoosePending(m)
      BY <3>3, EndedLocals DEF ChooseNumber, ChoosePending, Throw, HandlerType
    <3>4. CASE CheckRequest(m) \/ InsertAwaiting(m) \/ InsertRouting(m)
      BY <3>4, EndedLocals DEF CheckRequest, InsertAwaiting, InsertRouting,
         Throw, HandlerType
    <3>5. CASE Complete(m) \/ DbError(m)
      BY <3>5, EndedLocals DEF Complete, DbError, Throw
    <3>. QED  BY <1>6, <3>1, <3>2, <3>3, <3>4, <3>5
  <2>. QED  BY <1>1, <2>1, <2>2, <2>3
<1>7. ASSUME NEW m \in Messages, CreateRequest(m)
      PROVE  HydratedOnce'
  <2>1. /\ UNCHANGED <<handlersOn, hydrated, lock, idx>> /\ pc[m] = "create"
        /\ \A x \in Messages \ {m} : pc'[x] = pc[x]
    BY <1>7 DEF CreateRequest, redisVars, idxVars, HandlerType
  <2>2. hydrated
    BY <2>1 DEF HydratedOnce
  <2>. QED  BY <2>1, <2>2 DEF HydratedOnce
<1>8. ASSUME NEW r \in Requests, Fulfil(r)
      PROVE  HydratedOnce'
  <2>1. UNCHANGED <<handlersOn, hydrated, lock, idx, pc>>
        /\ request[r] = "pending"
    BY <1>8 DEF Fulfil, redisVars, procVars, idxVars, stepVars
  <2>2. hydrated
    BY <2>1 DEF HydratedOnce
  <2>. QED  BY <2>1, <2>2 DEF HydratedOnce
<1>9. ~Crash /\ ~Flush
  BY DEF Crash, Flush, BoundType
<1>. QED
  BY <1>2, <1>3, <1>4, <1>5, <1>6, <1>7, <1>8, <1>9
     DEF Next, CallIndex, Handle, DeliverEvent, LearnLimit, HydrateLocations,
         ReadUsage, WriteUsage, ReadPending, WritePending, CheckClosed,
         CountAwaiting, CountUsage, AnnounceRequest, Resolve, dbVars,
         redisVars, procVars, idxVars, stepVars, vars

-----------------------------------------------------------------------------
(* Counting messages. *)
LEMMA OneMore ==
  ASSUME NEW S \in SUBSET Messages, NEW m \in Messages, m \notin S
  PROVE  Cardinality(S) \in Nat /\ Cardinality(S \cup {m}) = Cardinality(S) + 1
<1>1. IsFiniteSet(S)
  BY FS_Subset, RoutingAssumption
<1>. QED  BY <1>1, FS_AddElement, FS_CardinalityType

(* The requests of messages that wait, as Redis and the events count them. *)
ExactAt(r) ==
  request[r] = "pending" =>
    (IF pending[r] = Absent THEN 0 ELSE pending[r]) + Cardinality(Unapplied(r))
      = Cardinality(WaitingFor(r))

(* Without crashes and flushes every message that waits for a number not yet
   bought is counted, or its event is on the way. *)
LEMMA ExactStep ==
  ASSUME IInv, Requested, EventsOfRecorded, OnceRecorded, HydratedOnce,
         AnnouncedFirst, \A r \in Requests : ExactAt(r), [Next]_vars,
         crashes' = crashes, flushes' = flushes
  PROVE  AnnouncedFirst' /\ \A r \in Requests : ExactAt(r)'
<1>. USE DEF IInv, TypeOK
<1>1. ASSUME UNCHANGED awaiting,
             \A r \in Requests :
               /\ announce'[r] => announce[r]
               /\ request'[r] = "pending" => request[r] = "pending"
               /\ \/ pending'[r] = pending[r]
                  \/ pending'[r] = Absent /\ request[r] # "pending",
             \A m \in Messages :
               \/ event'[m] = event[m]
               \/ /\ \/ event[m].kind \notin {"check", "count"}
                     \/ event[m].of \notin {r \in Requests : request[r] = "pending"}
                  /\ \/ event'[m].kind \notin {"check", "count"}
                     \/ event'[m].of \notin {r \in Requests : request[r] = "pending"}
               \/ /\ event[m].kind = "check" /\ event'[m].kind = "count"
                  /\ event'[m].of = event[m].of
      PROVE  AnnouncedFirst' /\ \A r \in Requests : ExactAt(r)'
  <2>1. AnnouncedFirst'
    BY <1>1 DEF AnnouncedFirst
  <2>2. ASSUME NEW r \in Requests PROVE ExactAt(r)'
    <3>1. WaitingFor(r)' = WaitingFor(r)
      BY <1>1 DEF WaitingFor
    <3>2. request[r] = "pending" => Unapplied(r)' = Unapplied(r)
      BY <1>1 DEF Unapplied
    <3>. QED  BY <1>1, <3>1, <3>2 DEF ExactAt
  <2>. QED  BY <2>1, <2>2
<1>2. CASE UNCHANGED <<awaiting, announce, request, pending, event>>
  BY <1>1, <1>2
<1>3. ASSUME NEW m \in Messages, WritePending(m)
      PROVE  AnnouncedFirst' /\ \A r \in Requests : ExactAt(r)'
  <2>1. UNCHANGED <<awaiting, announce, request, event>> /\ ~hydrated
    BY <1>3 DEF WritePending, dbVars, procVars, HydratedOnce
  <2>2. \A r \in Requests : snapPending[m][r] = Absent
    BY <2>1 DEF HydratedOnce, Requested, Unasked
  <2>3. \A r \in Requests : pending'[r] = pending[r]
    BY <1>3, <2>2 DEF WritePending, ZAddAll, RedisType
  <2>. QED  BY <1>1, <2>1, <2>3
<1>4. ASSUME NEW m \in Messages, CheckRequest(m)
      PROVE  AnnouncedFirst' /\ \A r \in Requests : ExactAt(r)'
  <2>1. UNCHANGED <<awaiting, announce, request, event>>
    BY <1>4 DEF CheckRequest, dbVars, procVars
  <2>2. \A r \in Requests : \/ pending'[r] = pending[r]
                            \/ pending'[r] = Absent /\ request[r] # "pending"
    BY <1>4 DEF CheckRequest, Retire, Fulfilled, RedisType
  <2>. QED  BY <1>1, <2>1, <2>2
<1>5. ASSUME NEW m \in Messages, CreateRequest(m)
      PROVE  AnnouncedFirst' /\ \A r \in Requests : ExactAt(r)'
  <2>1. PICK s \in Requests :
          /\ request[s] = "unused"
          /\ request' = [request EXCEPT ![s] = "pending"]
          /\ announce' = [announce EXCEPT ![s] = handlersOn]
    BY <1>5 DEF CreateRequest
  <2>2. /\ UNCHANGED <<awaiting, pending, event>>
        /\ \A r \in Requests \ {s} : /\ request'[r] = request[r]
                                     /\ announce'[r] = announce[r]
    BY <1>5, <2>1 DEF CreateRequest, redisVars, DbType, ProcType
  <2>3. Unasked(s)
    BY <2>1 DEF Requested
  <2>4. AnnouncedFirst'
    BY <2>2, <2>3 DEF AnnouncedFirst, Unasked
  <2>5. WaitingFor(s)' = {} /\ Unapplied(s)' = {}
    BY <2>2, <2>3 DEF Unasked, WaitingFor, Unapplied
  <2>6. ExactAt(s)'
    BY <2>2, <2>3, <2>5, FS_EmptySet DEF ExactAt, Unasked
  <2>7. \A r \in Requests \ {s} : ExactAt(r)'
    BY <2>2 DEF ExactAt, WaitingFor, Unapplied
  <2>. QED  BY <2>4, <2>6, <2>7
<1>6. ASSUME NEW m \in Messages, InsertAwaiting(m)
      PROVE  AnnouncedFirst' /\ \A r \in Requests : ExactAt(r)'
  <2>0. PICK s \in Requests : s = picked[m]
    BY <1>6 DEF InsertAwaiting, HandlerOK
  <2>1. ~Recorded(m) /\ hydrated
    BY <1>6 DEF InsertAwaiting, OnceRecorded, HandlerOK, HydratedOnce
  <2>2. handlersOn /\ event[m].kind = "none" /\ awaiting[m] = None
    BY <2>1 DEF HydratedOnce, EventsOfRecorded, Recorded
  <2>3. /\ UNCHANGED <<request, announce, pending>>
        /\ awaiting'[m] = s /\ event'[m] = [kind |-> "check", of |-> s]
        /\ \A x \in Messages \ {m} : /\ awaiting'[x] = awaiting[x]
                                     /\ event'[x] = event[x]
    BY <1>6, <2>0, <2>2 DEF InsertAwaiting, redisVars, DbType, ProcType
  <2>4. /\ m \notin WaitingFor(s) /\ m \notin Unapplied(s)
        /\ WaitingFor(s)' = WaitingFor(s) \cup {m}
        /\ Unapplied(s)' = Unapplied(s) \cup {m}
    BY <2>1, <2>2, <2>3, RoutingAssumption DEF WaitingFor, Unapplied
  <2>5. ExactAt(s)'
    <3>1. /\ WaitingFor(s) \in SUBSET Messages
          /\ Unapplied(s) \in SUBSET Messages
      BY DEF WaitingFor, Unapplied
    <3>2. /\ Cardinality(WaitingFor(s)') = Cardinality(WaitingFor(s)) + 1
          /\ Cardinality(Unapplied(s)') = Cardinality(Unapplied(s)) + 1
          /\ Cardinality(WaitingFor(s)) \in Nat /\ Cardinality(Unapplied(s)) \in Nat
      BY <2>4, <3>1, OneMore
    <3>. QED
      BY <2>1, <2>3, <3>2 DEF ExactAt, RedisType, Score, Absent
  <2>6. \A r \in Requests \ {s} : ExactAt(r)'
    <3>1. ASSUME NEW r \in Requests \ {s}
          PROVE  WaitingFor(r)' = WaitingFor(r) /\ Unapplied(r)' = Unapplied(r)
      BY <2>2, <2>3, RoutingAssumption DEF WaitingFor, Unapplied
    <3>. QED  BY <2>3, <3>1 DEF ExactAt
  <2>7. AnnouncedFirst'
    BY <2>3 DEF AnnouncedFirst
  <2>. QED  BY <2>5, <2>6, <2>7
<1>7. ASSUME NEW m \in Messages, InsertRouting(m)
      PROVE  AnnouncedFirst' /\ \A r \in Requests : ExactAt(r)'
  <2>1. ~Recorded(m)
    BY <1>7 DEF InsertRouting, OnceRecorded, HandlerOK
  <2>2. event[m].kind = "none"
    BY <2>1 DEF EventsOfRecorded
  <2>3. /\ UNCHANGED <<awaiting, request, announce, pending>>
        /\ event'[m] = event[m] \/ event'[m].kind = "usage"
        /\ \A x \in Messages \ {m} : event'[x] = event[x]
    BY <1>7 DEF InsertRouting, redisVars, ProcType
  <2>. QED  BY <1>1, <2>2, <2>3
<1>8. ASSUME NEW m \in Messages, CheckClosed(m) \/ CountUsage(m)
      PROVE  AnnouncedFirst' /\ \A r \in Requests : ExactAt(r)'
  <2>1. /\ UNCHANGED <<awaiting, request, announce, pending>>
        /\ \A x \in Messages \ {m} : event'[x] = event[x]
    BY <1>8 DEF CheckClosed, CountUsage, redisVars, dbVars, ProcType
  <2>2. \/ event[m].kind = "usage" /\ event'[m].kind = "none"
        \/ /\ event[m].kind = "check" /\ event[m].of \in closed
           /\ event'[m].kind = "none"
        \/ /\ event[m].kind = "check" /\ event'[m].kind = "count"
           /\ event'[m].of = event[m].of
    BY <1>8 DEF CheckClosed, CountUsage, NoEvent, ProcType
  <2>3. \A r \in closed : request[r] = "fulfilled"
    BY DEF Requested, Bought, RedisType
  <2>. QED  BY <1>1, <2>1, <2>2, <2>3
<1>9. ASSUME NEW m \in Messages, CountAwaiting(m)
      PROVE  AnnouncedFirst' /\ \A r \in Requests : ExactAt(r)'
  <2>1. /\ UNCHANGED <<awaiting, request, announce>>
        /\ event[m].kind = "count" /\ event'[m].kind = "none"
        /\ \A x \in Messages \ {m} : event'[x] = event[x]
        /\ \A r \in Requests : pending'[r] = IF r = event[m].of
                                              THEN Increment(pending[r])
                                              ELSE pending[r]
        /\ event[m].of \in Requests => ~announce[event[m].of]
    BY <1>9 DEF CountAwaiting, Announced, NoEvent, dbVars, ProcType, RedisType
  <2>2. AnnouncedFirst'
    BY <2>1 DEF AnnouncedFirst
  <2>3. ASSUME NEW r \in Requests, r # event[m].of
        PROVE  ExactAt(r)'
    <3>1. WaitingFor(r)' = WaitingFor(r) /\ Unapplied(r)' = Unapplied(r)
      BY <2>1, <2>3 DEF WaitingFor, Unapplied
    <3>. QED  BY <2>1, <2>3, <3>1 DEF ExactAt
  <2>4. ASSUME NEW r \in Requests, r = event[m].of
        PROVE  ExactAt(r)'
    <3>1. /\ m \notin Unapplied(r)' /\ Unapplied(r)' \in SUBSET Messages
          /\ Unapplied(r) = Unapplied(r)' \cup {m}
      BY <2>1, <2>4 DEF Unapplied
    <3>2. /\ Cardinality(Unapplied(r)') \in Nat
          /\ Cardinality(Unapplied(r)) = Cardinality(Unapplied(r)') + 1
      BY <3>1, OneMore
    <3>3. WaitingFor(r)' = WaitingFor(r)
      BY <2>1 DEF WaitingFor
    <3>4. pending'[r] = IF pending[r] = Absent THEN 1 ELSE pending[r] + 1
      BY <2>1, <2>4 DEF Increment
    <3>5. pending[r] \in Nat \cup {Absent} /\ pending'[r] # Absent
      BY <2>4, <3>4 DEF RedisType, Score, Absent
    <3>6. request'[r] = request[r]
      BY <2>1
    <3>7. ASSUME request[r] = "pending"
          PROVE  pending'[r] + Cardinality(Unapplied(r)') = Cardinality(WaitingFor(r))
      BY <3>2, <3>4, <3>5, <3>7 DEF ExactAt, Absent
    <3>. QED  BY <3>3, <3>5, <3>6, <3>7 DEF ExactAt, Absent
  <2>. QED  BY <2>2, <2>3, <2>4
<1>10. ASSUME NEW r \in Requests, AnnounceRequest(r)
       PROVE  AnnouncedFirst' /\ \A x \in Requests : ExactAt(x)'
  <2>1. /\ UNCHANGED <<awaiting, request, event>>
        /\ announce[r] /\ ~announce'[r] /\ pending'[r] = 0
        /\ \A s \in Requests \ {r} : /\ announce'[s] = announce[s]
                                     /\ pending'[s] = pending[s]
    BY <1>10 DEF AnnounceRequest, dbVars, ProcType, RedisType
  <2>2. AnnouncedFirst'
    BY <2>1 DEF AnnouncedFirst
  <2>3. \A x \in Requests : Unapplied(x)' = Unapplied(x)
                            /\ WaitingFor(x)' = WaitingFor(x)
    BY <2>1 DEF Unapplied, WaitingFor
  <2>4. pending[r] = Absent
    BY <2>1 DEF AnnouncedFirst
  <2>5. ExactAt(r)'
    BY <2>1, <2>3, <2>4 DEF ExactAt, Absent
  <2>6. \A x \in Requests \ {r} : ExactAt(x)'
    BY <2>1, <2>3 DEF ExactAt
  <2>. QED  BY <2>2, <2>5, <2>6
<1>11. ASSUME NEW r \in Requests, Fulfil(r)
       PROVE  AnnouncedFirst' /\ \A x \in Requests : ExactAt(x)'
  <2>1. /\ UNCHANGED <<awaiting, event, announce, pending>>
        /\ \A s \in Requests : request'[s] = "pending" => request[s] = "pending"
    BY <1>11 DEF Fulfil, redisVars, procVars, DbType
  <2>. QED  BY <1>1, <2>1
<1>12. ASSUME NEW r \in Requests, Resolve(r)
       PROVE  AnnouncedFirst' /\ \A x \in Requests : ExactAt(x)'
  <2>1. /\ UNCHANGED <<request, event, announce, pending>>
        /\ resolves[r] > 0
        /\ \A m \in Messages :
             awaiting'[m] = awaiting[m] \/ (awaiting[m] = r /\ awaiting'[m] = None)
    BY <1>12 DEF Resolve, ResolveQueued, DeleteWaiting, WaitingFor, redisVars,
       procVars, DbType
  <2>2. request[r] = "fulfilled"
    BY <2>1 DEF Requested, Bought
  <2>3. ASSUME NEW x \in Requests, request[x] = "pending"
        PROVE  Unapplied(x)' = Unapplied(x) /\ WaitingFor(x)' = WaitingFor(x)
    BY <2>1, <2>2, <2>3, RoutingAssumption DEF Unapplied, WaitingFor
  <2>. QED  BY <2>1, <2>3 DEF AnnouncedFirst, ExactAt
<1>13. ~Crash /\ ~Flush
  BY DEF Crash, Flush, BoundType
<1>. QED
  BY <1>2, <1>3, <1>4, <1>5, <1>6, <1>7, <1>8, <1>9, <1>10, <1>11, <1>12, <1>13
     DEF Next, CallIndex, Handle, DeliverEvent, Submit, Start, CheckHydrated,
         TakeLock, FinishHydration, LearnLimit, HydrateLocations, ReadUsage,
         WriteUsage, ReadPending, LookupMapping, ChooseLocation, ChooseNumber,
         ChoosePending, Complete, DbError, dbVars, redisVars, indexVars,
         procVars, vars

-----------------------------------------------------------------------------
(* What Redis knows of the numbers' use, while every contact is new and
   neither the worker nor Redis fails. *)

(* A message whose contact is not new today is on a number the contact has
   been texted from. *)
RepeatOnly ==
  /\ \A c \in Contacts : mapping[c] # None => c \in RoutedContacts(mapping[c])
  /\ \A m \in Messages : pc[m] = "route" /\ ~first[m] =>
       ContactOf[m] \in RoutedContacts(picked[m])

(* While no contact is known, nothing is sent before Redis is hydrated. *)
SentAfter ==
  ~hydrated =>
    /\ \A m \in Messages : routed[m] = None /\ awaiting[m] = None
    /\ \A m \in Messages : pc[m] # "route"
    /\ \A m \in Messages, n \in Numbers :
         /\ phase[m]["number"] = "read" => snapUsage[m][n] = 0
         /\ phase[m]["number"] = "done" => available[n] = 0

InFlight(n) == {m \in Messages : event[m] = [kind |-> "usage", of |-> n]}

(* From the hydration on, every number the location owns has a score, and
   it and the events in flight cover the contacts texted. *)
Covered ==
  hydrated => \A n \in Numbers :
    /\ available[n] # Absent
    /\ available[n] + Cardinality(InFlight(n)) >= Cardinality(RoutedContacts(n))

UsageExact == RepeatOnly /\ SentAfter /\ Covered

UsageInv == crashes = 0 /\ flushes = 0 => UsageExact

(* A message keeps the number it has been given. *)
LEMMA RoutedOnce ==
  ASSUME IInv, [Next]_vars
  PROVE  \A m \in Messages : routed[m] = None \/ routed'[m] = routed[m]
<1>. USE DEF IInv, TypeOK
<1>1. CASE UNCHANGED routed
  BY <1>1
<1>2. ASSUME NEW x \in Messages, InsertRouting(x)
      PROVE  \A m \in Messages : routed[m] = None \/ routed'[m] = routed[m]
  BY <1>2 DEF InsertRouting, DbType
<1>3. ASSUME NEW r \in Requests, Resolve(r)
      PROVE  \A m \in Messages : routed[m] = None \/ routed'[m] = routed[m]
  BY <1>3 DEF Resolve, Conflicts
<1>. QED
  BY <1>1, <1>2, <1>3
     DEF Next, CallIndex, Handle, DeliverEvent, Submit, Start, CheckHydrated,
         TakeLock, FinishHydration, LearnLimit, HydrateLocations, ReadUsage,
         WriteUsage, ReadPending, WritePending, LookupMapping, ChooseLocation,
         ChooseNumber, ChoosePending, CheckRequest, CreateRequest,
         InsertAwaiting, Complete, DbError, CheckClosed, CountAwaiting,
         CountUsage, AnnounceRequest, Fulfil, Crash, Flush, dbVars, vars

(* The contacts a number has texted today only grow. *)
LEMMA RoutedContactsGrow ==
  ASSUME IInv, [Next]_vars, NEW n \in AllNumbers
  PROVE  RoutedContacts(n) \subseteq RoutedContacts(n)'
BY RoutedOnce, RoutingAssumption DEF RoutedContacts, AllNumbers

-----------------------------------------------------------------------------
(* A contact is mapped by a routing row, and a handler that takes a mapping
   for used today has one. *)
LEMMA RepeatOnlyStep ==
  ASSUME IInv, RepeatOnly, [Next]_vars
  PROVE  RepeatOnly'
<1>. USE DEF IInv, TypeOK
<1>1. \A c \in Contacts, n \in AllNumbers :
        mapping'[c] = n => mapping[c] = n \/ c \in RoutedContacts(n)'
  <2>1. CASE UNCHANGED mapping
    BY <2>1
  <2>2. ASSUME NEW m \in Messages, InsertRouting(m), NEW c \in Contacts,
               NEW n \in AllNumbers, mapping'[c] = n
        PROVE  mapping[c] = n \/ c \in RoutedContacts(n)'
    <3>1. CASE UNCHANGED mapping
      BY <2>2, <3>1
    <3>2. CASE routed' = [routed EXCEPT ![m] = picked[m]]
               /\ MapContacts({ContactOf[m]}, picked[m])
      <4>1. /\ mapping'[c] # mapping[c] => c = ContactOf[m]
                                           /\ mapping'[c] = picked[m]
            /\ routed'[m] = picked[m]
        BY <3>2 DEF MapContacts, DbType
      <4>. QED  BY <2>2, <4>1 DEF RoutedContacts
    <3>. QED  BY <2>2, <3>1, <3>2 DEF InsertRouting
  <2>3. ASSUME NEW r \in Requests, Resolve(r), NEW c \in Contacts,
               NEW n \in AllNumbers, mapping'[c] = n
        PROVE  mapping[c] = n \/ c \in RoutedContacts(n)'
    <3>1. CASE UNCHANGED mapping
      BY <2>3, <3>1
    <3>2. CASE /\ routed' = [m \in Messages |->
                               IF m \in WaitingFor(r) THEN r ELSE routed[m]]
               /\ MapContacts({ContactOf[m] : m \in WaitingFor(r)}, r)
      <4>1. /\ mapping'[c] # mapping[c] =>
                 /\ \E m \in WaitingFor(r) : c = ContactOf[m]
                 /\ mapping'[c] = r
            /\ \A m \in WaitingFor(r) : m \in Messages /\ routed'[m] = r
        BY <3>2 DEF MapContacts, DbType, WaitingFor
      <4>. QED  BY <2>3, <4>1 DEF RoutedContacts
    <3>. QED  BY <2>3, <3>1, <3>2 DEF Resolve
  <2>. QED
    BY <2>1, <2>2, <2>3
       DEF Next, CallIndex, Handle, DeliverEvent, Submit, Start,
           CheckHydrated, TakeLock, FinishHydration, LearnLimit,
           HydrateLocations, ReadUsage, WriteUsage, ReadPending, WritePending,
           LookupMapping, ChooseLocation, ChooseNumber, ChoosePending,
           CheckRequest, CreateRequest, InsertAwaiting, Complete, DbError,
           CheckClosed, CountAwaiting, CountUsage, AnnounceRequest, Fulfil,
           Crash, Flush, dbVars, vars
<1>. DEFINE Repeats(m) == pc[m] = "route" /\ ~first[m]
            Taken(m) == \/ Repeats(m) /\ picked'[m] = picked[m]
                        \/ /\ mapping[ContactOf[m]] # None
                           /\ picked'[m] = mapping[ContactOf[m]]
<1>2. \A m \in Messages : pc'[m] = "route" /\ ~first'[m] => Taken(m)
  <2>1. CASE UNCHANGED <<pc, picked, first>>
    BY <2>1
  <2>2. CASE Crash
    BY <2>2 DEF Crash
  <2>3. ASSUME NEW m \in Messages,
               Submit(m) \/ Start(m) \/ Handle(m) \/ DbError(m),
               NEW x \in Messages, x # m
        PROVE  pc'[x] = pc[x] /\ picked'[x] = picked[x] /\ first'[x] = first[x]
    BY <2>3 DEF Submit, Start, Handle, LookupMapping, ChooseLocation,
       ChooseNumber, ChoosePending, CheckRequest, CreateRequest,
       InsertAwaiting, InsertRouting, Complete, DbError, Throw, EndHandler,
       HandlerType, stepVars
  <2>4. ASSUME NEW m \in Messages,
               Submit(m) \/ Start(m) \/ Handle(m) \/ DbError(m),
               pc'[m] = "route", ~first'[m]
        PROVE  Taken(m)
    <3>1. CASE Submit(m) \/ Start(m) \/ DbError(m)
      BY <2>4, <3>1 DEF Submit, Start, DbError, Throw, EndHandler, HandlerType,
         stepVars, HandlerOK
    <3>2. CASE LookupMapping(m)
      BY <2>4, <3>2 DEF LookupMapping, HandlerType
    <3>3. CASE ChooseNumber(m)
      BY <2>4, <3>3 DEF ChooseNumber, Throw, EndHandler, HandlerType
    <3>4. CASE ChooseLocation(m) \/ ChoosePending(m) \/ CheckRequest(m)
               \/ CreateRequest(m)
      BY <2>4, <3>4 DEF ChooseLocation, ChoosePending, CheckRequest,
         CreateRequest, AfterCreate, Throw, EndHandler, HandlerType
    <3>5. CASE InsertAwaiting(m) \/ InsertRouting(m) \/ Complete(m)
      BY <2>4, <3>5 DEF InsertAwaiting, InsertRouting, Complete, Throw,
         EndHandler, HandlerType
    <3>. QED  BY <2>4, <3>1, <3>2, <3>3, <3>4, <3>5 DEF Handle
  <2>5. ASSUME NEW m \in Messages,
               Submit(m) \/ Start(m) \/ Handle(m) \/ DbError(m)
        PROVE  \A x \in Messages : pc'[x] = "route" /\ ~first'[x] => Taken(x)
    BY <2>3, <2>4, <2>5
  <2>. QED
    BY <2>1, <2>2, <2>5
       DEF Next, CallIndex, DeliverEvent, CheckHydrated, TakeLock,
           FinishHydration, LearnLimit, HydrateLocations, ReadUsage,
           WriteUsage, ReadPending, WritePending, CheckClosed, CountAwaiting,
           CountUsage, AnnounceRequest, Fulfil, Resolve, Flush, stepVars, vars
<1>3. ASSUME NEW c \in Contacts, NEW n \in AllNumbers, mapping'[c] = n
      PROVE  c \in RoutedContacts(n)'
  BY <1>1, <1>3, RoutedContactsGrow, RoutingAssumption DEF RepeatOnly, AllNumbers
<1>4. ASSUME NEW m \in Messages, NEW n \in AllNumbers, picked'[m] = n,
             pc'[m] = "route", ~first'[m]
      PROVE  ContactOf[m] \in RoutedContacts(n)'
  <2>1. ContactOf[m] \in RoutedContacts(n)
    BY <1>2, <1>4, RoutingAssumption DEF RepeatOnly, AllNumbers
  <2>. QED  BY <2>1, RoutedContactsGrow
<1>5. /\ \A c \in Contacts : mapping'[c] # None => mapping'[c] \in AllNumbers
      /\ \A m \in Messages : pc'[m] = "route" => picked'[m] \in AllNumbers
  BY NextIInv DEF DbType, HandlerOK
<1>6. \A c \in Contacts : (mapping[c] # None => c \in RoutedContacts(mapping[c]))'
  BY <1>3, <1>5 DEF RoutedContacts
<1>7. \A m \in Messages : (pc[m] = "route" /\ ~first[m] =>
                            ContactOf[m] \in RoutedContacts(picked[m]))'
  BY <1>4, <1>5 DEF RoutedContacts
<1>. QED  BY <1>6, <1>7 DEF RepeatOnly

-----------------------------------------------------------------------------
(* Before the hydration nothing is recorded, and the hydrator reads zeros. *)
LEMMA SentAfterStep ==
  ASSUME IInv, Requested, EventsOfRecorded, LoadedFirst, HydratedOnce,
         RepeatOnly, SentAfter, [Next]_vars, flushes' = flushes
  PROVE  SentAfter'
<1>. SUFFICES ASSUME ~hydrated'
              PROVE  SentAfter'
  BY DEF SentAfter
<1>. USE DEF IInv, TypeOK
<1>a. ~Flush
  BY DEF Flush, BoundType
<1>0. ~hydrated
  <2>1. ASSUME NEW m \in Messages, FinishHydration(m) PROVE hydrated'
    BY <2>1 DEF FinishHydration
  <2>2. CASE UNCHANGED hydrated
    BY <2>2
  <2>. QED
    BY <1>a, <2>1, <2>2
       DEF Next, CallIndex, Handle, DeliverEvent, Submit, Start,
           CheckHydrated, TakeLock, LearnLimit, HydrateLocations, ReadUsage,
           WriteUsage, ReadPending, WritePending, LookupMapping,
           ChooseLocation, ChooseNumber, ChoosePending, CheckRequest,
           CreateRequest, InsertAwaiting, InsertRouting, Complete, DbError,
           CheckClosed, CountAwaiting, CountUsage, AnnounceRequest, Fulfil,
           Resolve, Crash, redisVars, vars
<1>. DEFINE Empty == \A m \in Messages : routed[m] = None /\ awaiting[m] = None
            NoRoute == \A m \in Messages : pc[m] # "route"
            Zeros == \A m \in Messages, n \in Numbers :
                       /\ phase[m]["number"] = "read" => snapUsage[m][n] = 0
                       /\ phase[m]["number"] = "done" => available[n] = 0
<1>1. Empty /\ NoRoute /\ Zeros
  BY <1>0 DEF SentAfter
<1>2. \A m \in Messages : /\ event[m].kind = "none"
                          /\ idx[m] # "ready"
                          /\ pc[m] \notin {"number", "await", "route"}
  BY <1>0, <1>1 DEF EventsOfRecorded, Recorded, LoadedFirst, HydratedOnce
<1>3. \A n \in AllNumbers : RoutedContacts(n) = {}
  BY <1>1, RoutingAssumption DEF RoutedContacts, AllNumbers
<1>4. \A m \in Messages : mapping[ContactOf[m]] = None
  BY <1>3, RoutingAssumption DEF RepeatOnly, DbType
<1>5. Empty'
  <2>1. ASSUME NEW r \in Requests, Resolve(r) PROVE UNCHANGED <<awaiting, routed>>
    <3>1. WaitingFor(r) = {}
      BY <1>1, RoutingAssumption DEF WaitingFor
    <3>. QED  BY <2>1, <3>1 DEF Resolve, DeleteWaiting, DbType
  <2>2. CASE UNCHANGED <<awaiting, routed>>
    BY <1>1, <2>2
  <2>3. ASSUME NEW m \in Messages PROVE ~InsertAwaiting(m) /\ ~InsertRouting(m)
    BY <1>2 DEF InsertAwaiting, InsertRouting
  <2>. QED
    BY <2>1, <2>2, <2>3
       DEF Next, CallIndex, Handle, DeliverEvent, Submit, Start,
           CheckHydrated, TakeLock, FinishHydration, LearnLimit,
           HydrateLocations, ReadUsage, WriteUsage, ReadPending, WritePending,
           LookupMapping, ChooseLocation, ChooseNumber, ChoosePending,
           CheckRequest, CreateRequest,
           Complete, DbError, CheckClosed, CountAwaiting, CountUsage,
           AnnounceRequest, Fulfil, Crash, Flush, dbVars, vars
<1>6. NoRoute'
  <2>1. CASE UNCHANGED pc
    BY <1>1, <2>1
  <2>2. ASSUME NEW m \in Messages, LookupMapping(m) PROVE NoRoute'
    BY <1>1, <1>4, <2>2 DEF LookupMapping, HandlerType
  <2>3. ASSUME NEW m \in Messages,
               Submit(m) \/ Start(m) \/ CheckRequest(m) \/ CreateRequest(m)
        PROVE  NoRoute'
    BY <1>1, <2>3 DEF Submit, Start, CheckRequest, CreateRequest, AfterCreate,
       Throw, EndHandler, HandlerType
  <2>4. ASSUME NEW m \in Messages, Complete(m) \/ DbError(m) PROVE NoRoute'
    BY <1>1, <2>4 DEF Complete, DbError, Throw, EndHandler, HandlerType
  <2>5. CASE Crash
    BY <2>5 DEF Crash
  <2>. QED
    BY <1>2, <2>1, <2>2, <2>3, <2>4, <2>5
       DEF Next, CallIndex, Handle, DeliverEvent, CheckHydrated, TakeLock,
           FinishHydration, LearnLimit, HydrateLocations, ReadUsage,
           WriteUsage, ReadPending, WritePending, ChooseLocation,
           ChooseNumber, ChoosePending, InsertAwaiting, InsertRouting,
           CheckClosed, CountAwaiting, CountUsage, AnnounceRequest, Fulfil,
           Resolve, Flush, stepVars, vars
<1>7. Zeros'
  <2>1. ASSUME \A m \in Messages : /\ snapUsage'[m] = snapUsage[m]
                                   /\ phase'[m]["number"] = phase[m]["number"],
               UNCHANGED available
        PROVE  Zeros'
    BY <1>1, <2>1
  <2>2. CASE UNCHANGED <<snapUsage, phase, available>>
    BY <2>1, <2>2
  <2>3. ASSUME NEW m \in Messages,
               HydrateLocations(m) \/ ReadPending(m) \/ WritePending(m)
        PROVE  Zeros'
    <3>1. UNCHANGED <<snapUsage, available>>
      BY <2>3 DEF HydrateLocations, ReadPending, WritePending, indexVars,
         redisVars
    <3>2. \E i \in {"location", "pending"}, p \in {"read", "done"} :
            SetPhase(m, i, p)
      BY <2>3 DEF HydrateLocations, ReadPending, WritePending
    <3>3. \A x \in Messages : phase'[x]["number"] = phase[x]["number"]
      BY <3>2 DEF SetPhase, Indexes, IndexType
    <3>. QED  BY <2>1, <3>1, <3>3
  <2>4. ASSUME NEW m \in Messages, ReadUsage(m)
        PROVE  Zeros'
    <3>1. /\ UNCHANGED available
          /\ phase'[m]["number"] = "read"
          /\ \A n \in Numbers : snapUsage'[m][n] = Cardinality(RoutedContacts(n))
          /\ \A x \in Messages \ {m} : /\ phase'[x] = phase[x]
                                       /\ snapUsage'[x] = snapUsage[x]
      BY <2>4 DEF ReadUsage, SetPhase, Live, Indexes, IndexType, AllNumbers,
         redisVars
    <3>2. \A n \in Numbers : snapUsage'[m][n] = 0
      BY <1>3, <3>1, FS_EmptySet DEF AllNumbers
    <3>. QED  BY <1>1, <3>1, <3>2
  <2>5. ASSUME NEW m \in Messages, WriteUsage(m)
        PROVE  Zeros'
    <3>1. /\ phase[m]["number"] = "read" /\ phase'[m]["number"] = "done"
          /\ \A n \in Numbers : snapUsage[m][n] # Absent =>
               available'[n] = snapUsage[m][n]
          /\ \A x \in Messages \ {m} : /\ phase'[x] = phase[x]
                                       /\ snapUsage'[x] = snapUsage[x]
      BY <2>5 DEF WriteUsage, SetPhase, ZAddAll, Indexes, IndexType, RedisType,
         AllNumbers
    <3>2. \A n \in Numbers : available'[n] = 0
      BY <1>1, <3>1 DEF Absent
    <3>. QED  BY <1>1, <3>1, <3>2
  <2>6. CASE Crash
    BY <2>6 DEF Crash, Indexes
  <2>7. ASSUME NEW m \in Messages, FinishHydration(m)
        PROVE  hydrated'
    BY <2>7 DEF FinishHydration
  <2>8. ASSUME NEW m \in Messages PROVE ~CountUsage(m)
    BY <1>2 DEF CountUsage
  <2>. QED
    BY <1>a, <2>2, <2>3, <2>4, <2>5, <2>6, <2>7, <2>8
       DEF Next, CallIndex, Handle, DeliverEvent, Submit, Start,
           CheckHydrated, TakeLock, LearnLimit, LookupMapping,
           ChooseLocation, ChooseNumber, ChoosePending, CheckRequest,
           CreateRequest, InsertAwaiting, InsertRouting, Complete, DbError,
           CheckClosed, CountAwaiting, AnnounceRequest, Fulfil, Resolve,
           idxVars, redisVars, indexVars, vars
<1>. QED  BY <1>5, <1>6, <1>7 DEF SentAfter

-----------------------------------------------------------------------------
(* A number's contacts are finitely many, and so are the events in flight. *)
LEMMA CoveredSets ==
  ASSUME NEW n
  PROVE  /\ RoutedContacts(n) \in SUBSET Contacts
         /\ InFlight(n) \in SUBSET Messages
         /\ IsFiniteSet(RoutedContacts(n)) /\ IsFiniteSet(InFlight(n))
         /\ Cardinality(RoutedContacts(n)) \in Nat
         /\ Cardinality(InFlight(n)) \in Nat
<1>1. RoutedContacts(n) \in SUBSET Contacts /\ InFlight(n) \in SUBSET Messages
  BY RoutingAssumption DEF RoutedContacts, InFlight
<1>. QED  BY <1>1, FS_Subset, FS_CardinalityType, RoutingAssumption

(* Adding an element to a finite set adds one at most. *)
LEMMA OneMoreAtMost ==
  ASSUME NEW S, IsFiniteSet(S), NEW x
  PROVE  Cardinality(S \cup {x}) <= Cardinality(S) + 1
<1>1. Cardinality(S) \in Nat
  BY FS_CardinalityType
<1>2. CASE x \in S
  <2>1. S \cup {x} = S
    BY <1>2
  <2>. QED  BY <1>1, <2>1
<1>3. CASE x \notin S
  <2>1. Cardinality(S \cup {x}) = Cardinality(S) + 1
    BY <1>3, FS_AddElement
  <2>. QED  BY <1>1, <2>1
<1>. QED  BY <1>2, <1>3

CoveredAt(n) ==
  /\ available[n] # Absent
  /\ available[n] + Cardinality(InFlight(n)) >= Cardinality(RoutedContacts(n))

(* From the hydration on, a contact texted from a number is counted, or its
   event is on the way. *)
LEMMA CoveredStep ==
  ASSUME IInv, EventsOfRecorded, OnceRecorded, HydratedOnce, RepeatOnly,
         SentAfter, Covered, [Next]_vars,
         crashes' = crashes, flushes' = flushes
  PROVE  Covered'
<1>. USE DEF IInv, TypeOK
<1>1. hydrated => \A n \in Numbers : CoveredAt(n)
  BY DEF Covered, CoveredAt
<1>2. ASSUME hydrated, UNCHANGED available,
             \A m \in Messages : \/ event'[m] = event[m]
                                 \/ /\ event[m].kind # "usage"
                                    /\ event'[m].kind # "usage",
             \A m \in Messages, n \in Numbers : routed'[m] = n <=> routed[m] = n
      PROVE  Covered'
  <2>1. ASSUME NEW n \in Numbers
        PROVE  InFlight(n)' = InFlight(n) /\ RoutedContacts(n)' = RoutedContacts(n)
    BY <1>2 DEF InFlight, RoutedContacts
  <2>. QED  BY <1>1, <1>2, <2>1 DEF Covered, CoveredAt
<1>3. CASE UNCHANGED <<hydrated, available, event, routed>>
  BY <1>2, <1>3 DEF Covered
<1>4. ASSUME NEW m \in Messages, FinishHydration(m)
      PROVE  Covered'
  <2>1. ~hydrated /\ phase[m]["number"] = "done"
        /\ UNCHANGED <<available, event, routed>>
    BY <1>4 DEF FinishHydration, AllLoaded, Indexes, HydratedOnce, indexVars,
       dbVars
  <2>2. ASSUME NEW n \in Numbers
        PROVE  available[n] = 0 /\ RoutedContacts(n)' = {}
    BY <2>1, RoutingAssumption DEF SentAfter, RoutedContacts
  <2>3. ASSUME NEW n \in Numbers
        PROVE  /\ available'[n] = 0
               /\ Cardinality(RoutedContacts(n)') = 0
               /\ Cardinality(InFlight(n)') \in Nat
    <3>1. InFlight(n)' = InFlight(n)
      BY <2>1 DEF InFlight
    <3>. QED  BY <2>1, <2>2, <3>1, FS_EmptySet, CoveredSets
  <2>. QED  BY <2>3 DEF Covered, Absent
<1>5. ASSUME NEW m \in Messages, WriteUsage(m)
      PROVE  Covered'
  BY <1>5 DEF WriteUsage, HydratedOnce, Covered
<1>6. ASSUME NEW m \in Messages, CheckClosed(m) \/ CountAwaiting(m)
      PROVE  Covered'
  <2>1. UNCHANGED <<available, routed, hydrated>>
    BY <1>6 DEF CheckClosed, CountAwaiting, redisVars, dbVars
  <2>2. /\ event[m].kind # "usage" /\ event'[m].kind # "usage"
        /\ \A x \in Messages \ {m} : event'[x] = event[x]
    BY <1>6 DEF CheckClosed, CountAwaiting, NoEvent, ProcType
  <2>. QED  BY <1>2, <2>1, <2>2 DEF Covered
<1>7. ASSUME NEW m \in Messages, CountUsage(m)
      PROVE  Covered'
  <2>1. /\ UNCHANGED <<routed, hydrated>>
        /\ event[m].kind = "usage" /\ event'[m].kind = "none"
        /\ \A x \in Messages \ {m} : event'[x] = event[x]
        /\ \A n \in Numbers : available'[n] = IF n = event[m].of
                                              THEN Increment(available[n])
                                              ELSE available[n]
    BY <1>7 DEF CountUsage, NoEvent, dbVars, ProcType, RedisType, AllNumbers
  <2>2. \A n \in Numbers : RoutedContacts(n)' = RoutedContacts(n)
    BY <2>1 DEF RoutedContacts
  <2>3. ASSUME hydrated, NEW n \in Numbers, n # event[m].of
        PROVE  CoveredAt(n)'
    <3>1. InFlight(n)' = InFlight(n)
      BY <2>1, <2>3 DEF InFlight
    <3>. QED  BY <1>1, <2>1, <2>2, <2>3, <3>1 DEF CoveredAt
  <2>4. ASSUME hydrated, NEW n \in Numbers, n = event[m].of
        PROVE  CoveredAt(n)'
    <3>1. event[m] = [kind |-> "usage", of |-> n]
      BY <2>1, <2>4 DEF ProcType
    <3>2. /\ m \notin InFlight(n)' /\ InFlight(n)' \in SUBSET Messages
          /\ InFlight(n) = InFlight(n)' \cup {m}
      BY <2>1, <3>1 DEF InFlight
    <3>3. /\ Cardinality(InFlight(n)') \in Nat
          /\ Cardinality(InFlight(n)) = Cardinality(InFlight(n)') + 1
      BY <3>2, OneMore
    <3>4. available[n] \in Nat /\ available'[n] = available[n] + 1
      BY <1>1, <2>1, <2>4 DEF Increment, CoveredAt, RedisType, Score,
         AllNumbers
    <3>5. Cardinality(RoutedContacts(n)') = Cardinality(RoutedContacts(n))
      BY <2>2
    <3>6. Cardinality(RoutedContacts(n)) \in Nat
      BY CoveredSets
    <3>. QED  BY <1>1, <2>4, <3>3, <3>4, <3>5, <3>6 DEF CoveredAt, Absent
  <2>. QED  BY <2>1, <2>3, <2>4 DEF Covered, CoveredAt
<1>8. ASSUME NEW m \in Messages, InsertAwaiting(m)
      PROVE  Covered'
  <2>1. ~Recorded(m) /\ UNCHANGED <<available, routed, hydrated>>
    BY <1>8 DEF InsertAwaiting, OnceRecorded, HandlerOK, redisVars
  <2>2. event[m].kind = "none"
    BY <2>1 DEF EventsOfRecorded
  <2>3. /\ event'[m] = event[m] \/ event'[m].kind = "check"
        /\ \A x \in Messages \ {m} : event'[x] = event[x]
    BY <1>8 DEF InsertAwaiting, ProcType
  <2>. QED  BY <1>2, <2>1, <2>2, <2>3 DEF Covered
<1>9. ASSUME NEW m \in Messages, InsertRouting(m)
      PROVE  Covered'
  <2>0. PICK s \in AllNumbers : s = picked[m]
    BY <1>9 DEF InsertRouting, HandlerOK
  <2>1. ~Recorded(m) /\ hydrated
    BY <1>9 DEF InsertRouting, OnceRecorded, HandlerOK, SentAfter
  <2>2. event[m].kind = "none" /\ handlersOn /\ routed[m] = None
    BY <2>1 DEF EventsOfRecorded, HydratedOnce, Recorded
  <2>3. /\ UNCHANGED available /\ pc[m] = "route" /\ routed'[m] = s
        /\ event'[m] = IF first[m] THEN [kind |-> "usage", of |-> s] ELSE event[m]
        /\ \A x \in Messages \ {m} : /\ routed'[x] = routed[x]
                                     /\ event'[x] = event[x]
    BY <1>9, <2>0, <2>2 DEF InsertRouting, redisVars, DbType, ProcType
  <2>4. ASSUME NEW n \in Numbers, n # s
        PROVE  CoveredAt(n)'
    <3>1. RoutedContacts(n)' = RoutedContacts(n)
      BY <2>2, <2>3, <2>4, RoutingAssumption DEF RoutedContacts
    <3>2. InFlight(n)' = InFlight(n)
      BY <2>2, <2>3, <2>4 DEF InFlight
    <3>. QED  BY <1>1, <2>1, <2>3, <3>1, <3>2 DEF CoveredAt
  <2>5. ASSUME s \in Numbers
        PROVE  CoveredAt(s)'
    <3>1. RoutedContacts(s)' = RoutedContacts(s) \cup {ContactOf[m]}
      BY <2>2, <2>3, RoutingAssumption DEF RoutedContacts, AllNumbers
    <3>2. Cardinality(RoutedContacts(s)') <= Cardinality(RoutedContacts(s)) + 1
      BY <3>1, CoveredSets, OneMoreAtMost
    <3>3. /\ Cardinality(RoutedContacts(s)) \in Nat
          /\ Cardinality(InFlight(s)) \in Nat
      BY CoveredSets
    <3>4. Cardinality(RoutedContacts(s)') \in Nat
      <4>1. IsFiniteSet(RoutedContacts(s)')
        BY <3>1, CoveredSets, FS_Subset, RoutingAssumption
      <4>. QED  BY <4>1, FS_CardinalityType
    <3>5. CASE first[m]
      <4>1. /\ m \notin InFlight(s) /\ InFlight(s) \in SUBSET Messages
            /\ InFlight(s)' = InFlight(s) \cup {m}
        BY <2>2, <2>3, <3>5 DEF InFlight
      <4>2. Cardinality(InFlight(s)') = Cardinality(InFlight(s)) + 1
        BY <4>1, OneMore
      <4>3. available[s] \in Nat /\ available'[s] = available[s]
        BY <1>1, <2>1, <2>3, <2>5 DEF CoveredAt, RedisType, Score
      <4>. QED
        BY <1>1, <2>1, <2>5, <3>2, <3>3, <3>4, <4>2, <4>3 DEF CoveredAt
    <3>6. CASE ~first[m]
      <4>1. ContactOf[m] \in RoutedContacts(s)
        BY <2>0, <2>3, <3>6 DEF RepeatOnly
      <4>2. RoutedContacts(s)' = RoutedContacts(s)
        BY <3>1, <4>1
      <4>3. InFlight(s)' = InFlight(s)
        BY <2>3, <3>6 DEF InFlight
      <4>. QED  BY <1>1, <2>1, <2>3, <2>5, <4>2, <4>3 DEF CoveredAt
    <3>. QED  BY <3>5, <3>6
  <2>. QED  BY <2>4, <2>5 DEF Covered, CoveredAt
<1>10. ASSUME NEW r \in Requests, Resolve(r)
       PROVE  Covered'
  <2>1. UNCHANGED <<available, event, hydrated>>
    BY <1>10 DEF Resolve, redisVars, procVars
  <2>2. CASE UNCHANGED routed
    BY <1>3, <2>1, <2>2
  <2>3. CASE /\ ~Conflicts(WaitingFor(r))
             /\ routed' = [m \in Messages |->
                             IF m \in WaitingFor(r) THEN r ELSE routed[m]]
    <3>1. \A m \in Messages, n \in Numbers : routed'[m] = n <=> routed[m] = n
      BY <2>3, RoutingAssumption DEF Conflicts
    <3>. QED  BY <1>2, <2>1, <3>1 DEF Covered
  <2>. QED  BY <1>10, <2>2, <2>3 DEF Resolve
<1>11. ~Crash /\ ~Flush
  BY DEF Crash, Flush, BoundType
<1>. QED
  BY <1>3, <1>4, <1>5, <1>6, <1>7, <1>8, <1>9, <1>10, <1>11
     DEF Next, CallIndex, Handle, DeliverEvent, Submit, Start, CheckHydrated,
         TakeLock, LearnLimit, HydrateLocations, ReadUsage, ReadPending,
         WritePending, LookupMapping, ChooseLocation, ChooseNumber,
         ChoosePending, CheckRequest, CreateRequest, Complete, DbError,
         AnnounceRequest, Fulfil, dbVars, redisVars, indexVars, procVars, vars

-----------------------------------------------------------------------------
(* No request, event, score or lock exists before the first message. *)
LEMMA InitRouting == Init => RoutingInv /\ (Known = {} => UsageInv)
<1>. SUFFICES ASSUME Init PROVE RoutingInv /\ (Known = {} => UsageInv)
  OBVIOUS
<1>. USE DEF Init, Nothing, NoEvent
<1>1. Requested
  BY RoutingAssumption DEF Requested, Bought, Unasked, AllNumbers
<1>2. EventsOfRecorded /\ LoadedFirst
  BY DEF EventsOfRecorded, LoadedFirst, LimitKnown
<1>3. Settled
  BY RoutingAssumption DEF Settled, OnceRecorded, Recorded, WaitsInTime,
     NoneStranded, NoRequestForNobody
<1>4. HydratedOnce /\ AnnouncedFirst
  BY DEF HydratedOnce, AnnouncedFirst
<1>5. PendingExact
  BY DEF PendingExact
<1>6. ASSUME Known = {} PROVE RepeatOnly /\ SentAfter /\ Covered
  <2>1. RepeatOnly
    <3>1. \A c \in Contacts : mapping[c] = None
      BY <1>6
    <3>2. \A m \in Messages : pc[m] # "route"
      OBVIOUS
    <3>. QED  BY <3>1, <3>2 DEF RepeatOnly
  <2>2. SentAfter /\ Covered
    BY DEF SentAfter, Covered, Indexes
  <2>. QED  BY <2>1, <2>2
<1>. QED
  BY <1>1, <1>2, <1>3, <1>4, <1>5, <1>6
     DEF RoutingInv, Exact, UsageInv, UsageExact

(* Nothing takes a failure back. *)
LEMMA FailuresStay ==
  ASSUME IInv, [Next]_vars
  PROVE  /\ crashes' = 0 => crashes = 0 /\ crashes' = crashes
         /\ flushes' = 0 => flushes = 0 /\ flushes' = flushes
         /\ errors' = 0 => errors = 0
<1>. USE DEF IInv, TypeOK
<1>1. CASE UNCHANGED boundVars
  BY <1>1 DEF boundVars
<1>2. ASSUME NEW m \in Messages, DbError(m)
      PROVE  UNCHANGED <<crashes, flushes>> /\ errors' # 0
  BY <1>2 DEF DbError, BoundType
<1>3. CASE Crash
  BY <1>3 DEF Crash, BoundType
<1>4. CASE Flush
  BY <1>4 DEF Flush, BoundType
<1>. QED
  BY <1>1, <1>2, <1>3, <1>4
     DEF Next, CallIndex, Handle, DeliverEvent, Submit, Start, CheckHydrated,
         TakeLock, FinishHydration, LearnLimit, HydrateLocations, ReadUsage,
         WriteUsage, ReadPending, WritePending, LookupMapping, ChooseLocation,
         ChooseNumber, ChoosePending, CheckRequest, CreateRequest,
         InsertAwaiting, InsertRouting, Complete, CheckClosed, CountAwaiting,
         CountUsage, AnnounceRequest, Fulfil, Resolve, vars

(* Each step keeps what its failures leave in force. *)
LEMMA NextRouting == IInv /\ RoutingInv /\ [Next]_vars => RoutingInv'
<1>. SUFFICES ASSUME IInv, RoutingInv, [Next]_vars
              PROVE  RoutingInv'
  OBVIOUS
<1>1. Requested' /\ EventsOfRecorded'
  BY RequestedStep, EventsStep DEF RoutingInv
<1>2. flushes' = 0 => LoadedFirst'
  BY FailuresStay, LoadedStep DEF RoutingInv
<1>3. crashes' = 0 => Settled'
  BY FailuresStay, SettledStep DEF RoutingInv
<1>4. ASSUME crashes' = 0, flushes' = 0
      PROVE  Exact'
  <2>1. /\ crashes = 0 /\ crashes' = crashes /\ flushes = 0 /\ flushes' = flushes
    BY <1>4, FailuresStay
  <2>2. /\ Requested /\ EventsOfRecorded /\ LoadedFirst /\ OnceRecorded
        /\ HydratedOnce /\ AnnouncedFirst /\ \A r \in Requests : ExactAt(r)
    BY <2>1 DEF RoutingInv, Settled, Exact, PendingExact, ExactAt
  <2>3. HydratedOnce'
    BY <2>1, <2>2, HydratedOnceStep
  <2>4. AnnouncedFirst' /\ \A r \in Requests : ExactAt(r)'
    BY <2>1, <2>2, ExactStep
  <2>. QED  BY <2>3, <2>4 DEF Exact, PendingExact, ExactAt
<1>. QED  BY <1>1, <1>2, <1>3, <1>4 DEF RoutingInv

(* Without crashes and flushes the use of the numbers stays covered. *)
LEMMA NextUsage == IInv /\ RoutingInv /\ UsageInv /\ [Next]_vars => UsageInv'
<1>. SUFFICES ASSUME IInv, RoutingInv, UsageInv, [Next]_vars,
                     crashes' = 0, flushes' = 0
              PROVE  UsageExact'
  BY DEF UsageInv
<1>1. /\ crashes = 0 /\ crashes' = crashes /\ flushes = 0 /\ flushes' = flushes
  BY FailuresStay
<1>2. /\ Requested /\ EventsOfRecorded /\ LoadedFirst /\ OnceRecorded
      /\ HydratedOnce /\ RepeatOnly /\ SentAfter /\ Covered
  BY <1>1 DEF RoutingInv, Settled, Exact, UsageInv, UsageExact
<1>3. RepeatOnly'
  BY <1>2, RepeatOnlyStep
<1>4. SentAfter'
  BY <1>1, <1>2, SentAfterStep
<1>5. Covered'
  BY <1>1, <1>2, CoveredStep
<1>. QED  BY <1>3, <1>4, <1>5 DEF UsageExact

(* The inductive invariant of the routing. *)
LEMMA InvRouting == Spec => [](IInv /\ RoutingInv)
BY InitIInv, NextIInv, InitRouting, NextRouting, PTL DEF Spec

-----------------------------------------------------------------------------
(* While no worker has crashed, a message that waits has not been routed: the
   insert of the routing rows and the delete of the awaiting ones are one
   statement, and no handler gets to record its message a second time. *)
THEOREM NoCrashXor == Spec => [](crashes = 0 => AwaitingXorRouted)
<1>1. RoutingInv => (crashes = 0 => AwaitingXorRouted)
  BY DEF RoutingInv, Settled, OnceRecorded, Recorded, AwaitingXorRouted
<1>. QED  BY <1>1, InvRouting, PTL

(* While no worker has crashed and no handler outlives the last resolve job,
   no message is left waiting for a number that has been bought. *)
THEOREM NobodyStranded ==
  ASSUME Timely
  PROVE  Spec => [](crashes = 0 => NoneStranded)
<1>1. RoutingInv => (crashes = 0 => NoneStranded)
  BY Timely DEF RoutingInv, Settled
<1>. QED  BY <1>1, InvRouting, PTL

(* While no statement has failed and no worker has crashed, a request that
   is not fulfilled has a message that waits for it, or is about to. *)
THEOREM BoughtForSomebody ==
  Spec => [](errors = 0 /\ crashes = 0 => NoRequestForNobody)
<1>1. RoutingInv => (errors = 0 /\ crashes = 0 => NoRequestForNobody)
  BY DEF RoutingInv, Settled
<1>. QED  BY <1>1, InvRouting, PTL

(* While Redis has not been flushed, no worker learns a limit that is not
   there: the indexes are loaded before one of them is read. *)
THEOREM LimitsLearnt == Spec => [](flushes = 0 => LimitKnown)
<1>1. RoutingInv => (flushes = 0 => LimitKnown)
  BY DEF RoutingInv, LoadedFirst
<1>. QED  BY <1>1, InvRouting, PTL

(* The score of an unfulfilled request and its events in flight count the
   messages that wait for it. *)
THEOREM PendingCounted == Spec => []PendingExact
<1>1. RoutingInv => PendingExact
  BY DEF RoutingInv, Exact, PendingExact
<1>. QED  BY <1>1, InvRouting, PTL

(* A step of the handler of m that throws: the indexes are loaded before they are
   read and nothing is recorded twice, so it has met a failing statement or a
   request that was bought. *)
LEMMA ThrowsIfBought ==
  ASSUME IInv, LoadedFirst, OnceRecorded, NEW m \in Messages,
         CallIndex(m) \/ Handle(m), job[m] = "running",
         job'[m] \in {"queued", "parked"}
  PROVE  pc[m] = "check" /\ Fulfilled(picked[m])
<1>. USE DEF IInv, TypeOK
<1>1. ~UNCHANGED job /\ job'[m] # "done" /\ job'[m] # "running"
  OBVIOUS
<1>2. CASE CallIndex(m)
  BY <1>1, <1>2 DEF CallIndex, CheckHydrated, TakeLock, FinishHydration, LearnLimit,
     HydrateLocations, ReadUsage, WriteUsage, ReadPending, WritePending, jobVars
<1>3. CASE ChooseLocation(m)
  BY <1>1, <1>3 DEF ChooseLocation, LoadedFirst, Indexes
<1>4. CASE ChooseNumber(m)
  BY <1>1, <1>4 DEF ChooseNumber, LoadedFirst, LimitKnown, ProcType
<1>5. CASE ChoosePending(m)
  BY <1>1, <1>5 DEF ChoosePending, LoadedFirst, LimitKnown, ProcType
<1>6. CASE CheckRequest(m)
  BY <1>1, <1>6 DEF CheckRequest
<1>7. CASE InsertAwaiting(m) \/ InsertRouting(m)
  BY <1>1, <1>7 DEF InsertAwaiting, InsertRouting, OnceRecorded, Recorded
<1>8. CASE Complete(m)
  BY <1>1, <1>8 DEF Complete, JobType
<1>9. CASE LookupMapping(m) \/ CreateRequest(m)
  BY <1>1, <1>9 DEF LookupMapping, CreateRequest, jobVars
<1>. QED
  BY <1>2, <1>3, <1>4, <1>5, <1>6, <1>7, <1>8, <1>9 DEF Handle

(* While no worker crashes and Redis keeps its data, an attempt no failing
   statement ends is lost only to a request that was bought before it left
   the sorted set: a message is parked after MaxAttempts of those. *)
THEOREM AttemptsLostToBought == Spec => RetriedOnlyIfBought
<1>1. ASSUME IInv, RoutingInv, [Next]_vars, crashes' = 0, flushes = 0, UNCHANGED errors,
             NEW m \in Messages, job[m] = "running", job'[m] \in {"queued", "parked"}
      PROVE  pc[m] = "check" /\ Fulfilled(picked[m])
  <2>1. crashes = 0 /\ crashes' = crashes
    BY <1>1, FailuresStay
  <2>2. LoadedFirst /\ OnceRecorded
    BY <1>1, <2>1 DEF RoutingInv, Settled
  <2>3. job'[m] # job[m]
    BY <1>1
  <2>4. CASE CallIndex(m) \/ Handle(m)
    BY <1>1, <2>2, <2>4, ThrowsIfBought
  <2>5. ASSUME NEW k \in Messages, k # m, CallIndex(k) \/ Handle(k)
        PROVE  job'[m] = job[m]
    BY <1>1, <2>5 DEF IInv, TypeOK, JobType, CallIndex, Handle, CheckHydrated, TakeLock,
       FinishHydration, LearnLimit, HydrateLocations, ReadUsage, WriteUsage,
       ReadPending, WritePending, LookupMapping, ChooseLocation, ChooseNumber,
       ChoosePending, CheckRequest, CreateRequest, InsertAwaiting, InsertRouting,
       Complete, Throw, jobVars
  <2>6. ASSUME NEW k \in Messages, Submit(k) \/ Start(k) \/ DeliverEvent(k)
        PROVE  job'[m] = job[m]
    BY <1>1, <2>6 DEF IInv, TypeOK, JobType, Submit, Start, DeliverEvent, CheckClosed,
       CountAwaiting, CountUsage, jobVars
  <2>10. ASSUME NEW k \in Messages, DbError(k)
         PROVE  FALSE
    BY <1>1, <2>10 DEF IInv, TypeOK, BoundType, DbError
  <2>7. Crash => crashes' = crashes + 1
    BY DEF Crash
  <2>8. Flush \/ UNCHANGED vars => UNCHANGED job
    BY DEF Flush, vars, jobVars
  <2>9. ASSUME NEW r \in Requests, AnnounceRequest(r) \/ Fulfil(r) \/ Resolve(r)
        PROVE  job'[m] = job[m]
    BY <2>9 DEF AnnounceRequest, Fulfil, Resolve, jobVars
  <2>11. PICK k \in Messages : CallIndex(k) \/ Handle(k)
    BY <1>1, <2>1, <2>3, <2>6, <2>7, <2>8, <2>9, <2>10 DEF Next
  <2>12. k = m
    BY <2>3, <2>5, <2>11
  <2>. QED
    BY <2>4, <2>11, <2>12
<1>2. IInv /\ RoutingInv /\ [Next]_vars =>
        [crashes' = 0 /\ flushes = 0 /\ UNCHANGED errors =>
           \A m \in Messages :
             job[m] = "running" /\ job'[m] \in {"queued", "parked"} =>
               pc[m] = "check" /\ Fulfilled(picked[m])]_vars
  BY <1>1
<1>. QED
  BY <1>2, InvRouting, PTL DEF Spec, RetriedOnlyIfBought

(* While every contact is new, the score of a number and its events in flight
   cover the contacts it has texted. *)
THEOREM UsageCounted == ASSUME Known = {} PROVE Spec => []UsageCovered
<1>1. IInv /\ RoutingInv /\ UsageInv => UsageCovered
  <2>. SUFFICES ASSUME UsageInv, RoutingInv, IInv, crashes = 0, flushes = 0,
                       NEW n \in Numbers, RoutedContacts(n) # {}
                PROVE  available[n] + Cardinality(InFlight(n))
                         >= Cardinality(RoutedContacts(n))
    BY DEF UsageCovered, InFlight
  <2>1. hydrated
    BY RoutingAssumption DEF UsageInv, UsageExact, SentAfter, RoutedContacts
  <2>. QED  BY <2>1 DEF UsageInv, UsageExact, Covered
<1>2. Init => UsageInv
  BY Known = {}, InitRouting
<1>. QED  BY <1>1, <1>2, InvRouting, NextUsage, PTL DEF Spec

-----------------------------------------------------------------------------
(* Where the number of a request can be before it sends: in a snapshot of a
   hydration, in a handler that routes, in an event of a routed message. *)
Unbought(r) ==
  /\ available[r] = Absent
  /\ \A c \in Contacts : mapping[c] # r
  /\ \A m \in Messages : /\ routed[m] # r
                         /\ snapUsage[m][r] = Absent
                         /\ ~(pc[m] = "route" /\ picked[m] = r)
                         /\ ~(event[m].kind = "usage" /\ event[m].of = r)

UsedOnceBought == \A r \in Requests : request[r] # "fulfilled" => Unbought(r)

LEMMA UnboughtFrame ==
  ASSUME UsedOnceBought,
         \A r \in Requests : request'[r] # "fulfilled" => request[r] # "fulfilled",
         \A r \in Requests : available'[r] \in {available[r], Absent},
         UNCHANGED <<mapping, routed>>,
         \A m \in Messages :
           /\ pc'[m] = "route" => pc[m] = "route" /\ picked'[m] = picked[m]
           /\ event'[m].kind = "usage" => event'[m] = event[m]
           /\ \A r \in Requests : snapUsage'[m][r] \in {snapUsage[m][r], Absent}
  PROVE  UsedOnceBought'
BY DEF UsedOnceBought, Unbought

(* A number that is not bought moves nowhere. *)
LEMMA UnboughtStep ==
  IInv /\ Requested /\ UsedOnceBought /\ [Next]_vars => UsedOnceBought'
<1>. SUFFICES ASSUME IInv, Requested, UsedOnceBought, [Next]_vars
              PROVE  UsedOnceBought'
  OBVIOUS
<1>. USE DEF IInv, TypeOK
<1>1. ASSUME NEW m \in Messages,
             \/ Submit(m) \/ Start(m) \/ Complete(m) \/ DbError(m)
             \/ ChooseLocation(m) \/ ChoosePending(m) \/ CheckRequest(m)
      PROVE  UsedOnceBought'
  <2>1. UNCHANGED <<request, routed, mapping, available, event, snapUsage>>
    BY <1>1 DEF Submit, Start, Complete, DbError, ChooseLocation, ChoosePending,
       CheckRequest, Retire, dbVars, redisVars, procVars, idxVars
  <2>2. \/ EndHandler(m)
        \/ UNCHANGED <<pc, picked>>
        \/ \E p \in {"mapping", "number", "check", "create", "await"} :
             /\ pc' = [pc EXCEPT ![m] = p]
             /\ \A x \in Messages \ {m} : picked'[x] = picked[x]
    BY <1>1 DEF Submit, Start, Complete, DbError, ChooseLocation, ChoosePending,
       CheckRequest, Throw, HandlerType, stepVars
  <2>3. \A x \in Messages :
          pc'[x] = "route" => pc[x] = "route" /\ picked'[x] = picked[x]
    BY <2>2, EndedLocals DEF HandlerType
  <2>. QED  BY <2>1, <2>3, UnboughtFrame
<1>2. ASSUME NEW m \in Messages,
             \/ CheckHydrated(m) \/ TakeLock(m) \/ FinishHydration(m)
             \/ LearnLimit(m) \/ HydrateLocations(m) \/ ReadPending(m)
             \/ WritePending(m)
      PROVE  UsedOnceBought'
  <2>1. UNCHANGED <<request, routed, mapping, available, event, snapUsage, pc,
                    picked>>
    BY <1>2 DEF CheckHydrated, TakeLock, FinishHydration, LearnLimit,
       HydrateLocations, ReadPending, WritePending, stepVars, dbVars, redisVars,
       indexVars, procVars, idxVars
  <2>. QED  BY <2>1, UnboughtFrame
<1>3. ASSUME NEW m \in Messages, LookupMapping(m)
      PROVE  UsedOnceBought'
  <2>1. UNCHANGED <<request, routed, mapping, available, event, snapUsage>>
    BY <1>3 DEF LookupMapping, dbVars, redisVars, procVars
  <2>2. ContactOf[m] \in Contacts
    BY RoutingAssumption
  <2>3. \A x \in Messages :
          pc'[x] = "route" => \/ pc[x] = "route" /\ picked'[x] = picked[x]
                              \/ picked'[x] = mapping[ContactOf[m]]
    BY <1>3 DEF LookupMapping, HandlerType
  <2>. QED  BY <2>1, <2>2, <2>3 DEF UsedOnceBought, Unbought
<1>4. ASSUME NEW m \in Messages, ChooseNumber(m)
      PROVE  UsedOnceBought'
  <2>1. UNCHANGED <<request, routed, mapping, available, event, snapUsage>>
    BY <1>4 DEF ChooseNumber, dbVars, redisVars, procVars
  <2>2. CASE EndHandler(m) \/ (pc' = [pc EXCEPT ![m] = "pending"] /\ UNCHANGED picked)
    <3>1. \A x \in Messages :
            pc'[x] = "route" => pc[x] = "route" /\ picked'[x] = picked[x]
      BY <2>2, EndedLocals DEF HandlerType
    <3>. QED  BY <2>1, <3>1, UnboughtFrame
  <2>3. ASSUME NEW n \in AllNumbers, Usable(n), pc' = [pc EXCEPT ![m] = "route"],
               picked' = [picked EXCEPT ![m] = n]
        PROVE  UsedOnceBought'
    <3>1. available[n] # Absent
      BY <2>3 DEF Usable, Absent
    <3>2. \A x \in Messages :
            pc'[x] = "route" => \/ pc[x] = "route" /\ picked'[x] = picked[x]
                                \/ picked'[x] = n
      BY <2>3 DEF HandlerType
    <3>. QED  BY <2>1, <3>1, <3>2 DEF UsedOnceBought, Unbought
  <2>. QED  BY <1>4, <2>2, <2>3 DEF ChooseNumber, Throw
<1>5. ASSUME NEW m \in Messages, ReadUsage(m)
      PROVE  UsedOnceBought'
  <2>1. UNCHANGED <<request, routed, mapping, available, event, pc, picked>>
    BY <1>5 DEF ReadUsage, dbVars, redisVars, procVars, stepVars
  <2>2. \A x \in Messages, r \in Requests : request[r] # "fulfilled" =>
          snapUsage'[x][r] \in {snapUsage[x][r], Absent}
    BY <1>5, RoutingAssumption DEF ReadUsage, Live, IndexType, AllNumbers
  <2>. QED  BY <2>1, <2>2 DEF UsedOnceBought, Unbought
<1>6. ASSUME NEW m \in Messages, WriteUsage(m)
      PROVE  UsedOnceBought'
  <2>1. UNCHANGED <<request, routed, mapping, event, pc, picked>>
    BY <1>6 DEF WriteUsage, dbVars, procVars, stepVars
  <2>2. \A x \in Messages, r \in Requests :
          snapUsage'[x][r] \in {snapUsage[x][r], Absent}
    BY <1>6 DEF WriteUsage, IndexType, Nothing, AllNumbers
  <2>3. \A r \in Requests : available'[r] \in {available[r], snapUsage[m][r]}
    BY <1>6 DEF WriteUsage, ZAddAll, RedisType, AllNumbers
  <2>. QED  BY <2>1, <2>2, <2>3 DEF UsedOnceBought, Unbought
<1>7. ASSUME NEW m \in Messages, CreateRequest(m)
      PROVE  UsedOnceBought'
  <2>1. UNCHANGED <<routed, mapping, available, event, snapUsage>>
    BY <1>7 DEF CreateRequest, redisVars, idxVars
  <2>2. \A r \in Requests : request'[r] # "fulfilled" => request[r] # "fulfilled"
    BY <1>7 DEF CreateRequest, DbType
  <2>3. \A x \in Messages :
          pc'[x] = "route" => pc[x] = "route" /\ picked'[x] = picked[x]
    BY <1>7 DEF CreateRequest, AfterCreate, HandlerType
  <2>. QED  BY <2>1, <2>2, <2>3, UnboughtFrame
<1>8. ASSUME NEW m \in Messages, InsertAwaiting(m)
      PROVE  UsedOnceBought'
  <2>1. UNCHANGED <<request, routed, mapping, available, snapUsage>>
    BY <1>8 DEF InsertAwaiting, redisVars, idxVars
  <2>2. \A x \in Messages : event'[x].kind = "usage" => event'[x] = event[x]
    BY <1>8 DEF InsertAwaiting, ProcType
  <2>3. \A x \in Messages :
          pc'[x] = "route" => pc[x] = "route" /\ picked'[x] = picked[x]
    BY <1>8, EndedLocals DEF InsertAwaiting, Throw, HandlerType
  <2>. QED  BY <2>1, <2>2, <2>3, UnboughtFrame
<1>9. ASSUME NEW m \in Messages, InsertRouting(m)
      PROVE  UsedOnceBought'
  <2>1. /\ UNCHANGED <<request, available, snapUsage>>
        /\ pc[m] = "route"
    BY <1>9 DEF InsertRouting, redisVars, idxVars
  <2>2. \A x \in Messages :
          pc'[x] = "route" => pc[x] = "route" /\ picked'[x] = picked[x]
    BY <1>9, EndedLocals DEF InsertRouting, Throw, HandlerType
  <2>3. /\ \A x \in Messages : routed'[x] = routed[x] \/ routed'[x] = picked[m]
        /\ \A c \in Contacts : mapping'[c] = mapping[c] \/ mapping'[c] = picked[m]
        /\ \A x \in Messages : event'[x] = event[x] \/ event'[x].of = picked[m]
    BY <1>9 DEF InsertRouting, MapContacts, DbType, ProcType
  <2>. QED  BY <2>1, <2>2, <2>3 DEF UsedOnceBought, Unbought
<1>10. ASSUME NEW m \in Messages, DeliverEvent(m)
       PROVE  UsedOnceBought'
  <2>1. UNCHANGED <<request, routed, mapping, snapUsage, pc, picked>>
    BY <1>10 DEF DeliverEvent, CheckClosed, CountAwaiting, CountUsage, dbVars,
       idxVars, stepVars
  <2>2. \A x \in Messages : event'[x].kind = "usage" => event'[x] = event[x]
    BY <1>10 DEF DeliverEvent, CheckClosed, CountAwaiting, CountUsage, NoEvent,
       ProcType
  <2>3. \A r \in Requests :
          \/ available'[r] = available[r]
          \/ event[m].kind = "usage" /\ event[m].of = r
    BY <1>10 DEF DeliverEvent, CheckClosed, CountAwaiting, CountUsage, redisVars,
       RedisType, AllNumbers
  <2>. QED  BY <2>1, <2>2, <2>3 DEF UsedOnceBought, Unbought
<1>11. ASSUME NEW r \in Requests, AnnounceRequest(r) \/ Fulfil(r)
       PROVE  UsedOnceBought'
  <2>1. UNCHANGED <<routed, mapping, available, event, snapUsage, pc, picked>>
    BY <1>11 DEF AnnounceRequest, Fulfil, dbVars, redisVars, procVars, idxVars,
       stepVars
  <2>2. \A s \in Requests : request'[s] # "fulfilled" => request[s] # "fulfilled"
    BY <1>11 DEF AnnounceRequest, Fulfil, dbVars, DbType
  <2>. QED  BY <2>1, <2>2, UnboughtFrame
<1>12. ASSUME NEW r \in Requests, Resolve(r)
       PROVE  UsedOnceBought'
  <2>1. /\ UNCHANGED <<request, available, event, snapUsage, pc, picked>>
        /\ resolves[r] > 0
    BY <1>12 DEF Resolve, ResolveQueued, redisVars, procVars, idxVars, stepVars
  <2>2. request[r] = "fulfilled"
    BY <2>1 DEF Requested, Bought
  <2>3. /\ \A x \in Messages : routed'[x] = routed[x] \/ routed'[x] = r
        /\ \A c \in Contacts : mapping'[c] = mapping[c] \/ mapping'[c] = r
    BY <1>12 DEF Resolve, MapContacts, DbType
  <2>. QED  BY <2>1, <2>2, <2>3 DEF UsedOnceBought, Unbought
<1>13. CASE Crash
  <2>1. /\ UNCHANGED <<request, routed, mapping, available>>
        /\ \A x \in Messages : pc'[x] = "idle" /\ event'[x].kind = "none"
        /\ \A x \in Messages, r \in Requests : snapUsage'[x][r] = Absent
    BY <1>13 DEF Crash, NoEvent, Nothing, AllNumbers, dbVars, indexVars
  <2>. QED  BY <2>1, UnboughtFrame
<1>14. CASE Flush \/ UNCHANGED vars
  <2>1. /\ UNCHANGED <<request, routed, mapping, event, snapUsage, pc, picked>>
        /\ \A r \in Requests : available'[r] \in {available[r], Absent}
    BY <1>14 DEF Flush, vars, Nothing, AllNumbers, dbVars, procVars, idxVars,
       stepVars
  <2>. QED  BY <2>1, UnboughtFrame
<1>. QED
  BY <1>1, <1>2, <1>3, <1>4, <1>5, <1>6, <1>7, <1>8, <1>9, <1>10, <1>11, <1>12,
     <1>13, <1>14 DEF Next, CallIndex, Handle

(* The number of a request sends nothing, is nobody's mapping and is not offered
   by Redis before it has been bought, whatever crashes, fails or is flushed
   (process-grey-route-message, the hydration and the resolve jobs). *)
THEOREM NumbersBoughtFirst == Spec => []OnlyBought
<1>1. UsedOnceBought => OnlyBought
  BY DEF UsedOnceBought, Unbought, OnlyBought
<1>2. Init => UsedOnceBought
  BY RoutingAssumption DEF Init, UsedOnceBought, Unbought, Nothing, NoEvent,
     AllNumbers
<1>3. RoutingInv => Requested
  BY DEF RoutingInv
<1>. QED  BY <1>1, <1>2, <1>3, InvRouting, UnboughtStep, PTL DEF Spec
=============================================================================
