-------------------------- MODULE LocationsProofs --------------------------
(***************************************************************************)
(* What is promised of the locations a profile sends from, for every number *)
(* of messages, locations and area codes: the jobs of registered traffic   *)
(* and the limit of its numbers (MessageChannels), and the search for area *)
(* codes to buy in, with the belief of their capacity (AreaCodes).         *)
(***************************************************************************)
EXTENDS MessageChannels, AreaCodes, TLAPS, FiniteSetTheorems

\* A message that has its row was written by the attempt under way, or finished,
\* or a fault came after the row.
RowsWritten ==
  \A m \in Outbound : routed10[m] # NoLocation =>
    stage[m] \in {"written", "done"} \/ m \in repeated10

\* A job that is queued has an attempt left.
AttemptsLeft10 ==
  \A m \in Outbound : /\ stage[m] = "new" => goes[m] = 0
                      /\ stage[m] = "queued" => goes[m] < ChannelAttempts

\* A location has no request before it is committed, and then one.
RequestsOfLocations ==
  \A l \in Locations : /\ requested[l] <= 1
                       /\ l \notin located10 => requested[l] = 0
                       /\ creating[l] = "counted" => l \notin located10

\* A transaction that counted alone found room for its request.
CountedWithRoom ==
  /\ IsFiniteSet(NumberRequests)
  /\ ~overlapped => \A l \in Locations : creating[l] = "counted" =>
       Total < Limit /\ \A k \in Locations : creating[k] = "counted" => k = l

ChannelsInv == /\ ChannelsTypeOK /\ RowsWritten /\ AttemptsLeft10 /\ RequestsOfLocations
               /\ LocationHasRequest /\ CountedWithRoom /\ LimitKeptAlone

\* A search asks about the codes in the order of the list, and about the other
\* states only after every code of its own; it ends well with enough numbers or
\* with nothing left to ask, and one that is queued has an attempt left.
SearchOK(f) ==
  /\ offset[f] <= Len(Candidates(f)) /\ toUse[f] \subseteq asked[f]
  /\ \A i \in 1..offset[f] : Candidates(f)[i] \in asked[f]
  /\ IF sameState[f] THEN asked[f] \subseteq NearCodes ELSE NearCodes \subseteq asked[f]
  /\ search[f] \in {"persist", "save"} => HasCandidate(f) /\ Candidate(f) \in asked[f]
  /\ search[f] = "done" => numbersFound[f] >= MinSuitable \/ asked[f] = Codes
  /\ search[f] = "none" => searches[f] = 0
  /\ search[f] = "queued" => searches[f] < FindAttempts
SearchesOK == \A f \in Searches : SearchOK(f)

\* Purchases until the capacity is a multiple again, and how many may pass when
\* k answers were overtaken.
Left(k) == IF k % RefreshEvery = 0 THEN RefreshEvery ELSE k % RefreshEvery
AtMost(k) == (RefreshEvery - 1) * (1 + k)

\* What was bought unseen, with what is left until the next multiple, stays within
\* the bound.
CountsDown ==
  \A c \in Codes : IF capacity[c] = Unestimated
                   THEN unseen[c] = 0
                   ELSE unseen[c] + Left(capacity[c]) <= 1 + AtMost(overwritten[c])

AreaCodesInv == AreaCodesTypeOK /\ SearchesOK /\ CountsDown

-----------------------------------------------------------------------------
(* Registered traffic. *)

LEMMA InNumberRequests ==
  \A x : x \in NumberRequests <=>
    \E l \in Locations : \E i \in 1..requested[l] : x = <<l, i>>
BY DEF NumberRequests

LEMMA ChannelsStart == ChannelsInit => ChannelsInv
<1> SUFFICES ASSUME ChannelsInit PROVE ChannelsInv
  OBVIOUS
<1> USE ChannelsAssumption
<1>1. ChannelsTypeOK
  <2>1. overlapped \in BOOLEAN
    BY DEF ChannelsInit
  <2> QED
    BY <2>1 DEF ChannelsInit, ChannelsTypeOK
<1>2. IsFiniteSet(NumberRequests) /\ Total = Cardinality(Located)
  <2> DEFINE f == [l \in Located |-> <<l, 1>>]
  <2>1. NumberRequests = {<<l, 1>> : l \in Located}
    BY InNumberRequests DEF ChannelsInit
  <2>2. f \in Bijection(Located, NumberRequests)
    BY <2>1 DEF Bijection, Injection, Surjection, IsInjective
  <2>3. ExistsBijection(Located, NumberRequests)
    BY <2>2 DEF ExistsBijection
  <2> QED
    BY <2>3, FS_Bijection DEF Total
<1> QED
  BY <1>1, <1>2
  DEF ChannelsInit, ChannelsInv, RowsWritten, AttemptsLeft10, RequestsOfLocations,
      LocationHasRequest, CountedWithRoom, LimitKeptAlone

\* The places of a profile, and its number requests, as they were.
LEMMA PlacesFrame ==
  ASSUME ChannelsInv, UNCHANGED <<located10, requested, creating, overlapped>>
  PROVE  /\ RequestsOfLocations' /\ LocationHasRequest'
         /\ CountedWithRoom' /\ LimitKeptAlone'
BY DEF ChannelsInv, RequestsOfLocations, LocationHasRequest, CountedWithRoom, LimitKeptAlone,
       Total, NumberRequests

LEMMA JobsFrame10 ==
  ASSUME ChannelsInv, UNCHANGED <<jobVars10, routed10>>
  PROVE  RowsWritten' /\ AttemptsLeft10'
BY DEF ChannelsInv, RowsWritten, AttemptsLeft10, jobVars10

LEMMA ChannelsStep == ChannelsInv /\ [ChannelsNext]_channelVars => ChannelsInv'
<1> SUFFICES ASSUME ChannelsInv, [ChannelsNext]_channelVars PROVE ChannelsInv'
  OBVIOUS
<1> USE ChannelsAssumption DEF ChannelsInv, ChannelsTypeOK, profileVars, placeVars10, jobVars10
<1>1. CASE Register
  BY <1>1, PlacesFrame, JobsFrame10 DEF Register
<1>2. CASE CacheExpires
  BY <1>2, PlacesFrame, JobsFrame10 DEF CacheExpires
<1>3. CASE ReadProfile
  BY <1>3, PlacesFrame, JobsFrame10 DEF ReadProfile
<1>4. ASSUME NEW l \in Locations, NumberLive(l) PROVE ChannelsInv'
  <2>1. ChannelsTypeOK'
    BY <1>4 DEF NumberLive, RequestsOfLocations
  <2> QED
    BY <1>4, <2>1, PlacesFrame, JobsFrame10 DEF NumberLive
<1>5. ASSUME NEW l \in Locations, NumberReleased(l) PROVE ChannelsInv'
  <2>1. ChannelsTypeOK'
    BY <1>5 DEF NumberReleased, RequestsOfLocations
  <2> QED
    BY <1>5, <2>1, PlacesFrame, JobsFrame10 DEF NumberReleased
<1>6. ASSUME NEW l \in Locations, RollbackCreate(l) PROVE ChannelsInv'
  <2>1. ChannelsTypeOK'
    BY <1>6 DEF RollbackCreate, ChannelFault
  <2>2. UNCHANGED <<located10, requested, NumberRequests, Total, overlapped>>
    BY <1>6 DEF RollbackCreate, Total, NumberRequests
  <2>3. RequestsOfLocations' /\ LocationHasRequest' /\ CountedWithRoom' /\ LimitKeptAlone'
    BY <1>6, <2>2
    DEF RollbackCreate, RequestsOfLocations, LocationHasRequest, CountedWithRoom,
        LimitKeptAlone
  <2> QED
    BY <1>6, <2>1, <2>3, JobsFrame10 DEF RollbackCreate
<1>7. ASSUME NEW l \in Locations, CreateSendingLocation(l) PROVE ChannelsInv'
  <2>1. ChannelsTypeOK'
    <3>1. overlapped' \in BOOLEAN
      BY <1>7 DEF CreateSendingLocation
    <3> QED
      BY <1>7, <3>1 DEF CreateSendingLocation
  <2>2. UNCHANGED <<located10, requested, NumberRequests, Total>>
    BY <1>7 DEF CreateSendingLocation, Total, NumberRequests
  <2>3. RequestsOfLocations' /\ LocationHasRequest'
    BY <1>7, <2>2 DEF CreateSendingLocation, RequestsOfLocations, LocationHasRequest
  <2>4. CountedWithRoom'
    BY <1>7, <2>2 DEF CreateSendingLocation, CountedWithRoom
  <2>5. LimitKeptAlone'
    BY <1>7, <2>2 DEF CreateSendingLocation, LimitKeptAlone
  <2> QED
    BY <1>7, <2>1, <2>3, <2>4, <2>5, JobsFrame10 DEF CreateSendingLocation
<1>8. ASSUME NEW l \in Locations, CommitCreate(l) PROVE ChannelsInv'
  <2> DEFINE new == <<l, requested[l] + 1>>
  <2>1. /\ creating[l] = "counted" /\ creating' = [creating EXCEPT ![l] = "no"]
        /\ located10' = located10 \cup {l}
        /\ requested' = [requested EXCEPT ![l] = requested[l] + 1]
        /\ overlapped' = overlapped
    BY <1>8 DEF CommitCreate
  <2>2. ChannelsTypeOK'
    BY <1>8 DEF CommitCreate
  <2>3. RequestsOfLocations' /\ LocationHasRequest'
    BY <2>1 DEF RequestsOfLocations, LocationHasRequest
  <2>4. new \notin NumberRequests /\ NumberRequests' = NumberRequests \cup {new}
    <3>1. new \notin NumberRequests
      BY InNumberRequests
    <3>2. \A x : x \in NumberRequests' <=>
            \E k \in Locations : \E i \in 1..requested'[k] : x = <<k, i>>
      BY DEF NumberRequests
    <3>3. \A k \in Locations : \A i : i \in 1..requested'[k] <=>
            i \in 1..requested[k] \/ (k = l /\ i = requested[l] + 1)
      BY <2>1
    <3>4. ASSUME NEW x PROVE x \in NumberRequests' <=> x \in NumberRequests \/ x = new
      <4>1. x \in NumberRequests' => x \in NumberRequests \/ x = new
        BY <3>2, <3>3, InNumberRequests
      <4>2. x \in NumberRequests => x \in NumberRequests'
        BY <3>2, <3>3, InNumberRequests
      <4>3. new \in NumberRequests'
        <5>1. requested[l] + 1 \in 1..requested'[l]
          BY <3>3, <2>1
        <5> QED
          BY <3>2, <5>1
      <4> QED
        BY <4>1, <4>2, <4>3
    <3> QED
      BY <3>1, <3>4
  <2>5. IsFiniteSet(NumberRequests') /\ Total' = Total + 1 /\ Total \in Nat
    BY <2>4, FS_AddElement, FS_CardinalityType DEF Total, CountedWithRoom
  <2>6. CountedWithRoom'
    BY <2>1, <2>5 DEF CountedWithRoom
  <2>7. LimitKeptAlone'
    BY <2>1, <2>5 DEF LimitKeptAlone, CountedWithRoom
  <2> QED
    BY <1>8, <2>2, <2>3, <2>6, <2>7, JobsFrame10 DEF CommitCreate
<1>9. ASSUME NEW m \in Outbound, QueueMessage(m) PROVE ChannelsInv'
  <2>1. ChannelsTypeOK'
    BY <1>9 DEF QueueMessage, AttemptsLeft10
  <2>2. RowsWritten' /\ AttemptsLeft10'
    BY <1>9 DEF QueueMessage, RowsWritten, AttemptsLeft10
  <2> QED
    BY <1>9, <2>1, <2>2, PlacesFrame DEF QueueMessage
<1>10. ASSUME NEW m \in Outbound, CheckChannel(m) PROVE ChannelsInv'
  <2>1. ChannelsTypeOK'
    BY <1>10 DEF CheckChannel, Started, AttemptsLeft10
  <2>2. RowsWritten' /\ AttemptsLeft10'
    BY <1>10 DEF CheckChannel, Started, RowsWritten, AttemptsLeft10
  <2> QED
    BY <1>10, <2>1, <2>2, PlacesFrame DEF CheckChannel
<1>11. ASSUME NEW m \in Outbound, ReadMapping10(m) PROVE ChannelsInv'
  <2>1. ChannelsTypeOK'
    BY <1>11 DEF ReadMapping10, AttemptsLeft10
  <2>2. RowsWritten' /\ AttemptsLeft10'
    BY <1>11 DEF ReadMapping10, RowsWritten, AttemptsLeft10
  <2> QED
    BY <1>11, <2>1, <2>2, PlacesFrame DEF ReadMapping10
<1>12. ASSUME NEW m \in Outbound, ChooseNumber(m) PROVE ChannelsInv'
  <2>1. ChannelsTypeOK'
    BY <1>12 DEF ChooseNumber, AttemptsLeft10
  <2>2. RowsWritten' /\ AttemptsLeft10'
    BY <1>12 DEF ChooseNumber, RowsWritten, AttemptsLeft10
  <2> QED
    BY <1>12, <2>1, <2>2, PlacesFrame DEF ChooseNumber
<1>13. ASSUME NEW m \in Outbound, InsertRow(m) PROVE ChannelsInv'
  <2>1. ChannelsTypeOK'
    BY <1>13 DEF InsertRow, AttemptsLeft10
  <2>2. RowsWritten' /\ AttemptsLeft10'
    BY <1>13 DEF InsertRow, RowsWritten, AttemptsLeft10
  <2> QED
    BY <1>13, <2>1, <2>2, PlacesFrame DEF InsertRow
<1>14. ASSUME NEW m \in Outbound, ProcessTollFree(m) PROVE ChannelsInv'
  <2>1. ChannelsTypeOK'
    BY <1>14 DEF ProcessTollFree, Started, AttemptsLeft10
  <2>2. RowsWritten' /\ AttemptsLeft10'
    BY <1>14 DEF ProcessTollFree, Started, RowsWritten, AttemptsLeft10
  <2> QED
    BY <1>14, <2>1, <2>2, PlacesFrame DEF ProcessTollFree
<1>15. ASSUME NEW m \in Outbound, Finish10(m) PROVE ChannelsInv'
  <2>1. ChannelsTypeOK'
    BY <1>15 DEF Finish10, AttemptsLeft10
  <2>2. RowsWritten' /\ AttemptsLeft10'
    BY <1>15 DEF Finish10, RowsWritten, AttemptsLeft10
  <2> QED
    BY <1>15, <2>1, <2>2, PlacesFrame DEF Finish10
<1>16. ASSUME NEW m \in Outbound, Rethrow(m) PROVE ChannelsInv'
  <2>1. ChannelsTypeOK'
    BY <1>16 DEF Rethrow, Retry10, AttemptsLeft10
  <2>2. RowsWritten' /\ AttemptsLeft10'
    BY <1>16 DEF Rethrow, Retry10, RowsWritten, AttemptsLeft10
  <2> QED
    BY <1>16, <2>1, <2>2, PlacesFrame DEF Rethrow
<1>17. ASSUME NEW m \in Outbound, Break10(m) PROVE ChannelsInv'
  <2>1. ChannelsTypeOK'
    BY <1>17 DEF Break10, Retry10, ChannelFault, AttemptsLeft10
  <2>2. RowsWritten' /\ AttemptsLeft10'
    BY <1>17 DEF Break10, Retry10, ChannelFault, RowsWritten, AttemptsLeft10
  <2> QED
    BY <1>17, <2>1, <2>2, PlacesFrame DEF Break10
<1>18. CASE UNCHANGED channelVars
  BY <1>18, PlacesFrame, JobsFrame10 DEF channelVars
<1> QED
  BY <1>1, <1>2, <1>3, <1>4, <1>5, <1>6, <1>7, <1>8, <1>9, <1>10, <1>11, <1>12, <1>13, <1>14, <1>15, <1>16, <1>17, <1>18
  DEF ChannelsNext, ChannelStep

(* The state of registered traffic has its shape: no job is tried more often than
   it may be, and no location has more numbers than it may
   (process-10dlc-message, createSendingLocation). *)
THEOREM ChannelsTypeCorrect == ChannelsSpec => []ChannelsTypeOK
<1>1. ChannelsInv => ChannelsTypeOK
  BY DEF ChannelsInv
<1> QED
  BY <1>1, ChannelsStart, ChannelsStep, PTL DEF ChannelsSpec

(* A job of registered traffic that gives up has not routed its message, unless a
   fault came after the insert (process-10dlc-message, process-toll-free-message). *)
THEOREM GivenUpNotRouted == ChannelsSpec => []OverNotRouted
<1>1. ChannelsInv => OverNotRouted
  BY DEF ChannelsInv, RowsWritten, OverNotRouted
<1> QED
  BY <1>1, ChannelsStart, ChannelsStep, PTL DEF ChannelsSpec

(* A sending location is added whole, and within the limit of the campaign while
   transactions come one after the other (createSendingLocation). *)
THEOREM LocationsAddedWithinLimit == ChannelsSpec => []LocationsWithinLimit
<1>1. ChannelsInv => LocationsWithinLimit
  BY DEF ChannelsInv, LocationsWithinLimit
<1> QED
  BY <1>1, ChannelsStart, ChannelsStep, PTL DEF ChannelsSpec

-----------------------------------------------------------------------------
\* A message has no row before its job, a location to insert, and its row from then on.
Decided10 ==
  \A m \in Outbound : /\ stage[m] = "new" => routed10[m] = NoLocation
                      /\ stage[m] = "insert" => chosen[m] # NoLocation
                      /\ stage[m] \in {"written", "done"} => routed10[m] # NoLocation

LEMMA Decided10Step ==
  ChannelsInv /\ Decided10 /\ [ChannelsNext]_channelVars => Decided10'
<1> SUFFICES ASSUME ChannelsInv, Decided10, [ChannelsNext]_channelVars PROVE Decided10'
  OBVIOUS
<1> USE ChannelsAssumption DEF ChannelsInv, ChannelsTypeOK, Decided10
<1>1. CASE UNCHANGED <<stage, chosen, routed10>>
  BY <1>1
<1>2. ASSUME NEW m \in Outbound, QueueMessage(m) \/ CheckChannel(m) \/ ReadMapping10(m)
      PROVE  Decided10'
  BY <1>2 DEF QueueMessage, CheckChannel, Started, ReadMapping10
<1>3. ASSUME NEW m \in Outbound, ChooseNumber(m)
      PROVE  Decided10'
  BY <1>3 DEF ChooseNumber
<1>4. ASSUME NEW m \in Outbound, InsertRow(m) \/ ProcessTollFree(m)
      PROVE  Decided10'
  <2>1. CASE InsertRow(m)
    BY <2>1 DEF InsertRow
  <2>2. CASE ProcessTollFree(m)
    BY <2>2 DEF ProcessTollFree, Started
  <2> QED
    BY <1>4, <2>1, <2>2
<1>5. ASSUME NEW m \in Outbound, Finish10(m) \/ Rethrow(m) \/ Break10(m)
      PROVE  Decided10'
  BY <1>5 DEF Finish10, Rethrow, Break10, Retry10
<1>6. ASSUME \/ Register \/ CacheExpires \/ ReadProfile
             \/ \E l \in Locations : \/ NumberLive(l) \/ NumberReleased(l)
                                     \/ CreateSendingLocation(l)
                                     \/ CommitCreate(l) \/ RollbackCreate(l)
      PROVE  UNCHANGED <<stage, chosen, routed10>>
  BY <1>6 DEF Register, CacheExpires, ReadProfile, NumberLive, NumberReleased,
              CreateSendingLocation, CommitCreate, RollbackCreate, jobVars10
<1>7. CASE UNCHANGED channelVars
  BY <1>1, <1>7 DEF channelVars
<1> QED
  BY <1>1, <1>2, <1>3, <1>4, <1>5, <1>6, <1>7 DEF ChannelsNext, ChannelStep

\* A step of one message is a step of the lifecycle: it is accepted, routed or
\* given up, or nothing its sender can see.
LEMMA OneMessageMoves ==
  ASSUME NEW m \in Outbound, routed10 \in [Outbound -> Locations \cup {NoLocation}],
         routed10' \in [Outbound -> Locations \cup {NoLocation}],
         \A k \in Outbound \ {m} : /\ Progress10(k)' = Progress10(k)
                                   /\ routed10'[k] = routed10[k],
         \/ Progress10(m)' = Progress10(m) /\ routed10'[m] = routed10[m]
         \/ /\ Progress10(m) = "new" /\ Progress10(m)' = "processing"
            /\ routed10'[m] = routed10[m]
         \/ /\ Progress10(m) = "processing" /\ Progress10(m)' = "routed"
            /\ routed10'[m] \in Locations
         \/ /\ Progress10(m) = "processing" /\ Progress10(m)' = "abandoned"
            /\ routed10'[m] = routed10[m]
  PROVE  [Lifecycle10!Next]_(Lifecycle10!vars)
<1> DEFINE status == [k \in Outbound |-> Progress10(k)]
<1>1. status' = [status EXCEPT ![m] = Progress10(m)']
  OBVIOUS
<1>2. routed10' = [routed10 EXCEPT ![m] = routed10'[m]]
  OBVIOUS
<1>3. status[m] = Progress10(m) /\ {m} \in SUBSET Outbound
  OBVIOUS
<1>4. CASE Progress10(m)' = Progress10(m) /\ routed10'[m] = routed10[m]
  <2>1. status' = status /\ routed10' = routed10
    BY <1>1, <1>2, <1>4
  <2> QED
    BY <2>1 DEF Lifecycle10!vars
<1>5. CASE /\ Progress10(m) = "new" /\ Progress10(m)' = "processing"
           /\ routed10'[m] = routed10[m]
  <2>1. Lifecycle10!Accept(m)
    BY <1>1, <1>2, <1>3, <1>5 DEF Lifecycle10!Accept
  <2> QED
    BY <2>1 DEF Lifecycle10!Next
<1>6. CASE /\ Progress10(m) = "processing" /\ Progress10(m)' = "routed"
           /\ routed10'[m] \in Locations
  <2>1. Lifecycle10!Route(m, routed10'[m])
    BY <1>1, <1>2, <1>3, <1>6 DEF Lifecycle10!Route
  <2> QED
    BY <1>6, <2>1 DEF Lifecycle10!Next
<1>7. CASE /\ Progress10(m) = "processing" /\ Progress10(m)' = "abandoned"
           /\ routed10'[m] = routed10[m]
  <2>1. status' = [k \in Outbound |-> IF k \in {m} THEN "abandoned" ELSE status[k]]
    BY <1>1, <1>7
  <2>2. Lifecycle10!Abandon({m})
    BY <1>2, <1>3, <1>7, <2>1 DEF Lifecycle10!Abandon
  <2> QED
    BY <1>3, <2>2 DEF Lifecycle10!Next
<1> QED
  BY <1>4, <1>5, <1>6, <1>7

LEMMA ChannelsStepsLifecycle ==
  ChannelsInv /\ ChannelsInv' /\ Decided10 /\ [ChannelsNext]_channelVars =>
    [Lifecycle10!Next]_(Lifecycle10!vars)
<1> SUFFICES ASSUME ChannelsInv, ChannelsInv', Decided10, [ChannelsNext]_channelVars
             PROVE  [Lifecycle10!Next]_(Lifecycle10!vars)
  OBVIOUS
<1> USE ChannelsAssumption DEF ChannelsInv, ChannelsTypeOK, RowsWritten, Decided10
<1>1. CASE UNCHANGED <<stage, routed10, repeated10>>
  <2>1. \A m \in Outbound : Progress10(m)' = Progress10(m)
    BY <1>1 DEF Progress10
  <2> QED
    BY <1>1, <2>1 DEF Lifecycle10!vars
<1>2. ASSUME NEW m \in Outbound, QueueMessage(m)
      PROVE  [Lifecycle10!Next]_(Lifecycle10!vars)
  <2>1. /\ Progress10(m) = "new" /\ Progress10(m)' = "processing"
        /\ UNCHANGED <<routed10, repeated10>>
        /\ \A k \in Outbound \ {m} : stage'[k] = stage[k]
    BY <1>2 DEF QueueMessage, Progress10
  <2>2. \A k \in Outbound \ {m} : Progress10(k)' = Progress10(k) /\ routed10'[k] = routed10[k]
    BY <2>1 DEF Progress10
  <2> QED
    BY <2>1, <2>2, OneMessageMoves
<1>3. ASSUME NEW m \in Outbound,
             \/ CheckChannel(m) \/ ReadMapping10(m) \/ Finish10(m)
             \/ ChooseNumber(m)
      PROVE  [Lifecycle10!Next]_(Lifecycle10!vars)
  <2>1. /\ UNCHANGED <<routed10, repeated10>>
        /\ \A k \in Outbound \ {m} : stage'[k] = stage[k]
        /\ stage[m] \notin {"new", "over", "done"} /\ stage'[m] \notin {"new", "over"}
        /\ stage'[m] = "done" => routed10[m] # NoLocation
    BY <1>3 DEF CheckChannel, Started, ReadMapping10, Finish10, ChooseNumber
  <2>2. /\ Progress10(m)' = Progress10(m) /\ routed10'[m] = routed10[m]
        /\ \A k \in Outbound \ {m} : Progress10(k)' = Progress10(k) /\ routed10'[k] = routed10[k]
    BY <2>1 DEF Progress10
  <2> QED
    BY <2>1, <2>2, OneMessageMoves
<1>4. ASSUME NEW m \in Outbound, InsertRow(m) \/ ProcessTollFree(m)
      PROVE  [Lifecycle10!Next]_(Lifecycle10!vars)
  <2>1. /\ UNCHANGED repeated10
        /\ \A k \in Outbound \ {m} : stage'[k] = stage[k] /\ routed10'[k] = routed10[k]
        /\ stage[m] \in {"insert", "queued"} /\ stage'[m] \in {"written", "throws"}
        /\ \/ routed10'[m] = routed10[m]
           \/ routed10[m] = NoLocation /\ routed10'[m] \in Locations
    <3>1. CASE InsertRow(m)
      BY <3>1 DEF InsertRow
    <3>2. CASE ProcessTollFree(m)
      BY <3>2 DEF ProcessTollFree, Started
    <3> QED
      BY <1>4, <3>1, <3>2
  <2>2. \A k \in Outbound \ {m} : Progress10(k)' = Progress10(k) /\ routed10'[k] = routed10[k]
    BY <2>1 DEF Progress10
  <2>3. CASE routed10'[m] = routed10[m]
    <3>1. Progress10(m)' = Progress10(m)
      BY <2>1, <2>3 DEF Progress10
    <3> QED
      BY <2>3, <2>2, <3>1, OneMessageMoves
  <2>4. CASE routed10[m] = NoLocation /\ routed10'[m] \in Locations
    <3>1. Progress10(m) = "processing" /\ Progress10(m)' = "routed"
      BY <2>1, <2>4 DEF Progress10
    <3> QED
      BY <2>4, <2>2, <3>1, OneMessageMoves
  <2> QED
    BY <2>1, <2>3, <2>4
<1>5. ASSUME NEW m \in Outbound, Rethrow(m) \/ Break10(m)
      PROVE  [Lifecycle10!Next]_(Lifecycle10!vars)
  <2>1. /\ UNCHANGED routed10
        /\ \A k \in Outbound \ {m} : /\ stage'[k] = stage[k] /\ routed10'[k] = routed10[k]
                                     /\ k \in repeated10' <=> k \in repeated10
        /\ stage[m] \in {"throws", "mapping", "choose", "insert", "written"}
        /\ stage'[m] \in {"over", "queued"}
        /\ repeated10 \subseteq repeated10'
    BY <1>5 DEF Rethrow, Break10, Retry10
  <2>2. routed10[m] # NoLocation => m \in repeated10'
    BY <2>1
  <2>3. /\ Progress10(m) = IF routed10[m] # NoLocation THEN "routed" ELSE "processing"
        /\ Progress10(m)' \in {Progress10(m)} \cup
             (IF routed10[m] = NoLocation THEN {"abandoned"} ELSE {})
    BY <2>1, <2>2 DEF Progress10
  <2>4. \A k \in Outbound \ {m} : Progress10(k)' = Progress10(k) /\ routed10'[k] = routed10[k]
    BY <2>1 DEF Progress10
  <2>5. CASE Progress10(m)' = Progress10(m)
    BY <2>1, <2>5, <2>4, OneMessageMoves
  <2>6. CASE Progress10(m) = "processing" /\ Progress10(m)' = "abandoned"
    BY <2>1, <2>6, <2>4, OneMessageMoves
  <2> QED
    BY <2>3, <2>5, <2>6
<1>6. ASSUME \/ Register \/ CacheExpires \/ ReadProfile
             \/ \E l \in Locations : \/ NumberLive(l) \/ NumberReleased(l)
                                     \/ CreateSendingLocation(l)
                                     \/ CommitCreate(l) \/ RollbackCreate(l)
             \/ UNCHANGED channelVars
      PROVE  UNCHANGED <<stage, routed10, repeated10>>
  BY <1>6 DEF Register, CacheExpires, ReadProfile, NumberLive, NumberReleased,
              CreateSendingLocation, CommitCreate, RollbackCreate, jobVars10, channelVars
<1> QED
  BY <1>1, <1>2, <1>3, <1>4, <1>5, <1>6 DEF ChannelsNext, ChannelStep

(* Registered traffic implements the lifecycle that grey-route messages do: routed
   once and for good, not done before, and given up only without a row, unless a
   fault came after its insert (process-10dlc-message, process_toll_free_message). *)
THEOREM ChannelsRefineLifecycle == ChannelsSpec => ChannelsImplementLifecycle
<1>1. ChannelsInit => Decided10 /\ Lifecycle10!Init
  BY DEF ChannelsInit, Decided10, Lifecycle10!Init, Progress10
<1> QED
  BY <1>1, ChannelsStart, ChannelsStep, Decided10Step, ChannelsStepsLifecycle, PTL
  DEF ChannelsSpec, ChannelsImplementLifecycle, Lifecycle10!Spec

-----------------------------------------------------------------------------
(* Area codes. *)

LEMMA RemainderUnique ==
  ASSUME NEW r \in Nat, NEW p \in Int, NEW q \in Int, NEW x \in 0..(r - 1), NEW y \in 0..(r - 1),
         r * p + x = r * q + y
  PROVE  x = y
<1>1. CASE p = q
  BY <1>1
<1>2. CASE p < q
  <2>1. r * q - r * p = r * (q - p)
    OBVIOUS
  <2>2. r * (q - p) >= r
    BY <1>2
  <2> QED
    BY <2>1, <2>2
<1>3. CASE p > q
  <2>1. r * p - r * q = r * (p - q)
    OBVIOUS
  <2>2. r * (p - q) >= r
    BY <1>3
  <2> QED
    BY <2>1, <2>2
<1> QED
  BY <1>1, <1>2, <1>3

\* Between multiples, counting down by one takes one off the remainder.
LEMMA RemainderCountsDown ==
  ASSUME NEW k \in Int, NEW r \in Nat \ {0}
  PROVE  /\ k % r \in 0..(r - 1)
         /\ k % r > 0 => (k - 1) % r = (k % r) - 1
<1>1. /\ k % r \in 0..(r - 1) /\ (k - 1) % r \in 0..(r - 1)
      /\ k \div r \in Int /\ (k - 1) \div r \in Int
  OBVIOUS
<1>2. k = r * (k \div r) + (k % r)
  OBVIOUS
<1>3. k - 1 = r * ((k - 1) \div r) + ((k - 1) % r)
  OBVIOUS
<1>4. ASSUME k % r > 0 PROVE (k - 1) % r = (k % r) - 1
  <2>1. (k % r) - 1 \in 0..(r - 1)
    BY <1>1, <1>4
  <2>2. r * ((k - 1) \div r) + ((k - 1) % r) = r * (k \div r) + ((k % r) - 1)
    BY <1>1, <1>2, <1>3
  <2> QED
    BY <1>1, <2>1, <2>2, RemainderUnique
<1> QED
  BY <1>1, <1>4

LEMMA CandidatesTyped ==
  /\ Len(Near) \in Nat /\ \A i \in 1..Len(Near) : Near[i] \in NearCodes
  /\ \A c \in NearCodes : \E i \in 1..Len(Near) : c = Near[i]
  /\ Len(Far) \in Nat /\ \A i \in 1..Len(Far) : Far[i] \in Range(Far)
  /\ \A c \in Range(Far) : \E i \in 1..Len(Far) : c = Far[i]
  /\ Codes = NearCodes \cup Range(Far) /\ NearCodes \cap Range(Far) = {}
<1>1. /\ Len(Near) \in Nat /\ DOMAIN Near = 1..Len(Near)
      /\ Len(Far) \in Nat /\ DOMAIN Far = 1..Len(Far)
  BY AreaCodesAssumption
<1>2. /\ NearCodes = {Near[i] : i \in 1..Len(Near)}
      /\ Range(Far) = {Far[i] : i \in 1..Len(Far)}
  BY <1>1 DEF NearCodes, Range
<1> QED
  BY <1>1, <1>2, AreaCodesAssumption DEF Codes

LEMMA Bounds ==
  /\ MaxSearches \in Nat /\ MinSuitable \in Nat /\ RefreshEvery \in Nat \ {0} /\ MaxStock \in Nat
  /\ FindAttempts \in Nat \ {0} /\ AreaFaults \in Nat /\ Unestimated \notin Int
  /\ Prefilled \subseteq Codes
BY AreaCodesAssumption, CandidatesTyped

LEMMA LeftCountsDown ==
  ASSUME NEW k \in Int
  PROVE  /\ Left(k) \in 1..RefreshEvery
         /\ (k - 1) % RefreshEvery # 0 => Left(k - 1) <= Left(k) - 1
<1>1. RefreshEvery \in Nat \ {0} /\ k - 1 \in Int
  BY Bounds
<1>2. k % RefreshEvery \in 0..(RefreshEvery - 1)
  BY <1>1, RemainderCountsDown
<1>3. (k - 1) % RefreshEvery \in 0..(RefreshEvery - 1)
  BY <1>1, RemainderCountsDown
<1>4. k % RefreshEvery > 0 => (k - 1) % RefreshEvery = (k % RefreshEvery) - 1
  BY <1>1, RemainderCountsDown
<1> QED
  BY <1>1, <1>2, <1>3, <1>4 DEF Left

LEMMA AtMostGrows ==
  ASSUME NEW k \in Nat
  PROVE  /\ AtMost(k) \in Nat /\ AtMost(k) >= RefreshEvery - 1
         /\ AtMost(k + 1) = AtMost(k) + (RefreshEvery - 1)
         /\ AtMost(0) = RefreshEvery - 1
<1>1. PICK r \in Nat : r = RefreshEvery - 1
  BY Bounds
<1>2. r * (1 + k) = r + r * k /\ r * k \in Nat /\ r * (1 + (k + 1)) = r + r * k + r
      /\ r * (1 + 0) = r
  OBVIOUS
<1> QED
  BY <1>1, <1>2 DEF AtMost

LEMMA AreaCodesStart == AreaCodesInit => AreaCodesInv
<1> SUFFICES ASSUME AreaCodesInit PROVE AreaCodesInv
  OBVIOUS
<1>1. /\ search \in [Searches -> {"none", "queued"}]
      /\ estimates \subseteq Codes \X {Unestimated}
  <2>1. CASE Strategy = "same-state-by-distance"
    BY <2>1 DEF AreaCodesInit
  <2>2. CASE Strategy # "same-state-by-distance"
    BY <2>2, Bounds DEF AreaCodesInit, NewEstimates
  <2> QED
    BY <2>1, <2>2
<1>2. /\ stocked \in [Codes -> 0..MaxStock] /\ areaCodes = Prefilled /\ buying = {}
      /\ capacity = [c \in Codes |-> Unestimated] /\ unseen = [c \in Codes |-> 0]
      /\ overwritten = [c \in Codes |-> 0]
      /\ searches = [f \in Searches |-> 0] /\ sameState = [f \in Searches |-> TRUE]
      /\ offset = [f \in Searches |-> 0] /\ toUse = [f \in Searches |-> {}]
      /\ numbersFound = [f \in Searches |-> 0] /\ answer = [f \in Searches |-> 0]
      /\ asked = [f \in Searches |-> {}] /\ areaFaults = 0
  BY Bounds DEF AreaCodesInit
<1>3. ASSUME NEW f \in Searches PROVE SearchOK(f)
  BY <1>1, <1>2, CandidatesTyped, Bounds DEF SearchOK, Candidates
<1>4. sameState \in [Searches -> BOOLEAN]
  BY <1>2
<1>5. AreaCodesTypeOK
  BY <1>1, <1>2, <1>3, <1>4, Bounds DEF AreaCodesTypeOK, SearchOK
<1> QED
  BY <1>2, <1>3, <1>5 DEF AreaCodesInv, SearchesOK, CountsDown

\* The searches that a step does not touch.
LEMMA OtherSearches ==
  ASSUME NEW g \in Searches, SearchOK(g),
         /\ search'[g] = search[g] /\ searches'[g] = searches[g]
         /\ sameState'[g] = sameState[g] /\ offset'[g] = offset[g] /\ toUse'[g] = toUse[g]
         /\ numbersFound'[g] = numbersFound[g] /\ asked'[g] = asked[g]
  PROVE  SearchOK(g)'
BY DEF SearchOK, Candidates, HasCandidate, Candidate

LEMMA LoopFrame ==
  ASSUME SearchesOK, UNCHANGED <<search, searches, loopVars>>
  PROVE  SearchesOK'
BY OtherSearches DEF SearchesOK, loopVars

LEMMA BeliefFrame ==
  ASSUME CountsDown, UNCHANGED <<capacity, unseen, overwritten>>
  PROVE  CountsDown'
BY DEF CountsDown

\* An answer is written, up to date or not.
LEMMA PersistKeeps ==
  ASSUME AreaCodesInv, NEW c \in Codes, NEW n \in Nat, PersistCapacity(c, n)
  PROVE  /\ capacity' \in [Codes -> Int \cup {Unestimated}]
         /\ unseen' \in [Codes -> Nat] /\ overwritten' \in [Codes -> Nat]
         /\ CountsDown'
<1> USE DEF AreaCodesInv, AreaCodesTypeOK
<1>1. capacity' = [capacity EXCEPT ![c] = n] /\ n \in Int /\ n # Unestimated
  BY Bounds DEF PersistCapacity
<1>2. Left(n) \in 1..RefreshEvery
  BY <1>1, LeftCountsDown
<1>3. RefreshEvery \in Nat \ {0} /\ unseen[c] \in Nat /\ overwritten[c] \in Nat
  BY Bounds
<1>4. CASE n = stocked[c]
  <2>1. unseen' = [unseen EXCEPT ![c] = 0] /\ overwritten' = [overwritten EXCEPT ![c] = 0]
    BY <1>4 DEF PersistCapacity, Renewed
  <2>2. unseen'[c] + Left(n) <= 1 + AtMost(overwritten'[c])
    BY <1>2, <1>3, <2>1, AtMostGrows
  <2>3. CountsDown'
    BY <1>1, <2>1, <2>2 DEF CountsDown
  <2> QED
    BY <1>1, <2>1, <2>3
<1>5. CASE n # stocked[c]
  <2>1. unseen' = unseen /\ overwritten' = [overwritten EXCEPT ![c] = overwritten[c] + 1]
    BY <1>5 DEF PersistCapacity
  <2>2. unseen[c] <= AtMost(overwritten[c])
    <3>1. CASE capacity[c] = Unestimated
      BY <1>3, <3>1, AtMostGrows DEF CountsDown
    <3>2. CASE capacity[c] # Unestimated
      <4>1. capacity[c] \in Int
        BY <3>2
      <4>2. Left(capacity[c]) \in 1..RefreshEvery
        BY <4>1, LeftCountsDown
      <4>3. unseen[c] + Left(capacity[c]) <= 1 + AtMost(overwritten[c])
        BY <3>2 DEF CountsDown
      <4>4. AtMost(overwritten[c]) \in Nat
        BY <1>3, AtMostGrows
      <4> QED
        BY <1>3, <4>2, <4>3, <4>4
    <3> QED
      BY <3>1, <3>2
  <2>3. AtMost(overwritten[c] + 1) = AtMost(overwritten[c]) + (RefreshEvery - 1)
        /\ AtMost(overwritten[c]) \in Nat
    BY <1>3, AtMostGrows
  <2>4. unseen'[c] + Left(n) <= 1 + AtMost(overwritten'[c])
    BY <1>2, <1>3, <2>1, <2>2, <2>3
  <2>5. CountsDown'
    BY <1>1, <2>1, <2>4 DEF CountsDown
  <2> QED
    BY <1>1, <2>1, <2>5
<1> QED
  BY <1>4, <1>5

LEMMA SearchKeeps ==
  ASSUME AreaCodesInv, NEW f \in Searches, SearchStep(f) \/ BreakSearch(f)
  PROVE  AreaCodesInv'
<1> USE DEF AreaCodesInv, AreaCodesTypeOK
<1>1. SearchOK(f) /\ \A g \in Searches \ {f} : SearchOK(g)
  BY DEF SearchesOK
<1>2. Candidates(f) = IF sameState[f] THEN Near ELSE Far
  BY DEF Candidates
<1>3. HasCandidate(f) => Candidate(f) \in Codes
  BY <1>2, CandidatesTyped DEF HasCandidate, Candidate
<1>4. ASSUME SearchOK(f)', \A g \in Searches \ {f} :
               /\ search'[g] = search[g] /\ searches'[g] = searches[g]
               /\ sameState'[g] = sameState[g] /\ offset'[g] = offset[g] /\ toUse'[g] = toUse[g]
               /\ numbersFound'[g] = numbersFound[g] /\ asked'[g] = asked[g]
      PROVE  SearchesOK'
  <2>1. \A g \in Searches \ {f} : SearchOK(g)'
    BY <1>1, <1>4, OtherSearches
  <2> QED
    BY <1>4, <2>1 DEF SearchesOK
<1>5. SearchesOK' => \A g \in Searches : offset'[g] <= Len(Candidates(g)')
                                       /\ toUse'[g] \subseteq asked'[g]
  BY DEF SearchesOK, SearchOK
<1>6. CASE StartSearch(f)
  <2>1. /\ search[f] = "queued" /\ search' = [search EXCEPT ![f] = "look"]
        /\ searches' = [searches EXCEPT ![f] = searches[f] + 1]
        /\ sameState' = [sameState EXCEPT ![f] = TRUE] /\ offset' = [offset EXCEPT ![f] = 0]
        /\ toUse' = [toUse EXCEPT ![f] = {}] /\ numbersFound' = [numbersFound EXCEPT ![f] = 0]
        /\ asked' = [asked EXCEPT ![f] = {}]
        /\ UNCHANGED <<stocked, areaCodes, capacity, answer, estimates, buying, unseen,
                        overwritten, areaFaults>>
    BY <1>6 DEF StartSearch, beliefVars
  <2>2. sameState'[f] = TRUE /\ sameState' \in [Searches -> BOOLEAN]
    BY <2>1
  <2>3. Candidates(f)' = Near
    BY <2>2 DEF Candidates
  <2>4. SearchOK(f)'
    <3>1. /\ search'[f] = "look" /\ offset'[f] = 0 /\ toUse'[f] = {} /\ asked'[f] = {}
      BY <2>1
    <3>2. \A i \in 1..0 : Near[i] \in {}
      OBVIOUS
    <3> QED
      BY <2>2, <2>3, <3>1, <3>2, CandidatesTyped DEF SearchOK
  <2>5. SearchesOK'
    BY <1>4, <2>1, <2>4
  <2>6. CountsDown'
    BY <2>1, BeliefFrame
  <2>7. AreaCodesTypeOK'
    <3>1. searches[f] < FindAttempts
      BY <1>1, <2>1 DEF SearchOK
    <3>2. searches' \in [Searches -> 0..FindAttempts]
      BY <2>1, <3>1, Bounds
    <3> QED
      BY <1>5, <2>1, <2>2, <2>5, <3>2, Bounds
  <2> QED
    BY <2>5, <2>6, <2>7
<1>7. CASE Ask(f)
  <2>1. /\ search[f] = "look" /\ HasCandidate(f) /\ search' = [search EXCEPT ![f] = "persist"]
        /\ answer' = [answer EXCEPT ![f] = stocked[Candidate(f)]]
        /\ asked' = [asked EXCEPT ![f] = asked[f] \cup {Candidate(f)}]
        /\ UNCHANGED <<stocked, areaCodes, capacity, searches, sameState, offset, toUse,
                        numbersFound, estimates, buying, unseen,
                        overwritten, areaFaults>>
    BY <1>7 DEF Ask, Looking, beliefVars
  <2>2. sameState'[f] = sameState[f] /\ sameState' \in [Searches -> BOOLEAN]
    BY <2>1
  <2>3. Candidates(f)' = Candidates(f)
    BY <2>2 DEF Candidates
  <2>4. SearchOK(f)'
    <3>1. /\ search'[f] = "persist" /\ offset'[f] = offset[f] /\ toUse'[f] = toUse[f]
          /\ asked'[f] = asked[f] \cup {Candidate(f)}
      BY <2>1
    <3>2. sameState[f] => Candidate(f) \in NearCodes
      BY <1>2, <2>1, CandidatesTyped DEF HasCandidate, Candidate
    <3>3. HasCandidate(f)' /\ Candidate(f)' = Candidate(f)
      BY <2>1, <2>3 DEF HasCandidate, Candidate
    <3> QED
      BY <1>1, <2>2, <2>3, <3>1, <3>2, <3>3 DEF SearchOK
  <2>5. SearchesOK'
    BY <1>4, <2>1, <2>4
  <2>6. CountsDown'
    BY <2>1, BeliefFrame
  <2>7. AreaCodesTypeOK'
    BY <1>3, <1>5, <2>1, <2>2, <2>5, Bounds
  <2> QED
    BY <2>5, <2>6, <2>7
<1>8. CASE PersistFound(f)
  <2>1. /\ search[f] = "persist" /\ search' = [search EXCEPT ![f] = "save"]
        /\ \/ /\ toUse' = [toUse EXCEPT ![f] = toUse[f] \cup {Candidate(f)}]
              /\ numbersFound' = [numbersFound EXCEPT ![f] = numbersFound[f] + answer[f]]
              /\ PersistCapacity(Candidate(f), answer[f])
           \/ UNCHANGED <<toUse, numbersFound, capacity, unseen, overwritten>>
        /\ UNCHANGED <<stocked, areaCodes, searches, sameState, offset, answer, asked, estimates,
                       buying, areaFaults>>
    BY <1>8 DEF PersistFound, beliefVars
  <2>2. sameState'[f] = sameState[f] /\ sameState' \in [Searches -> BOOLEAN]
    BY <2>1
  <2>3. Candidates(f)' = Candidates(f)
    BY <2>2 DEF Candidates
  <2>4. SearchOK(f)'
    <3>1. /\ search'[f] = "save" /\ offset'[f] = offset[f] /\ asked'[f] = asked[f]
          /\ toUse'[f] \subseteq toUse[f] \cup {Candidate(f)}
      BY <2>1
    <3>2. HasCandidate(f) /\ Candidate(f) \in asked[f]
      BY <1>1, <2>1 DEF SearchOK
    <3>3. HasCandidate(f)' /\ Candidate(f)' = Candidate(f)
      BY <2>1, <2>3, <3>2 DEF HasCandidate, Candidate
    <3> QED
      BY <1>1, <2>2, <2>3, <3>1, <3>2, <3>3 DEF SearchOK
  <2>5. SearchesOK'
    BY <1>4, <2>1, <2>4
  <2>6. PICK c \in Codes : c = Candidate(f)
    BY <1>1, <1>3, <2>1 DEF SearchOK
  <2>7. answer[f] \in Nat /\ numbersFound[f] + answer[f] \in Nat
    BY Bounds
  <2>8. /\ capacity' \in [Codes -> Int \cup {Unestimated}]
        /\ unseen' \in [Codes -> Nat] /\ overwritten' \in [Codes -> Nat]
        /\ CountsDown'
    <3>1. CASE PersistCapacity(c, answer[f])
      BY <2>7, <3>1, PersistKeeps
    <3>2. CASE UNCHANGED <<capacity, unseen, overwritten>>
      BY <3>2, BeliefFrame
    <3> QED
      BY <2>1, <2>6, <3>1, <3>2
  <2>9. AreaCodesTypeOK'
    <3>1. toUse' = toUse \/ toUse' = [toUse EXCEPT ![f] = toUse[f] \cup {c}]
      BY <2>1, <2>6
    <3>2. toUse' \in [Searches -> SUBSET Codes]
      <4>1. toUse \in [Searches -> SUBSET Codes] /\ toUse[f] \cup {c} \in SUBSET Codes
        OBVIOUS
      <4>2. [toUse EXCEPT ![f] = toUse[f] \cup {c}] \in [Searches -> SUBSET Codes]
        BY <4>1
      <4> QED
        BY <3>1, <4>1, <4>2
    <3>3. numbersFound' \in [Searches -> Nat]
      BY <2>1, <2>7
    <3> QED
      BY <1>5, <2>1, <2>2, <2>5, <2>8, <3>2, <3>3
  <2> QED
    BY <2>5, <2>8, <2>9
<1>9. CASE SaveFound(f)
  <2>1. /\ search[f] = "save" /\ search' = [search EXCEPT ![f] = "look"]
        /\ offset' = [offset EXCEPT ![f] = offset[f] + 1] /\ areaCodes' = toUse[f]
        /\ UNCHANGED <<stocked, capacity, searches, sameState, toUse, numbersFound, answer, asked,
                       estimates, buying, unseen,
                        overwritten, areaFaults>>
    BY <1>9 DEF SaveFound, SaveResults, NextOffset, beliefVars
  <2>2. sameState'[f] = sameState[f] /\ sameState' \in [Searches -> BOOLEAN]
    BY <2>1
  <2>3. Candidates(f)' = Candidates(f)
    BY <2>2 DEF Candidates
  <2>4. SearchOK(f)'
    <3>1. offset[f] < Len(Candidates(f)) /\ Candidates(f)[offset[f] + 1] \in asked[f]
      BY <1>1, <2>1 DEF SearchOK, HasCandidate, Candidate
    <3>2. offset'[f] = offset[f] + 1 /\ offset[f] \in Nat /\ Len(Candidates(f)) \in Nat
      BY <1>2, <2>1, CandidatesTyped
    <3>3. \A i \in 1..offset'[f] : Candidates(f)[i] \in asked[f]
      BY <1>1, <3>1, <3>2 DEF SearchOK
    <3> QED
      BY <1>1, <2>1, <2>2, <2>3, <3>1, <3>2, <3>3 DEF SearchOK
  <2>5. SearchesOK'
    BY <1>4, <2>1, <2>4
  <2>6. CountsDown'
    BY <2>1, BeliefFrame
  <2>7. AreaCodesTypeOK'
    <3>1. offset' \in [Searches -> Nat] /\ areaCodes' \subseteq Codes
      BY <2>1
    <3> QED
      BY <1>5, <2>1, <2>2, <2>5, <3>1
  <2> QED
    BY <2>5, <2>6, <2>7
<1>10. CASE OtherStates(f)
  <2>1. /\ search[f] = "look" /\ ~HasCandidate(f) /\ sameState[f]
        /\ sameState' = [sameState EXCEPT ![f] = FALSE] /\ offset' = [offset EXCEPT ![f] = 0]
        /\ UNCHANGED <<stocked, areaCodes, capacity, search, searches, toUse, numbersFound, answer,
                       asked, estimates, buying, unseen,
                        overwritten, areaFaults>>
    BY <1>10 DEF OtherStates, Looking, FromNearest, beliefVars
  <2>2. sameState'[f] = FALSE /\ sameState' \in [Searches -> BOOLEAN]
    BY <2>1
  <2>3. Candidates(f)' = Far
    BY <2>2 DEF Candidates
  <2>4. SearchOK(f)'
    <3>1. offset[f] >= Len(Near) /\ \A i \in 1..offset[f] : Near[i] \in asked[f]
      BY <1>1, <1>2, <2>1, CandidatesTyped DEF SearchOK, HasCandidate
    <3>2. NearCodes \subseteq asked[f]
      <4> SUFFICES ASSUME NEW c \in NearCodes PROVE c \in asked[f]
        OBVIOUS
      <4>1. PICK i \in 1..Len(Near) : c = Near[i]
        BY CandidatesTyped
      <4>2. i \in 1..offset[f]
        BY <3>1, CandidatesTyped
      <4> QED
        BY <3>1, <4>1, <4>2
    <3> QED
      BY <1>1, <2>1, <2>2, <2>3, <3>2, CandidatesTyped DEF SearchOK
  <2>5. SearchesOK'
    BY <1>4, <2>1, <2>4
  <2>6. CountsDown'
    BY <2>1, BeliefFrame
  <2>7. AreaCodesTypeOK'
    BY <1>3, <1>5, <2>1, <2>2, <2>5, Bounds
  <2> QED
    BY <2>5, <2>6, <2>7
<1>11. CASE NotEnough(f)
  <2>1. /\ search[f] = "look" /\ ~HasCandidate(f) /\ ~sameState[f]
        /\ search' = [search EXCEPT ![f] = "done"] /\ areaCodes' = toUse[f]
        /\ UNCHANGED <<stocked, capacity, searches, sameState, offset, toUse, numbersFound, answer,
                       asked, estimates, buying, unseen,
                        overwritten, areaFaults>>
    BY <1>11 DEF NotEnough, Looking, SaveResults, loopVars, beliefVars
  <2>2. sameState'[f] = sameState[f] /\ sameState' \in [Searches -> BOOLEAN]
    BY <2>1
  <2>3. Candidates(f)' = Candidates(f)
    BY <2>2 DEF Candidates
  <2>4. SearchOK(f)'
    <3>1. /\ search'[f] = "done" /\ offset'[f] = offset[f] /\ asked'[f] = asked[f]
          /\ toUse'[f] = toUse[f]
      BY <2>1
    <3>2. Candidates(f) = Far /\ \A i \in 1..Len(Far) : Far[i] \in asked[f]
      BY <1>1, <1>2, <2>1, CandidatesTyped DEF SearchOK, HasCandidate
    <3>3. asked[f] = Codes
      <4>1. NearCodes \subseteq asked[f] /\ asked[f] \subseteq Codes
        BY <1>1, <2>1 DEF SearchOK
      <4>2. Range(Far) \subseteq asked[f]
        BY <3>2, CandidatesTyped
      <4> QED
        BY <4>1, <4>2, CandidatesTyped
    <3> QED
      BY <1>1, <2>2, <2>3, <3>1, <3>3 DEF SearchOK
  <2>5. SearchesOK'
    BY <1>4, <2>1, <2>4
  <2>6. CountsDown'
    BY <2>1, BeliefFrame
  <2>7. AreaCodesTypeOK'
    BY <1>3, <1>5, <2>1, <2>2, <2>5, Bounds
  <2> QED
    BY <2>5, <2>6, <2>7
<1>12. CASE Enough(f)
  <2>1. /\ search[f] = "look" /\ numbersFound[f] >= MinSuitable
        /\ search' = [search EXCEPT ![f] = "done"]
        /\ UNCHANGED <<stocked, areaCodes, capacity, searches, sameState, offset, toUse,
                       numbersFound, answer, asked, estimates, buying, unseen,
                        overwritten, areaFaults>>
    BY <1>12 DEF Enough, loopVars, beliefVars
  <2>2. sameState'[f] = sameState[f] /\ sameState' \in [Searches -> BOOLEAN]
    BY <2>1
  <2>3. Candidates(f)' = Candidates(f)
    BY <2>2 DEF Candidates
  <2>4. SearchOK(f)'
    BY <1>1, <1>2, <1>3, <2>1, <2>2, <2>3, CandidatesTyped, Bounds
    DEF SearchOK, HasCandidate, Candidate
  <2>5. SearchesOK'
    BY <1>4, <2>1, <2>4
  <2>6. CountsDown'
    BY <2>1, BeliefFrame
  <2>7. AreaCodesTypeOK'
    BY <1>3, <1>5, <2>1, <2>2, <2>5, Bounds
  <2> QED
    BY <2>5, <2>6, <2>7
<1>13. CASE BreakSearch(f)
  <2>1. /\ search[f] \in {"look", "persist", "save"}
        /\ search' = [search EXCEPT ![f] = IF searches[f] = FindAttempts THEN "over" ELSE "queued"]
        /\ areaFaults < AreaFaults /\ areaFaults' = areaFaults + 1
        /\ UNCHANGED <<stocked, areaCodes, capacity, searches, sameState, offset, toUse,
                       numbersFound, answer, asked, estimates, buying, unseen,
                       overwritten>>
    BY <1>13 DEF BreakSearch, AreaFault, loopVars, beliefVars
  <2>2. sameState'[f] = sameState[f] /\ sameState' \in [Searches -> BOOLEAN]
    BY <2>1
  <2>3. Candidates(f)' = Candidates(f)
    BY <2>2 DEF Candidates
  <2>4. SearchOK(f)'
    BY <1>1, <1>2, <1>3, <2>1, <2>2, <2>3, CandidatesTyped, Bounds
    DEF SearchOK, HasCandidate, Candidate
  <2>5. SearchesOK'
    BY <1>4, <2>1, <2>4
  <2>6. CountsDown'
    BY <2>1, BeliefFrame
  <2>7. AreaCodesTypeOK'
    <3>1. search' \in [Searches -> {"none", "queued", "look", "persist", "save", "done", "over"}]
      BY <2>1
    <3>2. areaFaults' \in 0..AreaFaults
      BY <2>1, Bounds
    <3> QED
      BY <1>5, <2>1, <2>2, <2>5, <3>1, <3>2
  <2> QED
    BY <2>5, <2>6, <2>7
<1> QED
  BY <1>6, <1>7, <1>8, <1>9, <1>10, <1>11, <1>12, <1>13 DEF SearchStep

LEMMA AreaCodesStep == AreaCodesInv /\ [AreaCodesNext]_areaVars => AreaCodesInv'
<1> SUFFICES ASSUME AreaCodesInv, [AreaCodesNext]_areaVars PROVE AreaCodesInv'
  OBVIOUS
<1> USE Bounds DEF AreaCodesInv, AreaCodesTypeOK
<1>1. ASSUME NEW f \in Searches, SearchStep(f) \/ BreakSearch(f) PROVE AreaCodesInv'
  BY <1>1, SearchKeeps
<1>2. ASSUME NEW c \in Codes, AskEstimate(c) PROVE AreaCodesInv'
  <2>1. AreaCodesTypeOK'
    <3>1. estimates' \subseteq Codes \X ((0..MaxStock) \cup {Unestimated})
      BY <1>2 DEF AskEstimate
    <3> QED
      BY <1>2, <3>1 DEF AskEstimate, loopVars, beliefVars, Candidates
  <2> QED
    BY <1>2, <2>1, LoopFrame, BeliefFrame DEF AskEstimate, beliefVars
<1>3. ASSUME NEW c \in Codes, WriteEstimate(c) PROVE AreaCodesInv'
  <2>1. PICK n \in 0..MaxStock : PersistCapacity(c, n) /\ estimates' \subseteq estimates
    BY <1>3 DEF WriteEstimate
  <2>2. UNCHANGED <<stocked, areaCodes, search, searches, loopVars, buying, areaFaults>>
    BY <1>3 DEF WriteEstimate
  <2>3. /\ capacity' \in [Codes -> Int \cup {Unestimated}]
        /\ unseen' \in [Codes -> Nat] /\ overwritten' \in [Codes -> Nat]
        /\ CountsDown'
    <3>1. n \in Nat
      OBVIOUS
    <3> QED
      BY <2>1, <3>1, PersistKeeps
  <2>4. AreaCodesTypeOK'
    BY <2>1, <2>2, <2>3 DEF loopVars, Candidates
  <2> QED
    BY <2>2, <2>3, <2>4, LoopFrame
<1>7. ASSUME NEW c \in Codes, BreakEstimate(c) PROVE AreaCodesInv'
  <2>1. /\ UNCHANGED <<stocked, areaCodes, capacity, search, searches, loopVars, buying,
                       unseen, overwritten>>
        /\ areaFaults' \in 0..AreaFaults
    BY <1>7 DEF BreakEstimate, AreaFault, beliefVars
  <2>2. estimates' \subseteq Codes \X ((0..MaxStock) \cup {Unestimated})
    BY <1>7 DEF BreakEstimate, NewEstimates
  <2>3. AreaCodesTypeOK'
    BY <2>1, <2>2 DEF loopVars, Candidates
  <2> QED
    BY <2>1, <2>3, LoopFrame, BeliefFrame
<1>4. ASSUME NEW c \in Codes, RequestNumber(c) \/ GiveUp(c) PROVE AreaCodesInv'
  <2>1. AreaCodesTypeOK'
    BY <1>4 DEF RequestNumber, GiveUp, loopVars, beliefVars, Candidates
  <2> QED
    BY <1>4, <2>1, LoopFrame, BeliefFrame DEF RequestNumber, GiveUp, beliefVars
<1>5. ASSUME NEW c \in Codes, Fulfill(c) PROVE AreaCodesInv'
  <2>1. /\ c \in buying /\ stocked[c] > 0 /\ buying' = buying \ {c}
        /\ stocked' = [stocked EXCEPT ![c] = stocked[c] - 1]
        /\ UNCHANGED <<areaCodes, searches, sameState, offset, toUse, numbersFound, answer,
                       asked, areaFaults>>
    BY <1>5 DEF Fulfill, loopVars
  <2>2. \/ UNCHANGED <<search, estimates>>
        \/ estimates' = estimates \cup {<<c, Unestimated>>} /\ UNCHANGED search
        \/ NewSearch /\ UNCHANGED estimates
    BY <1>5 DEF Fulfill, QueueRefresh, NewEstimates
  <2>3. /\ search' \in [Searches -> {"none", "queued", "look", "persist", "save", "done",
                                     "over"}]
        /\ \A f \in Searches : search'[f] # search[f] =>
             search[f] = "none" /\ search'[f] = "queued"
    BY <2>2 DEF NewSearch
  <2>4. /\ capacity' \in [Codes -> Int \cup {Unestimated}]
        /\ unseen' \in [Codes -> Nat] /\ overwritten' \in [Codes -> Nat]
        /\ CountsDown'
    <3>1. CASE capacity[c] = Unestimated
      BY <1>5, <3>1 DEF Fulfill, CountsDown, beliefVars
    <3>2. CASE capacity[c] # Unestimated
      <4>1. /\ capacity[c] \in Int /\ capacity' = [capacity EXCEPT ![c] = capacity[c] - 1]
            /\ capacity[c] - 1 \in Int
        BY <1>5, <3>2 DEF Fulfill
      <4>2. /\ Left(capacity[c]) \in 1..RefreshEvery
            /\ Left(capacity[c] - 1) \in 1..RefreshEvery
            /\ (capacity[c] - 1) % RefreshEvery # 0 =>
                 Left(capacity[c] - 1) <= Left(capacity[c]) - 1
        BY <4>1, LeftCountsDown
      <4>3. CASE (capacity[c] - 1) % RefreshEvery = 0
        <5>1. /\ unseen' = [unseen EXCEPT ![c] = 0]
              /\ overwritten' = [overwritten EXCEPT ![c] = 0]
          BY <1>5, <3>2, <4>3 DEF Fulfill, Refreshes, Renewed
        <5>2. unseen'[c] + Left(capacity[c] - 1) <= 1 + AtMost(overwritten'[c])
          BY <4>2, <5>1, AtMostGrows
        <5> QED
          BY <4>1, <5>1, <5>2 DEF CountsDown
      <4>4. CASE (capacity[c] - 1) % RefreshEvery # 0
        <5>1. unseen' = [unseen EXCEPT ![c] = unseen[c] + 1] /\ UNCHANGED overwritten
          BY <1>5, <3>2, <4>4 DEF Fulfill, Refreshes
        <5>2. AtMost(overwritten[c]) \in Nat
          BY AtMostGrows
        <5>3. unseen[c] + Left(capacity[c]) <= 1 + AtMost(overwritten[c])
          BY <3>2 DEF CountsDown
        <5>4. unseen'[c] + Left(capacity[c] - 1) <= 1 + AtMost(overwritten[c])
          BY <4>2, <4>4, <5>1, <5>2, <5>3
        <5> QED
          BY <4>1, <5>1, <5>4 DEF CountsDown
      <4> QED
        BY <4>3, <4>4
    <3> QED
      BY <3>1, <3>2
  <2>5. AreaCodesTypeOK'
    <3>1. estimates' \subseteq Codes \X ((0..MaxStock) \cup {Unestimated})
      BY <2>2
    <3>2. \A f \in Searches : Candidates(f)' = Candidates(f)
      BY <2>1 DEF Candidates
    <3>3. stocked' \in [Codes -> 0..MaxStock]
      BY <2>1
    <3> QED
      BY <2>1, <2>3, <2>4, <3>1, <3>2, <3>3
  <2>6. SearchesOK'
    <3> SUFFICES ASSUME NEW g \in Searches PROVE SearchOK(g)'
      BY DEF SearchesOK
    <3>1. CASE search'[g] = search[g]
      BY <2>1, <3>1, OtherSearches DEF SearchesOK
    <3>2. CASE search'[g] # search[g]
      <4>1. search[g] = "none" /\ search'[g] = "queued" /\ SearchOK(g)
        BY <2>3, <3>2 DEF SearchesOK
      <4> QED
        BY <2>1, <4>1 DEF SearchOK, Candidates
    <3> QED
      BY <3>1, <3>2
  <2> QED
    BY <2>4, <2>5, <2>6
<1>6. CASE UNCHANGED areaVars
  BY <1>6, LoopFrame, BeliefFrame DEF areaVars, loopVars, Candidates
<1> QED
  BY <1>1, <1>2, <1>3, <1>4, <1>5, <1>6, <1>7 DEF AreaCodesNext

(* The local variables of a search and what is believed of a code have their shape:
   an offset stays within the list, and no search is tried more often than it may
   be (find-suitable-area-codes, estimate-area-code-capacity). *)
THEOREM AreaCodesTypeCorrect == AreaCodesSpec => []AreaCodesTypeOK
<1>1. AreaCodesInv => AreaCodesTypeOK
  BY DEF AreaCodesInv
<1> QED
  BY <1>1, AreaCodesStart, AreaCodesStep, PTL DEF AreaCodesSpec

(* A search leaves no code out on its way outward, and ends well only with enough
   numbers or with every code asked about (find-suitable-area-codes). *)
THEOREM SearchesGoOutward == AreaCodesSpec => []SearchOutward
<1>1. AreaCodesInv => SearchOutward
  <2> SUFFICES ASSUME AreaCodesInv PROVE NearFirst /\ EnoughOrAllAsked
    BY DEF SearchOutward
  <2>1. \A f \in Searches : SearchOK(f)
    BY DEF AreaCodesInv, SearchesOK
  <2>2. NearFirst
    BY <2>1, CandidatesTyped DEF SearchOK, NearFirst
  <2> QED
    BY <2>1, <2>2 DEF SearchOK, EnoughOrAllAsked
<1> QED
  BY <1>1, AreaCodesStart, AreaCodesStep, PTL DEF AreaCodesSpec

(* At most RefreshEvery - 1 purchases of a code pass before a new estimate is
   asked for, and as many again for each estimate that was written although
   purchases had overtaken it (tg__phone_number_requests__fulfill,
   persistCapacity). *)
THEOREM BeliefsRefreshed == AreaCodesSpec => []BeliefRefreshed
<1>1. AreaCodesInv => BeliefRefreshed
  <2> SUFFICES ASSUME AreaCodesInv, NEW c \in Codes
               PROVE  unseen[c] <= AtMost(overwritten[c])
    BY DEF BeliefRefreshed, AtMost
  <2>1. /\ unseen[c] \in Nat /\ capacity[c] \in Int \cup {Unestimated}
        /\ overwritten[c] \in Nat
    BY DEF AreaCodesInv, AreaCodesTypeOK
  <2>2. AtMost(overwritten[c]) \in Nat
    BY <2>1, AtMostGrows
  <2>3. CASE capacity[c] = Unestimated
    BY <2>1, <2>2, <2>3 DEF AreaCodesInv, CountsDown
  <2>4. CASE capacity[c] # Unestimated
    <3>1. Left(capacity[c]) \in 1..RefreshEvery
      BY <2>1, <2>4, LeftCountsDown
    <3>2. unseen[c] + Left(capacity[c]) <= 1 + AtMost(overwritten[c])
      BY <2>4 DEF AreaCodesInv, CountsDown
    <3> QED
      BY <2>1, <2>2, <3>1, <3>2, Bounds
  <2> QED
    BY <2>3, <2>4
<1> QED
  BY <1>1, AreaCodesStart, AreaCodesStep, PTL DEF AreaCodesSpec
=============================================================================
