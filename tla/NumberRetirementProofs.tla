----------------------- MODULE NumberRetirementProofs -----------------------
(***************************************************************************)
(* Theorems of NumberRetirement, for any rows, numbers, locations,         *)
(* contacts and faults: each released number has its one sale, none takes  *)
(* back a number in use, a row that says sold is not paid for, and the     *)
(* cordon of a mapping is that of its number.                              *)
(***************************************************************************)
EXTENDS NumberRetirement, TLAPS

\* Only released numbers have sales, one that waits has an attempt left, and what
\* is recorded as sold has its job done.
JobsOK ==
  /\ \A r \in Rows : job[r] # "none" => phase[r] = "released"
  /\ \A r \in Rows : job[r] = "queued" => tries[r] < SellAttempts
  /\ \A r \in resold : phase[r] = "released"
  /\ \A r \in sold \ marked : job[r] = "done"

\* A row that holds its number: in use, or released with its sale to come.
Holds(r) ==
  \/ phase[r] \in {"ordered", "live"}
  \/ phase[r] = "released" /\ job[r] \notin {"answered", "done"}

\* No sale of the number was tried again after the telco took it back.
SoldCleanly(p) == \A q \in resold : PhoneOf[q] # p

\* Then its number is the account's, and it is the only row that holds it.
HoldersOK ==
  /\ \A r \in Rows : Holds(r) /\ SoldCleanly(PhoneOf[r]) => PhoneOf[r] \in owned
  /\ \A r, q \in Rows :
       Holds(r) /\ Holds(q) /\ PhoneOf[r] = PhoneOf[q] /\ SoldCleanly(PhoneOf[r])
         => r = q

\* A number of the account has a row that has yet to sell it, or whose sale left
\* it there.
OwnersOK ==
  \A p \in owned : \E q \in Rows :
    /\ PhoneOf[q] = p /\ phase[q] # "absent"
    /\ job[q] \notin {"answered", "done"} \/ q \in unread

RInv == /\ RetirementTypeOK /\ JobsOK /\ SaleEach /\ HoldersOK /\ OwnersOK
        /\ CordonedMappingsAgree

-----------------------------------------------------------------------------
LEMMA InitRInv == RetirementInit => RInv
<1> SUFFICES ASSUME RetirementInit PROVE RInv
  OBVIOUS
<1>1. RetirementTypeOK
  <2>1. /\ phase \in [Rows -> {"absent", "ordered", "live", "released"}]
        /\ cordon \in [Rows -> CordonStates]
        /\ job \in [Rows -> {"none", "queued", "asking", "answered", "done",
                             "parked", "dead"}]
        /\ tries \in [Rows -> 0..SellAttempts] /\ sales \in [Rows -> Nat]
    BY RetirementAssumption DEF RetirementInit, CordonStates
  <2>2. /\ mapping \in [Contacts -> {Nil} \cup ActiveMappings]
        /\ turn \in [Contacts -> {"idle", "choose", "insert"}]
        /\ picked \in [Contacts -> AllHomes \cup {Nil}]
        /\ \A c \in Contacts : turn[c] = "insert" <=> picked[c] # Nil
    BY DEF RetirementInit
  <2>3. hydrated \in BOOLEAN
    BY DEF RetirementInit
  <2>4. /\ sold \subseteq Rows /\ marked \subseteq sold
        /\ resold \subseteq Rows /\ unread \subseteq Rows
        /\ gone \subseteq Places /\ notice \subseteq gone /\ owned \subseteq Phones
        /\ usedToday \subseteq AllHomes /\ listed \subseteq AllHomes
        /\ located \subseteq Places /\ reading = Nil
        /\ saleErrors \in 0..SaleErrors /\ saleCrashes \in 0..SaleCrashes
    BY RetirementAssumption DEF RetirementInit
  <2> QED BY <2>1, <2>2, <2>3, <2>4 DEF RetirementTypeOK
<1> QED BY <1>1 DEF RetirementInit, RInv, JobsOK, SaleEach, Holds, HoldersOK, OwnersOK,
                    CordonedMappingsAgree

\* Steps that leave the rows, the jobs and the account alone.
LEMMA SalesFrame ==
  ASSUME RInv, UNCHANGED <<phase, owned, unread, job, tries, sales, resold>>,
         sold' \ marked' = sold \ marked
  PROVE  JobsOK' /\ SaleEach' /\ HoldersOK' /\ OwnersOK'
BY DEF RInv, JobsOK, SaleEach, HoldersOK, Holds, SoldCleanly, OwnersOK

\* What the triggers and the routing change of a mapping.
LEMMA MappingUpdates ==
  ASSUME NEW m \in ActiveMappings
  PROVE  /\ \A u \in BOOLEAN : /\ [m EXCEPT !.used = u] \in ActiveMappings
                              /\ [m EXCEPT !.used = u].cordon = m.cordon
                              /\ [m EXCEPT !.used = u].from = m.from
         /\ \A h \in CordonStates : /\ [m EXCEPT !.cordon = h] \in ActiveMappings
                                   /\ [m EXCEPT !.cordon = h].cordon = h
                                   /\ [m EXCEPT !.cordon = h].from = m.from
BY DEF ActiveMappings

\* Hydration and routing: a new mapping is of no cordoned number, and the cordon
\* of one there is stays.
LEMMA RoutingStepRInv ==
  ASSUME RInv, RoutingStep
  PROVE  RInv'
<1> USE RetirementAssumption
<1>1. /\ UNCHANGED <<phase, cordon, sold, marked, owned, unread, job, tries, sales,
                     resold, gone, saleErrors, saleCrashes>>
      /\ notice' \subseteq notice
  BY DEF RoutingStep, HydrateRead, HydrateWrite, FlushRedis, NewDay, NoticeChange,
         ReadMapping, Choose, InsertRouting, MappingIdle, numberVars, placeVars,
         accountVars, saleVars, boundVars
<1>2. JobsOK' /\ SaleEach' /\ HoldersOK' /\ OwnersOK'
  BY <1>1, SalesFrame
<1>3. \A r \in Rows : HomeOf(r) \in AllHomes
  BY DEF HomeOf, AllHomes
<1>4. /\ mapping \in [Contacts -> {Nil} \cup ActiveMappings]
      /\ turn \in [Contacts -> {"idle", "choose", "insert"}]
      /\ picked \in [Contacts -> AllHomes \cup {Nil}]
      /\ \A c \in Contacts : turn[c] = "insert" <=> picked[c] # Nil
      /\ usedToday \subseteq AllHomes /\ listed \subseteq AllHomes
      /\ located \subseteq Places /\ hydrated \in BOOLEAN
      /\ reading = Nil \/ reading \in [numbers : SUBSET AllHomes, places : SUBSET Places]
  BY DEF RInv, RetirementTypeOK
<1>5. CASE UNCHANGED <<mapping, turn, picked, usedToday>>
  <2>1. CordonedMappingsAgree'
    BY <1>1, <1>5 DEF RInv, CordonedMappingsAgree, Live
  <2>2. CASE HydrateRead
    <3>1. TodaysUsage \subseteq AllHomes
      BY <1>3, <1>4 DEF TodaysUsage, UsableNumbers
    <3>2. [numbers |-> TodaysUsage, places |-> Places \ gone]
             \in [numbers : SUBSET AllHomes, places : SUBSET Places]
      BY <3>1
    <3> QED BY <1>1, <1>2, <1>5, <2>1, <2>2, <3>2 DEF HydrateRead, RInv, RetirementTypeOK
  <2>3. CASE HydrateWrite
    BY <1>1, <1>2, <1>4, <1>5, <2>1, <2>3 DEF HydrateWrite, RInv, RetirementTypeOK
  <2>4. CASE FlushRedis
    BY <1>1, <1>2, <1>5, <2>1, <2>4 DEF FlushRedis, RInv, RetirementTypeOK
  <2>5. ASSUME NEW l \in Places, NoticeChange(l) PROVE RInv'
    BY <1>1, <1>2, <1>5, <2>1, <2>5 DEF NoticeChange, RInv, RetirementTypeOK
  <2>6. CASE NewDay
    BY <1>5, <2>6 DEF NewDay
  <2>7. ASSUME NEW c \in Contacts,
               ReadMapping(c) \/ Choose(c) \/ InsertRouting(c) \/ MappingIdle(c)
        PROVE  RInv'
    <3>1. UNCHANGED <<listed, located, hydrated, reading>> \/ InsertRouting(c)
      BY <2>7 DEF ReadMapping, Choose, MappingIdle, redisVars
    <3>2. CASE InsertRouting(c)
      <4>1. turn[c] = "insert" /\ turn'[c] = "idle"
        BY <1>4, <3>2 DEF InsertRouting
      <4> QED BY <1>5, <4>1
    <3> QED BY <1>1, <1>2, <1>5, <2>1, <3>1, <3>2 DEF RInv, RetirementTypeOK
  <2> QED BY <2>2, <2>3, <2>4, <2>5, <2>6, <2>7 DEF RoutingStep
<1>6. CASE NewDay
  BY <1>1, <1>2, <1>6 DEF NewDay, RInv, RetirementTypeOK, CordonedMappingsAgree, Live,
                          redisVars
<1>7. ASSUME NEW c \in Contacts, ReadMapping(c) PROVE RInv'
  <2>1. UNCHANGED <<mapping, listed, located, hydrated, reading, usedToday, gone, notice>>
    BY <1>7 DEF ReadMapping, redisVars, placeVars
  <2>2. picked' \in [Contacts -> AllHomes \cup {Nil}]
    BY <1>4, <1>7 DEF ReadMapping, FreshMapping, AllHomes, ActiveMappings
  <2>3. turn' \in [Contacts -> {"idle", "choose", "insert"}]
    BY <1>4, <1>7 DEF ReadMapping
  <2>4. \A d \in Contacts : turn'[d] = "insert" <=> picked'[d] # Nil
    <3>1. CASE turn'[c] = "insert"
      <4>1. picked'[c] \in AllHomes /\ \A d \in Contacts : d # c => /\ picked'[d] = picked[d]
                                                                  /\ turn'[d] = turn[d]
        BY <1>4, <1>7, <3>1 DEF ReadMapping, FreshMapping, AllHomes, ActiveMappings
      <4> QED BY <1>4, <3>1, <4>1 DEF AllHomes
    <3>2. CASE turn'[c] # "insert"
      BY <1>4, <1>7, <3>2 DEF ReadMapping
    <3> QED BY <3>1, <3>2
  <2>5. CordonedMappingsAgree'
    BY <1>1, <2>1 DEF RInv, CordonedMappingsAgree, Live
  <2> QED BY <1>1, <1>2, <2>1, <2>2, <2>3, <2>4, <2>5 DEF RInv, RetirementTypeOK
<1>8. ASSUME NEW c \in Contacts, Choose(c) PROVE RInv'
  <2>1. UNCHANGED <<mapping, listed, located, hydrated, reading, usedToday, gone, notice>>
    BY <1>8 DEF Choose, redisVars, placeVars
  <2>2. \A u \in listed : u \in AllHomes /\ u # Nil
    BY <1>4 DEF AllHomes
  <2>3. /\ picked' \in [Contacts -> AllHomes \cup {Nil}]
        /\ turn' \in [Contacts -> {"idle", "choose", "insert"}]
        /\ \A d \in Contacts : turn'[d] = "insert" <=> picked'[d] # Nil
    BY <1>4, <1>8, <2>2 DEF Choose
  <2>4. CordonedMappingsAgree'
    BY <1>1, <2>1 DEF RInv, CordonedMappingsAgree, Live
  <2> QED BY <1>1, <1>2, <2>1, <2>3, <2>4 DEF RInv, RetirementTypeOK
<1>9. ASSUME NEW c \in Contacts, InsertRouting(c) PROVE RInv'
  <2>1. /\ turn[c] = "insert" /\ turn' = [turn EXCEPT ![c] = "idle"]
        /\ picked' = [picked EXCEPT ![c] = Nil]
        /\ mapping' = [mapping EXCEPT ![c] = IF @ = Nil THEN NewMapping(picked[c])
                                                         ELSE [@ EXCEPT !.used = TRUE]]
        /\ usedToday' = usedToday \cup {picked[c]}
        /\ listed' \in {listed, listed \cup {picked[c]}}
        /\ UNCHANGED <<located, hydrated, reading, gone, notice>>
    BY <1>9 DEF InsertRouting, placeVars
  <2>2. picked[c] \in AllHomes
    BY <1>4, <2>1
  <2>3. NewMapping(picked[c]) \in ActiveMappings
    BY <2>2 DEF NewMapping, AllHomes, ActiveMappings, CordonStates
  <2>4. /\ mapping' \in [Contacts -> {Nil} \cup ActiveMappings]
        /\ \A d \in Contacts : mapping'[d] # Nil /\ mapping'[d].cordon # "no" =>
             /\ mapping[d] # Nil /\ mapping[d].cordon # "no"
             /\ mapping'[d].from = mapping[d].from
    <3>1. ASSUME mapping[c] # Nil
          PROVE  /\ [mapping[c] EXCEPT !.used = TRUE] \in ActiveMappings
                 /\ [mapping[c] EXCEPT !.used = TRUE].cordon = mapping[c].cordon
                 /\ [mapping[c] EXCEPT !.used = TRUE].from = mapping[c].from
      BY <1>4, <3>1, MappingUpdates
    <3>2. NewMapping(picked[c]).cordon = "no"
      BY DEF NewMapping
    <3> QED BY <1>4, <2>1, <2>3, <3>1, <3>2
  <2>5. CordonedMappingsAgree'
    BY <1>1, <2>4 DEF RInv, CordonedMappingsAgree, Live
  <2>6. RetirementTypeOK'
    <3>1. /\ turn' \in [Contacts -> {"idle", "choose", "insert"}]
          /\ picked' \in [Contacts -> AllHomes \cup {Nil}]
          /\ \A d \in Contacts : turn'[d] = "insert" <=> picked'[d] # Nil
      BY <1>4, <2>1
    <3> QED BY <1>1, <2>1, <2>2, <2>4, <3>1 DEF RInv, RetirementTypeOK
  <2> QED BY <1>2, <2>5, <2>6 DEF RInv
<1>10. ASSUME NEW c \in Contacts, MappingIdle(c) PROVE RInv'
  <2>1. /\ mapping[c] # Nil /\ mapping' = [mapping EXCEPT ![c].used = FALSE]
        /\ UNCHANGED <<listed, located, hydrated, reading, usedToday, gone, notice, turn,
                       picked>>
    BY <1>10 DEF MappingIdle, redisVars, placeVars, messageVars
  <2>2. /\ mapping' \in [Contacts -> {Nil} \cup ActiveMappings]
        /\ \A d \in Contacts : mapping'[d] # Nil =>
             /\ mapping[d] # Nil /\ mapping'[d].cordon = mapping[d].cordon
             /\ mapping'[d].from = mapping[d].from
    <3>1. mapping[c] \in ActiveMappings
      BY <1>4, <2>1
    <3>2. mapping'[c] = [mapping[c] EXCEPT !.used = FALSE]
      BY <1>4, <2>1
    <3>3. \A d \in Contacts : d # c => mapping'[d] = mapping[d]
      BY <1>4, <2>1
    <3>4. /\ [mapping[c] EXCEPT !.used = FALSE] \in ActiveMappings
          /\ [mapping[c] EXCEPT !.used = FALSE].cordon = mapping[c].cordon
          /\ [mapping[c] EXCEPT !.used = FALSE].from = mapping[c].from
      BY <3>1, MappingUpdates
    <3>5. mapping' = [mapping EXCEPT ![c] = [mapping[c] EXCEPT !.used = FALSE]]
      BY <1>4, <2>1
    <3> QED BY <1>4, <2>1, <3>2, <3>3, <3>4, <3>5
  <2>3. CordonedMappingsAgree'
    BY <1>1, <2>2 DEF RInv, CordonedMappingsAgree, Live
  <2> QED BY <1>1, <1>2, <2>1, <2>2, <2>3 DEF RInv, RetirementTypeOK
<1>11. HydrateRead \/ HydrateWrite \/ FlushRedis \/ (\E l \in Places : NoticeChange(l))
         => UNCHANGED <<mapping, turn, picked, usedToday>>
  BY DEF HydrateRead, HydrateWrite, FlushRedis, NoticeChange, messageVars
<1> QED BY <1>5, <1>6, <1>7, <1>8, <1>9, <1>10, <1>11 DEF RoutingStep

-----------------------------------------------------------------------------
\* A step that changes no mapping's cordon to another than its number's.
LEMMA CordonStepRInv ==
  ASSUME RInv, CordonStep
  PROVE  RInv'
<1> USE RetirementAssumption
<1>1. /\ mapping \in [Contacts -> {Nil} \cup ActiveMappings]
      /\ cordon \in [Rows -> CordonStates] /\ sold \subseteq Rows /\ marked \subseteq sold
  BY DEF RInv, RetirementTypeOK
<1>2. ASSUME NEW r \in Rows, NEW how \in CordonStates, SetCordon(r, how),
             how = "no" \/ Live(r)
      PROVE  RInv'
  <2>1. /\ cordon' = [cordon EXCEPT ![r] = how] /\ Live(r)
        /\ mapping' = [c \in Contacts |->
             IF c \in MappedTo({PhoneOf[r]}) THEN [mapping[c] EXCEPT !.cordon = how]
                                             ELSE mapping[c]]
        /\ UNCHANGED <<phase, sold, marked, gone, notice, owned, unread, job, tries, sales,
                       resold, listed, located, hydrated, reading, turn, picked, usedToday,
                       saleErrors, saleCrashes>>
    BY <1>2 DEF SetCordon, placeVars, accountVars, saleVars, redisVars, messageVars,
                boundVars
  <2>2. \A c \in Contacts : mapping[c] # Nil =>
          /\ [mapping[c] EXCEPT !.cordon = how] \in ActiveMappings
          /\ [mapping[c] EXCEPT !.cordon = how].cordon = how
          /\ [mapping[c] EXCEPT !.cordon = how].from = mapping[c].from
    BY <1>1, MappingUpdates
  <2>3. mapping' \in [Contacts -> {Nil} \cup ActiveMappings]
    BY <1>1, <2>1, <2>2 DEF MappedTo
  <2>4. CordonedMappingsAgree'
    <3>1. SUFFICES ASSUME NEW c \in Contacts, mapping'[c] # Nil, mapping'[c].cordon # "no"
                   PROVE  \E q \in Rows : /\ Live(q)' /\ PhoneOf[q] = mapping'[c].from
                                          /\ cordon'[q] # "no"
      BY DEF CordonedMappingsAgree
    <3>2. CASE c \in MappedTo({PhoneOf[r]})
      <4>1. mapping[c] # Nil /\ mapping[c].from = PhoneOf[r]
        BY <3>2 DEF MappedTo
      <4>2. mapping'[c] = [mapping[c] EXCEPT !.cordon = how]
        BY <2>1, <3>2
      <4>3. how # "no" /\ mapping'[c].from = PhoneOf[r]
        BY <2>2, <3>1, <4>1, <4>2
      <4>4. Live(r)' /\ cordon'[r] = how
        BY <1>1, <2>1 DEF Live
      <4> QED BY <4>3, <4>4
    <3>3. CASE c \notin MappedTo({PhoneOf[r]})
      <4>1. mapping'[c] = mapping[c]
        BY <2>1, <3>3
      <4>2. PICK q \in Rows : /\ Live(q) /\ PhoneOf[q] = mapping[c].from
                              /\ cordon[q] # "no"
        BY <3>1, <4>1 DEF RInv, CordonedMappingsAgree
      <4>3. q # r
        BY <3>1, <3>3, <4>1, <4>2 DEF MappedTo
      <4> QED BY <1>1, <2>1, <4>1, <4>2, <4>3 DEF Live
    <3> QED BY <3>2, <3>3
  <2>5. JobsOK' /\ SaleEach' /\ HoldersOK' /\ OwnersOK'
    BY <2>1, SalesFrame
  <2>6. cordon' \in [Rows -> CordonStates]
    BY <1>1, <2>1
  <2> QED BY <2>1, <2>3, <2>4, <2>5, <2>6 DEF RInv, RetirementTypeOK
<1>3. ASSUME NEW r \in Rows, Cordon(r) \/ Uncordon(r) PROVE RInv'
  BY <1>2, <1>3 DEF Cordon, Uncordon, SetCordon, CordonStates
<1>4. ASSUME NEW r \in Rows, CordonAges(r) PROVE RInv'
  <2>1. /\ cordon[r] = "recent" /\ cordon' = [cordon EXCEPT ![r] = "old"]
        /\ mapping' = [c \in Contacts |->
             IF c \in MappedTo({PhoneOf[r]}) /\ mapping[c].cordon = "recent"
             THEN [mapping[c] EXCEPT !.cordon = "old"] ELSE mapping[c]]
        /\ UNCHANGED <<phase, sold, marked, gone, notice, owned, unread, job, tries, sales,
                       resold, listed, located, hydrated, reading, turn, picked, usedToday,
                       saleErrors, saleCrashes>>
    BY <1>4 DEF CordonAges, placeVars, accountVars, saleVars, redisVars, messageVars,
                boundVars
  <2>2. \A c \in Contacts : mapping[c] # Nil =>
          /\ [mapping[c] EXCEPT !.cordon = "old"] \in ActiveMappings
          /\ [mapping[c] EXCEPT !.cordon = "old"].cordon = "old"
          /\ [mapping[c] EXCEPT !.cordon = "old"].from = mapping[c].from
    BY <1>1, MappingUpdates DEF CordonStates
  <2>3. mapping' \in [Contacts -> {Nil} \cup ActiveMappings]
    BY <1>1, <2>1, <2>2 DEF MappedTo
  <2>4. \A c \in Contacts : mapping'[c] # Nil /\ mapping'[c].cordon # "no" =>
          /\ mapping[c] # Nil /\ mapping[c].cordon # "no"
          /\ mapping'[c].from = mapping[c].from
    BY <1>1, <2>1, <2>2 DEF MappedTo
  <2>5. \A q \in Rows : cordon[q] # "no" => cordon'[q] # "no"
    BY <1>1, <2>1
  <2>6. CordonedMappingsAgree'
    BY <2>1, <2>4, <2>5 DEF RInv, CordonedMappingsAgree, Live
  <2>7. JobsOK' /\ SaleEach' /\ HoldersOK' /\ OwnersOK'
    BY <2>1, SalesFrame
  <2>8. cordon' \in [Rows -> CordonStates]
    BY <1>1, <2>1 DEF CordonStates
  <2> QED BY <2>1, <2>3, <2>6, <2>7, <2>8 DEF RInv, RetirementTypeOK
<1>5. ASSUME SellCordonedNumbers PROVE RInv'
  <2> DEFINE rs == {r \in Rows : cordon[r] = "recent" /\ r \notin sold}
  <2>1. /\ sold' = sold \cup rs /\ marked' = marked \cup rs
        /\ UNCHANGED <<phase, cordon, gone, notice, owned, unread, job, tries, sales,
                       resold, mapping, listed, located, hydrated, reading, turn, picked,
                       usedToday, saleErrors, saleCrashes>>
    BY <1>5 DEF SellCordonedNumbers, placeVars, accountVars, saleVars, redisVars,
                messageVars, boundVars
  <2>2. sold' \ marked' = sold \ marked
    BY <2>1
  <2>3. JobsOK' /\ SaleEach' /\ HoldersOK' /\ OwnersOK'
    BY <2>1, <2>2, SalesFrame
  <2>4. RetirementTypeOK'
    BY <2>1 DEF RInv, RetirementTypeOK
  <2>5. CordonedMappingsAgree'
    BY <2>1 DEF RInv, CordonedMappingsAgree, Live
  <2> QED BY <2>3, <2>4, <2>5 DEF RInv
<1> QED BY <1>3, <1>4, <1>5 DEF CordonStep

\* A number is ordered only when the account does not have it, so no other row
\* holds it, unless a sale of it was tried again.
LEMMA OrderStep ==
  ASSUME RInv, NEW r \in Rows, Order(r)
  PROVE  RInv'
<1> USE RetirementAssumption
<1>1. /\ phase[r] = "absent" /\ PhoneOf[r] \notin owned
      /\ owned' = owned \cup {PhoneOf[r]}
      /\ phase' = [phase EXCEPT ![r] = "ordered"]
      /\ UNCHANGED <<unread, cordon, sold, marked, gone, notice, job, tries, sales, resold,
                     mapping, listed, located, hydrated, reading, turn, picked, usedToday,
                     saleErrors, saleCrashes>>
  BY DEF Order, placeVars, saleVars, redisVars, messageVars, boundVars
<1>2. /\ phase \in [Rows -> {"absent", "ordered", "live", "released"}]
      /\ PhoneOf[r] \in Phones
  BY DEF RInv, RetirementTypeOK
<1>3. phase'[r] = "ordered" /\ \A q \in Rows : q # r => phase'[q] = phase[q]
  BY <1>1, <1>2
<1>4. RetirementTypeOK'
  BY <1>1, <1>2 DEF RInv, RetirementTypeOK
<1>5. job[r] = "none" /\ JobsOK'
  BY <1>1, <1>3 DEF RInv, RetirementTypeOK, JobsOK
<1>6. SaleEach'
  BY <1>1, <1>3 DEF RInv, SaleEach
<1>7. \A q \in Rows : Holds(q)' <=> Holds(q) \/ q = r
  BY <1>1, <1>3 DEF Holds
<1>8. \A p : SoldCleanly(p)' <=> SoldCleanly(p)
  BY <1>1 DEF SoldCleanly
<1>9. \A q \in Rows : Holds(q) /\ PhoneOf[q] = PhoneOf[r] => ~SoldCleanly(PhoneOf[r])
  BY <1>1 DEF RInv, HoldersOK
<1>10. HoldersOK'
  BY <1>1, <1>7, <1>8, <1>9 DEF RInv, HoldersOK
<1>11. OwnersOK'
  BY <1>1, <1>3, <1>5 DEF RInv, OwnersOK
<1>12. CordonedMappingsAgree'
  BY <1>1, <1>3 DEF RInv, CordonedMappingsAgree, Live
<1> QED BY <1>4, <1>5, <1>6, <1>10, <1>11, <1>12 DEF RInv

LEMMA GoLiveStep ==
  ASSUME RInv, NEW r \in Rows, GoLive(r)
  PROVE  RInv'
<1> USE RetirementAssumption
<1>1. /\ phase[r] = "ordered" /\ phase' = [phase EXCEPT ![r] = "live"]
      /\ listed' \in {listed, listed \cup {HomeOf(r)}}
      /\ UNCHANGED <<owned, unread, cordon, sold, marked, gone, notice, job, tries, sales,
                     resold, mapping, located, hydrated, reading, turn, picked, usedToday,
                     saleErrors, saleCrashes>>
  BY DEF GoLive, placeVars, accountVars, saleVars, messageVars, boundVars
<1>2. phase \in [Rows -> {"absent", "ordered", "live", "released"}]
  BY DEF RInv, RetirementTypeOK
<1>3. phase'[r] = "live" /\ \A q \in Rows : q # r => phase'[q] = phase[q]
  BY <1>1, <1>2
<1>4. HomeOf(r) \in AllHomes
  BY DEF HomeOf, AllHomes
<1>5. RetirementTypeOK'
  BY <1>1, <1>2, <1>4 DEF RInv, RetirementTypeOK
<1>6. JobsOK' /\ SaleEach'
  BY <1>1, <1>3 DEF RInv, JobsOK, SaleEach
<1>7. \A q \in Rows : Holds(q)' <=> Holds(q)
  BY <1>1, <1>3 DEF Holds
<1>8. HoldersOK' /\ OwnersOK'
  BY <1>1, <1>3, <1>7 DEF RInv, HoldersOK, SoldCleanly, OwnersOK
<1>9. CordonedMappingsAgree'
  BY <1>1, <1>3 DEF RInv, CordonedMappingsAgree, Live
<1> QED BY <1>5, <1>6, <1>8, <1>9 DEF RInv

\* Live numbers are released, one or all of a location: each gets its sale, and
\* the mappings to it end.
LEMMA ReleaseRows ==
  ASSUME RInv, NEW rs \in SUBSET Rows, \A r \in rs : Live(r), Sell(rs), Releases(rs),
         gone' \subseteq Places, notice' \subseteq gone'
  PROVE  RInv'
<1> USE RetirementAssumption
<1> DEFINE phones == {PhoneOf[r] : r \in rs}
<1>1. /\ phase' = [r \in Rows |-> IF r \in rs THEN "released" ELSE phase[r]]
      /\ job' = [r \in Rows |-> IF r \in rs THEN "queued" ELSE job[r]]
      /\ tries' = [r \in Rows |-> IF r \in rs THEN 0 ELSE tries[r]]
      /\ sales' = [r \in Rows |-> IF r \in rs THEN sales[r] + 1 ELSE sales[r]]
      /\ mapping' = [c \in Contacts |-> IF c \in MappedTo(phones) THEN Nil ELSE mapping[c]]
      /\ UNCHANGED <<owned, unread, cordon, sold, marked, resold, listed, located, hydrated,
                     reading, turn, picked, usedToday, saleErrors, saleCrashes>>
  BY DEF Sell, Releases, InvalidateMappings, accountVars, redisVars, messageVars, boundVars
<1>2. RetirementTypeOK'
  <2>1. /\ phase' \in [Rows -> {"absent", "ordered", "live", "released"}]
        /\ job' \in [Rows -> {"none", "queued", "asking", "answered", "done",
                              "parked", "dead"}]
        /\ tries' \in [Rows -> 0..SellAttempts] /\ sales' \in [Rows -> Nat]
    BY <1>1 DEF RInv, RetirementTypeOK
  <2>2. mapping' \in [Contacts -> {Nil} \cup ActiveMappings]
    BY <1>1 DEF RInv, RetirementTypeOK
  <2> QED BY <1>1, <2>1, <2>2 DEF RInv, RetirementTypeOK
<1>3. \A r \in rs : job[r] = "none" /\ r \notin resold /\ sales[r] = 0 /\ phase[r] = "live"
  BY DEF RInv, JobsOK, SaleEach, Live, RetirementTypeOK
<1>4. JobsOK'
  BY <1>1, <1>3 DEF RInv, RetirementTypeOK, JobsOK
<1>5. SaleEach'
  BY <1>1, <1>3 DEF RInv, SaleEach
<1>6. \A r \in Rows : Holds(r)' <=> Holds(r)
  BY <1>1, <1>3 DEF Holds
<1>7. HoldersOK'
  BY <1>1, <1>6 DEF RInv, HoldersOK, SoldCleanly
<1>8. OwnersOK'
  BY <1>1, <1>3 DEF RInv, OwnersOK
<1>9. CordonedMappingsAgree'
  <2>1. SUFFICES ASSUME NEW c \in Contacts, mapping'[c] # Nil, mapping'[c].cordon # "no"
                 PROVE  \E q \in Rows : /\ Live(q)' /\ PhoneOf[q] = mapping'[c].from
                                        /\ cordon'[q] # "no"
    BY DEF CordonedMappingsAgree
  <2>2. c \notin MappedTo(phones) /\ mapping'[c] = mapping[c]
    BY <1>1, <2>1
  <2>3. PICK q \in Rows : Live(q) /\ PhoneOf[q] = mapping[c].from /\ cordon[q] # "no"
    BY <2>1, <2>2 DEF RInv, CordonedMappingsAgree
  <2>4. q \notin rs
    BY <2>1, <2>2, <2>3 DEF MappedTo
  <2> QED BY <1>1, <2>2, <2>3, <2>4 DEF Live
<1> QED BY <1>2, <1>4, <1>5, <1>7, <1>8, <1>9 DEF RInv

LEMMA ReleaseStep ==
  ASSUME RInv, (\E r \in Rows : Release(r)) \/ (\E l \in Places : Decomission(l))
  PROVE  RInv'
<1>1. gone \subseteq Places /\ notice \subseteq gone
  BY DEF RInv, RetirementTypeOK
<1>2. ASSUME NEW r \in Rows, Release(r) PROVE RInv'
  <2>1. Live(r) /\ Sell({r}) /\ Releases({r}) /\ UNCHANGED <<gone, notice>>
    BY <1>2 DEF Release, placeVars
  <2> QED BY <1>1, <2>1, ReleaseRows
<1>3. ASSUME NEW l \in Places, Decomission(l) PROVE RInv'
  <2>1. /\ Sell(LiveAt(l)) /\ Releases(LiveAt(l))
        /\ gone' = gone \cup {l} /\ notice' = notice \cup {l}
    BY <1>3 DEF Decomission
  <2>2. LiveAt(l) \in SUBSET Rows /\ \A r \in LiveAt(l) : Live(r)
    BY DEF LiveAt
  <2>3. gone' \subseteq Places /\ notice' \subseteq gone'
    BY <1>1, <2>1
  <2> QED BY <2>1, <2>2, <2>3, ReleaseRows
<1> QED BY <1>2, <1>3

-----------------------------------------------------------------------------
\* What every step of a sell-number job leaves alone.
LEMMA SaleFrame ==
  ASSUME RInv, NEW r \in Rows, NEW to \in {"queued", "asking", "answered", "done",
                                           "parked", "dead"},
         phase[r] = "released", job' = [job EXCEPT ![r] = to],
         tries' \in [Rows -> 0..SellAttempts],
         saleErrors' \in 0..SaleErrors, saleCrashes' \in 0..SaleCrashes,
         resold' \in {resold, resold \cup {r}}, owned' \in {owned, owned \ {PhoneOf[r]}},
         unread' \in {unread, unread \cup {r}}, sold' \in {sold, sold \cup {r}},
         UNCHANGED <<phase, cordon, marked, gone, notice, sales, mapping, listed, located,
                     hydrated, reading, turn, picked, usedToday>>
  PROVE  /\ RetirementTypeOK' /\ SaleEach' /\ CordonedMappingsAgree'
         /\ job'[r] = to /\ \A q \in Rows : q # r => job'[q] = job[q]
         /\ \A q \in resold' : phase'[q] = "released"
         /\ \A q \in Rows : job'[q] # "none" => phase'[q] = "released"
<1>1. job \in [Rows -> {"none", "queued", "asking", "answered", "done", "parked", "dead"}]
  BY DEF RInv, RetirementTypeOK
<1>2. job'[r] = to /\ \A q \in Rows : q # r => job'[q] = job[q]
  BY <1>1
<1>3. RetirementTypeOK'
  BY <1>1 DEF RInv, RetirementTypeOK
<1>4. SaleEach' /\ CordonedMappingsAgree'
  BY DEF RInv, SaleEach, CordonedMappingsAgree, Live
<1> QED BY <1>2, <1>3, <1>4 DEF RInv, JobsOK

\* A row that goes on with its sale still answers for its number.
LEMMA OwnersKept ==
  ASSUME RInv, NEW r \in Rows, UNCHANGED <<phase, unread>>, owned' \subseteq owned,
         \A q \in Rows : q # r => job'[q] = job[q],
         job'[r] \notin {"answered", "done"}
  PROVE  OwnersOK'
BY DEF RInv, OwnersOK

\* A sale that goes on, or is tried again: the row still holds its number, or the
\* telco took it back and the row is one of those sold twice.
LEMMA SaleGoesOn ==
  ASSUME RInv, NEW r \in Rows, NEW to \in {"queued", "asking", "parked", "dead"},
         job[r] \in {"queued", "asking"} \/ r \in resold',
         job[r] \in {"queued", "asking", "answered"},
         job' = [job EXCEPT ![r] = to],
         tries' \in [Rows -> 0..SellAttempts], \A q \in Rows : q # r => tries'[q] = tries[q],
         to = "queued" => tries'[r] < SellAttempts,
         saleErrors' \in 0..SaleErrors, saleCrashes' \in 0..SaleCrashes,
         resold' \in {resold, resold \cup {r}},
         owned' = owned \/ (owned' = owned \ {PhoneOf[r]} /\ r \in resold'),
         UNCHANGED <<phase, cordon, sold, marked, gone, notice, sales, mapping, listed,
                     located, hydrated, reading, turn, picked, usedToday, unread>>
  PROVE  RInv'
<1> USE RetirementAssumption
<1>1. phase[r] = "released" /\ r \notin sold \ marked
  BY DEF RInv, JobsOK
<1>2. /\ RetirementTypeOK' /\ SaleEach' /\ CordonedMappingsAgree'
      /\ job'[r] = to /\ \A q \in Rows : q # r => job'[q] = job[q]
      /\ \A q \in resold' : phase'[q] = "released"
      /\ \A q \in Rows : job'[q] # "none" => phase'[q] = "released"
  BY <1>1, SaleFrame
<1>3. JobsOK'
  BY <1>1, <1>2 DEF RInv, RetirementTypeOK, JobsOK
<1>4. \A q \in Rows : q # r => (Holds(q)' <=> Holds(q))
  BY <1>2 DEF Holds
<1>5. \A p : SoldCleanly(p)' => SoldCleanly(p)
  BY DEF SoldCleanly
<1>6. r \in resold' => ~SoldCleanly(PhoneOf[r])'
  BY DEF SoldCleanly
<1>7. CASE r \in resold'
  <2>1. \A q \in Rows : SoldCleanly(PhoneOf[q])' => PhoneOf[q] # PhoneOf[r] /\ q # r
    BY <1>6, <1>7
  <2>2. HoldersOK'
    BY <1>4, <1>5, <2>1 DEF RInv, HoldersOK
  <2> QED BY <1>2, <1>3, <2>2, OwnersKept DEF RInv
<1>8. CASE r \notin resold'
  <2>1. owned' = owned /\ Holds(r) /\ resold' = resold
    BY <1>1, <1>8 DEF Holds
  <2>2. \A q \in Rows : Holds(q)' => Holds(q)
    BY <1>4, <2>1
  <2>3. HoldersOK'
    BY <1>5, <2>1, <2>2 DEF RInv, HoldersOK
  <2> QED BY <1>2, <1>3, <2>1, <2>3, OwnersKept DEF RInv
<1> QED BY <1>7, <1>8

\* The telco accepts the order: the row that asked holds the number no longer, and
\* if no sale of it was tried again, no other row did.
LEMMA AcceptedSale ==
  ASSUME RInv, NEW r \in Rows, SellAccepted(r)
  PROVE  RInv'
<1> USE RetirementAssumption
<1>1. /\ job[r] = "asking" /\ job' = [job EXCEPT ![r] = "answered"]
      /\ owned' \in {owned, owned \ {PhoneOf[r]}}
      /\ unread' = IF PhoneOf[r] \in owned' THEN unread \cup {r} ELSE unread
      /\ UNCHANGED <<phase, cordon, sold, marked, gone, notice, tries, sales, resold,
                     mapping, listed, located, hydrated, reading, turn, picked, usedToday,
                     saleErrors, saleCrashes>>
  BY DEF SellAccepted, Outcomes, numberVars, placeVars, redisVars, messageVars, boundVars
<1>2. /\ tries' \in [Rows -> 0..SellAttempts] /\ unread' \in {unread, unread \cup {r}}
      /\ saleErrors' \in 0..SaleErrors /\ saleCrashes' \in 0..SaleCrashes
  BY <1>1 DEF RInv, RetirementTypeOK
<1>3. phase[r] = "released" /\ r \notin sold \ marked /\ Holds(r)
  BY <1>1 DEF RInv, JobsOK, Holds
<1>4. /\ RetirementTypeOK' /\ SaleEach' /\ CordonedMappingsAgree'
      /\ job'[r] = "answered" /\ \A q \in Rows : q # r => job'[q] = job[q]
      /\ \A q \in resold' : phase'[q] = "released"
      /\ \A q \in Rows : job'[q] # "none" => phase'[q] = "released"
  BY <1>1, <1>2, <1>3, SaleFrame
<1>5. JobsOK'
  BY <1>1, <1>3, <1>4 DEF RInv, RetirementTypeOK, JobsOK
<1>6. /\ ~Holds(r)' /\ \A q \in Rows : q # r => (Holds(q)' <=> Holds(q))
      /\ \A p : SoldCleanly(p)' <=> SoldCleanly(p)
  BY <1>1, <1>3, <1>4 DEF Holds, SoldCleanly
<1>7. HoldersOK'
  <2>1. ASSUME NEW q \in Rows, Holds(q)', SoldCleanly(PhoneOf[q])'
        PROVE  PhoneOf[q] \in owned'
    <3>1. q # r /\ Holds(q) /\ SoldCleanly(PhoneOf[q])
      BY <1>6, <2>1
    <3>2. PhoneOf[q] \in owned /\ PhoneOf[q] # PhoneOf[r]
      BY <1>3, <3>1 DEF RInv, HoldersOK
    <3> QED BY <1>1, <3>2
  <2>2. \A q, s \in Rows :
          Holds(q)' /\ Holds(s)' /\ PhoneOf[q] = PhoneOf[s] /\ SoldCleanly(PhoneOf[q])'
            => q = s
    BY <1>6 DEF RInv, HoldersOK
  <2> QED BY <2>1, <2>2 DEF HoldersOK
<1>8. OwnersOK'
  <2>1. SUFFICES ASSUME NEW p \in owned'
                 PROVE  \E q \in Rows : /\ PhoneOf[q] = p /\ phase'[q] # "absent"
                                        /\ job'[q] \notin {"answered", "done"}
                                           \/ q \in unread'
    BY DEF OwnersOK
  <2>2. CASE p = PhoneOf[r]
    BY <1>1, <1>3, <2>1, <2>2
  <2>3. CASE p # PhoneOf[r]
    <3>1. PICK q \in Rows : /\ PhoneOf[q] = p /\ phase[q] # "absent"
                            /\ job[q] \notin {"answered", "done"} \/ q \in unread
      BY <1>1, <2>1 DEF RInv, OwnersOK
    <3>2. q # r
      BY <2>3, <3>1
    <3> QED BY <1>1, <1>2, <1>4, <3>1, <3>2
  <2> QED BY <2>2, <2>3
<1> QED BY <1>4, <1>5, <1>7, <1>8 DEF RInv

\* sold_at is written: the job of the row is done.
LEMMA RecordedSale ==
  ASSUME RInv, NEW r \in Rows, RecordSold(r)
  PROVE  RInv'
<1> USE RetirementAssumption
<1>1. /\ job[r] = "answered" /\ job' = [job EXCEPT ![r] = "done"]
      /\ sold' = sold \cup {r}
      /\ UNCHANGED <<phase, cordon, marked, gone, notice, owned, unread, tries, sales,
                     resold, mapping, listed, located, hydrated, reading, turn, picked,
                     usedToday, saleErrors, saleCrashes>>
  BY DEF RecordSold, placeVars, accountVars, redisVars, messageVars, boundVars
<1>2. /\ tries' \in [Rows -> 0..SellAttempts]
      /\ saleErrors' \in 0..SaleErrors /\ saleCrashes' \in 0..SaleCrashes
  BY <1>1 DEF RInv, RetirementTypeOK
<1>3. phase[r] = "released"
  BY <1>1 DEF RInv, JobsOK
<1>4. /\ RetirementTypeOK' /\ SaleEach' /\ CordonedMappingsAgree'
      /\ job'[r] = "done" /\ \A q \in Rows : q # r => job'[q] = job[q]
      /\ \A q \in resold' : phase'[q] = "released"
      /\ \A q \in Rows : job'[q] # "none" => phase'[q] = "released"
  BY <1>1, <1>2, <1>3, SaleFrame
<1>5. JobsOK'
  BY <1>1, <1>3, <1>4 DEF RInv, RetirementTypeOK, JobsOK
<1>6. HoldersOK'
  <2>1. \A q \in Rows : Holds(q)' <=> Holds(q)
    BY <1>1, <1>4 DEF Holds
  <2> QED BY <1>1, <2>1 DEF RInv, HoldersOK, SoldCleanly
<1>7. OwnersOK'
  BY <1>1, <1>4 DEF RInv, OwnersOK
<1> QED BY <1>4, <1>5, <1>6, <1>7 DEF RInv

\* A job that throws is tried again, or it was its last attempt.
LEMMA SaleThrown ==
  ASSUME RInv, NEW r \in Rows, NEW end \in {"parked", "dead"},
         job' = [job EXCEPT ![r] = IF tries[r] = SellAttempts THEN end ELSE "queued"],
         job[r] \in {"asking", "answered"}, job[r] = "asking" \/ r \in resold',
         saleErrors' \in 0..SaleErrors, saleCrashes' \in 0..SaleCrashes,
         resold' \in {resold, resold \cup {r}},
         owned' = owned \/ (owned' = owned \ {PhoneOf[r]} /\ r \in resold'),
         UNCHANGED <<phase, cordon, sold, marked, gone, notice, tries, sales, mapping,
                     listed, located, hydrated, reading, turn, picked, usedToday, unread>>
  PROVE  RInv'
<1>1. tries \in [Rows -> 0..SellAttempts] /\ SellAttempts \in Nat
  BY RetirementAssumption DEF RInv, RetirementTypeOK
<1>2. CASE tries[r] = SellAttempts
  <2>1. job' = [job EXCEPT ![r] = end] /\ end # "queued"
    BY <1>2
  <2> QED BY <1>1, <2>1, SaleGoesOn
<1>3. CASE tries[r] # SellAttempts
  <2>1. job' = [job EXCEPT ![r] = "queued"] /\ tries'[r] < SellAttempts
    BY <1>1, <1>3
  <2> QED BY <1>1, <2>1, SaleGoesOn
<1> QED BY <1>2, <1>3

LEMMA SaleStepRInv ==
  ASSUME RInv, NEW r \in Rows, SaleStep(r) \/ SaleCrash(r)
  PROVE  RInv'
<1> DEFINE Kept == UNCHANGED <<phase, cordon, sold, marked, gone, notice, sales, mapping,
                               listed, located, hydrated, reading, turn, picked, usedToday,
                               unread>>
<1>1. /\ tries \in [Rows -> 0..SellAttempts]
      /\ saleErrors \in 0..SaleErrors /\ saleCrashes \in 0..SaleCrashes
      /\ SellAttempts \in Nat /\ SaleErrors \in Nat /\ SaleCrashes \in Nat
  BY RetirementAssumption DEF RInv, RetirementTypeOK
<1>2. CASE StartSale(r)
  <2>1. /\ Kept /\ UNCHANGED <<owned, resold, saleErrors, saleCrashes>>
        /\ job[r] = "queued" /\ job' = [job EXCEPT ![r] = "asking"]
        /\ tries' = [tries EXCEPT ![r] = @ + 1]
    BY <1>2 DEF StartSale, numberVars, placeVars, accountVars, redisVars, messageVars,
                boundVars
  <2>2. tries[r] < SellAttempts
    BY <2>1 DEF RInv, JobsOK
  <2>3. tries[r] + 1 \in 0..SellAttempts
    BY <1>1, <2>2
  <2>4. tries' \in [Rows -> 0..SellAttempts]
    BY <1>1, <2>1, <2>3
  <2>5. \A q \in Rows : q # r => tries'[q] = tries[q]
    BY <1>1, <2>1
  <2> QED BY <1>1, <2>1, <2>4, <2>5, SaleGoesOn
<1>3. CASE SellDisowned(r)
  <2>1. /\ Kept /\ UNCHANGED <<owned, resold, saleErrors, saleCrashes, tries>>
        /\ job[r] = "asking"
        /\ job' = [job EXCEPT ![r] = IF tries[r] = SellAttempts THEN "parked" ELSE "queued"]
    BY <1>3 DEF SellDisowned, ThrowSale, numberVars, placeVars, accountVars, redisVars,
                messageVars, boundVars
  <2> QED BY <1>1, <2>1, SaleThrown
<1>4. CASE SellFails(r)
  <2>1. /\ Kept /\ UNCHANGED <<saleCrashes, tries>>
        /\ saleErrors < SaleErrors /\ saleErrors' = saleErrors + 1 /\ job[r] = "asking"
        /\ job' = [job EXCEPT ![r] = IF tries[r] = SellAttempts THEN "parked" ELSE "queued"]
    BY <1>4 DEF SellFails, SaleFault, ThrowSale, numberVars, placeVars, redisVars,
                messageVars
  <2>2. \/ UNCHANGED <<owned, resold>>
        \/ owned' \in {owned, owned \ {PhoneOf[r]}} /\ resold' = resold \cup {r}
    BY <1>4 DEF SellFails, Outcomes
  <2>3. saleErrors' \in 0..SaleErrors
    BY <1>1, <2>1
  <2> QED BY <1>1, <2>1, <2>2, <2>3, SaleThrown
<1>5. CASE RecordFails(r)
  <2>1. /\ Kept /\ UNCHANGED <<owned, saleCrashes, tries>>
        /\ saleErrors < SaleErrors /\ saleErrors' = saleErrors + 1 /\ job[r] = "answered"
        /\ resold' = resold \cup {r}
        /\ job' = [job EXCEPT ![r] = IF tries[r] = SellAttempts THEN "parked" ELSE "queued"]
    BY <1>5 DEF RecordFails, SaleFault, ThrowSale, numberVars, placeVars, accountVars,
                redisVars, messageVars
  <2>2. saleErrors' \in 0..SaleErrors
    BY <1>1, <2>1
  <2> QED BY <1>1, <2>1, <2>2, SaleThrown
<1>6. CASE SaleCrash(r)
  <2>1. /\ Kept /\ UNCHANGED <<owned, saleErrors, tries>>
        /\ saleCrashes < SaleCrashes /\ saleCrashes' = saleCrashes + 1
        /\ job[r] \in {"asking", "answered"}
        /\ resold' = IF job[r] = "answered" THEN resold \cup {r} ELSE resold
        /\ job' = [job EXCEPT ![r] = IF tries[r] = SellAttempts THEN "dead" ELSE "queued"]
    BY <1>6 DEF SaleCrash, numberVars, placeVars, accountVars, redisVars, messageVars
  <2>2. saleCrashes' \in 0..SaleCrashes
    BY <1>1, <2>1
  <2> QED BY <1>1, <2>1, <2>2, SaleThrown
<1> QED BY <1>2, <1>3, <1>4, <1>5, <1>6, AcceptedSale, RecordedSale DEF SaleStep

LEMMA StepRInv == RInv /\ [RetirementNext]_retirementVars => RInv'
<1> SUFFICES ASSUME RInv, [RetirementNext]_retirementVars PROVE RInv'
  OBVIOUS
<1>1. ASSUME NEW r \in Rows, NumberStep(r) PROVE RInv'
  BY <1>1, OrderStep, GoLiveStep, ReleaseStep, SaleStepRInv DEF NumberStep
<1>2. CASE UNCHANGED retirementVars
  BY <1>2 DEF retirementVars, RInv, RetirementTypeOK, JobsOK, SaleEach, HoldersOK, Holds,
              SoldCleanly, OwnersOK, CordonedMappingsAgree, Live
<1> QED BY <1>1, <1>2, ReleaseStep, CordonStepRInv, RoutingStepRInv DEF RetirementNext

LEMMA InductiveRetirement == RetirementSpec => []RInv
BY InitRInv, StepRInv, PTL DEF RetirementSpec

\* The state keeps its shape.
THEOREM RetirementTypeCorrect == RetirementSpec => []RetirementTypeOK
BY InductiveRetirement, PTL DEF RInv

\* Each release has one sale, a number in use is not taken back by an earlier one,
\* and a row that says sold is not paid for, but for the exceptions SalesAgree
\* names (the triggers of phone numbers and locations, sell-number).
THEOREM SalesInAgreement == RetirementSpec => []SalesAgree
<1>1. ASSUME RInv, NEW r \in Rows, phase[r] \in {"ordered", "live"}
      PROVE  PhoneOf[r] \in owned \/ \E q \in resold : q # r /\ PhoneOf[q] = PhoneOf[r]
  BY <1>1 DEF RInv, HoldersOK, Holds, SoldCleanly, JobsOK
<1>2. ASSUME RInv, NEW r \in sold \ (marked \cup unread), PhoneOf[r] \in owned
      PROVE  \E q \in Rows \ {r} : /\ PhoneOf[q] = PhoneOf[r] /\ phase[q] # "absent"
                                   /\ job[q] # "done" \/ q \in unread
  <2>1. PICK q \in Rows : /\ PhoneOf[q] = PhoneOf[r] /\ phase[q] # "absent"
                          /\ job[q] \notin {"answered", "done"} \/ q \in unread
    BY <1>2 DEF RInv, OwnersOK
  <2>2. q # r
    BY <1>2, <2>1 DEF RInv, JobsOK
  <2> QED BY <2>1, <2>2
<1>3. RInv => SalesAgree
  BY <1>1, <1>2 DEF SalesAgree, LiveStaysOwned, SoldNotOwned, RInv
<1> QED BY <1>3, InductiveRetirement, PTL

\* A mapping that is cordoned has a live number that is (the triggers that cordon
\* and end the from-number mappings).
THEOREM CordonsInAgreement == RetirementSpec => []CordonedMappingsAgree
BY InductiveRetirement, PTL DEF RInv
=============================================================================
