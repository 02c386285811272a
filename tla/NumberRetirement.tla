-------------------------- MODULE NumberRetirement --------------------------
(***************************************************************************)
(* The end of a phone number's life, and who still uses it meanwhile: the  *)
(* release of a number or of its whole sending location, the sell-number   *)
(* job and the telco, cordoning, the from-number mappings that triggers    *)
(* keep, and the routing of messages by a mapping or by the Redis indexes, *)
(* which are filled from the tables and not told of a release.             *)
(*                                                                         *)
(* Rows are rows of sms.all_phone_numbers: a number that was sold may be   *)
(* bought again and has another row then.                                  *)
(***************************************************************************)
EXTENDS Integers, FiniteSets

CONSTANTS
  Rows,          \* rows sms.all_phone_numbers can get (bound)
  Phones,        \* their numbers
  PhoneOf,
  Places,        \* the sending locations of one profile
  PlaceOf,
  Contacts,      \* contacts of the profile
  Seller,        \* the telco of its sending account
  SellAttempts,  \* max_attempts of sell-number (5)
  SaleErrors,    \* bound on failing calls and statements
  SaleCrashes,   \* bound on crashes of a worker
  Nil            \* SQL null

ASSUME RetirementAssumption ==
  /\ PhoneOf \in [Rows -> Phones]
  /\ PlaceOf \in [Rows -> Places]
  /\ Seller \in {"bandwidth", "telnyx", "twilio"}
  /\ SellAttempts \in Nat \ {0}
  /\ SaleErrors \in Nat
  /\ SaleCrashes \in Nat
  /\ Nil \notin Phones \X Places

VARIABLES
  \* sms.all_phone_numbers
  phase, cordon, sold,
  \* sms.sending_locations: those decomissioned; their notice jobs
  gone, notice,
  \* the numbers the account holds at the telco
  owned,
  \* the sell-number job of a row, its attempts, how many were ever added
  job, tries, sales,
  \* sms.from_number_mappings: the active one of each contact
  mapping,
  \* sms.outbound_messages_routing: the numbers used today
  usedToday,
  \* Redis: availableNumbers, sendingLocations, hydrated-profiles
  listed, located, hydrated,
  \* the hydration between its queries and its writes
  reading,
  \* the running message of each contact
  turn, picked,
  \* history: rows marked sold by sell_cordoned_numbers; rows whose sale was
  \* tried again after the telco took the number back; rows whose sale was
  \* accepted and left the number with the account
  marked, resold, unread,
  \* bounds
  saleErrors, saleCrashes

numberVars == <<phase, cordon, sold, marked>>
placeVars == <<gone, notice>>
accountVars == <<owned, unread>>
saleVars == <<job, tries, sales, resold>>
redisVars == <<listed, located, hydrated, reading>>
messageVars == <<turn, picked, usedToday>>
boundVars == <<saleErrors, saleCrashes>>
retirementVars ==
  <<phase, cordon, sold, gone, notice, owned, job, tries, sales, mapping,
    usedToday, listed, located, hydrated, reading, turn, picked, marked, resold,
    unread, saleErrors, saleCrashes>>

Live(r) == phase[r] = "live"
LiveAt(l) == {r \in Rows : Live(r) /\ PlaceOf[r] = l}
HomeOf(r) == <<PhoneOf[r], PlaceOf[r]>>

RetirementInit ==
  /\ phase = [r \in Rows |-> "absent"]
  /\ cordon = [r \in Rows |-> "no"]
  /\ sold = {} /\ marked = {}
  /\ gone = {} /\ notice = {}
  /\ owned = {}
  /\ job = [r \in Rows |-> "none"]
  /\ tries = [r \in Rows |-> 0]
  /\ sales = [r \in Rows |-> 0]
  /\ resold = {} /\ unread = {}
  /\ mapping = [c \in Contacts |-> Nil]
  /\ usedToday = {}
  /\ listed = {} /\ located = {} /\ hydrated = FALSE /\ reading = Nil
  /\ turn = [c \in Contacts |-> "idle"]
  /\ picked = [c \in Contacts |-> Nil]
  /\ saleErrors = 0 /\ saleCrashes = 0

-----------------------------------------------------------------------------
\* Purchase, in two steps of NumberPurchase: the order, and the row.
Order(r) ==
  /\ phase[r] = "absent" /\ PhoneOf[r] \notin owned
  /\ \A q \in Rows : PhoneOf[q] = PhoneOf[r] => phase[q] \in {"absent", "released"}
  /\ owned' = owned \cup {PhoneOf[r]}
  /\ phase' = [phase EXCEPT ![r] = "ordered"]
  /\ UNCHANGED <<unread, cordon, sold, marked, placeVars, saleVars, mapping,
                 redisVars, messageVars, boundVars>>

\* The event of the fulfilment lists the number, in a process that listens.
GoLive(r) ==
  /\ phase[r] = "ordered"
  /\ phase' = [phase EXCEPT ![r] = "live"]
  /\ listed' \in {listed, listed \cup {HomeOf(r)}}
  /\ UNCHANGED <<cordon, sold, marked, placeVars, accountVars, saleVars, mapping,
                 located, hydrated, reading, messageVars, boundVars>>

-----------------------------------------------------------------------------
\* The end of a number in the database.
Sell(rs) == /\ job' = [r \in Rows |-> IF r \in rs THEN "queued" ELSE job[r]]
            /\ tries' = [r \in Rows |-> IF r \in rs THEN 0 ELSE tries[r]]
            /\ sales' = [r \in Rows |-> IF r \in rs THEN sales[r] + 1 ELSE sales[r]]
            /\ UNCHANGED resold

MappedTo(phones) == {c \in Contacts : mapping[c] # Nil /\ mapping[c].from \in phones}

\* invalidate_from_number_mappings, by number, for the rows released.
InvalidateMappings(phones) ==
  mapping' = [c \in Contacts |-> IF c \in MappedTo(phones) THEN Nil ELSE mapping[c]]

Releases(rs) ==
  /\ phase' = [r \in Rows |-> IF r \in rs THEN "released" ELSE phase[r]]
  /\ InvalidateMappings({PhoneOf[r] : r \in rs})
  /\ UNCHANGED <<cordon, sold, marked, accountVars, redisVars, messageVars, boundVars>>

\* An operator sets released_at; the trigger queues the sale.
Release(r) ==
  /\ Live(r)
  /\ Sell({r})
  /\ Releases({r})
  /\ UNCHANGED placeVars

\* A location's trigger that queues the numbers already released again.
DecomissionAll(l) ==
  /\ l \notin gone
  /\ Sell({r \in Rows : PlaceOf[r] = l /\ phase[r] \in {"live", "released"}})
  /\ Releases(LiveAt(l))
  /\ gone' = gone \cup {l}
  /\ notice' = notice \cup {l}

\* One that updates first: it leaves no number to queue.
DecomissionUnsold(l) ==
  /\ l \notin gone
  /\ Sell({})
  /\ Releases(LiveAt(l))
  /\ gone' = gone \cup {l}
  /\ notice' = notice \cup {l}

\* An operator sets decomissioned_at.  The trigger of the location queues the
\* sale of each number still there and releases them; the trigger of the
\* numbers then runs inside it, and leaves the queueing to it.
Decomission(l) ==
  /\ l \notin gone
  /\ Sell(LiveAt(l))
  /\ Releases(LiveAt(l))
  /\ gone' = gone \cup {l}
  /\ notice' = notice \cup {l}

\* An operator sets or clears cordoned_at, and the active mappings follow.
SetCordon(r, how) ==
  /\ Live(r)
  /\ cordon' = [cordon EXCEPT ![r] = how]
  /\ mapping' = [c \in Contacts |->
       IF c \in MappedTo({PhoneOf[r]}) THEN [mapping[c] EXCEPT !.cordon = how]
                                       ELSE mapping[c]]
  /\ UNCHANGED <<phase, sold, marked, placeVars, accountVars, saleVars,
                 redisVars, messageVars, boundVars>>

Cordon(r) == cordon[r] = "no" /\ SetCordon(r, "recent")

\* Without the mappings.
UncordonNumber(r) == /\ Live(r) /\ cordon[r] # "no"
                     /\ cordon' = [cordon EXCEPT ![r] = "no"]
                     /\ UNCHANGED <<phase, sold, marked, placeVars, accountVars, saleVars,
                                    mapping, redisVars, messageVars, boundVars>>

Uncordon(r) == cordon[r] # "no" /\ SetCordon(r, "no")

\* Three days pass since a number was cordoned.
CordonAges(r) ==
  /\ cordon[r] = "recent"
  /\ cordon' = [cordon EXCEPT ![r] = "old"]
  /\ mapping' = [c \in Contacts |->
       IF c \in MappedTo({PhoneOf[r]}) /\ mapping[c].cordon = "recent"
       THEN [mapping[c] EXCEPT !.cordon = "old"] ELSE mapping[c]]
  /\ UNCHANGED <<phase, sold, marked, placeVars, accountVars, saleVars,
                 redisVars, messageVars, boundVars>>

\* sell_cordoned_numbers marks the recently cordoned numbers sold: it neither
\* releases them nor has them sold.
SellCordonedNumbers ==
  LET rs == {r \in Rows : cordon[r] = "recent" /\ r \notin sold}
  IN /\ rs # {}
     /\ sold' = sold \cup rs
     /\ marked' = marked \cup rs
     /\ UNCHANGED <<phase, cordon, placeVars, accountVars, saleVars, mapping,
                    redisVars, messageVars, boundVars>>

-----------------------------------------------------------------------------
\* The sell-number job of a row.
StartSale(r) ==
  /\ job[r] = "queued"
  /\ job' = [job EXCEPT ![r] = "asking"]
  /\ tries' = [tries EXCEPT ![r] = @ + 1]
  /\ UNCHANGED <<numberVars, placeVars, accountVars, sales, resold, mapping,
                 redisVars, messageVars, boundVars>>

\* Without a last attempt.
ThrowAgain(r) ==
  /\ job' = [job EXCEPT ![r] = "queued"]
  /\ UNCHANGED <<numberVars, placeVars, tries, sales, mapping, redisVars,
                 messageVars>>

\* The job throws: it is tried again, or parked after its last attempt.
ThrowSale(r) ==
  /\ job' = [job EXCEPT ![r] = IF tries[r] = SellAttempts THEN "parked" ELSE "queued"]
  /\ UNCHANGED <<numberVars, placeVars, tries, sales, mapping, redisVars,
                 messageVars>>

SaleFault == /\ saleErrors < SaleErrors /\ saleErrors' = saleErrors + 1
             /\ UNCHANGED saleCrashes

\* Bandwidth takes an order to disconnect the number, and nobody asks what
\* became of it; the other two must find the number first.
Acceptable(r) == Seller = "bandwidth" \/ PhoneOf[r] \in owned
Outcomes(r) == {owned \ {PhoneOf[r]}} \cup
               (IF Seller = "bandwidth" THEN {owned} ELSE {})

SellAccepted(r) ==
  /\ job[r] = "asking" /\ Acceptable(r)
  /\ owned' \in Outcomes(r)
  /\ unread' = IF PhoneOf[r] \in owned' THEN unread \cup {r} ELSE unread
  /\ job' = [job EXCEPT ![r] = "answered"]
  /\ UNCHANGED <<numberVars, placeVars, tries, sales, resold, mapping, redisVars,
                 messageVars, boundVars>>

SellDisowned(r) ==
  /\ job[r] = "asking" /\ ~Acceptable(r)
  /\ ThrowSale(r)
  /\ UNCHANGED <<accountVars, resold, boundVars>>

\* The call fails, or its answer is lost; and five calls do not convince Telnyx.
SellFails(r) ==
  /\ job[r] = "asking" /\ SaleFault
  /\ UNCHANGED unread
  /\ \/ UNCHANGED <<owned, resold>>
     \/ /\ Acceptable(r)
        /\ owned' \in Outcomes(r)
        /\ resold' = resold \cup {r}
  /\ ThrowSale(r)

RecordSold(r) ==
  /\ job[r] = "answered"
  /\ sold' = sold \cup {r}
  /\ job' = [job EXCEPT ![r] = "done"]
  /\ UNCHANGED <<phase, cordon, marked, placeVars, accountVars, tries, sales, resold,
                 mapping, redisVars, messageVars, boundVars>>

RecordFails(r) ==
  /\ job[r] = "answered" /\ SaleFault
  /\ resold' = resold \cup {r}
  /\ ThrowSale(r)
  /\ UNCHANGED accountVars

\* The worker dies; the queue gives the job away again, if it has attempts left.
SaleCrash(r) ==
  /\ job[r] \in {"asking", "answered"}
  /\ saleCrashes < SaleCrashes /\ saleCrashes' = saleCrashes + 1
  /\ resold' = IF job[r] = "answered" THEN resold \cup {r} ELSE resold
  /\ job' = [job EXCEPT ![r] = IF tries[r] = SellAttempts THEN "dead" ELSE "queued"]
  /\ UNCHANGED <<numberVars, placeVars, accountVars, tries, sales, mapping, redisVars,
                 messageVars, saleErrors>>

-----------------------------------------------------------------------------
\* Redis.  Hydration reads the tables and adds to what Redis holds: the numbers
\* used today, but for those of a cordoned number, and the uncordoned ones.
Cordoned == {PhoneOf[r] : r \in {q \in Rows : Live(q) /\ cordon[q] # "no"}}
UsableNumbers == {HomeOf(r) : r \in {q \in Rows : Live(q) /\ cordon[q] = "no"}}

TodaysUsage == {u \in usedToday : u[1] \notin Cordoned}
               \cup {u \in UsableNumbers : \A v \in usedToday : v[1] # u[1]}

HydrateRead ==
  /\ ~hydrated /\ reading = Nil
  /\ reading' = [numbers |-> TodaysUsage, places |-> Places \ gone]
  /\ UNCHANGED <<numberVars, placeVars, accountVars, saleVars, mapping, listed, located,
                 hydrated, messageVars, boundVars>>

HydrateWrite ==
  /\ reading # Nil
  /\ listed' = listed \cup reading.numbers
  /\ located' = located \cup reading.places
  /\ hydrated' = TRUE /\ reading' = Nil
  /\ UNCHANGED <<numberVars, placeVars, accountVars, saleVars, mapping, messageVars,
                 boundVars>>

FlushRedis ==
  /\ listed # {} \/ located # {} \/ hydrated
  /\ listed' = {} /\ located' = {} /\ hydrated' = FALSE
  /\ UNCHANGED <<numberVars, placeVars, accountVars, saleVars, mapping, reading,
                 messageVars, boundVars>>

\* The notice asks for a hydration, if the process that runs it has listeners.
NoticeChange(l) ==
  /\ l \in notice
  /\ notice' = notice \ {l}
  /\ hydrated' \in {FALSE, hydrated}
  /\ UNCHANGED <<numberVars, gone, accountVars, saleVars, mapping, listed, located,
                 reading, messageVars, boundVars>>

-----------------------------------------------------------------------------
\* The routing of a contact's message: by its mapping, or by the indexes.
FreshMapping(c) == /\ mapping[c] # Nil
                   /\ mapping[c].cordon # "old" \/ mapping[c].used

ReadMapping(c) ==
  /\ turn[c] = "idle"
  /\ \/ /\ FreshMapping(c)
        /\ turn' = [turn EXCEPT ![c] = "insert"]
        /\ picked' = [picked EXCEPT ![c] = <<mapping[c].from, mapping[c].place>>]
     \/ /\ ~FreshMapping(c)
        /\ turn' = [turn EXCEPT ![c] = "choose"]
        /\ UNCHANGED picked
  /\ UNCHANGED <<numberVars, placeVars, accountVars, saleVars, mapping, redisVars,
                 usedToday, boundVars>>

\* Without a number there the message waits for one, which is not followed
\* here; without a location the job throws.
Choose(c) ==
  /\ turn[c] = "choose" /\ hydrated
  /\ \/ \E u \in listed :
          /\ u[2] \in located
          /\ picked' = [picked EXCEPT ![c] = u]
          /\ turn' = [turn EXCEPT ![c] = "insert"]
     \/ /\ \/ located = {}
           \/ \E l \in located : \A u \in listed : u[2] # l
        /\ turn' = [turn EXCEPT ![c] = "idle"]
        /\ UNCHANGED picked
  /\ UNCHANGED <<numberVars, placeVars, accountVars, saleVars, mapping, redisVars,
                 usedToday, boundVars>>

\* The trigger: a conflict with an active mapping keeps its number.
NewMapping(u) == [from |-> u[1], place |-> u[2], cordon |-> "no", used |-> TRUE]

\* The event of the insert counts the number, in a process that listens.
InsertRouting(c) ==
  /\ turn[c] = "insert"
  /\ usedToday' = usedToday \cup {picked[c]}
  /\ mapping' = [mapping EXCEPT ![c] = IF @ = Nil THEN NewMapping(picked[c])
                                                   ELSE [@ EXCEPT !.used = TRUE]]
  /\ listed' \in {listed, listed \cup {picked[c]}}
  /\ turn' = [turn EXCEPT ![c] = "idle"] /\ picked' = [picked EXCEPT ![c] = Nil]
  /\ UNCHANGED <<numberVars, placeVars, accountVars, saleVars, located, hydrated,
                 reading, boundVars>>

\* Three days without a message; a new day.
MappingIdle(c) ==
  /\ mapping[c] # Nil /\ mapping[c].used
  /\ mapping' = [mapping EXCEPT ![c].used = FALSE]
  /\ UNCHANGED <<numberVars, placeVars, accountVars, saleVars, redisVars,
                 messageVars, boundVars>>

NewDay ==
  /\ usedToday # {}
  /\ usedToday' = {}
  /\ UNCHANGED <<numberVars, placeVars, accountVars, saleVars, mapping, redisVars, turn,
                 picked, boundVars>>

-----------------------------------------------------------------------------
SaleStep(r) == \/ StartSale(r) \/ SellAccepted(r) \/ SellDisowned(r)
               \/ SellFails(r) \/ RecordSold(r) \/ RecordFails(r)

NumberStep(r) == \/ Order(r) \/ GoLive(r) \/ Release(r)
                 \/ SaleStep(r) \/ SaleCrash(r)

CordonStep == \/ \E r \in Rows : Cordon(r) \/ Uncordon(r) \/ CordonAges(r)
              \/ SellCordonedNumbers

RoutingStep == \/ HydrateRead \/ HydrateWrite \/ FlushRedis \/ NewDay
               \/ \E l \in Places : NoticeChange(l)
               \/ \E c \in Contacts : \/ ReadMapping(c) \/ Choose(c)
                                      \/ InsertRouting(c) \/ MappingIdle(c)

RetirementNext == \/ \E r \in Rows : NumberStep(r)
                  \/ \E l \in Places : Decomission(l)
                  \/ CordonStep
                  \/ RoutingStep

RetirementSpec == RetirementInit /\ [][RetirementNext]_retirementVars

\* A job of the queue is worked on.
RetirementFairness == \A r \in Rows : WF_retirementVars(SaleStep(r))

-----------------------------------------------------------------------------
AllHomes == Phones \X Places
CordonStates == {"no", "recent", "old"}
ActiveMappings == [from : Phones, place : Places, cordon : CordonStates,
                   used : BOOLEAN]

(* Shape of the state of trigger_sell_number and its neighbours: a job has at
   most the attempts add_job gives it. *)
RetirementTypeOK ==
  /\ phase \in [Rows -> {"absent", "ordered", "live", "released"}]
  /\ cordon \in [Rows -> CordonStates]
  /\ sold \subseteq Rows /\ marked \subseteq sold
  /\ resold \subseteq Rows /\ unread \subseteq Rows
  /\ gone \subseteq Places /\ notice \subseteq gone
  /\ owned \subseteq Phones
  /\ job \in [Rows -> {"none", "queued", "asking", "answered", "done",
                       "parked", "dead"}]
  /\ tries \in [Rows -> 0..SellAttempts]
  /\ sales \in [Rows -> Nat]
  /\ mapping \in [Contacts -> {Nil} \cup ActiveMappings]
  /\ usedToday \subseteq AllHomes /\ listed \subseteq AllHomes /\ located \subseteq Places
  /\ hydrated \in BOOLEAN
  /\ reading = Nil \/ reading \in [numbers : SUBSET AllHomes, places : SUBSET Places]
  /\ turn \in [Contacts -> {"idle", "choose", "insert"}]
  /\ picked \in [Contacts -> AllHomes \cup {Nil}]
  /\ \A c \in Contacts : turn[c] = "insert" <=> picked[c] # Nil
  /\ saleErrors \in 0..SaleErrors /\ saleCrashes \in 0..SaleCrashes

(* A released number gets one sell-number job, whether it is released alone
   (trigger_sell_number) or with its location (the trigger of the location, in
   which that of the number stays silent), and a live number none. *)
SaleEach == \A r \in Rows : sales[r] = IF phase[r] = "released" THEN 1 ELSE 0

(* A number in use is not given back: no sale of an earlier row of the same
   number takes it, unless that sale is tried again after the telco did it
   already (sell-number is not idempotent across a new purchase). *)
LiveStaysOwned ==
  \A r \in Rows : phase[r] \in {"ordered", "live"} =>
    \/ PhoneOf[r] \in owned
    \/ \E q \in resold : q # r /\ PhoneOf[q] = PhoneOf[r]

(* sold_at is written after the telco took the number back, so a row that says
   sold is not paid for; but for the rows sell_cordoned_numbers marks, and those
   of Bandwidth's orders that took nothing back, whose outcome nobody reads. *)
SoldNotOwned ==
  \A r \in sold \ (marked \cup unread) : PhoneOf[r] \in owned =>
    \E q \in Rows \ {r} : /\ PhoneOf[q] = PhoneOf[r] /\ phase[q] # "absent"
                          /\ job[q] # "done" \/ q \in unread

(* The end of a number is agreed on by the database, the queue and the telco:
   one sale for each release, none of a number in use, and no row sold that is
   still paid for (the triggers of phone numbers and locations, sell-number). *)
SalesAgree == SaleEach /\ LiveStaysOwned /\ SoldNotOwned

(* The cordon of a mapping is never older than its number's: uncordoning and
   buying a number again leave no mapping behind that is cordoned
   (cordon_from_number_mappings). *)
CordonedMappingsAgree ==
  \A c \in Contacts : mapping[c] # Nil /\ mapping[c].cordon # "no" =>
    \E r \in Rows : /\ Live(r) /\ PhoneOf[r] = mapping[c].from
                    /\ cordon[r] # "no"

(* An active mapping names a number the account uses: the trigger "deletes the
   prev_mapping (or marks it as invalidates) when the number is sold". *)
MappingsLive ==
  \A c \in Contacts : mapping[c] # Nil =>
    \E r \in Rows : Live(r) /\ PhoneOf[r] = mapping[c].from

(* A released number is sold, or its job is parked for a person to look at, or
   lost with the worker that ran its last attempt. *)
EventuallySold ==
  \A r \in Rows : phase[r] = "released" ~> job[r] \in {"done", "parked", "dead"}
=============================================================================
