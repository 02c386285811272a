-------------------------- MODULE MessageChannels --------------------------
(***************************************************************************)
(* Messages of registered traffic: which job the channel of the profile   *)
(* gives a message, how process-10dlc-message and                          *)
(* process-toll-free-message route it, and how a client adds a sending     *)
(* location to a 10DLC profile, whose numbers are limited.                 *)
(*                                                                         *)
(* A 10DLC location has one number; the view that is asked holds cordoned  *)
(* numbers too.  Unlike grey-route messages these wait for nothing: with   *)
(* no number, or several, the job throws.                                  *)
(***************************************************************************)
EXTENDS Integers, FiniteSets

CONSTANTS
  Outbound,        \* messages of the profile, to one contact
  Locations,       \* sending locations the profile may get
  Located,         \* those it has from the start
  Limit,           \* number requests a 10DLC profile may have (49)
  MaxNumbers,      \* numbers of a location (bound)
  ChannelAttempts, \* max_attempts of the jobs (5)
  ChannelFaults,   \* bound on failing statements and crashes
  NoLocation

ASSUME ChannelsAssumption ==
  /\ Located \subseteq Locations /\ IsFiniteSet(Located) /\ NoLocation \notin Locations
  /\ Limit \in Nat /\ MaxNumbers \in Nat \ {0}
  /\ ChannelAttempts \in Nat \ {0}
  /\ ChannelFaults \in Nat

VARIABLES
  \* sms.profiles.channel, and what Redis holds of it (or "none")
  channel, cached,
  \* sending locations in the database, requests made for each, live numbers
  located10, requested, live10,
  \* transactions of createSendingLocation: location -> requests it counted
  creating,
  \* the contact's active mapping
  mappedTo,
  \* the job of a message: its kind, state, attempts and what it chose
  kind, stage, goes, chosen,
  \* sms.outbound_messages_routing: location of each message routed
  routed10,
  \* history: messages whose row was written before a fault;
  \* transactions overlapped
  repeated10, overlapped,
  \* bound
  channelFaults

profileVars == <<channel, cached>>
placeVars10 == <<located10, requested, live10, creating, overlapped>>
jobVars10 == <<kind, stage, goes, chosen, repeated10>>
channelVars == <<channel, cached, located10, requested, live10, creating, mappedTo,
                 kind, stage, goes, chosen, routed10, repeated10, overlapped,
                 channelFaults>>

\* sms.phone_number_requests of the profile.
NumberRequests == UNION {{l} \X (1..requested[l]) : l \in Locations}
Total == Cardinality(NumberRequests)

ChannelsInit ==
  /\ channel \in {"grey-route", "10dlc", "toll-free"}
  /\ cached = "none"
  /\ located10 = Located
  /\ requested = [l \in Locations |-> IF l \in Located THEN 1 ELSE 0]
  /\ live10 \in [Locations -> 0..MaxNumbers]
  /\ \A l \in Locations \ Located : live10[l] = 0
  /\ creating = [l \in Locations |-> "no"]
  /\ mappedTo = NoLocation
  /\ kind = [m \in Outbound |-> "none"]
  /\ stage = [m \in Outbound |-> "new"]
  /\ goes = [m \in Outbound |-> 0]
  /\ chosen = [m \in Outbound |-> NoLocation]
  /\ routed10 = [m \in Outbound |-> NoLocation]
  /\ repeated10 = {} /\ overlapped = FALSE
  /\ channelFaults = 0

ChannelFault == /\ channelFaults < ChannelFaults
                /\ channelFaults' = channelFaults + 1

-----------------------------------------------------------------------------
\* An operator moves a grey-route profile to 10DLC; the cache forgets after
\* five minutes.
Register ==
  /\ channel = "grey-route"
  /\ channel' = "10dlc"
  /\ UNCHANGED <<cached, placeVars10, mappedTo, jobVars10, routed10, channelFaults>>

CacheExpires ==
  /\ cached # "none"
  /\ cached' = "none"
  /\ UNCHANGED <<channel, placeVars10, mappedTo, jobVars10, routed10, channelFaults>>

\* A number of a location goes live, or is released with the mapping to it.
NumberLive(l) ==
  /\ live10[l] < requested[l]
  /\ live10' = [live10 EXCEPT ![l] = @ + 1]
  /\ UNCHANGED <<profileVars, located10, requested, creating, overlapped, mappedTo,
                 jobVars10, routed10, channelFaults>>

NumberReleased(l) ==
  /\ live10[l] > 0
  /\ live10' = [live10 EXCEPT ![l] = @ - 1]
  /\ mappedTo' \in {mappedTo} \cup (IF mappedTo = l THEN {NoLocation} ELSE {})
  /\ live10[l] = 1 => mappedTo' # l
  /\ UNCHANGED <<profileVars, located10, requested, creating, overlapped,
                 jobVars10, routed10, channelFaults>>

-----------------------------------------------------------------------------
\* The limit is taken for the last number that is allowed.
CreateToLimit(l) ==
  /\ channel = "10dlc" /\ l \notin located10 /\ creating[l] = "no"
  /\ Total <= Limit
  /\ creating' = [creating EXCEPT ![l] = "counted"]
  /\ overlapped' = (overlapped \/ \E k \in Locations : creating[k] = "counted")
  /\ UNCHANGED <<profileVars, located10, requested, live10, mappedTo, jobVars10,
                 routed10, channelFaults>>

\* createSendingLocation of a 10DLC profile.  Its transaction counts what is
\* committed, inserts the location and its request, and commits; with the limit
\* reached everything is rolled back to the savepoint.
CreateSendingLocation(l) ==
  /\ channel = "10dlc" /\ l \notin located10 /\ creating[l] = "no"
  /\ Total < Limit
  /\ creating' = [creating EXCEPT ![l] = "counted"]
  /\ overlapped' = (overlapped \/ \E k \in Locations : creating[k] = "counted")
  /\ UNCHANGED <<profileVars, located10, requested, live10, mappedTo, jobVars10,
                 routed10, channelFaults>>

CommitCreate(l) ==
  /\ creating[l] = "counted"
  /\ creating' = [creating EXCEPT ![l] = "no"]
  /\ located10' = located10 \cup {l}
  /\ requested' = [requested EXCEPT ![l] = @ + 1]
  /\ UNCHANGED <<profileVars, live10, overlapped, mappedTo, jobVars10, routed10,
                 channelFaults>>

RollbackCreate(l) ==
  /\ creating[l] = "counted" /\ ChannelFault
  /\ creating' = [creating EXCEPT ![l] = "no"]
  /\ UNCHANGED <<profileVars, located10, requested, live10, overlapped, mappedTo,
                 jobVars10, routed10>>

-----------------------------------------------------------------------------
\* tg__trigger_process_message: the channel of the moment picks the job.
QueueMessage(m) ==
  /\ stage[m] = "new" /\ channel # "grey-route"
  /\ stage' = [stage EXCEPT ![m] = "queued"]
  /\ kind' = [kind EXCEPT ![m] = channel]
  /\ UNCHANGED <<profileVars, placeVars10, mappedTo, goes, chosen, repeated10,
                 routed10, channelFaults>>

Started(m, next) ==
  /\ stage[m] = "queued"
  /\ goes' = [goes EXCEPT ![m] = @ + 1]
  /\ stage' = [stage EXCEPT ![m] = next]

\* Another job reads the profile through the cache.
ReadProfile ==
  /\ cached = "none"
  /\ cached' = channel
  /\ UNCHANGED <<channel, placeVars10, mappedTo, jobVars10, routed10, channelFaults>>

\* The cached channel is checked before anything else.
CheckChannel(m) ==
  /\ kind[m] = "10dlc"
  /\ cached' = IF cached = "none" THEN channel ELSE cached
  /\ Started(m, IF cached' = "10dlc" THEN "mapping" ELSE "throws")
  /\ UNCHANGED <<channel, placeVars10, mappedTo, kind, chosen, repeated10, routed10,
                 channelFaults>>

\* getFromNumberMapping.  It passes over a mapping to a number that is cordoned
\* once neither was touched for three days, which is left open.
ReadMapping10(m) ==
  /\ stage[m] = "mapping"
  /\ \/ /\ mappedTo # NoLocation
        /\ chosen' = [chosen EXCEPT ![m] = mappedTo]
        /\ stage' = [stage EXCEPT ![m] = "insert"]
     \/ /\ stage' = [stage EXCEPT ![m] = "choose"]
        /\ UNCHANGED chosen
  /\ UNCHANGED <<profileVars, placeVars10, mappedTo, kind, goes, repeated10,
                 routed10, channelFaults>>

\* getNumberForSendingLocation takes the number of a location with just one; a
\* profile without a location has none to choose.
HasTheNumber(l) == live10[l] = 1

ChooseNumber(m) ==
  /\ stage[m] = "choose"
  /\ \/ \E l \in located10 :
          /\ HasTheNumber(l)
          /\ chosen' = [chosen EXCEPT ![m] = l]
          /\ stage' = [stage EXCEPT ![m] = "insert"]
     \/ /\ located10 = {} \/ \E l \in located10 : ~HasTheNumber(l)
        /\ stage' = [stage EXCEPT ![m] = "throws"]
        /\ UNCHANGED chosen
  /\ UNCHANGED <<profileVars, placeVars10, mappedTo, kind, goes, repeated10,
                 routed10, channelFaults>>

\* The row, once: a retry after a fault conflicts with the row there is.  The
\* trigger keeps the mapping there is.
InsertRow(m) ==
  /\ stage[m] = "insert"
  /\ IF routed10[m] = NoLocation
     THEN /\ routed10' = [routed10 EXCEPT ![m] = chosen[m]]
          /\ mappedTo' = IF mappedTo = NoLocation THEN chosen[m] ELSE mappedTo
          /\ stage' = [stage EXCEPT ![m] = "written"]
     ELSE /\ stage' = [stage EXCEPT ![m] = "throws"]
          /\ UNCHANGED <<routed10, mappedTo>>
  /\ UNCHANGED <<profileVars, placeVars10, kind, goes, chosen, repeated10,
                 channelFaults>>

\* sms.process_toll_free_message: one statement, any number of the profile, and
\* no mapping.
ProcessTollFree(m) ==
  /\ kind[m] = "toll-free"
  /\ \/ \E l \in located10 :
          /\ live10[l] > 0 /\ channel = "toll-free" /\ routed10[m] = NoLocation
          /\ routed10' = [routed10 EXCEPT ![m] = l]
          /\ Started(m, "written")
     \/ /\ \/ \A l \in located10 : live10[l] = 0
           \/ channel # "toll-free" \/ routed10[m] # NoLocation
        /\ Started(m, "throws")
        /\ UNCHANGED routed10
  /\ UNCHANGED <<profileVars, placeVars10, mappedTo, kind, chosen, repeated10,
                 channelFaults>>

\* The count of the processed messages is awaited, and fails.
StatsdThrows(m) ==
  /\ stage[m] = "written"
  /\ stage' = [stage EXCEPT ![m] = "throws"]
  /\ UNCHANGED <<profileVars, placeVars10, mappedTo, kind, goes, chosen, repeated10,
                 routed10, channelFaults>>

Finish10(m) ==
  /\ stage[m] = "written"
  /\ stage' = [stage EXCEPT ![m] = "done"]
  /\ UNCHANGED <<profileVars, placeVars10, mappedTo, kind, goes, chosen, repeated10,
                 routed10, channelFaults>>

Retry10(m) == stage' = [stage EXCEPT ![m] =
                          IF goes[m] = ChannelAttempts THEN "over" ELSE "queued"]

Rethrow(m) ==
  /\ stage[m] = "throws"
  /\ Retry10(m)
  /\ UNCHANGED <<profileVars, placeVars10, mappedTo, kind, goes, chosen, repeated10,
                 routed10, channelFaults>>

\* A statement fails or the worker dies.
Break10(m) ==
  /\ stage[m] \in {"mapping", "choose", "insert", "written"} /\ ChannelFault
  /\ repeated10' = IF stage[m] = "written" THEN repeated10 \cup {m} ELSE repeated10
  /\ Retry10(m)
  /\ UNCHANGED <<profileVars, placeVars10, mappedTo, kind, goes, chosen, routed10>>

ChannelStep(m) ==
  \/ CheckChannel(m) \/ ReadMapping10(m) \/ ChooseNumber(m) \/ InsertRow(m)
  \/ ProcessTollFree(m) \/ Finish10(m) \/ Rethrow(m)

ChannelsNext ==
  \/ Register \/ CacheExpires \/ ReadProfile
  \/ \E l \in Locations : \/ NumberLive(l) \/ NumberReleased(l)
                          \/ CreateSendingLocation(l)
                          \/ CommitCreate(l) \/ RollbackCreate(l)
  \/ \E m \in Outbound : QueueMessage(m) \/ ChannelStep(m) \/ Break10(m)

ChannelsSpec == ChannelsInit /\ [][ChannelsNext]_channelVars

-----------------------------------------------------------------------------
(* Shape of the state of the two jobs and of createSendingLocation. *)
ChannelsTypeOK ==
  /\ channel \in {"grey-route", "10dlc", "toll-free"}
  /\ cached \in {"none", "grey-route", "10dlc", "toll-free"}
  /\ located10 \subseteq Locations
  /\ requested \in [Locations -> Nat]
  /\ live10 \in [Locations -> 0..MaxNumbers]
  /\ creating \in [Locations -> {"no", "counted"}]
  /\ mappedTo \in Locations \cup {NoLocation}
  /\ kind \in [Outbound -> {"none", "10dlc", "toll-free"}]
  /\ stage \in [Outbound -> {"new", "queued", "mapping", "choose", "insert", "written",
                            "throws", "done", "over"}]
  /\ goes \in [Outbound -> 0..ChannelAttempts]
  /\ chosen \in [Outbound -> Locations \cup {NoLocation}]
  /\ routed10 \in [Outbound -> Locations \cup {NoLocation}]
  /\ repeated10 \subseteq Outbound /\ overlapped \in BOOLEAN
  /\ channelFaults \in 0..ChannelFaults

(* A location of a 10DLC profile is committed with its request or not at all:
   what fails after the insert of the location rolls it back. *)
LocationHasRequest == \A l \in located10 : requested[l] > 0

(* A job that gives up has not routed its message, unless it failed after the
   insert: the conflict with the row it wrote then uses up its attempts. *)
OverNotRouted ==
  \A m \in Outbound \ repeated10 : stage[m] = "over" => routed10[m] = NoLocation

(* How far a message has come, as its sender sees it.  One that is done without
   a row would have been lost; one given up after a fault that followed its
   insert is routed all the same. *)
Progress10(m) ==
  IF stage[m] = "new" THEN "new"
  ELSE IF stage[m] = "over" /\ m \notin repeated10 THEN "abandoned"
  ELSE IF routed10[m] # NoLocation THEN "routed"
  ELSE IF stage[m] = "done" THEN "lost" ELSE "processing"

Lifecycle10 == INSTANCE MessageLifecycle WITH
  Messages <- Outbound, Senders <- Locations, NoSender <- NoLocation,
  status <- [m \in Outbound |-> Progress10(m)], from <- routed10

(* Registered traffic keeps the promise of grey-route messages, without a wait:
   a message is routed to one location, once and for good, whatever fails and is
   retried; a job is not done before that; and only a message that was not
   routed is given up, unless a fault came after the insert of its row: the
   conflict with that row then uses up its attempts. *)
ChannelsImplementLifecycle == Lifecycle10!Spec

(* The number requests of a 10DLC profile do not pass the limit, as long as its
   locations are created one at a time; one that had more when it was registered
   gets none. *)
LimitKeptAlone == ~overlapped => Total <= Limit \/ Total = Cardinality(Located)

(* Locations are added whole and within the limit of the campaign: a throw
   after the insert leaves no location without its number, and transactions one
   after the other do not pass the limit. *)
LocationsWithinLimit == LocationHasRequest /\ LimitKeptAlone
=============================================================================
