----------------------------- MODULE MCPlatform -----------------------------
(* Instances for TLC of the components that share the database and the queue
   with routing and purchase, but none of their tables with one another.  Each
   behaviour is one of "part"; the other components rest in a state in which
   nothing of theirs is due, so that the run explores the sum of the parts and
   not their product.  Some components have several parts:
     faults, tagged, overlap     MessageDelivery: errors and a crash anywhere
                                 and one batch at a time; the same with reports
                                 that name their message; two batches, repeated
                                 posts and a rollback
     twilio, bandwidth, mappings NumberRetirement: two rows of one number that
                                 is sold, with faults and no messages; messages
                                 of a contact between two numbers that are
                                 cordoned and released, without faults
     search, exact               AreaCodes: the two strategies *)
EXTENDS MessageDelivery, NumberRetirement, InboundMessages, MessageChannels,
        Lookups, AreaCodes, Hydration, UsageRollups, Registration, TLC

CONSTANTS Parts, b1, b2, r1, r2, r3, p1, p2, l1, l2, a1, a2, a3
VARIABLE part

PhonesOfRows == r1 :> p1 @@ r2 :> p1 @@ r3 :> p2
PlacesOfRows == r1 :> l1 @@ r2 :> l2 @@ r3 :> l1
NearHere == <<a1, a2>>
FarFromHere == <<a3>>

Faults == INSTANCE MessageDelivery WITH
  Service <- "telnyx", Copies <- 1, Events <- {"sent", "delivered"}
TaggedReports == INSTANCE MessageDelivery WITH
  Service <- "bandwidth", Copies <- 1, Events <- {"delivered", "unknown"}
Overlap == INSTANCE MessageDelivery WITH
  Service <- "twilio", Events <- {"delivered"},
  MaxAttempts <- 1, ForwardAttempts <- 1, OwnAttempts <- 1, MaxErrors <- 0
Bandwidth == INSTANCE NumberRetirement WITH Seller <- "bandwidth"
Mappings == INSTANCE NumberRetirement WITH
  SellAttempts <- 1, SaleErrors <- 0, SaleCrashes <- 0
Search == INSTANCE AreaCodes WITH
  Strategy <- "same-state-by-distance", MaxStock <- 2
Exact == INSTANCE AreaCodes WITH Strategy <- "exact-area-codes"

platformVars ==
  <<part, vars, retirementVars, inboundVars, channelVars, lookupVars, areaVars,
    hydrationVars, usageVars, registrationVars>>

DeliveryParts == {"faults", "tagged", "overlap", "delivery"}

-----------------------------------------------------------------------------
\* A component that rests has one initial state, and nothing due.
PlatformInit ==
  /\ part \in Parts
  /\ IF part \in {"tagged", "overlap"}
     THEN TaggedReports!Init
     ELSE Faults!Init
  /\ part \notin DeliveryParts => numberKnown
  /\ RetirementInit
  /\ InboundInit
  /\ ChannelsInit
  /\ part # "channels" => channel = "toll-free" /\ \A l \in Locations : live10[l] = 0
  /\ LookupsInit
  /\ IF part = "search"
     THEN Search!AreaCodesInit
     ELSE Exact!AreaCodesInit
  /\ part \notin {"search", "exact"} => \A c \in Codes : stocked[c] = 0
  /\ HydrationInit
  /\ UsageInit
  /\ RegistrationInit

DeliveryNext ==
  \/ part = "faults" /\ Faults!Next
  \/ part = "tagged" /\ TaggedReports!Next
  \/ part = "overlap" /\ Overlap!Next
  \/ part = "delivery" /\ Next

Selling == \/ \E l \in Places : Decomission(l) \/ NoticeChange(l)
           \/ \E r \in Rows : Cordon(r)
           \/ SellCordonedNumbers

SalesNext ==
  \/ part = "twilio" /\ (Selling \/ \E r \in Rows : NumberStep(r))
  \/ part = "bandwidth" /\ (Selling \/ \E r \in Rows : Bandwidth!NumberStep(r))
  \/ part = "mappings" /\ Mappings!RetirementNext

PlatformNext ==
  /\ UNCHANGED part
  /\ IF part \in DeliveryParts THEN DeliveryNext ELSE UNCHANGED vars
  /\ IF part \in {"twilio", "bandwidth", "mappings"}
     THEN SalesNext ELSE UNCHANGED retirementVars
  /\ IF part = "inbound" THEN InboundNext ELSE UNCHANGED inboundVars
  /\ IF part = "channels" THEN ChannelsNext ELSE UNCHANGED channelVars
  /\ IF part = "lookups" THEN LookupsNext ELSE UNCHANGED lookupVars
  /\ CASE part = "search" -> Search!AreaCodesNext
       [] part = "exact" -> Exact!AreaCodesNext
       [] OTHER -> UNCHANGED areaVars
  /\ IF part = "hydration" THEN HydrationNext ELSE UNCHANGED hydrationVars
  /\ IF part = "usage" THEN UsageNext ELSE UNCHANGED usageVars
  /\ IF part = "registration" THEN RegistrationNext ELSE UNCHANGED registrationVars

\* Bounds of the parts, on the state a step reaches.
SalesWithin ==
  /\ part \in {"twilio", "bandwidth"} => phase[r3] = "absent" /\ listed = {}
  /\ part = "mappings" => /\ phase[r2] = "absent" /\ gone = {} /\ sold = {}
                          /\ \A r \in Rows : job[r] \in {"none", "queued"}

Within ==
  /\ part \in {"faults", "tagged"} => snap[b2] = {}
  /\ SalesWithin
  /\ part = "channels" => \/ Cardinality({l \in Locations : requested[l] > 0
                                                 \/ creating[l] = "counted"}) + channelFaults <= 2
                          \/ \A m \in Outbound : stage[m] = "new"
  /\ part = "lookups" => \/ raced = {}
                        \/ lookupFaults <= Cardinality({n \in Numbers : http[n] = "hung"})
  /\ part = "search" => Cardinality(buying) + areaFaults <= 1
  /\ part = "hydration" => flushed + hydrationFaults <= 1
  /\ part = "usage" => \/ accesses = {}
                        \/ \A u \in Usages : createdAt[u] = NotYet /\ sentAt[u] = NotYet

PlatformSpec == PlatformInit /\ [][PlatformNext /\ Within']_platformVars

PlatformFairness ==
  /\ Fairness /\ RetirementFairness /\ InboundFairness
  /\ HydrationFairness /\ RegistrationFairness

FairPlatformSpec == PlatformSpec /\ PlatformFairness
=============================================================================
