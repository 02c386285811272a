----------------------------- MODULE AreaCodes -----------------------------
(***************************************************************************)
(* The area codes a sending location buys numbers in, and what is believed *)
(* of them: the job that searches codes by distance, first in the state of *)
(* the location and then in the others, the estimates of a code's          *)
(* capacity, and the purchases that count it down and ask for new ones.    *)
(*                                                                         *)
(* Every estimate is a telco's answer of an earlier moment: purchases and  *)
(* other jobs come between the answer and its upsert.                      *)
(***************************************************************************)
EXTENDS Integers, Sequences, FiniteSets, Functions

CONSTANTS
  Near, Far,      \* the codes of the state and of the others, by distance
  Prefilled,      \* those of the location's own zip code, known from the start
  MaxSearches,    \* find-suitable-area-codes jobs (bound)
  Strategy,       \* purchasing_strategy of the location
  MinSuitable,    \* config.minSuitableNumbers
  RefreshEvery,   \* purchases of a code between two estimates (5)
  MaxStock,       \* numbers of a code the telco has (bound)
  FindAttempts,   \* max_attempts of the jobs (5, or 25)
  AreaFaults,     \* bound on failing calls and statements
  Unestimated     \* no row in sms.area_code_capacities

NearCodes == Range(Near)
Codes == NearCodes \cup Range(Far)
Searches == 1..MaxSearches

ASSUME AreaCodesAssumption ==
  /\ Near \in Seq(NearCodes) /\ Far \in Seq(Range(Far))
  /\ NearCodes \cap Range(Far) = {} /\ Prefilled \subseteq NearCodes
  /\ Strategy \in {"exact-area-codes", "same-state-by-distance"}
  /\ MaxSearches \in Nat /\ MinSuitable \in Nat /\ RefreshEvery \in Nat \ {0} /\ MaxStock \in Nat
  /\ FindAttempts \in Nat \ {0} /\ AreaFaults \in Nat
  /\ Unestimated \notin Int

VARIABLES
  \* numbers the telco has of a code
  stocked,
  \* sms.sending_locations.area_codes, sms.area_code_capacities.capacity
  areaCodes, capacity,
  \* a search: its job, attempts, and the variables of its loop
  search, searches, sameState, offset, toUse, numbersFound, answer,
  \* estimate-area-code-capacity jobs: the code and the telco's answer, or
  \* Unestimated before it is asked; two that wait for one code are one
  estimates,
  \* codes of requests that wait for their number
  buying,
  \* history: codes a search asked about in this attempt; purchases of a code
  \* since an estimate of it was asked for, or one was written that was up to
  \* date, and the estimates written since then that were not
  asked, unseen, overwritten,
  \* bound
  areaFaults

areaVars ==
  <<stocked, areaCodes, capacity, search, searches, sameState, offset, toUse,
    numbersFound, answer, estimates, buying, asked, unseen, overwritten, areaFaults>>
loopVars == <<sameState, offset, toUse, numbersFound, answer, asked>>
beliefVars == <<unseen, overwritten>>

NewEstimates(cs) == cs \X {Unestimated}

\* The insert of the location queued the first search, or its estimates.
AreaCodesInit ==
  /\ stocked \in [Codes -> {0, MaxStock}]
  /\ areaCodes = Prefilled
  /\ capacity = [c \in Codes |-> Unestimated]
  /\ IF Strategy = "same-state-by-distance"
     THEN /\ search = [f \in Searches |-> IF f = 1 THEN "queued" ELSE "none"]
          /\ estimates = {}
     ELSE /\ search = [f \in Searches |-> "none"]
          /\ estimates = NewEstimates(Prefilled)
  /\ searches = [f \in Searches |-> 0]
  /\ sameState = [f \in Searches |-> TRUE]
  /\ offset = [f \in Searches |-> 0]
  /\ toUse = [f \in Searches |-> {}]
  /\ numbersFound = [f \in Searches |-> 0]
  /\ answer = [f \in Searches |-> 0]
  /\ buying = {}
  /\ asked = [f \in Searches |-> {}]
  /\ unseen = [c \in Codes |-> 0]
  /\ overwritten = [c \in Codes |-> 0]
  /\ areaFaults = 0

AreaFault == /\ areaFaults < AreaFaults
             /\ areaFaults' = areaFaults + 1

\* persistCapacity, of an answer that purchases may have overtaken.
Renewed(c) == /\ unseen' = [unseen EXCEPT ![c] = 0]
              /\ overwritten' = [overwritten EXCEPT ![c] = 0]

PersistCapacity(c, n) ==
  /\ capacity' = [capacity EXCEPT ![c] = n]
  /\ IF n = stocked[c]
     THEN Renewed(c)
     ELSE overwritten' = [overwritten EXCEPT ![c] = @ + 1] /\ UNCHANGED unseen

-----------------------------------------------------------------------------
\* An attempt of the job starts from nothing: what an earlier one saved stays
\* in the table until this one saves.
StartSearch(f) ==
  /\ search[f] = "queued"
  /\ search' = [search EXCEPT ![f] = "look"]
  /\ searches' = [searches EXCEPT ![f] = @ + 1]
  /\ sameState' = [sameState EXCEPT ![f] = TRUE]
  /\ offset' = [offset EXCEPT ![f] = 0]
  /\ toUse' = [toUse EXCEPT ![f] = {}]
  /\ numbersFound' = [numbersFound EXCEPT ![f] = 0]
  /\ asked' = [asked EXCEPT ![f] = {}]
  /\ UNCHANGED <<stocked, areaCodes, capacity, answer, estimates, buying, beliefVars,
                 areaFaults>>

\* findCandidateAreaCode.
Candidates(f) == IF sameState[f] THEN Near ELSE Far
HasCandidate(f) == offset[f] < Len(Candidates(f))
Candidate(f) == Candidates(f)[offset[f] + 1]
Looking(f) == search[f] = "look" /\ numbersFound[f] < MinSuitable

Ask(f) ==
  /\ Looking(f) /\ HasCandidate(f)
  /\ answer' = [answer EXCEPT ![f] = stocked[Candidate(f)]]
  /\ asked' = [asked EXCEPT ![f] = @ \cup {Candidate(f)}]
  /\ search' = [search EXCEPT ![f] = "persist"]
  /\ UNCHANGED <<stocked, areaCodes, capacity, searches, sameState, offset, toUse,
                 numbersFound, estimates, buying, beliefVars, areaFaults>>

\* A code without numbers leaves no row behind, and keeps the one it had.
PersistFound(f) ==
  /\ search[f] = "persist"
  /\ IF answer[f] > 0
     THEN /\ toUse' = [toUse EXCEPT ![f] = @ \cup {Candidate(f)}]
          /\ numbersFound' = [numbersFound EXCEPT ![f] = @ + answer[f]]
          /\ PersistCapacity(Candidate(f), answer[f])
     ELSE UNCHANGED <<toUse, numbersFound, capacity, beliefVars>>
  /\ search' = [search EXCEPT ![f] = "save"]
  /\ UNCHANGED <<stocked, areaCodes, searches, sameState, offset, answer, asked,
                 estimates, buying, areaFaults>>

\* The list so far replaces the list in the table, even when it is empty.
SaveResults(f) == areaCodes' = toUse[f]

NextOffset(f) == [offset EXCEPT ![f] = @ + 1]

SaveFound(f) ==
  /\ search[f] = "save"
  /\ SaveResults(f)
  /\ offset' = NextOffset(f)
  /\ search' = [search EXCEPT ![f] = "look"]
  /\ UNCHANGED <<stocked, capacity, searches, sameState, toUse, numbersFound, answer,
                 asked, estimates, buying, beliefVars, areaFaults>>

\* The state has no more codes: the others are searched from the nearest.
FromHere(f) == offset
FromNearest(f) == [offset EXCEPT ![f] = 0]

OtherStates(f) ==
  /\ Looking(f) /\ ~HasCandidate(f) /\ sameState[f]
  /\ sameState' = [sameState EXCEPT ![f] = FALSE]
  /\ offset' = FromNearest(f)
  /\ UNCHANGED <<stocked, areaCodes, capacity, search, searches, toUse, numbersFound,
                 answer, asked, estimates, buying, beliefVars, areaFaults>>

NotEnough(f) ==
  /\ Looking(f) /\ ~HasCandidate(f) /\ ~sameState[f]
  /\ SaveResults(f)
  /\ search' = [search EXCEPT ![f] = "done"]
  /\ UNCHANGED <<stocked, capacity, searches, loopVars, estimates, buying, beliefVars,
                 areaFaults>>

Enough(f) ==
  /\ search[f] = "look" /\ numbersFound[f] >= MinSuitable
  /\ search' = [search EXCEPT ![f] = "done"]
  /\ UNCHANGED <<stocked, areaCodes, capacity, searches, loopVars, estimates, buying,
                 beliefVars, areaFaults>>

\* A call or a statement fails: the job throws.
BreakSearch(f) ==
  /\ search[f] \in {"look", "persist", "save"} /\ AreaFault
  /\ search' = [search EXCEPT ![f] =
                  IF searches[f] = FindAttempts THEN "over" ELSE "queued"]
  /\ UNCHANGED <<stocked, areaCodes, capacity, searches, loopVars, estimates, buying,
                 beliefVars>>

SearchStep(f) == \/ StartSearch(f) \/ Ask(f) \/ PersistFound(f) \/ SaveFound(f)
                 \/ OtherStates(f) \/ NotEnough(f) \/ Enough(f)

-----------------------------------------------------------------------------
\* estimate-area-code-capacity.
AskEstimate(c) ==
  /\ <<c, Unestimated>> \in estimates
  /\ estimates' = (estimates \ {<<c, Unestimated>>}) \cup {<<c, stocked[c]>>}
  /\ UNCHANGED <<stocked, areaCodes, capacity, search, searches, loopVars, buying,
                 beliefVars, areaFaults>>

WriteEstimate(c) ==
  /\ \E e \in estimates : /\ e[1] = c /\ e[2] # Unestimated
                          /\ estimates' = estimates \ {e}
                          /\ PersistCapacity(c, e[2])
  /\ UNCHANGED <<stocked, areaCodes, search, searches, loopVars, buying, areaFaults>>

\* A call or a statement fails.  The attempts that follow ask again for every
\* code of the job, which may be all the codes of the location, while answers of
\* this one are still to be written; or the job had its last attempt.
BreakEstimate(c) ==
  /\ AreaFault
  /\ \E e \in estimates, cs \in {{}, {c}, Prefilled} :
       /\ e[1] = c
       /\ cs = {} \/ c \in cs
       /\ estimates' = (estimates \ {e}) \cup NewEstimates(cs)
  /\ UNCHANGED <<stocked, areaCodes, capacity, search, searches, loopVars, buying,
                 beliefVars>>

-----------------------------------------------------------------------------
\* choose_area_code_for_sending_location: SQL puts nulls first in a descending
\* order, so a code that was never estimated comes before the others.
Most(c) == \A d \in areaCodes : \/ capacity[c] = Unestimated
                                \/ capacity[d] # Unestimated /\ capacity[d] <= capacity[c]

RequestNumber(c) ==
  /\ c \in areaCodes /\ Most(c) /\ c \notin buying
  /\ buying' = buying \cup {c}
  /\ UNCHANGED <<stocked, areaCodes, capacity, search, searches, loopVars,
                 estimates, beliefVars, areaFaults>>

\* tg__phone_number_requests__fulfill.
AtZero(n) == n = 0
Refreshes(n) == n % RefreshEvery = 0

NewSearch == \E f \in Searches :
  /\ search[f] = "none" /\ \A g \in 1..(f - 1) : search[g] # "none"
  /\ search' = [search EXCEPT ![f] = "queued"]

QueueRefresh(c) ==
  IF Strategy = "exact-area-codes"
  THEN estimates' = estimates \cup NewEstimates({c}) /\ UNCHANGED search
  ELSE NewSearch /\ UNCHANGED estimates

Fulfill(c) ==
  /\ c \in buying /\ stocked[c] > 0
  /\ buying' = buying \ {c}
  /\ stocked' = [stocked EXCEPT ![c] = @ - 1]
  /\ IF capacity[c] = Unestimated
     THEN UNCHANGED <<capacity, beliefVars, search, estimates>>
     ELSE /\ capacity' = [capacity EXCEPT ![c] = @ - 1]
          /\ IF Refreshes(capacity[c] - 1)
             THEN QueueRefresh(c) /\ Renewed(c)
             ELSE /\ unseen' = [unseen EXCEPT ![c] = @ + 1]
                  /\ UNCHANGED <<overwritten, search, estimates>>
  /\ UNCHANGED <<areaCodes, searches, loopVars, areaFaults>>

\* The request's job is parked.
GiveUp(c) ==
  /\ c \in buying /\ stocked[c] = 0
  /\ buying' = buying \ {c}
  /\ UNCHANGED <<stocked, areaCodes, capacity, search, searches, loopVars,
                 estimates, beliefVars, areaFaults>>

AreaCodesNext ==
  \/ \E f \in Searches : SearchStep(f) \/ BreakSearch(f)
  \/ \E c \in Codes : AskEstimate(c) \/ WriteEstimate(c) \/ BreakEstimate(c)
                      \/ RequestNumber(c) \/ Fulfill(c) \/ GiveUp(c)

AreaCodesSpec == AreaCodesInit /\ [][AreaCodesNext]_areaVars

-----------------------------------------------------------------------------
(* Shape of the state of the search, the estimates and the requests. *)
AreaCodesTypeOK ==
  /\ stocked \in [Codes -> 0..MaxStock]
  /\ areaCodes \subseteq Codes /\ buying \subseteq Codes
  /\ capacity \in [Codes -> Int \cup {Unestimated}]
  /\ unseen \in [Codes -> Nat] /\ overwritten \in [Codes -> Nat]
  /\ search \in [Searches -> {"none", "queued", "look", "persist", "save", "done",
                              "over"}]
  /\ searches \in [Searches -> 0..FindAttempts]
  /\ sameState \in [Searches -> BOOLEAN]
  /\ offset \in [Searches -> Nat] /\ \A f \in Searches : offset[f] <= Len(Candidates(f))
  /\ asked \in [Searches -> SUBSET Codes]
  /\ toUse \in [Searches -> SUBSET Codes] /\ \A f \in Searches : toUse[f] \subseteq asked[f]
  /\ numbersFound \in [Searches -> Nat] /\ answer \in [Searches -> 0..MaxStock]
  /\ estimates \subseteq Codes \X ((0..MaxStock) \cup {Unestimated})
  /\ areaFaults \in 0..AreaFaults

(* A search goes to the other states only when it asked about every code of
   its own and did not find enough numbers there. *)
NearFirst ==
  \A f \in Searches : asked[f] \cap Range(Far) # {} => NearCodes \subseteq asked[f]

(* A search ends well only with enough numbers, or after it asked about every
   code there is: it does not skip the nearest codes of the other states. *)
EnoughOrAllAsked ==
  \A f \in Searches : search[f] = "done" =>
    numbersFound[f] >= MinSuitable \/ asked[f] = Codes

(* A search goes outward: no code is passed over while the numbers of nearer
   ones do not suffice (find-suitable-area-codes). *)
SearchOutward == NearFirst /\ EnoughOrAllAsked

(* A code is not bought from without end on an old belief: at most
   RefreshEvery - 1 purchases pass before a new estimate is asked for, and as
   many again for each estimate that was written in between although purchases
   had overtaken it, for that sets the count back
   (tg__phone_number_requests__fulfill, persistCapacity). *)
BeliefRefreshed ==
  \A c \in Codes : unseen[c] <= (RefreshEvery - 1) * (1 + overwritten[c])
=============================================================================
