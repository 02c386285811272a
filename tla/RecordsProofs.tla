--------------------------- MODULE RecordsProofs ---------------------------
(***************************************************************************)
(* What the stores beside the message queues promise, for every number of  *)
(* processes, requests and hours: the Redis indexes of a profile           *)
(* (Hydration), the carrier data of a number (Lookups) and the usage that  *)
(* is billed (UsageRollups).                                               *)
(***************************************************************************)
EXTENDS Hydration, Lookups, UsageRollups, TLAPS, FiniteSetTheorems

\* Until a lock times out under its holder, who is inside it holds it.
HydratesLocked ==
  ~torn => \A p \in InLock : lock = p /\ p \notin timedOut

\* Each hydration begun had a reason, and one that is still due has another.
ReasonLeft ==
  ~torn => \/ begun < reasons
           \/ begun = reasons /\ (isHydrated \/ \E p \in Procs : at[p] = "load")

\* Indexes are loaded inside the lock, by a call that found none hydrated.
LoadsInLock ==
  /\ \A p \in Procs : toLoad[p] # {} => at[p] = "load"
  /\ ~torn => \A p \in Procs : at[p] = "load" => ~isHydrated

\* How far the indexes of a hydration under way, and of one that ended, are
\* loaded.
LoadedSoFar ==
  ~torn => /\ isHydrated => loaded = Indexes
           /\ \A p \in Procs :
                /\ at[p] = "load" => Indexes \ toLoad[p] \subseteq loaded
                /\ at[p] \in {"unlock", "listen", "read"} => loaded = Indexes

HydrationInv ==
  HydrationTypeOK /\ HydratesLocked /\ ReasonLeft /\ LoadsInLock /\ LoadedSoFar

\* A job was queued for the access and has not stored an answer.
Pending(a) == lookup[a] \in {"queued", "fetching", "answered", "over"}

\* An access waits for its own job, and one that is done, or is inserted as
\* done, has its data or rests on a job of its number.
WaitsForOwnJob ==
  \A a \in Accesses : access[a] \in {"waiting", "fetching"} => Pending(a)
RestsOn(n) == n \in known \/ \E a \in Of(n) : Pending(a)
RestOnLookups ==
  \A a \in Accesses : access[a] = "done" \/ inserting[a] = "done" => RestsOn(a[2])

\* The access added a lookup job, or is about to.
HasJob(a) == inserting[a] = "job" \/ lookup[a] # "none"

\* No two accesses of a number have a job, unless it raced; what was paid was
\* lost, but for the answer that waits to be stored or was.
OneJobOf(n) ==
  /\ \A a, b \in Of(n) : HasJob(a) /\ HasJob(b) => a = b
  /\ \A a \in Of(n) : inserting[a] = "job" => paid[n] = unstored[n] /\ a[1] # Http
  /\ \A a \in Of(n) : Pending(a) => access[a] \in {"waiting", "fetching"}
  /\ \A a \in Of(n) : Pending(a) /\ lookup[a] # "answered" => paid[n] = unstored[n]
  /\ \A a \in Of(n) : lookup[a] = "answered" => paid[n] = unstored[n] + 1
  /\ \A a \in Of(n) : lookup[a] = "done" => n \in fresh
  /\ \/ paid[n] = unstored[n]
     \/ /\ paid[n] = unstored[n] + 1
        /\ n \in fresh \/ \E a \in Of(n) : lookup[a] = "answered"
  /\ http[n] \in {"idle", "told"} \/ (http[n] = "access" /\ n \in fresh)
OneJobUnlessRaced == \A n \in Numbers \ raced : OneJobOf(n)

\* A job is added once for an access, one that is queued has an attempt left, and
\* one that is over had them all.
TriesLeft ==
  /\ \A a \in Accesses :
       /\ access[a] = "none" \/ inserting[a] # "no" => lookup[a] = "none"
       /\ lookup[a] = "none" => lookupTries[a] = 0
       /\ lookup[a] = "queued" => lookupTries[a] < LookupAttempts
       /\ lookup[a] = "over" => lookupTries[a] = LookupAttempts
  /\ \A n \in Numbers : http[n] \in {"idle", "both", "access"} =>
                          inserting[<<Http, n>>] = "no" /\ lookup[<<Http, n>>] = "none"

LookupsInv ==
  LookupsTypeOK /\ TriesLeft /\ WaitsForOwnJob /\ RestOnLookups /\ OneJobUnlessRaced

\* A row is of a message that was stamped, and of one to send that was created
\* and routed before.
InsertedStamped ==
  /\ \A u \in inserted : sentAt[u] # NotYet
  /\ \A u \in Usages :
       u \notin Inbound => /\ sentAt[u] # NotYet => processedAt[u] # NotYet
                           /\ processedAt[u] # NotYet => createdAt[u] # NotYet

\* The hours of a message's stamps are in the order of its steps.
StampsInOrder ==
  \A u \in Usages :
    /\ {createdAt[u], processedAt[u], sentAt[u]} \subseteq 0..now \cup {NotYet}
    /\ u \notin Inbound /\ processedAt[u] # NotYet => createdAt[u] <= processedAt[u]
    /\ u \notin Inbound /\ sentAt[u] # NotYet => processedAt[u] <= sentAt[u]

\* Only an hour that was rolled up has rollups.
RolledUp == \A h \in Hours : h \notin ran => counted[h] = {} /\ billed[h] = {}

\* A message is counted in the hour it is stamped with.
CountedInItsHour ==
  \A u \in Usages \ moved : \A h \in Hours : u \in counted[h] => sentAt[u] = h

\* A number is billed in the first hour anyone looked it up.
BilledFirst ==
  \A h \in Hours : \A b \in billed[h] :
    /\ \E p \in accesses : p[2] = b[2] /\ p[3] = h
    /\ \A p \in accesses : p[2] = b[2] => p[3] >= h

UsageInv == /\ UsageTypeOK /\ InsertedStamped /\ StampsInOrder /\ RolledUp
            /\ CountedInItsHour /\ CountedUnlessLate /\ BilledFirst

-----------------------------------------------------------------------------
(* Hydration. *)

LEMMA HydrationStarts == HydrationInit => HydrationInv
<1> SUFFICES ASSUME HydrationInit PROVE HydrationInv
  OBVIOUS
<1>1. isHydrated = FALSE /\ torn = FALSE
  BY DEF HydrationInit
<1>2. HydrationTypeOK
  BY <1>1, HydrationAssumption DEF HydrationInit, HydrationTypeOK
<1> QED
  BY <1>1, <1>2
  DEF HydrationInit, HydrationInv, HydratesLocked, ReasonLeft, LoadsInLock, LoadedSoFar,
        InLock

LEMMA HydrationStep == HydrationInv /\ [HydrationNext]_hydrationVars => HydrationInv'
<1> SUFFICES ASSUME HydrationInv, [HydrationNext]_hydrationVars PROVE HydrationInv'
  OBVIOUS
<1> USE HydrationAssumption
    DEF HydrationInv, HydrationTypeOK, HydratesLocked, ReasonLeft, LoadsInLock, LoadedSoFar,
        InLock,
        Goes, historyVars, hydrationBounds
<1>1. ASSUME NEW p \in Procs, Call(p) PROVE HydrationInv'
  BY <1>1 DEF Call
<1>2. ASSUME NEW p \in Procs, CheckIfHydrated(p) PROVE HydrationInv'
  BY <1>2 DEF CheckIfHydrated
<1>3. ASSUME NEW p \in Procs, GetLock(p) PROVE HydrationInv'
  BY <1>3 DEF GetLock
<1>4. ASSUME NEW p \in Procs, Recheck(p) PROVE HydrationInv'
  BY <1>4 DEF Recheck
<1>5. ASSUME NEW p \in Procs, NEW i \in Indexes, Load(p, i) PROVE HydrationInv'
  BY <1>5 DEF Load
<1>6. ASSUME NEW p \in Procs, RecordHydrationComplete(p) PROVE HydrationInv'
  BY <1>6 DEF RecordHydrationComplete
<1>7. ASSUME NEW p \in Procs, Unlock(p) PROVE HydrationInv'
  BY <1>7 DEF Unlock, AfterUnlock
<1>8. ASSUME NEW p \in Procs, EnsureAllHandlers(p) PROVE HydrationInv'
  BY <1>8 DEF EnsureAllHandlers
<1>9. ASSUME NEW p \in Procs, ReadIndex(p) PROVE HydrationInv'
  BY <1>9 DEF ReadIndex
<1>10. ASSUME NEW p \in Procs, LoadFails(p) PROVE HydrationInv'
  BY <1>10 DEF LoadFails, HydrationFault
<1>11. ASSUME NEW p \in Procs, Rehydrate(p) PROVE HydrationInv'
  <2>1. /\ isHydrated' = FALSE /\ reasons' = reasons + 1
        /\ UNCHANGED <<loaded, lock, at, toLoad, strays, timedOut, listeners, torn, begun,
                       flushed, hydrationFaults>>
        /\ rehydrations' = rehydrations + 1
    BY <1>11 DEF Rehydrate
  <2>2. HydrationTypeOK'
    <3>1. isHydrated' \in BOOLEAN
      BY <2>1
    <3> QED
      BY <2>1, <3>1
  <2>3. HydratesLocked' /\ ReasonLeft' /\ LoadsInLock' /\ LoadedSoFar'
    BY <2>1
  <2> QED
    BY <2>2, <2>3
<1>12. ASSUME NEW p \in Procs, Restart(p) PROVE HydrationInv'
  BY <1>12 DEF Restart, HydrationFault
<1>13. CASE LockExpires
  BY <1>13 DEF LockExpires
<1>14. CASE ResetAllHydrationState
  <2>1. /\ isHydrated' = FALSE /\ loaded' = {} /\ lock' = Nobody
        /\ flushed' = flushed + 1 /\ reasons' = reasons + 1
        /\ torn' = (torn \/ \E p \in Procs : at[p] \notin {"idle", "check"})
        /\ UNCHANGED <<at, toLoad, strays, timedOut, listeners, begun, rehydrations,
                       hydrationFaults>>
    BY <1>14 DEF ResetAllHydrationState
  <2>2. HydrationTypeOK'
    <3>1. isHydrated' \in BOOLEAN
      BY <2>1
    <3>2. torn' \in BOOLEAN
      BY <2>1
    <3> QED
      BY <2>1, <3>1, <3>2
  <2>3. ~torn' => ~torn /\ \A p \in Procs : at[p] \in {"idle", "check"}
    BY <2>1
  <2>4. HydratesLocked' /\ LoadsInLock' /\ LoadedSoFar'
    BY <2>1, <2>3
  <2>5. ReasonLeft'
    BY <2>1, <2>3
  <2> QED
    BY <2>2, <2>4, <2>5
<1>16. ASSUME NEW p \in Procs, NEW i \in Indexes, StrayEnds(p, i) PROVE HydrationInv'
  BY <1>16 DEF StrayEnds
<1>15. CASE UNCHANGED hydrationVars
  BY <1>15 DEF hydrationVars
<1> QED
  BY <1>1, <1>2, <1>3, <1>4, <1>5, <1>6, <1>7, <1>8, <1>9, <1>10, <1>11, <1>12, <1>13, <1>14, <1>15,
     <1>16
  DEF HydrationNext, CallStep

LEMMA OneHydratesFrom == HydrationInv => OneHydrates
<1> SUFFICES ASSUME HydrationInv, ~torn PROVE Cardinality(InLock) <= 1
  BY DEF OneHydrates, HydrationInv, LoadsInLock, InLock
<1>1. \A p \in InLock : p = lock
  BY DEF HydrationInv, HydratesLocked
<1>2. InLock = {} \/ InLock = {lock}
  BY <1>1
<1>3. Cardinality({}) = 0 /\ Cardinality({lock}) = 1
  BY FS_EmptySet, FS_Singleton
<1> QED
  BY <1>2, <1>3

(* The calls of every process, the lock and the marks in Redis have their shape
   (ensureHydratedRedisForProfile). *)
THEOREM HydrationTypeCorrect == HydrationSpec => []HydrationTypeOK
<1>1. HydrationInv => HydrationTypeOK
  BY DEF HydrationInv
<1> QED
  BY <1>1, HydrationStarts, HydrationStep, PTL DEF HydrationSpec

(* One call at a time is inside the lock, only there are indexes loaded, while
   the profile does not count as hydrated, none hydrates it without a reason of
   its own, and no index is read before all are loaded; as long as no lock is
   lost under its holder, and but for loads that outlive a hydration that failed
   (ensureHydratedRedisForProfile). *)
THEOREM HydrationCorrect == HydrationSpec => []HydrationSound
<1>1. HydrationInv => HydrationSound
  <2> SUFFICES ASSUME HydrationInv PROVE HydrationSound
    OBVIOUS
  <2>1. HydratedOncePerReason
    BY DEF HydrationInv, HydrationTypeOK, ReasonLeft, HydratedOncePerReason
  <2>2. ReadIsLoaded
    BY DEF HydrationInv, LoadedSoFar, ReadIsLoaded
  <2> QED
    BY <2>1, <2>2, OneHydratesFrom DEF HydrationSound
<1> QED
  BY <1>1, HydrationStarts, HydrationStep, PTL DEF HydrationSpec

-----------------------------------------------------------------------------
(* Lookups. *)

LEMMA LookupsStart == LookupsInit => LookupsInv
<1> SUFFICES ASSUME LookupsInit PROVE LookupsInv
  OBVIOUS
<1>1. LookupsTypeOK
  BY LookupsAssumption DEF LookupsInit, LookupsTypeOK
<1> QED
  BY <1>1
  DEF LookupsInit, LookupsInv, WaitsForOwnJob, RestOnLookups, OneJobUnlessRaced, OneJobOf,
      HasJob, Pending, TriesLeft, Of, Accesses

LEMMA LookupsStep == LookupsInv /\ [LookupsNext]_lookupVars => LookupsInv'
<1> SUFFICES ASSUME LookupsInv, [LookupsNext]_lookupVars PROVE LookupsInv'
  OBVIOUS
<1> USE LookupsAssumption DEF LookupsInv, LookupsTypeOK, requestVars, dataVars, paidVars
<1>1. ASSUME NEW a \in Accesses, AddNumber(a) PROVE LookupsInv'
  <2>1. LookupsTypeOK'
    BY <1>1 DEF AddNumber, Overlaps, Accesses, Of, NeedsLookup
  <2>2. WaitsForOwnJob' /\ RestOnLookups'
    BY <1>1
    DEF AddNumber, Overlaps, WaitsForOwnJob, RestOnLookups, RestsOn, Pending,
        NeedsLookup, Fetching, Of, Accesses
  <2>3. OneJobUnlessRaced'
    BY <1>1
    DEF AddNumber, Overlaps, OneJobUnlessRaced, OneJobOf, HasJob, Pending, NeedsLookup,
        Fetching, Of, Accesses
  <2>4. TriesLeft'
    BY <1>1 DEF AddNumber, Overlaps, TriesLeft, NeedsLookup, Of, Accesses
  <2> QED
    BY <2>1, <2>2, <2>3, <2>4
<1>2. ASSUME NEW a \in Accesses, CommitAccess(a) PROVE LookupsInv'
  <2>1. LookupsTypeOK'
    BY <1>2 DEF CommitAccess, Accesses, Of, NeedsLookup
  <2>2. WaitsForOwnJob' /\ RestOnLookups'
    BY <1>2
    DEF CommitAccess, WaitsForOwnJob, RestOnLookups, RestsOn, Pending,
        NeedsLookup, Fetching, Of, Accesses
  <2>3. OneJobUnlessRaced'
    <3> SUFFICES ASSUME NEW n \in Numbers \ raced PROVE OneJobOf(n)'
      BY <1>2 DEF CommitAccess, OneJobUnlessRaced
    <3>1. OneJobOf(n)
      BY DEF OneJobUnlessRaced
    <3>2. \A b \in Accesses : b # a => /\ inserting'[b] = inserting[b]
                                     /\ access'[b] = access[b] /\ lookup'[b] = lookup[b]
      BY <1>2 DEF CommitAccess
    <3>3. CASE inserting[a] = "job"
      <4>1. /\ inserting'[a] = "no" /\ lookup'[a] = "queued"
            /\ a[1] # Http => access'[a] = "waiting"
            /\ UNCHANGED <<fresh, paid, unstored, http>>
        BY <1>2, <3>3 DEF CommitAccess
      <4> QED
        BY <3>1, <3>2, <3>3, <4>1 DEF OneJobOf, HasJob, Pending, Of
    <3>4. CASE inserting[a] # "job"
      <4>1. /\ inserting'[a] = "no" /\ lookup'[a] = lookup[a] /\ lookup[a] = "none"
            /\ UNCHANGED <<fresh, paid, unstored, http>>
        BY <1>2, <3>4 DEF CommitAccess, TriesLeft
      <4> QED
        BY <3>1, <3>2, <3>4, <4>1 DEF OneJobOf, HasJob, Pending, Of
    <3> QED
      BY <3>3, <3>4
  <2>4. TriesLeft'
    BY <1>2 DEF CommitAccess, TriesLeft, NeedsLookup, Of, Accesses
  <2> QED
    BY <2>1, <2>2, <2>3, <2>4
<1>3. ASSUME NEW a \in Accesses, AbortAccess(a) PROVE LookupsInv'
  <2>1. LookupsTypeOK'
    BY <1>3 DEF AbortAccess, LookupFault, Accesses, Of, NeedsLookup
  <2>2. WaitsForOwnJob' /\ RestOnLookups'
    BY <1>3
    DEF AbortAccess, LookupFault, WaitsForOwnJob, RestOnLookups, RestsOn, Pending,
        NeedsLookup, Fetching, Of, Accesses
  <2>3. OneJobUnlessRaced'
    BY <1>3
    DEF AbortAccess, LookupFault, OneJobUnlessRaced, OneJobOf, HasJob, Pending, NeedsLookup,
        Fetching, Of, Accesses
  <2>4. TriesLeft'
    BY <1>3 DEF AbortAccess, LookupFault, TriesLeft, NeedsLookup, Of, Accesses
  <2> QED
    BY <2>1, <2>2, <2>3, <2>4
<1>4. ASSUME NEW a \in Accesses, PerformLookup(a) PROVE LookupsInv'
  <2>1. LookupsTypeOK'
    BY <1>4 DEF PerformLookup, TriesLeft
  <2>2. WaitsForOwnJob' /\ RestOnLookups'
    BY <1>4
    DEF PerformLookup, WaitsForOwnJob, RestOnLookups, RestsOn, Pending,
        NeedsLookup, Fetching, Of, Accesses
  <2>3. OneJobUnlessRaced'
    BY <1>4
    DEF PerformLookup, OneJobUnlessRaced, OneJobOf, HasJob, Pending, NeedsLookup,
        Fetching, Of, Accesses
  <2>4. TriesLeft'
    BY <1>4 DEF PerformLookup, TriesLeft, NeedsLookup, Of, Accesses
  <2> QED
    BY <2>1, <2>2, <2>3, <2>4
<1>5. ASSUME NEW a \in Accesses, LookupAnswered(a) PROVE LookupsInv'
  <2>1. LookupsTypeOK'
    BY <1>5 DEF LookupAnswered, Pay, Accesses
  <2>2. WaitsForOwnJob' /\ RestOnLookups'
    BY <1>5 DEF LookupAnswered, WaitsForOwnJob, RestOnLookups, RestsOn, Pending, Of, Accesses
  <2>3. OneJobUnlessRaced'
    <3> SUFFICES ASSUME NEW n \in Numbers \ raced PROVE OneJobOf(n)'
      BY <1>5 DEF LookupAnswered, OneJobUnlessRaced
    <3>1. OneJobOf(n) /\ a[2] \in Numbers
      BY DEF OneJobUnlessRaced, Accesses
    <3>2. /\ lookup[a] = "fetching" /\ lookup' = [lookup EXCEPT ![a] = "answered"]
          /\ paid' = [paid EXCEPT ![a[2]] = paid[a[2]] + 1]
          /\ UNCHANGED <<access, inserting, fresh, unstored, http>>
      BY <1>5 DEF LookupAnswered, Pay
    <3>3. CASE n = a[2]
      <4>1. a \in Of(n) /\ paid[n] = unstored[n] /\ paid'[n] = unstored[n] + 1
        BY <3>1, <3>2, <3>3 DEF OneJobOf, Pending, Of
      <4>2. \A b \in Of(n) : b # a => inserting[b] # "job" /\ lookup[b] = "none"
        BY <3>1, <3>2, <4>1 DEF OneJobOf, HasJob
      <4>3. inserting[a] # "job"
        BY <3>2 DEF TriesLeft
      <4> QED
        BY <3>1, <3>2, <3>3, <4>1, <4>2, <4>3 DEF OneJobOf, HasJob, Pending, Of
    <3>4. CASE n # a[2]
      <4>1. \A b \in Of(n) : lookup'[b] = lookup[b]
        BY <3>2, <3>4 DEF Of
      <4> QED
        BY <3>1, <3>2, <3>4, <4>1 DEF OneJobOf, HasJob, Pending, Of
    <3> QED
      BY <3>3, <3>4
  <2>4. TriesLeft'
    BY <1>5 DEF LookupAnswered, TriesLeft, Accesses
  <2> QED
    BY <2>1, <2>2, <2>3, <2>4
<1>6. ASSUME NEW a \in Accesses, StoreAnswer(a) PROVE LookupsInv'
  <2>1. LookupsTypeOK'
    BY <1>6 DEF StoreAnswer, StoreLookup, MarkDone, Accesses, Of
  <2>2. WaitsForOwnJob' /\ RestOnLookups'
    BY <1>6
    DEF StoreAnswer, StoreLookup, MarkDone, WaitsForOwnJob, RestOnLookups, RestsOn, Pending,
        TriesLeft, Of, Accesses
  <2>3. OneJobUnlessRaced'
    <3> SUFFICES ASSUME NEW n \in Numbers \ raced PROVE OneJobOf(n)'
      BY <1>6 DEF StoreAnswer, OneJobUnlessRaced
    <3>1. OneJobOf(n) /\ a[2] \in Numbers
      BY DEF OneJobUnlessRaced, Accesses
    <3>2. /\ lookup[a] = "answered" /\ lookup' = [lookup EXCEPT ![a] = "done"]
          /\ fresh' = fresh \cup {a[2]}
          /\ access' = MarkDone(a[2])
          /\ UNCHANGED <<inserting, http, paid, unstored>>
      BY <1>6 DEF StoreAnswer, StoreLookup
    <3>3. CASE n = a[2]
      <4>1. a \in Of(n)
        BY <3>3 DEF Of
      <4>2. \A b \in Of(n) : b # a => inserting[b] # "job" /\ lookup[b] = "none"
        BY <3>1, <3>2, <4>1 DEF OneJobOf, HasJob
      <4>3. inserting[a] # "job"
        BY <3>2 DEF TriesLeft
      <4> QED
        BY <3>1, <3>2, <3>3, <4>1, <4>2, <4>3 DEF OneJobOf, HasJob, Pending, Of
    <3>4. CASE n # a[2]
      <4>1. \A b \in Of(n) : access'[b] = access[b] /\ lookup'[b] = lookup[b]
        BY <3>2, <3>4 DEF MarkDone, Of
      <4> QED
        BY <3>1, <3>2, <3>4, <4>1 DEF OneJobOf, HasJob, Pending, Of
    <3> QED
      BY <3>3, <3>4
  <2>4. TriesLeft'
    BY <1>6 DEF StoreAnswer, StoreLookup, MarkDone, TriesLeft, Of, Accesses
  <2> QED
    BY <2>1, <2>2, <2>3, <2>4
<1>16. ASSUME NEW a \in Accesses, StartFails(a) PROVE LookupsInv'
  <2>1. /\ lookup[a] = "queued" /\ lookupTries[a] < LookupAttempts
        /\ lookupTries' = [lookupTries EXCEPT ![a] = lookupTries[a] + 1]
        /\ lookup' = [lookup EXCEPT ![a] =
                        IF lookupTries'[a] = LookupAttempts THEN "over" ELSE "queued"]
        /\ UNCHANGED <<access, inserting, known, fresh, http, closed, completed, paid, unstored,
                       raced>>
    BY <1>16 DEF StartFails, Retry, TriesLeft
  <2>2. LookupsTypeOK'
    BY <1>16, <2>1 DEF StartFails, LookupFault
  <2>3. TriesLeft'
    BY <2>1 DEF TriesLeft, Accesses
  <2>4. WaitsForOwnJob' /\ RestOnLookups'
    BY <2>1 DEF WaitsForOwnJob, RestOnLookups, RestsOn, Pending, Of
  <2>5. OneJobUnlessRaced'
    BY <2>1 DEF OneJobUnlessRaced, OneJobOf, HasJob, Pending, Of
  <2> QED
    BY <2>2, <2>3, <2>4, <2>5
<1>17. ASSUME NEW a \in Accesses, LookupFails(a) PROVE LookupsInv'
  <2>1. /\ lookup[a] \in {"fetching", "answered"}
        /\ lookup' = [lookup EXCEPT ![a] =
                        IF lookupTries[a] = LookupAttempts THEN "over" ELSE "queued"]
        /\ UNCHANGED <<access, inserting, lookupTries, known, fresh, http, closed, completed,
                       raced>>
        /\ a[2] \in Numbers
    BY <1>17 DEF LookupFails, Retry, Accesses
  <2>2. /\ paid' \in [Numbers -> Nat] /\ unstored' \in [Numbers -> Nat]
        /\ \A n \in Numbers \ {a[2]} : paid'[n] = paid[n] /\ unstored'[n] = unstored[n]
        /\ \/ paid'[a[2]] - unstored'[a[2]] = paid[a[2]] - unstored[a[2]]
              /\ lookup[a] = "fetching"
           \/ paid'[a[2]] - unstored'[a[2]] = paid[a[2]] - unstored[a[2]] - 1
              /\ lookup[a] = "answered"
    BY <1>17, <2>1 DEF LookupFails, Pay, Lose
  <2>3. LookupsTypeOK'
    BY <1>17, <2>1, <2>2 DEF LookupFails, LookupFault
  <2>4. TriesLeft'
    <3>1. lookupTries[a] # LookupAttempts => lookupTries[a] < LookupAttempts
      OBVIOUS
    <3> QED
      BY <2>1, <3>1 DEF TriesLeft, Accesses
  <2>5. WaitsForOwnJob' /\ RestOnLookups'
    BY <2>1 DEF WaitsForOwnJob, RestOnLookups, RestsOn, Pending, Of
  <2>6. OneJobUnlessRaced'
    <3> SUFFICES ASSUME NEW n \in Numbers \ raced PROVE OneJobOf(n)'
      BY <2>1 DEF OneJobUnlessRaced
    <3>1. OneJobOf(n)
      BY DEF OneJobUnlessRaced
    <3>2. CASE n = a[2]
      <4>1. a \in Of(n) /\ \A b \in Of(n) : b # a => inserting[b] # "job" /\ lookup[b] = "none"
        BY <2>1, <3>1, <3>2 DEF OneJobOf, HasJob, Of
      <4>2. inserting[a] # "job"
        BY <2>1 DEF TriesLeft
      <4>3. access[a] \in {"waiting", "fetching"}
        BY <2>1, <3>1, <4>1 DEF OneJobOf, Pending
      <4>4. paid'[n] = unstored'[n]
        BY <2>1, <2>2, <3>1, <3>2, <4>1 DEF OneJobOf, Pending
      <4> QED
        BY <2>1, <3>1, <3>2, <4>1, <4>2, <4>3, <4>4 DEF OneJobOf, HasJob, Pending, Of
    <3>3. CASE n # a[2]
      <4>1. \A b \in Of(n) : lookup'[b] = lookup[b]
        BY <2>1, <3>3 DEF Of
      <4> QED
        BY <2>1, <2>2, <3>1, <3>3, <4>1 DEF OneJobOf, HasJob, Pending, Of
    <3> QED
      BY <3>2, <3>3
  <2> QED
    BY <2>3, <2>4, <2>5, <2>6
<1>7. ASSUME NEW n \in Numbers, HttpHit(n) PROVE LookupsInv'
  <2>1. LookupsTypeOK'
    BY <1>7 DEF HttpHit, Accesses, Of, NeedsLookup
  <2>2. WaitsForOwnJob' /\ RestOnLookups'
    BY <1>7
    DEF HttpHit, WaitsForOwnJob, RestOnLookups, RestsOn, Pending,
        NeedsLookup, Fetching, Of, Accesses
  <2>3. OneJobUnlessRaced'
    BY <1>7
    DEF HttpHit, OneJobUnlessRaced, OneJobOf, HasJob, Pending, NeedsLookup,
        Fetching, Of, Accesses
  <2>4. TriesLeft'
    BY <1>7 DEF HttpHit, TriesLeft, NeedsLookup, Of, Accesses
  <2> QED
    BY <2>1, <2>2, <2>3, <2>4
<1>8. ASSUME NEW n \in Numbers, HttpMiss(n) PROVE LookupsInv'
  <2>1. LookupsTypeOK'
    BY <1>8 DEF HttpMiss, Pay, Accesses, Of, NeedsLookup
  <2>2. WaitsForOwnJob' /\ RestOnLookups'
    BY <1>8
    DEF HttpMiss, Pay, WaitsForOwnJob, RestOnLookups, RestsOn, Pending,
        NeedsLookup, Fetching, Of, Accesses
  <2>3. OneJobUnlessRaced'
    BY <1>8
    DEF HttpMiss, Pay, OneJobUnlessRaced, OneJobOf, HasJob, Pending, NeedsLookup,
        Fetching, Of, Accesses
  <2>4. TriesLeft'
    BY <1>8 DEF HttpMiss, Pay, TriesLeft, NeedsLookup, Of, Accesses
  <2> QED
    BY <2>1, <2>2, <2>3, <2>4
<1>9. ASSUME NEW n \in Numbers, HttpAccess(n) PROVE LookupsInv'
  <2>1. LookupsTypeOK'
    BY <1>9 DEF HttpAccess, Accesses, Of, NeedsLookup
  <2>2. WaitsForOwnJob' /\ RestOnLookups'
    BY <1>9
    DEF HttpAccess, WaitsForOwnJob, RestOnLookups, RestsOn, Pending,
        NeedsLookup, Fetching, Of, Accesses
  <2>3. OneJobUnlessRaced'
    BY <1>9
    DEF HttpAccess, OneJobUnlessRaced, OneJobOf, HasJob, Pending, NeedsLookup,
        Fetching, Of, Accesses
  <2>4. TriesLeft'
    BY <1>9 DEF HttpAccess, TriesLeft, NeedsLookup, Of, Accesses
  <2> QED
    BY <2>1, <2>2, <2>3, <2>4
<1>10. ASSUME NEW n \in Numbers, HttpStore(n) PROVE LookupsInv'
  <2>1. LookupsTypeOK'
    BY <1>10 DEF HttpStore, StoreLookup, MarkDone, Accesses, Of, NeedsLookup
  <2>2. WaitsForOwnJob' /\ RestOnLookups'
    BY <1>10
    DEF HttpStore, StoreLookup, MarkDone, WaitsForOwnJob, RestOnLookups, RestsOn, Pending,
        NeedsLookup, Fetching, Of, Accesses
  <2>3. OneJobUnlessRaced'
    BY <1>10
    DEF HttpStore, StoreLookup, MarkDone, OneJobUnlessRaced, OneJobOf, HasJob, Pending, NeedsLookup,
        Fetching, Of, Accesses
  <2>4. TriesLeft'
    BY <1>10 DEF HttpStore, StoreLookup, MarkDone, TriesLeft, NeedsLookup, Of, Accesses
  <2> QED
    BY <2>1, <2>2, <2>3, <2>4
<1>11. ASSUME NEW n \in Numbers, HttpHangs(n) PROVE LookupsInv'
  <2>1. LookupsTypeOK'
    BY <1>11 DEF HttpHangs, LookupFault, Accesses, Of, NeedsLookup
  <2>2. WaitsForOwnJob' /\ RestOnLookups'
    BY <1>11
    DEF HttpHangs, LookupFault, WaitsForOwnJob, RestOnLookups, RestsOn, Pending,
        NeedsLookup, Fetching, Of, Accesses
  <2>3. OneJobUnlessRaced'
    BY <1>11
    DEF HttpHangs, LookupFault, OneJobUnlessRaced, OneJobOf, HasJob, Pending, NeedsLookup,
        Fetching, Of, Accesses
  <2>4. TriesLeft'
    BY <1>11 DEF HttpHangs, LookupFault, TriesLeft, NeedsLookup, Of, Accesses
  <2> QED
    BY <2>1, <2>2, <2>3, <2>4
<1>12. ASSUME NEW n \in Numbers, GoStale(n) PROVE LookupsInv'
  <2>1. LookupsTypeOK'
    BY <1>12 DEF GoStale, Accesses, Of, NeedsLookup
  <2>2. WaitsForOwnJob' /\ RestOnLookups'
    BY <1>12
    DEF GoStale, WaitsForOwnJob, RestOnLookups, RestsOn, Pending,
        NeedsLookup, Fetching, Of, Accesses
  <2>3. OneJobUnlessRaced'
    BY <1>12
    DEF GoStale, OneJobUnlessRaced, OneJobOf, HasJob, Pending, NeedsLookup,
        Fetching, Of, Accesses
  <2>4. TriesLeft'
    BY <1>12 DEF GoStale, TriesLeft, NeedsLookup, Of, Accesses
  <2> QED
    BY <2>1, <2>2, <2>3, <2>4
<1>13. ASSUME NEW r \in Requests, CloseRequest(r) PROVE LookupsInv'
  <2>1. LookupsTypeOK'
    BY <1>13 DEF CloseRequest, Accesses, Of, NeedsLookup
  <2>2. WaitsForOwnJob' /\ RestOnLookups'
    BY <1>13
    DEF CloseRequest, WaitsForOwnJob, RestOnLookups, RestsOn, Pending,
        NeedsLookup, Fetching, Of, Accesses
  <2>3. OneJobUnlessRaced'
    BY <1>13
    DEF CloseRequest, OneJobUnlessRaced, OneJobOf, HasJob, Pending, NeedsLookup,
        Fetching, Of, Accesses
  <2>4. TriesLeft'
    BY <1>13 DEF CloseRequest, TriesLeft, NeedsLookup, Of, Accesses
  <2> QED
    BY <2>1, <2>2, <2>3, <2>4
<1>14. ASSUME NEW r \in Requests, RequestProgress(r) PROVE LookupsInv'
  <2>1. LookupsTypeOK'
    BY <1>14 DEF RequestProgress, Accesses, Of, NeedsLookup
  <2>2. WaitsForOwnJob' /\ RestOnLookups'
    BY <1>14
    DEF RequestProgress, WaitsForOwnJob, RestOnLookups, RestsOn, Pending,
        NeedsLookup, Fetching, Of, Accesses
  <2>3. OneJobUnlessRaced'
    BY <1>14
    DEF RequestProgress, OneJobUnlessRaced, OneJobOf, HasJob, Pending, NeedsLookup,
        Fetching, Of, Accesses
  <2>4. TriesLeft'
    BY <1>14 DEF RequestProgress, TriesLeft, NeedsLookup, Of, Accesses
  <2> QED
    BY <2>1, <2>2, <2>3, <2>4
<1>15. CASE UNCHANGED lookupVars
  BY <1>15
  DEF lookupVars, WaitsForOwnJob, RestOnLookups, RestsOn, Pending, OneJobUnlessRaced,
      OneJobOf, HasJob, Pending, TriesLeft
<1> QED
  BY <1>1, <1>2, <1>3, <1>4, <1>5, <1>6, <1>7, <1>8, <1>9, <1>10, <1>11, <1>12, <1>13, <1>14, <1>15, <1>16, <1>17
  DEF LookupsNext, LookupStep

(* Accesses, jobs, stored data and the endpoint have their shape, and no job is tried
   more often than it may be (jobs/lookup.ts, apis/lookup.ts). *)
THEOREM LookupsTypeCorrect == LookupsSpec => []LookupsTypeOK
<1>1. LookupsInv => LookupsTypeOK
  BY DEF LookupsInv
<1> QED
  BY <1>1, LookupsStart, LookupsStep, PTL DEF LookupsSpec

(* However the inserts, the jobs and the endpoint interleave, an access waits
   only for a job of its own, and one that is done has its data or rests on a
   job of its number; and such a job will still run, unless all its attempts
   failed (tg__access__fulfill, performLookup). *)
THEOREM AccessesAccounted == LookupsSpec => []AccessAccounted
<1>1. LookupsInv => AccessAccounted
  <2> SUFFICES ASSUME LookupsInv PROVE AccessAccounted
    OBVIOUS
  <2>1. \A a \in Accesses : Pending(a) => UnderWay(a) \/ GivenUp(a)
    BY DEF LookupsInv, TriesLeft, Pending, UnderWay, GivenUp
  <2>2. \A n \in Numbers : Of(n) \subseteq Accesses
    BY DEF Of
  <2> QED
    BY <2>1, <2>2
    DEF LookupsInv, WaitsForOwnJob, RestOnLookups, RestsOn, AccessAccounted, WaitingIsPursued,
        DoneHasDataOrLookup, Accesses
<1> QED
  BY <1>1, LookupsStart, LookupsStep, PTL DEF LookupsSpec

(* Telnyx is paid once for a number and once more for each answer that a failure
   lost, unless two inserts of the number overlapped, the endpoint asked beside
   the jobs, or its data went stale (performLookup). *)
THEOREM NumbersLookedUpOnce == LookupsSpec => []LookedUpOnce
<1>1. LookupsInv => LookedUpOnce
  BY DEF LookupsInv, LookupsTypeOK, LookedUpOnce, OneJobUnlessRaced, OneJobOf
<1> QED
  BY <1>1, LookupsStart, LookupsStep, PTL DEF LookupsSpec

-----------------------------------------------------------------------------
(* Usage. *)

LEMMA UsageStarts == UsageInit => UsageInv
<1> SUFFICES ASSUME UsageInit PROVE UsageInv
  OBVIOUS
<1>1. UsageTypeOK
  BY UsageAssumption DEF UsageInit, UsageTypeOK, Hours
<1> QED
  BY <1>1
  DEF UsageInit, UsageInv, InsertedStamped, StampsInOrder, RolledUp, CountedInItsHour,
      CountedUnlessLate, SentPastADay, BilledFirst

\* The lookups of an hour no earlier hour had.
LEMMA NewLookupsFirst ==
  ASSUME UsageTypeOK, NEW h \in Hours, NEW b \in NewLookups(h)
  PROVE  /\ b \in Clients \X Looked
         /\ \E p \in accesses : p[2] = b[2] /\ p[3] = h
         /\ \A p \in accesses : p[2] = b[2] => p[3] >= h
<1>1. PICK a \in accesses : /\ b = <<a[1], a[2]>> /\ a[3] = h
                            /\ \A p \in accesses : p[2] = a[2] => p[3] >= h
  BY DEF NewLookups
<1> QED
  BY <1>1 DEF UsageTypeOK

\* A rollup of an hour that is over, with the stamps of some rows set anew before.
LEMMA RollupKeeps ==
  ASSUME UsageInv, NEW h \in Hours, h < now, GenerateUsageRollups(h),
         UNCHANGED <<now, createdAt, processedAt, inserted, accesses, fired, late>>,
         sentAt' \in [Usages -> Hours \cup {NotYet}],
         moved \subseteq moved', moved' \subseteq inserted,
         \A u \in Usages : sentAt'[u] # sentAt[u] =>
           u \in moved' /\ processedAt[u] # NotYet /\ sentAt'[u] = processedAt[u]
  PROVE  UsageInv'
<1> USE DEF UsageInv, UsageTypeOK
<1>1. /\ counted' = [counted EXCEPT ![h] = IF counted[h] = {} THEN MessagesOf(h)' ELSE counted[h]]
      /\ billed' = [billed EXCEPT ![h] = billed[h] \cup
                      {b \in NewLookups(h) : \A a \in billed[h] : a[1] # b[1]}]
      /\ ran' = ran \cup {h}
  BY DEF GenerateUsageRollups, RollupMessages, RollupLookups
<1>2. InsertedStamped' /\ StampsInOrder'
  <2>1. \A u \in Usages : processedAt[u] # NotYet => processedAt[u] \in Hours
    OBVIOUS
  <2> QED
    BY <2>1, UsageAssumption DEF InsertedStamped, StampsInOrder, Hours
<1>3. \A u \in inserted : sentAt'[u] \in Hours
  BY <1>2 DEF InsertedStamped
<1>4. MessagesOf(h)' = {u \in inserted : sentAt'[u] = h /\ ~SentPastADay(u)'}
  <2>1. \A u \in inserted : InPeriod(sentAt'[u], h) <=> sentAt'[u] = h
    BY <1>3, UsageAssumption DEF InPeriod, Hours
  <2>2. ASSUME NEW u \in inserted \ Inbound, sentAt'[u] = h
        PROVE  CreatedAround(u, h)' <=> ~SentPastADay(u)'
    <3>1. h # NotYet /\ h \in Int
      BY UsageAssumption DEF Hours
    <3>2. processedAt[u] # NotYet /\ createdAt[u] # NotYet
      <4>1. u \in Usages /\ u \notin Inbound /\ sentAt'[u] # NotYet
        BY <2>2, <3>1
      <4>2. /\ sentAt'[u] # NotYet => processedAt'[u] # NotYet
            /\ processedAt'[u] # NotYet => createdAt'[u] # NotYet
        BY <1>2, <4>1 DEF InsertedStamped
      <4> QED
        BY <4>1, <4>2
    <3>3. createdAt[u] \in Int /\ processedAt[u] \in Int
      BY <3>2 DEF Hours
    <3>4. createdAt[u] <= processedAt[u] /\ processedAt[u] <= h
      BY <1>2, <2>2, <3>1, <3>2 DEF StampsInOrder
    <3> QED
      BY <2>2, <3>1, <3>3, <3>4, UsageAssumption DEF CreatedAround, SentPastADay
  <2> QED
    BY <2>1, <2>2 DEF MessagesOf, InPeriod, SentPastADay, CreatedAround
<1>5. \A b \in NewLookups(h) : b \in Clients \X Looked
  BY NewLookupsFirst
<1>6. UsageTypeOK'
  <2>1. counted' \in [Hours -> SUBSET inserted]
    BY <1>1, <1>4
  <2>2. billed' \in [Hours -> SUBSET (Clients \X Looked)]
    BY <1>1, <1>5
  <2>3. (ran \cup fired)' \subseteq 0..(now - 1)
    BY <1>1, UsageAssumption DEF Hours
  <2> QED
    BY <2>1, <2>2, <2>3
<1>7. RolledUp'
  BY <1>1 DEF RolledUp
<1>8. CountedInItsHour'
  BY <1>1, <1>4 DEF CountedInItsHour
<1>9. CountedUnlessLate'
  <2> SUFFICES ASSUME NEW u \in inserted \ (late \cup moved')
               PROVE  /\ sentAt'[u] \in ran' /\ ~SentPastADay(u)' => u \in counted'[sentAt'[u]]
                      /\ SentPastADay(u)' => \A g \in Hours : u \notin counted'[g]
    BY DEF CountedUnlessLate
  <2>1. sentAt'[u] = sentAt[u] /\ sentAt[u] \in Hours
    BY <1>3
  <2>2. SentPastADay(u)' <=> SentPastADay(u)
    BY <2>1 DEF SentPastADay
  <2>3. /\ sentAt[u] \in ran /\ ~SentPastADay(u) => u \in counted[sentAt[u]]
        /\ SentPastADay(u) => \A g \in Hours : u \notin counted[g]
    BY DEF CountedUnlessLate
  <2>4. ASSUME SentPastADay(u), NEW g \in Hours PROVE u \notin counted'[g]
    BY <1>1, <1>4, <2>2, <2>3, <2>4
  <2>5. ASSUME sentAt[u] \in ran', ~SentPastADay(u) PROVE u \in counted'[sentAt[u]]
    <3>1. CASE sentAt[u] = h /\ counted[h] = {}
      BY <1>1, <1>4, <2>1, <2>2, <2>5, <3>1
    <3>2. CASE sentAt[u] = h /\ counted[h] # {}
      <4>1. h \in ran
        BY <3>2 DEF RolledUp
      <4> QED
        BY <1>1, <2>3, <2>5, <3>2, <4>1
    <3>3. CASE sentAt[u] # h
      BY <1>1, <2>1, <2>3, <2>5, <3>3
    <3> QED
      BY <3>1, <3>2, <3>3
  <2> QED
    BY <2>1, <2>2, <2>4, <2>5
<1>10. BilledFirst'
  <2> SUFFICES ASSUME NEW g \in Hours, NEW b \in billed'[g]
               PROVE  /\ \E p \in accesses : p[2] = b[2] /\ p[3] = g
                      /\ \A p \in accesses : p[2] = b[2] => p[3] >= g
    BY DEF BilledFirst
  <2>1. CASE b \in billed[g]
    BY <2>1 DEF BilledFirst
  <2>2. CASE b \notin billed[g]
    <3>1. g = h /\ b \in NewLookups(h)
      BY <1>1, <2>2
    <3> QED
      BY <3>1, NewLookupsFirst
  <2> QED
    BY <2>1, <2>2
<1> QED
  BY <1>2, <1>6, <1>7, <1>8, <1>9, <1>10

LEMMA UsageStep == UsageInv /\ [UsageNext]_usageVars => UsageInv'
<1> SUFFICES ASSUME UsageInv, [UsageNext]_usageVars PROVE UsageInv'
  OBVIOUS
<1> USE UsageAssumption
    DEF UsageInv, UsageTypeOK, InsertedStamped, StampsInOrder, RolledUp, CountedInItsHour,
        CountedUnlessLate, SentPastADay, BilledFirst, Hours, rollupVars
<1>1. CASE NextHour
  BY <1>1 DEF NextHour
<1>2. CASE FireRollup
  BY <1>2 DEF FireRollup
<1>10. ASSUME NEW u \in Usages, Create(u) PROVE UsageInv'
  <2>1. /\ createdAt' = [createdAt EXCEPT ![u] = now]
        /\ now # NotYet /\ now \in Hours /\ now \in 0..now
        /\ createdAt[u] = NotYet /\ u \notin Inbound
    BY <1>10 DEF Create
  <2>2. u \notin inserted
    BY <2>1
  <2>3. UsageTypeOK' /\ InsertedStamped'
    BY <1>10, <2>1, <2>2 DEF Create
  <2>4. StampsInOrder'
    BY <1>10, <2>1, <2>2 DEF Create
  <2>5. RolledUp' /\ CountedInItsHour' /\ BilledFirst'
    BY <1>10, <2>1, <2>2 DEF Create
  <2>6. CountedUnlessLate'
    BY <1>10, <2>1, <2>2 DEF Create
  <2> QED
    BY <2>3, <2>4, <2>5, <2>6
<1>3. ASSUME NEW u \in Usages, Process(u) PROVE UsageInv'
  <2>1. /\ processedAt' = [processedAt EXCEPT ![u] = now]
        /\ now # NotYet /\ now \in Hours /\ now \in 0..now
        /\ processedAt[u] = NotYet
    BY <1>3 DEF Process
  <2>2. u \notin Inbound
    BY <1>3 DEF Process
  <2>3. UsageTypeOK' /\ InsertedStamped'
    BY <1>3, <2>1, <2>2 DEF Process
  <2>4. StampsInOrder'
    BY <1>3, <2>1, <2>2 DEF Process
  <2>5. RolledUp' /\ CountedInItsHour' /\ BilledFirst'
    BY <1>3, <2>1, <2>2 DEF Process
  <2>6. CountedUnlessLate'
    BY <1>3, <2>1, <2>2 DEF Process
  <2> QED
    BY <2>3, <2>4, <2>5, <2>6
<1>4. ASSUME NEW u \in Usages, Stamp(u) PROVE UsageInv'
  <2>1. /\ sentAt' = [sentAt EXCEPT ![u] = now]
        /\ now # NotYet /\ now \in Hours /\ now \in 0..now
        /\ sentAt[u] = NotYet
    BY <1>4 DEF Stamp
  <2>2. u \notin inserted
    BY <2>1
  <2>3. UsageTypeOK' /\ InsertedStamped'
    BY <1>4, <2>1, <2>2 DEF Stamp
  <2>4. StampsInOrder'
    BY <1>4, <2>1, <2>2 DEF Stamp
  <2>5. RolledUp' /\ CountedInItsHour' /\ BilledFirst'
    BY <1>4, <2>1, <2>2 DEF Stamp
  <2>6. CountedUnlessLate'
    BY <1>4, <2>1, <2>2 DEF Stamp
  <2> QED
    BY <2>3, <2>4, <2>5, <2>6
<1>5. ASSUME NEW u \in Usages, Insert(u) PROVE UsageInv'
  BY <1>5 DEF Insert
<1>6. ASSUME NEW c \in Clients, NEW n \in Looked, LookUp(c, n) PROVE UsageInv'
  BY <1>6 DEF LookUp
<1>7. ASSUME NEW h \in Hours, Rollup(h) PROVE UsageInv'
  <2>1. h < now
    BY <1>7 DEF Rollup
  <2> QED
    BY <1>7, <2>1, RollupKeeps DEF Rollup
<1>8. ASSUME NEW h \in Hours, Backfill(h) PROVE UsageInv'
  <2> DEFINE us == {u \in inserted \ Inbound :
                      InPeriod(processedAt[u], h) /\ sentAt[u] # processedAt[u]}
  <2>1. /\ h < now
        /\ sentAt' = [u \in Usages |-> IF u \in us THEN processedAt[u] ELSE sentAt[u]]
        /\ moved' = moved \cup us
        /\ UNCHANGED <<now, createdAt, processedAt, inserted, accesses, fired, late>>
        /\ GenerateUsageRollups(h)
    BY <1>8 DEF Backfill
  <2>2. \A u \in us : /\ u \in inserted \ Inbound
                      /\ processedAt[u] # NotYet /\ processedAt[u] \in Hours
    <3> SUFFICES ASSUME NEW u \in us
                 PROVE  processedAt[u] # NotYet /\ processedAt[u] \in Hours
      OBVIOUS
    <3>1. u \in inserted /\ u \in Usages /\ u \notin Inbound
      OBVIOUS
    <3>2. sentAt[u] # NotYet
      BY <3>1
    <3>3. processedAt[u] # NotYet
      BY <3>1, <3>2
    <3> QED
      BY <3>1, <3>3
  <2> HIDE DEF us
  <2>3. sentAt' \in [Usages -> Hours \cup {NotYet}]
    BY <2>1, <2>2
  <2>4. \A u \in Usages : sentAt'[u] # sentAt[u] =>
          u \in moved' /\ processedAt[u] # NotYet /\ sentAt'[u] = processedAt[u]
    BY <2>1, <2>2
  <2> QED
    BY <2>1, <2>2, <2>3, <2>4, RollupKeeps
<1>9. CASE UNCHANGED usageVars
  BY <1>9 DEF usageVars
<1> QED
  BY <1>1, <1>2, <1>3, <1>4, <1>5, <1>6, <1>7, <1>8, <1>9, <1>10 DEF UsageNext

(* Messages, accesses and the counts of an hour have their shape, and no hour is rolled
   up before it is over (generate_usage_rollups). *)
THEOREM UsageTypeCorrect == UsageSpec => []UsageTypeOK
<1>1. UsageInv => UsageTypeOK
  BY DEF UsageInv
<1> QED
  BY <1>1, UsageStarts, UsageStep, PTL DEF UsageSpec

(* A message and a number are billed in one hour at most; a message whose row
   was there in time and that was sent within a day of its creation is billed,
   and one sent later is billed in no hour, however late and often the rollup
   of an hour runs (billing.generate_usage_rollups). *)
THEOREM UsageBilledOnce == UsageSpec => []BilledOnce
<1>1. UsageInv => BilledOnce
  <2> SUFFICES ASSUME UsageInv PROVE BilledOnce
    OBVIOUS
  <2> USE DEF UsageInv
  <2>1. CountedOnce
    <3> SUFFICES ASSUME NEW u \in Usages \ moved
                 PROVE  Cardinality({h \in Hours : u \in counted[h]}) <= 1
      BY DEF CountedOnce
    <3>1. \/ {h \in Hours : u \in counted[h]} = {}
          \/ {h \in Hours : u \in counted[h]} = {sentAt[u]}
      BY DEF CountedInItsHour
    <3>2. Cardinality({}) = 0 /\ Cardinality({sentAt[u]}) = 1
      BY FS_EmptySet, FS_Singleton
    <3> QED
      BY <3>1, <3>2
  <2>2. BilledInOneHour
    <3> SUFFICES ASSUME NEW n \in Looked, NEW g \in Hours, NEW h \in Hours,
                        NEW c \in Clients, <<c, n>> \in billed[g],
                        NEW d \in Clients, <<d, n>> \in billed[h]
                 PROVE  g = h
      BY DEF BilledInOneHour
    <3>1. /\ \E p \in accesses : p[2] = n /\ p[3] = g
          /\ \A p \in accesses : p[2] = n => p[3] >= g
      BY DEF BilledFirst
    <3>2. /\ \E p \in accesses : p[2] = n /\ p[3] = h
          /\ \A p \in accesses : p[2] = n => p[3] >= h
      BY DEF BilledFirst
    <3> QED
      BY <3>1, <3>2 DEF Hours
  <2> QED
    BY <2>1, <2>2 DEF BilledOnce
<1> QED
  BY <1>1, UsageStarts, UsageStep, PTL DEF UsageSpec

=============================================================================
