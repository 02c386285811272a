----------------------------- MODULE Hydration -----------------------------
(***************************************************************************)
(* How a call of a Redis index finds its data: hydrated-profiles says      *)
(* whether a profile's indexes are loaded, the caller that finds they are  *)
(* not loads them under a lock of Redis, after a second look, and each     *)
(* process then listens for the events that keep them current.             *)
(*                                                                         *)
(* The lock is redis-lock's: it times out by itself, and its holder        *)
(* deletes the key unless its time is up, whoever holds the key by then.   *)
(***************************************************************************)
EXTENDS Integers, FiniteSets

CONSTANTS
  Procs,          \* worker processes, with a call of the profile each
  Indexes,        \* the three indexes
  Rehydrations,   \* bound on requests to hydrate again
  Flushes,        \* bound on flushes of Redis
  HydrationFaults,\* bound on failing hydrations and crashes
  Nobody

ASSUME HydrationAssumption ==
  /\ Nobody \notin Procs
  /\ Rehydrations \in Nat /\ Flushes \in Nat /\ HydrationFaults \in Nat

VARIABLES
  \* Redis: hydrated-profiles, the indexes loaded, the lock
  isHydrated, loaded, lock,
  \* the call of a process, the indexes it has yet to load, and those that a
  \* hydration of it goes on loading after it failed
  at, toLoad, strays,
  \* processes whose time with the lock is up, and that listen for events
  timedOut, listeners,
  \* history: a lock timed out, or a flush came, under a hydration that goes
  \* on; hydrations begun, and reasons for one
  torn, begun, reasons,
  \* bounds
  rehydrations, flushed, hydrationFaults

hydrationVars == <<isHydrated, loaded, lock, at, toLoad, strays, timedOut, listeners,
                   torn, begun, reasons, rehydrations, flushed, hydrationFaults>>
historyVars == <<torn, begun, reasons>>
hydrationBounds == <<rehydrations, flushed, hydrationFaults>>

HydrationInit ==
  /\ isHydrated = FALSE /\ loaded = {} /\ lock = Nobody
  /\ at = [p \in Procs |-> "idle"]
  /\ toLoad = [p \in Procs |-> {}]
  /\ strays = [p \in Procs |-> {}]
  /\ timedOut = {} /\ listeners = {}
  /\ torn = FALSE /\ begun = 0 /\ reasons = 1
  /\ rehydrations = 0 /\ flushed = 0 /\ hydrationFaults = 0

HydrationFault == /\ hydrationFaults < HydrationFaults
                  /\ hydrationFaults' = hydrationFaults + 1
                  /\ reasons' = reasons + 1
Goes(p, from, to) == at[p] = from /\ at' = [at EXCEPT ![p] = to]
InLock == {p \in Procs : at[p] \in {"recheck", "load", "unlock", "throw"}}

-----------------------------------------------------------------------------
Call(p) ==
  /\ Goes(p, "idle", "check")
  /\ UNCHANGED <<isHydrated, loaded, lock, toLoad, strays, timedOut, listeners, historyVars,
                 hydrationBounds>>

\* checkIfHydrated, outside the lock.
CheckIfHydrated(p) ==
  /\ Goes(p, "check", IF isHydrated THEN "listen" ELSE "lock")
  /\ UNCHANGED <<isHydrated, loaded, lock, toLoad, strays, timedOut, listeners, historyVars,
                 hydrationBounds>>

GetLock(p) ==
  /\ lock = Nobody
  /\ Goes(p, "lock", "recheck")
  /\ lock' = p
  /\ timedOut' = timedOut \ {p}
  /\ UNCHANGED <<isHydrated, loaded, toLoad, strays, listeners, historyVars, hydrationBounds>>

\* someOneElseHydrated.
Recheck(p) ==
  /\ IF isHydrated
     THEN Goes(p, "recheck", "unlock") /\ UNCHANGED <<toLoad, begun>>
     ELSE /\ Goes(p, "recheck", "load")
          /\ toLoad' = [toLoad EXCEPT ![p] = Indexes]
          /\ begun' = begun + 1
  /\ UNCHANGED <<isHydrated, loaded, lock, strays, timedOut, listeners, torn, reasons,
                 hydrationBounds>>

\* The indexes load side by side.
Load(p, i) ==
  /\ i \in toLoad[p]
  /\ toLoad' = [toLoad EXCEPT ![p] = @ \ {i}]
  /\ loaded' = loaded \cup {i}
  /\ UNCHANGED <<isHydrated, lock, at, strays, timedOut, listeners, historyVars,
                 hydrationBounds>>

\* Promise.all throws with the first load that fails and waits for no other:
\* those run on, and nobody learns how they end.
LoadFails(p) ==
  /\ toLoad[p] # {} /\ HydrationFault
  /\ Goes(p, "load", "throw")
  /\ toLoad' = [toLoad EXCEPT ![p] = {}]
  /\ \E i \in toLoad[p] : strays' = [strays EXCEPT ![p] = @ \cup (toLoad[p] \ {i})]
  /\ UNCHANGED <<isHydrated, loaded, lock, timedOut, listeners, torn, begun,
                 rehydrations, flushed>>

StrayEnds(p, i) ==
  /\ i \in strays[p]
  /\ strays' = [strays EXCEPT ![p] = @ \ {i}]
  /\ loaded' = loaded \cup {i} \/ UNCHANGED loaded
  /\ UNCHANGED <<isHydrated, lock, at, toLoad, timedOut, listeners, historyVars,
                 hydrationBounds>>

RecordEarly(p) ==
  /\ Goes(p, "load", "unlock")
  /\ isHydrated' = TRUE
  /\ UNCHANGED <<loaded, lock, toLoad, strays, timedOut, listeners, historyVars,
                 hydrationBounds>>

RecordHydrationComplete(p) ==
  /\ toLoad[p] = {}
  /\ Goes(p, "load", "unlock")
  /\ isHydrated' = TRUE
  /\ UNCHANGED <<loaded, lock, toLoad, strays, timedOut, listeners, historyVars,
                 hydrationBounds>>

\* The lock is given back whether the hydration threw or not, and what it threw
\* goes on to the caller.
AfterUnlock(p) == IF at[p] = "throw" THEN "idle" ELSE "listen"

Unlock(p) ==
  /\ at[p] \in {"unlock", "throw"}
  /\ at' = [at EXCEPT ![p] = AfterUnlock(p)]
  /\ lock' = IF p \in timedOut THEN lock ELSE Nobody
  /\ UNCHANGED <<isHydrated, loaded, toLoad, strays, timedOut, listeners, historyVars,
                 hydrationBounds>>

EnsureAllHandlers(p) ==
  /\ Goes(p, "listen", "read")
  /\ listeners' = listeners \cup {p}
  /\ UNCHANGED <<isHydrated, loaded, lock, toLoad, strays, timedOut, historyVars,
                 hydrationBounds>>

\* index.fn.
ReadIndex(p) ==
  /\ Goes(p, "read", "idle")
  /\ UNCHANGED <<isHydrated, loaded, lock, toLoad, strays, timedOut, listeners, historyVars,
                 hydrationBounds>>

CallStep(p) ==
  \/ CheckIfHydrated(p) \/ GetLock(p) \/ Recheck(p) \/ \E i \in Indexes : Load(p, i)
  \/ RecordHydrationComplete(p) \/ Unlock(p) \/ EnsureAllHandlers(p) \/ ReadIndex(p)

-----------------------------------------------------------------------------
\* The lock times out, in the hands of a process or of none any more.
NeverExpires == FALSE
LockExpires ==
  /\ lock # Nobody
  /\ lock' = Nobody
  /\ timedOut' = timedOut \cup {lock}
  /\ torn' = (torn \/ lock \in InLock)
  /\ UNCHANGED <<isHydrated, loaded, at, toLoad, strays, listeners, begun, reasons,
                 hydrationBounds>>

\* A handler of a process that listens.
Rehydrate(p) ==
  /\ p \in listeners /\ rehydrations < Rehydrations
  /\ rehydrations' = rehydrations + 1
  /\ reasons' = reasons + 1
  /\ isHydrated' = FALSE
  /\ UNCHANGED <<loaded, lock, at, toLoad, strays, timedOut, listeners, torn, begun, flushed,
                 hydrationFaults>>

\* flush-redis, or a connection that was lost.  The lock is flushed as well.
ResetAllHydrationState ==
  /\ flushed < Flushes
  /\ flushed' = flushed + 1
  /\ reasons' = reasons + 1
  /\ isHydrated' = FALSE /\ loaded' = {} /\ lock' = Nobody
  /\ torn' = (torn \/ \E p \in Procs : at[p] \notin {"idle", "check"})
  /\ UNCHANGED <<at, toLoad, strays, timedOut, listeners, begun, rehydrations, hydrationFaults>>

\* A new process takes the place of one that died; it has no handlers yet.
Restart(p) ==
  /\ at[p] # "idle" /\ HydrationFault
  /\ at' = [at EXCEPT ![p] = "idle"]
  /\ toLoad' = [toLoad EXCEPT ![p] = {}]
  /\ strays' = [strays EXCEPT ![p] = {}]
  /\ listeners' = listeners \ {p}
  /\ timedOut' = timedOut \cup {p}
  /\ UNCHANGED <<isHydrated, loaded, lock, torn, begun, rehydrations, flushed>>

HydrationNext ==
  \/ \E p \in Procs : Call(p) \/ CallStep(p) \/ LoadFails(p) \/ Rehydrate(p) \/ Restart(p)
  \/ \E p \in Procs, i \in Indexes : StrayEnds(p, i)
  \/ LockExpires \/ ResetAllHydrationState

HydrationSpec == HydrationInit /\ [][HydrationNext]_hydrationVars
HydrationFairness == /\ \A p \in Procs : WF_hydrationVars(CallStep(p))
                     /\ WF_hydrationVars(LockExpires)

-----------------------------------------------------------------------------
(* Shape of the state of ensureHydratedRedisForProfile. *)
HydrationTypeOK ==
  /\ isHydrated \in BOOLEAN /\ loaded \subseteq Indexes
  /\ lock \in Procs \cup {Nobody}
  /\ at \in [Procs -> {"idle", "check", "lock", "recheck", "load", "unlock", "throw",
                       "listen", "read"}]
  /\ toLoad \in [Procs -> SUBSET Indexes] /\ strays \in [Procs -> SUBSET Indexes]
  /\ timedOut \subseteq Procs /\ listeners \subseteq Procs
  /\ torn \in BOOLEAN /\ begun \in Nat /\ reasons \in Nat
  /\ rehydrations \in Nat /\ flushed \in Nat /\ hydrationFaults \in Nat

(* One call at a time is inside the lock, and only there are indexes loaded,
   while the profile does not count as hydrated; unless the lock timed out or
   was flushed under a call.  Loads that outlive a hydration that failed are no
   part of this: nothing keeps them from running beside the next hydration, or
   from writing what they read into a profile that is hydrated by then. *)
OneHydrates ==
  ~torn => /\ Cardinality(InLock) <= 1
           /\ \A p \in Procs : toLoad[p] # {} => p \in InLock /\ ~isHydrated

(* A profile is hydrated once, and once more for each rehydration, flush,
   failure or crash, however many calls find it unhydrated (the second look
   under the lock). *)
HydratedOncePerReason == ~torn => begun <= reasons

(* An index is read only when all of them are loaded, unless a hydration was
   torn: no call goes on after its hydration threw, or while another's is
   under way. *)
ReadIsLoaded ==
  ~torn => \A p \in Procs : at[p] \in {"listen", "read"} => loaded = Indexes

(* However many calls find a profile unhydrated, one of them hydrates it, and the
   others read its indexes only when that has ended well; but for a lock that is
   lost and for what a failed hydration leaves running. *)
HydrationSound == OneHydrates /\ HydratedOncePerReason /\ ReadIsLoaded

(* A call comes back, even when the process that held the lock is gone. *)
CallReturns == \A p \in Procs : at[p] = "check" ~> at[p] = "idle"
=============================================================================
