--------------------------- MODULE UsageRollups ---------------------------
(***************************************************************************)
(* Billing of an hour's use: the cron of the worker asks for the rollup of *)
(* the hour that ended, two minutes later, and the job counts the messages *)
(* and the lookups stamped in that hour, unless the hour has a row.        *)
(*                                                                         *)
(* A message is stamped before its row is there to be counted: the clock   *)
(* of the telco stamps an inbound text, whose webhook may be tried again   *)
(* for hours.  A message sent is counted if it was created about a day     *)
(* before, and one created earlier is counted by no rollup.  The usage is  *)
(* of one profile, that of lookups per client.                             *)
(***************************************************************************)
EXTENDS Integers, FiniteSets

CONSTANTS
  Usages,     \* messages of the profile
  Inbound,    \* those of them that were received
  Day,        \* hours between creation and hour a rollup allows: 24
  Clients,    \* clients with lookups
  Looked,     \* numbers they look up
  LastHour,   \* bound on the clock
  NotYet

Hours == 0..LastHour

ASSUME UsageAssumption ==
  LastHour \in Nat /\ Day \in Nat /\ Inbound \subseteq Usages /\ NotYet \notin Int

VARIABLES
  now,
  \* created_at and processed_at of a message sent, sent_at or received_at of
  \* any, rows inserted
  createdAt, processedAt, sentAt, inserted,
  \* lookup.accesses: client, number and hour
  accesses,
  \* rollup-usage jobs ever added, and those that ran at least once
  fired, ran,
  \* billing.messaging_usage_rollups and lrn_usage_rollups of an hour
  counted, billed,
  \* history: rows inserted after their hour's rollup ran; rows the backfill
  \* stamped anew
  late, moved

usageVars == <<now, createdAt, processedAt, sentAt, inserted, accesses, fired, ran,
               counted, billed, late, moved>>

rollupVars == <<ran, counted, billed>>

UsageInit ==
  /\ now = 0
  /\ createdAt = [u \in Usages |-> NotYet]
  /\ processedAt = [u \in Usages |-> NotYet]
  /\ sentAt = [u \in Usages |-> NotYet]
  /\ inserted = {} /\ accesses = {}
  /\ fired = {} /\ ran = {}
  /\ counted = [h \in Hours |-> {}]
  /\ billed = [h \in Hours |-> {}]
  /\ late = {} /\ moved = {}

NextHour ==
  /\ now < LastHour
  /\ now' = now + 1
  /\ UNCHANGED <<createdAt, processedAt, sentAt, inserted, accesses, fired, late, moved,
                 rollupVars>>

\* A message to send is created, routed and stamped, hours apart if its jobs
\* wait; one received is stamped by the telco.
Create(u) ==
  /\ u \notin Inbound /\ createdAt[u] = NotYet
  /\ createdAt' = [createdAt EXCEPT ![u] = now]
  /\ UNCHANGED <<now, processedAt, sentAt, inserted, accesses, fired, late, moved,
                 rollupVars>>

Process(u) ==
  /\ u \notin Inbound /\ createdAt[u] # NotYet /\ processedAt[u] = NotYet
  /\ processedAt' = [processedAt EXCEPT ![u] = now]
  /\ UNCHANGED <<now, createdAt, sentAt, inserted, accesses, fired, late, moved,
                 rollupVars>>

Stamp(u) ==
  /\ u \in Inbound \/ processedAt[u] # NotYet
  /\ sentAt[u] = NotYet
  /\ sentAt' = [sentAt EXCEPT ![u] = now]
  /\ UNCHANGED <<now, createdAt, processedAt, inserted, accesses, fired, late, moved,
                 rollupVars>>

Insert(u) ==
  /\ sentAt[u] # NotYet /\ u \notin inserted
  /\ inserted' = inserted \cup {u}
  /\ late' = IF sentAt[u] \in ran THEN late \cup {u} ELSE late
  /\ UNCHANGED <<now, createdAt, processedAt, sentAt, accesses, fired, moved,
                 rollupVars>>

LookUp(c, n) ==
  /\ accesses' = accesses \cup {<<c, n, now>>}
  /\ UNCHANGED <<now, createdAt, processedAt, sentAt, inserted, fired, late, moved,
                 rollupVars>>

-----------------------------------------------------------------------------
\* The cron of the hour after.  It has no backfill: a worker that is down then
\* adds the job of that hour never.
FireRollup ==
  /\ now > 0 /\ now - 1 \notin fired
  /\ fired' = fired \cup {now - 1}
  /\ UNCHANGED <<now, createdAt, processedAt, sentAt, inserted, accesses, late, moved,
                 rollupVars>>

\* generate_usage_rollups, of the hour that begins the period.
ToTheEnd(t, h) == t >= h /\ t <= h + 1
InPeriod(t, h) == t >= h /\ t < h + 1

\* Of the messages sent, those created within a day of the period.
CreatedAround(u, h) == createdAt[u] >= h - Day /\ createdAt[u] < h + 1 + Day

MessagesOf(h) ==
  {u \in inserted : InPeriod(sentAt[u], h) /\ (u \in Inbound \/ CreatedAround(u, h))}

\* A number is billed to those who look it up in the first hour anyone does.
NewLookups(h) == {<<a[1], a[2]>> : a \in
                   {b \in accesses : /\ b[3] = h
                                     /\ \A p \in accesses : p[2] = b[2] => p[3] >= h}}

\* On conflict do nothing: a row there is stays as it is.
RollupMessages(h) == counted' = [counted EXCEPT ![h] = IF @ = {} THEN MessagesOf(h)' ELSE @]
RollupLookups(h) ==
  billed' = [billed EXCEPT ![h] =
    @ \cup {b \in NewLookups(h) : \A a \in billed[h] : a[1] # b[1]}]

GenerateUsageRollups(h) ==
  /\ RollupMessages(h) /\ RollupLookups(h)
  /\ ran' = ran \cup {h}

\* The job, which may run late and again.
Rollup(h) ==
  /\ h \in fired
  /\ UNCHANGED <<now, createdAt, processedAt, sentAt, inserted, accesses, fired, late,
                 moved>>
  /\ GenerateUsageRollups(h)

\* incremental_rollup_backfill_from of one hour: the messages routed in it
\* are stamped with the time they were, whatever counted them before, and the
\* hour is rolled up.
Backfill(h) ==
  LET us == {u \in inserted \ Inbound :
               InPeriod(processedAt[u], h) /\ sentAt[u] # processedAt[u]}
  IN /\ h < now
     /\ sentAt' = [u \in Usages |-> IF u \in us THEN processedAt[u] ELSE sentAt[u]]
     /\ moved' = moved \cup us
     /\ UNCHANGED <<now, createdAt, processedAt, inserted, accesses, fired, late>>
     /\ GenerateUsageRollups(h)

UsageNext ==
  \/ NextHour \/ FireRollup
  \/ \E u \in Usages : Create(u) \/ Process(u) \/ Stamp(u) \/ Insert(u)
  \/ \E c \in Clients, n \in Looked : LookUp(c, n)
  \/ \E h \in Hours : Rollup(h) \/ Backfill(h)

UsageSpec == UsageInit /\ [][UsageNext]_usageVars

-----------------------------------------------------------------------------
(* Shape of the state of billing: rollups are of hours that are over. *)
UsageTypeOK ==
  /\ now \in Hours
  /\ createdAt \in [Usages -> Hours \cup {NotYet}]
  /\ processedAt \in [Usages -> Hours \cup {NotYet}]
  /\ sentAt \in [Usages -> Hours \cup {NotYet}]
  /\ inserted \subseteq Usages /\ moved \subseteq inserted /\ late \subseteq inserted
  /\ ran \cup fired \subseteq 0..(now - 1)
  /\ counted \in [Hours -> SUBSET inserted]
  /\ billed \in [Hours -> SUBSET (Clients \X Looked)]
  /\ accesses \subseteq Clients \X Looked \X Hours

(* A message is billed once: no two hours count it, and a job that runs again
   does not add to its hour; unless the backfill stamped it anew. *)
CountedOnce ==
  \A u \in Usages \ moved : Cardinality({h \in Hours : u \in counted[h]}) <= 1

\* It was sent in an hour that began over a day after it was created.
SentPastADay(u) == u \notin Inbound /\ createdAt[u] < sentAt[u] - Day

(* A message whose hour was rolled up is billed, unless its row came after the
   rollup (two minutes do not wait for a webhook that is tried again) or its
   jobs waited for more than a day: such a message is billed in no hour. *)
CountedUnlessLate ==
  \A u \in inserted \ (late \cup moved) :
    /\ sentAt[u] \in ran /\ ~SentPastADay(u) => u \in counted[sentAt[u]]
    /\ SentPastADay(u) => \A h \in Hours : u \notin counted[h]

(* A number that was looked up is billed in one hour only, however often it is
   looked up again. *)
BilledInOneHour ==
  \A n \in Looked : \A g, h \in Hours :
    (\E c \in Clients : <<c, n>> \in billed[g]) /\ (\E c \in Clients : <<c, n>> \in billed[h])
      => g = h

(* What was used is billed in one hour and in no other, however late and often
   the rollup of an hour runs; but for messages whose rows came after it, that
   were sent more than a day after they were created, or that the backfill
   stamped anew (billing.generate_usage_rollups). *)
BilledOnce == CountedOnce /\ CountedUnlessLate /\ BilledInOneHour
=============================================================================
