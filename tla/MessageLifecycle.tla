-------------------------- MODULE MessageLifecycle --------------------------
(***************************************************************************)
(* What Switchboard promises the sender of an outbound message, whatever   *)
(* the queue, the database and Redis do: the message is handed to one      *)
(* from-number at most once, it waits for at most one number at a time,    *)
(* and it is only given up before a from-number or a wait has been         *)
(* recorded for it.  MessageRouting implements this for grey-route         *)
(* profiles, and MessageChannels, where nothing waits, for 10DLC and       *)
(* toll-free ones.                                                         *)
(***************************************************************************)
CONSTANTS Messages,   \* outbound messages of one profile
          Senders,    \* the from-numbers they can be routed to
          NoSender    \* the from-number of a message that has none

VARIABLES status,     \* how far each message has come
          from        \* the from-number each message was routed to

vars == <<status, from>>

Status == {"new", "processing", "awaiting", "routed", "abandoned"}

Init ==
  /\ status = [m \in Messages |-> "new"]
  /\ from = [m \in Messages |-> NoSender]

(* The message is inserted in sms.outbound_messages. *)
Accept(m) ==
  /\ status[m] = "new"
  /\ status' = [status EXCEPT ![m] = "processing"]
  /\ UNCHANGED from

(* The message waits for the number of a phone number request. *)
Await(m) ==
  /\ status[m] = "processing"
  /\ status' = [status EXCEPT ![m] = "awaiting"]
  /\ UNCHANGED from

(* The message is routed by its own job, which a crash may have re-run
   after it had recorded a wait. *)
Route(m, n) ==
  /\ status[m] \in {"processing", "awaiting"}
  /\ status' = [status EXCEPT ![m] = "routed"]
  /\ from' = [from EXCEPT ![m] = n]

(* A purchased number takes over, in one step, messages that wait for it. *)
RouteWaiting(S, n) ==
  /\ S # {}
  /\ \A m \in S : status[m] = "awaiting"
  /\ status' = [m \in Messages |-> IF m \in S THEN "routed" ELSE status[m]]
  /\ from' = [m \in Messages |-> IF m \in S THEN n ELSE from[m]]

(* The attempts of some messages are used up before anything was recorded for
   them: one that fails for the last time, or all that a crash interrupts. *)
Abandon(S) ==
  /\ S # {}
  /\ \A m \in S : status[m] = "processing"
  /\ status' = [m \in Messages |-> IF m \in S THEN "abandoned" ELSE status[m]]
  /\ UNCHANGED from

Next ==
  \/ \E m \in Messages : Accept(m) \/ Await(m)
  \/ \E m \in Messages, n \in Senders : Route(m, n)
  \/ \E S \in SUBSET Messages : Abandon(S)
  \/ \E S \in SUBSET Messages, n \in Senders : RouteWaiting(S, n)

Spec == Init /\ [][Next]_vars
=============================================================================
