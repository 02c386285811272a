-------------------------- MODULE InboundMessages --------------------------
(***************************************************************************)
(* A text from a contact, from the telco's webhook to the client's: the   *)
(* handler stores it and answers, the triggers of the row find its        *)
(* sending location and queue its forwarding, and the job posts it to the *)
(* client until the client answers well and the attempt is recorded.      *)
(*                                                                         *)
(* The telco posts a text until it is answered 200.  Nothing recognizes a  *)
(* text that is posted twice: rows are numbered by the post they are of.   *)
(***************************************************************************)
EXTENDS Integers, FiniteSets

CONSTANTS
  Texts,           \* texts the telco has for one of the account's numbers
  Malformed,       \* those from a short code, which is no E.164 number
  Posts,           \* posts of a text (bound)
  InboundAttempts, \* max_attempts of forward-inbound-message (8)
  InboundFaults    \* bound on failing statements and calls, and crashes

ASSUME InboundAssumption ==
  /\ Malformed \subseteq Texts
  /\ Posts \in Nat \ {0}
  /\ InboundAttempts \in Nat \ {0}
  /\ InboundFaults \in Nat

VARIABLES
  \* the telco: posts made of a text, whether it had a 200
  posts, answered,
  \* posts a handler works on, whose row is not inserted yet or is
  parsing, persisted,
  \* the from number of the texts is in sms.phone_numbers
  listening,
  \* sms.inbound_messages, the rows' jobs, sms.inbound_message_forward_attempts
  stored, forward, tried, logged,
  \* how often the client took a text well
  taken,
  \* history: rows whose job was repeated after the client took the text;
  \* texts answered 200 while the number was not in use
  repeated, dropped,
  \* bound
  inboundFaults

inboundVars ==
  <<posts, answered, parsing, persisted, listening, stored, forward, tried,
    logged, taken, repeated, dropped, inboundFaults>>
hookVars == <<posts, answered, parsing, persisted, dropped>>
forwardVars == <<forward, tried, logged, taken, repeated>>

Texted == Texts \X (1..Posts)

InboundInit ==
  /\ posts = [t \in Texts |-> 0] /\ answered = {}
  /\ parsing = {} /\ persisted = {}
  /\ listening = TRUE
  /\ stored = {}
  /\ forward = [w \in Texted |-> "none"]
  /\ tried = [w \in Texted |-> 0]
  /\ logged = [w \in Texted |-> 0]
  /\ taken = [w \in Texted |-> 0]
  /\ repeated = {} /\ dropped = {}
  /\ inboundFaults = 0

InboundFault == /\ inboundFaults < InboundFaults
                /\ inboundFaults' = inboundFaults + 1

-----------------------------------------------------------------------------
\* The webhook.  The telco posts again what was not answered 200, or not in
\* time: the handlers of two posts of a text may run at once.
PostText(t) ==
  /\ t \notin answered /\ posts[t] < Posts
  /\ posts' = [posts EXCEPT ![t] = @ + 1]
  /\ parsing' = parsing \cup {<<t, posts[t] + 1>>}
  /\ UNCHANGED <<answered, persisted, listening, stored, forwardVars, dropped,
                 inboundFaults>>

\* The number is released.
StopListening ==
  /\ listening
  /\ listening' = FALSE
  /\ UNCHANGED <<hookVars, stored, forwardVars, inboundFaults>>

\* A trigger that adds no job.
StoreUnqueued(w) ==
  /\ w \in parsing /\ w[1] \notin Malformed /\ listening
  /\ stored' = stored \cup {w}
  /\ parsing' = parsing \ {w}
  /\ persisted' = persisted \cup {w}
  /\ UNCHANGED <<posts, answered, listening, forwardVars, dropped, inboundFaults>>

\* The row of a number that is in use, with the job its trigger adds.
PresistIncomingMessage(w) ==
  /\ w \in parsing /\ w[1] \notin Malformed /\ listening
  /\ stored' = stored \cup {w}
  /\ forward' = [forward EXCEPT ![w] = "queued"]
  /\ parsing' = parsing \ {w}
  /\ persisted' = persisted \cup {w}
  /\ UNCHANGED <<posts, answered, listening, tried, logged, taken, repeated,
                 dropped, inboundFaults>>

Answer200(w) ==
  /\ w \in persisted
  /\ persisted' = persisted \ {w}
  /\ answered' = answered \cup {w[1]}
  /\ UNCHANGED <<posts, parsing, listening, stored, forwardVars, dropped, inboundFaults>>

\* A short code, or SI000 of the trigger: answered 200 and forgotten.
Ignore(w) ==
  /\ w \in parsing /\ (w[1] \in Malformed \/ ~listening)
  /\ parsing' = parsing \ {w}
  /\ answered' = answered \cup {w[1]}
  /\ dropped' = IF w[1] \in Malformed THEN dropped ELSE dropped \cup {w[1]}
  /\ UNCHANGED <<posts, persisted, listening, stored, forwardVars, inboundFaults>>

\* An error answered 200.
Swallow(w) ==
  /\ w \in parsing \cup persisted /\ InboundFault
  /\ parsing' = parsing \ {w} /\ persisted' = persisted \ {w}
  /\ answered' = answered \cup {w[1]}
  /\ UNCHANGED <<posts, listening, stored, forwardVars, dropped>>

\* Any other error is answered 500, and a crash or a lost answer not at all.
Refuse(w) ==
  /\ w \in parsing \cup persisted /\ InboundFault
  /\ parsing' = parsing \ {w} /\ persisted' = persisted \ {w}
  /\ UNCHANGED <<posts, answered, listening, stored, forwardVars, dropped>>

-----------------------------------------------------------------------------
\* The job: post to the client, record the attempt, throw when the client did
\* not take it.
StartForward(w) ==
  /\ forward[w] = "queued"
  /\ forward' = [forward EXCEPT ![w] = "posting"]
  /\ tried' = [tried EXCEPT ![w] = @ + 1]
  /\ UNCHANGED <<hookVars, listening, stored, logged, taken, repeated, inboundFaults>>

ClientTakes(w) ==
  /\ forward[w] = "posting"
  /\ taken' = [taken EXCEPT ![w] = @ + 1]
  /\ forward' = [forward EXCEPT ![w] = "taken"]
  /\ UNCHANGED <<hookVars, listening, stored, tried, logged, repeated, inboundFaults>>

ClientRefuses(w) ==
  /\ forward[w] = "posting" /\ InboundFault
  /\ forward' = [forward EXCEPT ![w] = "refused"]
  /\ UNCHANGED <<hookVars, listening, stored, tried, logged, taken, repeated>>

\* A retry; after the last attempt the job is parked, or lost with its worker.
Again(w) == forward' = [forward EXCEPT ![w] =
                          IF tried[w] = InboundAttempts THEN "over" ELSE "queued"]

LogAttempt(w) ==
  /\ forward[w] \in {"taken", "refused"}
  /\ logged' = [logged EXCEPT ![w] = @ + 1]
  /\ UNCHANGED <<hookVars, listening, stored, tried, taken, repeated, inboundFaults>>

LogThrows(w) == LogAttempt(w) /\ Again(w)

EndAttempt(w) ==
  /\ LogAttempt(w)
  /\ \/ forward[w] = "taken" /\ forward' = [forward EXCEPT ![w] = "done"]
     \/ forward[w] = "refused" /\ Again(w)

\* No answer of the client, the attempt is not recorded, or the worker dies,
\* before the record or after it.
ForwardFails(w) ==
  /\ forward[w] \in {"posting", "taken", "refused"} /\ InboundFault
  /\ \/ UNCHANGED <<taken, logged>>
     \/ /\ forward[w] = "posting"
        /\ taken' = [taken EXCEPT ![w] = @ + 1]
        /\ UNCHANGED logged
     \/ /\ forward[w] # "posting"
        /\ logged' = [logged EXCEPT ![w] = @ + 1]
        /\ UNCHANGED taken
  /\ repeated' = IF taken'[w] > 0 THEN repeated \cup {w} ELSE repeated
  /\ Again(w)
  /\ UNCHANGED <<hookVars, listening, stored, tried>>

ForwardTextStep(w) == StartForward(w) \/ ClientTakes(w) \/ EndAttempt(w)

InboundNext ==
  \/ StopListening
  \/ \E t \in Texts : PostText(t)
  \/ \E w \in Texted : \/ PresistIncomingMessage(w) \/ Answer200(w)
                     \/ Ignore(w) \/ Refuse(w)
                     \/ ForwardTextStep(w) \/ ClientRefuses(w) \/ ForwardFails(w)

InboundFairness == \A w \in Texted : WF_inboundVars(ForwardTextStep(w))
InboundSpec == InboundInit /\ [][InboundNext]_inboundVars

-----------------------------------------------------------------------------
(* Shape of the state of replies.ts and forward-inbound-message: a job has no
   more attempts than its max_attempts, and an attempt one record. *)
InboundTypeOK ==
  /\ posts \in [Texts -> 0..Posts]
  /\ answered \subseteq Texts /\ dropped \subseteq answered
  /\ parsing \subseteq Texted /\ persisted \subseteq stored /\ stored \subseteq Texted
  /\ forward \in [Texted -> {"none", "queued", "posting", "taken", "refused",
                           "done", "over"}]
  /\ tried \in [Texted -> 0..InboundAttempts]
  /\ logged \in [Texted -> Nat] /\ taken \in [Texted -> Nat]
  /\ \A w \in Texted : logged[w] <= tried[w] /\ taken[w] <= tried[w]
  /\ repeated \subseteq stored
  /\ inboundFaults \in 0..InboundFaults

(* The telco forgets a text only when it is stored, or is one the server
   ignores: every other error leaves it to be posted again. *)
AnsweredIsKept ==
  \A t \in answered \ (Malformed \cup dropped) :
    \E k \in 1..Posts : <<t, k>> \in stored

(* A job that is done told the client of its text, and the attempt is on
   record (the insert of the attempt comes before the check of response.ok). *)
DoneWasTaken ==
  \A w \in Texted : forward[w] = "done" => taken[w] > 0 /\ logged[w] > 0

(* The client takes the text of a row twice only if the job failed after it
   took it, so that the retry could not know. *)
TakenOnce == \A w \in Texted \ repeated : taken[w] <= 1

(* The client has each row that was forwarded, and has it once but for faults
   (forward-inbound-message). *)
DeliveredOnce == DoneWasTaken /\ TakenOnce

(* A stored text reaches the client, or its job is parked or lost. *)
EventuallyForwarded ==
  \A w \in Texted : w \in stored ~> taken[w] > 0 \/ forward[w] = "over"
=============================================================================
