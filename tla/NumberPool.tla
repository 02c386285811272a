----------------------------- MODULE NumberPool -----------------------------
(***************************************************************************)
(* What number purchasing promises the rest of the system: a request for a *)
(* phone number is fulfilled at most once, and each fulfilment adds to the *)
(* sending location exactly one number that was not in it.                 *)
(***************************************************************************)
EXTENDS Naturals

CONSTANTS Requests, Stock

VARIABLES
  state,   \* each request: unused, pending or fulfilled
  live     \* how many live rows of sms.phone_numbers each number has

pool == <<state, live>>

Init ==
  /\ state = [r \in Requests |-> "unused"]
  /\ live = [n \in Stock |-> 0]

Ask(r) ==
  /\ state[r] = "unused"
  /\ state' = [state EXCEPT ![r] = "pending"]
  /\ UNCHANGED live

Fulfil(r, n) ==
  /\ state[r] = "pending"
  /\ live[n] = 0
  /\ state' = [state EXCEPT ![r] = "fulfilled"]
  /\ live' = [live EXCEPT ![n] = 1]

Next == \E r \in Requests : Ask(r) \/ \E n \in Stock : Fulfil(r, n)

Spec == Init /\ [][Next]_pool
=============================================================================
