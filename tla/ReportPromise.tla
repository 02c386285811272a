--------------------------- MODULE ReportPromise ----------------------------
(***************************************************************************)
(* What the delivery of reports promises the client of one Switchboard:   *)
(* a webhook tells it only of events that happened to its messages and    *)
(* that were recorded first, and nothing that was recorded or told is     *)
(* taken back.  It does not promise order, nor that an event is told once.*)
(***************************************************************************)
CONSTANT Events   \* what can happen to a message of the client

VARIABLES
  happened,  \* the events that happened
  recorded,  \* those that were recorded against their message
  told       \* those the client's webhook has received

vars == <<happened, recorded, told>>

TypeOK == /\ told \subseteq recorded
          /\ recorded \subseteq happened
          /\ happened \subseteq Events

Init == happened = {} /\ recorded = {} /\ told = {}

Happen(e) == /\ e \notin happened
             /\ happened' = happened \cup {e}
             /\ UNCHANGED <<recorded, told>>

\* A batch records several events at once.
Record == /\ recorded' # recorded
          /\ recorded \subseteq recorded'
          /\ recorded' \subseteq happened
          /\ UNCHANGED <<happened, told>>

\* An event the server itself decides on is recorded as it happens.
HappenRecorded(e) == /\ happened' = happened \cup {e}
                     /\ recorded' = recorded \cup {e}
                     /\ UNCHANGED told

Tell(e) == /\ e \in recorded
           /\ told' = told \cup {e}
           /\ UNCHANGED <<happened, recorded>>

Next == \/ \E e \in Events : Happen(e) \/ HappenRecorded(e) \/ Tell(e)
        \/ Record

Spec == Init /\ [][Next]_vars
=============================================================================
