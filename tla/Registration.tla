--------------------------- MODULE Registration ---------------------------
(***************************************************************************)
(* POST /register: an administrator sets up a client, its profiles and     *)
(* their sending locations in one transaction, which makes a messaging     *)
(* profile at Telnyx for each of them on its way.  The transaction can be  *)
(* rolled back, the messaging profiles cannot.                             *)
(*                                                                         *)
(* The handler takes a connection of a pool before it looks at the         *)
(* payload, and never gives it back.                                       *)
(***************************************************************************)
EXTENDS Integers

CONSTANTS
  Calls,              \* calls of the endpoint
  Invalid,            \* those whose payload validatePayload rejects
  Profiles,           \* profiles a call asks for
  PoolSize,           \* connections of the pool
  RegistrationFaults  \* bound on failing calls and statements, and restarts

ASSUME RegistrationAssumption ==
  /\ Invalid \subseteq Calls
  /\ Profiles \in Nat /\ PoolSize \in Nat /\ RegistrationFaults \in Nat

VARIABLES
  \* the handler of a call, and its answer
  handler, response,
  \* profiles of the transaction, those committed, those made at Telnyx
  profileRows, registered, made,
  \* connections taken from the pool
  connections,
  \* bound
  registrationFaults

registrationVars == <<handler, response, profileRows, registered, made, connections,
                      registrationFaults>>

RegistrationInit ==
  /\ handler = [c \in Calls |-> "none"]
  /\ response = [c \in Calls |-> 0]
  /\ profileRows = [c \in Calls |-> 0]
  /\ registered = [c \in Calls |-> 0]
  /\ made = [c \in Calls |-> 0]
  /\ connections = 0
  /\ registrationFaults = 0

RegistrationFault == /\ registrationFaults < RegistrationFaults
                     /\ registrationFaults' = registrationFaults + 1
Handles(c, from, to) == handler[c] = from /\ handler' = [handler EXCEPT ![c] = to]
Answers(c, status) == response' = [response EXCEPT ![c] = status]

-----------------------------------------------------------------------------
CallRegister(c) ==
  /\ Handles(c, "none", "connect")
  /\ UNCHANGED <<response, profileRows, registered, made, connections,
                 registrationFaults>>

\* pool.connect() waits while all connections are taken.
Connect(c) ==
  /\ connections < PoolSize
  /\ connections' = connections + 1
  /\ Handles(c, "connect", "begin")
  /\ UNCHANGED <<response, profileRows, registered, made, registrationFaults>>

\* Outside of the handler's try: nothing answers.
ConnectFails(c) ==
  /\ RegistrationFault
  /\ Handles(c, "connect", "lost")
  /\ UNCHANGED <<response, profileRows, registered, made, connections>>

ValidatePayload(c) ==
  /\ c \in Invalid
  /\ Handles(c, "begin", "end") /\ Answers(c, 400)
  /\ UNCHANGED <<profileRows, registered, made, connections, registrationFaults>>

Begin(c) ==
  /\ c \notin Invalid
  /\ Handles(c, "begin", "make")
  /\ UNCHANGED <<response, profileRows, registered, made, connections,
                 registrationFaults>>

\* Nor is the begin inside of it.
BeginFails(c) ==
  /\ c \notin Invalid /\ RegistrationFault
  /\ Handles(c, "begin", "lost")
  /\ UNCHANGED <<response, profileRows, registered, made, connections>>

SetUpProfile(c) ==
  /\ profileRows[c] < Profiles
  /\ Handles(c, "make", "insert")
  /\ made' = [made EXCEPT ![c] = @ + 1]
  /\ UNCHANGED <<response, profileRows, registered, connections, registrationFaults>>

InsertProfile(c) ==
  /\ Handles(c, "insert", "make")
  /\ profileRows' = [profileRows EXCEPT ![c] = @ + 1]
  /\ UNCHANGED <<response, registered, made, connections, registrationFaults>>

NotAwaited(c) == TRUE

\* The loop over the profiles has ended, each of its calls awaited.
AllInserted(c) == profileRows[c] = Profiles

CommitRegistration(c) ==
  /\ AllInserted(c)
  /\ Handles(c, "make", "end") /\ Answers(c, 200)
  /\ registered' = [registered EXCEPT ![c] = profileRows[c]]
  /\ UNCHANGED <<profileRows, made, connections, registrationFaults>>

\* Telnyx, or a statement, fails: Telnyx may have made the profile all the same.
MayBeMade(c) ==
  made' \in {made} \cup (IF handler[c] = "make" /\ profileRows[c] < Profiles
                         THEN {[made EXCEPT ![c] = @ + 1]} ELSE {})

FailUnanswered(c) ==
  /\ handler[c] \in {"make", "insert"} /\ RegistrationFault
  /\ handler' = [handler EXCEPT ![c] = "rolledback"]
  /\ UNCHANGED <<response, profileRows, registered, made, connections>>

RollbackRegistration(c) ==
  /\ handler[c] \in {"make", "insert"} /\ RegistrationFault
  /\ handler' = [handler EXCEPT ![c] = "end"]
  /\ Answers(c, 500)
  /\ MayBeMade(c)
  /\ UNCHANGED <<profileRows, registered, connections>>

\* The rollback itself fails, as on a connection that is gone: nothing answers.
RollbackFails(c) ==
  /\ handler[c] \in {"make", "insert"} /\ RegistrationFault
  /\ handler' = [handler EXCEPT ![c] = "lost"]
  /\ MayBeMade(c)
  /\ UNCHANGED <<response, profileRows, registered, connections>>

\* The commit takes effect and its answer is lost with the connection.
CommitUnanswered(c) ==
  /\ AllInserted(c) /\ RegistrationFault
  /\ Handles(c, "make", "lost")
  /\ registered' = [registered EXCEPT ![c] = profileRows[c]]
  /\ UNCHANGED <<response, profileRows, made, connections>>

\* A restart of the server: its connections are gone, and what they had begun.
RestartServer ==
  /\ RegistrationFault
  /\ connections > 0
  /\ connections' = 0
  /\ handler' = [c \in Calls |-> IF handler[c] \in {"none", "end"} THEN handler[c]
                                                                   ELSE "lost"]
  /\ UNCHANGED <<response, profileRows, registered, made>>

RegistrationStep(c) == \/ Connect(c) \/ ValidatePayload(c) \/ Begin(c) \/ SetUpProfile(c)
                       \/ InsertProfile(c) \/ CommitRegistration(c)

RegistrationNext ==
  \/ \E c \in Calls : \/ CallRegister(c) \/ RegistrationStep(c)
                      \/ ConnectFails(c) \/ BeginFails(c) \/ RollbackRegistration(c)
                      \/ RollbackFails(c) \/ CommitUnanswered(c)
  \/ RestartServer

RegistrationSpec == RegistrationInit /\ [][RegistrationNext]_registrationVars
RegistrationFairness == \A c \in Calls : WF_registrationVars(RegistrationStep(c))

-----------------------------------------------------------------------------
(* Shape of the state of the handler of /register. *)
RegistrationTypeOK ==
  /\ handler \in [Calls -> {"none", "connect", "begin", "make", "insert", "end", "lost"}]
  /\ response \in [Calls -> {0, 200, 400, 500}]
  /\ profileRows \in [Calls -> 0..Profiles]
  /\ registered \in [Calls -> {0, Profiles}]
  /\ made \in [Calls -> 0..(Profiles + 1)]
  /\ \A c \in Calls : made[c] <= profileRows[c] + 1
  /\ connections \in 0..PoolSize
  /\ registrationFaults \in 0..RegistrationFaults

(* A call that is answered 200 has all its profiles, each with its messaging
   profile at Telnyx; messaging profiles without one are left only by calls
   that failed, were lost, or are under way. *)
RegisteredWhole ==
  \A c \in Calls :
    /\ response[c] = 200 => registered[c] = Profiles
    /\ made[c] > registered[c] =>
         response[c] = 500 \/ handler[c] \in {"make", "insert", "lost"}

(* A call is answered, or lost with its server or to a failure that nothing
   catches, or it waits for a pool whose connections are all taken: by calls
   that are over, each of which keeps its own. *)
RegisterAnswered ==
  \A c \in Calls :
    handler[c] # "none" ~> \/ handler[c] \in {"end", "lost"}
                           \/ handler[c] = "connect" /\ connections = PoolSize
=============================================================================
