-------------------------- MODULE RegistrationProofs -------------------------
(***************************************************************************)
(* Theorems of Registration, for any number of calls, profiles,            *)
(* connections and faults: a call that is answered 200 has all it asked    *)
(* for, and messaging profiles at Telnyx that nothing refers to are left   *)
(* only by calls that failed, were lost, or are under way.                 *)
(***************************************************************************)
EXTENDS Registration, TLAPS

\* What a call has made and inserted so far, by where its handler is.
ProgressOK ==
  \A c \in Calls :
    /\ handler[c] \in {"none", "connect", "begin"} => made[c] = 0
    /\ handler[c] \in {"none", "connect", "begin"} => profileRows[c] = 0
    /\ handler[c] = "make" => made[c] = profileRows[c]
    /\ handler[c] = "insert" => made[c] = profileRows[c] + 1
    /\ handler[c] = "insert" => profileRows[c] < Profiles
    /\ response[c] \in {0, 400} /\ handler[c] # "lost" => registered[c] = 0
    /\ response[c] = 0 <=> handler[c] # "end"
    /\ response[c] = 200 => registered[c] = Profiles /\ made[c] = Profiles
    /\ response[c] = 400 => made[c] = 0

RInv == RegistrationTypeOK /\ ProgressOK

LEMMA InitRInv == RegistrationInit => RInv
BY RegistrationAssumption DEF RegistrationInit, RInv, RegistrationTypeOK, ProgressOK

LEMMA StepRInv == RInv /\ [RegistrationNext]_registrationVars => RInv'
<1> SUFFICES ASSUME RInv, [RegistrationNext]_registrationVars PROVE RInv'
  OBVIOUS
<1> USE RegistrationAssumption DEF RInv, RegistrationTypeOK, ProgressOK, Handles, Answers
<1>1. ASSUME NEW c \in Calls, CallRegister(c) PROVE RInv'
  BY <1>1 DEF CallRegister
<1>2. ASSUME NEW c \in Calls, Connect(c) PROVE RInv'
  BY <1>2 DEF Connect
<1>3. ASSUME NEW c \in Calls, ValidatePayload(c) PROVE RInv'
  BY <1>3 DEF ValidatePayload
<1>4. ASSUME NEW c \in Calls, Begin(c) PROVE RInv'
  BY <1>4 DEF Begin
<1>5. ASSUME NEW c \in Calls, SetUpProfile(c) PROVE RInv'
  BY <1>5 DEF SetUpProfile
<1>6. ASSUME NEW c \in Calls, InsertProfile(c) PROVE RInv'
  BY <1>6 DEF InsertProfile
<1>7. ASSUME NEW c \in Calls, CommitRegistration(c) PROVE RInv'
  BY <1>7 DEF CommitRegistration, AllInserted
<1>8. ASSUME NEW c \in Calls, ConnectFails(c) \/ BeginFails(c) PROVE RInv'
  BY <1>8 DEF ConnectFails, BeginFails, RegistrationFault
<1>9. ASSUME NEW c \in Calls, RollbackRegistration(c) PROVE RInv'
  BY <1>9 DEF RollbackRegistration, MayBeMade, RegistrationFault
<1>10. ASSUME NEW c \in Calls, RollbackFails(c) PROVE RInv'
  BY <1>10 DEF RollbackFails, MayBeMade, RegistrationFault
<1>11. ASSUME NEW c \in Calls, CommitUnanswered(c) PROVE RInv'
  BY <1>11 DEF CommitUnanswered, AllInserted, RegistrationFault
<1>12. CASE RestartServer
  BY <1>12 DEF RestartServer, RegistrationFault
<1>13. CASE UNCHANGED registrationVars
  BY <1>13 DEF registrationVars
<1> QED
  BY <1>1, <1>2, <1>3, <1>4, <1>5, <1>6, <1>7, <1>8, <1>9,
     <1>10, <1>11, <1>12, <1>13
     DEF RegistrationNext, RegistrationStep

LEMMA InductiveRegistration == RegistrationSpec => []RInv
BY InitRInv, StepRInv, PTL DEF RegistrationSpec

\* The state of every handler has its shape, and calls take no more connections
\* than the pool has (the handler of /register).
THEOREM RegistrationTypeCorrect == RegistrationSpec => []RegistrationTypeOK
<1>1. RInv => RegistrationTypeOK
  BY DEF RInv
<1> QED BY <1>1, InductiveRegistration, PTL

\* A registration that is answered 200 is whole, and only those that failed, were
\* lost or are under way leave messaging profiles without a profile (the handler
\* of /register).
THEOREM WholeOrFailed == RegistrationSpec => []RegisteredWhole
<1>1. ASSUME RInv, NEW c \in Calls
      PROVE  /\ response[c] = 200 => registered[c] = Profiles
             /\ made[c] > registered[c] =>
                  response[c] = 500 \/ handler[c] \in {"make", "insert", "lost"}
  <2>1. /\ made[c] \in Nat /\ registered[c] \in Nat
        /\ response[c] \in {0, 200, 400, 500}
        /\ handler[c] \in {"none", "connect", "begin", "make", "insert", "end", "lost"}
    BY <1>1, RegistrationAssumption DEF RInv, RegistrationTypeOK
  <2>2. CASE handler[c] \in {"none", "connect", "begin"}
    BY <1>1, <2>1, <2>2 DEF RInv, ProgressOK
  <2>3. CASE handler[c] = "end"
    BY <1>1, <2>1, <2>3 DEF RInv, ProgressOK
  <2>4. CASE handler[c] \in {"make", "insert", "lost"}
    BY <1>1, <2>4 DEF RInv, ProgressOK
  <2> QED BY <2>1, <2>2, <2>3, <2>4
<1>2. RInv => RegisteredWhole
  BY <1>1 DEF RegisteredWhole
<1> QED BY <1>2, InductiveRegistration, PTL
=============================================================================
