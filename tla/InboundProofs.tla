--------------------------- MODULE InboundProofs ---------------------------
(***************************************************************************)
(* Theorems of InboundMessages, for any number of texts, posts, attempts   *)
(* and faults: a text whose webhook was answered 200 is stored or is one   *)
(* the server ignores, and a job that ends well has told its client, once  *)
(* unless it was repeated after a fault.                                   *)
(***************************************************************************)
EXTENDS InboundMessages, TLAPS

\* A post under way has a number the telco has used, and no row yet; a row has
\* a job from its insert on.
PostsOK ==
  /\ \A w \in parsing \cup stored : w[2] <= posts[w[1]]
  /\ parsing \cap stored = {}
  /\ \A w \in Texted : forward[w] = "none" <=> w \notin stored

\* An attempt is counted before it tells the client or is recorded, and a job
\* that waits has one left.
AttemptsOK ==
  \A w \in Texted :
    /\ forward[w] = "none" => tried[w] = 0
    /\ forward[w] = "queued" => tried[w] < InboundAttempts
    /\ forward[w] = "posting" => taken[w] < tried[w]
    /\ forward[w] \in {"posting", "taken", "refused"} => logged[w] < tried[w]

\* What the client was told, by the state of the job.
ToldOK ==
  \A w \in Texted :
    /\ forward[w] \in {"taken", "done"} => taken[w] > 0
    /\ forward[w] = "done" => logged[w] > 0
    /\ w \notin repeated =>
         taken[w] = IF forward[w] \in {"taken", "done"} THEN 1 ELSE 0

IInv == InboundTypeOK /\ PostsOK /\ AttemptsOK /\ ToldOK /\ AnsweredIsKept

LEMMA InitIInv == InboundInit => IInv
BY InboundAssumption
DEF InboundInit, IInv, InboundTypeOK, PostsOK, AttemptsOK, ToldOK, AnsweredIsKept, Texted

\* The steps of the webhook leave the jobs alone, but for the one it adds.
LEMMA HookStep ==
  ASSUME IInv,
         \/ \E t \in Texts : PostText(t)
         \/ \E w \in Texted : \/ PresistIncomingMessage(w) \/ Answer200(w)
                              \/ Ignore(w) \/ Refuse(w)
         \/ StopListening
  PROVE  IInv'
<1> USE InboundAssumption
<1>1. CASE StopListening
  BY <1>1 DEF StopListening, IInv, InboundTypeOK, PostsOK, AttemptsOK, ToldOK,
              AnsweredIsKept, hookVars, forwardVars
<1>2. ASSUME NEW t \in Texts, PostText(t) PROVE IInv'
  <2> DEFINE p == <<t, posts[t] + 1>>
  <2>1. p \in Texted /\ p \notin stored /\ p[1] = t /\ p[2] = posts[t] + 1
    BY <1>2 DEF PostText, IInv, InboundTypeOK, PostsOK, Texted
  <2>2. posts' = [posts EXCEPT ![t] = @ + 1] /\ parsing' = parsing \cup {p}
    BY <1>2 DEF PostText
  <2>3. UNCHANGED <<answered, persisted, listening, stored, forwardVars, dropped,
                    inboundFaults>>
    BY <1>2 DEF PostText
  <2>4. InboundTypeOK'
    BY <1>2, <2>1, <2>2, <2>3 DEF PostText, IInv, InboundTypeOK, forwardVars
  <2>5. PostsOK'
    <3>1. \A w \in parsing' \cup stored' : w[2] <= posts'[w[1]]
      <4>1. SUFFICES ASSUME NEW w \in parsing \cup stored \cup {p}
                     PROVE  w[2] <= posts'[w[1]]
        BY <2>2, <2>3
      <4>2. w \in Texted /\ w[1] \in Texts /\ w[2] \in Nat
        BY <2>1 DEF IInv, InboundTypeOK, Texted
      <4>3. CASE w = p
        BY <4>3, <2>1, <2>2 DEF IInv, InboundTypeOK
      <4>4. CASE w # p
        <5>1. w[2] <= posts[w[1]]
          BY <4>1, <4>4 DEF IInv, PostsOK
        <5>2. posts[w[1]] \in Nat /\ posts[t] \in Nat
          BY <4>2, <1>2 DEF IInv, InboundTypeOK
        <5>3. posts'[w[1]] = posts[w[1]] \/ posts'[w[1]] = posts[w[1]] + 1
          BY <4>2, <2>2 DEF IInv, InboundTypeOK
        <5> QED BY <5>1, <5>2, <5>3, <4>2
      <4> QED BY <4>3, <4>4
    <3> QED BY <3>1, <2>1, <2>2, <2>3 DEF IInv, PostsOK, forwardVars
  <2>6. AttemptsOK' /\ ToldOK' /\ AnsweredIsKept'
    BY <2>3 DEF IInv, AttemptsOK, ToldOK, AnsweredIsKept, forwardVars
  <2> QED BY <2>4, <2>5, <2>6 DEF IInv
<1>3. ASSUME NEW w \in Texted, PresistIncomingMessage(w) PROVE IInv'
  <2>1. /\ w \notin stored /\ forward[w] = "none" /\ tried[w] = 0
        /\ logged[w] = 0 /\ taken[w] = 0
    BY <1>3 DEF PresistIncomingMessage, IInv, InboundTypeOK, PostsOK, AttemptsOK
  <2>2. InboundTypeOK'
    BY <1>3 DEF PresistIncomingMessage, IInv, InboundTypeOK
  <2>3. PostsOK'
    BY <1>3, <2>1 DEF PresistIncomingMessage, IInv, InboundTypeOK, PostsOK
  <2>4. AttemptsOK'
    BY <1>3, <2>1 DEF PresistIncomingMessage, IInv, InboundTypeOK, AttemptsOK
  <2>5. ToldOK'
    BY <1>3, <2>1 DEF PresistIncomingMessage, IInv, InboundTypeOK, ToldOK
  <2>6. AnsweredIsKept'
    BY <1>3 DEF PresistIncomingMessage, IInv, AnsweredIsKept
  <2> QED BY <2>2, <2>3, <2>4, <2>5, <2>6 DEF IInv
<1>4. ASSUME NEW w \in Texted, Answer200(w) PROVE IInv'
  <2>1. w[1] \in Texts /\ w[2] \in 1..Posts /\ w = <<w[1], w[2]>> /\ w \in stored
    BY <1>4 DEF Answer200, IInv, InboundTypeOK, Texted
  <2>2. InboundTypeOK'
    BY <1>4, <2>1 DEF Answer200, IInv, InboundTypeOK, forwardVars
  <2>3. AnsweredIsKept'
    BY <1>4, <2>1 DEF Answer200, IInv, AnsweredIsKept
  <2> QED BY <1>4, <2>2, <2>3 DEF Answer200, IInv, PostsOK, AttemptsOK, ToldOK,
                                  forwardVars
<1>5. ASSUME NEW w \in Texted, Ignore(w) PROVE IInv'
  <2>1. w[1] \in Texts
    BY DEF Texted
  <2>2. InboundTypeOK'
    BY <1>5, <2>1 DEF Ignore, IInv, InboundTypeOK, forwardVars
  <2>3. AnsweredIsKept'
    BY <1>5, <2>1 DEF Ignore, IInv, AnsweredIsKept
  <2> QED BY <1>5, <2>2, <2>3 DEF Ignore, IInv, PostsOK, AttemptsOK, ToldOK, forwardVars
<1>6. ASSUME NEW w \in Texted, Refuse(w) PROVE IInv'
  BY <1>6 DEF Refuse, InboundFault, IInv, InboundTypeOK, PostsOK, AttemptsOK, ToldOK,
              AnsweredIsKept, forwardVars
<1> QED BY <1>1, <1>2, <1>3, <1>4, <1>5, <1>6

\* The steps of a job leave the webhook alone.
LEMMA JobStep ==
  ASSUME IInv, NEW w \in Texted,
         ForwardTextStep(w) \/ ClientRefuses(w) \/ ForwardFails(w)
  PROVE  IInv'
<1> USE InboundAssumption
<1>1. CASE StartForward(w)
  BY <1>1 DEF StartForward, IInv, InboundTypeOK, PostsOK, AttemptsOK, ToldOK,
              AnsweredIsKept, hookVars
<1>2. CASE ClientTakes(w)
  BY <1>2 DEF ClientTakes, IInv, InboundTypeOK, PostsOK, AttemptsOK, ToldOK,
              AnsweredIsKept, hookVars
<1>3. CASE EndAttempt(w)
  BY <1>3 DEF EndAttempt, LogAttempt, Again, IInv, InboundTypeOK, PostsOK, AttemptsOK,
              ToldOK, AnsweredIsKept, hookVars
<1>4. CASE ClientRefuses(w)
  BY <1>4 DEF ClientRefuses, InboundFault, IInv, InboundTypeOK, PostsOK, AttemptsOK,
              ToldOK, AnsweredIsKept, hookVars
<1>5. CASE ForwardFails(w)
  <2>1. w \in stored
    BY <1>5 DEF ForwardFails, IInv, PostsOK
  <2>2. InboundTypeOK'
    BY <1>5, <2>1 DEF ForwardFails, InboundFault, Again, IInv, InboundTypeOK, AttemptsOK,
                      hookVars
  <2>3. PostsOK' /\ AnsweredIsKept'
    BY <1>5, <2>1 DEF ForwardFails, Again, IInv, InboundTypeOK, PostsOK, AnsweredIsKept,
                      hookVars
  <2>4. AttemptsOK'
    BY <1>5 DEF ForwardFails, Again, IInv, InboundTypeOK, AttemptsOK
  <2>5. ToldOK'
    BY <1>5 DEF ForwardFails, Again, IInv, InboundTypeOK, ToldOK
  <2> QED BY <2>2, <2>3, <2>4, <2>5 DEF IInv
<1> QED BY <1>1, <1>2, <1>3, <1>4, <1>5 DEF ForwardTextStep

LEMMA StepIInv == IInv /\ [InboundNext]_inboundVars => IInv'
<1> SUFFICES ASSUME IInv, [InboundNext]_inboundVars PROVE IInv'
  OBVIOUS
<1>1. CASE InboundNext
  BY <1>1, HookStep, JobStep DEF InboundNext
<1>2. CASE UNCHANGED inboundVars
  BY <1>2 DEF inboundVars, IInv, InboundTypeOK, PostsOK, AttemptsOK, ToldOK,
              AnsweredIsKept
<1> QED BY <1>1, <1>2

LEMMA InductiveInbound == InboundSpec => []IInv
BY InitIInv, StepIInv, PTL DEF InboundSpec

\* The attempts and records of replies.ts and forward-inbound-message keep their
\* bounds.
THEOREM InboundTypeCorrect == InboundSpec => []InboundTypeOK
BY InductiveInbound, PTL DEF IInv

\* A text whose webhook the server answered 200 is stored, or ignored for a
\* reason of its own (replies.ts): no error is answered 200.
THEOREM AnsweredKept == InboundSpec => []AnsweredIsKept
BY InductiveInbound, PTL DEF IInv

\* A job of forward-inbound-message that is done told the client of its text and
\* recorded the attempt, and the client is told of a row once, unless a fault
\* repeated the job after the client had taken the text.
THEOREM DeliveredIsOnce == InboundSpec => []DeliveredOnce
<1>1. IInv => DoneWasTaken
  BY DEF IInv, ToldOK, DoneWasTaken
<1>2. IInv => TakenOnce
  BY DEF IInv, ToldOK, TakenOnce
<1> QED BY <1>1, <1>2, InductiveInbound, PTL DEF DeliveredOnce
=============================================================================
