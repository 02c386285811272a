-------------------------- MODULE MCMessageRouting --------------------------
(* Instances of MessageRouting for TLC.  Messages m1 and m2 go to Alice, m3
   to Bob.  A run explores several scenarios, one per behaviour: each leaves
   out a message or a fault, so that the others stay affordable together. *)
EXTENDS MessageRouting, TLC

CONSTANTS m1, m2, m3, alice, bob, Scenarios
VARIABLE scenario

MCContactOf == [m \in Messages |-> IF m = m3 THEN bob ELSE alice]
Strangers == {}
Acquaintances == {bob}
Familiar == INSTANCE MessageRouting WITH Known <- Acquaintances
RequestSymmetry == Permutations(Requests) \cup Permutations({m1, m2})

Within ==
  CASE scenario = "requests" -> flushes = 0
    [] scenario = "flush" -> job[m3] = "absent"
    [] scenario = "numbers" -> crashes = 0
    [] scenario = "crash" -> errors = 0 /\ "absent" \in {job[m1], job[m2]}
    [] scenario \in {"all", "familiar"} -> TRUE

ScenarioInit == /\ scenario \in Scenarios
                /\ IF scenario = "familiar" THEN Familiar!Init ELSE Init
ScenarioNext == Next /\ UNCHANGED scenario /\ Within'

ScenarioSpec == ScenarioInit /\ [][ScenarioNext]_<<vars, scenario>>
FairScenarioSpec == ScenarioSpec /\ Fairness
=============================================================================
