-------------------------- MODULE MCNumberPurchase --------------------------
(* Instances of NumberPurchase for TLC.  A run explores one or several
   scenarios: the account of the run's configuration, or a Twilio account
   whose profile may get a campaign and whose calls may fail. *)
EXTENDS NumberPurchase, TLC

CONSTANT Scenarios
VARIABLE scenario

PurchaseSymmetry == Permutations(Requests) \cup Permutations(Stock)

Twilio == INSTANCE NumberPurchase WITH Service <- "twilio", MayAttach <- TRUE

Within ==
  CASE scenario = "three requests" -> errors = 0
    [] scenario = "twilio" ->
         Cardinality({r \in Requests : state[r] # "unused"}) <= 2
    [] scenario = "all" -> TRUE

ScenarioNext ==
  /\ \/ scenario # "twilio" /\ Next
     \/ scenario = "twilio" /\ Twilio!Next
  /\ UNCHANGED scenario
  /\ Within'

ScenarioInit == Init /\ scenario \in Scenarios
ScenarioSpec == ScenarioInit /\ [][ScenarioNext]_<<vars, scenario>>
FairScenarioSpec == ScenarioSpec /\ Fairness
=============================================================================
