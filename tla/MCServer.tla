------------------------------ MODULE MCServer ------------------------------
(***************************************************************************)
(* The parts of the API server and of the process around it that share no  *)
(* state, and the update of the manufacturers' prefixes it starts, checked *)
(* side by side: each behaviour is one of one part, the others stay where  *)
(* they began.                                                             *)
(***************************************************************************)
EXTENDS EventFanout, AlertLog, RequestGate, NodeLifecycle, RuntimeSettings, IntelUpdate

VARIABLE part

vars == <<fanoutVars, logVars, gateVars, lifeVars, settingsVars, intelVars, part>>

Init ==
  /\ FanoutInit /\ LogInit /\ GateInit /\ LifeInit /\ SettingsInit /\ IntelInit
  /\ part \in {"fanout", "log", "gate", "life", "settings", "intel"}
  /\ part # "settings" => yaml["rate"] = 0

Next ==
  /\ \/ /\ part = "fanout" /\ FanoutNext
        /\ UNCHANGED <<logVars, gateVars, lifeVars, settingsVars, intelVars>>
     \/ /\ part = "log" /\ LogNext
        /\ UNCHANGED <<fanoutVars, gateVars, lifeVars, settingsVars, intelVars>>
     \/ /\ part = "gate" /\ GateNext
        /\ UNCHANGED <<fanoutVars, logVars, lifeVars, settingsVars, intelVars>>
     \/ /\ part = "life" /\ LifeNext
        /\ UNCHANGED <<fanoutVars, logVars, gateVars, settingsVars, intelVars>>
     \/ /\ part = "settings" /\ SettingsNext
        /\ UNCHANGED <<fanoutVars, logVars, gateVars, lifeVars, intelVars>>
     \/ /\ part = "intel" /\ IntelNext
        /\ UNCHANGED <<fanoutVars, logVars, gateVars, lifeVars, settingsVars>>
  /\ UNCHANGED part

Spec == Init /\ [][Next]_vars
=============================================================================
